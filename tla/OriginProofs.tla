---------------------------- MODULE OriginProofs -----------------------------
(***************************************************************************)
(* Proofs about the OpenShift backend.  First about OriginApps, for any    *)
(* projects and apps and any number of switches of oc's project: where a   *)
(* deployed app is, and that every call ends.  Then about PodReadiness,    *)
(* for any pods and any number of changes: what it means that an app or a  *)
(* deployment is found ready.  The two components share no variable.       *)
(***************************************************************************)
EXTENDS OriginApps, PodReadiness, FiniteSetTheorems, TLAPS

Deploying == pc \in {"import", "new-app", "build"}

(* A call that deploys works with the project that the checks will ask.    *)
DeployInv ==
  /\ Deploying /\ call.project # None => project = call.project
  /\ pc = "build" => home[call.app] = project \/ call.app \in killed
  /\ pc = "wait" => call.kind = "wait"

IInv == TypeOK /\ DeployInv /\ AppIsWhereChecksLook

LEMMA InitInv == Init => IInv
<1> SUFFICES ASSUME Init PROVE IInv
  OBVIOUS
<1>1. TypeOK
  <2>1. call \in [kind : Kinds \cup {"wait", "clean"}, app : Apps,
                  project : Projects \cup {None}, expects : BOOLEAN]
    BY DEF Init
  <2>2. 0 \in 0..MaxSwitch
    BY OriginAssumption
  <2> QED
    BY <2>1, <2>2 DEF Init, TypeOK, Tries
<1>2. DeployInv /\ AppIsWhereChecksLook
  BY DEF Init, DeployInv, AppIsWhereChecksLook
<1> QED
  BY <1>1, <1>2 DEF IInv

LEMMA StepInv == IInv /\ [Next]_vars => IInv'
<1> SUFFICES ASSUME IInv, [Next]_vars PROVE IInv'
  OBVIOUS
<1> USE OriginAssumption DEF IInv, TypeOK, clusterVars, callVars, Returns, Raises, Tries
<1>1. ASSUME NEW kind \in Kinds, NEW a \in Apps,
             NEW p \in Projects \cup {None}, Deploy(kind, a, p)
      PROVE IInv'
  <2>1. TypeOK'
    BY <1>1 DEF Deploy, ChooseProject
  <2>2. DeployInv'
    BY <1>1 DEF DeployInv, Deploy, ChooseProject
  <2>3. AppIsWhereChecksLook'
    BY <1>1 DEF AppIsWhereChecksLook, Deploy
  <2> QED
    BY <2>1, <2>2, <2>3
<1>2. ASSUME NEW p \in Projects \cup {None}, DeployRefused(p) PROVE IInv'
  <2>1. TypeOK'
    BY <1>2 DEF DeployRefused
  <2>2. DeployInv'
    BY <1>2 DEF DeployInv, Deploying, DeployRefused
  <2>3. AppIsWhereChecksLook'
    BY <1>2 DEF AppIsWhereChecksLook, DeployRefused
  <2> QED
    BY <2>1, <2>2, <2>3
<1>3. ASSUME ImportImage PROVE IInv'
  <2>1. TypeOK'
    BY <1>3 DEF ImportImage
  <2>2. DeployInv'
    BY <1>3 DEF DeployInv, Deploying, ImportImage
  <2>3. AppIsWhereChecksLook'
    BY <1>3 DEF AppIsWhereChecksLook, ImportImage
  <2> QED
    BY <2>1, <2>2, <2>3
<1>4. ASSUME NewAppWithoutProject PROVE IInv'
  <2>1. TypeOK'
    BY <1>4 DEF NewAppWithoutProject
  <2>2. DeployInv'
    BY <1>4 DEF DeployInv, Deploying, NewAppWithoutProject
  <2>3. AppIsWhereChecksLook'
    BY <1>4 DEF AppIsWhereChecksLook, NewAppWithoutProject
  <2> QED
    BY <2>1, <2>2, <2>3
<1>5. ASSUME NewApp PROVE IInv'
  <2>1. TypeOK'
    BY <1>5 DEF NewApp, Created
  <2>2. DeployInv'
    BY <1>5 DEF DeployInv, Deploying, NewApp, Created
  <2>3. AppIsWhereChecksLook'
    BY <1>5 DEF DeployInv, Deploying, AppIsWhereChecksLook, NewApp, Created
  <2> QED
    BY <2>1, <2>2, <2>3
<1>6. ASSUME NewAppFails PROVE IInv'
  <2>1. TypeOK'
    BY <1>6 DEF NewAppFails
  <2>2. DeployInv'
    BY <1>6 DEF DeployInv, Deploying, NewAppFails
  <2>3. AppIsWhereChecksLook'
    BY <1>6 DEF AppIsWhereChecksLook, NewAppFails
  <2> QED
    BY <2>1, <2>2, <2>3
<1>7. ASSUME Build PROVE IInv'
  <2>1. TypeOK'
    BY <1>7 DEF DeployInv, Deploying, Build, BuildReturns
  <2>2. DeployInv'
    BY <1>7 DEF DeployInv, Deploying, Build, BuildReturns
  <2>3. AppIsWhereChecksLook'
    BY <1>7 DEF DeployInv, AppIsWhereChecksLook, Build, BuildReturns
  <2> QED
    BY <2>1, <2>2, <2>3
<1>8. ASSUME BuildFails PROVE IInv'
  <2>1. TypeOK'
    BY <1>8 DEF BuildFails
  <2>2. DeployInv'
    BY <1>8 DEF DeployInv, Deploying, BuildFails
  <2>3. AppIsWhereChecksLook'
    BY <1>8 DEF AppIsWhereChecksLook, BuildFails
  <2> QED
    BY <2>1, <2>2, <2>3
<1>9. ASSUME NEW a \in Apps, NEW expects \in BOOLEAN, StartWait(a, expects)
      PROVE IInv'
  <2>1. TypeOK'
    BY <1>9 DEF StartWait
  <2>2. DeployInv'
    BY <1>9 DEF DeployInv, Deploying, StartWait
  <2>3. AppIsWhereChecksLook'
    BY <1>9 DEF AppIsWhereChecksLook, StartWait
  <2> QED
    BY <2>1, <2>2, <2>3
<1>10. ASSUME WaitPoll PROVE IInv'
  <2>1. TypeOK'
    BY <1>10 DEF WaitPoll
  <2>2. DeployInv'
    BY <1>10 DEF DeployInv, Deploying, WaitPoll
  <2>3. AppIsWhereChecksLook'
    BY <1>10 DEF DeployInv, AppIsWhereChecksLook, WaitPoll
  <2> QED
    BY <2>1, <2>2, <2>3
<1>11. ASSUME WaitTimeout PROVE IInv'
  <2>1. TypeOK'
    BY <1>11 DEF WaitTimeout
  <2>2. DeployInv'
    BY <1>11 DEF DeployInv, Deploying, WaitTimeout
  <2>3. AppIsWhereChecksLook'
    BY <1>11 DEF AppIsWhereChecksLook, WaitTimeout
  <2> QED
    BY <2>1, <2>2, <2>3
<1>12. ASSUME NEW a \in Apps, CleanProject(a) PROVE IInv'
  <2>1. TypeOK'
    BY <1>12 DEF CleanProject
  <2>2. DeployInv'
    BY <1>12 DEF DeployInv, Deploying, CleanProject
  <2>3. AppIsWhereChecksLook'
    BY <1>12 DEF AppIsWhereChecksLook, CleanProject
  <2> QED
    BY <2>1, <2>2, <2>3
<1>13. ASSUME CleanProjectRaises PROVE IInv'
  <2>1. TypeOK'
    BY <1>13 DEF CleanProjectRaises
  <2>2. DeployInv'
    BY <1>13 DEF DeployInv, Deploying, CleanProjectRaises
  <2>3. AppIsWhereChecksLook'
    BY <1>13 DEF AppIsWhereChecksLook, CleanProjectRaises
  <2> QED
    BY <2>1, <2>2, <2>3
<1>14. ASSUME ServiceChanges PROVE IInv'
  <2>1. TypeOK'
    BY <1>14 DEF ServiceChanges
  <2>2. DeployInv'
    BY <1>14 DEF DeployInv, Deploying, ServiceChanges
  <2>3. AppIsWhereChecksLook'
    BY <1>14 DEF AppIsWhereChecksLook, ServiceChanges
  <2> QED
    BY <2>1, <2>2, <2>3
<1>15. ASSUME SwitchProject PROVE IInv'
  <2>1. TypeOK'
    BY <1>15 DEF SwitchProject
  <2>2. DeployInv'
    BY <1>15 DEF DeployInv, Deploying, SwitchProject
  <2>3. AppIsWhereChecksLook'
    BY <1>15 DEF AppIsWhereChecksLook, SwitchProject
  <2> QED
    BY <2>1, <2>2, <2>3
<1>16. CASE UNCHANGED vars
  BY <1>16
     DEF vars, DeployInv, Deploying, AppIsWhereChecksLook
<1>17. \A a \in Apps, p \in Projects \cup {None} :
          DeployImage(a, p) \/ CreateNewAppFromSource(a, p) \/ CreateAppFromTemplate(a, p)
            => \E kind \in Kinds : Deploy(kind, a, p)
  BY DEF DeployImage, CreateNewAppFromSource, CreateAppFromTemplate, Kinds
<1>18. ASSUME NewAppKilled PROVE IInv'
  <2>1. TypeOK'
    BY <1>18 DEF NewAppKilled, Created
  <2>2. DeployInv'
    BY <1>18 DEF DeployInv, Deploying, NewAppKilled, Created
  <2>3. AppIsWhereChecksLook'
    BY <1>18
       DEF DeployInv, Deploying, AppIsWhereChecksLook, NewAppKilled, Created
  <2> QED
    BY <2>1, <2>2, <2>3
<1>19. ASSUME BuildKilled PROVE IInv'
  <2>1. TypeOK'
    BY <1>19 DEF BuildKilled, BuildReturns
  <2>2. DeployInv'
    BY <1>19 DEF DeployInv, Deploying, BuildKilled, BuildReturns
  <2>3. AppIsWhereChecksLook'
    BY <1>19
       DEF DeployInv, Deploying, AppIsWhereChecksLook, BuildKilled,
           BuildReturns
  <2> QED
    BY <2>1, <2>2, <2>3
<1> QED
  BY <1>1, <1>2, <1>3, <1>4, <1>5, <1>6, <1>7, <1>8, <1>9, <1>10, <1>11,
     <1>12, <1>13, <1>14, <1>15, <1>16, <1>17, <1>18, <1>19
     DEF Next

(* Every variable is of its kind, in every reachable state.                *)
THEOREM TypeCorrect == Spec => []TypeOK
<1>1. IInv => TypeOK
  BY DEF IInv
<1> QED
  BY <1>1, InitInv, StepInv, PTL DEF Spec

(* An app that was deployed is in the project where the checks look for    *)
(* it, whatever project oc was switched to meanwhile.                      *)
THEOREM AppInItsProject == Spec => []AppIsWhereChecksLook
<1>1. IInv => AppIsWhereChecksLook
  BY DEF IInv
<1> QED
  BY <1>1, InitInv, StepInv, PTL DEF Spec

-----------------------------------------------------------------------------
(* Every call ends.                                                        *)

(* How many commands the call in progress can still run, at most.          *)
Work ==
  CASE pc = "idle"    -> 0
    [] pc = "wait"    -> 1
    [] pc = "build"   -> Tries - tries
    [] pc = "new-app" -> Tries + 1
    [] pc = "import"  -> Tries + 2

(* What happens outside the calls of the backend.                          *)
Elsewhere == ServiceChanges \/ SwitchProject

(* Each step of a call takes it nearer to its end, a build that fails no   *)
(* less than the others, and nobody else sets it back: a deployment is     *)
(* over after four commands, however often oc fails (the Probe in          *)
(* start_build has count=2).                                               *)
CallsGetOn ==
  [][/\ Continue \/ WaitTimeout => Work' < Work
     /\ Elsewhere => Work' = Work
     /\ Work' > Work => Work = 0 /\ Work' <= Tries + 2]_vars

(* Tries are those of the build in progress, and there is one left.        *)
TriesInv ==
  /\ pc \in {"import", "new-app"} => tries = 0
  /\ pc = "build" => tries < Tries

LEMMA StepTriesInv == IInv /\ TriesInv /\ [Next]_vars => TriesInv'
<1> SUFFICES ASSUME IInv, TriesInv, Next \/ UNCHANGED vars PROVE TriesInv'
  OBVIOUS
<1> USE DEF TriesInv, Tries
<1>1. CASE \E a \in Apps, p \in Projects \cup {None} :
             \/ DeployImage(a, p)
             \/ CreateNewAppFromSource(a, p)
             \/ CreateAppFromTemplate(a, p)
  BY <1>1
     DEF DeployImage, CreateNewAppFromSource, CreateAppFromTemplate, Deploy
<1>2. CASE \/ ImportImage \/ NewAppWithoutProject \/ NewApp \/ NewAppKilled
           \/ NewAppFails
  BY <1>2 DEF ImportImage, NewAppWithoutProject, NewApp, NewAppKilled, Created,
     NewAppFails, Returns, Raises
<1>3. CASE Build \/ BuildKilled
  BY <1>3 DEF Build, BuildKilled, BuildReturns, Returns
<1>4. CASE BuildFails
  BY <1>4 DEF BuildFails, Raises, IInv, TypeOK
<1>5. CASE \/ \E p \in Projects \cup {None} : DeployRefused(p)
           \/ WaitPoll \/ WaitTimeout \/ CleanProjectRaises
  BY <1>5 DEF DeployRefused, WaitPoll, WaitTimeout, CleanProjectRaises, Returns,
     Raises, callVars
<1>6. CASE \/ \E a \in Apps, expects \in BOOLEAN : StartWait(a, expects)
           \/ \E a \in Apps : CleanProject(a)
  BY <1>6 DEF StartWait, CleanProject
<1>7. CASE ServiceChanges \/ SwitchProject \/ UNCHANGED vars
  BY <1>7 DEF ServiceChanges, SwitchProject, vars, callVars
<1> QED
  BY <1>1, <1>2, <1>3, <1>4, <1>5, <1>6, <1>7 DEF Next

(* Every call of the backend ends after a bounded number of commands.      *)
THEOREM CallsAreFinite == Spec => CallsGetOn
<1>1. Init => TriesInv
  BY DEF Init, TriesInv
<1>2. ASSUME TypeOK, TriesInv, Continue \/ WaitTimeout PROVE Work' < Work
  <2> USE DEF Returns, Raises, Work, Tries
  <2>1. CASE ImportImage \/ NewAppWithoutProject \/ NewAppFails
    BY <2>1 DEF ImportImage, NewAppWithoutProject, NewAppFails
  <2>2. CASE NewApp \/ NewAppKilled
    BY <1>2, <2>2 DEF NewApp, NewAppKilled, Created, TriesInv
  <2>3. CASE Build \/ BuildKilled
    BY <1>2, <2>3 DEF Build, BuildKilled, BuildReturns, TriesInv, TypeOK
  <2>4. CASE BuildFails
    BY <1>2, <2>4 DEF BuildFails, TypeOK
  <2>5. CASE WaitPoll \/ WaitTimeout
    BY <2>5 DEF WaitPoll, WaitTimeout
  <2> QED
    BY <1>2, <2>1, <2>2, <2>3, <2>4, <2>5 DEF Continue
<1>3. ASSUME Elsewhere PROVE Work' = Work
  BY <1>3 DEF Elsewhere, ServiceChanges, SwitchProject, callVars, Work
<1>4. TypeOK /\ TriesInv => Work \in 0..(Tries + 2)
  BY DEF TypeOK, TriesInv, Work, Tries
<1>5. ASSUME TypeOK, TriesInv, Next, Work' \in 0..(Tries + 2), Work' > Work
      PROVE  Work = 0
  <2>1. Work \in Nat
    BY <1>4, <1>5 DEF Tries
  <2>2. ~Continue /\ ~WaitTimeout
    BY <1>2, <1>5, <2>1 DEF Tries
  <2>3. ~Elsewhere
    BY <1>3, <1>5, <2>1 DEF Tries
  <2>4. pc = "idle"
    BY <1>5, <2>2, <2>3 DEF Next, Continue, Elsewhere, DeployImage, CreateNewAppFromSource,
       CreateAppFromTemplate, Deploy, DeployRefused, StartWait, CleanProject,
       CleanProjectRaises
  <2> QED
    BY <2>4 DEF Work
<1> DEFINE GetsOn == /\ Continue \/ WaitTimeout => Work' < Work
                     /\ Elsewhere => Work' = Work
                     /\ Work' > Work => Work = 0 /\ Work' <= Tries + 2
<1>6. IInv /\ TriesInv /\ IInv' /\ TriesInv' /\ [Next]_vars => [GetsOn]_vars
  <2> SUFFICES ASSUME TypeOK, TriesInv, TypeOK', TriesInv', Next PROVE GetsOn
    BY DEF IInv
  <2>1. Work' \in 0..(Tries + 2)
    BY DEF TypeOK, TriesInv, Work, Tries
  <2>2. Work' <= Tries + 2
    BY <2>1 DEF Tries
  <2> QED
    BY <1>2, <1>3, <1>5, <2>1, <2>2
<1> QED
  BY <1>1, <1>6, InitInv, StepInv, StepTriesInv, PTL DEF Spec, CallsGetOn

-----------------------------------------------------------------------------
(* Readiness: the types.                                                   *)

LEMMA CountTypes == \A state : Count(state) \in 0..Cardinality(Pods)
<1> SUFFICES ASSUME NEW state PROVE Count(state) \in 0..Cardinality(Pods)
  OBVIOUS
<1> DEFINE counted == {p \in App : pod[p] \in state}
<1>1. counted \in SUBSET Pods
  BY DEF App
<1>2. IsFiniteSet(Pods) /\ IsFiniteSet(counted)
  BY <1>1, FS_Subset, ReadinessAssumption
<1>3. /\ Cardinality(counted) \in Nat /\ Cardinality(Pods) \in Nat
      /\ Cardinality(counted) <= Cardinality(Pods)
  BY <1>1, <1>2, FS_Subset, FS_CardinalityType
<1> QED
  BY <1>3 DEF Count

LEMMA BecomesTypes ==
  ASSUME ReadinessTypeOK, NEW p \in Pods,
         NEW old, NEW new \in {"fresh", "unready", "ready", "gone"},
         Becomes(p, old, new), flips' \in 0..MaxFlips
  PROVE  ReadinessTypeOK'
  BY DEF ReadinessTypeOK, Becomes, statusVars, deploymentVars

LEMMA ReadinessInitTypes == ReadinessInit => ReadinessTypeOK
<1>1. Cardinality(Pods) \in Nat /\ MaxFlips \in Nat
  BY ReadinessAssumption, FS_CardinalityType
<1>2. ASSUME ReadinessInit PROVE ReadinessTypeOK
  <2>1. /\ pod \in [Pods -> {"absent", "fresh", "unready", "ready", "gone"}]
        /\ dpc = "idle" /\ apc = "idle" /\ stable \in BOOLEAN /\ found \in BOOLEAN
        /\ limited \in BOOLEAN
        /\ left \subseteq Pods /\ stayed \subseteq Pods /\ wasReady \subseteq Pods
    BY <1>2 DEF ReadinessInit
  <2>2. /\ replicas \in 0..Cardinality(Pods) /\ readies \in 0..Cardinality(Pods)
        /\ asked \in 0..Cardinality(Pods) /\ flips \in 0..MaxFlips
    BY <1>1, <1>2 DEF ReadinessInit
  <2> QED
    BY <2>1, <2>2 DEF ReadinessTypeOK
<1> QED
  BY <1>2

LEMMA ReadinessStepTypes ==
  ReadinessTypeOK /\ [ReadinessNext]_readinessVars => ReadinessTypeOK'
<1> SUFFICES ASSUME ReadinessTypeOK, [ReadinessNext]_readinessVars
             PROVE  ReadinessTypeOK'
  OBVIOUS
<1> USE DEF podVars, statusVars, deploymentVars, appVars
<1>1. CASE Disturb
  <2>1. flips' \in 0..MaxFlips
    BY <1>1, ReadinessAssumption DEF Disturb, ReadinessTypeOK
  <2> QED
    BY <1>1, <2>1, BecomesTypes DEF Disturb
<1>2. CASE Progress
  BY <1>2, BecomesTypes DEF Progress, ReadinessTypeOK
<1>3. CASE WriteStatus
  BY <1>3, CountTypes DEF WriteStatus, ReadinessTypeOK
<1>4. CASE StatusRaises \/ WaitTimesOut \/ Wait
  BY <1>4 DEF StatusRaises, WaitTimesOut, Wait, Poll, AskReplicas, AskReady,
              AskReplicasAgain, Compare, ReadinessTypeOK
<1>5. CASE ListPods \/ AllAsked
  BY <1>5 DEF ListPods, AllAsked, App, ReadinessTypeOK
<1>6. ASSUME NEW p \in Pods, AskPod(p) PROVE ReadinessTypeOK'
  BY <1>6 DEF AskPod, ReadinessTypeOK
<1>7. CASE UNCHANGED readinessVars
  BY <1>7 DEF readinessVars, ReadinessTypeOK
<1> QED
  BY <1>1, <1>2, <1>3, <1>4, <1>5, <1>6, <1>7 DEF ReadinessNext, Check

(* Every variable of the pods, the status and the two callers is of its    *)
(* kind: no count of pods leaves its range.                                *)
THEOREM ReadinessTypeCorrect == ReadinessSpec => []ReadinessTypeOK
  BY ReadinessInitTypes, ReadinessStepTypes, PTL DEF ReadinessSpec

-----------------------------------------------------------------------------
(* all_pods_are_ready: a pod that was there from the beginning is still to *)
(* be asked, or has been ready; and somebody was, once one has been asked. *)

LoopInv ==
  apc = "loop" => /\ left \subseteq App
                  /\ stayed \subseteq left \cup wasReady
                  /\ \A p \in Pods : pod[p] = "ready" => p \in wasReady
                  /\ found => wasReady \cap App # {}

AppInv == LoopInv /\ ReadyMeansEachWasReady

LEMMA AppStep ==
  ReadinessTypeOK /\ AppInv /\ [ReadinessNext]_readinessVars => AppInv'
<1> SUFFICES ASSUME ReadinessTypeOK, AppInv, [ReadinessNext]_readinessVars
             PROVE  AppInv'
  OBVIOUS
<1> USE DEF AppInv, LoopInv, ReadyMeansEachWasReady
<1>1. ASSUME NEW p \in Pods, NEW old, NEW new, Becomes(p, old, new)
      PROVE  AppInv'
  BY <1>1 DEF Becomes, ReadinessTypeOK
<1>2. CASE ListPods
  BY <1>2 DEF ListPods, There, App, podVars
(* The pod that is asked counts as ready because it is.                    *)
<1>3. ASSUME NEW p \in Pods, AskPod(p) PROVE AppInv'
  <2>1. CASE IsReady(p) /\ ~Unanswerable(p)
    <3>1. apc' = "loop" /\ UNCHANGED <<stayed, wasReady>>
      BY <1>3, <2>1 DEF AskPod
    <3>2. p \in wasReady
      BY <1>3, <2>1 DEF AskPod, IsReady
    <3> QED
      BY <1>3, <3>1, <3>2 DEF AskPod, podVars
  <2>2. CASE ~(IsReady(p) /\ ~Unanswerable(p))
    BY <1>3, <2>2 DEF AskPod, podVars
  <2> QED
    BY <2>1, <2>2
<1>4. CASE AllAsked
  BY <1>4 DEF AllAsked, podVars
<1>5. CASE UNCHANGED <<appVars, pod>>
  BY <1>5 DEF appVars
<1>6. WriteStatus \/ StatusRaises \/ WaitTimesOut \/ Wait
        \/ UNCHANGED readinessVars
        => UNCHANGED <<appVars, pod>>
  BY DEF WriteStatus, StatusRaises, WaitTimesOut, Wait, Poll, AskReplicas, AskReady,
         AskReplicasAgain, Compare, readinessVars, podVars
<1> QED
  BY <1>1, <1>2, <1>3, <1>4, <1>5, <1>6
     DEF ReadinessNext, Disturb, Progress, Check

(* When all_pods_are_ready returns True, there was a pod of the app, and   *)
(* each that was there all along has been ready at some time of the call.  *)
THEOREM ReadyPods == ReadinessSpec => []ReadyMeansEachWasReady
<1>1. ReadinessInit => AppInv
  BY DEF ReadinessInit, AppInv, LoopInv, ReadyMeansEachWasReady
<1>2. AppInv => ReadyMeansEachWasReady
  BY DEF AppInv
<1> QED
  BY <1>1, <1>2, AppStep, ReadinessTypeCorrect, PTL DEF ReadinessSpec

-----------------------------------------------------------------------------
(* Deployment.wait: what the requests of a poll have returned is still the *)
(* status, as long as that did not change since the poll began.            *)

PollInv ==
  stable => /\ dpc \in {"d2", "d3", "d4"} => replicas # 0
            /\ dpc \in {"d3", "d4"} => readies # 0
            /\ dpc = "d4" => asked = replicas

WaitInv == PollInv /\ StablePollIsRight

LEMMA WaitStep == WaitInv /\ [ReadinessNext]_readinessVars => WaitInv'
<1> SUFFICES ASSUME WaitInv, [ReadinessNext]_readinessVars PROVE WaitInv'
  OBVIOUS
<1> USE DEF WaitInv, PollInv, StablePollIsRight, statusVars
<1>1. CASE WriteStatus
  BY <1>1 DEF WriteStatus
<1>2. CASE Poll
  BY <1>2 DEF Poll
<1>3. CASE AskReplicas
  BY <1>3 DEF AskReplicas
<1>4. CASE AskReady
  BY <1>4 DEF AskReady
<1>5. CASE AskReplicasAgain
  BY <1>5 DEF AskReplicasAgain
<1>6. CASE Compare
  BY <1>6 DEF Compare
<1>7. CASE StatusRaises \/ WaitTimesOut
  BY <1>7 DEF StatusRaises, WaitTimesOut
<1>8. CASE UNCHANGED <<statusVars, deploymentVars>>
  BY <1>8 DEF deploymentVars
<1>9. Disturb \/ Progress \/ Check \/ UNCHANGED readinessVars
        => UNCHANGED <<statusVars, deploymentVars>>
  BY DEF Disturb, Progress, Becomes, Check, ListPods, AskPod, AllAsked,
         readinessVars
<1> QED
  BY <1>1, <1>2, <1>3, <1>4, <1>5, <1>6, <1>7, <1>8, <1>9
     DEF ReadinessNext, Wait

(* When Deployment.wait returns and the status did not change during its   *)
(* last poll, there are pods and all of them are ready.                    *)
THEOREM StablePolls == ReadinessSpec => []StablePollIsRight
<1>1. ReadinessInit => WaitInv
  BY DEF ReadinessInit, WaitInv, PollInv, StablePollIsRight
<1>2. WaitInv => StablePollIsRight
  BY DEF WaitInv
<1> QED
  BY <1>1, <1>2, WaitStep, PTL DEF ReadinessSpec

(* The converse: a poll during which the status says from beginning to end *)
(* that there are pods and all are ready does not fail, although it asks   *)
(* four times and compares an old answer with a new one.                   *)
ReadyPollsEnd ==
  [][stable /\ replicas = readies /\ replicas # 0 /\ dpc # "idle"
       => (dpc' = "pause" => dpc = "pause")]_readinessVars

(* A poll misses no status that was good all the time.                     *)
THEOREM ReadyPolls == ReadinessSpec => ReadyPollsEnd
<1> DEFINE Ends == stable /\ replicas = readies /\ replicas # 0 /\ dpc # "idle"
                     => (dpc' = "pause" => dpc = "pause")
<1>1. ReadinessInit => WaitInv
  BY DEF ReadinessInit, WaitInv, PollInv, StablePollIsRight
<1>2. WaitInv /\ [ReadinessNext]_readinessVars => [Ends]_readinessVars
  <2> SUFFICES ASSUME PollInv, ReadinessNext, stable, replicas = readies,
                      replicas # 0, dpc' = "pause"
               PROVE  dpc = "pause"
    BY DEF WaitInv
  <2>1. /\ ~Poll /\ ~AskReplicas /\ ~AskReady /\ ~AskReplicasAgain
        /\ ~StatusRaises /\ ~WaitTimesOut
    BY DEF Poll, AskReplicas, AskReady, AskReplicasAgain, StatusRaises,
           WaitTimesOut
  <2>2. ~Compare
    BY DEF Compare, PollInv
  <2>3. CASE Disturb \/ Progress \/ WriteStatus \/ Check
    BY <2>3 DEF Disturb, Progress, Becomes, WriteStatus, Check, ListPods, AskPod,
       AllAsked, deploymentVars
  <2> QED
    BY <2>1, <2>2, <2>3 DEF ReadinessNext, Wait
<1> QED
  BY <1>1, <1>2, WaitStep, PTL DEF ReadinessSpec, ReadyPollsEnd
=============================================================================
