---------------------------- MODULE PodReadiness ----------------------------
(***************************************************************************)
(* Who in conu asks whether pods are ready, and how: Deployment.wait       *)
(* (conu/backend/k8s/deployment.py), which polls two numbers of the        *)
(* deployment's status, and all_pods_are_ready (conu/backend/origin/       *)
(* backend.py), which lists the pods of an app and then asks for the       *)
(* conditions of one after the other (Pod.is_ready, k8s/pod.py).  Every    *)
(* request is answered from the state of that moment, and the pods and the *)
(* deployment's controller go on in between.                               *)
(***************************************************************************)
EXTENDS Integers, FiniteSets

CONSTANTS
  Pods,      \* pods of the app
  Helpers,   \* those whose names contain "build" or "deploy"
  MaxFlips   \* bound: how often pods start, stop or lose their readiness

ASSUME ReadinessAssumption ==
  /\ IsFiniteSet(Pods) /\ Helpers \subseteq Pods
  /\ MaxFlips \in Nat

VARIABLES
  pod,      \* each pod: "absent", "fresh" (its conditions are None),
            \* "unready", "ready" or "gone"
  replicas, \* status.replicas as the controller last wrote it; 0 is None
  readies,  \* status.ready_replicas, written at the same time
  flips,    \* how much has changed
  dpc,      \* Deployment.wait: "idle", "pause" between two polls, inside
            \* all_pods_ready before its first ("d1") to fourth ("d4") request,
            \* or ended: "True", "raised", "timeout"
  limited,  \* whether the wait has a timeout: 15 s unless the caller says
            \* otherwise, and none if that is -1
  asked,    \* the number of replicas that the third request returned
  stable,   \* history: the status has not changed since this poll began
  apc,      \* all_pods_are_ready: "idle", "loop", "True", "False", "raised"
  left,     \* the listed pods that the loop has before it
  found,    \* app_pod_exists
  stayed,   \* history: the pods there from the beginning of the call on
  wasReady  \* history: the pods that were ready at some time of the call

podVars == <<pod, flips>>
statusVars == <<replicas, readies>>
deploymentVars == <<dpc, limited, asked, stable>>
appVars == <<apc, left, found, stayed, wasReady>>
readinessVars == <<podVars, statusVars, deploymentVars, appVars>>

App == Pods \ Helpers
There(p) == pod[p] \in {"fresh", "unready", "ready"}
Count(state) == Cardinality({p \in App : pod[p] \in state})

ReadinessTypeOK ==
  /\ pod \in [Pods -> {"absent", "fresh", "unready", "ready", "gone"}]
  /\ replicas \in 0..Cardinality(Pods) /\ readies \in 0..Cardinality(Pods)
  /\ flips \in 0..MaxFlips
  /\ dpc \in {"idle", "pause", "d1", "d2", "d3", "d4", "True", "raised",
             "timeout"}
  /\ limited \in BOOLEAN
  /\ asked \in 0..Cardinality(Pods)
  /\ stable \in BOOLEAN
  /\ apc \in {"idle", "loop", "True", "False", "raised"}
  /\ left \subseteq Pods /\ stayed \subseteq Pods /\ wasReady \subseteq Pods
  /\ found \in BOOLEAN

ReadinessInit ==
  /\ pod = [p \in Pods |-> "absent"]
  /\ replicas = 0 /\ readies = 0 /\ flips = 0
  /\ dpc = "idle" /\ limited = FALSE /\ asked = 0 /\ stable = FALSE
  /\ apc = "idle" /\ left = {} /\ found = FALSE
  /\ stayed = {} /\ wasReady = {}

-----------------------------------------------------------------------------
(* The cluster.                                                            *)

(* A pod is created, its first conditions are written, its readiness comes *)
(* and goes, and it ends.                                                  *)
Becomes(p, old, new) ==
  /\ pod[p] = old
  /\ pod' = [pod EXCEPT ![p] = new]
  /\ stayed' = IF new = "gone" THEN stayed \ {p} ELSE stayed
  /\ wasReady' = IF new = "ready" /\ apc = "loop" THEN wasReady \cup {p}
                                                  ELSE wasReady
  /\ UNCHANGED <<statusVars, deploymentVars, apc, left, found>>

Disturb ==
  /\ flips < MaxFlips /\ flips' = flips + 1
  /\ \E p \in Pods : \/ Becomes(p, "absent", "fresh")
                     \/ Becomes(p, "ready", "unready")
                     \/ \E old \in {"fresh", "unready", "ready"} :
                          Becomes(p, old, "gone")

Progress ==
  /\ \E p \in Pods : \/ Becomes(p, "fresh", "unready")
                     \/ Becomes(p, "unready", "ready")
  /\ UNCHANGED flips

(* The controller of the deployment writes what it sees.                   *)
WriteStatus ==
  /\ replicas' = Count({"fresh", "unready", "ready"})
  /\ readies' = Count({"ready"})
  /\ stable' = (stable /\ replicas' = replicas /\ readies' = readies)
  /\ UNCHANGED <<podVars, dpc, limited, asked, appVars>>

-----------------------------------------------------------------------------
(* Deployment.wait: a Probe that polls all_pods_ready.                     *)

(* A request that the API refuses raises ConuException, out of the Probe.  *)
StatusRaises ==
  /\ dpc \in {"d1", "d2", "d3", "d4"}
  /\ dpc' = "raised"
  /\ UNCHANGED <<podVars, statusVars, limited, asked, stable, appVars>>

Poll ==
  /\ dpc \in {"idle", "pause"}
  /\ dpc' = "d1" /\ stable' = TRUE
  /\ IF dpc = "idle" THEN limited' \in BOOLEAN ELSE UNCHANGED limited
  /\ UNCHANGED <<podVars, statusVars, asked, appVars>>

(* The Probe's time is up, between two polls or in the middle of one.      *)
WaitTimesOut ==
  /\ limited /\ dpc \in {"pause", "d1", "d2", "d3", "d4"}
  /\ dpc' = "timeout"
  /\ UNCHANGED <<podVars, statusVars, limited, asked, stable, appVars>>

(* "if replicas and ready_replicas": each of the two is a request.         *)
AskReplicas ==
  /\ dpc = "d1"
  /\ dpc' = IF replicas # 0 THEN "d2" ELSE "pause"
  /\ UNCHANGED <<podVars, statusVars, limited, asked, stable, appVars>>

AskReady ==
  /\ dpc = "d2"
  /\ dpc' = IF readies # 0 THEN "d3" ELSE "pause"
  /\ UNCHANGED <<podVars, statusVars, limited, asked, stable, appVars>>

(* "if replicas == ready_replicas": asked once more, and not checked.      *)
AskReplicasAgain ==
  /\ dpc = "d3"
  /\ dpc' = "d4" /\ asked' = replicas
  /\ UNCHANGED <<podVars, statusVars, limited, stable, appVars>>

(* Faulty variants: what is there is ready; nothing ever is.               *)
CompareLoose ==
  /\ dpc = "d4"
  /\ dpc' = IF asked >= readies THEN "True" ELSE "pause"
  /\ UNCHANGED <<podVars, statusVars, limited, asked, stable, appVars>>

CompareStrict ==
  /\ dpc = "d4"
  /\ dpc' = IF asked < readies THEN "True" ELSE "pause"
  /\ UNCHANGED <<podVars, statusVars, limited, asked, stable, appVars>>

Compare ==
  /\ dpc = "d4"
  /\ dpc' = IF asked = readies THEN "True" ELSE "pause"
  /\ UNCHANGED <<podVars, statusVars, limited, asked, stable, appVars>>

-----------------------------------------------------------------------------
(* all_pods_are_ready, called once.                                        *)

ListPods ==
  /\ apc = "idle"
  /\ apc' = "loop" /\ found' = FALSE
  /\ left' = {p \in App : There(p)}
  /\ stayed' = {p \in App : There(p)}
  /\ wasReady' = {p \in Pods : pod[p] = "ready"}
  /\ UNCHANGED <<podVars, statusVars, deploymentVars>>

(* Pod.is_ready for the next pod: a pod without conditions is a TypeError, *)
(* one that is gone a ConuException.                                       *)
IsReady(p) == pod[p] = "ready"
Unanswerable(p) == pod[p] \in {"fresh", "gone"}

(* Faulty variant: one ready pod is enough.                                *)
AskPodAny(p) ==
  /\ apc = "loop" /\ p \in left
  /\ apc' = IF Unanswerable(p) THEN "raised"
            ELSE IF IsReady(p) THEN "True" ELSE apc
  /\ found' = TRUE
  /\ left' = left \ {p}
  /\ UNCHANGED <<podVars, statusVars, deploymentVars, stayed, wasReady>>

AskPod(p) ==
  /\ apc = "loop" /\ p \in left
  /\ apc' = IF Unanswerable(p) THEN "raised"
            ELSE IF IsReady(p) THEN apc ELSE "False"
  /\ found' = TRUE
  /\ left' = left \ {p}
  /\ UNCHANGED <<podVars, statusVars, deploymentVars, stayed, wasReady>>

AllAsked ==
  /\ apc = "loop" /\ left = {}
  /\ apc' = IF found THEN "True" ELSE "False"
  /\ UNCHANGED <<podVars, statusVars, deploymentVars, left, found, stayed,
                 wasReady>>

-----------------------------------------------------------------------------

Wait == Poll \/ AskReplicas \/ AskReady \/ AskReplicasAgain \/ Compare
Check == ListPods \/ (\E p \in Pods : AskPod(p)) \/ AllAsked

ReadinessNext ==
  \/ Disturb \/ Progress \/ WriteStatus
  \/ StatusRaises \/ WaitTimesOut \/ Wait \/ Check

(* The Probe keeps polling, time passes, and the cluster keeps working.    *)
ReadinessSpec ==
  /\ ReadinessInit /\ [][ReadinessNext]_readinessVars
  /\ WF_readinessVars(Wait) /\ WF_readinessVars(WaitTimesOut)
  /\ WF_readinessVars(Progress) /\ WF_readinessVars(WriteStatus)

-----------------------------------------------------------------------------

(* When all_pods_are_ready returns True, some pod of the app was there,    *)
(* and every pod that was there from the beginning of the call to its end  *)
(* has been ready at some time in between, if not at the same time as the  *)
(* others (origin/backend.py, all_pods_are_ready).                         *)
ReadyMeansEachWasReady ==
  apc = "True" => /\ stayed \subseteq wasReady
                  /\ wasReady \cap App # {}

(* When Deployment.wait returns and the status did not change during its   *)
(* last poll, the status says that there are pods and all are ready.       *)
StablePollIsRight ==
  dpc = "True" /\ stable => replicas = readies /\ replicas # 0

(* Deployment.wait ends if it has a timeout; and without one, once the     *)
(* cluster has settled with a pod, it returns, or a request has failed     *)
(* (Deployment.wait, lines 128-135).                                       *)
WaitReturns ==
  /\ dpc = "pause" /\ limited ~> dpc \in {"True", "raised", "timeout"}
  /\ (dpc = "pause" /\ ~limited /\ flips = MaxFlips
       /\ (\E p \in App : There(p)))
       ~> dpc \in {"True", "raised"}

=============================================================================
