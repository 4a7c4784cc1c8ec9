------------------------ MODULE DockerSessionsProofs ------------------------
(***************************************************************************)
(* Proofs about DockerSessions, for any number of sessions and containers: *)
(* what a caller is given, what a quiet cleanup has done, why a cleanup is *)
(* cut short, and what no step of anybody does.                            *)
(***************************************************************************)
EXTENDS DockerSessions, TLAPS

(* The session that is in the middle of c's background run holds on until  *)
(* the docker client is done: nothing of c's run can happen once the       *)
(* session cleans up, unless somebody killed the client.                   *)
ClientAtWork(c) == cli[c] \in {"connecting", "created", "written"}

RunsInv ==
  \A c \in Containers :
    /\ owner[c] = Nobody => engine[c] = "unborn" /\ cli[c] = "none"
    /\ cli[c] = "connecting" => engine[c] = "unborn"
    /\ engine[c] = "running" \/ cli[c] = "started" => started[c]
    /\ started[c] => engine[c] # "unborn"
    /\ engine[c] = "removed" => auto[c] \/ remover[c] # Nobody
    /\ remover[c] # Nobody => engine[c] = "removed"
    /\ ClientAtWork(c) /\ how[c] = "bg" =>
         pc[owner[c]] = "calling" /\ cur[owner[c]] = c

Began(c) == started[c] \/ cli[c] \in Killed

CallersInv ==
  \A s \in Sessions :
    /\ \A c \in handles[s] : owner[c] = s /\ (how[c] = "bg" => Began(c))
    /\ pc[s] \in {"calling", "probing", "inspecting"} => owner[cur[s]] = s
    /\ pc[s] \in {"probing", "inspecting"} /\ how[cur[s]] = "bg" => Began(cur[s])

Cleans(s) == pc[s] \in {"stopping", "removing"}

CleanupInv ==
  \A s \in Sessions :
    /\ Cleans(s) => /\ \A c \in todo[s] : /\ engine[c] # "unborn"
                                          /\ Labelled(c) /\ remover[c] # s
                    /\ \A c \in listed[s] \ todo[s] : engine[c] = "removed"
    /\ pc[s] = "removing" =>
         /\ cur[s] \in todo[s]
         /\ owner[cur[s]] = s /\ how[cur[s]] = "bg" =>
              engine[cur[s]] # "running" \/ cli[cur[s]] \in Killed

IInv ==
  /\ TypeOK /\ RunsInv /\ CallersInv /\ CleanupInv
  /\ QuietCleanupIsComplete /\ CleanupAbortHasReason

-----------------------------------------------------------------------------

LEMMA InitInv == Init => IInv
<1> SUFFICES ASSUME Init PROVE IInv
  OBVIOUS
<1>1. TypeOK
  BY SessionsAssumption DEF Init, TypeOK
<1>2. RunsInv /\ CallersInv
  BY DEF Init, RunsInv, CallersInv, ClientAtWork
<1>3. CleanupInv /\ QuietCleanupIsComplete /\ CleanupAbortHasReason
  BY DEF Init, CleanupInv, QuietCleanupIsComplete, CleanupAbortHasReason
<1> QED
  BY <1>1, <1>2, <1>3 DEF IInv

LEMMA StepInv == IInv /\ [Next]_vars => IInv'
<1> SUFFICES ASSUME IInv, [Next]_vars PROVE IInv'
  OBVIOUS
<1> USE SessionsAssumption DEF IInv, Goto, OnEngine, Killed, Began
<1>1. ASSUME NEW s \in Sessions, NEW c \in Containers, NEW way \in Clis,
             NEW rm \in AutoRemoves,
             RunBinary(s, c, way, rm)
      PROVE  IInv'
  <2>1. TypeOK'
    BY <1>1 DEF TypeOK, RunBinary, Ask
  <2>2. RunsInv'
    BY <1>1 DEF TypeOK, RunsInv, ClientAtWork, RunBinary, Ask
  <2>3. CallersInv'
    BY <1>1 DEF TypeOK, CallersInv, RunBinary, Ask
  <2>4. CleanupInv'
    BY <1>1 DEF CleanupInv, Cleans, Labelled, RunBinary, Ask
  <2>5. QuietCleanupIsComplete'
    BY <1>1 DEF QuietCleanupIsComplete, RunBinary
  <2>6. CleanupAbortHasReason'
    BY <1>1
       DEF RunsInv, CleanupAbortHasReason, GoneMeanwhile, StartedMeanwhile,
           RunBinary, Ask
  <2> QED
    BY <2>1, <2>2, <2>3, <2>4, <2>5, <2>6
<1>2. ASSUME NEW s \in Sessions, NEW c \in Containers, NEW rm \in AutoRemoves,
             RunApi(s, c, rm)
      PROVE  IInv'
  <2>1. TypeOK'
    BY <1>2 DEF TypeOK, RunApi, Ask
  <2>2. RunsInv'
    BY <1>2 DEF TypeOK, RunsInv, ClientAtWork, RunApi, Ask
  <2>3. CallersInv'
    BY <1>2 DEF TypeOK, CallersInv, RunApi, Ask
  <2>4. CleanupInv'
    BY <1>2 DEF RunsInv, CleanupInv, Cleans, Labelled, RunApi, Ask
  <2>5. QuietCleanupIsComplete'
    BY <1>2 DEF RunsInv, QuietCleanupIsComplete, RunApi, Ask
  <2>6. CleanupAbortHasReason'
    BY <1>2
       DEF RunsInv, CleanupAbortHasReason, GoneMeanwhile, StartedMeanwhile,
           RunApi, Ask
  <2> QED
    BY <2>1, <2>2, <2>3, <2>4, <2>5, <2>6
<1>3. ASSUME NEW s \in Sessions,
             CallbackReturns(s)
      PROVE  IInv'
  <2>1. TypeOK'
    BY <1>3 DEF TypeOK, CallbackReturns
  <2>2. RunsInv'
    BY <1>3 DEF RunsInv, ClientAtWork, CallbackReturns
  <2>3. CallersInv'
    BY <1>3 DEF TypeOK, RunsInv, CallersInv, CallbackReturns
  <2>4. CleanupInv'
    BY <1>3 DEF CleanupInv, Cleans, Labelled, CallbackReturns
  <2>5. QuietCleanupIsComplete'
    BY <1>3 DEF QuietCleanupIsComplete, CallbackReturns
  <2>6. CleanupAbortHasReason'
    BY <1>3
       DEF CleanupAbortHasReason, GoneMeanwhile, StartedMeanwhile,
           CallbackReturns
  <2> QED
    BY <2>1, <2>2, <2>3, <2>4, <2>5, <2>6
<1>4. ASSUME NEW s \in Sessions,
             CallbackRaises(s)
      PROVE  IInv'
  <2>1. TypeOK'
    BY <1>4 DEF TypeOK, CallbackRaises
  <2>2. RunsInv'
    BY <1>4 DEF RunsInv, ClientAtWork, CallbackRaises
  <2>3. CallersInv'
    BY <1>4 DEF CallersInv, CallbackRaises
  <2>4. CleanupInv'
    BY <1>4 DEF CleanupInv, Cleans, Labelled, CallbackRaises
  <2>5. QuietCleanupIsComplete'
    BY <1>4 DEF QuietCleanupIsComplete, CallbackRaises
  <2>6. CleanupAbortHasReason'
    BY <1>4
       DEF CleanupAbortHasReason, GoneMeanwhile, StartedMeanwhile,
           CallbackRaises
  <2> QED
    BY <2>1, <2>2, <2>3, <2>4, <2>5, <2>6
<1>5. ASSUME NEW s \in Sessions,
             ProbeSees(s)
      PROVE  IInv'
  <2>1. TypeOK'
    BY <1>5 DEF TypeOK, ProbeSees
  <2>2. RunsInv'
    BY <1>5 DEF RunsInv, ClientAtWork, ProbeSees
  <2>3. CallersInv'
    BY <1>5 DEF CallersInv, ProbeSees
  <2>4. CleanupInv'
    BY <1>5 DEF CleanupInv, Cleans, Labelled, ProbeSees
  <2>5. QuietCleanupIsComplete'
    BY <1>5 DEF QuietCleanupIsComplete, ProbeSees
  <2>6. CleanupAbortHasReason'
    BY <1>5
       DEF CleanupAbortHasReason, GoneMeanwhile, StartedMeanwhile, ProbeSees
  <2> QED
    BY <2>1, <2>2, <2>3, <2>4, <2>5, <2>6
<1>6. ASSUME NEW s \in Sessions,
             ProbeRaises(s)
      PROVE  IInv'
  <2>1. TypeOK'
    BY <1>6 DEF TypeOK, ProbeRaises
  <2>2. RunsInv'
    BY <1>6 DEF RunsInv, ClientAtWork, ProbeRaises
  <2>3. CallersInv'
    BY <1>6 DEF CallersInv, ProbeRaises
  <2>4. CleanupInv'
    BY <1>6 DEF CleanupInv, Cleans, Labelled, ProbeRaises
  <2>5. QuietCleanupIsComplete'
    BY <1>6 DEF QuietCleanupIsComplete, ProbeRaises
  <2>6. CleanupAbortHasReason'
    BY <1>6
       DEF CleanupAbortHasReason, GoneMeanwhile, StartedMeanwhile,
           ProbeRaises
  <2> QED
    BY <2>1, <2>2, <2>3, <2>4, <2>5, <2>6
<1>7. ASSUME NEW s \in Sessions,
             Inspect(s)
      PROVE  IInv'
  <2>1. TypeOK'
    BY <1>7 DEF TypeOK, Inspect
  <2>2. RunsInv'
    BY <1>7 DEF RunsInv, ClientAtWork, Inspect
  <2>3. CallersInv'
    BY <1>7 DEF CallersInv, Inspect
  <2>4. CleanupInv'
    BY <1>7 DEF CleanupInv, Cleans, Labelled, Inspect
  <2>5. QuietCleanupIsComplete'
    BY <1>7 DEF QuietCleanupIsComplete, Inspect
  <2>6. CleanupAbortHasReason'
    BY <1>7
       DEF CleanupAbortHasReason, GoneMeanwhile, StartedMeanwhile, Inspect
  <2> QED
    BY <2>1, <2>2, <2>3, <2>4, <2>5, <2>6
<1>8. ASSUME NEW c \in Containers,
             CliCreates(c)
      PROVE  IInv'
  <2>1. TypeOK'
    BY <1>8 DEF TypeOK, CliCreates
  <2>2. RunsInv'
    BY <1>8 DEF TypeOK, RunsInv, ClientAtWork, CliCreates
  <2>3. CallersInv'
    BY <1>8 DEF CallersInv, CliCreates
  <2>4. CleanupInv'
    BY <1>8 DEF RunsInv, CleanupInv, Cleans, Labelled, CliCreates
  <2>5. QuietCleanupIsComplete'
    BY <1>8 DEF RunsInv, QuietCleanupIsComplete, CliCreates
  <2>6. CleanupAbortHasReason'
    BY <1>8
       DEF RunsInv, CleanupAbortHasReason, GoneMeanwhile, StartedMeanwhile,
           CliCreates
  <2> QED
    BY <2>1, <2>2, <2>3, <2>4, <2>5, <2>6
<1>9. ASSUME NEW c \in Containers,
             CliWritesCid(c)
      PROVE  IInv'
  <2>1. TypeOK'
    BY <1>9 DEF TypeOK, CliWritesCid
  <2>2. RunsInv'
    BY <1>9 DEF RunsInv, ClientAtWork, CliWritesCid
  <2>3. CallersInv'
    BY <1>9 DEF CallersInv, CliWritesCid
  <2>4. CleanupInv'
    BY <1>9 DEF CleanupInv, Cleans, Labelled, CliWritesCid
  <2>5. QuietCleanupIsComplete'
    BY <1>9 DEF QuietCleanupIsComplete, CliWritesCid
  <2>6. CleanupAbortHasReason'
    BY <1>9
       DEF CleanupAbortHasReason, GoneMeanwhile, StartedMeanwhile,
           CliWritesCid
  <2> QED
    BY <2>1, <2>2, <2>3, <2>4, <2>5, <2>6
<1>10. ASSUME NEW c \in Containers,
             CliStarts(c)
      PROVE  IInv'
  <2>1. TypeOK'
    BY <1>10 DEF TypeOK, CliStarts
  <2>2. RunsInv'
    BY <1>10 DEF TypeOK, RunsInv, ClientAtWork, CliStarts
  <2>3. CallersInv'
    BY <1>10 DEF CallersInv, CliStarts
  <2>4. CleanupInv'
    BY <1>10
       DEF RunsInv, CleanupInv, ClientAtWork, Cleans, Labelled, CliStarts
  <2>5. QuietCleanupIsComplete'
    BY <1>10 DEF QuietCleanupIsComplete, CliStarts
  <2>6. CleanupAbortHasReason'
    BY <1>10
       DEF CleanupAbortHasReason, GoneMeanwhile, StartedMeanwhile, CliStarts
  <2> QED
    BY <2>1, <2>2, <2>3, <2>4, <2>5, <2>6
<1>11. ASSUME NEW c \in Containers,
             CliFails(c)
      PROVE  IInv'
  <2>1. TypeOK'
    BY <1>11 DEF TypeOK, CliFails
  <2>2. RunsInv'
    BY <1>11 DEF RunsInv, ClientAtWork, CliFails
  <2>3. CallersInv'
    BY <1>11 DEF CallersInv, CliFails
  <2>4. CleanupInv'
    BY <1>11 DEF CleanupInv, Cleans, Labelled, CliFails
  <2>5. QuietCleanupIsComplete'
    BY <1>11 DEF QuietCleanupIsComplete, CliFails
  <2>6. CleanupAbortHasReason'
    BY <1>11
       DEF CleanupAbortHasReason, GoneMeanwhile, StartedMeanwhile, CliFails
  <2> QED
    BY <2>1, <2>2, <2>3, <2>4, <2>5, <2>6
<1>12. ASSUME NEW c \in Containers,
             ContainerExits(c)
      PROVE  IInv'
  <2>1. TypeOK'
    BY <1>12 DEF TypeOK, ContainerExits, Stopped
  <2>2. RunsInv'
    BY <1>12 DEF RunsInv, ClientAtWork, ContainerExits, Stopped
  <2>3. CallersInv'
    BY <1>12 DEF CallersInv, ContainerExits
  <2>4. CleanupInv'
    BY <1>12 DEF CleanupInv, Cleans, Labelled, ContainerExits, Stopped
  <2>5. QuietCleanupIsComplete'
    BY <1>12 DEF QuietCleanupIsComplete, ContainerExits
  <2>6. CleanupAbortHasReason'
    BY <1>12
       DEF CleanupAbortHasReason, GoneMeanwhile, StartedMeanwhile,
           ContainerExits
  <2> QED
    BY <2>1, <2>2, <2>3, <2>4, <2>5, <2>6
<1>13. ASSUME NEW s \in Sessions, NEW c \in Containers,
             Start(s, c)
      PROVE  IInv'
  <2>1. TypeOK'
    BY <1>13 DEF TypeOK, Start
  <2>2. RunsInv'
    BY <1>13 DEF TypeOK, RunsInv, ClientAtWork, Start
  <2>3. CallersInv'
    BY <1>13 DEF CallersInv, Start
  <2>4. CleanupInv'
    BY <1>13 DEF CallersInv, CleanupInv, Cleans, Labelled, Start
  <2>5. QuietCleanupIsComplete'
    BY <1>13 DEF QuietCleanupIsComplete, Start
  <2>6. CleanupAbortHasReason'
    BY <1>13
       DEF CleanupAbortHasReason, GoneMeanwhile, StartedMeanwhile, Start
  <2> QED
    BY <2>1, <2>2, <2>3, <2>4, <2>5, <2>6
<1>14. ASSUME NEW s \in Sessions, NEW c \in Containers,
             Stop(s, c)
      PROVE  IInv'
  <2>1. TypeOK'
    BY <1>14 DEF TypeOK, Stop, Stopped
  <2>2. RunsInv'
    BY <1>14 DEF RunsInv, ClientAtWork, Stop, Stopped
  <2>3. CallersInv'
    BY <1>14 DEF CallersInv, Stop
  <2>4. CleanupInv'
    BY <1>14 DEF CleanupInv, Cleans, Labelled, Stop, Stopped
  <2>5. QuietCleanupIsComplete'
    BY <1>14 DEF QuietCleanupIsComplete, Stop
  <2>6. CleanupAbortHasReason'
    BY <1>14 DEF CleanupAbortHasReason, GoneMeanwhile, StartedMeanwhile, Stop
  <2> QED
    BY <2>1, <2>2, <2>3, <2>4, <2>5, <2>6
<1>15. ASSUME NEW s \in Sessions, NEW c \in Containers,
             Delete(s, c)
      PROVE  IInv'
  <2>1. TypeOK'
    BY <1>15 DEF TypeOK, Delete
  <2>2. RunsInv'
    BY <1>15 DEF TypeOK, RunsInv, ClientAtWork, Delete
  <2>3. CallersInv'
    BY <1>15 DEF CallersInv, Delete
  <2>4. CleanupInv'
    BY <1>15 DEF CleanupInv, Cleans, Labelled, Delete
  <2>5. QuietCleanupIsComplete'
    BY <1>15 DEF QuietCleanupIsComplete, Delete
  <2>6. CleanupAbortHasReason'
    BY <1>15
       DEF CleanupAbortHasReason, GoneMeanwhile, StartedMeanwhile, Delete
  <2> QED
    BY <2>1, <2>2, <2>3, <2>4, <2>5, <2>6
<1>16. ASSUME NEW s \in Sessions,
             List(s)
      PROVE  IInv'
  <2>1. TypeOK'
    BY <1>16 DEF TypeOK, List
  <2>2. RunsInv'
    BY <1>16 DEF RunsInv, ClientAtWork, List
  <2>3. CallersInv'
    BY <1>16 DEF CallersInv, List
  <2>4. CleanupInv'
    BY <1>16 DEF TypeOK, RunsInv, CleanupInv, Cleans, Labelled, List
  <2>5. QuietCleanupIsComplete'
    BY <1>16 DEF QuietCleanupIsComplete, List
  <2>6. CleanupAbortHasReason'
    BY <1>16 DEF CleanupAbortHasReason, GoneMeanwhile, StartedMeanwhile, List
  <2> QED
    BY <2>1, <2>2, <2>3, <2>4, <2>5, <2>6
<1>17. ASSUME NEW s \in Sessions, NEW c \in Containers,
             CleanupStops(s, c)
      PROVE  IInv'
  <2>1. TypeOK'
    BY <1>17, SMTT(30) DEF TypeOK, CleanupStops, Stopped
  <2>2. RunsInv'
    BY <1>17 DEF TypeOK, RunsInv, ClientAtWork, CleanupStops, Stopped
  <2>3. CallersInv'
    BY <1>17 DEF TypeOK, CallersInv, CleanupStops
  <2>4. CleanupInv'
    BY <1>17 DEF TypeOK, CleanupInv, Cleans, Labelled, CleanupStops, Stopped
  <2>5. QuietCleanupIsComplete'
    BY <1>17 DEF TypeOK, QuietCleanupIsComplete, CleanupStops
  <2>6. CleanupAbortHasReason'
    BY <1>17
       DEF TypeOK, RunsInv, CleanupInv, Cleans, CleanupAbortHasReason,
           GoneMeanwhile, StartedMeanwhile, CleanupStops
  <2> QED
    BY <2>1, <2>2, <2>3, <2>4, <2>5, <2>6
<1>18. ASSUME NEW s \in Sessions,
             CleanupRemoves(s)
      PROVE  IInv'
  <2>1. TypeOK'
    BY <1>18, SMTT(30) DEF TypeOK, CleanupRemoves
  <2>2. RunsInv'
    BY <1>18 DEF TypeOK, RunsInv, ClientAtWork, CleanupRemoves
  <2>3. CallersInv'
    BY <1>18 DEF TypeOK, CallersInv, CleanupRemoves
  <2>4. CleanupInv'
    BY <1>18 DEF TypeOK, CleanupInv, Cleans, Labelled, CleanupRemoves
  <2>5. QuietCleanupIsComplete'
    BY <1>18 DEF TypeOK, QuietCleanupIsComplete, CleanupRemoves
  <2>6. CleanupAbortHasReason'
    BY <1>18
       DEF TypeOK, RunsInv, CleanupInv, Cleans, Labelled,
           CleanupAbortHasReason, GoneMeanwhile, StartedMeanwhile,
           CleanupRemoves
  <2> QED
    BY <2>1, <2>2, <2>3, <2>4, <2>5, <2>6
<1>19. ASSUME NEW s \in Sessions,
             CleanupDone(s)
      PROVE  IInv'
  <2>1. TypeOK'
    BY <1>19 DEF TypeOK, CleanupDone
  <2>2. RunsInv'
    BY <1>19 DEF RunsInv, ClientAtWork, CleanupDone
  <2>3. CallersInv'
    BY <1>19 DEF CallersInv, CleanupDone
  <2>4. CleanupInv'
    BY <1>19 DEF CleanupInv, Cleans, Labelled, CleanupDone
  <2>5. QuietCleanupIsComplete'
    BY <1>19 DEF CleanupInv, Cleans, QuietCleanupIsComplete, CleanupDone
  <2>6. CleanupAbortHasReason'
    BY <1>19
       DEF CleanupAbortHasReason, GoneMeanwhile, StartedMeanwhile,
           CleanupDone
  <2> QED
    BY <2>1, <2>2, <2>3, <2>4, <2>5, <2>6
<1>20. ASSUME NEW c \in Containers,
             CliKilled(c)
      PROVE  IInv'
  <2>1. TypeOK'
    BY <1>20 DEF TypeOK, CliKilled
  <2>2. RunsInv'
    BY <1>20 DEF TypeOK, RunsInv, ClientAtWork, CliKilled
  <2>3. CallersInv'
    BY <1>20 DEF TypeOK, CallersInv, CliKilled
  <2>4. CleanupInv'
    BY <1>20 DEF TypeOK, RunsInv, CleanupInv, Cleans, Labelled, CliKilled
  <2>5. QuietCleanupIsComplete'
    BY <1>20 DEF TypeOK, RunsInv, QuietCleanupIsComplete, CliKilled
  <2>6. CleanupAbortHasReason'
    BY <1>20
       DEF TypeOK, RunsInv, CleanupAbortHasReason, GoneMeanwhile,
           StartedMeanwhile, CliKilled
  <2> QED
    BY <2>1, <2>2, <2>3, <2>4, <2>5, <2>6
<1>21. ASSUME NEW c \in Containers,
             LateRequest(c)
      PROVE  IInv'
  <2>1. TypeOK'
    <3>1. UNCHANGED <<owner, how, auto, cid, pc, cur, handles, todo, listed,
                      remover>>
      BY <1>21 DEF LateRequest
    <3>2. /\ cli' = [cli EXCEPT ![c] = "dead"]
          /\ \/ engine' = engine
             \/ engine' = [engine EXCEPT ![c] = "created"]
             \/ engine' = [engine EXCEPT ![c] = "running"]
          /\ started' = started \/ started' = [started EXCEPT ![c] = TRUE]
      BY <1>21 DEF LateRequest
    <3>3. engine' \in [Containers -> {"unborn", "removed"} \cup OnEngine]
      BY <3>2 DEF TypeOK, OnEngine
    <3>4. started' \in [Containers -> BOOLEAN]
      BY <3>2 DEF TypeOK
    <3>5. cli' \in [Containers -> {"none", "connecting", "created", "written",
                                  "started", "failed", "killed", "dead"}]
      BY <3>2 DEF TypeOK
    <3> QED
      BY <3>1, <3>3, <3>4, <3>5 DEF TypeOK
  <2>2. RunsInv'
    BY <1>21 DEF TypeOK, RunsInv, ClientAtWork, LateRequest
  <2>3. CallersInv'
    BY <1>21 DEF TypeOK, CallersInv, LateRequest
  <2>4. CleanupInv'
    BY <1>21 DEF TypeOK, RunsInv, CleanupInv, Cleans, Labelled, LateRequest
  <2>5. QuietCleanupIsComplete'
    BY <1>21 DEF TypeOK, RunsInv, QuietCleanupIsComplete, LateRequest
  <2>6. CleanupAbortHasReason'
    BY <1>21
       DEF TypeOK, RunsInv, CleanupAbortHasReason, GoneMeanwhile,
           StartedMeanwhile, LateRequest
  <2> QED
    BY <2>1, <2>2, <2>3, <2>4, <2>5, <2>6
<1>22. CASE UNCHANGED vars
  BY <1>22 DEF vars, TypeOK, RunsInv, CallersInv, CleanupInv, ClientAtWork, Cleans,
     Labelled, QuietCleanupIsComplete, CleanupAbortHasReason, GoneMeanwhile, StartedMeanwhile
<1> QED
  BY <1>1, <1>2, <1>3, <1>4, <1>5, <1>6, <1>7, <1>8, <1>9, <1>10, <1>11,
     <1>12, <1>13, <1>14, <1>15, <1>16, <1>17, <1>18, <1>19, <1>20, <1>21, <1>22
     DEF Next, CallerStep, RunStep, CleanupStep, CliStep

(* Every variable is of its kind, in every reachable state.                *)
THEOREM TypeCorrect == Spec => []TypeOK
<1>1. IInv => TypeOK
  BY DEF IInv
<1> QED
  BY <1>1, InitInv, StepInv, PTL DEF Spec

(* run_via_binary gives its caller only containers that have been running, *)
(* although their id is known before they are started, or whose client was *)
(* killed.                                                                 *)
THEOREM BackgroundRuns == Spec => []BackgroundRunHasStarted
<1>1. IInv => BackgroundRunHasStarted
  BY DEF IInv, CallersInv, Began, BackgroundRunHasStarted
<1> QED
  BY <1>1, InitInv, StepInv, PTL DEF Spec

(* cleanup_containers that ends quietly has removed all it listed, with    *)
(* any number of sessions at work on the same engine.                      *)
THEOREM QuietCleanups == Spec => []QuietCleanupIsComplete
<1>1. IInv => QuietCleanupIsComplete
  BY DEF IInv
<1> QED
  BY <1>1, InitInv, StepInv, PTL DEF Spec

(* A cleanup is cut short by another session, by --rm or by a client that  *)
(* nobody waits for, and never by a background run of its own session      *)
(* whose client was left alone.                                            *)
THEOREM CleanupAborts == Spec => []CleanupAbortHasReason
<1>1. IInv => CleanupAbortHasReason
  BY DEF IInv
<1> QED
  BY <1>1, InitInv, StepInv, PTL DEF Spec

-----------------------------------------------------------------------------
(* What no step of anybody does.                                           *)

(* A container that was removed stays removed, by whom it was: a docker    *)
(* client that was still at work on it does not bring it back.             *)
RemovalIsFinal ==
  [][\A c \in Containers :
       engine[c] = "removed" =>
         engine'[c] = "removed" /\ remover'[c] = remover[c]]_vars

THEOREM RemovalsAreFinal == Spec => RemovalIsFinal
<1>1. ASSUME IInv, Next, NEW c \in Containers, engine[c] = "removed"
      PROVE  engine'[c] = "removed" /\ remover'[c] = remover[c]
  <2> USE <1>1 DEF IInv, TypeOK, RunsInv
  <2>1. ASSUME NEW s \in Sessions, CallerStep(s)
        PROVE  engine'[c] = "removed" /\ remover'[c] = remover[c]
    BY <2>1
       DEF CallerStep, RunBinary, RunApi, Ask, Start, Stop, Delete, List
  <2>2. ASSUME NEW s \in Sessions, RunStep(s)
        PROVE  engine'[c] = "removed" /\ remover'[c] = remover[c]
    BY <2>2
       DEF RunStep, CallbackReturns, CallbackRaises, ProbeSees, ProbeRaises,
           Inspect
  <2>3. ASSUME NEW s \in Sessions, CleanupStep(s)
        PROVE  engine'[c] = "removed" /\ remover'[c] = remover[c]
    BY <2>3 DEF CleanupStep, CleanupStops, CleanupRemoves, CleanupDone
  <2>4. ASSUME NEW d \in Containers, CliStep(d) \/ ContainerExits(d)
        PROVE  engine'[c] = "removed" /\ remover'[c] = remover[c]
    BY <2>4
       DEF CliStep, CliCreates, CliWritesCid, CliStarts, CliFails, CliKilled, LateRequest,
           ContainerExits, OnEngine
  <2> QED
    BY <2>1, <2>2, <2>3, <2>4 DEF Next
<1>2. IInv /\ [Next]_vars
      => [\A c \in Containers :
            engine[c] = "removed" =>
              engine'[c] = "removed" /\ remover'[c] = remover[c]]_vars
  BY <1>1
<1> QED
  BY <1>2, InitInv, StepInv, PTL DEF Spec, RemovalIsFinal

(* Nobody but the caller who ran it removes a container that has no label: *)
(* the cleanups, those of other sessions too, leave it alone.              *)
ApiRunsAreTheCallers ==
  [][\A c \in Containers :
       how[c] = "api" /\ remover'[c] # remover[c] =>
         /\ remover'[c] = owner[c]
         /\ c \in handles[owner[c]] /\ pc[owner[c]] = "idle"]_vars

THEOREM ApiRuns == Spec => ApiRunsAreTheCallers
<1>1. ASSUME IInv, Next, NEW c \in Containers,
             how[c] = "api", remover'[c] # remover[c]
      PROVE  /\ remover'[c] = owner[c]
             /\ c \in handles[owner[c]] /\ pc[owner[c]] = "idle"
  <2>1. ASSUME NEW s \in Sessions, NEW d \in Containers, Delete(s, d)
        PROVE  /\ remover'[c] = owner[c]
               /\ c \in handles[owner[c]] /\ pc[owner[c]] = "idle"
    BY <1>1, <2>1 DEF IInv, TypeOK, CallersInv, Delete
  <2>2. ASSUME NEW s \in Sessions, CleanupRemoves(s)
        PROVE  FALSE
    BY <1>1, <2>2
       DEF IInv, TypeOK, CleanupInv, Cleans, Labelled, CleanupRemoves
  <2>3. ASSUME UNCHANGED remover PROVE FALSE
    BY <1>1, <2>3
  <2> QED
    BY <1>1, <2>1, <2>2, <2>3
       DEF Next, CallerStep, RunBinary, RunApi, Start, Stop, List, RunStep,
           CallbackReturns, CallbackRaises, ProbeSees, ProbeRaises, Inspect,
           CleanupStep, CleanupStops, CleanupDone, CliStep, CliCreates,
           CliWritesCid, CliStarts, CliFails, CliKilled, LateRequest, ContainerExits
<1>2. IInv /\ [Next]_vars
      => [\A c \in Containers :
            how[c] = "api" /\ remover'[c] # remover[c] =>
              /\ remover'[c] = owner[c]
              /\ c \in handles[owner[c]] /\ pc[owner[c]] = "idle"]_vars
  BY <1>1
<1> QED
  BY <1>2, InitInv, StepInv, PTL DEF Spec, ApiRunsAreTheCallers

(* A cleanup gets on: what it has to remove never grows, a round of stop   *)
(* and removal takes one container off it or is the last, and a cleanup    *)
(* that is over stays over.                                                *)
RoundGetsOn(s) ==
  /\ Cleans(s) => todo'[s] \subseteq todo[s]
  /\ pc[s] = "stopping" =>
       \/ pc'[s] \in {"stopping", "closed", "aborted"}
       \/ pc'[s] = "removing" /\ cur'[s] \in todo'[s]
  /\ pc[s] = "removing" =>
       \/ pc'[s] \in {"removing", "aborted"}
       \/ /\ pc'[s] = "stopping"
          /\ cur[s] \in todo[s] /\ todo'[s] = todo[s] \ {cur[s]}
  /\ pc[s] \in {"closed", "aborted"} => pc'[s] = pc[s] /\ todo'[s] = todo[s]

CleanupGetsOn == [][\A s \in Sessions : RoundGetsOn(s)]_vars

THEOREM CleanupsGetOn == Spec => CleanupGetsOn
<1>1. ASSUME IInv, Next, NEW s \in Sessions
      PROVE  RoundGetsOn(s)
  <2>1. ASSUME pc'[s] = pc[s], todo'[s] = todo[s], cur'[s] = cur[s]
        PROVE  RoundGetsOn(s)
    BY <1>1, <2>1 DEF IInv, CleanupInv, Cleans, RoundGetsOn
  <2>2. ASSUME ~Cleans(s), pc[s] \notin {"closed", "aborted"}
        PROVE  RoundGetsOn(s)
    BY <2>2 DEF Cleans, RoundGetsOn
  <2> DEFINE Still == pc'[s] = pc[s] /\ todo'[s] = todo[s] /\ cur'[s] = cur[s]
             Apart == ~Cleans(s) /\ pc[s] \notin {"closed", "aborted"}
  <2>3. ASSUME NEW t \in Sessions, CallerStep(t)
        PROVE  Still \/ Apart
    BY <1>1, <2>3
       DEF IInv, TypeOK, Cleans, Goto, CallerStep, RunBinary, RunApi, Ask,
           Start, Stop, Delete, List
  <2>4. ASSUME NEW t \in Sessions, RunStep(t)
        PROVE  Still \/ Apart
    BY <1>1, <2>4
       DEF IInv, TypeOK, Cleans, Goto, RunStep, CallbackReturns,
           CallbackRaises, ProbeSees, ProbeRaises, Inspect
  <2>5. ASSUME NEW c \in Containers, CliStep(c) \/ ContainerExits(c)
        PROVE  Still
    BY <2>5
       DEF CliStep, CliCreates, CliWritesCid, CliStarts, CliFails, CliKilled, LateRequest,
           ContainerExits
  <2>6. ASSUME NEW t \in Sessions \ {s}, CleanupStep(t)
        PROVE  Still
    BY <1>1, <2>6
       DEF IInv, TypeOK, Goto, CleanupStep, CleanupStops, CleanupRemoves,
           CleanupDone
  <2>7. ASSUME CleanupStep(s)
        PROVE  RoundGetsOn(s)
    <3>1. ASSUME NEW c \in Containers, CleanupStops(s, c)
          PROVE  RoundGetsOn(s)
      BY <1>1, <3>1
         DEF IInv, TypeOK, Cleans, Goto, CleanupStops, RoundGetsOn
    <3>2. ASSUME CleanupRemoves(s)
          PROVE  RoundGetsOn(s)
      BY <1>1, <3>2
         DEF IInv, TypeOK, CleanupInv, Cleans, Goto, CleanupRemoves,
             RoundGetsOn
    <3>3. ASSUME CleanupDone(s)
          PROVE  RoundGetsOn(s)
      BY <1>1, <3>3 DEF IInv, TypeOK, Cleans, Goto, CleanupDone, RoundGetsOn
    <3> QED
      BY <2>7, <3>1, <3>2, <3>3 DEF CleanupStep
  <2> QED
    BY <1>1, <2>1, <2>2, <2>3, <2>4, <2>5, <2>6, <2>7 DEF Next
<1>2. ASSUME IInv, UNCHANGED vars, NEW s \in Sessions
      PROVE  RoundGetsOn(s)
  BY <1>2 DEF IInv, CleanupInv, Cleans, RoundGetsOn, vars
<1>3. IInv /\ [Next]_vars => [\A s \in Sessions : RoundGetsOn(s)]_vars
  BY <1>1, <1>2
<1> QED
  BY <1>3, InitInv, StepInv, PTL DEF Spec, CleanupGetsOn
=============================================================================
