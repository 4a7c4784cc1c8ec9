---------------------------- MODULE ProbeProofs ----------------------------
(***************************************************************************)
(* Proofs about Probe, for every timeout, count, pause and number of       *)
(* calls: its types, its inductive invariant IInv, what follows, that a    *)
(* limited _run has a bounded number of steps, and the refinement.         *)
(***************************************************************************)
EXTENDS Probe, TLAPS

(* The queues of a Probe hold one element where it matters.                *)
LEMMA Singletons ==
  ASSUME NEW a
  PROVE  /\ Append(<<>>, a) = <<a>>
         /\ Head(<<a>>) = a
         /\ Tail(<<a>>) = <<>>
         /\ <<a>> # <<>>
         /\ <<a>>[1] = a
  OBVIOUS

(* What the steps do to a queue keeps it a queue.                          *)
LEMMA QueueMoves ==
  ASSUME NEW S, NEW s \in Seq(S), NEW t,
         \/ t = s
         \/ t = <<>>
         \/ s # <<>> /\ t = Tail(s)
         \/ \E e \in S : t = Append(s, e)
  PROVE  t \in Seq(S)
<1>1. CASE t = s
  BY <1>1
<1>2. CASE t = <<>>
  BY <1>2
<1>3. CASE s # <<>> /\ t = Tail(s)
  BY <1>3
<1>4. CASE \E e \in S : t = Append(s, e)
  BY <1>4
<1> QED
  BY <1>1, <1>2, <1>3, <1>4

(* The constructor's numbers are integers from -1 up, and what it expects  *)
(* is a value, not an exception.                                           *)
LEMMA ArgsTypes ==
  ASSUME CallerTypeOK
  PROVE  /\ args.count \in Int /\ args.count >= -1
         /\ args.timeout \in Int /\ args.timeout >= -1
         /\ args.expected \in Retvals
<1>1. /\ args.count \in Counts /\ args.timeout \in Timeouts
      /\ args.expected \in Expecteds
  BY DEF CallerTypeOK
<1>2. args.count \in Nat \cup {-1} /\ args.timeout \in Nat \cup {-1}
  BY <1>1, ProbeAssumption
<1> QED
  BY <1>1, <1>2, ProbeAssumption

-----------------------------------------------------------------------------
(* Types.                                                                  *)

(* Every value a Probe handles is of its kind, in every reachable state.   *)
THEOREM TypeCorrect == Spec => []TypeOK
<1> USE DEF Calls, Outcomes, Errors, Answers, Retvals,
            CallerTypeOK, LoopTypeOK, HistoryTypeOK, FlagTypeOK,
            callerVars, procVars, ipcVars, loopVars, fncVars, history
<1>1. Init => TypeOK
  <2> SUFFICES ASSUME Init PROVE TypeOK
    OBVIOUS
  <2>1. CallerTypeOK
    BY ProbeAssumption DEF Init
  <2>2. LoopTypeOK /\ HistoryTypeOK
    BY ProbeAssumption DEF Init
  <2>3. FlagTypeOK
    BY DEF Init
  <2>4. QueueTypeOK
    BY DEF Init, QueueTypeOK
  <2> QED
    BY <2>1, <2>2, <2>3, <2>4 DEF TypeOK
<1>2. TypeOK /\ [Next]_vars => TypeOK'
  <2> SUFFICES ASSUME TypeOK, [Next]_vars PROVE TypeOK'
    OBVIOUS
  <2> USE ProbeAssumption DEF TypeOK
  <2>1. CASE CallerStep
    <3>1. ASSUME NEW op \in {"run", "run_in_background"}, CallRefused(op)
          PROVE  TypeOK'
      BY <3>1 DEF CallRefused, MayCall, QueueTypeOK
    <3>2. CASE CallRun
      <4>1. CallerTypeOK' /\ LoopTypeOK'
        BY <3>2 DEF CallRun, MayCall, Launch
      <4>2. HistoryTypeOK' /\ FlagTypeOK'
        BY <3>2 DEF CallRun, MayCall, Launch
      <4>3. QueueTypeOK'
        BY <3>2 DEF CallRun, Launch, QueueTypeOK
      <4> QED
        BY <4>1, <4>2, <4>3
    <3>3. CASE CallRunInBackground
      <4>1. CallerTypeOK' /\ LoopTypeOK'
        BY <3>3 DEF CallRunInBackground, MayCall, Launch
      <4>2. HistoryTypeOK' /\ FlagTypeOK'
        BY <3>3 DEF CallRunInBackground, MayCall, Launch
      <4>3. QueueTypeOK'
        BY <3>3 DEF CallRunInBackground, Launch, QueueTypeOK
      <4> QED
        BY <4>1, <4>2, <4>3
    <3>4. CASE CallTerminate
      BY <3>4 DEF CallTerminate, MayCall, QueueTypeOK
    <3>5. CASE CallJoin
      BY <3>5 DEF CallJoin, MayCall, QueueTypeOK
    <3>6. CASE JoinReturn
      <4>1. queue # <<>> => Head(queue) \in Errors /\ Tail(queue) \in Seq(Errors)
        BY DEF QueueTypeOK
      <4>2. CallerTypeOK'
        BY <3>6, <4>1 DEF JoinReturn
      <4>3. QueueTypeOK'
        BY <3>6, <4>1 DEF JoinReturn, QueueTypeOK
      <4>4. LoopTypeOK' /\ HistoryTypeOK'
        BY <3>6 DEF JoinReturn
      <4>5. FlagTypeOK'
        BY <3>6 DEF JoinReturn
      <4> QED
        BY <4>2, <4>3, <4>4, <4>5
    <3> QED
      BY <2>1, <3>1, <3>2, <3>3, <3>4, <3>5, <3>6 DEF CallerStep
  <2>2. CASE LoopStep
    <3> USE <2>2 DEF LoopStep, RunStart, RunWhile, RunPoll, RunWake,
                     RunReapNothing, RunReapException, RunReapUnreadable, RunReapExpected,
                     RunRetry, RunTerminateFnc, RunExpired,
                     Finish, StartProcess, Expiry
    <3>1. CallerTypeOK'
      OBVIOUS
    <3>2. LoopTypeOK'
      OBVIOUS
    <3>3. HistoryTypeOK' /\ FlagTypeOK'
      <4>1. UNCHANGED <<hitTry, orphans, sigterm, made, lost>>
        OBVIOUS
      <4>2. \/ ending' = ending
            \/ ending' \in {"success", "RuntimeError", "Unreadable"}
            \/ ending' \in Errors
        OBVIOUS
      <4>3. reported' \in BOOLEAN
        OBVIOUS
      <4>4. HistoryTypeOK'
        BY ONLY TypeOK, <4>1, <4>2 DEF TypeOK, HistoryTypeOK
      <4> QED
        BY ONLY TypeOK, <4>1, <4>3, <4>4 DEF TypeOK, FlagTypeOK
    <3>4. queue' = queue
      OBVIOUS
    <3>5. buf' = buf \/ \E e \in Errors : buf' = Append(buf, e)
      OBVIOUS
    <3>6. \/ fq' = fq
          \/ fq # <<>> /\ fq' = Tail(fq)
      OBVIOUS
    <3>7. QueueTypeOK'
      <4>1. queue' \in Seq(Errors) /\ buf' \in Seq(Errors)
        BY ONLY TypeOK, <3>4, <3>5, QueueMoves DEF TypeOK, QueueTypeOK
      <4>2. fq' \in Seq(Answers)
        BY ONLY TypeOK, <3>6, QueueMoves DEF TypeOK, QueueTypeOK
      <4> QED
        BY <4>1, <4>2 DEF QueueTypeOK
    <3> QED
      BY <3>1, <3>2, <3>3, <3>7
  <2>3. CASE FncEnds
    <3> USE <2>3 DEF FncEnds, FncReturns, FncRaisesExpected, FncRaises, FncPut, FncAnswersNothing
    <3>1. CallerTypeOK' /\ LoopTypeOK'
      OBVIOUS
    <3>2. HistoryTypeOK' /\ FlagTypeOK'
      <4>1. UNCHANGED <<ending, orphans, sigterm, made, reported>>
        OBVIOUS
      <4>2. hitTry' \in {tries, hitTry} /\ lost' \in {TRUE, lost}
        OBVIOUS
      <4>3. tries \in Nat
        OBVIOUS
      <4>4. HistoryTypeOK'
        BY ONLY TypeOK, <4>1, <4>2, <4>3 DEF TypeOK, HistoryTypeOK
      <4> QED
        BY ONLY TypeOK, <4>1, <4>2, <4>4 DEF TypeOK, FlagTypeOK
    <3>3. UNCHANGED <<queue, buf>>
      OBVIOUS
    <3>4. fq' = fq \/ \E a \in Answers : fq' = Append(fq, a)
      OBVIOUS
    <3>5. QueueTypeOK'
      <4>1. fq' \in Seq(Answers)
        BY ONLY TypeOK, <3>4, QueueMoves DEF TypeOK, QueueTypeOK
      <4> QED
        BY <3>3, <4>1 DEF QueueTypeOK
    <3> QED
      BY <3>1, <3>2, <3>5
  <2>4. CASE SystemStep
    <3> USE <2>4 DEF SystemStep, FncKilled, OrphanEnds, Flush, ProcessExit,
                     ProcessTerminated, Tick
    <3>1. CallerTypeOK' /\ LoopTypeOK'
      OBVIOUS
    <3>2. HistoryTypeOK'
      OBVIOUS
    <3>3. FlagTypeOK'
      OBVIOUS
    <3>4. \/ UNCHANGED <<queue, buf>>
          \/ buf # <<>> /\ queue' = Append(queue, Head(buf)) /\ buf' = Tail(buf)
          \/ queue' = queue /\ buf' = <<>>
      OBVIOUS
    <3>5. fq' = fq \/ fq' = Append(fq, "Fragment")
      OBVIOUS
    <3>6. QueueTypeOK'
      <4>1. fq' \in Seq(Answers)
        BY ONLY TypeOK, <3>5, QueueMoves DEF TypeOK, QueueTypeOK, Answers
      <4>2. queue' \in Seq(Errors) /\ buf' \in Seq(Errors)
        <5>1. buf # <<>> => Head(buf) \in Errors
          BY ONLY TypeOK DEF TypeOK, QueueTypeOK
        <5> QED
          BY ONLY TypeOK, <3>4, <5>1, QueueMoves DEF TypeOK, QueueTypeOK
      <4> QED
        BY <4>1, <4>2 DEF QueueTypeOK
    <3> QED
      BY <3>1, <3>2, <3>3, <3>6
  <2>5. CASE UNCHANGED vars
    BY <2>5 DEF vars, QueueTypeOK
  <2> QED
    BY <2>1, <2>2, <2>3, <2>4, <2>5 DEF Next
<1> QED
  BY <1>1, <1>2, PTL DEF Spec

-----------------------------------------------------------------------------
(* The inductive invariant.                                                *)

(* The initial states satisfy it: nothing has been called yet.             *)
LEMMA InitIInv == Init /\ TypeOK => IInv
<1> SUFFICES ASSUME Init, TypeOK PROVE IInv
  OBVIOUS
<1> USE ArgsTypes DEF TypeOK, Errors, FncAlive, Trying
<1>1. Roles /\ FncStage /\ AnswerStage /\ HitStage
  BY DEF Init, Roles, FncStage, AnswerStage, HitStage
<1>2. TriesStage
  BY DEF Init, TriesStage, TriesBounded
<1>3. EndingStage /\ DeliveryStage
  BY DEF Init, EndingStage, DeliveryStage
<1>4. /\ SuccessIsEarned /\ CountHidesNoHit
      /\ ExpiryIsHonest /\ RuntimeErrorOnlyIfUnanswered
  BY DEF Init, SuccessIsEarned, CountHidesNoHit, ExpiryIsHonest,
         RuntimeErrorOnlyIfUnanswered
<1> QED
  BY <1>1, <1>2, <1>3, <1>4 DEF IInv

(* The error of a _run that is over is on its way, and nowhere else.       *)
LEMMA FinishDelivers ==
  ASSUME NEW v, Finish(v), DeliveryStage, mode = "bg" => made,
         ending \notin Errors
  PROVE  DeliveryStage'
<1>1. mode' = mode /\ queue' = queue /\ ending' = v
  BY DEF Finish
<1>2. ASSUME mode = "bg"
      PROVE  /\ buf' = IF v \in Errors THEN <<v>> ELSE <<>>
             /\ queue' = <<>> /\ pc' = "exit" /\ ~reported'
  <2>1. buf = <<>> /\ queue = <<>> /\ ~reported
    BY <1>2 DEF DeliveryStage
  <2>2. reported' = reported /\ pc' = "exit" /\ queue' = queue
    BY <1>2 DEF Finish
  <2>3. buf' = IF v \in Errors THEN Append(buf, v) ELSE buf
    BY <1>2 DEF Finish
  <2>4. Append(<<>>, v) = <<v>>
    OBVIOUS
  <2> QED
    BY <2>1, <2>2, <2>3, <2>4
<1> QED
  BY <1>1, <1>2 DEF DeliveryStage, Errors

(* Every action preserves it.                                              *)
LEMMA StepIInv == TypeOK /\ IInv /\ [Next]_vars => IInv'
<1> SUFFICES ASSUME TypeOK, IInv, [Next]_vars PROVE IInv'
  OBVIOUS
<1> USE ArgsTypes, Singletons
    DEF TypeOK, CallerTypeOK, LoopTypeOK, HistoryTypeOK, FlagTypeOK,
        QueueTypeOK, Errors, Answers, Retvals, callerVars, procVars, ipcVars,
        loopVars, fncVars, history, MoreTries, TimeIsUp, TriesBounded,
        FncAlive, Trying, IInv, Roles, FncStage, AnswerStage, TriesStage,
        HitStage, EndingStage, DeliveryStage, SuccessIsEarned,
        CountHidesNoHit, ExpiryIsHonest, RuntimeErrorOnlyIfUnanswered
<1>1. ASSUME NEW op \in {"run", "run_in_background"}, CallRefused(op)
      PROVE  IInv'
  BY <1>1 DEF CallRefused, MayCall
<1>2. CASE CallRun
  BY <1>2 DEF CallRun, MayCall, Launch
<1>3. CASE CallRunInBackground
  BY <1>3 DEF CallRunInBackground, MayCall, Launch
<1>4. CASE CallTerminate
  BY <1>4 DEF CallTerminate, MayCall
<1>5. CASE CallJoin
  BY <1>5 DEF CallJoin, MayCall
<1>6. CASE JoinReturn
  <2>1. Roles'
    BY <1>6 DEF JoinReturn
  <2>2. FncStage'
    BY <1>6 DEF JoinReturn
  <2>3. AnswerStage'
    BY <1>6 DEF JoinReturn
  <2>4. TriesStage'
    BY <1>6 DEF JoinReturn
  <2>5. HitStage'
    BY <1>6 DEF JoinReturn
  <2>6. EndingStage'
    BY <1>6 DEF JoinReturn
  <2>7. DeliveryStage'
    BY <1>6, SMTT(30) DEF JoinReturn
  <2>8. SuccessIsEarned'
    BY <1>6 DEF JoinReturn
  <2>9. CountHidesNoHit'
    BY <1>6 DEF JoinReturn
  <2>10. ExpiryIsHonest'
    BY <1>6 DEF JoinReturn
  <2>11. RuntimeErrorOnlyIfUnanswered'
    BY <1>6 DEF JoinReturn
  <2> QED
    BY <2>1, <2>2, <2>3, <2>4, <2>5, <2>6, <2>7, <2>8, <2>9, <2>10, <2>11
<1>7. CASE RunStart
  <2>1. Roles'
    BY <1>7 DEF RunStart, StartProcess
  <2>2. FncStage'
    BY <1>7 DEF RunStart, StartProcess
  <2>3. AnswerStage'
    BY <1>7 DEF RunStart, StartProcess
  <2>4. TriesStage'
    BY <1>7, ProbeAssumption DEF RunStart, StartProcess
  <2>5. HitStage'
    BY <1>7 DEF RunStart, StartProcess
  <2>6. EndingStage'
    BY <1>7 DEF RunStart, StartProcess
  <2>7. DeliveryStage'
    BY <1>7 DEF RunStart, StartProcess
  <2>8. SuccessIsEarned'
    BY <1>7 DEF RunStart, StartProcess
  <2>9. CountHidesNoHit'
    BY <1>7 DEF RunStart, StartProcess
  <2>10. ExpiryIsHonest'
    BY <1>7 DEF RunStart, StartProcess
  <2>11. RuntimeErrorOnlyIfUnanswered'
    BY <1>7 DEF RunStart, StartProcess
  <2> QED
    BY <2>1, <2>2, <2>3, <2>4, <2>5, <2>6, <2>7, <2>8, <2>9, <2>10, <2>11
<1>8. CASE RunWhile
  BY <1>8 DEF RunWhile
<1>9. CASE RunPoll
  BY <1>9 DEF RunPoll
<1>10. CASE RunWake
  BY <1>10 DEF RunWake
<1>11. CASE RunReapNothing
  BY <1>11 DEF RunReapNothing, Finish
<1>12. CASE RunReapException
  <2>1. Roles'
    BY <1>12 DEF RunReapException, RunReapUnreadable, Finish
  <2>2. FncStage'
    BY <1>12 DEF RunReapException, RunReapUnreadable, Finish
  <2>3. AnswerStage'
    BY <1>12, SMTT(30) DEF RunReapException, RunReapUnreadable, Finish
  <2>4. TriesStage'
    BY <1>12 DEF RunReapException, RunReapUnreadable, Finish
  <2>5. HitStage'
    BY <1>12 DEF RunReapException, RunReapUnreadable, Finish
  <2>6. EndingStage'
    BY <1>12 DEF RunReapException, RunReapUnreadable, Finish
  <2>7. DeliveryStage'
    <3>1. Finish("Exception") /\ (mode = "bg" => made) /\ ending \notin Errors
      BY <1>12 DEF RunReapException
    <3> QED
      BY <3>1, FinishDelivers
  <2>8. SuccessIsEarned'
    BY <1>12 DEF RunReapException, RunReapUnreadable, Finish
  <2>9. CountHidesNoHit'
    BY <1>12 DEF RunReapException, RunReapUnreadable, Finish
  <2>10. ExpiryIsHonest'
    BY <1>12 DEF RunReapException, RunReapUnreadable, Finish
  <2>11. RuntimeErrorOnlyIfUnanswered'
    BY <1>12 DEF RunReapException, RunReapUnreadable, Finish
  <2> QED
    BY <2>1, <2>2, <2>3, <2>4, <2>5, <2>6, <2>7, <2>8, <2>9, <2>10, <2>11
<1>13. CASE RunReapExpected
  BY <1>13, SMTT(30) DEF RunReapExpected, Finish
<1>14. CASE RunRetry
  <2>1. Roles'
    BY <1>14 DEF RunRetry, StartProcess
  <2>2. FncStage'
    BY <1>14 DEF RunRetry, StartProcess
  <2>3. AnswerStage'
    BY <1>14, SMTT(30) DEF RunRetry, StartProcess
  <2>4. TriesStage'
    BY <1>14, ProbeAssumption DEF RunRetry, StartProcess
  <2>5. HitStage'
    BY <1>14, SMTT(30) DEF RunRetry, StartProcess
  <2>6. EndingStage'
    BY <1>14 DEF RunRetry, StartProcess
  <2>7. DeliveryStage'
    BY <1>14 DEF RunRetry, StartProcess
  <2>8. SuccessIsEarned'
    BY <1>14 DEF RunRetry, StartProcess
  <2>9. CountHidesNoHit'
    BY <1>14 DEF RunRetry, StartProcess
  <2>10. ExpiryIsHonest'
    BY <1>14 DEF RunRetry, StartProcess
  <2>11. RuntimeErrorOnlyIfUnanswered'
    BY <1>14 DEF RunRetry, StartProcess
  <2> QED
    BY <2>1, <2>2, <2>3, <2>4, <2>5, <2>6, <2>7, <2>8, <2>9, <2>10, <2>11
<1>15. CASE RunTerminateFnc
  BY <1>15 DEF RunTerminateFnc
<1>16. CASE RunExpired
  <2>1. Roles'
    BY <1>16 DEF RunExpired, Finish, Expiry
  <2>2. FncStage'
    BY <1>16 DEF RunExpired, Finish, Expiry
  <2>3. AnswerStage'
    BY <1>16 DEF RunExpired, Finish, Expiry
  <2>4. TriesStage'
    BY <1>16 DEF RunExpired, Finish, Expiry
  <2>5. HitStage'
    BY <1>16 DEF RunExpired, Finish, Expiry
  <2>6. EndingStage'
    BY <1>16 DEF RunExpired, Finish, Expiry
  <2>7. DeliveryStage'
    <3>1. Finish(Expiry) /\ (mode = "bg" => made) /\ ending \notin Errors
      BY <1>16 DEF RunExpired
    <3> QED
      BY <3>1, FinishDelivers
  <2>8. SuccessIsEarned'
    BY <1>16 DEF RunExpired, Finish, Expiry
  <2>9. CountHidesNoHit'
    BY <1>16 DEF RunExpired, Finish, Expiry
  <2>10. ExpiryIsHonest'
    BY <1>16 DEF RunExpired, Finish, Expiry
  <2>11. RuntimeErrorOnlyIfUnanswered'
    BY <1>16 DEF RunExpired, Finish, Expiry
  <2> QED
    BY <2>1, <2>2, <2>3, <2>4, <2>5, <2>6, <2>7, <2>8, <2>9, <2>10, <2>11
<1>17. CASE FncRaisesExpected
  BY <1>17 DEF FncRaisesExpected, FncPut
<1>18. ASSUME NEW e \in {"Exception", "Unreadable"}, FncRaises(e)
      PROVE  IInv'
  <2>1. Roles'
    BY <1>18 DEF FncRaises, FncPut
  <2>2. FncStage'
    BY <1>18 DEF FncRaises, FncPut
  <2>3. AnswerStage'
    BY <1>18 DEF FncRaises, FncPut
  <2>4. TriesStage'
    BY <1>18 DEF FncRaises, FncPut
  <2>5. HitStage'
    BY <1>18 DEF FncRaises, FncPut
  <2>6. EndingStage'
    BY <1>18 DEF FncRaises, FncPut
  <2>7. DeliveryStage'
    BY <1>18 DEF FncRaises, FncPut
  <2>8. SuccessIsEarned'
    BY <1>18 DEF FncRaises, FncPut
  <2>9. CountHidesNoHit'
    BY <1>18 DEF FncRaises, FncPut
  <2>10. ExpiryIsHonest'
    BY <1>18 DEF FncRaises, FncPut
  <2>11. RuntimeErrorOnlyIfUnanswered'
    BY <1>18 DEF FncRaises, FncPut
  <2> QED
    BY <2>1, <2>2, <2>3, <2>4, <2>5, <2>6, <2>7, <2>8, <2>9, <2>10, <2>11
<1>19. CASE FncKilled
  <2>1. Roles'
    BY <1>19 DEF FncKilled
  <2>2. FncStage'
    BY <1>19 DEF FncKilled
  <2>3. AnswerStage'
    <3>1. fq = <<>>
      BY <1>19 DEF FncKilled
    <3>2. fq' = <<>> \/ fq' = <<"Fragment">>
      BY <1>19, <3>1 DEF FncKilled
    <3>3. pc' = pc /\ lost' /\ p' = "dead"
      BY <1>19 DEF FncKilled
    <3>4. pc \notin {"none", "start", "exit"}
      BY <1>19 DEF FncKilled
    <3> QED
      BY ONLY <3>2, <3>3, <3>4 DEF AnswerStage, FncAlive, Answers
  <2>4. TriesStage'
    BY <1>19 DEF FncKilled
  <2>5. HitStage'
    BY <1>19 DEF FncKilled
  <2>6. EndingStage'
    BY <1>19 DEF FncKilled
  <2>7. DeliveryStage'
    BY <1>19 DEF FncKilled
  <2>8. SuccessIsEarned'
    BY <1>19 DEF FncKilled
  <2>9. CountHidesNoHit'
    BY <1>19 DEF FncKilled
  <2>10. ExpiryIsHonest'
    BY <1>19 DEF FncKilled
  <2>11. RuntimeErrorOnlyIfUnanswered'
    BY <1>19 DEF FncKilled
  <2> QED
    BY <2>1, <2>2, <2>3, <2>4, <2>5, <2>6, <2>7, <2>8, <2>9, <2>10, <2>11
<1>20. CASE OrphanEnds
  BY <1>20 DEF OrphanEnds
<1>21. CASE Flush
  <2>1. Roles'
    BY <1>21 DEF Flush
  <2>2. FncStage'
    BY <1>21 DEF Flush
  <2>3. AnswerStage'
    BY <1>21 DEF Flush
  <2>4. TriesStage'
    BY <1>21 DEF Flush
  <2>5. HitStage'
    BY <1>21 DEF Flush
  <2>6. EndingStage'
    BY <1>21 DEF Flush
  <2>7. DeliveryStage'
    <3>1. SUFFICES ASSUME mode = "bg" PROVE DeliveryStage'
      BY <1>21 DEF Flush
    <3>2. buf = <<ending>> /\ queue = <<>> /\ ending \in Errors /\ ~reported
      BY <1>21, <3>1 DEF Flush
    <3>3. buf' = <<>> /\ queue' = <<ending>> /\ UNCHANGED <<ending, reported>>
      BY <1>21, <3>2 DEF Flush
    <3> QED
      BY ONLY <3>2, <3>3 DEF DeliveryStage
  <2>8. SuccessIsEarned'
    BY <1>21 DEF Flush
  <2>9. CountHidesNoHit'
    BY <1>21 DEF Flush
  <2>10. ExpiryIsHonest'
    BY <1>21 DEF Flush
  <2>11. RuntimeErrorOnlyIfUnanswered'
    BY <1>21 DEF Flush
  <2> QED
    BY <2>1, <2>2, <2>3, <2>4, <2>5, <2>6, <2>7, <2>8, <2>9, <2>10, <2>11
<1>22. CASE ProcessExit
  BY <1>22 DEF ProcessExit
<1>23. CASE ProcessTerminated
  BY <1>23 DEF ProcessTerminated
<1>24. CASE Tick
  BY <1>24 DEF Tick
<1>25. ASSUME NEW v \in Retvals, FncReturns(v)
      PROVE  IInv'
  BY <1>25 DEF FncReturns, FncPut
<1>27. CASE RunReapUnreadable
  <2>1. Roles'
    BY <1>27 DEF RunReapUnreadable, Finish
  <2>2. FncStage'
    BY <1>27 DEF RunReapUnreadable, Finish
  <2>3. AnswerStage'
    BY <1>27, SMTT(30) DEF RunReapUnreadable, Finish
  <2>4. TriesStage'
    BY <1>27 DEF RunReapUnreadable, Finish
  <2>5. HitStage'
    BY <1>27 DEF RunReapUnreadable, Finish
  <2>6. EndingStage'
    BY <1>27 DEF RunReapUnreadable, Finish
  <2>7. DeliveryStage'
    <3>1. Finish("Unreadable") /\ (mode = "bg" => made) /\ ending \notin Errors
      BY <1>27 DEF RunReapUnreadable
    <3> QED
      BY <3>1, FinishDelivers
  <2>8. SuccessIsEarned'
    BY <1>27 DEF RunReapUnreadable, Finish
  <2>9. CountHidesNoHit'
    BY <1>27 DEF RunReapUnreadable, Finish
  <2>10. ExpiryIsHonest'
    BY <1>27 DEF RunReapUnreadable, Finish
  <2>11. RuntimeErrorOnlyIfUnanswered'
    BY <1>27 DEF RunReapUnreadable, Finish
  <2> QED
    BY <2>1, <2>2, <2>3, <2>4, <2>5, <2>6, <2>7, <2>8, <2>9, <2>10, <2>11
<1>28. CASE FncAnswersNothing
  <2>1. Roles'
    BY <1>28 DEF FncAnswersNothing
  <2>2. FncStage'
    BY <1>28 DEF FncAnswersNothing
  <2>3. AnswerStage'
    BY <1>28 DEF FncAnswersNothing
  <2>4. TriesStage'
    BY <1>28 DEF FncAnswersNothing
  <2>5. HitStage'
    BY <1>28 DEF FncAnswersNothing
  <2>6. EndingStage'
    BY <1>28 DEF FncAnswersNothing
  <2>7. DeliveryStage'
    BY <1>28 DEF FncAnswersNothing
  <2>8. SuccessIsEarned'
    BY <1>28 DEF FncAnswersNothing
  <2>9. CountHidesNoHit'
    BY <1>28 DEF FncAnswersNothing
  <2>10. ExpiryIsHonest'
    BY <1>28 DEF FncAnswersNothing
  <2>11. RuntimeErrorOnlyIfUnanswered'
    BY <1>28 DEF FncAnswersNothing
  <2> QED
    BY <2>1, <2>2, <2>3, <2>4, <2>5, <2>6, <2>7, <2>8, <2>9, <2>10, <2>11
<1>26. CASE UNCHANGED vars
  BY <1>26 DEF vars
<1> HIDE DEF TypeOK, CallerTypeOK, LoopTypeOK, HistoryTypeOK, FlagTypeOK,
             QueueTypeOK, callerVars, procVars, ipcVars, loopVars, fncVars,
             history, IInv, Errors, Answers
<1> QED
  BY <1>1, <1>2, <1>3, <1>4, <1>5, <1>6, <1>7, <1>8, <1>9, <1>10, <1>11,
     <1>12, <1>13, <1>14, <1>15, <1>16, <1>17, <1>18, <1>19, <1>20, <1>21,
     <1>22, <1>23, <1>24, <1>25, <1>26, <1>27, <1>28
     DEF Next, CallerStep, LoopStep, FncEnds, SystemStep

(* The inductive invariant holds in every reachable state.                 *)
THEOREM Invariant == Spec => []IInv
<1>1. TypeOK /\ IInv /\ [Next]_vars => IInv'
  BY StepIInv
<1>2. Init /\ TypeOK => IInv
  BY InitIInv
<1> QED
  BY <1>1, <1>2, TypeCorrect, PTL DEF Spec

(* A success is the answer of the very try that _run looked at.            *)
THEOREM SuccessEarned == Spec => []SuccessIsEarned
<1>1. IInv => SuccessIsEarned
  BY DEF IInv
<1> QED
  BY <1>1, Invariant, PTL

(* CountExceeded hides no success of the tries that the caller allowed.    *)
THEOREM NoHitHidden == Spec => []CountHidesNoHit
<1>1. IInv => CountHidesNoHit
  BY DEF IInv
<1> QED
  BY <1>1, Invariant, PTL

(* ProbeTimeout and CountExceeded are each raised for their own reason.    *)
THEOREM HonestExpiry == Spec => []ExpiryIsHonest
<1>1. IInv => ExpiryIsHonest
  BY DEF IInv
<1> QED
  BY <1>1, Invariant, PTL

(* An answer that a fnc process put is never missed by the race between    *)
(* its end and the flush of its queue.                                     *)
THEOREM QueueIsFlushed == Spec => []RuntimeErrorOnlyIfUnanswered
<1>1. IInv => RuntimeErrorOnlyIfUnanswered
  BY DEF IInv
<1> QED
  BY <1>1, Invariant, PTL

(* _run leaves no fnc process behind when it ends.                         *)
THEOREM NoLeftover == Spec => []NoFncOutlivesRun
<1>1. IInv => NoFncOutlivesRun
  BY DEF IInv, FncStage, NoFncOutlivesRun
<1> QED
  BY <1>1, Invariant, PTL

(* At most count + 1 fnc processes are started by one _run.                *)
THEOREM TriesAreBounded == Spec => []TriesBounded
<1>1. IInv => TriesBounded
  BY DEF IInv, TriesStage
<1> QED
  BY <1>1, Invariant, PTL

(* join tells the truth about the latest background _run.                  *)
THEOREM JoinIsTruthful == Spec => JoinTellsTheTruth
<1>1. ASSUME TypeOK, IInv, JoinReturn, mode = "bg"
      PROVE  IF got'.out = "None"
               THEN ending \in {"success"} \cup OfItsOwn \/ reported \/ sigterm
               ELSE got'.out = ending /\ ~reported
  <2>1. /\ process = "dead" /\ made
        /\ ending # "none" /\ pc = "none"
    BY <1>1 DEF IInv, Roles, EndingStage, JoinReturn, TypeOK, LoopTypeOK
  <2>2. CASE queue = <<>>
    <3>1. got'.out = "None"
      BY <1>1, <2>2 DEF JoinReturn
    <3>2. ending \in Errors => reported \/ sigterm
      BY <1>1, <2>1, <2>2 DEF IInv, DeliveryStage
    <3>3. ending \in {"success", "terminated"} \cup OfItsOwn \cup Errors
      BY <1>1, <2>1 DEF TypeOK, HistoryTypeOK, OfItsOwn
    <3>4. ending = "terminated" => sigterm
      BY <1>1 DEF IInv, EndingStage
    <3> QED
      BY <3>1, <3>2, <3>3, <3>4
  <2>3. CASE queue # <<>>
    <3>1. queue = <<ending>> /\ ending \in Errors /\ ~reported
      BY <1>1, <2>1, <2>3 DEF IInv, DeliveryStage
    <3>2. got'.out = Head(queue)
      BY <1>1, <2>1, <2>3 DEF JoinReturn
    <3>3. Head(queue) = ending
      BY <3>1, Singletons
    <3> QED
      BY <3>1, <3>2, <3>3 DEF Errors
  <2> QED
    BY <2>2, <2>3
<1>2. TypeOK /\ IInv /\ [Next]_vars
        => [JoinReturn /\ mode = "bg" =>
              IF got'.out = "None"
                THEN ending \in {"success"} \cup OfItsOwn \/ reported \/ sigterm
                ELSE got'.out = ending /\ ~reported]_vars
  BY <1>1
<1> QED
  BY <1>2, TypeCorrect, Invariant, PTL DEF Spec, JoinTellsTheTruth

-----------------------------------------------------------------------------
(* The end of a _run whose time is up.                                     *)

Going == pc \notin {"none", "exit"}

(* The steps that such a _run can still take, at most.                     *)
StepsLeft ==
  CASE pc \in {"none", "exit"}            -> 0
    [] pc = "expired"                     -> 1
    [] pc = "expire"                      -> 2
    [] pc = "while"                       -> 3
    [] pc \in {"start", "sleep", "reap"}  -> 4
    [] pc = "poll"                        -> 5

(* Once the timeout has run out, _run is over after five steps of its own  *)
(* at most, one of them a sleep: each step takes it nearer to its end, and *)
(* nothing else, no answer of a fnc, no kill, no caller, gives it more to  *)
(* do or its time back (lines 115-151).                                    *)
LateRunGetsOn ==
  [][TimeIsUp /\ Going =>
       /\ TimeIsUp' \/ ~Going'
       /\ StepsLeft' <= StepsLeft
       /\ LoopStep => StepsLeft' < StepsLeft]_vars

(* A _run that is late ends within five steps.                             *)
THEOREM LateRunsEnd == Spec => LateRunGetsOn
<1> DEFINE GetsOn == TimeIsUp /\ Going =>
                       /\ TimeIsUp' \/ ~Going'
                       /\ StepsLeft' <= StepsLeft
                       /\ LoopStep => StepsLeft' < StepsLeft
<1>0. TypeOK => StepsLeft \in 0..5
  BY DEF TypeOK, LoopTypeOK, StepsLeft
<1>1. ASSUME TypeOK, TimeIsUp, Going, LoopStep
      PROVE  (TimeIsUp' \/ ~Going') /\ StepsLeft' < StepsLeft
  <2>1. args' = args /\ elapsed' = elapsed
    BY <1>1 DEF LoopStep, RunStart, RunWhile, RunPoll, RunWake, RunReapNothing,
       RunReapException, RunReapUnreadable, RunReapExpected, RunRetry, RunTerminateFnc, RunExpired,
       Finish
  <2>2. TimeIsUp'
    BY <1>1, <2>1 DEF TimeIsUp
  <2>3. CASE RunStart \/ RunWhile \/ RunPoll \/ RunWake \/ RunRetry \/ RunTerminateFnc
    <3>1. \/ pc \in {"start", "sleep", "reap"} /\ pc' = "while"
          \/ pc = "while" /\ pc' = "expire"
          \/ pc = "poll" /\ pc' \in {"sleep", "reap"}
          \/ pc = "expire" /\ pc' = "expired"
      BY <1>1, <2>3 DEF RunStart, RunWhile, RunPoll, RunWake, RunRetry,
         RunTerminateFnc
    <3> QED
      BY <2>2, <3>1 DEF StepsLeft
  <2>4. ASSUME NEW v, pc \in {"reap", "expired"}, Finish(v)
        PROVE  StepsLeft' < StepsLeft
    BY <2>4 DEF Finish, StepsLeft
  <2>5. CASE RunReapNothing \/ RunReapException \/ RunReapUnreadable \/ RunReapExpected \/ RunExpired
    <3>1. pc \in {"reap", "expired"} /\ \E v : Finish(v)
      BY <2>5
         DEF RunReapNothing, RunReapException, RunReapUnreadable,
             RunReapExpected, RunExpired
    <3> QED
      BY <2>2, <2>4, <3>1
  <2> QED
    BY <1>1, <2>2, <2>3, <2>5 DEF LoopStep
<1>2. ASSUME TypeOK, IInv, TimeIsUp, Going, CallerStep
      PROVE  TimeIsUp' /\ StepsLeft' <= StepsLeft
  <2>1. process = "alive" \/ caller = "run"
    BY <1>2 DEF IInv, Roles, Going, TypeOK, LoopTypeOK
  <2>2. ~CallRun /\ ~CallRunInBackground
    BY <2>1 DEF CallRun, CallRunInBackground, MayCall
  <2>3. args' = args /\ elapsed' = elapsed /\ pc' = pc
    BY <1>2, <2>2 DEF CallerStep, CallRefused, CallTerminate, CallJoin, JoinReturn,
       loopVars
  <2>4. StepsLeft' = StepsLeft
    BY <2>3 DEF StepsLeft
  <2> QED
    BY <1>0, <1>2, <2>3, <2>4 DEF TimeIsUp
<1>3. ASSUME TypeOK, TimeIsUp, FncEnds
      PROVE  TimeIsUp' /\ StepsLeft' <= StepsLeft
  <2>1. args' = args /\ elapsed' = elapsed /\ pc' = pc
    BY <1>3
       DEF FncEnds, FncReturns, FncRaisesExpected, FncRaises, FncPut,
           FncAnswersNothing, loopVars
  <2>2. StepsLeft' = StepsLeft
    BY <2>1 DEF StepsLeft
  <2> QED
    BY <1>0, <1>3, <2>1, <2>2 DEF TimeIsUp
<1>4. ASSUME TypeOK, TimeIsUp, SystemStep
      PROVE  TimeIsUp' /\ StepsLeft' <= StepsLeft
  <2>1. CASE Tick
    <3>1. args' = args /\ elapsed' = elapsed /\ pc' = pc
      BY <1>4, <2>1 DEF Tick, TimeIsUp
    <3> QED
      BY <1>4, <3>1 DEF TimeIsUp, StepsLeft, TypeOK, LoopTypeOK
  <2>2. CASE ProcessExit \/ ProcessTerminated
    <3>1. args' = args /\ elapsed' = elapsed /\ pc' = "none"
      BY <2>2 DEF ProcessExit, ProcessTerminated
    <3>2. StepsLeft' = 0
      BY <3>1 DEF StepsLeft
    <3> QED
      BY <1>0, <1>4, <3>1, <3>2 DEF TimeIsUp
  <2>3. CASE FncKilled \/ OrphanEnds \/ Flush
    <3>1. args' = args /\ elapsed' = elapsed /\ pc' = pc
      BY <2>3 DEF FncKilled, OrphanEnds, Flush, loopVars
    <3> QED
      BY <1>4, <3>1 DEF TimeIsUp, StepsLeft, TypeOK, LoopTypeOK
  <2> QED
    BY <1>4, <2>1, <2>2, <2>3 DEF SystemStep
<1>5. ASSUME TypeOK, IInv, Next, TimeIsUp, Going
      PROVE  GetsOn
  <2>1. CASE LoopStep
    <3>1. (TimeIsUp' \/ ~Going') /\ StepsLeft' < StepsLeft
      BY <1>1, <1>5, <2>1
    <3>2. StepsLeft \in Int
      BY <1>0, <1>5
    <3>3. pc' \in {"none", "start", "while", "poll", "sleep", "reap", "expire",
                   "expired", "exit"}
      BY <2>1 DEF LoopStep, RunStart, RunWhile, RunPoll, RunWake, RunReapNothing,
         RunReapException, RunReapUnreadable, RunReapExpected, RunRetry, RunTerminateFnc, RunExpired,
         Finish
    <3>4. StepsLeft' \in Int
      BY <3>3 DEF StepsLeft
    <3> QED
      BY <3>1, <3>2, <3>4
  <2>2. CASE ~LoopStep
    <3>1. TimeIsUp' /\ StepsLeft' <= StepsLeft
      BY <1>2, <1>3, <1>4, <1>5, <2>2 DEF Next
    <3> QED
      BY <2>2, <3>1
  <2> QED
    BY <2>1, <2>2
<1>6. TypeOK /\ IInv /\ [Next]_vars => [GetsOn]_vars
  BY <1>5
<1> QED
  BY <1>6, TypeCorrect, Invariant, PTL DEF Spec, LateRunGetsOn

-----------------------------------------------------------------------------
(* The end of a _run whose tries are counted.                              *)

(* The steps such a _run can still take, at most, if its fnc processes are *)
(* dead whenever it looks.                                                 *)
TryWork ==
  CASE pc \in {"none", "exit"}  -> 0
    [] pc = "expired"           -> 1
    [] pc = "expire"            -> 2
    [] pc \in {"start", "reap"} -> 1 + 5 * (args.count + 1 - tries)
    [] pc = "poll"              -> 2 + 5 * (args.count + 1 - tries)
    [] pc = "while"             -> 3 + 5 * (args.count + 1 - tries)
    [] pc = "sleep"             -> 4 + 5 * (args.count + 1 - tries)

SeesFncAlive == pc = "poll" /\ FncAlive

(* Each step of a counted _run takes it nearer to its end, but for a look  *)
(* that finds the fnc alive, which costs it another round of the loop and  *)
(* no try; and nothing else sets it back.  So it ends after                *)
(* 5 * (count + 1) + 1 steps and three more for each look at a live fnc,   *)
(* with or without a timeout (lines 115-151).                              *)
CountedRunGetsOn ==
  [][args.count # -1 /\ Going =>
       /\ LoopStep /\ ~SeesFncAlive => TryWork' < TryWork
       /\ LoopStep /\ SeesFncAlive => TryWork' = TryWork + 2
       /\ ~LoopStep => TryWork' <= TryWork]_vars

(* What happens around a _run leaves it where it is, or kills it.          *)
LEMMA OthersStandBy ==
  ASSUME TypeOK, IInv, Going, CallerStep \/ FncEnds \/ SystemStep
  PROVE  args' = args /\ ((pc' = pc /\ tries' = tries) \/ pc' = "none")
<1>1. CASE CallerStep
  <2>1. process = "alive" \/ caller = "run"
    BY DEF IInv, Roles, Going, TypeOK, LoopTypeOK
  <2>2. ~CallRun /\ ~CallRunInBackground
    BY <2>1 DEF CallRun, CallRunInBackground, MayCall
  <2> QED
    BY <1>1, <2>2 DEF CallerStep, CallRefused, CallTerminate, CallJoin,
       JoinReturn, loopVars
<1>2. CASE FncEnds
  BY <1>2
     DEF FncEnds, FncReturns, FncRaisesExpected, FncRaises, FncPut,
         FncAnswersNothing, loopVars
<1>3. CASE SystemStep
  BY <1>3 DEF SystemStep, FncKilled, OrphanEnds, Flush, ProcessExit,
     ProcessTerminated, Tick, loopVars
<1> QED
  BY <1>1, <1>2, <1>3

(* A counted _run ends, once its fncs do.                                  *)
THEOREM CountedRunsEnd == Spec => CountedRunGetsOn
<1> DEFINE GetsOn == args.count # -1 /\ Going =>
                       /\ LoopStep /\ ~SeesFncAlive => TryWork' < TryWork
                       /\ LoopStep /\ SeesFncAlive => TryWork' = TryWork + 2
                       /\ ~LoopStep => TryWork' <= TryWork
<1>1. ASSUME TypeOK, IInv, args.count # -1
      PROVE  /\ args.count \in Nat /\ tries \in Nat
             /\ args.count + 1 - tries \in Nat
             /\ TryWork \in Nat
             /\ pc = "reap" => args.count + 1 - tries >= 1
             /\ pc = "start" => tries = 0
  <2>1. args.count \in Nat /\ tries \in Nat
    BY <1>1, ArgsTypes DEF TypeOK, LoopTypeOK
  <2>2. tries <= args.count + 1
    BY <1>1 DEF IInv, TriesStage, TriesBounded
  <2>3. args.count + 1 - tries \in Nat
    BY <2>1, <2>2
  <2>4. TryWork \in Nat
    BY <1>1, <2>1, <2>3 DEF TypeOK, LoopTypeOK, TryWork
  <2>5. pc = "reap" => tries <= args.count
    BY <1>1 DEF IInv, TriesStage, MoreTries
  <2>6. pc = "start" => tries = 0
    BY <1>1 DEF IInv, TriesStage
  <2> QED
    BY <2>1, <2>3, <2>4, <2>5, <2>6
<1>2. ASSUME TypeOK, IInv, args.count # -1, Going, LoopStep
      PROVE  GetsOn
  <2>0. args.count \in Nat /\ tries \in Nat
    BY <1>1, <1>2
  <2>1. CASE RunStart \/ RunRetry
    <3>1. /\ args' = args /\ tries' = tries + 1 /\ pc' = "while"
          /\ pc \in {"start", "reap"}
      BY <1>2, <2>1 DEF RunStart, RunRetry, StartProcess
    <3>2. TryWork = 1 + 5 * (args.count + 1 - tries)
      BY <3>1 DEF TryWork
    <3>3. TryWork' = 3 + 5 * (args.count + 1 - (tries + 1))
      BY <3>1 DEF TryWork
    <3>4. TryWork' < TryWork
      BY <2>0, <3>2, <3>3
    <3> QED
      BY <1>2, <3>1, <3>4 DEF SeesFncAlive
  <2>2. CASE RunWhile \/ RunWake
    <3>1. /\ args' = args /\ tries' = tries
          /\ \/ pc = "while" /\ pc' \in {"poll", "expire"}
             \/ pc = "sleep" /\ pc' = "while"
      BY <2>2 DEF RunWhile, RunWake
    <3>2. TryWork' < TryWork
      BY <1>1, <1>2, <2>0, <3>1 DEF TryWork
    <3> QED
      BY <1>2, <3>1, <3>2 DEF SeesFncAlive
  <2>3. CASE RunPoll
    <3>1. /\ args' = args /\ tries' = tries /\ pc = "poll"
          /\ pc' = IF FncAlive THEN "sleep" ELSE "reap"
      BY <2>3 DEF RunPoll, FncAlive
    <3>2. CASE FncAlive
      BY <1>2, <2>0, <3>1, <3>2 DEF TryWork, SeesFncAlive
    <3>3. CASE ~FncAlive
      BY <1>2, <2>0, <3>1, <3>3 DEF TryWork, SeesFncAlive
    <3> QED
      BY <3>2, <3>3
  <2>4. CASE RunTerminateFnc
    BY <1>2, <2>4 DEF RunTerminateFnc, TryWork, SeesFncAlive
  <2>5. ASSUME NEW v, pc \in {"reap", "expired"}, Finish(v)
        PROVE  TryWork' < TryWork
    <3>1. TryWork' = 0
      BY <2>5 DEF Finish, TryWork
    <3>2. TryWork > 0
      BY <1>1, <1>2, <2>0, <2>5 DEF TryWork
    <3> QED
      BY <3>1, <3>2
  <2>6. CASE RunReapNothing \/ RunReapException \/ RunReapUnreadable \/ RunReapExpected \/ RunExpired
    <3>1. pc \in {"reap", "expired"} /\ \E v : Finish(v)
      BY <2>6
         DEF RunReapNothing, RunReapException, RunReapUnreadable,
             RunReapExpected, RunExpired
    <3> QED
      BY <1>2, <2>5, <3>1 DEF SeesFncAlive
  <2> QED
    BY <1>2, <2>1, <2>2, <2>3, <2>4, <2>6 DEF LoopStep
<1>3. ASSUME TypeOK, IInv, Next, args.count # -1, Going, ~LoopStep
      PROVE  GetsOn
  <2>1. args' = args /\ ((pc' = pc /\ tries' = tries) \/ pc' = "none")
    BY <1>3, OthersStandBy DEF Next
  <2>2. CASE args' = args /\ pc' = pc /\ tries' = tries
    <3>1. TryWork' = TryWork
      BY ONLY <2>2 DEF TryWork
    <3> QED
      BY <1>1, <1>3, <3>1
  <2>3. CASE pc' = "none"
    <3>1. TryWork' = 0
      BY <2>3 DEF TryWork
    <3> QED
      BY <1>1, <1>3, <3>1
  <2> QED
    BY <2>1, <2>2, <2>3
<1>4. TypeOK /\ IInv /\ [Next]_vars => [GetsOn]_vars
  BY <1>2, <1>3
<1> QED
  BY <1>4, TypeCorrect, Invariant, PTL DEF Spec, CountedRunGetsOn

-----------------------------------------------------------------------------
(* The refinement.                                                         *)

(* The initial states are initial states of the contract.                  *)
LEMMA InitContract == Init /\ TypeOK => Promise!ContractInit
<1> SUFFICES ASSUME Init, TypeOK PROVE Promise!ContractInit
  OBVIOUS
<1>1. args.count \in Nat \cup {-1}
  BY ArgsTypes DEF TypeOK
<1>2. ~Trying /\ CurrentAnswer = "none"
  BY DEF Init, Trying, CurrentAnswer
<1>3. tries = 0 /\ ending = "none"
  BY DEF Init
<1>4. (args.timeout # -1 /\ elapsed > args.timeout) = FALSE
  BY ArgsTypes DEF Init, TypeOK
<1> QED
  BY <1>1, <1>2, <1>3, <1>4 DEF Promise!ContractInit

(* Every step is a step of the contract, or leaves what it sees unchanged. *)
LEMMA StepContract ==
  TypeOK /\ IInv /\ [Next]_vars => [Promise!ContractNext]_(Promise!contractVars)
<1> SUFFICES ASSUME TypeOK, IInv, [Next]_vars
             PROVE  [Promise!ContractNext]_(Promise!contractVars)
  OBVIOUS
<1> USE ArgsTypes, Singletons
    DEF TypeOK, CallerTypeOK, LoopTypeOK, HistoryTypeOK, QueueTypeOK, Errors,
        Answers, Retvals, callerVars, procVars, ipcVars, loopVars, fncVars,
        history, MoreTries, TimeIsUp, TriesBounded, FncAlive, Trying,
        CurrentAnswer, IInv, Roles, FncStage, AnswerStage, TriesStage,
        EndingStage, ExpiryIsHonest,
        Promise!ContractNext, Promise!contractVars, Promise!Endings,
        Promise!Ask, Promise!Begin, Promise!Answer, Promise!Again,
        Promise!Expire, Promise!Reason, Promise!End, Promise!Abandon
<1>1. ASSUME NEW op \in {"run", "run_in_background"}, CallRefused(op)
      PROVE  [Promise!ContractNext]_(Promise!contractVars)
  BY <1>1 DEF CallRefused, MayCall
<1>2. CASE CallRun
  BY <1>2, SMTT(30) DEF CallRun, MayCall, Launch
<1>3. CASE CallRunInBackground
  BY <1>3 DEF CallRunInBackground, MayCall, Launch
<1>4. CASE CallTerminate
  BY <1>4 DEF CallTerminate, MayCall
<1>5. CASE CallJoin
  BY <1>5 DEF CallJoin, MayCall
<1>6. CASE JoinReturn
  BY <1>6 DEF JoinReturn
<1>7. CASE RunStart
  <2>1. tries' = 1
    BY <1>7, ProbeAssumption DEF RunStart, StartProcess
  <2>2. Promise!Begin
    BY <1>7, <2>1 DEF RunStart, StartProcess
  <2> QED
    BY <2>2
<1>8. CASE RunWhile
  BY <1>8 DEF RunWhile
<1>9. CASE RunPoll
  BY <1>9 DEF RunPoll
<1>10. CASE RunWake
  BY <1>10 DEF RunWake
<1>11. CASE RunReapNothing
  BY <1>11 DEF RunReapNothing, Finish
<1>12. CASE RunReapException
  BY <1>12 DEF RunReapException, RunReapUnreadable, Finish
<1>13. CASE RunReapExpected
  BY <1>13 DEF RunReapExpected, Finish
<1>14. CASE RunRetry
  BY <1>14 DEF RunRetry, StartProcess
<1>15. CASE RunTerminateFnc
  BY <1>15 DEF RunTerminateFnc
<1>16. CASE RunExpired
  <2>1. ending' = Expiry /\ Trying /\ ~Trying'
    BY <1>16 DEF RunExpired, Finish
  <2>2. Expiry = "CountExceeded" => args.count # -1 /\ tries = args.count + 1
    BY <1>16 DEF RunExpired, Expiry
  <2>3. Expiry = "ProbeTimeout"
          => TimeIsUp /\ (args.count = -1 \/ tries <= args.count)
    BY <1>16 DEF RunExpired, Expiry
  <2>4. Expiry \in {"CountExceeded", "ProbeTimeout"}
    BY DEF Expiry
  <2>5. UNCHANGED <<args, tries, elapsed>>
    BY <1>16 DEF RunExpired, Finish
  <2>6. Promise!Reason(Expiry)
    BY <2>2, <2>3, <2>4
  <2>7. Promise!End
    BY <2>1, <2>4, <2>5, <2>6
  <2> QED
    BY <2>7
<1>17. CASE FncRaisesExpected
  BY <1>17 DEF FncRaisesExpected, FncPut
<1>18. ASSUME NEW e \in {"Exception", "Unreadable"}, FncRaises(e)
      PROVE  [Promise!ContractNext]_(Promise!contractVars)
  BY <1>18 DEF FncRaises, FncPut
<1>19. CASE FncKilled
  BY <1>19 DEF FncKilled
<1>20. CASE OrphanEnds
  BY <1>20 DEF OrphanEnds
<1>21. CASE Flush
  BY <1>21 DEF Flush
<1>22. CASE ProcessExit
  BY <1>22 DEF ProcessExit
<1>23. CASE ProcessTerminated
  BY <1>23 DEF ProcessTerminated
<1>24. CASE Tick
  BY <1>24 DEF Tick
<1>25. ASSUME NEW v \in Retvals, FncReturns(v)
      PROVE  [Promise!ContractNext]_(Promise!contractVars)
  BY <1>25 DEF FncReturns, FncPut
<1>27. CASE RunReapUnreadable
  BY <1>27 DEF RunReapUnreadable, Finish
<1>28. CASE FncAnswersNothing
  BY <1>28 DEF FncAnswersNothing
<1>26. CASE UNCHANGED vars
  BY <1>26 DEF vars
<1>29. CASE CallerStep
  BY ONLY <1>29, <1>1, <1>2, <1>3, <1>4, <1>5, <1>6 DEF CallerStep
<1>30. CASE LoopStep
  BY ONLY <1>30, <1>7, <1>8, <1>9, <1>10, <1>11, <1>12, <1>13, <1>14, <1>15,
          <1>16, <1>27
     DEF LoopStep
<1>31. CASE FncEnds
  BY ONLY <1>31, <1>17, <1>18, <1>25, <1>28 DEF FncEnds
<1>32. CASE SystemStep
  BY ONLY <1>32, <1>19, <1>20, <1>21, <1>22, <1>23, <1>24 DEF SystemStep
<1> QED
  BY ONLY [Next]_vars, <1>26, <1>29, <1>30, <1>31, <1>32 DEF Next

(* A Probe implements its contract: every execution of _run is a sequence  *)
(* of attempts that ends as its latest attempt answered, or for the reason *)
(* it gives.                                                               *)
THEOREM Refinement == Spec => KeepsContract
<1>1. Init /\ TypeOK => Promise!ContractInit
  BY InitContract
<1>2. TypeOK /\ IInv /\ [Next]_vars
        => [Promise!ContractNext]_(Promise!contractVars)
  BY StepContract
<1> QED
  BY <1>1, <1>2, TypeCorrect, Invariant, PTL
     DEF Spec, KeepsContract, Promise!Contract

=============================================================================
