---------------------------- MODULE NspawnProofs -----------------------------
(***************************************************************************)
(* Proofs about the nspawn backend.  First about NspawnMachine, for every  *)
(* number of retries, looks, processes and calls: which processes may be   *)
(* left behind, what stop and kill leave of the machine, and what execute  *)
(* says of the command.  Then about NspawnImages, for any number of conu   *)
(* processes, images and devices.  The two components share no variable.   *)
(***************************************************************************)
EXTENDS NspawnMachine, NspawnImages, TLAPS

(* Which call may be where.                                                *)
PcInv ==
  /\ op = "none" <=> pc = "idle"
  /\ pc \in {"launch", "poll", "boot"} => op \in {"run", "start"}
  /\ pc = "poweroff" => op \in {"stop", "cleanup"}
  /\ pc = "terminate" => op \in {"kill", "cleanup"}
  /\ pc \in {"finish", "reap"} => op \in {"stop", "kill", "cleanup"}
  /\ pc = "remove" => op \in {"delete", "cleanup"}
  /\ pc \in {"unit", "show", "copy"} => op = "execute"
  /\ pc = "launch" => tries < Retry
  /\ pc \in {"poll", "boot"} => cur \in Procs
  /\ op \notin {"none", "run"} => made

(* A machine is served by one process, unless that was killed or it is     *)
(* absent.                                                                 *)
Served == machine \in {"booting", "up", "stopping"}

ServeInv ==
  /\ \A p \in Procs : proc[p] = "serving" => Served
  /\ Served => \E p \in Procs : proc[p] = "serving"
  /\ \A p, q \in Procs : proc[p] = "serving" /\ proc[q] = "serving" => p = q

(* Whatever is alive is held by the object, was left behind, or is the     *)
(* process just launched.                                                  *)
HandleInv ==
  /\ made => handle \in Procs
  /\ ~made => handle = NoProc
  /\ \A p \in Procs :
       Alive(p) => \/ p = handle \/ p \in left
                   \/ p = cur /\ pc \in {"poll", "boot"}

(* With --wait the exit code is the unit's, or systemd-run was killed;     *)
(* without it is a text.                                                   *)
CodeInv ==
  /\ pc \notin {"unit", "show", "copy"} => unit = "none"
  /\ pc = "unit" /\ unit # "none" => wait
  /\ pc = "show" => ~wait
  /\ pc = "copy" /\ wait =>
       /\ ~code.text
       /\ code.value # "killed" =>
            unit # "running" /\ (code.value = "zero" <=> unit = "zero")
  /\ pc = "copy" /\ ~wait => code.text

IInv == TypeOK /\ PcInv /\ ServeInv /\ HandleInv /\ CodeInv

-----------------------------------------------------------------------------

CallTypeOK ==
  /\ op \in Ops \cup {"none"} /\ force \in BOOLEAN /\ delete \in BOOLEAN
  /\ pc \in {"idle", "launch", "poll", "boot", "poweroff", "terminate",
             "finish", "reap", "remove", "unit", "show", "copy"}
  /\ cur \in Procs \cup {NoProc}
  /\ tries \in 0..(IF Retry > BootLooks THEN Retry ELSE BootLooks)
  /\ unit \in {"none", "running", "lost", "zero", "nonzero"}
  /\ code \in Codes /\ result \in Results /\ calls \in 0..MaxCalls

LEMMA EndTypes ==
  ASSUME TypeOK, NEW r \in Results, End(r)
  PROVE  CallTypeOK'
<1>1. 0 \in 0..(IF Retry > BootLooks THEN Retry ELSE BootLooks)
  BY NspawnAssumption
<1>2. NoCode \in Codes
  BY DEF NoCode, Codes
<1> QED
  BY <1>1, <1>2 DEF TypeOK, CallTypeOK, End

LEMMA InitInv == Init => IInv
<1> SUFFICES ASSUME Init PROVE IInv
  OBVIOUS
<1>1. TypeOK
  <2>1. 0 \in 0..(IF Retry > BootLooks THEN Retry ELSE BootLooks) /\ 0 \in 0..MaxCalls
    BY NspawnAssumption
  <2>2. NoCode \in Codes
    BY DEF NoCode, Codes
  <2> QED
    BY <2>1, <2>2 DEF Init, TypeOK, Results
<1>2. PcInv /\ ServeInv /\ HandleInv /\ CodeInv
  BY DEF Init, PcInv, ServeInv, Served, HandleInv, CodeInv, Alive
<1> QED
  BY <1>1, <1>2 DEF IInv

LEMMA StepInv == IInv /\ [Next]_vars => IInv'
<1> SUFFICES ASSUME IInv, [Next]_vars PROVE IInv'
  OBVIOUS
<1> USE NspawnAssumption DEF IInv, NoProc, callVars
<1>0. NoCode \in Codes
  BY DEF NoCode, Codes
<1>1. ASSUME CallRun PROVE IInv'
  <2>1. TypeOK'
    BY <1>1, <1>0 DEF TypeOK, Ops, Results, CallRun, Begin
  <2>2. PcInv'
    BY <1>1 DEF PcInv, CallRun, Begin
  <2>3. ServeInv'
    BY <1>1 DEF ServeInv, Served, CallRun
  <2>4. HandleInv'
    BY <1>1 DEF PcInv, HandleInv, Alive, CallRun, Begin
  <2>5. CodeInv'
    BY <1>1 DEF PcInv, CodeInv, NoCode, CallRun, Begin
  <2> QED
    BY <2>1, <2>2, <2>3, <2>4, <2>5
<1>2. ASSUME NEW o, NEW label, <<o, label>> \in {<<"start", "launch">>, <<"stop", "poweroff">>,
                               <<"kill", "terminate">>, <<"delete", "remove">>,
                               <<"execute", "unit">>},
             Call(o, label) PROVE IInv'
  <2>1. TypeOK'
    BY <1>2, <1>0 DEF TypeOK, Ops, Results, Call, Begin
  <2>2. PcInv'
    BY <1>2 DEF PcInv, Call, Begin
  <2>3. ServeInv'
    BY <1>2 DEF ServeInv, Served, Call
  <2>4. HandleInv'
    BY <1>2 DEF PcInv, HandleInv, Alive, Call, Begin
  <2>5. CodeInv'
    BY <1>2 DEF PcInv, CodeInv, NoCode, Call, Begin
  <2> QED
    BY <2>1, <2>2, <2>3, <2>4, <2>5
<1>3. ASSUME CallCleanup PROVE IInv'
  <2>1. TypeOK'
    BY <1>3, <1>0 DEF TypeOK, Ops, Results, CallCleanup, Begin
  <2>2. PcInv'
    BY <1>3 DEF PcInv, CallCleanup, Begin
  <2>3. ServeInv'
    BY <1>3 DEF ServeInv, Served, CallCleanup
  <2>4. HandleInv'
    BY <1>3 DEF PcInv, HandleInv, Alive, CallCleanup, Begin
  <2>5. CodeInv'
    BY <1>3 DEF PcInv, CodeInv, NoCode, CallCleanup, Begin
  <2> QED
    BY <2>1, <2>2, <2>3, <2>4, <2>5
<1>4. ASSUME NEW p \in Procs, Launch(p) PROVE IInv'
  <2>1. TypeOK'
    BY <1>4, <1>0 DEF TypeOK, PcInv, Launch
  <2>2. PcInv'
    BY <1>4 DEF PcInv, Launch
  <2>3. ServeInv'
    BY <1>4 DEF ServeInv, Served, Launch
  <2>4. HandleInv'
    BY <1>4 DEF HandleInv, Alive, Launch
  <2>5. CodeInv'
    BY <1>4 DEF CodeInv, NoCode, Launch
  <2> QED
    BY <2>1, <2>2, <2>3, <2>4, <2>5
<1>5. ASSUME PollAlive PROVE IInv'
  <2>1. TypeOK'
    BY <1>5, <1>0 DEF TypeOK, PollAlive
  <2>2. PcInv'
    BY <1>5 DEF PcInv, PollAlive
  <2>3. ServeInv'
    BY <1>5 DEF ServeInv, Served, PollAlive
  <2>4. HandleInv'
    BY <1>5 DEF HandleInv, Alive, PollAlive
  <2>5. CodeInv'
    BY <1>5 DEF CodeInv, NoCode, PollAlive
  <2> QED
    BY <2>1, <2>2, <2>3, <2>4, <2>5
<1>6. ASSUME PollDeadAgain PROVE IInv'
  <2>1. TypeOK'
    BY <1>6, <1>0 DEF TypeOK, PollDeadAgain
  <2>2. PcInv'
    BY <1>6 DEF PcInv, PollDeadAgain
  <2>3. ServeInv'
    BY <1>6 DEF ServeInv, Served, PollDeadAgain
  <2>4. HandleInv'
    BY <1>6 DEF HandleInv, Alive, PollDeadAgain
  <2>5. CodeInv'
    BY <1>6 DEF CodeInv, NoCode, PollDeadAgain
  <2> QED
    BY <2>1, <2>2, <2>3, <2>4, <2>5
<1>7. ASSUME PollDeadGiveUp PROVE IInv'
  <2>1. TypeOK'
    <3>1. CallTypeOK'
      BY <1>7, EndTypes DEF PollDeadGiveUp, Results
    <3> QED
      BY <1>7, <3>1 DEF TypeOK, CallTypeOK, PollDeadGiveUp
  <2>2. PcInv'
    BY <1>7 DEF PcInv, PollDeadGiveUp, End
  <2>3. ServeInv'
    BY <1>7 DEF ServeInv, Served, PollDeadGiveUp
  <2>4. HandleInv'
    BY <1>7 DEF HandleInv, Alive, PollDeadGiveUp, End
  <2>5. CodeInv'
    BY <1>7 DEF CodeInv, PollDeadGiveUp, End
  <2> QED
    BY <2>1, <2>2, <2>3, <2>4, <2>5
<1>8. ASSUME BootSeen PROVE IInv'
  <2>1. TypeOK'
    <3>1. CallTypeOK'
      BY <1>8, EndTypes DEF BootSeen, Results
    <3> QED
      BY <1>8, <3>1 DEF TypeOK, CallTypeOK, BootSeen
  <2>2. PcInv'
    BY <1>8 DEF PcInv, BootSeen, End
  <2>3. ServeInv'
    BY <1>8 DEF ServeInv, Served, BootSeen
  <2>4. HandleInv'
    BY <1>8 DEF PcInv, HandleInv, Alive, BootSeen, End
  <2>5. CodeInv'
    BY <1>8 DEF CodeInv, BootSeen, End
  <2> QED
    BY <2>1, <2>2, <2>3, <2>4, <2>5
<1>9. ASSUME BootNotSeen PROVE IInv'
  <2>1. TypeOK'
    <3>1. CallTypeOK'
      <4>1. CASE \E r \in Results : End(r)
        BY <4>1, EndTypes
      <4>2. CASE ~\E r \in Results : End(r)
        BY <1>9, <4>2 DEF TypeOK, CallTypeOK, Results, BootNotSeen, LookAgain
      <4> QED
        BY <4>1, <4>2
    <3> QED
      BY <1>9, <3>1 DEF TypeOK, PcInv, CallTypeOK, BootNotSeen, LookAgain
  <2>2. PcInv'
    BY <1>9 DEF PcInv, BootNotSeen, LookAgain, End
  <2>3. ServeInv'
    BY <1>9 DEF ServeInv, Served, BootNotSeen, LookAgain
  <2>4. HandleInv'
    BY <1>9 DEF PcInv, HandleInv, Alive, BootNotSeen, LookAgain, End
  <2>5. CodeInv'
    BY <1>9 DEF CodeInv, BootNotSeen, LookAgain, End
  <2> QED
    BY <2>1, <2>2, <2>3, <2>4, <2>5
<1>10. ASSUME Poweroff PROVE IInv'
  <2>1. TypeOK'
    BY <1>10, <1>0 DEF TypeOK, Poweroff, GoesDown
  <2>2. PcInv'
    BY <1>10 DEF PcInv, Poweroff, GoesDown
  <2>3. ServeInv'
    <3>1. (Served' <=> Served) /\ UNCHANGED proc
      BY <1>10 DEF TypeOK, Served, Poweroff, GoesDown
    <3> QED
      BY <3>1 DEF ServeInv
  <2>4. HandleInv'
    BY <1>10 DEF HandleInv, Alive, Poweroff, GoesDown
  <2>5. CodeInv'
    BY <1>10 DEF CodeInv, NoCode, Poweroff, GoesDown
  <2> QED
    BY <2>1, <2>2, <2>3, <2>4, <2>5
<1>11. ASSUME PoweroffFails PROVE IInv'
  <2>1. TypeOK'
    <3>1. CallTypeOK'
      <4>1. CASE \E r \in Results : End(r)
        BY <4>1, EndTypes
      <4>2. CASE ~\E r \in Results : End(r)
        BY <1>11, <4>2 DEF TypeOK, CallTypeOK, Results, PoweroffFails
      <4> QED
        BY <4>1, <4>2
    <3> QED
      BY <1>11, <3>1 DEF TypeOK, CallTypeOK, PoweroffFails
  <2>2. PcInv'
    BY <1>11 DEF PcInv, PoweroffFails, End
  <2>3. ServeInv'
    BY <1>11 DEF ServeInv, Served, PoweroffFails
  <2>4. HandleInv'
    BY <1>11 DEF HandleInv, Alive, PoweroffFails, End
  <2>5. CodeInv'
    BY <1>11 DEF CodeInv, PoweroffFails, End
  <2> QED
    BY <2>1, <2>2, <2>3, <2>4, <2>5
<1>12. ASSUME Terminate PROVE IInv'
  <2>1. TypeOK'
    BY <1>12, <1>0 DEF TypeOK, Terminate, GoesDown
  <2>2. PcInv'
    BY <1>12 DEF PcInv, Terminate, GoesDown
  <2>3. ServeInv'
    <3>1. (Served' <=> Served) /\ UNCHANGED proc
      BY <1>12 DEF TypeOK, Served, Terminate, GoesDown
    <3> QED
      BY <3>1 DEF ServeInv
  <2>4. HandleInv'
    BY <1>12 DEF HandleInv, Alive, Terminate, GoesDown
  <2>5. CodeInv'
    BY <1>12 DEF CodeInv, NoCode, Terminate, GoesDown
  <2> QED
    BY <2>1, <2>2, <2>3, <2>4, <2>5
<1>13. ASSUME TerminateFails PROVE IInv'
  <2>1. TypeOK'
    <3>1. CallTypeOK'
      <4>1. CASE \E r \in Results : End(r)
        BY <4>1, EndTypes
      <4>2. CASE ~\E r \in Results : End(r)
        BY <1>13, <4>2 DEF TypeOK, CallTypeOK, Results, TerminateFails, Down
      <4> QED
        BY <4>1, <4>2
    <3> QED
      BY <1>13, <3>1 DEF TypeOK, CallTypeOK, TerminateFails
  <2>2. PcInv'
    BY <1>13 DEF PcInv, TerminateFails, End, Down
  <2>3. ServeInv'
    BY <1>13 DEF ServeInv, Served, TerminateFails
  <2>4. HandleInv'
    BY <1>13 DEF HandleInv, Alive, TerminateFails, Down, End
  <2>5. CodeInv'
    BY <1>13 DEF CodeInv, TerminateFails, End, Down
  <2> QED
    BY <2>1, <2>2, <2>3, <2>4, <2>5
<1>14. ASSUME FinishWait PROVE IInv'
  <2>1. TypeOK'
    BY <1>14, <1>0 DEF TypeOK, FinishWait
  <2>2. PcInv'
    BY <1>14 DEF PcInv, FinishWait
  <2>3. ServeInv'
    BY <1>14 DEF ServeInv, Served, FinishWait
  <2>4. HandleInv'
    BY <1>14 DEF HandleInv, Alive, FinishWait
  <2>5. CodeInv'
    BY <1>14 DEF CodeInv, NoCode, FinishWait
  <2> QED
    BY <2>1, <2>2, <2>3, <2>4, <2>5
<1>15. ASSUME Reap PROVE IInv'
  <2>1. TypeOK'
    <3>1. CallTypeOK'
      <4>1. CASE \E r \in Results : End(r)
        BY <4>1, EndTypes
      <4>2. CASE ~\E r \in Results : End(r)
        BY <1>15, <4>2 DEF TypeOK, CallTypeOK, Results, Reap, Down
      <4> QED
        BY <4>1, <4>2
    <3> QED
      BY <1>15, <3>1 DEF TypeOK, CallTypeOK, Reap
  <2>2. PcInv'
    BY <1>15 DEF PcInv, Reap, End, Down
  <2>3. ServeInv'
    <3>1. handle \in Procs
      BY <1>15 DEF PcInv, HandleInv, Reap
    <3>2. \A p \in Procs \ {handle} : proc'[p] = proc[p]
      BY <1>15 DEF TypeOK, Reap
    <3>3. proc'[handle] # "serving"
      BY <1>15, <3>1 DEF TypeOK, Alive, Procs, Reap
    <3>4. CASE proc[handle] = "serving"
      <4>1. machine' = "killed"
        BY <1>15, <3>4 DEF Reap
      <4> QED
        BY <3>1, <3>2, <3>3, <3>4, <4>1 DEF ServeInv, Served
    <3>5. CASE proc[handle] # "serving"
      <4>1. machine' = machine
        BY <1>15, <3>5 DEF Reap
      <4> QED
        BY <3>1, <3>2, <3>3, <3>5, <4>1 DEF ServeInv, Served
    <3> QED
      BY <3>4, <3>5
  <2>4. HandleInv'
    BY <1>15 DEF TypeOK, PcInv, HandleInv, Alive, Reap, Down, End
  <2>5. CodeInv'
    BY <1>15 DEF CodeInv, Reap, End, Down
  <2> QED
    BY <2>1, <2>2, <2>3, <2>4, <2>5
<1>16. ASSUME Remove PROVE IInv'
  <2>1. TypeOK'
    <3>1. CallTypeOK'
      BY <1>16, EndTypes DEF Remove, Results
    <3> QED
      BY <1>16, <3>1 DEF TypeOK, CallTypeOK, Remove
  <2>2. PcInv'
    BY <1>16 DEF PcInv, Remove, End
  <2>3. ServeInv'
    BY <1>16 DEF ServeInv, Served, Remove
  <2>4. HandleInv'
    BY <1>16 DEF HandleInv, Alive, Remove, End
  <2>5. CodeInv'
    BY <1>16 DEF CodeInv, Remove, End
  <2> QED
    BY <2>1, <2>2, <2>3, <2>4, <2>5
<1>17. ASSUME UnitStarts PROVE IInv'
  <2>1. TypeOK'
    BY <1>17, <1>0 DEF TypeOK, UnitStarts
  <2>2. PcInv'
    BY <1>17 DEF PcInv, UnitStarts
  <2>3. ServeInv'
    BY <1>17 DEF ServeInv, Served, UnitStarts
  <2>4. HandleInv'
    BY <1>17 DEF HandleInv, Alive, UnitStarts
  <2>5. CodeInv'
    BY <1>17 DEF CodeInv, NoCode, UnitStarts
  <2> QED
    BY <2>1, <2>2, <2>3, <2>4, <2>5
<1>18. ASSUME UnitDone PROVE IInv'
  <2>1. TypeOK'
    BY <1>18, <1>0 DEF TypeOK, Codes, UnitDone
  <2>2. PcInv'
    BY <1>18 DEF PcInv, UnitDone
  <2>3. ServeInv'
    BY <1>18 DEF ServeInv, Served, UnitDone
  <2>4. HandleInv'
    BY <1>18 DEF HandleInv, Alive, UnitDone
  <2>5. CodeInv'
    <3>1. wait
      BY <1>18 DEF UnitDone, CodeInv
    <3> QED
      BY <1>18, <3>1 DEF CodeInv, UnitDone
  <2> QED
    BY <2>1, <2>2, <2>3, <2>4, <2>5
<1>19. ASSUME UnitLost PROVE IInv'
  <2>1. TypeOK'
    BY <1>19, <1>0 DEF TypeOK, Codes, UnitLost
  <2>2. PcInv'
    BY <1>19 DEF PcInv, UnitLost
  <2>3. ServeInv'
    BY <1>19 DEF ServeInv, Served, UnitLost
  <2>4. HandleInv'
    BY <1>19 DEF HandleInv, Alive, UnitLost
  <2>5. CodeInv'
    BY <1>19 DEF CodeInv, NoCode, UnitLost
  <2> QED
    BY <2>1, <2>2, <2>3, <2>4, <2>5
<1>20. ASSUME Show PROVE IInv'
  <2>1. TypeOK'
    BY <1>20, <1>0 DEF TypeOK, Codes, Show
  <2>2. PcInv'
    BY <1>20 DEF PcInv, Show
  <2>3. ServeInv'
    BY <1>20 DEF ServeInv, Served, Show
  <2>4. HandleInv'
    BY <1>20 DEF HandleInv, Alive, Show
  <2>5. CodeInv'
    BY <1>20 DEF CodeInv, NoCode, Show
  <2> QED
    BY <2>1, <2>2, <2>3, <2>4, <2>5
<1>21. ASSUME ShowFails PROVE IInv'
  <2>1. TypeOK'
    <3>1. CallTypeOK'
      BY <1>21, EndTypes DEF ShowFails, Results
    <3> QED
      BY <1>21, <3>1 DEF TypeOK, CallTypeOK, ShowFails
  <2>2. PcInv'
    BY <1>21 DEF PcInv, ShowFails, End
  <2>3. ServeInv'
    BY <1>21 DEF ServeInv, Served, ShowFails
  <2>4. HandleInv'
    BY <1>21 DEF HandleInv, Alive, ShowFails, End
  <2>5. CodeInv'
    BY <1>21 DEF CodeInv, ShowFails, End
  <2> QED
    BY <2>1, <2>2, <2>3, <2>4, <2>5
<1>22. ASSUME Copy PROVE IInv'
  <2>1. TypeOK'
    <3>1. CallTypeOK'
      BY <1>22, EndTypes DEF Copy, Results
    <3> QED
      BY <1>22, <3>1 DEF TypeOK, CallTypeOK, Copy
  <2>2. PcInv'
    BY <1>22 DEF PcInv, Copy, End
  <2>3. ServeInv'
    BY <1>22 DEF ServeInv, Served, Copy
  <2>4. HandleInv'
    BY <1>22 DEF HandleInv, Alive, Copy, End
  <2>5. CodeInv'
    BY <1>22 DEF CodeInv, Copy, End
  <2> QED
    BY <2>1, <2>2, <2>3, <2>4, <2>5
<1>23. ASSUME CopyFails PROVE IInv'
  <2>1. TypeOK'
    <3>1. CallTypeOK'
      BY <1>23, EndTypes DEF CopyFails, Results
    <3> QED
      BY <1>23, <3>1 DEF TypeOK, CallTypeOK, CopyFails
  <2>2. PcInv'
    BY <1>23 DEF PcInv, CopyFails, End
  <2>3. ServeInv'
    BY <1>23 DEF ServeInv, Served, CopyFails
  <2>4. HandleInv'
    BY <1>23 DEF HandleInv, Alive, CopyFails, End
  <2>5. CodeInv'
    BY <1>23 DEF CodeInv, CopyFails, End
  <2> QED
    BY <2>1, <2>2, <2>3, <2>4, <2>5
<1>24. ASSUME NEW p \in Procs, ProcServes(p) PROVE IInv'
  <2>1. TypeOK'
    BY <1>24, <1>0 DEF TypeOK, ProcServes
  <2>2. PcInv'
    BY <1>24 DEF PcInv, ProcServes
  <2>3. ServeInv'
    BY <1>24 DEF TypeOK, ServeInv, Served, ProcServes
  <2>4. HandleInv'
    BY <1>24 DEF HandleInv, Alive, ProcServes
  <2>5. CodeInv'
    BY <1>24 DEF CodeInv, NoCode, ProcServes
  <2> QED
    BY <2>1, <2>2, <2>3, <2>4, <2>5
<1>25. ASSUME NEW p \in Procs, ProcDies(p) PROVE IInv'
  <2>1. TypeOK'
    BY <1>25, <1>0 DEF TypeOK, ProcDies
  <2>2. PcInv'
    BY <1>25 DEF PcInv, ProcDies
  <2>3. ServeInv'
    BY <1>25 DEF ServeInv, Served, ProcDies
  <2>4. HandleInv'
    BY <1>25 DEF HandleInv, Alive, ProcDies
  <2>5. CodeInv'
    BY <1>25 DEF CodeInv, NoCode, ProcDies
  <2> QED
    BY <2>1, <2>2, <2>3, <2>4, <2>5
<1>26. ASSUME MachineBoots PROVE IInv'
  <2>1. TypeOK'
    BY <1>26, <1>0 DEF TypeOK, MachineBoots
  <2>2. PcInv'
    BY <1>26 DEF PcInv, MachineBoots
  <2>3. ServeInv'
    BY <1>26 DEF ServeInv, Served, MachineBoots
  <2>4. HandleInv'
    BY <1>26 DEF HandleInv, Alive, MachineBoots
  <2>5. CodeInv'
    BY <1>26 DEF CodeInv, NoCode, MachineBoots
  <2> QED
    BY <2>1, <2>2, <2>3, <2>4, <2>5
<1>27. ASSUME MachineEnds PROVE IInv'
  <2>1. TypeOK'
    BY <1>27, <1>0 DEF TypeOK, MachineEnds
  <2>2. PcInv'
    BY <1>27 DEF PcInv, MachineEnds
  <2>3. ServeInv'
    BY <1>27 DEF ServeInv, Served, MachineEnds
  <2>4. HandleInv'
    BY <1>27 DEF HandleInv, Alive, MachineEnds
  <2>5. CodeInv'
    BY <1>27 DEF CodeInv, NoCode, MachineEnds
  <2> QED
    BY <2>1, <2>2, <2>3, <2>4, <2>5
<1>28. ASSUME UnitEnds PROVE IInv'
  <2>1. TypeOK'
    BY <1>28, <1>0 DEF TypeOK, UnitEnds
  <2>2. PcInv'
    BY <1>28 DEF PcInv, UnitEnds
  <2>3. ServeInv'
    BY <1>28 DEF ServeInv, Served, UnitEnds
  <2>4. HandleInv'
    BY <1>28 DEF HandleInv, Alive, UnitEnds
  <2>5. CodeInv'
    BY <1>28 DEF CodeInv, NoCode, UnitEnds
  <2> QED
    BY <2>1, <2>2, <2>3, <2>4, <2>5
<1>29. ASSUME OtherLists PROVE IInv'
  <2>1. TypeOK'
    BY <1>29, <1>0 DEF TypeOK, OtherLists
  <2>2. PcInv'
    BY <1>29 DEF PcInv, OtherLists
  <2>3. ServeInv'
    BY <1>29 DEF ServeInv, Served, OtherLists
  <2>4. HandleInv'
    BY <1>29 DEF HandleInv, Alive, OtherLists
  <2>5. CodeInv'
    BY <1>29 DEF CodeInv, NoCode, OtherLists
  <2> QED
    BY <2>1, <2>2, <2>3, <2>4, <2>5
<1>30. ASSUME OtherTerminates PROVE IInv'
  <2>1. TypeOK'
    BY <1>30, <1>0 DEF TypeOK, OtherTerminates, GoesDown
  <2>2. PcInv'
    BY <1>30 DEF PcInv, OtherTerminates, GoesDown
  <2>3. ServeInv'
    <3>1. (Served' <=> Served) /\ UNCHANGED proc
      BY <1>30 DEF TypeOK, Served, OtherTerminates, GoesDown
    <3> QED
      BY <3>1 DEF ServeInv
  <2>4. HandleInv'
    BY <1>30 DEF HandleInv, Alive, OtherTerminates, GoesDown
  <2>5. CodeInv'
    BY <1>30 DEF CodeInv, NoCode, OtherTerminates, GoesDown
  <2> QED
    BY <2>1, <2>2, <2>3, <2>4, <2>5
<1>31. ASSUME NEW p \in Procs, KilledProcDies(p) PROVE IInv'
  <2>1. TypeOK'
    BY <1>31, <1>0 DEF TypeOK, Codes, KilledProcDies
  <2>2. PcInv'
    BY <1>31 DEF PcInv, KilledProcDies
  <2>3. ServeInv'
    BY <1>31 DEF ServeInv, Served, KilledProcDies
  <2>4. HandleInv'
    BY <1>31 DEF HandleInv, Alive, KilledProcDies
  <2>5. CodeInv'
    BY <1>31 DEF CodeInv, NoCode, KilledProcDies
  <2> QED
    BY <2>1, <2>2, <2>3, <2>4, <2>5
<1>32. ASSUME LookKilled PROVE IInv'
  <2>1. TypeOK'
    <3>1. CallTypeOK'
      <4>1. CASE \E r \in Results : End(r)
        BY <4>1, EndTypes
      <4>2. CASE ~\E r \in Results : End(r)
        BY <1>32, <4>2 DEF TypeOK, CallTypeOK, Results, LookKilled, LookAgain
      <4> QED
        BY <4>1, <4>2
    <3> QED
      BY <1>32, <3>1 DEF TypeOK, PcInv, CallTypeOK, LookKilled, LookAgain
  <2>2. PcInv'
    BY <1>32 DEF PcInv, LookKilled, LookAgain, End
  <2>3. ServeInv'
    BY <1>32 DEF ServeInv, Served, LookKilled, LookAgain
  <2>4. HandleInv'
    BY <1>32 DEF PcInv, HandleInv, Alive, LookKilled, LookAgain, End
  <2>5. CodeInv'
    BY <1>32 DEF CodeInv, LookKilled, LookAgain, End
  <2> QED
    BY <2>1, <2>2, <2>3, <2>4, <2>5
<1>33. ASSUME StopKilled PROVE IInv'
  <2>1. TypeOK'
    BY <1>33, <1>0 DEF TypeOK, Codes, StopKilled
  <2>2. PcInv'
    BY <1>33 DEF PcInv, StopKilled
  <2>3. ServeInv'
    BY <1>33 DEF ServeInv, Served, StopKilled
  <2>4. HandleInv'
    BY <1>33 DEF HandleInv, Alive, StopKilled
  <2>5. CodeInv'
    BY <1>33 DEF CodeInv, NoCode, StopKilled
  <2> QED
    BY <2>1, <2>2, <2>3, <2>4, <2>5
<1>34. ASSUME UnitRunKilled PROVE IInv'
  <2>1. TypeOK'
    BY <1>34, <1>0 DEF TypeOK, Codes, UnitRunKilled
  <2>2. PcInv'
    BY <1>34 DEF PcInv, UnitRunKilled
  <2>3. ServeInv'
    BY <1>34 DEF ServeInv, Served, UnitRunKilled
  <2>4. HandleInv'
    BY <1>34 DEF HandleInv, Alive, UnitRunKilled
  <2>5. CodeInv'
    BY <1>34 DEF CodeInv, NoCode, UnitRunKilled
  <2> QED
    BY <2>1, <2>2, <2>3, <2>4, <2>5
<1>35. ASSUME ShowKilled PROVE IInv'
  <2>1. TypeOK'
    <3>1. CallTypeOK'
      BY <1>35, EndTypes DEF ShowKilled, Results
    <3> QED
      BY <1>35, <3>1 DEF TypeOK, CallTypeOK, ShowKilled
  <2>2. PcInv'
    BY <1>35 DEF PcInv, ShowKilled, End
  <2>3. ServeInv'
    BY <1>35 DEF ServeInv, Served, ShowKilled
  <2>4. HandleInv'
    BY <1>35 DEF HandleInv, Alive, ShowKilled, End
  <2>5. CodeInv'
    BY <1>35 DEF CodeInv, NoCode, ShowKilled, End
  <2> QED
    BY <2>1, <2>2, <2>3, <2>4, <2>5
<1>36. ASSUME CopyKilled PROVE IInv'
  <2>1. TypeOK'
    <3>1. CallTypeOK'
      BY <1>36, EndTypes DEF CopyKilled, Results
    <3> QED
      BY <1>36, <3>1 DEF TypeOK, CallTypeOK, CopyKilled
  <2>2. PcInv'
    BY <1>36 DEF PcInv, CopyKilled, End
  <2>3. ServeInv'
    BY <1>36 DEF ServeInv, Served, CopyKilled
  <2>4. HandleInv'
    BY <1>36 DEF HandleInv, Alive, CopyKilled, End
  <2>5. CodeInv'
    BY <1>36 DEF CodeInv, NoCode, CopyKilled, End
  <2> QED
    BY <2>1, <2>2, <2>3, <2>4, <2>5
<1>37. CASE UNCHANGED vars
  BY <1>37
     DEF vars, TypeOK, PcInv, ServeInv, Served, HandleInv, CodeInv, Alive
<1> QED
  BY <1>1, <1>2, <1>3, <1>4, <1>5, <1>6, <1>7, <1>8, <1>9, <1>10, <1>11,
     <1>12, <1>13, <1>14, <1>15, <1>16, <1>17, <1>18, <1>19, <1>20, <1>21,
     <1>22, <1>23, <1>24, <1>25, <1>26, <1>27, <1>28, <1>29, <1>30, <1>31,
     <1>32, <1>33, <1>34, <1>35, <1>36, <1>37
     DEF Next, CallStep, StartStep, StopStep, ExecuteStep, KilledStep, SystemStep

(* Every variable is of its kind, and IInv holds, in every reachable state.*)
THEOREM Invariant == Spec => []IInv
  BY InitInv, StepInv, PTL DEF Spec

(* Between calls the only process alive is the one the object holds, or    *)
(* one that an earlier start has left.                                     *)
THEOREM NoStray == Spec => []NoStrayProcess
<1>1. IInv => NoStrayProcess
  BY DEF IInv, PcInv, HandleInv, NoStrayProcess
<1> QED
  BY <1>1, Invariant, PTL

(* When stop or kill has returned, the machine is gone, or its process is  *)
(* killed, or it is that of a process that no object holds.                *)
THEOREM StopEnds == Spec => StopEndsMachine
<1> DEFINE Ended == op' = "none" /\ op \in {"stop", "kill"} /\ result' = "ok"
                      => \/ machine' \in {"absent", "killed"}
                         \/ \E p \in left : proc'[p] = "serving"
<1>1. IInv /\ [Next]_vars => [Ended]_vars
  <2> SUFFICES ASSUME IInv, Next, op \in {"stop", "kill"}, op' = "none",
                      result' = "ok", machine' \notin {"absent", "killed"}
               PROVE  \E p \in left : proc'[p] = "serving"
    OBVIOUS
  <2>1. pc \in {"poweroff", "terminate", "finish", "reap"}
    BY DEF IInv, TypeOK, PcInv
  <2>2. ~CallStep /\ ~StartStep /\ ~ExecuteStep /\ ~KilledStep
    BY <2>1 DEF CallStep, CallRun, CallCleanup, Call, Begin, StartStep, Launch,
       PollAlive, PollDeadAgain, PollDeadGiveUp, BootSeen, BootNotSeen, ExecuteStep,
       UnitStarts, UnitDone, UnitLost, Show, ShowFails, Copy, CopyFails, KilledStep,
       LookKilled, StopKilled, UnitRunKilled, ShowKilled, CopyKilled
  <2>3. ~SystemStep
    BY DEF SystemStep, ProcServes, ProcDies, KilledProcDies, MachineBoots, MachineEnds,
       UnitEnds, OtherLists, OtherTerminates, callVars
  <2>4. ~Poweroff /\ ~Terminate /\ ~FinishWait /\ ~Remove
    BY <2>1 DEF Poweroff, Terminate, FinishWait, Remove
  <2>5. ~PoweroffFails /\ ~TerminateFails
    BY DEF PoweroffFails, TerminateFails, End
  <2>6. Reap
    BY <2>2, <2>3, <2>4, <2>5 DEF Next, StopStep
  <2>7. Served /\ proc[handle] # "serving"
    BY <2>6 DEF Reap, IInv, TypeOK, Served
  <2>8. PICK p \in Procs : proc[p] = "serving"
    BY <2>7 DEF IInv, ServeInv
  <2>9. p \in left /\ p # handle
    BY <2>1, <2>6, <2>7, <2>8 DEF IInv, HandleInv, Alive, Procs, NoProc, Reap
  <2> QED
    BY <2>6, <2>8, <2>9 DEF IInv, TypeOK, Reap
<1> QED
  BY <1>1, Invariant, PTL DEF Spec, StopEndsMachine

(* What execute tells of the command is so.                                *)
THEOREM ExecuteTells == Spec => ExecuteTellsTheTruth
<1> DEFINE Told == op = "execute" /\ op' = "none" =>
                     /\ result' = "ok" => unit = "zero" \/ code.value = "killed"
                     /\ result' = "CalledProcessError"
                          => unit # "zero" \/ machine # "up" \/ code.text
<1>1. IInv /\ [Next]_vars => [Told]_vars
  <2> SUFFICES ASSUME IInv, Next, op = "execute", op' = "none"
               PROVE  /\ result' = "ok" => unit = "zero" \/ code.value = "killed"
                      /\ result' = "CalledProcessError"
                           => unit # "zero" \/ machine # "up" \/ code.text
    OBVIOUS
  <2>1. pc \in {"unit", "show", "copy"}
    BY DEF IInv, TypeOK, PcInv
  <2>2. ~CallStep /\ ~StartStep /\ ~StopStep
    BY <2>1 DEF CallStep, CallRun, CallCleanup, Call, Begin, StartStep, Launch,
       PollAlive, PollDeadAgain, PollDeadGiveUp, BootSeen, BootNotSeen, StopStep,
       Poweroff, PoweroffFails, Terminate, TerminateFails, FinishWait, Reap, Remove
  <2>3. ~SystemStep
    BY DEF SystemStep, ProcServes, ProcDies, KilledProcDies, MachineBoots, MachineEnds,
       UnitEnds, OtherLists, OtherTerminates, callVars
  <2>4. ~UnitStarts /\ ~UnitDone /\ ~UnitLost /\ ~Show
    BY DEF UnitStarts, UnitDone, UnitLost, Show
  <2>5. CASE ShowFails \/ CopyFails
    BY <2>5 DEF ShowFails, CopyFails, End
  <2>6. CASE Copy
    <3>1. code.text \in BOOLEAN /\ code.value \in {"zero", "nonzero", "killed"}
      BY DEF IInv, TypeOK, Codes
    <3>2. pc = "copy" /\ result' = (IF IsFailure(code) THEN "CalledProcessError"
                                                     ELSE "ok")
      BY <2>6 DEF Copy, End
    <3> QED
      BY <3>1, <3>2 DEF IsFailure, IInv, CodeInv
  <2>7. CASE KilledStep
    BY <2>1, <2>7 DEF KilledStep, LookKilled, StopKilled, UnitRunKilled, ShowKilled,
       CopyKilled, End
  <2> QED
    BY <2>2, <2>3, <2>4, <2>5, <2>6, <2>7 DEF Next, ExecuteStep
<1> QED
  BY <1>1, Invariant, PTL DEF Spec, ExecuteTellsTheTruth

(* How many commands the call in progress can still run, at most, if       *)
(* looking at a unit again counts for nothing.                             *)
Work ==
  CASE pc = "idle"      -> 0
    [] pc = "launch"    -> BootLooks + 2 * (Retry - tries)
    [] pc = "poll"      -> BootLooks + 2 * (Retry - tries) + 1
    [] pc = "boot"      -> BootLooks - tries
    [] pc = "poweroff"  -> 6
    [] pc = "terminate" -> 5
    [] pc = "finish"    -> 4
    [] pc = "reap"      -> 3
    [] pc = "remove"    -> 2
    [] pc = "unit"      -> IF unit = "none" THEN 4 ELSE 3
    [] pc = "show"      -> 2
    [] pc = "copy"      -> 1

(* Every step of conu takes the call nearer to its end, whatever systemd   *)
(* and other processes do between two of them, which never sets it back;   *)
(* and no call begins with more to do than the constants say.  This is why *)
(* calls return (start, run_via_binary, stop, kill, cleanup and execute:   *)
(* lines 176-205 and 398-441 of nspawn/container.py).                      *)
CallsGetOn ==
  [][/\ StartStep \/ StopStep \/ ExecuteStep \/ KilledStep => Work' < Work
     /\ SystemStep => Work' = Work
     /\ CallStep => Work = 0 /\ Work' \in 1..(BootLooks + 2 * Retry + 6)]_vars

(* Launches and looks are counted within their limits.                     *)
CountInv ==
  /\ pc = "poll" => tries <= Retry
  /\ pc = "boot" => tries < BootLooks

LEMMA StepCountInv == IInv /\ CountInv /\ [Next]_vars => CountInv'
<1> SUFFICES ASSUME IInv, CountInv, Next \/ UNCHANGED vars PROVE CountInv'
  OBVIOUS
<1> USE NspawnAssumption
<1>0. tries \in Nat
  BY DEF IInv, TypeOK
<1>1. CASE CallStep
  BY <1>1 DEF CallStep, CallRun, CallCleanup, Call, Begin, CountInv
<1>2. CASE StartStep
  <2>1. ASSUME NEW p \in Procs, Launch(p) PROVE CountInv'
    BY <1>0, <2>1 DEF IInv, PcInv, Launch, CountInv
  <2>2. CASE PollAlive
    BY <2>2 DEF PollAlive, CountInv
  <2>3. CASE PollDeadAgain
    BY <2>3 DEF PollDeadAgain, CountInv
  <2>4. CASE PollDeadGiveUp \/ BootSeen
    BY <2>4 DEF PollDeadGiveUp, BootSeen, End, CountInv
  <2>5. CASE BootNotSeen
    BY <2>5, <1>0 DEF BootNotSeen, LookAgain, End, CountInv
  <2> QED
    BY <1>2, <2>1, <2>2, <2>3, <2>4, <2>5 DEF StartStep
<1>3. CASE StopStep
  BY <1>3 DEF StopStep, Poweroff, PoweroffFails, Terminate, TerminateFails,
     FinishWait, Reap, Remove, Down, End, CountInv
<1>4. CASE ExecuteStep
  BY <1>4 DEF ExecuteStep, UnitStarts, UnitDone, UnitLost, Show, ShowFails, Copy,
     CopyFails, End, CountInv
<1>5. CASE SystemStep
  BY <1>5 DEF SystemStep, ProcServes, ProcDies, KilledProcDies, MachineBoots, MachineEnds,
     UnitEnds, OtherLists, OtherTerminates, callVars, CountInv
<1>6. CASE UNCHANGED vars
  BY <1>6 DEF vars, CountInv
<1>7. CASE KilledStep
  <2>1. CASE LookKilled
    BY <2>1, <1>0 DEF LookKilled, LookAgain, End, CountInv
  <2>2. CASE StopKilled \/ UnitRunKilled \/ ShowKilled \/ CopyKilled
    BY <2>2
       DEF StopKilled, UnitRunKilled, ShowKilled, CopyKilled, End, CountInv
  <2> QED
    BY <1>7, <2>1, <2>2 DEF KilledStep
<1> QED
  BY <1>1, <1>2, <1>3, <1>4, <1>5, <1>6, <1>7 DEF Next

(* Every call gets on with its work.                                       *)
THEOREM CallsAreFinite == Spec => CallsGetOn
<1> USE NspawnAssumption
<1>1. Init => CountInv
  BY DEF Init, CountInv
<1>2. ASSUME IInv, CountInv, StartStep PROVE Work' < Work
  <2>0. tries \in Nat
    BY <1>2 DEF IInv, TypeOK
  <2>1. ASSUME NEW p \in Procs, Launch(p) PROVE Work' < Work
    BY <2>0, <2>1 DEF Launch, Work
  <2>2. CASE PollAlive
    BY <1>2, <2>0, <2>2 DEF CountInv, PollAlive, Work
  <2>3. CASE PollDeadAgain
    BY <2>0, <2>3 DEF PollDeadAgain, Work
  <2>4. CASE PollDeadGiveUp
    BY <1>2, <2>0, <2>4 DEF CountInv, PollDeadGiveUp, End, Work
  <2>5. CASE BootSeen
    BY <1>2, <2>0, <2>5 DEF CountInv, BootSeen, End, Work
  <2>6. CASE BootNotSeen
    BY <1>2, <2>0, <2>6 DEF CountInv, BootNotSeen, LookAgain, End, Work
  <2> QED
    BY <1>2, <2>1, <2>2, <2>3, <2>4, <2>5, <2>6 DEF StartStep
<1>3. ASSUME StopStep PROVE Work' < Work
  BY <1>3 DEF StopStep, Poweroff, PoweroffFails, Terminate, TerminateFails,
     FinishWait, Reap, Remove, Down, End, Work
<1>4. ASSUME ExecuteStep PROVE Work' < Work
  BY <1>4 DEF ExecuteStep, UnitStarts, UnitDone, UnitLost, Show, ShowFails, Copy,
     CopyFails, End, Work
<1>5. ASSUME SystemStep PROVE Work' = Work
  BY <1>5 DEF SystemStep, ProcServes, ProcDies, KilledProcDies, MachineBoots, MachineEnds,
     UnitEnds, OtherLists, OtherTerminates, callVars, Work
<1>6. ASSUME IInv, CallStep
      PROVE  Work = 0 /\ Work' \in 1..(BootLooks + 2 * Retry + 6)
  <2>1. pc = "idle"
    BY <1>6 DEF IInv, PcInv, CallStep, CallRun, CallCleanup, Call, Begin
  <2>2. tries' = 0 /\ unit' = "none"
    BY <1>6, <2>1
       DEF IInv, CodeInv, CallStep, CallRun, CallCleanup, Call, Begin
  <2>3. pc' \in {"launch", "poweroff", "terminate", "remove", "unit"}
    BY <1>6 DEF CallStep, CallRun, CallCleanup, Call, Begin
  <2>4. Work = 0
    BY <2>1 DEF Work
  <2>5. CASE pc' = "launch"
    <3>1. Work' = BootLooks + 2 * Retry
      BY <2>2, <2>5 DEF Work
    <3> QED
      BY <2>4, <3>1
  <2>6. CASE pc' # "launch"
    <3>1. Work' \in 2..6
      BY <2>2, <2>3, <2>6 DEF Work
    <3> QED
      BY <2>4, <3>1
  <2> QED
    BY <2>5, <2>6
<1>7. ASSUME IInv, CountInv, KilledStep PROVE Work' < Work
  <2>0. tries \in Nat
    BY <1>7 DEF IInv, TypeOK
  <2>1. CASE LookKilled
    BY <1>7, <2>0, <2>1 DEF CountInv, LookKilled, LookAgain, End, Work
  <2>2. CASE StopKilled \/ UnitRunKilled \/ ShowKilled \/ CopyKilled
    BY <2>2 DEF StopKilled, UnitRunKilled, ShowKilled, CopyKilled, End, Work
  <2> QED
    BY <1>7, <2>1, <2>2 DEF KilledStep
<1> DEFINE GetsOn == /\ StartStep \/ StopStep \/ ExecuteStep \/ KilledStep
                          => Work' < Work
                     /\ SystemStep => Work' = Work
                     /\ CallStep => /\ Work = 0
                                    /\ Work' \in 1..(BootLooks + 2 * Retry + 6)
<1>8. IInv /\ CountInv => [GetsOn]_vars
  BY <1>2, <1>3, <1>4, <1>5, <1>6, <1>7
<1> QED
  BY <1>1, <1>8, StepCountInv, Invariant, PTL DEF Spec, CallsGetOn

-----------------------------------------------------------------------------
(* The image store.  Its types, in three parts.                            *)

FileTypeOK ==
  /\ store \in BOOLEAN
  /\ file \in [Names -> Contents] /\ xz \in [Names -> Contents]
  /\ broken \subseteq Names
  /\ out \subseteq Clients /\ inn \subseteq Clients

MountTypeOK ==
  /\ attached \in [Devices -> Clients \cup {None}] /\ going \subseteq Devices
  /\ dev \in [Clients -> Devices \cup {None}]
  /\ mnt \in [Clients -> Devices \cup {None}]
  /\ scratch \subseteq Clients /\ cut \subseteq Clients

ObjectTypeOK ==
  /\ img \in [Clients -> Names \cup {None}]
  /\ at \in [Clients -> {"idle", "pull", "mkdir", "fetching", "unpack",
                         "unpacking", "copying", "build", "clean", "probe",
                         "mounted", "detach"}]
  /\ got \in [Clients -> Contents]
  /\ todo \in [Clients -> SUBSET Entries]
  /\ ended \in [Clients -> {"done", "raised"}]
  /\ hurt \subseteq Clients

LEMMA StoreTypeParts ==
  StoreTypeOK <=> /\ FileTypeOK /\ MountTypeOK /\ ObjectTypeOK
                  /\ alone \in Clients \cup {None}
  BY DEF StoreTypeOK, FileTypeOK, MountTypeOK, ObjectTypeOK

(* A client at work has an image, and writes one only within a command.    *)
ObjectInv ==
  \A c \in Clients :
    /\ at[c] \notin {"idle", "clean"} => img[c] \in Names
    /\ c \in out => at[c] \in {"unpacking", "copying"}

(* A client that no call has left by an exception holds a temporary image  *)
(* only on its way through bootstrap.                                      *)
ScratchInv ==
  \A c \in Clients : c \notin hurt /\ c \in scratch =>
    at[c] \in {"build", "pull", "mkdir", "copying"} /\ img[c] \in Plain

InContext(c) == at[c] \in {"probe", "mounted", "detach"}

MountedElsewhere(c, d) ==
  \E b \in Clients \ {c} : mnt[b] = d /\ <<d, dev[b]>> \in NameStartsWith

(* What a client has mounted looks like a partition of its device, and is  *)
(* mounted after mount within the file system's context, or has been left  *)
(* so.  A client that no call has left by an exception, and of which no    *)
(* losetup or umount was killed, has one device only, its own, within the  *)
(* context, or one that another client, who has it mounted, keeps from     *)
(* going.                                                                  *)
MountOf(c) ==
  /\ mnt[c] # None => /\ at[c] \in {"idle", "mounted", "detach"}
                      /\ <<mnt[c], dev[c]>> \in NameStartsWith
  /\ c \notin hurt \cup cut =>
       /\ mnt[c] # None => at[c] = "mounted"
       /\ \A d \in Devices : attached[d] = c =>
            \/ InContext(c) /\ dev[c] = d
            \/ at[c] = "idle" /\ d \in going /\ MountedElsewhere(c, d)

MountInv == \A c \in Clients : MountOf(c)

LeftInv == ScratchInv /\ MountInv

StoreInv == StoreTypeOK /\ ObjectInv /\ PartialHasReason /\ LeftInv

LEMMA StoreInitInv == StoreInit => StoreInv
<1> SUFFICES ASSUME StoreInit PROVE StoreInv
  OBVIOUS
<1>1. StoreTypeOK
  <2>1. FileTypeOK
    BY DEF StoreInit, FileTypeOK, Contents
  <2>2. MountTypeOK
    BY DEF StoreInit, MountTypeOK
  <2>3. ObjectTypeOK
    BY DEF StoreInit, ObjectTypeOK, Contents
  <2> QED
    BY <2>1, <2>2, <2>3, StoreTypeParts DEF StoreInit
<1>2. ObjectInv /\ PartialHasReason /\ LeftInv
  BY ImageAssumption
     DEF StoreInit, ObjectInv, PartialHasReason, LeftInv, ScratchInv, MountInv, MountOf
<1> QED
  BY <1>1, <1>2 DEF StoreInv

(* Another client keeps its part of the invariant, as long as nobody takes *)
(* the mount away that keeps its device from going.                        *)
LEMMA OtherMounts ==
  ASSUME NEW b \in Clients, MountOf(b),
         at'[b] = at[b], mnt'[b] = mnt[b], dev'[b] = dev[b],
         hurt \subseteq hurt', cut \subseteq cut',
         \A d \in Devices : attached'[d] = b =>
           /\ attached[d] = b
           /\ d \in going => d \in going'
           /\ d \in going /\ mnt[b] # d /\ MountedElsewhere(b, d)
              => MountedElsewhere(b, d)',
         None \notin Devices
  PROVE  MountOf(b)'
<1>1. ASSUME NEW d \in Devices, attached'[d] = b, b \notin hurt' \cup cut'
      PROVE  \/ InContext(b)' /\ dev'[b] = d
             \/ at'[b] = "idle" /\ d \in going' /\ MountedElsewhere(b, d)'
  BY <1>1 DEF MountOf, InContext
<1> QED
  BY <1>1 DEF MountOf, InContext

(* Outside the context a client changes nothing about mounts and devices.  *)
LEMMA OutsideContext ==
  ASSUME StoreTypeOK, MountInv, NEW c \in Clients,
         ~InContext(c), Ready(c) \/ at[c] # "idle",
         UNCHANGED <<attached, going, dev, mnt, cut>>, hurt \subseteq hurt',
         \E p : at' = [at EXCEPT ![c] = p]
  PROVE  MountInv'
<1>1. mnt[c] = None
  BY DEF MountInv, MountOf, InContext, Ready, Holds
<1>2. c \notin hurt \cup cut => \A d \in Devices : attached[d] # c
  BY DEF MountInv, MountOf, InContext, Ready, Holds
<1>3. MountOf(c)'
  BY <1>1, <1>2 DEF MountOf
<1>4. ASSUME NEW b \in Clients, b # c
      PROVE  MountOf(b)'
  <2>1. at'[b] = at[b]
    BY <1>4 DEF StoreTypeOK
  <2>2. \A d \in Devices : MountedElsewhere(b, d) => MountedElsewhere(b, d)'
    BY DEF MountedElsewhere
  <2> QED
    BY <2>1, <2>2, OtherMounts, ImageAssumption DEF MountInv
<1> QED
  BY <1>3, <1>4 DEF MountInv

LEMMA StoreStep ==
  ASSUME StoreInv, NEW c \in Clients, Step(c)
  PROVE  StoreInv'
<1> USE DEF StoreInv, fileVars, mountVars, objectVars, At, Goes, Returns
<1>1. alone' \in Clients \cup {None}
  BY DEF Step
<1>2. FileTypeOK /\ MountTypeOK /\ ObjectTypeOK
  BY StoreTypeParts
<1> USE <1>1, <1>2
<1>3. ASSUME NEW n \in Names, NEW p, Construct(c, n, p)
      PROVE  StoreInv'
  <2>1. StoreTypeOK'
    BY <1>3 DEF Construct, Ready, StoreTypeOK, Contents, Names
  <2>2. ObjectInv'
    BY <1>3 DEF Construct, Ready, StoreTypeOK, ObjectInv, Names
  <2>3. PartialHasReason'
    BY <1>3
       DEF Construct, Ready, StoreTypeOK, ObjectInv, PartialHasReason, Writers
  <2>4. ScratchInv'
    BY <1>3, ImageAssumption
       DEF Construct, Ready, StoreTypeOK, LeftInv, ScratchInv, Holds
  <2>5. MountInv'
    BY <1>3, OutsideContext DEF Construct, Ready, LeftInv, InContext
  <2> QED
    BY <2>1, <2>2, <2>3, <2>4, <2>5 DEF LeftInv
<1>4. CASE Snapshot(c)
  <2>1. StoreTypeOK'
    BY <1>4 DEF Snapshot, Ready, StoreTypeOK, Contents, Names
  <2>2. ObjectInv'
    BY <1>4 DEF Snapshot, Ready, StoreTypeOK, ObjectInv, Names
  <2>3. PartialHasReason'
    BY <1>4
       DEF Snapshot, Ready, StoreTypeOK, ObjectInv, PartialHasReason, Writers
  <2>4. ScratchInv'
    BY <1>4, ImageAssumption
       DEF Snapshot, Ready, StoreTypeOK, LeftInv, ScratchInv, Holds
  <2>5. MountInv'
    BY <1>4, OutsideContext DEF Snapshot, Ready, LeftInv, InContext
  <2> QED
    BY <2>1, <2>2, <2>3, <2>4, <2>5 DEF LeftInv
<1>5. CASE Pull(c)
  <2>1. StoreTypeOK'
    BY <1>5 DEF Pull, StoreTypeOK, Contents, Names
  <2>2. ObjectInv'
    BY <1>5 DEF Pull, StoreTypeOK, ObjectInv, Names
  <2>3. PartialHasReason'
    BY <1>5 DEF Pull, StoreTypeOK, ObjectInv, PartialHasReason, Writers
  <2>4. ScratchInv'
    BY <1>5, ImageAssumption
       DEF Pull, StoreTypeOK, LeftInv, ScratchInv, Holds
  <2>5. MountInv'
    BY <1>5, OutsideContext DEF Pull, LeftInv, InContext
  <2> QED
    BY <2>1, <2>2, <2>3, <2>4, <2>5 DEF LeftInv
<1>6. CASE MakeStore(c)
  <2>1. StoreTypeOK'
    BY <1>6 DEF MakeStore, StoreTypeOK, Contents, Names
  <2>2. ObjectInv'
    BY <1>6 DEF MakeStore, StoreTypeOK, ObjectInv, Names
  <2>3. PartialHasReason'
    BY <1>6 DEF MakeStore, StoreTypeOK, ObjectInv, PartialHasReason, Writers
  <2>4. ScratchInv'
    BY <1>6, ImageAssumption
       DEF MakeStore, StoreTypeOK, LeftInv, ScratchInv, Holds
  <2>5. MountInv'
    BY <1>6, OutsideContext DEF MakeStore, LeftInv, InContext
  <2> QED
    BY <2>1, <2>2, <2>3, <2>4, <2>5 DEF LeftInv
<1>7. CASE FetchEnds(c)
  <2>1. StoreTypeOK'
    BY <1>7 DEF FetchEnds, StoreTypeOK, Contents, Names
  <2>2. ObjectInv'
    BY <1>7 DEF FetchEnds, StoreTypeOK, ObjectInv, Names
  <2>3. PartialHasReason'
    BY <1>7 DEF FetchEnds, StoreTypeOK, ObjectInv, PartialHasReason, Writers
  <2>4. ScratchInv'
    BY <1>7, ImageAssumption
       DEF FetchEnds, StoreTypeOK, LeftInv, ScratchInv, Holds
  <2>5. MountInv'
    BY <1>7, OutsideContext DEF FetchEnds, LeftInv, InContext
  <2> QED
    BY <2>1, <2>2, <2>3, <2>4, <2>5 DEF LeftInv
<1>8. CASE Unpack(c)
  <2>1. StoreTypeOK'
    <3>1. FileTypeOK'
      BY <1>8 DEF Unpack, FileTypeOK, ObjectTypeOK, Contents, Names
    <3>2. MountTypeOK'
      BY <1>8 DEF Unpack, MountTypeOK
    <3>3. ObjectTypeOK'
      <4>1. got' \in [Clients -> Contents]
        BY <1>8 DEF Unpack, FileTypeOK, ObjectTypeOK, ObjectInv
      <4>2. UNCHANGED <<img, todo>>
        BY <1>8 DEF Unpack
      <4>3. Returns(c, "raised") \/ Goes(c, "unpacking")
        BY <1>8 DEF Unpack
      <4> QED
        BY <4>1, <4>2, <4>3 DEF ObjectTypeOK
    <3> QED
      BY <1>1, <3>1, <3>2, <3>3
         DEF StoreTypeOK, FileTypeOK, MountTypeOK, ObjectTypeOK
  <2>2. ObjectInv'
    BY <1>8 DEF Unpack, StoreTypeOK, ObjectInv, Names
  <2>3. PartialHasReason'
    BY <1>8 DEF Unpack, StoreTypeOK, ObjectInv, PartialHasReason, Writers
  <2>4. ScratchInv'
    BY <1>8, ImageAssumption
       DEF Unpack, StoreTypeOK, LeftInv, ScratchInv, Holds
  <2>5. MountInv'
    BY <1>8, OutsideContext DEF Unpack, LeftInv, InContext
  <2> QED
    BY <2>1, <2>2, <2>3, <2>4, <2>5 DEF LeftInv
<1>9. CASE UnpackEnds(c)
  <2>1. StoreTypeOK'
    <3>1. FileTypeOK'
      <4>1. \A v \in Contents :
              /\ Output(c, v) => file' \in [Names -> Contents]
              /\ Input(c, v) => xz' \in [Names -> Contents]
        BY DEF Output, Input, FileTypeOK
      <4>2. file' \in [Names -> Contents] /\ xz' \in [Names -> Contents]
        BY <1>9, <4>1 DEF UnpackEnds, FileTypeOK, Contents
      <4>3. img[c] \in Names
        BY <1>9 DEF UnpackEnds, ObjectInv
      <4> QED
        BY <1>9, <4>2, <4>3 DEF UnpackEnds, InputGone, FileTypeOK
    <3>2. MountTypeOK'
      BY <1>9 DEF UnpackEnds, Output, Input, InputGone, MountTypeOK
    <3>3. ObjectTypeOK'
      BY <1>9
         DEF UnpackEnds, Output, Input, InputGone, FileTypeOK, ObjectTypeOK,
             Contents
    <3> QED
      BY <1>1, <3>1, <3>2, <3>3
         DEF StoreTypeOK, FileTypeOK, MountTypeOK, ObjectTypeOK
  <2>2. ObjectInv'
    BY <1>9
       DEF UnpackEnds, Output, Input, InputGone, StoreTypeOK, ObjectInv, Names
  <2>3. PartialHasReason'
    BY <1>9
       DEF UnpackEnds, Output, Input, InputGone, StoreTypeOK, ObjectInv,
           PartialHasReason, Writers
  <2>4. ScratchInv'
    BY <1>9, ImageAssumption
       DEF UnpackEnds, Output, Input, InputGone, StoreTypeOK, LeftInv,
           ScratchInv, Holds
  <2>5. MountInv'
    BY <1>9, OutsideContext
       DEF UnpackEnds, Output, Input, InputGone, LeftInv, InContext
  <2> QED
    BY <2>1, <2>2, <2>3, <2>4, <2>5 DEF LeftInv
<1>10. CASE CopyEnds(c)
  <2>1. StoreTypeOK'
    <3>1. FileTypeOK'
      <4>1. \A v \in Contents : Output(c, v) => file' \in [Names -> Contents]
        BY DEF Output, FileTypeOK
      <4>2. file' \in [Names -> Contents]
        BY <1>10, <4>1 DEF CopyEnds, FileTypeOK, Contents
      <4>3. img[c] \in Names
        BY <1>10 DEF CopyEnds, ObjectInv
      <4> QED
        BY <1>10, <4>2, <4>3 DEF CopyEnds, FileTypeOK
    <3>2. MountTypeOK'
      BY <1>10 DEF CopyEnds, Output, MountTypeOK
    <3>3. ObjectTypeOK'
      BY <1>10 DEF CopyEnds, Output, FileTypeOK, ObjectTypeOK, Contents
    <3> QED
      BY <1>1, <3>1, <3>2, <3>3
         DEF StoreTypeOK, FileTypeOK, MountTypeOK, ObjectTypeOK
  <2>2. ObjectInv'
    BY <1>10 DEF CopyEnds, Output, StoreTypeOK, ObjectInv, Names
  <2>3. PartialHasReason'
    BY <1>10
       DEF CopyEnds, Output, StoreTypeOK, ObjectInv, PartialHasReason, Writers
  <2>4. ScratchInv'
    BY <1>10, ImageAssumption
       DEF CopyEnds, Output, StoreTypeOK, LeftInv, ScratchInv, Holds
  <2>5. MountInv'
    BY <1>10, OutsideContext DEF CopyEnds, Output, LeftInv, InContext
  <2> QED
    BY <2>1, <2>2, <2>3, <2>4, <2>5 DEF LeftInv
<1>11. ASSUME NEW n \in Plain, Bootstrap(c, n)
      PROVE  StoreInv'
  <2>1. StoreTypeOK'
    BY <1>11 DEF Bootstrap, Ready, StoreTypeOK, Contents, Names
  <2>2. ObjectInv'
    BY <1>11 DEF Bootstrap, Ready, StoreTypeOK, ObjectInv, Names
  <2>3. PartialHasReason'
    BY <1>11
       DEF Bootstrap, Ready, StoreTypeOK, ObjectInv, PartialHasReason, Writers
  <2>4. ScratchInv'
    BY <1>11, ImageAssumption
       DEF Bootstrap, Ready, StoreTypeOK, LeftInv, ScratchInv, Holds
  <2>5. MountInv'
    BY <1>11, OutsideContext DEF Bootstrap, Ready, LeftInv, InContext
  <2> QED
    BY <2>1, <2>2, <2>3, <2>4, <2>5 DEF LeftInv
<1>12. CASE Build(c)
  <2>1. StoreTypeOK'
    BY <1>12 DEF Build, StoreTypeOK, Contents, Names
  <2>2. ObjectInv'
    BY <1>12 DEF Build, StoreTypeOK, ObjectInv, Names
  <2>3. PartialHasReason'
    BY <1>12 DEF Build, StoreTypeOK, ObjectInv, PartialHasReason, Writers
  <2>4. ScratchInv'
    BY <1>12, ImageAssumption
       DEF Build, StoreTypeOK, LeftInv, ScratchInv, Holds
  <2>5. MountInv'
    BY <1>12, OutsideContext DEF Build, LeftInv, InContext
  <2> QED
    BY <2>1, <2>2, <2>3, <2>4, <2>5 DEF LeftInv
<1>13. CASE Rmi(c)
  <2>1. StoreTypeOK'
    BY <1>13 DEF Rmi, Ready, RemoveFile, StoreTypeOK, Contents, Names
  <2>2. ObjectInv'
    BY <1>13 DEF Rmi, Ready, RemoveFile, StoreTypeOK, ObjectInv, Names
  <2>3. PartialHasReason'
    BY <1>13
       DEF Rmi, Ready, RemoveFile, StoreTypeOK, ObjectInv, PartialHasReason,
           Writers
  <2>4. ScratchInv'
    BY <1>13, ImageAssumption
       DEF Rmi, Ready, RemoveFile, StoreTypeOK, LeftInv, ScratchInv, Holds
  <2>5. MountInv'
    <3>1. Ready(c) /\ ~InContext(c)
      BY <1>13 DEF Rmi, Ready, InContext
    <3> QED
      BY <1>13, <3>1, OutsideContext DEF Rmi, RemoveFile, LeftInv
  <2> QED
    BY <2>1, <2>2, <2>3, <2>4, <2>5 DEF LeftInv
<1>14. CASE CleanupImages(c)
  <2>1. StoreTypeOK'
    <3>1. FileTypeOK'
      BY <1>14
         DEF CleanupImages, Ready, Listed, Entries, FileTypeOK, ObjectTypeOK,
             Contents, Names
    <3>2. MountTypeOK'
      BY <1>14 DEF CleanupImages, Ready, Listed, Entries, MountTypeOK
    <3>3. ObjectTypeOK'
      <4>1. Listed \subseteq Entries
        BY ImageAssumption DEF Listed, Entries
      <4>2. todo' \in [Clients -> SUBSET Entries]
        BY <1>14, <4>1 DEF CleanupImages, ObjectTypeOK
      <4>3. UNCHANGED <<img, got>>
        BY <1>14 DEF CleanupImages
      <4>4. Returns(c, "raised") \/ Goes(c, "clean")
        BY <1>14 DEF CleanupImages
      <4> QED
        BY <4>2, <4>3, <4>4 DEF ObjectTypeOK
    <3> QED
      BY <1>1, <3>1, <3>2, <3>3
         DEF StoreTypeOK, FileTypeOK, MountTypeOK, ObjectTypeOK
  <2>2. ObjectInv'
    BY <1>14
       DEF CleanupImages, Ready, Listed, Entries, StoreTypeOK, ObjectInv, Names
  <2>3. PartialHasReason'
    BY <1>14
       DEF CleanupImages, Ready, Listed, Entries, StoreTypeOK, ObjectInv,
           PartialHasReason, Writers
  <2>4. ScratchInv'
    BY <1>14, ImageAssumption
       DEF CleanupImages, Ready, Listed, Entries, StoreTypeOK, LeftInv,
           ScratchInv, Holds
  <2>5. MountInv'
    <3>1. Ready(c) /\ ~InContext(c)
      BY <1>14 DEF CleanupImages, Ready, InContext
    <3> QED
      BY <1>14, <3>1, OutsideContext DEF CleanupImages, LeftInv
  <2> QED
    BY <2>1, <2>2, <2>3, <2>4, <2>5 DEF LeftInv
<1>15. CASE CleanOne(c)
  <2>1. StoreTypeOK'
    BY <1>15
       DEF CleanOne, RemoveFile, RemoveXz, Listed, Entries, StoreTypeOK,
           Contents, Names
  <2>2. ObjectInv'
    BY <1>15
       DEF CleanOne, RemoveFile, RemoveXz, Listed, Entries, StoreTypeOK,
           ObjectInv, Names
  <2>3. PartialHasReason'
    BY <1>15
       DEF CleanOne, RemoveFile, RemoveXz, Listed, Entries, StoreTypeOK,
           ObjectInv, PartialHasReason, Writers
  <2>4. ScratchInv'
    BY <1>15, ImageAssumption
       DEF CleanOne, RemoveFile, RemoveXz, Listed, Entries, StoreTypeOK,
           LeftInv, ScratchInv, Holds
  <2>5. MountInv'
    BY <1>15, OutsideContext
       DEF CleanOne, RemoveFile, RemoveXz, Listed, Entries, LeftInv,
           InContext
  <2> QED
    BY <2>1, <2>2, <2>3, <2>4, <2>5 DEF LeftInv
<1>16. CASE CleanEnds(c)
  <2>1. StoreTypeOK'
    BY <1>16 DEF CleanEnds, StoreTypeOK, Contents, Names
  <2>2. ObjectInv'
    BY <1>16 DEF CleanEnds, StoreTypeOK, ObjectInv, Names
  <2>3. PartialHasReason'
    BY <1>16 DEF CleanEnds, StoreTypeOK, ObjectInv, PartialHasReason, Writers
  <2>4. ScratchInv'
    BY <1>16, ImageAssumption
       DEF CleanEnds, StoreTypeOK, LeftInv, ScratchInv, Holds
  <2>5. MountInv'
    BY <1>16, OutsideContext DEF CleanEnds, LeftInv, InContext
  <2> QED
    BY <2>1, <2>2, <2>3, <2>4, <2>5 DEF LeftInv
<1>17. CASE Attach(c)
  <2>1. StoreTypeOK'
    BY <1>17 DEF Attach, Ready, StoreTypeOK, Contents, Names
  <2>2. ObjectInv'
    BY <1>17 DEF Attach, Ready, StoreTypeOK, ObjectInv, Names
  <2>3. PartialHasReason'
    BY <1>17
       DEF Attach, Ready, StoreTypeOK, ObjectInv, PartialHasReason, Writers
  <2>4. ScratchInv'
    BY <1>17, ImageAssumption
       DEF Attach, Ready, StoreTypeOK, LeftInv, ScratchInv, Holds
  <2>5. MountInv'
    <3> USE ImageAssumption
    <3>1. MountOf(c)
      BY DEF LeftInv, MountInv
    <3>2. MountOf(c)'
      BY <1>17, <3>1
         DEF Attach, Ready, Holds, MountTypeOK, ObjectTypeOK, MountOf, InContext, MountedElsewhere
    <3>3. ASSUME NEW b \in Clients, b # c
          PROVE  MountOf(b)'
      <4>1. MountOf(b) /\ hurt \subseteq hurt' /\ cut \subseteq cut'
        BY <1>17 DEF LeftInv, MountInv, Attach, Ready, Holds
      <4>2. at'[b] = at[b] /\ mnt'[b] = mnt[b] /\ dev'[b] = dev[b]
        BY <1>17, <3>3 DEF Attach, Ready, Holds, MountTypeOK, ObjectTypeOK
      <4>3. ASSUME NEW d \in Devices, attached'[d] = b
            PROVE  attached[d] = b /\ (d \in going => d \in going')
        BY <1>17, <3>3, <4>3
           DEF Attach, Ready, Holds, MountTypeOK, ObjectTypeOK
      <4>4. ASSUME NEW d \in Devices, attached'[d] = b, d \in going,
                   mnt[b] # d, MountedElsewhere(b, d)
            PROVE  MountedElsewhere(b, d)'
        <5>1. PICK e \in Clients \ {b} :
                mnt[e] = d /\ <<d, dev[e]>> \in NameStartsWith
          BY <4>4 DEF MountedElsewhere
        <5>2. CASE e # c
          <6>1. mnt'[e] = mnt[e] /\ dev'[e] = dev[e]
            BY <1>17, <5>2
               DEF Attach, Ready, Holds, MountTypeOK
          <6> QED
            BY <5>1, <6>1 DEF MountedElsewhere
        <5>3. mnt[c] # d
          BY <1>17, <3>1 DEF Attach, Ready, Holds, MountOf
        <5> QED
          BY <5>1, <5>2, <5>3
      <4> QED
        BY <4>1, <4>2, <4>3, <4>4, OtherMounts
    <3> QED
      BY <3>2, <3>3 DEF MountInv
  <2> QED
    BY <2>1, <2>2, <2>3, <2>4, <2>5 DEF LeftInv
<1>18. CASE Mount(c)
  <2>1. StoreTypeOK'
    <3>1. FileTypeOK'
      BY <1>18 DEF Mount, FileTypeOK, ObjectTypeOK, Contents, Names
    <3>2. MountTypeOK'
      BY <1>18 DEF Mount, MountTypeOK
    <3>3. ObjectTypeOK'
      BY <1>18 DEF Mount, FileTypeOK, ObjectTypeOK, Contents
    <3> QED
      BY <1>1, <3>1, <3>2, <3>3
         DEF StoreTypeOK, FileTypeOK, MountTypeOK, ObjectTypeOK
  <2>2. ObjectInv'
    BY <1>18 DEF Mount, StoreTypeOK, ObjectInv, Names
  <2>3. PartialHasReason'
    BY <1>18 DEF Mount, StoreTypeOK, ObjectInv, PartialHasReason, Writers
  <2>4. ScratchInv'
    BY <1>18, ImageAssumption
       DEF Mount, StoreTypeOK, LeftInv, ScratchInv, Holds
  <2>5. MountInv'
    <3> USE ImageAssumption
    <3>1. MountOf(c)
      BY DEF LeftInv, MountInv
    <3>2. MountOf(c)'
      BY <1>18, <3>1
         DEF Mount, MountTypeOK, ObjectTypeOK, MountOf, InContext, Holds, MountedElsewhere
    <3>3. ASSUME NEW b \in Clients, b # c
          PROVE  MountOf(b)'
      <4>1. MountOf(b) /\ hurt \subseteq hurt' /\ cut \subseteq cut'
        BY <1>18 DEF LeftInv, MountInv, Mount
      <4>2. at'[b] = at[b] /\ mnt'[b] = mnt[b] /\ dev'[b] = dev[b]
        BY <1>18, <3>3 DEF Mount, MountTypeOK, ObjectTypeOK
      <4>3. ASSUME NEW d \in Devices, attached'[d] = b
            PROVE  attached[d] = b /\ (d \in going => d \in going')
        BY <1>18, <3>3, <4>3 DEF Mount, MountTypeOK, ObjectTypeOK
      <4>4. ASSUME NEW d \in Devices, attached'[d] = b, d \in going,
                   mnt[b] # d, MountedElsewhere(b, d)
            PROVE  MountedElsewhere(b, d)'
        <5>1. PICK e \in Clients \ {b} :
                mnt[e] = d /\ <<d, dev[e]>> \in NameStartsWith
          BY <4>4 DEF MountedElsewhere
        <5>2. CASE e # c
          <6>1. mnt'[e] = mnt[e] /\ dev'[e] = dev[e]
            BY <1>18, <5>2
               DEF Mount, MountTypeOK
          <6> QED
            BY <5>1, <6>1 DEF MountedElsewhere
        <5>3. mnt[c] # d
          BY <1>18, <3>1 DEF Mount, MountOf
        <5> QED
          BY <5>1, <5>2, <5>3
      <4> QED
        BY <4>1, <4>2, <4>3, <4>4, OtherMounts
    <3> QED
      BY <3>2, <3>3 DEF MountInv
  <2> QED
    BY <2>1, <2>2, <2>3, <2>4, <2>5 DEF LeftInv
<1>19. CASE Unmount(c)
  <2>1. StoreTypeOK'
    BY <1>19 DEF Unmount, Umounted, LastMount, StoreTypeOK, Contents, Names
  <2>2. ObjectInv'
    BY <1>19 DEF Unmount, Umounted, LastMount, StoreTypeOK, ObjectInv, Names
  <2>3. PartialHasReason'
    BY <1>19
       DEF Unmount, Umounted, LastMount, StoreTypeOK, ObjectInv,
           PartialHasReason, Writers
  <2>4. ScratchInv'
    BY <1>19, ImageAssumption
       DEF Unmount, Umounted, LastMount, StoreTypeOK, LeftInv, ScratchInv,
           Holds
  <2>5. MountInv'
    <3> USE ImageAssumption
    <3>1. MountOf(c)
      BY DEF LeftInv, MountInv
    <3>2. MountOf(c)'
      BY <1>19, <3>1
         DEF Unmount, Umounted, LastMount, MountTypeOK, ObjectTypeOK, MountOf, InContext, Holds, MountedElsewhere
    <3>3. ASSUME NEW b \in Clients, b # c
          PROVE  MountOf(b)'
      <4>1. MountOf(b) /\ hurt \subseteq hurt' /\ cut \subseteq cut'
        BY <1>19 DEF LeftInv, MountInv, Unmount, Umounted, LastMount
      <4>2. at'[b] = at[b] /\ mnt'[b] = mnt[b] /\ dev'[b] = dev[b]
        BY <1>19, <3>3
           DEF Unmount, Umounted, LastMount, MountTypeOK, ObjectTypeOK
      <4>3. ASSUME NEW d \in Devices, attached'[d] = b
            PROVE  attached[d] = b /\ (d \in going => d \in going')
        BY <1>19, <3>3, <4>3
           DEF Unmount, Umounted, LastMount, MountTypeOK, ObjectTypeOK
      <4>4. ASSUME NEW d \in Devices, attached'[d] = b, d \in going,
                   mnt[b] # d, MountedElsewhere(b, d)
            PROVE  MountedElsewhere(b, d)'
        <5>1. PICK e \in Clients \ {b} :
                mnt[e] = d /\ <<d, dev[e]>> \in NameStartsWith
          BY <4>4 DEF MountedElsewhere
        <5>2. CASE e # c
          <6>1. mnt'[e] = mnt[e] /\ dev'[e] = dev[e]
            BY <1>19, <5>2
               DEF Unmount, Umounted, LastMount, MountTypeOK
          <6> QED
            BY <5>1, <6>1 DEF MountedElsewhere
        <5>3. CASE e = c /\ Umounted(c)
          <6>1. d \notin LastMount(c)
            BY <3>3, <4>4, <5>3 DEF Umounted
          <6>2. PICK f \in Clients \ {c} : mnt[f] = d
            BY <4>4, <5>1, <5>3, <6>1 DEF LastMount
          <6>3. mnt'[f] = d /\ dev'[f] = dev[f]
            BY <1>19, <5>3, <6>2 DEF Unmount, Umounted, MountTypeOK
          <6>4. f # b /\ <<d, dev[f]>> \in NameStartsWith
            BY <4>4, <6>2 DEF LeftInv, MountInv, MountOf
          <6> QED
            BY <6>2, <6>3, <6>4 DEF MountedElsewhere
        <5>4. CASE e = c /\ UNCHANGED mnt
          BY <1>19, <5>1, <5>4 DEF Unmount, MountedElsewhere
        <5> QED
          BY <1>19, <5>2, <5>3, <5>4 DEF Unmount
      <4> QED
        BY <4>1, <4>2, <4>3, <4>4, OtherMounts
    <3> QED
      BY <3>2, <3>3 DEF MountInv
  <2> QED
    BY <2>1, <2>2, <2>3, <2>4, <2>5 DEF LeftInv
<1>20. CASE Detach(c)
  <2>1. StoreTypeOK'
    BY <1>20 DEF Detach, Closes, StoreTypeOK, Contents, Names
  <2>2. ObjectInv'
    BY <1>20 DEF Detach, Closes, StoreTypeOK, ObjectInv, Names
  <2>3. PartialHasReason'
    BY <1>20
       DEF Detach, Closes, StoreTypeOK, ObjectInv, PartialHasReason, Writers
  <2>4. ScratchInv'
    BY <1>20, ImageAssumption
       DEF Detach, Closes, StoreTypeOK, LeftInv, ScratchInv, Holds
  <2>5. MountInv'
    <3> USE ImageAssumption
    <3>1. MountOf(c)
      BY DEF LeftInv, MountInv
    <3>2. MountOf(c)'
      <4>1. /\ at'[c] = "idle" /\ mnt'[c] = mnt[c] /\ dev'[c] = dev[c]
            /\ at[c] = "detach"
        BY <1>20 DEF Detach, Closes, MountTypeOK, ObjectTypeOK
      <4>2. ASSUME c \notin hurt' \cup cut', NEW d \in Devices, attached'[d] = c
            PROVE  d \in going' /\ MountedElsewhere(c, d)'
        <5>1. c \notin hurt \cup cut /\ attached[d] = c
          BY <1>20, <4>2 DEF Detach, Closes, MountTypeOK
        <5>2. mnt[c] = None /\ dev[c] = d
          BY <3>1, <4>1, <5>1 DEF MountOf
        <5>3. d \in going' /\ \E b \in Clients : mnt[b] = d
          BY <1>20, <4>2, <5>1, <5>2 DEF Detach, Closes, Holds, MountTypeOK
        <5>4. PICK b \in Clients \ {c} : mnt[b] = d
          BY <5>2, <5>3
        <5>5. <<d, dev[b]>> \in NameStartsWith
          BY <5>4 DEF LeftInv, MountInv, MountOf
        <5> QED
          BY <1>20, <5>3, <5>4, <5>5 DEF Detach, MountedElsewhere
      <4>3. c \notin hurt' \cup cut' => mnt[c] = None
        BY <1>20, <3>1, <4>1 DEF Detach, Closes, MountOf
      <4> QED
        BY <3>1, <4>1, <4>2, <4>3 DEF MountOf
    <3>3. ASSUME NEW b \in Clients, b # c
          PROVE  MountOf(b)'
      <4>1. MountOf(b) /\ hurt \subseteq hurt' /\ cut \subseteq cut'
        BY <1>20 DEF LeftInv, MountInv, Detach, Closes
      <4>2. at'[b] = at[b] /\ mnt'[b] = mnt[b] /\ dev'[b] = dev[b]
        BY <1>20, <3>3 DEF Detach, Closes, MountTypeOK, ObjectTypeOK
      <4>3. ASSUME NEW d \in Devices, attached'[d] = b
            PROVE  attached[d] = b /\ (d \in going => d \in going')
        BY <1>20, <3>3, <4>3 DEF Detach, Closes, MountTypeOK, ObjectTypeOK
      <4>4. ASSUME NEW d \in Devices, attached'[d] = b, d \in going,
                   mnt[b] # d, MountedElsewhere(b, d)
            PROVE  MountedElsewhere(b, d)'
        BY <1>20, <3>1, <3>3, <4>3, <4>4
           DEF Detach, Closes, MountTypeOK, ObjectTypeOK, MountOf, MountedElsewhere, LeftInv, MountInv
      <4> QED
        BY <4>1, <4>2, <4>3, <4>4, OtherMounts
    <3> QED
      BY <3>2, <3>3 DEF MountInv
  <2> QED
    BY <2>1, <2>2, <2>3, <2>4, <2>5 DEF LeftInv
<1> QED
  BY <1>3, <1>4, <1>5, <1>6, <1>7, <1>8, <1>9, <1>10, <1>11, <1>12, <1>13,
     <1>14, <1>15, <1>16, <1>17, <1>18, <1>19, <1>20 DEF Step, Pulls

LEMMA StoreNextInv == StoreInv /\ [StoreNext]_storeVars => StoreInv'
<1> SUFFICES ASSUME StoreInv, [StoreNext]_storeVars PROVE StoreInv'
  OBVIOUS
<1>1. CASE StoreNext
  BY <1>1, StoreStep DEF StoreNext
<1>2. CASE UNCHANGED storeVars
  <2>1. StoreTypeOK'
    BY <1>2
       DEF StoreInv, StoreTypeOK, storeVars, fileVars, mountVars, objectVars
  <2>2. ObjectInv' /\ PartialHasReason' /\ LeftInv'
    BY <1>2 DEF StoreInv, ObjectInv, PartialHasReason, LeftInv, ScratchInv, MountInv, MountOf, InContext, Writers, MountedElsewhere,
                storeVars, fileVars, mountVars, objectVars
  <2> QED
    BY <2>1, <2>2 DEF StoreInv
<1> QED
  BY <1>1, <1>2

(* Every variable of the store, its devices and its clients is of its      *)
(* kind.                                                                   *)
THEOREM StoreTypeCorrect == StoreSpec => []StoreTypeOK
<1>1. StoreInv => StoreTypeOK
  BY DEF StoreInv
<1> QED
  BY <1>1, StoreInitInv, StoreNextInv, PTL DEF StoreSpec

(* What is_present takes for an image is a whole one, unless somebody      *)
(* still writes it or a command that wrote it was cut short.               *)
THEOREM PartialFiles == StoreSpec => []PartialHasReason
<1>1. StoreInv => PartialHasReason
  BY DEF StoreInv
<1> QED
  BY <1>1, StoreInitInv, StoreNextInv, PTL DEF StoreSpec

(* What a call leaves behind, a temporary image, a mount or a loop device, *)
(* has one of the reasons that the property enumerates.                    *)
THEOREM Leftovers == StoreSpec => []LeftoversHaveReason
<1>1. StoreInv => LeftoversHaveReason
  BY DEF StoreInv, LeftInv, ScratchInv, MountInv, MountOf, InContext,
         LeftoversHaveReason, MountedElsewhere
<1> QED
  BY <1>1, StoreInitInv, StoreNextInv, PTL DEF StoreSpec

(* A pull that returns has left the whole image, unless a command was      *)
(* killed or another client writes or has removed the file.                *)
THEOREM PulledImages == StoreSpec => PulledIsUsable
<1> DEFINE Usable(c) ==
      (/\ at[c] \in {"fetching", "unpack", "unpacking", "copying"}
       /\ at'[c] = "idle" /\ ended'[c] = "done")
      => \/ file'[img[c]] = "whole"
         \/ img[c] \in broken'
         \/ Writers(img[c])' # {}
         \/ at[c] \in {"unpacking", "copying"} /\ c \notin out
<1>1. StoreInv /\ [StoreNext]_storeVars => [\A c \in Clients : Usable(c)]_storeVars
  <2> SUFFICES ASSUME StoreInv, NEW b \in Clients, Step(b), NEW c \in Clients,
                      at[c] \in {"fetching", "unpack", "unpacking", "copying"},
                      at'[c] = "idle", ended'[c] = "done"
               PROVE  \/ file'[img[c]] = "whole"
                      \/ img[c] \in broken'
                      \/ Writers(img[c])' # {}
                      \/ at[c] \in {"unpacking", "copying"} /\ c \notin out
    BY DEF StoreNext
  <2> USE DEF StoreInv, StoreTypeOK, At, Goes, Returns
  <2>1. b = c
    BY DEF Step, Pulls, Construct, Snapshot, Pull, MakeStore, FetchEnds, Unpack,
           UnpackEnds, CopyEnds, Bootstrap, Build, Rmi, CleanupImages, CleanOne,
           CleanEnds, Attach, Mount, Unmount, Detach, Closes
  <2>2. FetchEnds(c) \/ Unpack(c) \/ UnpackEnds(c) \/ CopyEnds(c)
    BY <2>1 DEF Step, Pulls, Construct, Snapshot, Pull, MakeStore, Bootstrap,
                Build, Rmi, CleanupImages, CleanOne, CleanEnds, Attach, Mount,
                Unmount, Detach, Closes, Ready
  <2>3. img[c] \in Names
    BY DEF ObjectInv
  <2>4. ~FetchEnds(c) /\ ~Unpack(c)
    BY DEF FetchEnds, Unpack
  <2>5. CASE UnpackEnds(c)
    BY <2>3, <2>5 DEF UnpackEnds, Output
  <2>6. CASE CopyEnds(c)
    <3>1. CASE Output(c, "whole")
      BY <2>3, <2>6, <3>1 DEF Output, CopyEnds
    <3>2. CASE c \in out /\ Writers(img[c]) # {c}
      BY <2>6, <3>2 DEF CopyEnds, Writers
    <3> QED
      BY <2>6, <3>1, <3>2 DEF CopyEnds
  <2> QED
    BY <2>2, <2>4, <2>5, <2>6
<1> QED
  BY <1>1, StoreInitInv, StoreNextInv, PTL DEF StoreSpec, PulledIsUsable

(* Nothing writes over a whole image that was pulled from an archive, so a *)
(* machine that runs on it keeps it: it can only be removed.               *)
THEOREM UnpackedImages == StoreSpec => UnpackedImageIsKept
<1>1. StoreInv /\ [StoreNext]_storeVars =>
        [\A n \in Compressed :
           file[n] = "whole" => file'[n] \in {"whole", "none"}]_storeVars
  <2> SUFFICES ASSUME StoreInv, NEW c \in Clients, Step(c),
                      NEW n \in Compressed, file[n] = "whole"
               PROVE  file'[n] \in {"whole", "none"}
    BY DEF StoreNext
  <2> USE DEF StoreInv, StoreTypeOK, Names
  <2>1. CASE Pull(c) \/ Unpack(c)
    BY <2>1 DEF Pull, Unpack, fileVars
  <2>2. CASE UnpackEnds(c) \/ CopyEnds(c)
    BY <2>2 DEF UnpackEnds, CopyEnds, Output
  <2>3. CASE Rmi(c) \/ CleanOne(c)
    BY <2>3 DEF Rmi, CleanOne, RemoveFile, RemoveXz, fileVars
  <2>4. CASE UNCHANGED file
    BY <2>4
  <2> QED
    BY <2>1, <2>2, <2>3, <2>4
       DEF Step, Pulls, Construct, Snapshot, MakeStore, FetchEnds, Bootstrap,
           Build, CleanupImages, CleanEnds, Attach, Mount, Unmount, Detach, fileVars
<1> QED
  BY <1>1, StoreInitInv, StoreNextInv, PTL
     DEF StoreSpec, UnpackedImageIsKept
=============================================================================
