------------------------------- MODULE Probe -------------------------------
(***************************************************************************)
(* conu/utils/probes.py: a Probe calls a function in a fresh process, over *)
(* and over, until the function returns what is expected, the time is up   *)
(* or the number of tries is spent.  The loop (_run) executes either in    *)
(* the caller (run) or in a process of its own (run_in_background), whose  *)
(* error travels to join() through self.queue.                             *)
(*                                                                         *)
(* Three kinds of processes interleave: the caller, the process that       *)
(* executes _run, and the process of the current fnc call.                 *)
(***************************************************************************)
EXTENDS Integers, Sequences

CONSTANTS
  Timeouts,     \* the constructor's timeout, in clock ticks; -1 is "never"
  Counts,       \* the constructor's count; -1 is "no limit"
  Expecteds,    \* the constructor's expected_retval
  Pause,        \* the constructor's pause, in clock ticks
  BigRetvals,   \* results whose pickle does not fit in a pipe's buffer
  MayBeKilled,  \* TRUE if something outside may kill a fnc process
  TriesCap,     \* where tries saturates when count = -1 (it decides nothing)
  MaxCalls      \* bound: calls the caller makes on this Probe

Retvals == {"True", "False", "Other"}

(* What fnc_queue may hold: a value, an exception, an exception whose      *)
(* pickle does not load (run_cmd's CalledProcessError is one), or the      *)
(* first bytes of a result whose process was killed while it wrote it.     *)
Answers == Retvals \cup {"Exception", "Unreadable", "Fragment"}

(* What _run delivers as an error, by raising it or through self.queue.    *)
Errors == {"Exception", "CountExceeded", "ProbeTimeout"}

ASSUME ProbeAssumption ==
  /\ Timeouts \subseteq Nat \cup {-1}
  /\ Counts \subseteq Nat \cup {-1}
  /\ Expecteds \subseteq Retvals
  /\ BigRetvals \subseteq Retvals
  /\ Pause \in Nat
  /\ MayBeKilled \in BOOLEAN
  /\ TriesCap \in Nat \ {0}
  /\ MaxCalls \in Nat

VARIABLES
  args,      \* what the constructor was given
  caller,    \* "idle", "run" (inside run) or "join" (inside join)
  got,       \* the last call that came back, and with what
  calls,     \* calls made so far (bounded by MaxCalls)
  process,   \* self.process: "none", "alive" or "dead"
  sigterm,   \* a SIGTERM is on its way to self.process
  made,      \* self.queue is a Queue (it is None at first)
  queue,     \* what is in the pipe of self.queue
  buf,       \* what its feeder thread has not written to the pipe yet
  mode,      \* who executes _run: "fg" the caller, "bg" self.process
  pc,        \* where _run is
  tries,
  elapsed,   \* ticks since _run's start, saturating just above the timeout
  sleep,     \* ticks left of time.sleep(pause)
  p,         \* the current fnc process
  fq,        \* fnc_queue
  ending,   \* history: how the latest _run ended
  hitTry,    \* history: the try of that _run that returned expected_retval
  lost,      \* history: a fnc process of that _run ended without an answer
  orphans,   \* fnc processes alive whose _run is gone
  reported   \* history: the latest _run's error was raised to the caller

callerVars == <<caller, got, calls>>
procVars   == <<process, sigterm>>
ipcVars    == <<made, queue, buf>>
loopVars   == <<mode, pc, tries, elapsed, sleep>>
fncVars    == <<p, fq>>
history    == <<ending, hitTry, lost, orphans, reported>>
vars == <<args, callerVars, procVars, ipcVars, loopVars, fncVars, history>>

Calls == {"none", "run", "run_in_background", "terminate", "join"}
Outcomes == {"None", "True", "False", "RuntimeError", "Unreadable"} \cup Errors

CallerTypeOK ==
  /\ args \in [timeout : Timeouts, count : Counts, expected : Expecteds]
  /\ caller \in {"idle", "run", "join"}
  /\ got \in [op : Calls, out : Outcomes]
  /\ calls \in 0..MaxCalls

LoopTypeOK ==
  /\ process \in {"none", "alive", "dead"}
  /\ mode \in {"fg", "bg"}
  /\ pc \in {"none", "start", "while", "poll", "sleep", "reap",
             "expire", "expired", "exit"}
  /\ tries \in Nat
  /\ elapsed \in Nat
  /\ sleep \in 0..Pause
  /\ p \in {"none", "running", "flushing", "dead"}

HistoryTypeOK ==
  /\ ending \in {"none", "success", "RuntimeError", "Unreadable", "terminated"}
               \cup Errors
  /\ hitTry \in Nat
  /\ orphans \in Nat

FlagTypeOK ==
  /\ sigterm \in BOOLEAN
  /\ made \in BOOLEAN
  /\ lost \in BOOLEAN
  /\ reported \in BOOLEAN

QueueTypeOK ==
  /\ queue \in Seq(Errors)
  /\ buf \in Seq(Errors)
  /\ fq \in Seq(Answers)

TypeOK ==
  CallerTypeOK /\ LoopTypeOK /\ HistoryTypeOK /\ FlagTypeOK /\ QueueTypeOK

-----------------------------------------------------------------------------

Init ==
  /\ args \in [timeout : Timeouts, count : Counts, expected : Expecteds]
  /\ caller = "idle" /\ got = [op |-> "none", out |-> "None"] /\ calls = 0
  /\ process = "none" /\ sigterm = FALSE
  /\ made = FALSE /\ queue = <<>> /\ buf = <<>>
  /\ mode = "fg" /\ pc = "none" /\ tries = 0 /\ elapsed = 0 /\ sleep = 0
  /\ p = "none" /\ fq = <<>>
  /\ ending = "none" /\ hitTry = 0 /\ lost = FALSE
  /\ orphans = 0 /\ reported = FALSE

-----------------------------------------------------------------------------
(* The caller.                                                             *)

MayCall == caller = "idle" /\ calls < MaxCalls

(* A new _run is about to begin.                                           *)
Launch(who) ==
  /\ mode' = who /\ pc' = "start"
  /\ tries' = 0 /\ elapsed' = 0 /\ sleep' = 0
  /\ p' = "none" /\ fq' = <<>>
  /\ ending' = "none" /\ hitTry' = 0 /\ lost' = FALSE /\ reported' = FALSE

(* run and run_in_background refuse while the background process lives.    *)
CallRefused(op) ==
  /\ MayCall /\ process = "alive"
  /\ got' = [op |-> op, out |-> "RuntimeError"]
  /\ calls' = calls + 1
  /\ UNCHANGED <<args, caller, procVars, ipcVars, loopVars, fncVars, history>>

CallRun ==
  /\ MayCall /\ process # "alive"
  /\ caller' = "run" /\ calls' = calls + 1
  /\ Launch("fg")
  /\ UNCHANGED <<args, got, procVars, ipcVars, orphans>>

CallRunInBackground ==
  /\ MayCall /\ process # "alive"
  /\ made' = TRUE /\ queue' = <<>> /\ buf' = <<>>
  /\ process' = "alive" /\ sigterm' = FALSE
  /\ got' = [op |-> "run_in_background", out |-> "None"]
  /\ calls' = calls + 1
  /\ Launch("bg")
  /\ UNCHANGED <<args, caller, orphans>>

CallTerminate ==
  /\ MayCall
  /\ sigterm' = (sigterm \/ process = "alive")
  /\ got' = [op |-> "terminate", out |-> "None"]
  /\ calls' = calls + 1
  /\ UNCHANGED <<args, caller, process, ipcVars, loopVars, fncVars, history>>

(* join without a process comes back at once, otherwise it waits for it.   *)
CallJoin ==
  /\ MayCall
  /\ calls' = calls + 1
  /\ IF process = "none"
       THEN got' = [op |-> "join", out |-> "None"] /\ UNCHANGED caller
       ELSE caller' = "join" /\ UNCHANGED got
  /\ UNCHANGED <<args, procVars, ipcVars, loopVars, fncVars, history>>

(* The process is dead: raise the error that is in the pipe, if there is.  *)
JoinReturn ==
  /\ caller = "join" /\ process = "dead"
  /\ caller' = "idle"
  /\ IF made /\ queue # <<>>
       THEN /\ got' = [op |-> "join", out |-> Head(queue)]
            /\ queue' = Tail(queue)
            /\ reported' = TRUE
       ELSE /\ got' = [op |-> "join", out |-> "None"]
            /\ UNCHANGED <<queue, reported>>
  /\ UNCHANGED <<args, calls, procVars, made, buf, loopVars, fncVars,
                 ending, hitTry, lost, orphans>>

-----------------------------------------------------------------------------
(* The loop.                                                               *)

(* _run is over.  In the background the process goes on to exit; in the    *)
(* foreground the caller gets its result: an error is raised only if there *)
(* is no self.queue, otherwise it goes to that queue.                      *)
Finish(v) ==
  LET queued == made /\ v \in Errors
  IN  /\ ending' = v
      /\ buf' = IF queued THEN Append(buf, v) ELSE buf
      /\ IF mode = "bg"
           THEN pc' = "exit" /\ UNCHANGED <<caller, got, reported>>
           ELSE /\ pc' = "none" /\ caller' = "idle"
                /\ got' = [op |-> "run",
                           out |-> IF v = "success" THEN "True"
                                   ELSE IF ~queued THEN v
                                   ELSE IF v = "Exception" THEN "False"
                                   ELSE "None"]
                /\ reported' = (v # "success" /\ ~queued)
      /\ UNCHANGED <<args, calls, procVars, made, queue, mode, tries, elapsed,
                     sleep, hitTry, lost, orphans>>

(* Start another fnc process and count it.                                 *)
StartProcess ==
  /\ p' = "running"
  /\ tries' = IF args.count = -1 /\ tries >= TriesCap THEN tries ELSE tries + 1

RunStart ==
  /\ pc = "start"
  /\ pc' = "while"
  /\ StartProcess
  /\ UNCHANGED <<args, callerVars, procVars, ipcVars, mode, elapsed, sleep,
                 fq, history>>

(* Faulty variants: one try too few, one too many.                         *)
MoreTriesStrict == tries < args.count \/ args.count = -1
MoreTriesLoose  == tries <= args.count + 1 \/ args.count = -1

MoreTries == tries <= args.count \/ args.count = -1
TimeIsUp  == args.timeout # -1 /\ elapsed > args.timeout

(* The while condition, then the clock, before anything else is looked at. *)
RunWhile ==
  /\ pc = "while"
  /\ pc' = IF MoreTries /\ ~TimeIsUp THEN "poll" ELSE "expire"
  /\ UNCHANGED <<args, callerVars, procVars, ipcVars, mode, tries, elapsed,
                 sleep, fncVars, history>>

RunPoll ==
  /\ pc = "poll"
  /\ IF p \in {"running", "flushing"}
       THEN pc' = "sleep" /\ sleep' = Pause
       ELSE pc' = "reap" /\ UNCHANGED sleep
  /\ UNCHANGED <<args, callerVars, procVars, ipcVars, mode, tries, elapsed,
                 fncVars, history>>

RunWake ==
  /\ pc = "sleep" /\ sleep = 0
  /\ pc' = "while"
  /\ UNCHANGED <<args, callerVars, procVars, ipcVars, mode, tries, elapsed,
                 sleep, fncVars, history>>

(* The fnc process is dead and left nothing.                               *)
RunReapNothing ==
  /\ pc = "reap" /\ fq = <<>>
  /\ Finish("RuntimeError")
  /\ UNCHANGED fncVars

(* get() raises what the unpickling raised.                                *)
RunReapUnreadable ==
  /\ pc = "reap" /\ fq # <<>> /\ Head(fq) = "Unreadable"
  /\ fq' = Tail(fq)
  /\ Finish("Unreadable")
  /\ UNCHANGED p

(* A "Fragment" at the head of fnc_queue enables none of these:            *)
(* get() waits for the rest of it, and the caller's own end of the pipe    *)
(* keeps it open.                                                          *)
RunReapException ==
  /\ pc = "reap" /\ fq # <<>> /\ Head(fq) = "Exception"
  /\ fq' = Tail(fq)
  /\ Finish("Exception")
  /\ UNCHANGED p

RunReapExpected ==
  /\ pc = "reap" /\ fq # <<>> /\ Head(fq) = args.expected
  /\ fq' = Tail(fq)
  /\ Finish("success")
  /\ UNCHANGED p

(* Faulty variants: every try starts the clock anew; tries are not counted.*)
RunRetryNewClock ==
  /\ pc = "reap" /\ fq # <<>> /\ Head(fq) \in Retvals \ {args.expected}
  /\ fq' = Tail(fq)
  /\ pc' = "while" /\ elapsed' = 0
  /\ StartProcess
  /\ UNCHANGED <<args, callerVars, procVars, ipcVars, mode, sleep, history>>

RunRetryUncounted ==
  /\ pc = "reap" /\ fq # <<>> /\ Head(fq) \in Retvals \ {args.expected}
  /\ fq' = Tail(fq)
  /\ pc' = "while" /\ p' = "running"
  /\ UNCHANGED <<args, callerVars, procVars, ipcVars, mode, tries, elapsed,
                 sleep, history>>

RunRetry ==
  /\ pc = "reap" /\ fq # <<>> /\ Head(fq) \in Retvals \ {args.expected}
  /\ fq' = Tail(fq)
  /\ pc' = "while"
  /\ StartProcess
  /\ UNCHANGED <<args, callerVars, procVars, ipcVars, mode, elapsed, sleep,
                 history>>

(* Faulty variant: the last fnc process is left running.                   *)
RunForgetFnc ==
  /\ pc = "expire"
  /\ pc' = "expired"
  /\ UNCHANGED <<args, callerVars, procVars, ipcVars, mode, tries, elapsed,
                 sleep, fncVars, history>>

(* Past the loop: terminate the current fnc process, wait until it is dead *)
(* (its answer, if it gave one, stays unread), and fail.                   *)
RunTerminateFnc ==
  /\ pc = "expire"
  /\ pc' = "expired"
  /\ p' = "dead"
  /\ UNCHANGED <<args, callerVars, procVars, ipcVars, mode, tries, elapsed,
                 sleep, fq, history>>

(* Faulty variant: running out of time during the last try is put down to  *)
(* the count.                                                              *)
ExpiryEager == IF -1 < args.count /\ args.count <= tries
                 THEN "CountExceeded" ELSE "ProbeTimeout"

Expiry == IF -1 < args.count /\ args.count < tries
            THEN "CountExceeded" ELSE "ProbeTimeout"

RunExpired ==
  /\ pc = "expired"
  /\ Finish(Expiry)
  /\ UNCHANGED fncVars

-----------------------------------------------------------------------------
(* The fnc process (_wrapper).  It is alive until its queue is flushed: a  *)
(* big result waits for a reader, and _run reads from dead processes only. *)

(* Faulty variant: the process exits without flushing its queue.           *)
FncPutUnflushed(answer) ==
  /\ p = "running"
  /\ p' = "dead"
  /\ UNCHANGED <<args, callerVars, procVars, ipcVars, loopVars, fq,
                 ending, lost, orphans, reported>>

FncPut(answer) ==
  /\ p = "running"
  /\ IF answer \in BigRetvals
       THEN p' = "flushing" /\ UNCHANGED fq
       ELSE p' = "dead" /\ fq' = Append(fq, answer)
  /\ UNCHANGED <<args, callerVars, procVars, ipcVars, loopVars,
                 ending, lost, orphans, reported>>

FncReturns(v) ==
  /\ FncPut(v)
  /\ hitTry' = IF v = args.expected THEN tries ELSE hitTry

FncRaisesExpected == FncPut("False") /\ UNCHANGED hitTry

FncRaises(e) == FncPut(e) /\ UNCHANGED hitTry

(* fnc raises what is no Exception (SystemExit), or its result cannot be   *)
(* pickled: the process ends and nothing is put.                           *)
FncAnswersNothing ==
  /\ p = "running"
  /\ p' = "dead" /\ lost' = TRUE
  /\ UNCHANGED <<args, callerVars, procVars, ipcVars, loopVars, fq,
                 ending, hitTry, orphans, reported>>

FncKilled ==
  /\ MayBeKilled
  /\ p \in {"running", "flushing"}
  /\ p' = "dead" /\ lost' = TRUE
  /\ fq' = IF p = "flushing" THEN Append(fq, "Fragment") ELSE fq
  /\ UNCHANGED <<args, callerVars, procVars, ipcVars, loopVars,
                 ending, hitTry, orphans, reported>>

OrphanEnds ==
  /\ orphans > 0
  /\ orphans' = orphans - 1
  /\ UNCHANGED <<args, callerVars, procVars, ipcVars, loopVars, fncVars,
                 ending, hitTry, lost, reported>>

-----------------------------------------------------------------------------
(* The background process, the feeder thread of self.queue and the clock.  *)

Flush ==
  /\ buf # <<>>
  /\ queue' = Append(queue, Head(buf))
  /\ buf' = Tail(buf)
  /\ UNCHANGED <<args, callerVars, procVars, made, loopVars, fncVars, history>>

(* Faulty variant: the process exits without flushing its queue.           *)
ProcessExitUnflushed ==
  /\ pc = "exit"
  /\ pc' = "none" /\ process' = "dead" /\ buf' = <<>>
  /\ UNCHANGED <<args, callerVars, sigterm, made, queue, mode, tries, elapsed,
                 sleep, fncVars, history>>

ProcessExit ==
  /\ pc = "exit" /\ buf = <<>>
  /\ pc' = "none" /\ process' = "dead"
  /\ UNCHANGED <<args, callerVars, sigterm, ipcVars, mode, tries, elapsed,
                 sleep, fncVars, history>>

(* SIGTERM ends the background process wherever it is.  The fnc process is *)
(* not its to take along, and what was not flushed is lost.                *)
ProcessTerminated ==
  /\ sigterm /\ process = "alive"
  /\ process' = "dead" /\ pc' = "none" /\ buf' = <<>>
  /\ ending' = IF pc = "exit" THEN ending ELSE "terminated"
  /\ IF p \in {"running", "flushing"}
       THEN orphans' = orphans + 1 /\ p' = "none"
       ELSE UNCHANGED <<orphans, p>>
  /\ UNCHANGED <<args, callerVars, sigterm, made, queue, mode, tries, elapsed,
                 sleep, fq, hitTry, lost, reported>>

(* Time passes while _run executes.                                        *)
Tick ==
  /\ pc \notin {"none", "start", "exit"}
  /\ elapsed' = IF args.timeout = -1 \/ elapsed > args.timeout
                  THEN elapsed ELSE elapsed + 1
  /\ sleep' = IF sleep > 0 THEN sleep - 1 ELSE 0
  /\ <<elapsed', sleep'>> # <<elapsed, sleep>>
  /\ UNCHANGED <<args, callerVars, procVars, ipcVars, mode, pc, tries,
                 fncVars, history>>

-----------------------------------------------------------------------------

CallerStep ==
  \/ \E op \in {"run", "run_in_background"} : CallRefused(op)
  \/ CallRun \/ CallRunInBackground \/ CallTerminate \/ CallJoin \/ JoinReturn

LoopStep ==
  \/ RunStart \/ RunWhile \/ RunPoll \/ RunWake
  \/ RunReapNothing \/ RunReapException \/ RunReapUnreadable
  \/ RunReapExpected \/ RunRetry
  \/ RunTerminateFnc \/ RunExpired

FncEnds ==
  \/ \E v \in Retvals : FncReturns(v)
  \/ \E e \in {"Exception", "Unreadable"} : FncRaises(e)
  \/ FncRaisesExpected \/ FncAnswersNothing

SystemStep ==
  \/ FncKilled \/ OrphanEnds \/ Flush \/ ProcessExit \/ ProcessTerminated
  \/ Tick

Next == CallerStep \/ LoopStep \/ FncEnds \/ SystemStep

(* The operating system schedules every live process and the clock moves.  *)
(* Nothing makes the caller call, nor a fnc return.                        *)
Fairness ==
  /\ WF_vars(LoopStep) /\ WF_vars(Tick) /\ WF_vars(Flush)
  /\ WF_vars(ProcessExit) /\ WF_vars(ProcessTerminated) /\ WF_vars(JoinReturn)

Spec == Init /\ [][Next]_vars

FairSpec == Spec /\ Fairness

-----------------------------------------------------------------------------
(* Properties.                                                             *)

FncAlive == p \in {"running", "flushing"}

(* _run answers True only if the very try it looked at returned the        *)
(* expected value: no answer of an earlier try, no leftover of the queue   *)
(* and no expected exception is taken for it (_run lines 129-145, _wrapper *)
(* lines 96-106).  Not so when False is expected: _wrapper answers False   *)
(* for an expected exception, and that ends the probe as a success.        *)
SuccessIsEarned ==
  ending = "success" /\ args.expected # "False" => hitTry = tries

(* CountExceeded never throws away a success of one of the count tries the *)
(* caller allowed: the only hit that may go unread is the extra try's      *)
(* (lines 116, 148).                                                       *)
CountHidesNoHit ==
  ending = "CountExceeded" /\ hitTry # 0 => hitTry = args.count + 1

(* Each of the two ways to give up is reported for its own reason: time    *)
(* really ran out, or every try that count allows was made in vain, and    *)
(* none of them is still at work (lines 116-120, 148-151).  By then one    *)
(* more process was started than the "Maximum number of tries" that the    *)
(* documentation makes of count (line 34): see TriesBounded.               *)
ExpiryIsHonest ==
  /\ ending = "ProbeTimeout" => args.timeout # -1 /\ elapsed > args.timeout
  /\ ending = "CountExceeded" => args.count # -1 /\ tries > args.count

(* "queue is empty when it shouldn't be" (line 128): an empty fnc_queue    *)
(* behind a dead process is only seen when that process put nothing: it    *)
(* was killed, fnc raised what _wrapper does not catch, or its result      *)
(* cannot be pickled.  An answer that was put is never missed.             *)
RuntimeErrorOnlyIfUnanswered == ending = "RuntimeError" => lost

(* However _run ends, it leaves no fnc process running (lines 126, 146).   *)
NoFncOutlivesRun == pc \in {"none", "exit"} => ~FncAlive

(* A limited Probe starts at most one fnc process more than count, which   *)
(* the documentation calls the "Maximum number of tries" (lines 34,        *)
(* 115-116, 140-142); and it does start that one.                          *)
TriesBounded == args.count # -1 => tries <= args.count + 1

(* What join tells of a background _run: an error it raises is the error   *)
(* _run ended with, raised once; and it comes back silently only if _run   *)
(* succeeded, the error was raised before, the caller had terminated the   *)
(* process, or the error was _run's own about an answer it could not read, *)
(* which goes past self.queue (lines 68-75, 128-136, 153-154).             *)
OfItsOwn == {"RuntimeError", "Unreadable"}

JoinTellsTheTruth ==
  [][JoinReturn /\ mode = "bg" =>
       IF got'.out = "None"
         THEN ending \in {"success"} \cup OfItsOwn \/ reported \/ sigterm
         ELSE got'.out = ending /\ ~reported]_vars

(* get() waits for the rest of a result that nobody writes any more.       *)
Torn == fq # <<>> /\ Head(fq) = "Fragment"

(* Every _run with a timeout ends, whatever its fnc does, and so does a    *)
(* join that waits for it (lines 116-123, 146-147, 71): only a fnc process *)
(* killed in the middle of writing its result can stop them.               *)
RunEndsInTime ==
  args.timeout # -1 => /\ (pc = "start" ~> pc = "none" \/ Torn)
                       /\ (caller = "join" ~> caller = "idle" \/ Torn)

(* Without a timeout the count alone ends _run, unless one of its fnc      *)
(* processes stays alive for ever or is killed that way (line 116;         *)
(* OpenshiftBackend.start_build uses a Probe like this).                   *)
RunEndsByCount ==
  args.count # -1 =>
    [](pc = "start" => <>(pc = "none" \/ Torn) \/ <>[]FncAlive)

-----------------------------------------------------------------------------
(* The inductive invariant behind the properties above.                    *)

Trying == pc \in {"while", "poll", "sleep", "reap", "expire", "expired"}

(* Who may be where: the background process lives exactly while it         *)
(* executes _run, and a foreground _run keeps the caller in run.           *)
Roles ==
  /\ process = "alive" <=> mode = "bg" /\ pc # "none"
  /\ caller = "run" <=> mode = "fg" /\ pc # "none"
  /\ caller = "join" => process # "none"
  /\ pc = "exit" => mode = "bg"
  /\ mode = "bg" => made
  /\ process # "none" => made

(* The fnc process as _run sees it.                                        *)
FncStage ==
  /\ pc = "start" => p = "none"
  /\ Trying => p # "none"
  /\ pc \in {"reap", "expired"} => p = "dead"
  /\ pc \in {"none", "exit"} => ~FncAlive

(* One answer at most, and it is there once the process is dead.           *)
AnswerStage ==
  /\ FncAlive \/ pc = "start" => fq = <<>>
  /\ fq # <<>> => \E a \in Answers : fq = <<a>>
  /\ pc \in {"while", "poll", "sleep", "reap"} /\ p = "dead" /\ ~lost
       => fq # <<>>

TriesStage ==
  /\ pc = "start" => tries = 0
  /\ Trying => tries > 0
  /\ TriesBounded
  /\ pc \in {"poll", "sleep", "reap"} => MoreTries
  /\ pc \in {"expire", "expired"} => TimeIsUp \/ ~MoreTries

(* A hit belongs to the latest try, and so does the answer to be read.     *)
HitStage ==
  /\ hitTry \in {0, tries}
  /\ pc = "start" => hitTry = 0
  /\ Trying /\ hitTry # 0
       => /\ p # "running"
          /\ fq # <<>> => fq[1] \in {args.expected, "Fragment"}
  /\ Trying /\ fq # <<>> /\ fq[1] = args.expected /\ args.expected # "False"
       => hitTry = tries

(* An ending is final.                                                     *)
EndingStage ==
  /\ ending # "none" => pc \in {"none", "exit"}
  /\ pc = "exit" => ending \notin {"none", "terminated"}
  /\ ending = "terminated" => sigterm
  /\ mode = "bg" /\ process = "dead" => ending # "none"

(* The way of a background error: buffer, pipe, caller.                    *)
DeliveryStage ==
  mode = "bg" =>
    /\ ending \notin Errors => buf = <<>> /\ queue = <<>> /\ ~reported
    /\ ending \in Errors =>
         \/ buf = <<ending>> /\ queue = <<>> /\ pc = "exit" /\ ~reported
         \/ buf = <<>> /\ queue = <<ending>> /\ ~reported
         \/ buf = <<>> /\ queue = <<>> /\ (reported \/ sigterm)

IInv ==
  /\ Roles /\ FncStage /\ AnswerStage /\ TriesStage /\ HitStage
  /\ EndingStage /\ DeliveryStage
  /\ SuccessIsEarned /\ CountHidesNoHit /\ ExpiryIsHonest
  /\ RuntimeErrorOnlyIfUnanswered

-----------------------------------------------------------------------------
(* The refinement: processes, queues and the caller out of sight.          *)

CurrentAnswer ==
  CASE ~Trying \/ FncAlive -> "none"
    [] Trying /\ ~FncAlive /\ fq = <<>> -> "gone"
    [] Trying /\ ~FncAlive /\ fq # <<>> ->
         CASE Head(fq) = args.expected -> "hit"
           [] Head(fq) = "Exception"   -> "error"
           [] Head(fq) = "Unreadable"  -> "error"
           [] Head(fq) = "Fragment"    -> "gone"
           [] OTHER                    -> "miss"

Promise == INSTANCE ProbeContract WITH
  limit   <- args.count,
  phase   <- IF Trying THEN "trying" ELSE "idle",
  attempt <- tries,
  answer  <- CurrentAnswer,
  late    <- args.timeout # -1 /\ elapsed > args.timeout,
  ending <- ending

(* _run implements the contract of ProbeContract.                          *)
KeepsContract == Promise!Contract

-----------------------------------------------------------------------------
(* What the documentation and the tests say, and the code does not do.     *)

(* A run that fails raises, as every test of run expects                   *)
(* ("with pytest.raises(ProbeTimeout): probe.run()", test_probe.py:50),    *)
(* also when the Probe ran in the background before.                       *)
RunRaisesOrSucceeds == got.op = "run" => got.out \notin {"None", "False"}

=============================================================================
