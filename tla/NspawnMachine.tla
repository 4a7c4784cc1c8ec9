--------------------------- MODULE NspawnMachine ---------------------------
(***************************************************************************)
(* conu/backend/nspawn: a container object, the systemd-nspawn processes   *)
(* it starts, and the machine of its name that machined knows.             *)
(*                                                                         *)
(* NspawnImage.run_via_binary and NspawnContainer.start launch a process,  *)
(* again if it dies at once, and wait until the machine has booted; stop,  *)
(* kill and cleanup take the machine down and kill the process; execute    *)
(* runs a unit inside.  Between any two of their commands the machine goes *)
(* its own way, and another conu process may clean up; and any command may *)
(* be killed by a signal, which run_cmd takes for a success.               *)
(*                                                                         *)
(* The caller gives the machine a name (name=...), so that a second run    *)
(* meets what a failed one has left.                                       *)
(***************************************************************************)
EXTENDS Integers

CONSTANTS
  Retry,        \* times a process is launched by one call (retry)
  BootLooks,    \* bound: times a boot is looked at (DEFAULT_RETRYTIMEOUT)
  MaxProcs,     \* bound: processes launched in all
  MaxCalls,     \* bound: calls the caller makes
  WaitSupports, \* whether systemd-run may know --wait: a set of BOOLEANs
  Others        \* TRUE if another conu process may clean up

ASSUME NspawnAssumption ==
  /\ Retry \in Nat \ {0}
  /\ BootLooks \in Nat \ {0}
  /\ MaxProcs \in Nat
  /\ MaxCalls \in Nat
  /\ WaitSupports \subseteq BOOLEAN
  /\ Others \in BOOLEAN

Procs == 1..MaxProcs
NoProc == 0

VARIABLES
  wait,     \* systemd_wait_support
  image,    \* the image file is there
  machine,  \* what machined knows under the container's name
  proc,     \* the systemd-nspawn processes
  made,     \* run_via_binary has returned a container object
  handle,   \* its start_process
  op,       \* the call in progress, "none" between calls
  force, delete,  \* the arguments of cleanup
  pc,       \* where the call is
  cur,      \* container_process in _internal_reschedule
  tries,    \* launches, or looks at the boot, of the call so far
  unit,     \* the unit that execute runs
  code,     \* comout['return_code']: what it says, and as a number or a text
  result,   \* how the latest call ended
  calls,    \* calls made
  other,    \* the other process's cleanup_containers
  left      \* history: processes that a start which gave up on its boot has
            \* left behind, or whose place in the object a later start took

vars == <<wait, image, machine, proc, made, handle, op, force, delete, pc, cur,
          tries, unit, code, result, calls, other, left>>

callVars == <<op, force, delete, pc, cur, tries, unit, code, result, calls>>

Ops == {"run", "start", "stop", "kill", "cleanup", "delete", "execute"}
Results == {"none", "ok", "ConuException", "CalledProcessError", "OSError",
            "KeyError"}
Codes == [value : {"zero", "nonzero", "killed"}, text : BOOLEAN]
NoCode == [value |-> "zero", text |-> FALSE]

TypeOK ==
  /\ wait \in WaitSupports
  /\ image \in BOOLEAN
  /\ machine \in {"absent", "booting", "up", "stopping", "killed"}
  /\ proc \in [Procs -> {"unused", "starting", "serving", "killed", "dead"}]
  /\ made \in BOOLEAN
  /\ handle \in Procs \cup {NoProc}
  /\ op \in Ops \cup {"none"}
  /\ force \in BOOLEAN /\ delete \in BOOLEAN
  /\ pc \in {"idle", "launch", "poll", "boot", "poweroff", "terminate",
             "finish", "reap", "remove", "unit", "show", "copy"}
  /\ cur \in Procs \cup {NoProc}
  /\ tries \in 0..(IF Retry > BootLooks THEN Retry ELSE BootLooks)
  /\ unit \in {"none", "running", "lost", "zero", "nonzero"}
  /\ code \in Codes
  /\ result \in Results
  /\ calls \in 0..MaxCalls
  /\ other \in {"idle", "listed"}
  /\ left \subseteq Procs

Init ==
  /\ wait \in WaitSupports
  /\ image = TRUE /\ machine = "absent"
  /\ proc = [p \in Procs |-> "unused"]
  /\ made = FALSE /\ handle = NoProc
  /\ op = "none" /\ force = FALSE /\ delete = FALSE /\ pc = "idle"
  /\ cur = NoProc /\ tries = 0 /\ unit = "none" /\ code = NoCode
  /\ result = "none" /\ calls = 0
  /\ other = "idle" /\ left = {}

(* A process is alive, and nobody has killed it.                           *)
Alive(p) == p # NoProc /\ proc[p] \in {"starting", "serving"}

-----------------------------------------------------------------------------
(* The caller.                                                             *)

Begin(o, label) ==
  /\ op = "none" /\ calls < MaxCalls
  /\ op' = o /\ pc' = label
  /\ calls' = calls + 1 /\ tries' = 0 /\ result' = "none"

(* The call is over: it returns, or raises r.                              *)
End(r) ==
  /\ op' = "none" /\ pc' = "idle" /\ result' = r
  /\ tries' = 0 /\ cur' = NoProc /\ unit' = "none" /\ code' = NoCode
  /\ force' = FALSE /\ delete' = FALSE
  /\ UNCHANGED calls

CallRun ==
  /\ ~made
  /\ Begin("run", "launch")
  /\ UNCHANGED <<wait, image, machine, proc, made, handle, force, delete, cur,
                 unit, code, other, left>>

Call(o, label) ==
  /\ made
  /\ Begin(o, label)
  /\ UNCHANGED <<wait, image, machine, proc, made, handle, force, delete, cur,
                 unit, code, other, left>>

CallCleanup ==
  /\ made
  /\ Begin("cleanup", "poweroff")
  /\ force' \in BOOLEAN /\ delete' \in BOOLEAN
  /\ UNCHANGED <<wait, image, machine, proc, made, handle, cur, unit, code,
                 other, left>>

-----------------------------------------------------------------------------
(* _internal_reschedule and _wait_for_machine_booted.                      *)

Launch(p) ==
  /\ pc = "launch" /\ proc[p] = "unused"
  /\ \A q \in Procs : q < p => proc[q] # "unused"
  /\ proc' = [proc EXCEPT ![p] = "starting"]
  /\ cur' = p /\ tries' = tries + 1 /\ pc' = "poll"
  /\ UNCHANGED <<wait, image, machine, made, handle, op, force, delete, unit,
                 code, result, calls, other, left>>

PollAlive ==
  /\ pc = "poll" /\ Alive(cur)
  /\ pc' = "boot" /\ tries' = 0
  /\ UNCHANGED <<wait, image, machine, proc, made, handle, op, force, delete,
                 cur, unit, code, result, calls, other, left>>

(* Faulty variant: a process that is alive is launched again, too.         *)
PollAgainAnyway ==
  /\ pc = "poll" /\ tries < Retry
  /\ pc' = "launch"
  /\ UNCHANGED <<wait, image, machine, proc, made, handle, op, force, delete,
                 cur, tries, unit, code, result, calls, other, left>>

PollDeadAgain ==
  /\ pc = "poll" /\ ~Alive(cur) /\ tries < Retry
  /\ pc' = "launch"
  /\ UNCHANGED <<wait, image, machine, proc, made, handle, op, force, delete,
                 cur, tries, unit, code, result, calls, other, left>>

PollDeadGiveUp ==
  /\ pc = "poll" /\ ~Alive(cur) /\ tries = Retry
  /\ End("ConuException")
  /\ UNCHANGED <<wait, image, machine, proc, made, handle, other, left>>

(* Faulty variant: a new start does not replace start_process.             *)
BootSeenKeepsOld ==
  /\ pc = "boot" /\ machine \in {"up", "stopping", "killed"}
  /\ made' = TRUE /\ handle' = IF made THEN handle ELSE cur
  /\ left' = left \cup {p \in Procs : p = handle /\ Alive(p)}
  /\ End("ok")
  /\ UNCHANGED <<wait, image, machine, proc, other>>

(* machinectl status names systemd-logind: surely once the machine is up,  *)
(* perhaps still while it goes down.  It may be the machine of an earlier  *)
(* process.                                                                *)
BootSeen ==
  /\ pc = "boot" /\ machine \in {"up", "stopping", "killed"}
  /\ made' = TRUE /\ handle' = cur
  /\ left' = left \cup {p \in Procs : p = handle /\ Alive(p)}
  /\ End("ok")
  /\ UNCHANGED <<wait, image, machine, proc, other>>

(* Out of looks: whatever was launched is left to itself.                  *)
LookAgain ==
  /\ IF tries + 1 < BootLooks
       THEN /\ tries' = tries + 1
            /\ UNCHANGED <<op, force, delete, pc, cur, unit, code, result,
                           calls, left>>
       ELSE End("ConuException") /\ left' = left \cup {cur}
  /\ UNCHANGED <<wait, image, machine, proc, made, handle, other>>

BootNotSeen == pc = "boot" /\ machine # "up" /\ LookAgain

-----------------------------------------------------------------------------
(* stop, kill, cleanup and delete.                                         *)

(* The end of stop and of kill within cleanup, or of the call itself.      *)
Down ==
  IF op = "cleanup" /\ delete
    THEN /\ pc' = "remove"
         /\ UNCHANGED <<op, force, delete, cur, tries, unit, code, result,
                        calls>>
    ELSE End("ok")

(* A machine that is there goes down, sooner or later.                     *)
GoesDown ==
  machine' = IF machine \in {"absent", "killed"} THEN machine ELSE "stopping"

Poweroff ==
  /\ pc = "poweroff" /\ machine # "absent"
  /\ GoesDown /\ pc' = "finish"
  /\ UNCHANGED <<wait, image, proc, made, handle, op, force, delete, cur,
                 tries, unit, code, result, calls, other, left>>

PoweroffFails ==
  /\ pc = "poweroff" /\ machine \in {"absent", "killed"}
  /\ IF op = "cleanup" /\ force
       THEN /\ pc' = "terminate"
            /\ UNCHANGED <<op, force, delete, cur, tries, unit, code, result,
                           calls>>
       ELSE End("CalledProcessError")
  /\ UNCHANGED <<wait, image, machine, proc, made, handle, other, left>>

Terminate ==
  /\ pc = "terminate" /\ machine # "absent"
  /\ GoesDown /\ pc' = "finish"
  /\ UNCHANGED <<wait, image, proc, made, handle, op, force, delete, cur,
                 tries, unit, code, result, calls, other, left>>

TerminateFails ==
  /\ pc = "terminate" /\ machine \in {"absent", "killed"}
  /\ IF op = "cleanup" THEN Down ELSE End("CalledProcessError")
  /\ UNCHANGED <<wait, image, machine, proc, made, handle, other, left>>

(* Faulty variant: the wait has no limit.                                  *)
FinishWaitUnlimited ==
  /\ pc = "finish" /\ machine = "absent"
  /\ pc' = "reap"
  /\ UNCHANGED <<wait, image, machine, proc, made, handle, op, force, delete,
                 cur, tries, unit, code, result, calls, other, left>>

(* _wait_for_machine_finish compares the text that machinectl printed with *)
(* the number 0: one look is enough, whatever it shows.                    *)
FinishWait ==
  /\ pc = "finish"
  /\ pc' = "reap"
  /\ UNCHANGED <<wait, image, machine, proc, made, handle, op, force, delete,
                 cur, tries, unit, code, result, calls, other, left>>

(* start_process.kill() sends a SIGKILL and returns; nobody waits for the  *)
(* death of the process, nor for machined to drop the machine it serves.   *)
Reap ==
  /\ pc = "reap"
  /\ machine' = IF proc[handle] = "serving" THEN "killed" ELSE machine
  /\ proc' = [proc EXCEPT ![handle] = IF Alive(handle) THEN "killed" ELSE @]
  /\ Down
  /\ UNCHANGED <<wait, image, made, handle, other, left>>

(* rmi: os.remove.  delete and cleanup let its OSError through.            *)
Remove ==
  /\ pc = "remove"
  /\ image' = FALSE
  /\ End(IF image THEN "ok" ELSE "OSError")
  /\ UNCHANGED <<wait, machine, proc, made, handle, other, left>>

-----------------------------------------------------------------------------
(* execute: run_systemdrun in the foreground, with ignore_status = False.  *)

(* systemd-run starts the unit.  With --wait it comes back when the unit   *)
(* is done, and with its exit code; otherwise at once, with 0.             *)
UnitStarts ==
  /\ pc = "unit" /\ unit = "none" /\ machine = "up"
  /\ unit' = "running"
  /\ pc' = IF wait THEN "unit" ELSE "show"
  /\ UNCHANGED <<wait, image, machine, proc, made, handle, op, force, delete,
                 cur, tries, code, result, calls, other, left>>

UnitDone ==
  /\ pc = "unit" /\ unit \in {"zero", "nonzero"}
  /\ code' = [value |-> unit, text |-> FALSE]
  /\ pc' = "copy"
  /\ UNCHANGED <<wait, image, machine, proc, made, handle, op, force, delete,
                 cur, tries, unit, result, calls, other, left>>

(* systemd-run could not start the unit, or its machine went down.         *)
UnitLost ==
  /\ pc = "unit" /\ unit \in {"none", "running", "lost"}
  /\ unit = "running" => machine # "up"
  /\ unit' = "lost"
  /\ code' = [value |-> "nonzero", text |-> FALSE]
  /\ pc' = IF wait THEN "copy" ELSE "show"
  /\ UNCHANGED <<wait, image, machine, proc, made, handle, op, force, delete,
                 cur, tries, result, calls, other, left>>

(* _systemctl_wait_until_finish, whatever systemd-run said.  ExecMainStatus*)
(* is a text.  A unit that has not finished is looked at again, and so is  *)
(* one that was never started.                                             *)
Show ==
  /\ pc = "show" /\ machine # "absent" /\ unit \in {"zero", "nonzero"}
  /\ code' = [value |-> unit, text |-> TRUE]
  /\ pc' = "copy"
  /\ UNCHANGED <<wait, image, machine, proc, made, handle, op, force, delete,
                 cur, tries, unit, result, calls, other, left>>

ShowFails ==
  /\ pc = "show" /\ machine # "up"
  /\ End("CalledProcessError")
  /\ UNCHANGED <<wait, image, machine, proc, made, handle, other, left>>

(* Faulty variant: the exit code is not looked at.                         *)
IsFailureNever(c) == FALSE

(* return_code != 0 holds of every text.  That of a systemd-run which was  *)
(* killed is negative, and run_cmd makes it None, and "or 0" makes it 0.   *)
IsFailure(c) == c.text \/ c.value = "nonzero"

(* The output is copied if the machine is running; copying it may fail.    *)
Copy ==
  /\ pc = "copy"
  /\ End(IF IsFailure(code) THEN "CalledProcessError" ELSE "ok")
  /\ UNCHANGED <<wait, image, machine, proc, made, handle, other, left>>

CopyFails ==
  /\ pc = "copy" /\ machine # "up"
  /\ End("CalledProcessError")
  /\ UNCHANGED <<wait, image, machine, proc, made, handle, other, left>>

-----------------------------------------------------------------------------
(* A command that a call runs is killed by a signal.  run_cmd returns as   *)
(* if it had succeeded, with what the command has printed so far.          *)

LookKilled == pc = "boot" /\ LookAgain

(* machinectl poweroff or terminate; if its request got through, it is     *)
(* Poweroff or Terminate.                                                  *)
StopKilled ==
  /\ pc \in {"poweroff", "terminate"}
  /\ pc' = "finish"
  /\ UNCHANGED <<wait, image, machine, proc, made, handle, op, force, delete,
                 cur, tries, unit, code, result, calls, other, left>>

(* systemd-run: the unit goes on without it if it was started.             *)
UnitRunKilled ==
  /\ pc = "unit"
  /\ \/ unit = "none" /\ unit' = "lost"
     \/ unit = "none" /\ unit' = "running" /\ machine = "up"
     \/ unit # "none" /\ UNCHANGED unit
  /\ code' = [value |-> "killed", text |-> FALSE]
  /\ pc' = IF wait THEN "copy" ELSE "show"
  /\ UNCHANGED <<wait, image, machine, proc, made, handle, op, force, delete,
                 cur, tries, result, calls, other, left>>

(* systemctl show: no SubState was printed.                                *)
ShowKilled ==
  /\ pc = "show"
  /\ End("KeyError")
  /\ UNCHANGED <<wait, image, machine, proc, made, handle, other, left>>

(* machinectl copy-from: there is no file to open.                         *)
CopyKilled ==
  /\ pc = "copy"
  /\ End("OSError")
  /\ UNCHANGED <<wait, image, machine, proc, made, handle, other, left>>

-----------------------------------------------------------------------------
(* systemd-nspawn, the machine, and another conu process.                  *)

ProcServes(p) ==
  /\ proc[p] = "starting" /\ machine = "absent" /\ image
  /\ proc' = [proc EXCEPT ![p] = "serving"]
  /\ machine' = "booting"
  /\ UNCHANGED <<wait, image, made, handle, callVars, other, left>>

(* The name is taken, there is no image, or something else went wrong.     *)
ProcDies(p) ==
  /\ proc[p] = "starting"
  /\ proc' = [proc EXCEPT ![p] = "dead"]
  /\ UNCHANGED <<wait, image, machine, made, handle, callVars, other, left>>

MachineBoots ==
  /\ machine = "booting"
  /\ machine' = "up"
  /\ UNCHANGED <<wait, image, proc, made, handle, callVars, other, left>>

KilledProcDies(p) ==
  /\ proc[p] = "killed"
  /\ proc' = [proc EXCEPT ![p] = "dead"]
  /\ UNCHANGED <<wait, image, machine, made, handle, callVars, other, left>>

(* The machine goes down, asked to or not, with its process and its unit.  *)
(* One whose process was killed lives on for a while, as far as machined   *)
(* knows.                                                                  *)
MachineEnds ==
  /\ machine # "absent"
  /\ machine' = "absent"
  /\ proc' = [p \in Procs |-> IF proc[p] = "serving" THEN "dead" ELSE proc[p]]
  /\ unit' = IF unit = "running" THEN "lost" ELSE unit
  /\ UNCHANGED <<wait, image, made, handle, op, force, delete, pc, cur, tries,
                 code, result, calls, other, left>>

UnitEnds ==
  /\ unit = "running" /\ machine = "up"
  /\ unit' \in {"zero", "nonzero"}
  /\ UNCHANGED <<wait, image, machine, proc, made, handle, op, force, delete,
                 pc, cur, tries, code, result, calls, other, left>>

(* NspawnBackend.cleanup_containers: list, then terminate what was listed; *)
(* an error is logged.                                                     *)
OtherLists ==
  /\ Others /\ other = "idle" /\ machine # "absent"
  /\ other' = "listed"
  /\ UNCHANGED <<wait, image, machine, proc, made, handle, callVars, left>>

OtherTerminates ==
  /\ other = "listed"
  /\ other' = "idle"
  /\ GoesDown
  /\ UNCHANGED <<wait, image, proc, made, handle, callVars, left>>

-----------------------------------------------------------------------------

CallStep ==
  \/ CallRun \/ CallCleanup
  \/ Call("start", "launch") \/ Call("stop", "poweroff")
  \/ Call("kill", "terminate") \/ Call("delete", "remove")
  \/ Call("execute", "unit")

StartStep ==
  \/ \E p \in Procs : Launch(p)
  \/ PollAlive \/ PollDeadAgain \/ PollDeadGiveUp \/ BootSeen \/ BootNotSeen

StopStep ==
  \/ Poweroff \/ PoweroffFails \/ Terminate \/ TerminateFails
  \/ FinishWait \/ Reap \/ Remove

ExecuteStep ==
  UnitStarts \/ UnitDone \/ UnitLost \/ Show \/ ShowFails \/ Copy \/ CopyFails

KilledStep ==
  LookKilled \/ StopKilled \/ UnitRunKilled \/ ShowKilled \/ CopyKilled

SystemStep ==
  \/ \E p \in Procs : ProcServes(p) \/ ProcDies(p) \/ KilledProcDies(p)
  \/ MachineBoots \/ MachineEnds \/ UnitEnds \/ OtherLists \/ OtherTerminates

Next ==
  CallStep \/ StartStep \/ StopStep \/ ExecuteStep \/ KilledStep \/ SystemStep

(* The conu process goes on, and the commands of the units come to an end. *)
Fairness ==
  /\ WF_vars(StartStep) /\ WF_vars(StopStep) /\ WF_vars(ExecuteStep)
  /\ WF_vars(UnitEnds)

Spec == Init /\ [][Next]_vars

FairSpec == Spec /\ Fairness

-----------------------------------------------------------------------------
(* Properties.                                                             *)

(* Between calls the only systemd-nspawn process alive is the one the      *)
(* container object holds: retries leave none behind, and neither stop nor *)
(* kill does, except those that a start which gave up on the boot left to  *)
(* themselves, and those whose place in the object a later start took,     *)
(* which found their machine (lines 398-441 of nspawn/container.py).       *)
NoStrayProcess ==
  op = "none" => \A p \in Procs : Alive(p) => p = handle \/ p \in left

(* A stop or kill that returns has sealed the fate of the machine: it is   *)
(* gone, or its process is killed and it will go, whatever the machine     *)
(* made of the request to power off, and although nobody waits for that.   *)
(* The process killed is the right one, that of the latest start; only a   *)
(* process that no object holds any more can still serve a machine (lines  *)
(* 176-205 of container.py).                                               *)
StopEndsMachine ==
  [][op' = "none" /\ op \in {"stop", "kill"} /\ result' = "ok"
       => \/ machine' \in {"absent", "killed"}
          \/ \E p \in left : proc'[p] = "serving"]_vars

(* execute returns normally only if the command succeeded, or if           *)
(* systemd-run was killed before it could tell, and it raises a            *)
(* CalledProcessError only if the command failed or did not run, if the    *)
(* machine went down meanwhile, or if the exit code was read as a text,    *)
(* which happens without --wait (lines 274-362 of container.py): the       *)
(* "workaround" (line 277) that keeps the unit "to be able to read exit    *)
(* code" (line 319) compares that text with the number 0.                  *)
ExecuteTellsTheTruth ==
  [][op = "execute" /\ op' = "none" =>
       /\ result' = "ok" => unit = "zero" \/ code.value = "killed"
       /\ result' = "CalledProcessError" =>
            unit # "zero" \/ machine # "up" \/ code.text]_vars

(* Every call comes back, unless it runs a unit that was never started, on *)
(* a machine that goes on without it (lines 274-294 of container.py).      *)
CallsReturn ==
  [](op # "none" => <>(op = "none") \/ <>[](pc = "show" /\ unit = "lost"))

-----------------------------------------------------------------------------
(* What the documentation says, and the code does not do.                  *)

(* "wait until machine is really destroyed, machine does not exist"        *)
(* (nspawn/image.py:319): past _wait_for_machine_finish there is none.     *)
FinishedMachineIsGone == pc = "reap" => machine = "absent"

=============================================================================
