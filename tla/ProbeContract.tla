--------------------------- MODULE ProbeContract ---------------------------
(***************************************************************************)
(* What a Probe promises of one execution of _run, without its processes   *)
(* and queues: attempts follow each other one at a time, a next attempt is *)
(* only made after the previous one answered something unexpected, and the *)
(* execution ends with the answer of its latest attempt or with the reason *)
(* for giving up.                                                          *)
(***************************************************************************)
EXTENDS Integers

VARIABLES
  limit,    \* count: the attempts the caller allows, -1 for any number
  phase,    \* "idle" or "trying"
  attempt,  \* the number of the latest attempt
  answer,   \* what the latest attempt answered: "none" while it has not
  late,     \* more time has passed than the caller allows
  ending   \* how the latest execution ended

contractVars == <<limit, phase, attempt, answer, late, ending>>

Endings == {"success", "Exception", "Unreadable", "RuntimeError",
            "CountExceeded", "ProbeTimeout", "terminated"}

ContractInit ==
  /\ limit \in Nat \cup {-1}
  /\ phase = "idle" /\ attempt = 0 /\ answer = "none"
  /\ late = FALSE /\ ending = "none"

(* The caller asks for an execution; the latest ending is forgotten.       *)
Ask ==
  /\ phase = "idle"
  /\ ending' = "none" /\ attempt' = 0 /\ late' = FALSE
  /\ UNCHANGED <<limit, phase, answer>>

Begin ==
  /\ phase = "idle" /\ ending = "none" /\ attempt = 0
  /\ phase' = "trying" /\ attempt' = 1 /\ answer' = "none"
  /\ UNCHANGED <<limit, late, ending>>

Answer ==
  /\ phase = "trying" /\ answer \in {"none", "gone"}
  /\ answer' \in {"hit", "miss", "error", "gone"}
  /\ UNCHANGED <<limit, phase, attempt, late, ending>>

(* One attempt more than allowed is begun, and given up: see               *)
(* Probe!TriesBounded.  Attempts that nothing limits are not told      *)
(* apart beyond some number.                                               *)
Again ==
  /\ phase = "trying" /\ answer = "miss"
  /\ attempt <= limit \/ limit = -1
  /\ answer' = "none"
  /\ \/ attempt' = attempt + 1
     \/ limit = -1 /\ attempt' = attempt
  /\ UNCHANGED <<limit, phase, late, ending>>

Expire == phase = "trying" /\ late' = TRUE
          /\ UNCHANGED <<limit, phase, attempt, answer, ending>>

(* The reason an execution may give for its end.                           *)
Reason(v) ==
  CASE v = "success"       -> answer = "hit"
    [] v = "Exception"     -> answer = "error"
    [] v = "Unreadable"    -> answer = "error"
    [] v = "RuntimeError"  -> answer = "gone"
    [] v = "CountExceeded" -> limit # -1 /\ attempt = limit + 1
    [] v = "ProbeTimeout"  -> late /\ (limit = -1 \/ attempt <= limit)
    [] v = "terminated"    -> TRUE

End ==
  /\ phase = "trying"
  /\ \E v \in Endings : Reason(v) /\ ending' = v
  /\ phase' = "idle" /\ answer' = "none"
  /\ UNCHANGED <<limit, attempt, late>>

(* Terminated before its first attempt.                                    *)
Abandon ==
  /\ phase = "idle" /\ ending = "none" /\ attempt = 0
  /\ ending' = "terminated"
  /\ UNCHANGED <<limit, phase, attempt, answer, late>>

ContractNext == Ask \/ Begin \/ Answer \/ Again \/ Expire \/ End \/ Abandon

Contract == ContractInit /\ [][ContractNext]_contractVars

=============================================================================
