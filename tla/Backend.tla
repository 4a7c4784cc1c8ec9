------------------------------ MODULE Backend ------------------------------
(***************************************************************************)
(* conu/apidefs/backend.py: backends used as context managers in one       *)
(* Python process.  All of them share one temporary directory, kept in a   *)
(* module variable; every __exit__ carries out the cleanup policy of its   *)
(* backend, one cleanup method after the other, and any of these may be    *)
(* missing in the backend's class or may fail.                             *)
(***************************************************************************)
EXTENDS Integers, Sequences, FiniteSets, SequencesExt

CONSTANTS
  Backends,   \* backend instances
  Dirs,       \* names mkdtemp may come up with
  NoDir,      \* Python's None
  Cleanups,   \* the cleanup lists passed to the constructors, as sets
  Support,    \* what each instance's cleanup_<kind> does with its kind:
              \* "removes" (and raises where it cannot), "tries" (and goes
              \* on past what it cannot remove), "nothing" (a stub) or
              \* "raises" (not implemented)
  MaxDepth,   \* bound: how many with-blocks are open inside each other
  Explicit,   \* TRUE if _clean may also be called as the last thing inside
              \* the with-block, the way the fixtures of conu/fixtures do
  MayFail     \* TRUE if the container engine may refuse a removal

Kinds == {"containers", "volumes", "images"}
Policies == {"NOTHING", "EVERYTHING", "CONTAINERS", "VOLUMES", "IMAGES",
             "TMP_DIRS"}
Steps == Kinds \cup {"tmp"}

ASSUME BackendAssumption ==
  /\ NoDir \notin Dirs
  /\ Cleanups \subseteq SUBSET Policies
  /\ Support \in
       [Backends -> [Kinds -> {"removes", "tries", "nothing", "raises"}]]
  /\ MaxDepth \in Nat
  /\ Explicit \in BOOLEAN
  /\ MayFail \in BOOLEAN

VARIABLES
  policy,     \* self.cleanup, {} before the constructor has run
  phase,      \* where an instance is in its life
  tmpdir,     \* self.tmpdir
  shared,     \* the module's _backend_tmpdir
  disk,       \* each directory: "unused", "there", "gone", or "stuck" when
              \* rmtree was not allowed to remove it
  open,       \* the with-blocks that are open, innermost last
  todo,       \* the cleanup steps that the running _clean has before it
  inner,      \* the running _clean was called inside the with-block
  artifacts,  \* kinds of things conu has made and not removed
  missed,     \* history: kinds whose removal failed in the running _clean
              \* without an exception
  nested      \* history: a with-block has been opened inside another

vars == <<policy, phase, tmpdir, shared, disk, open, todo, inner, artifacts,
          missed, nested>>

TypeOK ==
  /\ policy \in [Backends -> SUBSET Policies]
  /\ phase \in [Backends -> {"new", "made", "open", "cleaning", "closed",
                             "raised"}]
  /\ tmpdir \in [Backends -> Dirs \cup {NoDir}]
  /\ shared \in Dirs \cup {NoDir}
  /\ disk \in [Dirs -> {"unused", "there", "gone", "stuck"}]
  /\ open \in Seq(Backends)
  /\ todo \in Seq(Steps)
  /\ inner \in BOOLEAN
  /\ artifacts \subseteq Kinds
  /\ missed \subseteq Kinds
  /\ nested \in BOOLEAN

Init ==
  /\ policy = [b \in Backends |-> {}]
  /\ phase = [b \in Backends |-> "new"]
  /\ tmpdir = [b \in Backends |-> NoDir]
  /\ shared = NoDir
  /\ disk = [d \in Dirs |-> "unused"]
  /\ open = <<>>
  /\ todo = <<>>
  /\ inner = FALSE
  /\ artifacts = {}
  /\ missed = {}
  /\ nested = FALSE

-----------------------------------------------------------------------------

Idle == \A b \in Backends : phase[b] # "cleaning"
Innermost(b) == open # <<>> /\ Last(open) = b

(* Backend.__init__: no policy means [NOTHING]; NOTHING goes with nothing. *)
Construct(b, cleanup) ==
  LET wanted == IF cleanup = {} THEN {"NOTHING"} ELSE cleanup
  IN  /\ Idle /\ phase[b] = "new"
      /\ "NOTHING" \in wanted => wanted = {"NOTHING"}
      /\ policy' = [policy EXCEPT ![b] = wanted]
      /\ phase' = [phase EXCEPT ![b] = "made"]
      /\ UNCHANGED <<tmpdir, shared, disk, open, todo, inner, artifacts,
                     missed, nested>>

(* get_backend_tmpdir: the shared directory, made by mkdtemp when there is *)
(* none.                                                                   *)
GetTmpdir(d) ==
  IF shared = NoDir
    THEN /\ d \in Dirs /\ disk[d] = "unused"
         /\ disk' = [disk EXCEPT ![d] = "there"]
         /\ shared' = d
    ELSE d = shared /\ UNCHANGED <<disk, shared>>

Enter(b) ==
  /\ Idle /\ phase[b] \in {"made", "closed"} /\ Len(open) < MaxDepth
  /\ \E d \in Dirs : GetTmpdir(d) /\ tmpdir' = [tmpdir EXCEPT ![b] = d]
  /\ phase' = [phase EXCEPT ![b] = "open"]
  /\ open' = Append(open, b)
  /\ nested' = (nested \/ open # <<>>)
  /\ UNCHANGED <<policy, todo, inner, artifacts, missed>>

(* Containers, volumes and images are made, inside a with-block or not.    *)
(* Running a container asks for the temporary directory                    *)
(* (DockerImage._run_container).                                           *)
Use(kind) ==
  /\ Idle /\ \E b \in Backends : phase[b] # "new"
  /\ artifacts' = artifacts \cup {kind}
  /\ IF kind = "containers"
       THEN \E d \in Dirs : GetTmpdir(d)
       ELSE UNCHANGED <<disk, shared>>
  /\ UNCHANGED <<policy, phase, tmpdir, open, todo, inner, missed, nested>>

-----------------------------------------------------------------------------

(* The policies that ask for each step of _clean.                          *)
Wants(b, step) ==
  \/ "EVERYTHING" \in policy[b]
  \/ step = "containers" /\ "CONTAINERS" \in policy[b]
  \/ step = "volumes" /\ "VOLUMES" \in policy[b]
  \/ step = "images" /\ "IMAGES" \in policy[b]
  \/ step = "tmp" /\ "TMP_DIRS" \in policy[b]

Plan(b) ==
  LET If(step) == IF Wants(b, step) THEN <<step>> ELSE <<>>
  IN  If("containers") \o If("volumes") \o If("images") \o If("tmp")

(* _clean is called: nothing of it is done and nothing was missed yet.     *)
Begin(b) == todo' = Plan(b) /\ missed' = {}

StartClean(b, inside) ==
  /\ Idle /\ Innermost(b) /\ phase[b] = "open"
  /\ inside => Explicit
  /\ phase' = [phase EXCEPT ![b] = "cleaning"]
  /\ Begin(b)
  /\ inner' = inside
  /\ UNCHANGED <<policy, tmpdir, shared, disk, open, artifacts, nested>>

(* Faulty variant: _clean swallows every exception of a step and goes on.  *)
CleanRaisesSwallow(b) ==
  /\ todo' = Tail(todo)
  /\ UNCHANGED <<phase, open, inner, missed>>

(* An exception in cleanup_<kind> ends _clean.  From __exit__ it leaves    *)
(* the with-block; from inside the block it leads to __exit__, as the end  *)
(* of the block does, and to a _clean of its own.                          *)
CleanRaises(b) ==
  /\ inner' = FALSE
  /\ IF inner
       THEN Begin(b) /\ UNCHANGED <<phase, open>>
       ELSE /\ todo' = <<>>
            /\ phase' = [phase EXCEPT ![b] = "raised"]
            /\ open' = Front(open)
            /\ UNCHANGED missed

CleanKind(b) ==
  /\ phase[b] = "cleaning" /\ todo # <<>> /\ Head(todo) \in Kinds
  /\ Support[b][Head(todo)] # "raises"
  /\ artifacts' = IF Support[b][Head(todo)] = "nothing"
                    THEN artifacts ELSE artifacts \ {Head(todo)}
  /\ todo' = Tail(todo)
  /\ UNCHANGED <<policy, phase, tmpdir, shared, disk, open, inner, missed,
                 nested>>

(* A step raises: it is not implemented, its listing fails, or a removal   *)
(* of its fails that nobody catches.                                       *)
CleanKindFails(b) ==
  /\ phase[b] = "cleaning" /\ todo # <<>> /\ Head(todo) \in Kinds
  /\ \/ Support[b][Head(todo)] = "raises"
     \/ MayFail /\ Support[b][Head(todo)] \in {"removes", "tries"}
  /\ CleanRaises(b)
  /\ UNCHANGED <<policy, tmpdir, shared, disk, artifacts, nested>>

(* The removal of a container fails and the step goes on to the next one:  *)
(* the exception is caught and logged, or there is none, because run_cmd   *)
(* takes a machinectl killed by a signal, listing or terminating, for one  *)
(* that succeeded.                                                         *)
CleanKindMisses(b) ==
  /\ phase[b] = "cleaning" /\ todo # <<>> /\ Head(todo) \in artifacts
  /\ MayFail /\ Support[b][Head(todo)] = "tries"
  /\ missed' = missed \cup {Head(todo)}
  /\ todo' = Tail(todo)
  /\ UNCHANGED <<policy, phase, tmpdir, shared, disk, open, inner, artifacts,
                 nested>>

(* Faulty variant: the module keeps the name of the removed directory.     *)
CleanTmpDirsKeepName(b) ==
  /\ phase[b] = "cleaning" /\ todo # <<>> /\ Head(todo) = "tmp"
  /\ disk' = [d \in Dirs |-> IF d = tmpdir[b] /\ disk[d] = "there"
                               THEN "gone" ELSE disk[d]]
  /\ tmpdir' = [tmpdir EXCEPT ![b] = NoDir]
  /\ todo' = Tail(todo)
  /\ UNCHANGED <<policy, phase, shared, open, inner, artifacts, missed,
                 nested>>

(* Faulty variant: the shared directory is forgotten and not removed.      *)
CleanTmpDirsForget(b) ==
  /\ phase[b] = "cleaning" /\ todo # <<>> /\ Head(todo) = "tmp"
  /\ tmpdir' = [tmpdir EXCEPT ![b] = NoDir]
  /\ shared' = NoDir
  /\ todo' = Tail(todo)
  /\ UNCHANGED <<policy, phase, disk, open, inner, artifacts, missed, nested>>

(* rmtree: what cannot be removed is logged and stays; a directory that is *)
(* gone, or None, is logged too.                                           *)
CleanTmpDirs(b) ==
  /\ phase[b] = "cleaning" /\ todo # <<>> /\ Head(todo) = "tmp"
  /\ \E outcome \in {"gone"} \cup (IF MayFail THEN {"stuck"} ELSE {}) :
       disk' = [d \in Dirs |-> IF d = tmpdir[b] /\ disk[d] = "there"
                                 THEN outcome ELSE disk[d]]
  /\ tmpdir' = [tmpdir EXCEPT ![b] = NoDir]
  /\ shared' = NoDir
  /\ todo' = Tail(todo)
  /\ UNCHANGED <<policy, phase, open, inner, artifacts, missed, nested>>

CleanDone(b) ==
  /\ phase[b] = "cleaning" /\ todo = <<>>
  /\ IF inner
       THEN Begin(b) /\ UNCHANGED <<phase, open>>
       ELSE /\ phase' = [phase EXCEPT ![b] = "closed"]
            /\ open' = Front(open)
            /\ UNCHANGED <<todo, missed>>
  /\ inner' = FALSE
  /\ UNCHANGED <<policy, tmpdir, shared, disk, artifacts, nested>>

Next ==
  \/ \E b \in Backends, cleanup \in Cleanups : Construct(b, cleanup)
  \/ \E b \in Backends : Enter(b)
  \/ \E kind \in Kinds : Use(kind)
  \/ \E b \in Backends, inside \in BOOLEAN : StartClean(b, inside)
  \/ \E b \in Backends :
       \/ CleanKind(b) \/ CleanKindFails(b) \/ CleanKindMisses(b)
       \/ CleanTmpDirs(b) \/ CleanDone(b)

Spec == Init /\ [][Next]_vars

-----------------------------------------------------------------------------
(* Properties.                                                             *)

(* get_backend_tmpdir never hands out a directory that is not there, so    *)
(* whatever backends come and go, docker can write its cid file            *)
(* (lines 32-35, 148-151).                                                 *)
SharedDirExists == shared # NoDir => disk[shared] = "there"

(* A backend that leaves its with-block without an exception leaves        *)
(* nothing of what its policy names and its class can remove: a step that  *)
(* was skipped or that raised did not pass unnoticed.  Only a step that    *)
(* goes on past a removal that failed, nspawn's for containers, may leave  *)
(* something, and then it failed in this very _clean, not in an earlier    *)
(* one (lines 177-203; nspawn/backend.py:66-79).                           *)
NormalExitIsClean ==
  [][\A b \in Backends :
       phase[b] = "cleaning" /\ phase'[b] = "closed" =>
         /\ \A k \in Kinds \cap artifacts' :
              Wants(b, k) /\ Support[b][k] \in {"removes", "tries"} =>
                Support[b][k] = "tries" /\ k \in missed
         /\ Wants(b, "tmp") => tmpdir'[b] = NoDir /\ shared' = NoDir]_vars

(* "When entering the context manager, the backend will create a new       *)
(* temporary directory.  You can use it if you want, the path is stored in *)
(* attribute tmpdir of the backend instance" (apidefs/backend.py:84).  The *)
(* code does not keep this for blocks opened inside each other: the inner  *)
(* one is given the directory of the outer one, and removes it.            *)
OpenTmpdirExists ==
  \A b \in Backends :
    phase[b] = "open" /\ tmpdir[b] # NoDir => disk[tmpdir[b]] = "there"

(* As long as no block is opened inside another, it holds, and no          *)
(* temporary directory is forgotten: each one on disk is the shared one or *)
(* the tmpdir of some instance, and can still be cleaned (lines 26-35,     *)
(* 137-151, 198-203).                                                      *)
Known(d) == d = shared \/ \E b \in Backends : tmpdir[b] = d

UnnestedTmpdirsAreKept ==
  ~nested => /\ OpenTmpdirExists
             /\ \A d \in Dirs : disk[d] = "there" => Known(d)

=============================================================================
