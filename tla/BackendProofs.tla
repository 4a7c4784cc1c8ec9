--------------------------- MODULE BackendProofs ----------------------------
(***************************************************************************)
(* Proofs about Backend, for every set of backends and policies: its       *)
(* types, and what holds of the shared temporary directory.                *)
(***************************************************************************)
EXTENDS Backend, TLAPS

(* What the steps do to a sequence of elements of S keeps it one.          *)
LEMMA SeqMoves ==
  ASSUME NEW S, NEW s \in Seq(S)
  PROVE  /\ s # <<>> => Head(s) \in S /\ Tail(s) \in Seq(S)
         /\ Front(s) \in Seq(S)
         /\ \A e \in S : Append(s, e) \in Seq(S)
         /\ <<>> \in Seq(S)
<1>1. Front(s) \in Seq(S)
  BY DEF Front
<1>2. s # <<>> => Head(s) \in S /\ Tail(s) \in Seq(S)
  OBVIOUS
<1>3. \A e \in S : Append(s, e) \in Seq(S)
  OBVIOUS
<1> QED
  BY <1>1, <1>2, <1>3

(* A plan consists of steps.                                               *)
LEMMA PlanType == \A b : Plan(b) \in Seq(Steps)
<1> SUFFICES ASSUME NEW b PROVE Plan(b) \in Seq(Steps)
  OBVIOUS
<1> DEFINE If(step) == IF Wants(b, step) THEN <<step>> ELSE <<>>
<1>1. /\ If("containers") \in Seq(Steps) /\ If("volumes") \in Seq(Steps)
      /\ If("images") \in Seq(Steps) /\ If("tmp") \in Seq(Steps)
  <2>1. \A step \in Steps : If(step) \in Seq(Steps)
    OBVIOUS
  <2> QED
    BY <2>1 DEF Steps, Kinds
<1>2. \A s, t \in Seq(Steps) : s \o t \in Seq(Steps)
  OBVIOUS
<1>3. Plan(b) = If("containers") \o If("volumes") \o If("images") \o If("tmp")
  BY DEF Plan
<1> HIDE DEF If
<1> QED
  BY <1>1, <1>2, <1>3

-----------------------------------------------------------------------------
(* Types.                                                                  *)

LEMMA InitTypes == Init => TypeOK
<1> SUFFICES ASSUME Init PROVE TypeOK
  OBVIOUS
<1>1. /\ policy \in [Backends -> SUBSET Policies]
      /\ tmpdir \in [Backends -> Dirs \cup {NoDir}]
      /\ shared \in Dirs \cup {NoDir}
      /\ disk \in [Dirs -> {"unused", "there", "gone", "stuck"}]
      /\ artifacts \subseteq Kinds /\ missed \subseteq Kinds
  BY DEF Init
<1>2. phase \in [Backends -> {"new", "made", "open", "cleaning", "closed", "raised"}]
  BY DEF Init
<1>3. open \in Seq(Backends) /\ todo \in Seq(Steps)
  BY DEF Init
<1>4. inner \in BOOLEAN /\ nested \in BOOLEAN
  BY DEF Init
<1> QED
  BY <1>1, <1>2, <1>3, <1>4 DEF TypeOK

LEMMA GetTmpdirTypes ==
  ASSUME TypeOK, NEW d \in Dirs, GetTmpdir(d)
  PROVE  /\ shared' \in Dirs \cup {NoDir}
         /\ disk' \in [Dirs -> {"unused", "there", "gone", "stuck"}]
  BY DEF TypeOK, GetTmpdir

LEMMA StepTypes == TypeOK /\ [Next]_vars => TypeOK'
<1> SUFFICES ASSUME TypeOK, [Next]_vars PROVE TypeOK'
  OBVIOUS
<1> USE DEF TypeOK
<1>1. ASSUME NEW b \in Backends, NEW cleanup \in Cleanups,
             Construct(b, cleanup)
      PROVE  TypeOK'
  <2>1. cleanup \subseteq Policies /\ {"NOTHING"} \subseteq Policies
    BY BackendAssumption DEF Policies
  <2> QED
    BY <1>1, <2>1 DEF Construct
<1>2. ASSUME NEW b \in Backends, Enter(b) PROVE TypeOK'
  <2>1. PICK d \in Dirs : GetTmpdir(d) /\ tmpdir' = [tmpdir EXCEPT ![b] = d]
    BY <1>2 DEF Enter
  <2>2. open' \in Seq(Backends)
    BY <1>2, SeqMoves DEF Enter
  <2>3. nested' \in BOOLEAN
    BY <1>2 DEF Enter
  <2> QED
    BY <1>2, <2>1, <2>2, <2>3, GetTmpdirTypes DEF Enter
<1>3. ASSUME NEW kind \in Kinds, Use(kind) PROVE TypeOK'
  <2>1. /\ shared' \in Dirs \cup {NoDir}
        /\ disk' \in [Dirs -> {"unused", "there", "gone", "stuck"}]
    BY <1>3, GetTmpdirTypes DEF Use
  <2> QED
    BY <1>3, <2>1 DEF Use
<1>4. ASSUME NEW b \in Backends, NEW inside \in BOOLEAN, StartClean(b, inside)
      PROVE  TypeOK'
  BY <1>4, PlanType DEF StartClean, Begin
<1>5. ASSUME NEW b \in Backends, CleanKind(b) PROVE TypeOK'
  <2>1. todo' \in Seq(Steps)
    BY <1>5, SeqMoves DEF CleanKind
  <2> QED
    BY <1>5, <2>1 DEF CleanKind
<1>6. ASSUME NEW b \in Backends, CleanKindFails(b) PROVE TypeOK'
  <2>1. todo' \in Seq(Steps) /\ open' \in Seq(Backends)
    <3>1. \/ todo' = Plan(b) \/ todo' = <<>> \/ todo' = todo
      BY <1>6 DEF CleanKindFails, CleanRaises, Begin
    <3>2. open' = open \/ open' = Front(open)
      BY <1>6 DEF CleanKindFails, CleanRaises
    <3>3. todo' \in Seq(Steps)
      BY <3>1, PlanType, SeqMoves
    <3>4. open' \in Seq(Backends)
      BY <3>2, SeqMoves
    <3> QED
      BY <3>3, <3>4
  <2> QED
    BY <1>6, <2>1 DEF CleanKindFails, CleanRaises, Begin
<1>7. ASSUME NEW b \in Backends, CleanKindMisses(b) PROVE TypeOK'
  <2>1. todo' \in Seq(Steps)
    BY <1>7, SeqMoves DEF CleanKindMisses
  <2>2. missed' \subseteq Kinds
    BY <1>7 DEF CleanKindMisses
  <2> QED
    BY <1>7, <2>1, <2>2 DEF CleanKindMisses
<1>8. ASSUME NEW b \in Backends, CleanTmpDirs(b) PROVE TypeOK'
  <2>1. todo' \in Seq(Steps)
    BY <1>8, SeqMoves DEF CleanTmpDirs
  <2>2. disk' \in [Dirs -> {"unused", "there", "gone", "stuck"}]
    BY <1>8 DEF CleanTmpDirs
  <2> QED
    BY <1>8, <2>1, <2>2 DEF CleanTmpDirs
<1>9. ASSUME NEW b \in Backends, CleanDone(b) PROVE TypeOK'
  <2>1. todo' \in Seq(Steps) /\ open' \in Seq(Backends)
    <3>1. \/ todo' = Plan(b) \/ todo' = <<>> \/ todo' = todo
      BY <1>9 DEF CleanDone, Begin
    <3>2. open' = open \/ open' = Front(open)
      BY <1>9 DEF CleanDone
    <3>3. todo' \in Seq(Steps)
      BY <3>1, PlanType, SeqMoves
    <3>4. open' \in Seq(Backends)
      BY <3>2, SeqMoves
    <3> QED
      BY <3>3, <3>4
  <2> QED
    BY <1>9, <2>1 DEF CleanDone, Begin
<1> QED
  BY <1>1, <1>2, <1>3, <1>4, <1>5, <1>6, <1>7, <1>8, <1>9 DEF Next, vars

(* Every variable is of its kind, in every reachable state.                *)
THEOREM TypeCorrect == Spec => []TypeOK
  BY InitTypes, StepTypes, PTL DEF Spec

-----------------------------------------------------------------------------
(* The shared directory.                                                   *)

LEMMA GetTmpdirShares ==
  ASSUME TypeOK, SharedDirExists, NEW d \in Dirs, GetTmpdir(d)
  PROVE  /\ shared' = d /\ disk'[d] = "there"
         /\ \A e \in Dirs : disk'[e] = "there" => disk[e] = "there" \/ e = d
         /\ shared # NoDir => UNCHANGED shared
  BY BackendAssumption DEF TypeOK, SharedDirExists, GetTmpdir

LEMMA StepShared == TypeOK /\ SharedDirExists /\ [Next]_vars => SharedDirExists'
<1> SUFFICES ASSUME TypeOK, SharedDirExists, [Next]_vars PROVE SharedDirExists'
  OBVIOUS
<1>1. ASSUME NEW b \in Backends, Enter(b) PROVE SharedDirExists'
  BY <1>1, GetTmpdirShares DEF Enter, SharedDirExists
<1>2. ASSUME NEW kind \in Kinds, Use(kind) PROVE SharedDirExists'
  BY <1>2, GetTmpdirShares DEF Use, SharedDirExists
<1>3. ASSUME NEW b \in Backends, CleanTmpDirs(b) PROVE SharedDirExists'
  BY <1>3 DEF CleanTmpDirs, SharedDirExists
<1>4. CASE UNCHANGED <<shared, disk>>
  BY <1>4 DEF SharedDirExists
<1>5. ASSUME NEW b \in Backends,
             CleanKind(b) \/ CleanKindFails(b) \/ CleanKindMisses(b)
               \/ CleanDone(b)
      PROVE  UNCHANGED <<shared, disk>>
  BY <1>5 DEF CleanKind, CleanKindFails, CleanKindMisses, CleanDone
<1>6. ASSUME NEW b \in Backends, NEW cleanup \in Cleanups,
             Construct(b, cleanup)
      PROVE  UNCHANGED <<shared, disk>>
  BY <1>6 DEF Construct
<1>7. ASSUME NEW b \in Backends, NEW inside \in BOOLEAN, StartClean(b, inside)
      PROVE  UNCHANGED <<shared, disk>>
  BY <1>7 DEF StartClean
<1> QED
  BY <1>1, <1>2, <1>3, <1>4, <1>5, <1>6, <1>7 DEF Next, vars

(* Whoever asks for the shared directory finds it on disk, however many    *)
(* backends have cleaned it away before (get_backend_tmpdir).              *)
THEOREM SharedDirectory == Spec => []SharedDirExists
<1>1. Init => SharedDirExists
  BY DEF Init, SharedDirExists
<1> QED
  BY <1>1, StepShared, TypeCorrect, PTL DEF Spec

-----------------------------------------------------------------------------
(* Blocks that are not opened inside each other.  Why no directory is lost *)
(* then: at most one backend is open or cleans up, its tmpdir is the       *)
(* shared directory as long as both are set, and nothing else is on disk.  *)

Inside(b) == phase[b] \in {"open", "cleaning"}

OneBlock ==
  /\ \A b \in Backends : Inside(b) => open = <<b>> /\ tmpdir[b] = shared
  /\ \A b \in Backends : phase[b] = "open" => shared # NoDir
  /\ \A d \in Dirs : disk[d] = "there" => d = shared

Unnested == ~nested => OneBlock

LEMMA StepUnnested ==
  TypeOK /\ SharedDirExists /\ Unnested /\ [Next]_vars => Unnested'
<1> SUFFICES ASSUME TypeOK, SharedDirExists, Unnested, [Next]_vars, ~nested'
             PROVE  OneBlock'
  BY DEF Unnested
<1> USE DEF TypeOK, Inside, OneBlock
<1>0. \A b : Front(<<b>>) = <<>>
  BY DEF Front
<1>1. ASSUME NEW b \in Backends, NEW cleanup \in Cleanups,
             Construct(b, cleanup)
      PROVE  OneBlock'
  BY <1>1 DEF Construct, Unnested
<1>2. ASSUME NEW b \in Backends, Enter(b) PROVE OneBlock'
  <2>1. ~nested /\ open = <<>> /\ OneBlock
    BY <1>2 DEF Enter, Unnested
  <2>2. PICK d \in Dirs : GetTmpdir(d) /\ tmpdir' = [tmpdir EXCEPT ![b] = d]
    BY <1>2 DEF Enter
  <2>3. /\ shared' = d /\ d # NoDir
        /\ \A e \in Dirs : disk'[e] = "there" => disk[e] = "there" \/ e = d
        /\ shared # NoDir => shared' = shared
    BY <2>2, GetTmpdirShares, BackendAssumption
  <2>4. \A c \in Backends : ~Inside(c)
    BY <2>1
  <2>5. open' = <<b>> /\ phase' = [phase EXCEPT ![b] = "open"]
    BY <1>2, <2>1 DEF Enter
  <2>6. \A e \in Dirs : disk'[e] = "there" => e = shared'
    BY <2>1, <2>3, BackendAssumption
  <2> QED
    BY <2>2, <2>3, <2>4, <2>5, <2>6
<1>3. ASSUME NEW kind \in Kinds, Use(kind) PROVE OneBlock'
  <2>1. ~nested /\ OneBlock /\ UNCHANGED <<phase, tmpdir, open>>
    BY <1>3 DEF Use, Unnested
  <2>2. CASE UNCHANGED <<disk, shared>>
    BY <2>1, <2>2
  <2>3. ASSUME NEW d \in Dirs, GetTmpdir(d), shared = NoDir PROVE OneBlock'
    <3>1. \A c \in Backends : ~Inside(c)
      BY <1>3, <2>1, <2>3 DEF Use, Idle
    <3> QED
      BY <2>1, <2>3, <3>1, GetTmpdirShares, BackendAssumption
  <2> QED
    BY <1>3, <2>2, <2>3 DEF Use, GetTmpdir
<1>4. ASSUME NEW b \in Backends, NEW inside \in BOOLEAN, StartClean(b, inside)
      PROVE  OneBlock'
  BY <1>4 DEF StartClean, Unnested
<1>5. ASSUME NEW b \in Backends, CleanKind(b) \/ CleanKindMisses(b)
      PROVE  OneBlock'
  BY <1>5 DEF CleanKind, CleanKindMisses, Unnested
<1>6. ASSUME NEW b \in Backends, phase[b] = "cleaning", ~nested, OneBlock,
             UNCHANGED <<tmpdir, shared, disk>>,
             \/ UNCHANGED <<phase, open>>
             \/ /\ open' = Front(open)
                /\ \/ phase' = [phase EXCEPT ![b] = "raised"]
                   \/ phase' = [phase EXCEPT ![b] = "closed"]
      PROVE  OneBlock'
  <2>1. open = <<b>>
    BY <1>6
  <2>2. \A c \in Backends : Inside(c) => c = b
    BY <1>6, <2>1
  <2>3. CASE UNCHANGED <<phase, open>>
    BY <1>6, <2>3
  <2>4. CASE ~UNCHANGED <<phase, open>>
    <3>1. \A c \in Backends : phase'[c] \notin {"open", "cleaning"}
      BY <1>6, <2>2, <2>4
    <3> QED
      BY <1>6, <3>1
  <2> QED
    BY <2>3, <2>4
<1>7. ASSUME NEW b \in Backends, CleanKindFails(b) PROVE OneBlock'
  BY <1>6, <1>7 DEF CleanKindFails, CleanRaises, Unnested
<1>8. ASSUME NEW b \in Backends, CleanTmpDirs(b) PROVE OneBlock'
  <2>1. ~nested /\ OneBlock /\ UNCHANGED <<phase, open>>
    BY <1>8 DEF CleanTmpDirs, Unnested
  <2>2. open = <<b>> /\ tmpdir[b] = shared
    BY <1>8, <2>1 DEF CleanTmpDirs
  <2>3. /\ tmpdir' = [tmpdir EXCEPT ![b] = NoDir] /\ shared' = NoDir
        /\ \A c \in Backends : Inside(c) => c = b
    BY <1>8, <2>1, <2>2 DEF CleanTmpDirs
  <2>4. \A d \in Dirs : disk'[d] # "there"
    BY <1>8, <2>1, <2>2 DEF CleanTmpDirs
  <2>5. \A c \in Backends : phase[c] # "open"
    BY <1>8, <2>3 DEF CleanTmpDirs
  <2> QED
    BY <2>1, <2>2, <2>3, <2>4, <2>5
<1>9. ASSUME NEW b \in Backends, CleanDone(b) PROVE OneBlock'
  BY <1>6, <1>9 DEF CleanDone, Unnested
<1>10. CASE UNCHANGED vars
  BY <1>10 DEF vars, Unnested
<1> QED
  BY <1>1, <1>2, <1>3, <1>4, <1>5, <1>7, <1>8, <1>9, <1>10 DEF Next

(* Backends used one after the other never lose a temporary directory: an  *)
(* open one finds its own on disk, and every one on disk is still known.   *)
THEOREM UnnestedDirectories == Spec => []UnnestedTmpdirsAreKept
<1>1. Init => Unnested
  BY DEF Init, Unnested, OneBlock, Inside
<1>2. TypeOK /\ SharedDirExists /\ Unnested => UnnestedTmpdirsAreKept
  BY DEF TypeOK, SharedDirExists, Unnested, OneBlock, Inside,
         UnnestedTmpdirsAreKept, OpenTmpdirExists, Known
<1> QED
  BY <1>1, <1>2, StepUnnested, SharedDirectory, TypeCorrect, PTL DEF Spec

-----------------------------------------------------------------------------
(* What a normal exit has cleaned.  Nobody uses or makes anything while a  *)
(* backend cleans up, so what its policy asks for and is still there is    *)
(* among the steps that _clean has before it.                              *)

In(e, s) == \E i \in 1..Len(s) : s[i] = e

LEMMA InConcatenation ==
  ASSUME NEW S, NEW s \in Seq(S), NEW t \in Seq(S), NEW e, In(e, s) \/ In(e, t)
  PROVE  In(e, s \o t)
<1>1. CASE In(e, s)
  BY <1>1 DEF In
<1>2. CASE In(e, t)
  <2>1. PICK i \in 1..Len(t) : t[i] = e
    BY <1>2 DEF In
  <2>2. Len(s) + i \in 1..Len(s \o t) /\ (s \o t)[Len(s) + i] = e
    BY <2>1
  <2> QED
    BY <2>2 DEF In
<1> QED
  BY <1>1, <1>2

LEMMA InTail ==
  ASSUME NEW S, NEW s \in Seq(S), s # <<>>, NEW e, In(e, s), e # Head(s)
  PROVE  In(e, Tail(s))
<1>1. PICK i \in 1..Len(s) : s[i] = e
  BY DEF In
<1>2. i # 1
  BY <1>1
<1>3. i - 1 \in 1..Len(Tail(s)) /\ Tail(s)[i - 1] = e
  BY <1>1, <1>2
<1> QED
  BY <1>3 DEF In

(* Every step that the policy asks for is in the plan.                     *)
LEMMA PlanIsComplete ==
  ASSUME NEW b, NEW step \in Steps, Wants(b, step)
  PROVE  In(step, Plan(b))
<1> DEFINE If(s) == IF Wants(b, s) THEN <<s>> ELSE <<>>
<1>1. \A s \in Steps : If(s) \in Seq(Steps)
  OBVIOUS
<1>2. In(step, If(step))
  BY DEF In
<1>3. Plan(b) = If("containers") \o If("volumes") \o If("images") \o If("tmp")
  BY DEF Plan
<1>4. /\ If("containers") \in Seq(Steps) /\ If("volumes") \in Seq(Steps)
      /\ If("images") \in Seq(Steps) /\ If("tmp") \in Seq(Steps)
  BY <1>1 DEF Steps, Kinds
<1>5. step \in {"containers", "volumes", "images", "tmp"}
  BY DEF Steps, Kinds
<1> HIDE DEF If
<1> DEFINE one == If("containers") \o If("volumes")
           two == one \o If("images")
<1>6. one \in Seq(Steps) /\ two \in Seq(Steps)
  BY <1>4
<1>7. CASE step = "containers" \/ step = "volumes"
  <2>1. In(step, one)
    BY <1>2, <1>4, <1>7, InConcatenation
  <2> HIDE DEF one
  <2>2. In(step, two)
    BY <1>4, <1>6, <2>1, InConcatenation
  <2> HIDE DEF two
  <2> QED
    BY <1>4, <1>6, <2>2, InConcatenation, <1>3 DEF one, two
<1>8. CASE step = "images"
  <2>1. In(step, two)
    BY <1>2, <1>4, <1>6, <1>8, InConcatenation
  <2> QED
    BY <1>3, <1>4, <1>6, <2>1, InConcatenation
<1>9. CASE step = "tmp"
  BY <1>2, <1>3, <1>4, <1>6, <1>9, InConcatenation
<1> QED
  BY <1>5, <1>7, <1>8, <1>9

(* The step for k went on past a removal that failed.                      *)
Missed(b, k) == Support[b][k] = "tries" /\ k \in missed

Remains(b, k) ==
  /\ Wants(b, k) /\ Support[b][k] \in {"removes", "tries"}
  /\ k \in artifacts /\ ~Missed(b, k)
TmpRemains(b) == Wants(b, "tmp") /\ (tmpdir[b] # NoDir \/ shared # NoDir)

CleanInv ==
  /\ \A b, c \in Backends :
       phase[b] = "cleaning" /\ phase[c] = "cleaning" => b = c
  /\ \A b \in Backends : phase[b] = "cleaning" =>
       /\ \A k \in Kinds : Remains(b, k) => In(k, todo)
       /\ TmpRemains(b) => In("tmp", todo)

LEMMA StepCleanInv == TypeOK /\ CleanInv /\ [Next]_vars => CleanInv'
<1> SUFFICES ASSUME TypeOK, CleanInv, [Next]_vars PROVE CleanInv'
  OBVIOUS
<1>1. CASE Idle /\ \A b \in Backends : phase'[b] # "cleaning"
  BY <1>1 DEF CleanInv
<1>2. ASSUME NEW b \in Backends, NEW inside \in BOOLEAN, StartClean(b, inside)
      PROVE  CleanInv'
  <2>1. /\ todo' = Plan(b) /\ UNCHANGED <<policy, artifacts, tmpdir, shared>>
        /\ \A c \in Backends : phase'[c] = "cleaning" <=> c = b
    BY <1>2 DEF StartClean, Begin, Idle, TypeOK
  <2>2. \A k \in Steps : Wants(b, k)' => In(k, todo')
    BY <2>1, PlanIsComplete DEF Wants
  <2> QED
    BY <2>1, <2>2 DEF CleanInv, Remains, TmpRemains, Steps
<1>3. ASSUME NEW b \in Backends, CleanKind(b) PROVE CleanInv'
  <2>1. /\ phase[b] = "cleaning" /\ todo # <<>> /\ todo' = Tail(todo)
        /\ UNCHANGED <<policy, phase, tmpdir, shared, missed>>
        /\ Head(todo) \in Kinds
    BY <1>3 DEF CleanKind
  <2>2. ASSUME NEW k \in Kinds, Remains(b, k)' PROVE In(k, todo')
    <3>1. Remains(b, k) /\ k # Head(todo)
      BY <1>3, <2>2 DEF CleanKind, Remains, Missed, Wants
    <3>2. In(k, todo)
      BY <2>1, <3>1 DEF CleanInv
    <3> QED
      BY <2>1, <3>1, <3>2, InTail DEF TypeOK
  <2>3. TmpRemains(b)' => In("tmp", todo')
    <3>1. TmpRemains(b)' => TmpRemains(b)
      BY <2>1 DEF TmpRemains, Wants
    <3>2. Head(todo) # "tmp"
      BY <2>1 DEF Kinds
    <3> QED
      BY <2>1, <3>1, <3>2, InTail DEF TypeOK, CleanInv
  <2> QED
    BY <2>1, <2>2, <2>3 DEF CleanInv
<1>4. ASSUME NEW b \in Backends, CleanTmpDirs(b) PROVE CleanInv'
  <2>1. /\ phase[b] = "cleaning" /\ todo # <<>> /\ todo' = Tail(todo)
        /\ UNCHANGED <<policy, phase, artifacts, missed>>
        /\ Head(todo) = "tmp"
        /\ tmpdir'[b] = NoDir /\ shared' = NoDir
    BY <1>4 DEF CleanTmpDirs, TypeOK
  <2>2. ASSUME NEW k \in Kinds, Remains(b, k)' PROVE In(k, todo')
    <3>1. Remains(b, k) /\ k # Head(todo)
      BY <2>1, <2>2 DEF Remains, Missed, Wants, Kinds
    <3> QED
      BY <2>1, <3>1, InTail DEF TypeOK, CleanInv
  <2>3. ~TmpRemains(b)'
    BY <2>1 DEF TmpRemains
  <2> QED
    BY <2>1, <2>2, <2>3 DEF CleanInv
(* _clean is over, or has failed; one called inside the block is followed  *)
(* by that of __exit__.                                                    *)
<1>5. ASSUME NEW b \in Backends, phase[b] = "cleaning",
             UNCHANGED <<policy, artifacts, tmpdir, shared>>,
             \/ Begin(b) /\ UNCHANGED phase
             \/ \E p \in {"closed", "raised"} : phase' = [phase EXCEPT ![b] = p]
      PROVE  CleanInv'
  <2>1. \A c \in Backends : phase[c] = "cleaning" => c = b
    BY <1>5 DEF CleanInv
  <2>2. CASE Begin(b) /\ UNCHANGED phase
    <3>1. \A k \in Steps : Wants(b, k)' => In(k, todo')
      BY <1>5, <2>2, PlanIsComplete DEF Wants, Begin
    <3> QED
      BY <2>1, <2>2, <3>1 DEF CleanInv, Remains, TmpRemains, Steps
  <2>3. CASE \E p \in {"closed", "raised"} : phase' = [phase EXCEPT ![b] = p]
    <3>1. \A c \in Backends : phase'[c] # "cleaning"
      BY <2>1, <2>3 DEF TypeOK
    <3> QED
      BY <3>1 DEF CleanInv
  <2> QED
    BY <1>5, <2>2, <2>3
<1>6. ASSUME NEW b \in Backends, CleanKindFails(b) PROVE CleanInv'
  BY <1>5, <1>6 DEF CleanKindFails, CleanRaises
<1>7. ASSUME NEW b \in Backends, CleanDone(b) PROVE CleanInv'
  BY <1>5, <1>7 DEF CleanDone
<1>8. CASE UNCHANGED vars
  BY <1>8 DEF vars, CleanInv, Remains, Missed, TmpRemains, Wants
<1>9. ASSUME NEW b \in Backends,
             \/ \E cleanup \in Cleanups : Construct(b, cleanup)
             \/ Enter(b)
      PROVE  CleanInv'
  BY <1>1, <1>9 DEF Construct, Enter, Idle, TypeOK
<1>10. ASSUME NEW kind \in Kinds, Use(kind) PROVE CleanInv'
  BY <1>1, <1>10 DEF Use, Idle
(* A step that went on past a removal that failed has nothing before it    *)
(* that it did not have before.                                            *)
<1>11. ASSUME NEW b \in Backends, CleanKindMisses(b) PROVE CleanInv'
  <2>1. /\ phase[b] = "cleaning" /\ todo # <<>> /\ todo' = Tail(todo)
        /\ UNCHANGED <<policy, phase, tmpdir, shared, artifacts>>
        /\ Head(todo) \in Kinds /\ Support[b][Head(todo)] = "tries"
        /\ missed' = missed \cup {Head(todo)}
    BY <1>11 DEF CleanKindMisses, TypeOK
  <2>2. ASSUME NEW k \in Kinds, Remains(b, k)' PROVE In(k, todo')
    <3>1. Remains(b, k) /\ k # Head(todo)
      BY <2>1, <2>2 DEF Remains, Missed, Wants
    <3>2. In(k, todo)
      BY <2>1, <3>1 DEF CleanInv
    <3> QED
      BY <2>1, <3>1, <3>2, InTail DEF TypeOK
  <2>3. TmpRemains(b)' => In("tmp", todo')
    <3>1. TmpRemains(b)' => TmpRemains(b)
      BY <2>1 DEF TmpRemains, Wants
    <3>2. Head(todo) # "tmp"
      BY <2>1 DEF Kinds
    <3> QED
      BY <2>1, <3>1, <3>2, InTail DEF TypeOK, CleanInv
  <2> QED
    BY <2>1, <2>2, <2>3 DEF CleanInv
<1> QED
  BY <1>2, <1>3, <1>4, <1>6, <1>7, <1>8, <1>9, <1>10, <1>11 DEF Next

(* A backend that leaves its with-block without an exception has removed   *)
(* all that its policy names and its class can remove, except what a step  *)
(* of this very _clean failed to remove and went on, and has let go of its *)
(* directory, whatever failed in a _clean before that one.                 *)
THEOREM NormalExits == Spec => NormalExitIsClean
<1> DEFINE Clean(b) ==
      /\ \A k \in Kinds \cap artifacts' :
           Wants(b, k) /\ Support[b][k] \in {"removes", "tries"} =>
             Support[b][k] = "tries" /\ k \in missed
      /\ Wants(b, "tmp") => tmpdir'[b] = NoDir /\ shared' = NoDir
<1>1. Init => CleanInv
  BY DEF Init, CleanInv
<1>2. TypeOK /\ CleanInv /\ [Next]_vars =>
        [\A b \in Backends :
           phase[b] = "cleaning" /\ phase'[b] = "closed" => Clean(b)]_vars
  <2> SUFFICES ASSUME TypeOK, CleanInv, Next,
                      NEW b \in Backends, phase[b] = "cleaning",
                      phase'[b] = "closed"
               PROVE  Clean(b)
    OBVIOUS
  <2>1. ~Idle
    BY DEF Idle
  <2>2. PICK c \in Backends : CleanKind(c) \/ CleanKindFails(c)
                                \/ CleanKindMisses(c)
                                \/ CleanTmpDirs(c) \/ CleanDone(c)
    BY <2>1 DEF Next, Construct, Enter, Use, StartClean
  <2>3. CleanDone(c) /\ c = b
    BY <2>2 DEF CleanKind, CleanKindFails, CleanKindMisses, CleanRaises,
                CleanTmpDirs, CleanDone, TypeOK
  <2>4. todo = <<>> /\ UNCHANGED <<artifacts, tmpdir, shared>>
    BY <2>3 DEF CleanDone
  <2>5. \A k : ~In(k, todo)
    BY <2>4 DEF In
  <2> QED
    BY <2>4, <2>5 DEF CleanInv, Remains, Missed, TmpRemains
<1> QED
  BY <1>1, <1>2, StepCleanInv, TypeCorrect, PTL DEF Spec, NormalExitIsClean
=============================================================================
