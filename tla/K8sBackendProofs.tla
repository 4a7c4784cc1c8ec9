-------------------------- MODULE K8sBackendProofs --------------------------
(***************************************************************************)
(* Proofs about K8sBackend, for any number of backends, namespaces and     *)
(* objects: a cleanup touches nothing that is not its backend's, and one   *)
(* that raises nothing leaves nothing behind that its policy names, or     *)
(* only pods that the cluster collects.                                    *)
(***************************************************************************)
EXTENDS K8sBackend, TLAPS

(* The sequences of the model: names of namespaces, names of methods.      *)
LEMMA SequenceFacts ==
  ASSUME NEW S, NEW q \in Seq(S)
  PROVE  /\ Range(q) \subseteq S
         /\ \A e \in S : /\ Append(q, e) \in Seq(S)
                        /\ Range(Append(q, e)) = Range(q) \cup {e}
         /\ q # <<>> => /\ Head(q) \in S /\ Tail(q) \in Seq(S)
                        /\ Range(q) = {Head(q)} \cup Range(Tail(q))
<1>1. Range(q) \subseteq S
  BY DEF Range
<1>2. ASSUME NEW e \in S
      PROVE  Append(q, e) \in Seq(S) /\ Range(Append(q, e)) = Range(q) \cup {e}
  <2>1. DOMAIN Append(q, e) = DOMAIN q \cup {Len(q) + 1}
    OBVIOUS
  <2> QED
    BY <2>1 DEF Range
<1>3. ASSUME q # <<>>
      PROVE  /\ Head(q) \in S /\ Tail(q) \in Seq(S)
             /\ Range(q) = {Head(q)} \cup Range(Tail(q))
  <2>1. /\ Head(q) = q[1] /\ Tail(q) \in Seq(S) /\ Len(Tail(q)) = Len(q) - 1
        /\ \A i \in 1..Len(Tail(q)) : Tail(q)[i] = q[i + 1]
        /\ Len(q) \in Nat \ {0} /\ DOMAIN q = 1..Len(q)
        /\ DOMAIN Tail(q) = 1..Len(Tail(q))
    BY <1>3
  <2>2. Range(Tail(q)) \subseteq Range(q) /\ Head(q) \in Range(q)
    BY <2>1 DEF Range
  <2>3. ASSUME NEW i \in DOMAIN q, i # 1 PROVE q[i] \in Range(Tail(q))
    <3>1. i - 1 \in DOMAIN Tail(q) /\ Tail(q)[i - 1] = q[i]
      BY <2>1, <2>3
    <3> QED
      BY <3>1 DEF Range
  <2>4. Range(q) \subseteq {Head(q)} \cup Range(Tail(q))
    BY <2>1, <2>3 DEF Range
  <2> QED
    BY <2>1, <2>2, <2>4
<1> QED
  BY <1>1, <1>2, <1>3

LEMMA ShortSequences ==
  /\ Range(<<>>) = {}
  /\ \A e : <<e>> # <<>> /\ Head(<<e>>) = e /\ Tail(<<e>>) = <<>>
  BY DEF Range

LEMMA PlanFacts ==
  \A s : /\ Plan(s) \in Seq(Kinds \cup {"namespaces"})
         /\ "NAMESPACES" \in policy[s] => Plan(s) = <<"namespaces">>
         /\ \A k \in Kinds :
              "NAMESPACES" \notin policy[s] /\ Wants(s, k) => k \in Range(Plan(s))
<1> SUFFICES ASSUME NEW s
    PROVE  /\ Plan(s) \in Seq(Kinds \cup {"namespaces"})
           /\ "NAMESPACES" \in policy[s] => Plan(s) = <<"namespaces">>
           /\ \A k \in Kinds :
                "NAMESPACES" \notin policy[s] /\ Wants(s, k) => k \in Range(Plan(s))
  OBVIOUS
<1> DEFINE If(k) == IF Wants(s, k) THEN <<k>> ELSE <<>>
           K == Kinds \cup {"namespaces"}
<1>1. "NAMESPACES" \in policy[s] => Plan(s) = <<"namespaces">>
  BY DEF Plan
<1>2. "NAMESPACES" \notin policy[s] =>
        Plan(s) = If("pods") \o If("services") \o If("deployments")
  BY DEF Plan
<1>3. \A k \in Kinds : /\ If(k) \in Seq(K)
                       /\ Wants(s, k) => k \in Range(If(k))
  <2>1. \A k \in Kinds : <<k>> \in Seq(K) /\ k \in Range(<<k>>)
    BY DEF Range
  <2>2. <<>> \in Seq(K)
    OBVIOUS
  <2> TAKE k \in Kinds
  <2>3. CASE Wants(s, k)
    BY <2>1, <2>3
  <2>4. CASE ~Wants(s, k)
    BY <2>2, <2>4
  <2> QED
    BY <2>3, <2>4
<1>4. \A q, r \in Seq(K) : /\ q \o r \in Seq(K)
                           /\ Range(q \o r) = Range(q) \cup Range(r)
  <2> SUFFICES ASSUME NEW q \in Seq(K), NEW r \in Seq(K)
               PROVE  q \o r \in Seq(K) /\ Range(q \o r) = Range(q) \cup Range(r)
    OBVIOUS
  <2> DEFINE t == q \o r
  <2>1. /\ t \in Seq(K) /\ DOMAIN t = 1..(Len(q) + Len(r))
        /\ \A i \in 1..Len(q) : t[i] = q[i]
        /\ \A i \in 1..Len(r) : t[i + Len(q)] = r[i]
        /\ DOMAIN q = 1..Len(q) /\ DOMAIN r = 1..Len(r)
        /\ Len(q) \in Nat /\ Len(r) \in Nat
    OBVIOUS
  <2> HIDE DEF t
  <2>2. \A i \in DOMAIN q : i \in DOMAIN t /\ t[i] = q[i]
    BY <2>1
  <2>3. \A i \in DOMAIN r : i + Len(q) \in DOMAIN t /\ t[i + Len(q)] = r[i]
    BY <2>1
  <2>4. \A i \in DOMAIN t : \/ i \in DOMAIN q /\ t[i] = q[i]
                            \/ i - Len(q) \in DOMAIN r /\ t[i] = r[i - Len(q)]
    BY <2>1
  <2>5. Range(t) = Range(q) \cup Range(r)
    BY <2>2, <2>3, <2>4 DEF Range
  <2> QED
    BY <2>1, <2>5 DEF t
<1>5. <<"namespaces">> \in Seq(K)
  OBVIOUS
<1> HIDE DEF If, K
<1>6. If("pods") \in Seq(K) /\ If("services") \in Seq(K) /\ If("deployments") \in Seq(K)
  BY <1>3 DEF Kinds
<1>7. /\ If("pods") \o If("services") \o If("deployments") \in Seq(K)
      /\ Range(If("pods") \o If("services") \o If("deployments"))
           = Range(If("pods")) \cup Range(If("services")) \cup Range(If("deployments"))
  <2>1. /\ If("pods") \o If("services") \in Seq(K)
        /\ Range(If("pods") \o If("services")) = Range(If("pods")) \cup Range(If("services"))
    BY <1>4, <1>6
  <2> DEFINE q == If("pods") \o If("services")
  <2> HIDE DEF q
  <2>2. q \in Seq(K) => /\ q \o If("deployments") \in Seq(K)
                         /\ Range(q \o If("deployments")) = Range(q) \cup Range(If("deployments"))
    BY <1>4, <1>6
  <2> QED
    BY <2>1, <2>2 DEF q
<1>8. Plan(s) \in Seq(K)
  BY <1>1, <1>2, <1>5, <1>7
<1>9. \A k \in Kinds :
        "NAMESPACES" \notin policy[s] /\ Wants(s, k) => k \in Range(Plan(s))
  BY <1>2, <1>3, <1>7 DEF Kinds
<1> QED
  BY <1>1, <1>8, <1>9 DEF K

-----------------------------------------------------------------------------
(* The inductive invariant.                                                *)

(* A backend's list of namespaces is exact: what it made, and no more.     *)
ManagedInv ==
  /\ maker[Outside] = Nobody
  /\ \A n \in Spaces : space[n] = "absent" => maker[n] = Nobody
  /\ \A s \in Sessions, n \in Namespaces : n \in Mine(s) <=> maker[n] = s

HomeInv == \A o \in Objects : life[o] # "unborn" => home[o] \in Spaces

TodoInv ==
  \A s \in Sessions :
    /\ todo[s] # {} => pc[s] = "cleaning"
    /\ \A o \in todo[s] \cap Objects : life[o] # "unborn"

(* With NAMESPACES: the names are still to be listed, or each of them is   *)
(* deleted or still to be deleted.                                         *)
DropInv ==
  \A s \in Sessions :
    pc[s] = "cleaning" /\ "NAMESPACES" \in policy[s] =>
      \/ plan[s] = <<"namespaces">> /\ todo[s] = {}
      \/ /\ plan[s] = <<>>
         /\ \A n \in Mine(s) : n \in todo[s] \/ space[n] = "deleted"

(* Without: an object of a wanted kind is gone, still to be deleted, or    *)
(* still to be listed, unless it is a deployment's pod.                    *)
Alive(s, o) == life[o] = "alive" /\ maker[home[o]] = s

Exempt(k, o) == k = "pods" /\ Owner[o] # NoOwner

ThoroughInv ==
  \A s \in Sessions, k \in Kinds, o \in Objects :
    /\ pc[s] = "cleaning" /\ "NAMESPACES" \notin policy[s] /\ Wants(s, k)
    /\ o \in OfKind(k) /\ Alive(s, o) /\ ~Exempt(k, o)
    => k \in Range(plan[s]) \/ o \in todo[s]

IInv ==
  /\ TypeOK /\ ManagedInv /\ HomeInv /\ TodoInv /\ DropInv /\ ThoroughInv
  /\ OnlyItsOwnIsDeleted /\ QuietExitDropsNamespaces /\ QuietExitIsThorough

LEMMA InitInv == Init => IInv
<1> SUFFICES ASSUME Init PROVE IInv
  OBVIOUS
<1>1. TypeOK
  BY DEF Init, TypeOK
<1>2. ManagedInv
  BY K8sAssumption DEF Init, ManagedInv, Mine, Range, Spaces
<1>3. HomeInv /\ TodoInv /\ DropInv /\ ThoroughInv
  BY DEF Init, HomeInv, TodoInv, DropInv, ThoroughInv
<1>4. OnlyItsOwnIsDeleted /\ QuietExitDropsNamespaces /\ QuietExitIsThorough
  BY DEF Init, OnlyItsOwnIsDeleted, QuietExitDropsNamespaces,
         QuietExitIsThorough
<1> QED
  BY <1>1, <1>2, <1>3, <1>4 DEF IInv

LEMMA StepInv == IInv /\ [Next]_vars => IInv'
<1> SUFFICES ASSUME IInv, [Next]_vars PROVE IInv'
  OBVIOUS
<1> USE K8sAssumption DEF IInv, TypeOK, sessionVars, clusterVars
<1>1. ASSUME NEW s \in Sessions, NEW cleanup \in Cleanups,
             Construct(s, cleanup)
      PROVE  IInv'
  <2>1. TypeOK'
    BY <1>1 DEF Construct, Policies
  <2>2. ManagedInv'
    BY <1>1 DEF ManagedInv, Mine, Construct
  <2>3. HomeInv'
    BY <1>1 DEF HomeInv, Construct
  <2>4. TodoInv'
    BY <1>1 DEF TodoInv, Construct
  <2>5. DropInv'
    BY <1>1 DEF DropInv, Mine, Construct
  <2>6. ThoroughInv'
    BY <1>1 DEF ThoroughInv, Alive, Wants, Kinds, Construct
  <2>7. OnlyItsOwnIsDeleted'
    BY <1>1 DEF OnlyItsOwnIsDeleted, Construct
  <2>8. QuietExitDropsNamespaces'
    BY <1>1 DEF QuietExitDropsNamespaces, Construct
  <2>9. QuietExitIsThorough'
    BY <1>1 DEF QuietExitIsThorough, Wants, Kinds, Construct
  <2> QED
    BY <2>1, <2>2, <2>3, <2>4, <2>5, <2>6, <2>7, <2>8, <2>9
<1>2. ASSUME NEW s \in Sessions, NEW n \in Namespaces,
             CreateNamespace(s, n)
      PROVE  IInv'
  <2>1. TypeOK'
    BY <1>2, SequenceFacts DEF CreateNamespace
  <2>2. ManagedInv'
    BY <1>2, SequenceFacts DEF ManagedInv, Mine, Spaces, CreateNamespace
  <2>3. HomeInv'
    BY <1>2 DEF HomeInv, CreateNamespace
  <2>4. TodoInv'
    BY <1>2 DEF TodoInv, Exists, Mine, CreateNamespace
  <2>5. DropInv'
    BY <1>2 DEF DropInv, Mine, CreateNamespace
  <2>6. ThoroughInv'
    BY <1>2 DEF ThoroughInv, Alive, Wants, Kinds, CreateNamespace
  <2>7. OnlyItsOwnIsDeleted'
    BY <1>2 DEF OnlyItsOwnIsDeleted, ManagedInv, CreateNamespace
  <2>8. QuietExitDropsNamespaces'
    BY <1>2 DEF QuietExitDropsNamespaces, CreateNamespace
  <2>9. QuietExitIsThorough'
    BY <1>2 DEF QuietExitIsThorough, Wants, Kinds, CreateNamespace
  <2> QED
    BY <2>1, <2>2, <2>3, <2>4, <2>5, <2>6, <2>7, <2>8, <2>9
<1>3. ASSUME NEW s \in Sessions,
             NamespaceWaitOver(s)
      PROVE  IInv'
  <2>1. TypeOK'
    BY <1>3 DEF NamespaceWaitOver
  <2>2. ManagedInv'
    BY <1>3 DEF ManagedInv, Mine, NamespaceWaitOver
  <2>3. HomeInv'
    BY <1>3 DEF HomeInv, NamespaceWaitOver
  <2>4. TodoInv'
    BY <1>3 DEF TodoInv, Exists, Mine, NamespaceWaitOver
  <2>5. DropInv'
    BY <1>3 DEF DropInv, Mine, NamespaceWaitOver
  <2>6. ThoroughInv'
    BY <1>3 DEF ThoroughInv, Alive, Wants, Kinds, NamespaceWaitOver
  <2>7. OnlyItsOwnIsDeleted'
    BY <1>3 DEF OnlyItsOwnIsDeleted, NamespaceWaitOver
  <2>8. QuietExitDropsNamespaces'
    BY <1>3 DEF QuietExitDropsNamespaces, NamespaceWaitOver
  <2>9. QuietExitIsThorough'
    BY <1>3 DEF QuietExitIsThorough, Wants, Kinds, NamespaceWaitOver
  <2> QED
    BY <2>1, <2>2, <2>3, <2>4, <2>5, <2>6, <2>7, <2>8, <2>9
<1>4. ASSUME NEW s \in Sessions, NEW n \in Namespaces,
             DropNamespace(s, n)
      PROVE  IInv'
  <2>1. TypeOK'
    BY <1>4 DEF DropNamespace
  <2>2. ManagedInv'
    BY <1>4 DEF ManagedInv, Mine, DropNamespace
  <2>3. HomeInv'
    BY <1>4 DEF HomeInv, DropNamespace
  <2>4. TodoInv'
    BY <1>4 DEF TodoInv, DropNamespace
  <2>5. DropInv'
    BY <1>4 DEF DropInv, Mine, DropNamespace
  <2>6. ThoroughInv'
    BY <1>4 DEF ThoroughInv, Alive, Wants, Kinds, DropNamespace
  <2>7. OnlyItsOwnIsDeleted'
    BY <1>4 DEF OnlyItsOwnIsDeleted, DropNamespace
  <2>8. QuietExitDropsNamespaces'
    BY <1>4 DEF QuietExitDropsNamespaces, DropNamespace
  <2>9. QuietExitIsThorough'
    BY <1>4 DEF QuietExitIsThorough, Wants, Kinds, DropNamespace
  <2> QED
    BY <2>1, <2>2, <2>3, <2>4, <2>5, <2>6, <2>7, <2>8, <2>9
<1>5. ASSUME NEW s \in Sessions, NEW o \in Objects,
             o \in Pods => Owner[o] = NoOwner, Create(s, o)
      PROVE  IInv'
  <2>1. TypeOK'
    BY <1>5, SequenceFacts DEF Spaces, Mine, Create
  <2>2. ManagedInv'
    BY <1>5 DEF ManagedInv, Mine, Create
  <2>3. HomeInv'
    BY <1>5, SequenceFacts DEF HomeInv, Spaces, Mine, Create
  <2>4. TodoInv'
    BY <1>5 DEF TodoInv, Create
  <2>5. DropInv'
    BY <1>5 DEF DropInv, Mine, Create
  <2>6. ThoroughInv'
    BY <1>5, SequenceFacts
       DEF ThoroughInv, Alive, Wants, ManagedInv, Mine, Kinds, Create
  <2>7. OnlyItsOwnIsDeleted'
    BY <1>5 DEF OnlyItsOwnIsDeleted, TodoInv, Create
  <2>8. QuietExitDropsNamespaces'
    BY <1>5 DEF QuietExitDropsNamespaces, Create
  <2>9. QuietExitIsThorough'
    BY <1>5, SequenceFacts
       DEF QuietExitIsThorough, Wants, ManagedInv, Mine, Kinds, Create
  <2> QED
    BY <2>1, <2>2, <2>3, <2>4, <2>5, <2>6, <2>7, <2>8, <2>9
<1>6. ASSUME NEW s \in Sessions, NEW o \in Objects,
             DropObject(s, o)
      PROVE  IInv'
  <2>1. TypeOK'
    BY <1>6 DEF DropObject, Deleted
  <2>2. ManagedInv'
    BY <1>6 DEF ManagedInv, Mine, DropObject
  <2>3. HomeInv'
    BY <1>6, SequenceFacts DEF HomeInv, Spaces, Mine, DropObject
  <2>4. TodoInv'
    BY <1>6 DEF TodoInv, DropObject, Deleted
  <2>5. DropInv'
    BY <1>6 DEF DropInv, Mine, DropObject
  <2>6. ThoroughInv'
    BY <1>6, SequenceFacts
       DEF ThoroughInv, Alive, Wants, ManagedInv, Mine, Kinds, DropObject
  <2>7. OnlyItsOwnIsDeleted'
    BY <1>6 DEF OnlyItsOwnIsDeleted, DropObject
  <2>8. QuietExitDropsNamespaces'
    BY <1>6 DEF QuietExitDropsNamespaces, DropObject
  <2>9. QuietExitIsThorough'
    BY <1>6, SequenceFacts
       DEF QuietExitIsThorough, Wants, ManagedInv, Mine, Kinds, DropObject
  <2> QED
    BY <2>1, <2>2, <2>3, <2>4, <2>5, <2>6, <2>7, <2>8, <2>9
<1>7. ASSUME NEW s \in Sessions,
             StartClean(s)
      PROVE  IInv'
  <2>1. TypeOK'
    BY <1>7, PlanFacts DEF StartClean
  <2>2. ManagedInv'
    BY <1>7 DEF ManagedInv, Mine, StartClean
  <2>3. HomeInv'
    BY <1>7 DEF HomeInv, StartClean
  <2>4. TodoInv'
    BY <1>7 DEF TodoInv, Exists, Mine, StartClean
  <2>5. DropInv'
    BY <1>7, PlanFacts DEF DropInv, TodoInv, Mine, Kinds, StartClean
  <2>6. ThoroughInv'
    BY <1>7, PlanFacts DEF ThoroughInv, Alive, Wants, Kinds, StartClean
  <2>7. OnlyItsOwnIsDeleted'
    BY <1>7 DEF OnlyItsOwnIsDeleted, StartClean
  <2>8. QuietExitDropsNamespaces'
    BY <1>7 DEF QuietExitDropsNamespaces, StartClean
  <2>9. QuietExitIsThorough'
    BY <1>7 DEF QuietExitIsThorough, Wants, Kinds, StartClean
  <2> QED
    BY <2>1, <2>2, <2>3, <2>4, <2>5, <2>6, <2>7, <2>8, <2>9
<1>8. ASSUME NEW s \in Sessions, NEW kind \in Kinds,
             ListObjects(s, kind)
      PROVE  IInv'
  <2>1. TypeOK'
    BY <1>8 DEF Objects, Kinds, OfKind, ListObjects, Cleaning
  <2>2. ManagedInv'
    BY <1>8 DEF ManagedInv, Mine, ListObjects
  <2>3. HomeInv'
    BY <1>8 DEF HomeInv, ListObjects
  <2>4. TodoInv'
    BY <1>8 DEF TodoInv, Exists, ListObjects, Cleaning
  <2>5. DropInv'
    <3>1. "NAMESPACES" \notin policy[s]
      <4>1. plan[s] # <<"namespaces">> /\ plan[s] # <<>>
        BY <1>8 DEF ListObjects, Cleaning, Kinds
      <4> QED
        BY <1>8, <4>1 DEF DropInv, ListObjects, Cleaning
    <3> QED
      BY <1>8, <3>1 DEF DropInv, Mine, ListObjects
  <2>6. ThoroughInv'
    BY <1>8, SequenceFacts
       DEF ThoroughInv, Alive, Wants, ManagedInv, HomeInv, Spaces, Exists,
           Kinds, ListObjects, Cleaning
  <2>7. OnlyItsOwnIsDeleted'
    BY <1>8, SequenceFacts
       DEF OnlyItsOwnIsDeleted, ManagedInv, Mine, Objects, OfKind, Kinds,
           ListObjects
  <2>8. QuietExitDropsNamespaces'
    BY <1>8 DEF QuietExitDropsNamespaces, ListObjects
  <2>9. QuietExitIsThorough'
    BY <1>8 DEF QuietExitIsThorough, Wants, Kinds, ListObjects
  <2> QED
    BY <2>1, <2>2, <2>3, <2>4, <2>5, <2>6, <2>7, <2>8, <2>9
<1>9. ASSUME NEW s \in Sessions,
             pc[s] = "cleaning", CleanRaises(s)
      PROVE  IInv'
  <2>1. TypeOK'
    BY <1>9 DEF Kinds, CleanRaises
  <2>2. ManagedInv'
    BY <1>9 DEF ManagedInv, Mine, CleanRaises
  <2>3. HomeInv'
    BY <1>9 DEF HomeInv, CleanRaises
  <2>4. TodoInv'
    BY <1>9 DEF TodoInv, Exists, Mine, CleanRaises
  <2>5. DropInv'
    BY <1>9 DEF DropInv, Mine, CleanRaises
  <2>6. ThoroughInv'
    BY <1>9 DEF ThoroughInv, Alive, Wants, Kinds, CleanRaises
  <2>7. OnlyItsOwnIsDeleted'
    BY <1>9 DEF OnlyItsOwnIsDeleted, CleanRaises
  <2>8. QuietExitDropsNamespaces'
    BY <1>9 DEF QuietExitDropsNamespaces, CleanRaises
  <2>9. QuietExitIsThorough'
    BY <1>9 DEF QuietExitIsThorough, Wants, Kinds, CleanRaises
  <2> QED
    BY <2>1, <2>2, <2>3, <2>4, <2>5, <2>6, <2>7, <2>8, <2>9
<1>10. ASSUME NEW s \in Sessions,
             ListNamespaces(s)
      PROVE  IInv'
  <2>1. TypeOK'
    BY <1>10, SequenceFacts DEF Mine, ListNamespaces, Cleaning
  <2>2. ManagedInv'
    BY <1>10 DEF ManagedInv, Mine, ListNamespaces
  <2>3. HomeInv'
    BY <1>10 DEF HomeInv, ListNamespaces
  <2>4. TodoInv'
    BY <1>10, SequenceFacts
       DEF TodoInv, Exists, Mine, ListNamespaces, Cleaning
  <2>5. DropInv'
    <3>1. "NAMESPACES" \in policy[s] => plan[s] = <<"namespaces">>
      BY <1>10 DEF DropInv, ListNamespaces, Cleaning
    <3>2. "NAMESPACES" \in policy[s] => Tail(plan[s]) = <<>>
      BY <3>1, ShortSequences
    <3> QED
      BY <1>10, <3>2 DEF DropInv, Mine, ListNamespaces
  <2>6. ThoroughInv'
    BY <1>10, SequenceFacts
       DEF ThoroughInv, Alive, Wants, Kinds, ListNamespaces, Cleaning
  <2>7. OnlyItsOwnIsDeleted'
    BY <1>10, SequenceFacts
       DEF OnlyItsOwnIsDeleted, ManagedInv, Mine, ListNamespaces
  <2>8. QuietExitDropsNamespaces'
    BY <1>10 DEF QuietExitDropsNamespaces, ListNamespaces
  <2>9. QuietExitIsThorough'
    BY <1>10 DEF QuietExitIsThorough, Wants, Kinds, ListNamespaces
  <2> QED
    BY <2>1, <2>2, <2>3, <2>4, <2>5, <2>6, <2>7, <2>8, <2>9
<1>11. ASSUME NEW s \in Sessions, NEW o \in Objects,
             pc[s] = "cleaning", o \in todo[s],
             todo' = [todo EXCEPT ![s] = @ \ {o}],
             life' = [life EXCEPT ![o] = Deleted(o)],
             UNCHANGED <<pc, policy, managed, plan, space, maker, home>>
      PROVE  IInv'
  <2>1. TypeOK'
    BY <1>11 DEF Deleted
  <2>2. ManagedInv'
    BY <1>11 DEF ManagedInv, Mine
  <2>3. HomeInv'
    BY <1>11 DEF HomeInv, TodoInv
  <2>4. TodoInv'
    BY <1>11 DEF TodoInv, Exists, Mine, Deleted
  <2>5. DropInv'
    BY <1>11, SequenceFacts DEF DropInv, Mine
  <2>6. ThoroughInv'
    BY <1>11 DEF ThoroughInv, Alive, Wants, Kinds, Deleted
  <2>7. OnlyItsOwnIsDeleted'
    BY <1>11 DEF OnlyItsOwnIsDeleted
  <2>8. QuietExitDropsNamespaces'
    BY <1>11 DEF QuietExitDropsNamespaces
  <2>9. QuietExitIsThorough'
    BY <1>11 DEF QuietExitIsThorough, Wants, Kinds, Deleted
  <2> QED
    BY <2>1, <2>2, <2>3, <2>4, <2>5, <2>6, <2>7, <2>8, <2>9
<1>12. ASSUME NEW s \in Sessions, NEW n \in Namespaces,
             pc[s] = "cleaning", n \in todo[s],
             todo' = [todo EXCEPT ![s] = @ \ {n}],
             space' = [space EXCEPT ![n] = "deleted"],
             UNCHANGED <<pc, policy, managed, plan, maker, home, life>>
      PROVE  IInv'
  <2>1. TypeOK'
    BY <1>12
  <2>2. ManagedInv'
    BY <1>12 DEF ManagedInv, Mine
  <2>3. HomeInv'
    BY <1>12 DEF HomeInv
  <2>4. TodoInv'
    BY <1>12 DEF TodoInv, Exists, Mine
  <2>5. DropInv'
    BY <1>12 DEF DropInv, Mine, Spaces
  <2>6. ThoroughInv'
    BY <1>12 DEF ThoroughInv, Alive, Wants, Kinds
  <2>7. OnlyItsOwnIsDeleted'
    BY <1>12 DEF OnlyItsOwnIsDeleted
  <2>8. QuietExitDropsNamespaces'
    BY <1>12 DEF QuietExitDropsNamespaces
  <2>9. QuietExitIsThorough'
    BY <1>12 DEF QuietExitIsThorough, Wants, Kinds
  <2> QED
    BY <2>1, <2>2, <2>3, <2>4, <2>5, <2>6, <2>7, <2>8, <2>9
<1>13. ASSUME NEW s \in Sessions,
             CleanDone(s)
      PROVE  IInv'
  <2>1. TypeOK'
    BY <1>13 DEF CleanDone
  <2>2. ManagedInv'
    BY <1>13 DEF ManagedInv, Mine, CleanDone
  <2>3. HomeInv'
    BY <1>13 DEF HomeInv, CleanDone
  <2>4. TodoInv'
    BY <1>13 DEF TodoInv, Exists, Mine, CleanDone
  <2>5. DropInv'
    BY <1>13 DEF DropInv, Mine, CleanDone
  <2>6. ThoroughInv'
    BY <1>13 DEF ThoroughInv, Alive, Wants, OfKind, Kinds, CleanDone
  <2>7. OnlyItsOwnIsDeleted'
    BY <1>13 DEF OnlyItsOwnIsDeleted, CleanDone
  <2>8. QuietExitDropsNamespaces'
    <3>1. "NAMESPACES" \in policy[s] =>
            \A n \in Mine(s) : n \in todo[s] \/ space[n] = "deleted"
      BY <1>13, ShortSequences DEF DropInv, CleanDone
    <3>2. \A n \in Namespaces : maker[n] = s => n \in Mine(s)
      BY DEF ManagedInv
    <3> QED
      BY <1>13, <3>1, <3>2 DEF QuietExitDropsNamespaces, CleanDone
  <2>9. QuietExitIsThorough'
    <3>1. Range(plan[s]) = {}
      BY <1>13, ShortSequences DEF CleanDone
    <3> SUFFICES ASSUME NEW t \in Sessions, NEW k \in Kinds, NEW o \in Objects,
                        pc'[t] = "closed", "NAMESPACES" \notin policy[t], Wants(t, k),
                        o \in OfKind(k), Alive(t, o)
                 PROVE  Exempt(k, o)
      BY <1>13 DEF QuietExitIsThorough, Alive, Exempt, Wants, CleanDone
    <3>2. CASE t = s
      BY <1>13, <3>1, <3>2 DEF ThoroughInv, CleanDone
    <3>3. CASE t # s
      BY <1>13, <3>3 DEF QuietExitIsThorough, Alive, Exempt, CleanDone
    <3> QED
      BY <3>2, <3>3
  <2> QED
    BY <2>1, <2>2, <2>3, <2>4, <2>5, <2>6, <2>7, <2>8, <2>9
<1>14. ASSUME NEW n \in Namespaces,
             TokenAppears(n)
      PROVE  IInv'
  <2>1. TypeOK'
    BY <1>14 DEF TokenAppears
  <2>2. ManagedInv'
    BY <1>14 DEF ManagedInv, Mine, TokenAppears
  <2>3. HomeInv'
    BY <1>14 DEF HomeInv, TokenAppears
  <2>4. TodoInv'
    BY <1>14 DEF TodoInv, Exists, Mine, TokenAppears
  <2>5. DropInv'
    BY <1>14 DEF DropInv, Mine, TokenAppears
  <2>6. ThoroughInv'
    BY <1>14 DEF ThoroughInv, Alive, Wants, Kinds, TokenAppears
  <2>7. OnlyItsOwnIsDeleted'
    BY <1>14 DEF OnlyItsOwnIsDeleted, TokenAppears
  <2>8. QuietExitDropsNamespaces'
    BY <1>14 DEF QuietExitDropsNamespaces, TokenAppears
  <2>9. QuietExitIsThorough'
    BY <1>14 DEF QuietExitIsThorough, Wants, Kinds, TokenAppears
  <2> QED
    BY <2>1, <2>2, <2>3, <2>4, <2>5, <2>6, <2>7, <2>8, <2>9
<1>15. ASSUME NEW o \in Objects,
             Replicate(o)
      PROVE  IInv'
  <2>1. TypeOK'
    BY <1>15 DEF Objects, Replicate
  <2>2. ManagedInv'
    BY <1>15 DEF ManagedInv, Mine, Replicate
  <2>3. HomeInv'
    BY <1>15 DEF HomeInv, Objects, Replicate
  <2>4. TodoInv'
    BY <1>15 DEF TodoInv, Exists, Mine, Replicate
  <2>5. DropInv'
    BY <1>15 DEF DropInv, Mine, Replicate
  <2>6. ThoroughInv'
    BY <1>15 DEF ThoroughInv, Alive, Exempt, Wants, OfKind, Kinds, Replicate
  <2>7. OnlyItsOwnIsDeleted'
    BY <1>15 DEF OnlyItsOwnIsDeleted, TodoInv, Replicate
  <2>8. QuietExitDropsNamespaces'
    BY <1>15 DEF QuietExitDropsNamespaces, Replicate
  <2>9. QuietExitIsThorough'
    BY <1>15 DEF QuietExitIsThorough, Wants, OfKind, Kinds, Replicate
  <2> QED
    BY <2>1, <2>2, <2>3, <2>4, <2>5, <2>6, <2>7, <2>8, <2>9
<1>16. ASSUME NEW o \in Objects,
             Collect(o)
      PROVE  IInv'
  <2>1. TypeOK'
    BY <1>16 DEF Collect
  <2>2. ManagedInv'
    BY <1>16 DEF ManagedInv, Mine, Collect
  <2>3. HomeInv'
    BY <1>16 DEF HomeInv, Collect, Exists
  <2>4. TodoInv'
    BY <1>16 DEF TodoInv, Mine, Collect
  <2>5. DropInv'
    BY <1>16 DEF DropInv, Mine, Collect
  <2>6. ThoroughInv'
    BY <1>16 DEF ThoroughInv, Alive, Wants, Kinds, Collect
  <2>7. OnlyItsOwnIsDeleted'
    BY <1>16 DEF OnlyItsOwnIsDeleted, Collect
  <2>8. QuietExitDropsNamespaces'
    BY <1>16 DEF QuietExitDropsNamespaces, Collect
  <2>9. QuietExitIsThorough'
    BY <1>16 DEF QuietExitIsThorough, Wants, Kinds, Collect
  <2> QED
    BY <2>1, <2>2, <2>3, <2>4, <2>5, <2>6, <2>7, <2>8, <2>9
<1>17. ASSUME NEW o \in Objects,
             CreateOutside(o)
      PROVE  IInv'
  <2>1. TypeOK'
    BY <1>17 DEF Spaces, CreateOutside
  <2>2. ManagedInv'
    BY <1>17 DEF ManagedInv, Mine, CreateOutside
  <2>3. HomeInv'
    BY <1>17 DEF HomeInv, Spaces, CreateOutside
  <2>4. TodoInv'
    BY <1>17 DEF TodoInv, Exists, Mine, CreateOutside
  <2>5. DropInv'
    BY <1>17 DEF DropInv, Mine, CreateOutside
  <2>6. ThoroughInv'
    BY <1>17 DEF ThoroughInv, Alive, Wants, ManagedInv, Kinds, CreateOutside
  <2>7. OnlyItsOwnIsDeleted'
    BY <1>17 DEF OnlyItsOwnIsDeleted, TodoInv, CreateOutside
  <2>8. QuietExitDropsNamespaces'
    BY <1>17 DEF QuietExitDropsNamespaces, CreateOutside
  <2>9. QuietExitIsThorough'
    BY <1>17 DEF QuietExitIsThorough, Wants, ManagedInv, Kinds, CreateOutside
  <2> QED
    BY <2>1, <2>2, <2>3, <2>4, <2>5, <2>6, <2>7, <2>8, <2>9
<1>18. CASE UNCHANGED vars
  BY <1>18 DEF vars, ManagedInv, HomeInv, TodoInv, DropInv, ThoroughInv, Alive, Exempt, Wants, Mine,
     OnlyItsOwnIsDeleted, QuietExitDropsNamespaces, QuietExitIsThorough
<1>19. ASSUME NEW s \in Sessions, Call(s) PROVE IInv'
  <2>1. \A o \in Objects : CreateService(s, o) \/ CreateDeployment(s, o) => o \notin Pods
    BY DEF CreateService, CreateDeployment
  <2> QED
    BY <1>19, <2>1, <1>1, <1>2, <1>3, <1>4, <1>5, <1>6
       DEF Call, CreatePod, CreateService, CreateDeployment
<1>20. ASSUME NEW s \in Sessions, Clean(s) PROVE IInv'
  <2>1. ASSUME NEW o \in Objects, DeleteObject(s, o) PROVE IInv'
    BY <1>9, <1>11, <2>1 DEF DeleteObject
  <2>2. ASSUME DeleteNamespace(s) PROVE IInv'
    <3>1. \A i \in DOMAIN managed[s] : managed[s][i] \in Namespaces
      BY DEF TypeOK
    <3> QED
      BY <1>9, <1>12, <2>2, <3>1 DEF DeleteNamespace
  <2>3. ASSUME NEW kind \in Kinds, ListRaises(s, kind) PROVE IInv'
    BY <1>9, <2>3 DEF ListRaises, Cleaning
  <2>4. ASSUME DeleteRefused(s) PROVE IInv'
    BY <1>9, <2>4 DEF DeleteRefused
  <2> QED
    BY <1>20, <2>1, <2>2, <2>3, <2>4, <1>7, <1>8, <1>10, <1>13 DEF Clean
<1> QED
  BY <1>14, <1>15, <1>16, <1>17, <1>18, <1>19, <1>20 DEF Next, Cluster

(* Every variable is of its kind, in every reachable state.                *)
THEOREM TypeCorrect == Spec => []TypeOK
<1>1. IInv => TypeOK
  BY DEF IInv
<1> QED
  BY <1>1, InitInv, StepInv, PTL DEF Spec

(* No cleanup deletes what is not in a namespace of its own backend.       *)
THEOREM OnlyItsOwn == Spec => []OnlyItsOwnIsDeleted
<1>1. IInv => OnlyItsOwnIsDeleted
  BY DEF IInv
<1> QED
  BY <1>1, InitInv, StepInv, PTL DEF Spec

(* A quiet exit with NAMESPACES has deleted every namespace of its own,    *)
(* also those that create_namespace gave up waiting for.                   *)
THEOREM NamespacesDropped == Spec => []QuietExitDropsNamespaces
<1>1. IInv => QuietExitDropsNamespaces
  BY DEF IInv
<1> QED
  BY <1>1, InitInv, StepInv, PTL DEF Spec

(* A quiet exit with the other policies has left nothing of a kind they    *)
(* name, except for pods that deployments have made since.                 *)
THEOREM ThoroughExit == Spec => []QuietExitIsThorough
<1>1. IInv => QuietExitIsThorough
  BY DEF IInv
<1> QED
  BY <1>1, InitInv, StepInv, PTL DEF Spec

-----------------------------------------------------------------------------
(* What EVERYTHING leaves behind.                                          *)

(* Only pods have a grace period, and the pod of a deployment is where the *)
(* deployment is or was.                                                   *)
FamilyInv ==
  /\ \A o \in Objects \ Pods : life[o] # "dying"
  /\ \A o \in Pods :
       Owner[o] # NoOwner /\ life[o] # "unborn" =>
         life[Owner[o]] \in {"alive", "gone"} /\ home[o] = home[Owner[o]]

LEMMA StepFamily == IInv /\ FamilyInv /\ [Next]_vars => FamilyInv'
<1> SUFFICES ASSUME IInv, FamilyInv, Next \/ UNCHANGED vars PROVE FamilyInv'
  OBVIOUS
<1> USE K8sAssumption DEF IInv, TypeOK, Objects, FamilyInv
<1>0. ASSUME UNCHANGED <<life, home>> PROVE FamilyInv'
  BY <1>0
<1>1. ASSUME NEW s, NEW o \in Objects,
             CreatePod(s, o) \/ CreateService(s, o) \/ CreateDeployment(s, o)
      PROVE  FamilyInv'
  <2>1. PICK n : home' = [home EXCEPT ![o] = n]
    BY <1>1 DEF CreatePod, CreateService, CreateDeployment, Create
  <2>2. /\ life[o] = "unborn" /\ life' = [life EXCEPT ![o] = "alive"]
        /\ o \in Pods => Owner[o] = NoOwner
    BY <1>1 DEF CreatePod, CreateService, CreateDeployment, Create
  <2> QED
    BY <2>1, <2>2
<1>2. ASSUME NEW s, NEW o \in Objects, DropObject(s, o) \/ DeleteObject(s, o)
      PROVE  FamilyInv'
  <2>1. /\ home' = home
        /\ \/ life' = life
           \/ Exists(o) /\ life' = [life EXCEPT ![o] = Deleted(o)]
    BY <1>2 DEF DropObject, DeleteObject, CleanRaises, clusterVars
  <2>2. CASE life' = life
    BY <1>0, <2>1, <2>2
  <2>3. CASE Exists(o) /\ life' = [life EXCEPT ![o] = Deleted(o)]
    <3>1. /\ life'[o] = Deleted(o)
          /\ \A q \in Objects : q # o => life'[q] = life[q]
      BY <2>3
    <3>2. ASSUME NEW q \in Objects \ Pods PROVE life'[q] # "dying"
      <4>1. CASE q = o
        BY <3>1, <4>1 DEF Deleted
      <4>2. CASE q # o
        BY <3>1, <4>2
      <4> QED
        BY <4>1, <4>2
    <3>3. ASSUME NEW q \in Pods, Owner[q] # NoOwner, life'[q] # "unborn"
          PROVE  life'[Owner[q]] \in {"alive", "gone"} /\ home'[q] = home'[Owner[q]]
      <4>1. life[q] # "unborn" /\ Owner[q] \in Deployments
        BY <2>3, <3>1, <3>3 DEF Exists
      <4>2. life[Owner[q]] \in {"alive", "gone"} /\ home[q] = home[Owner[q]]
        BY <3>3, <4>1
      <4> QED
        BY <2>1, <3>1, <4>1, <4>2 DEF Deleted
    <3> QED
      BY <3>2, <3>3
  <2> QED
    BY <2>1, <2>2, <2>3
<1>3. ASSUME NEW o \in Objects, Replicate(o) PROVE FamilyInv'
  BY <1>3 DEF Replicate
<1>4. ASSUME NEW o \in Objects, Collect(o) PROVE FamilyInv'
  BY <1>4 DEF Collect, Exists
<1>5. ASSUME NEW o \in Objects, CreateOutside(o) PROVE FamilyInv'
  BY <1>5 DEF CreateOutside
<1>7. ASSUME NEW s \in Sessions, Call(s) PROVE FamilyInv'
  <2>1. ASSUME NEW cleanup, Construct(s, cleanup) PROVE FamilyInv'
    BY <1>0, <2>1 DEF Construct, clusterVars
  <2>2. ASSUME NEW n, CreateNamespace(s, n) \/ DropNamespace(s, n) PROVE FamilyInv'
    BY <1>0, <2>2 DEF CreateNamespace, DropNamespace
  <2>3. CASE NamespaceWaitOver(s)
    BY <1>0, <2>3 DEF NamespaceWaitOver, clusterVars
  <2> QED
    BY <1>1, <1>2, <1>7, <2>1, <2>2, <2>3 DEF Call
<1>8. ASSUME NEW s \in Sessions, Clean(s) PROVE FamilyInv'
  <2>1. ASSUME NEW k, ListObjects(s, k) \/ ListRaises(s, k) PROVE FamilyInv'
    BY <1>0, <2>1 DEF ListObjects, ListRaises, CleanRaises, clusterVars
  <2>2. CASE StartClean(s) \/ ListNamespaces(s) \/ DeleteRefused(s) \/ CleanDone(s)
    BY <1>0, <2>2 DEF StartClean, ListNamespaces, DeleteRefused, CleanDone,
       CleanRaises, clusterVars
  <2>3. CASE DeleteNamespace(s)
    BY <1>0, <2>3 DEF DeleteNamespace, CleanRaises, clusterVars
  <2> QED
    BY <1>2, <1>8, <2>1, <2>2, <2>3 DEF Clean
<1>9. ASSUME NEW n, TokenAppears(n) PROVE FamilyInv'
  BY <1>0, <1>9 DEF TokenAppears
<1>10. CASE UNCHANGED vars
  BY <1>0, <1>10 DEF vars, clusterVars
<1> QED
  BY <1>3, <1>4, <1>5, <1>7, <1>8, <1>9, <1>10 DEF Next, Cluster

ClosedForAll(s) == pc[s] = "closed" /\ "EVERYTHING" \in policy[s]

(* A pod in a namespace of s; one that the cluster is about to collect.    *)
Left(s, o) == Exists(o) /\ maker[home[o]] = s

Doomed(o) ==
  \/ life[o] = "dying"
  \/ Owner[o] # NoOwner /\ life[Owner[o]] = "gone"
  \/ space[home[o]] = "deleted"

(* Each pod left in a backend's namespaces after a quiet __exit__ with     *)
(* EVERYTHING is one that the cluster collects by itself.                  *)
PodsLeftAreDoomed ==
  \A s \in Sessions, o \in Pods : ClosedForAll(s) /\ Left(s, o) => Doomed(o)

(* And there never comes another one: no deployment is left to make it.    *)
NoPodComesBack ==
  [][\A s \in Sessions, o \in Pods :
       ClosedForAll(s) /\ ~Left(s, o) => ~Left(s, o)']_vars

LEMMA DoomedPods == IInv /\ FamilyInv => PodsLeftAreDoomed
<1> SUFFICES ASSUME IInv, FamilyInv, NEW s \in Sessions, NEW o \in Pods,
                    ClosedForAll(s), Left(s, o)
             PROVE  Doomed(o)
  BY DEF PodsLeftAreDoomed
<1> USE K8sAssumption
<1>1. /\ life[o] # "unborn" /\ home[o] \in Spaces /\ o \in Objects
      /\ maker[home[o]] = s /\ home[o] \in Namespaces
  BY DEF IInv, HomeInv, ManagedInv, Left, Exists, Objects, Spaces
<1>2. CASE "NAMESPACES" \in policy[s]
  BY <1>1, <1>2 DEF IInv, QuietExitDropsNamespaces, ClosedForAll, Doomed
<1>3. CASE "NAMESPACES" \notin policy[s] /\ Owner[o] = NoOwner
  <2>1. Wants(s, "pods") /\ o \in OfKind("pods") /\ "pods" \in Kinds
    BY DEF Wants, ClosedForAll, OfKind, Kinds
  <2>2. life[o] # "alive"
    BY <1>1, <1>3, <2>1 DEF IInv, QuietExitIsThorough, ClosedForAll
  <2> QED
    BY <2>2 DEF Left, Exists, Doomed
<1>4. CASE "NAMESPACES" \notin policy[s] /\ Owner[o] # NoOwner
  <2> DEFINE d == Owner[o]
  <2>1. d \in Deployments /\ d \in Objects
    BY <1>4 DEF Objects
  <2>2. life[d] \in {"alive", "gone"} /\ maker[home[d]] = s
    BY <1>1, <1>4 DEF FamilyInv
  <2>3. Wants(s, "deployments") /\ d \in OfKind("deployments") /\ "deployments" \in Kinds
    BY <2>1 DEF Wants, ClosedForAll, OfKind, Kinds
  <2>4. life[d] # "alive"
    BY <1>4, <2>1, <2>2, <2>3 DEF IInv, QuietExitIsThorough, ClosedForAll
  <2> QED
    BY <1>4, <2>2, <2>4 DEF Doomed
<1> QED
  BY <1>2, <1>3, <1>4

(* After a quiet exit with EVERYTHING the pods left are about to be        *)
(* collected, and they only ever get fewer: all that PodsDieOut adds is    *)
(* that the cluster's collector goes on.                                   *)
THEOREM OnlyDoomedPods == Spec => []PodsLeftAreDoomed /\ NoPodComesBack
<1> USE K8sAssumption
<1>1. Init => FamilyInv
  BY DEF Init, FamilyInv, Objects
<1>2. ASSUME IInv, FamilyInv, Next, NEW s \in Sessions, NEW o \in Pods,
             ClosedForAll(s), ~Left(s, o)
      PROVE  ~Left(s, o)'
  <2>0. o \in Objects /\ s # Nobody
    BY DEF Objects
  <2>1. ASSUME UNCHANGED <<home, life, maker>> PROVE ~Left(s, o)'
    BY <1>2, <2>1 DEF Left, Exists
  <2>2. ASSUME NEW t \in Sessions, NEW n \in Namespaces, CreateNamespace(t, n)
        PROVE  ~Left(s, o)'
    BY <1>2, <2>0, <2>2 DEF CreateNamespace, ClosedForAll, Left, Exists, IInv, TypeOK,
       HomeInv, Spaces
  <2>3. ASSUME NEW t \in Sessions, NEW q \in Objects,
               CreatePod(t, q) \/ CreateService(t, q) \/ CreateDeployment(t, q)
        PROVE  ~Left(s, o)'
    <3>1. PICK n \in Mine(t) : home' = [home EXCEPT ![q] = n]
      BY <2>3 DEF CreatePod, CreateService, CreateDeployment, Create
    <3>2. /\ life' = [life EXCEPT ![q] = "alive"] /\ maker' = maker
          /\ pc[t] = "open"
      BY <2>3 DEF CreatePod, CreateService, CreateDeployment, Create
    <3>3. n \in Namespaces
      BY <1>2 DEF IInv, TypeOK, Mine, Range
    <3>4. maker[n] # s
      BY <1>2, <3>2, <3>3 DEF IInv, ManagedInv, ClosedForAll
    <3>5. home \in [Objects -> Spaces \cup {Nowhere}] /\ DOMAIN life = Objects
      BY <1>2 DEF IInv, TypeOK
    <3> QED
      BY <1>2, <2>0, <3>1, <3>2, <3>4, <3>5 DEF Left, Exists
  <2>4. ASSUME NEW q \in Objects, Collect(q) PROVE ~Left(s, o)'
    BY <1>2, <2>0, <2>4 DEF Collect, Left, Exists, IInv, TypeOK
  <2>5. ASSUME NEW q \in Objects, CreateOutside(q) PROVE ~Left(s, o)'
    BY <1>2, <2>0, <2>5 DEF CreateOutside, Left, Exists, IInv, TypeOK, ManagedInv
  <2>6. ASSUME NEW t \in Sessions, NEW q \in Objects,
               DropObject(t, q) \/ DeleteObject(t, q)
        PROVE  ~Left(s, o)'
    BY <1>2, <2>0, <2>6 DEF DropObject, DeleteObject, CleanRaises, clusterVars, Left,
       Exists, Deleted, IInv, TypeOK
  <2>7. ASSUME NEW q \in Objects, Replicate(q) PROVE ~Left(s, o)'
    <3>1. CASE q # o
      BY <1>2, <2>0, <2>7, <3>1 DEF Replicate, Left, Exists, IInv, TypeOK
    <3>2. CASE q = o
      <4> DEFINE d == Owner[o]
      <4>1. /\ d \in Deployments /\ d \in Objects /\ life[d] = "alive"
            /\ space[home[d]] = "ready" /\ home'[o] = home[d] /\ maker' = maker
        <5>1. home \in [Objects -> Spaces \cup {Nowhere}]
          BY <1>2 DEF IInv, TypeOK
        <5> QED
          BY <2>0, <2>7, <3>2, <5>1 DEF Replicate, Objects
      <4>2. SUFFICES ASSUME maker[home[d]] = s PROVE FALSE
        BY <4>1 DEF Left
      <4>3. home[d] \in Namespaces
        BY <1>2, <2>0, <4>1, <4>2 DEF IInv, HomeInv, ManagedInv, Spaces
      <4>4. "NAMESPACES" \notin policy[s]
        BY <1>2, <4>1, <4>2, <4>3 DEF IInv, QuietExitDropsNamespaces, ClosedForAll
      <4>5. Wants(s, "deployments") /\ d \in OfKind("deployments")
            /\ "deployments" \in Kinds
        BY <1>2, <4>1 DEF Wants, ClosedForAll, OfKind, Kinds
      <4> QED
        BY <1>2, <4>1, <4>2, <4>4, <4>5 DEF IInv, QuietExitIsThorough, ClosedForAll
    <3> QED
      BY <3>1, <3>2
  <2>8. ASSUME NEW t \in Sessions, Call(t) PROVE ~Left(s, o)'
    <3>1. ASSUME NEW cleanup, Construct(t, cleanup) PROVE ~Left(s, o)'
      BY <2>1, <3>1 DEF Construct, clusterVars
    <3>2. ASSUME NEW n, DropNamespace(t, n) PROVE ~Left(s, o)'
      BY <2>1, <3>2 DEF DropNamespace
    <3>3. CASE NamespaceWaitOver(t)
      BY <2>1, <3>3 DEF NamespaceWaitOver, clusterVars
    <3> QED
      BY <2>2, <2>3, <2>6, <2>8, <3>1, <3>2, <3>3 DEF Call
  <2>9. ASSUME NEW t \in Sessions, Clean(t) PROVE ~Left(s, o)'
    <3>1. ASSUME NEW k, ListObjects(t, k) \/ ListRaises(t, k) PROVE ~Left(s, o)'
      BY <2>1, <3>1 DEF ListObjects, ListRaises, CleanRaises, clusterVars
    <3>2. CASE StartClean(t) \/ ListNamespaces(t) \/ DeleteRefused(t) \/ CleanDone(t)
      BY <2>1, <3>2 DEF StartClean, ListNamespaces, DeleteRefused, CleanDone,
         CleanRaises, clusterVars
    <3>3. CASE DeleteNamespace(t)
      BY <2>1, <3>3 DEF DeleteNamespace, CleanRaises, clusterVars
    <3> QED
      BY <2>6, <2>9, <3>1, <3>2, <3>3 DEF Clean
  <2>10. ASSUME NEW n, TokenAppears(n) PROVE ~Left(s, o)'
    BY <2>1, <2>10 DEF TokenAppears
  <2> QED
    BY <1>2, <2>4, <2>5, <2>7, <2>8, <2>9, <2>10 DEF Next, Cluster
<1>3. IInv /\ FamilyInv /\ [Next]_vars
        => [\A s \in Sessions, o \in Pods :
              ClosedForAll(s) /\ ~Left(s, o) => ~Left(s, o)']_vars
  BY <1>2
<1> QED
  BY <1>1, <1>3, InitInv, StepInv, StepFamily, DoomedPods, PTL
     DEF Spec, NoPodComesBack
=============================================================================
