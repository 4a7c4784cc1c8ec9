------------------------ MODULE ContainerObjectProofs ------------------------
(***************************************************************************)
(* Proofs about ContainerObject, for any number of containers that bear    *)
(* the name one after the other, and any addresses: which container the    *)
(* object acts on and speaks of, and what an open port tells.              *)
(***************************************************************************)
EXTENDS ContainerObject, FiniteSetTheorems, TLAPS

(* Two running containers never have the same address, nor one that is     *)
(* taken.                                                                  *)
AddrInv ==
  /\ \A i \in Ids : addr[i] # NoAddr => addr[i] \notin taken
  /\ \A i, j \in Ids : addr[i] = addr[j] /\ addr[i] # NoAddr => i = j

(* Whatever was done by an id was done by the one that is known now.       *)
IdInv == acted \subseteq {id} /\ DataIsOfTheId

(* Between the two steps of is_port_open, the address is the one inspected *)
(* or the inspection showed none.                                          *)
ConnectInv ==
  op = "connect" =>
    /\ result = "none" /\ data \in Data /\ known # NoAddr
    /\ \/ known = data.addr
       \/ IF podman THEN data.addr = NoAddr ELSE ~data.net

-----------------------------------------------------------------------------
(* What the steps are made of.                                             *)

LEMMA MovesTypes ==
  ASSUME TypeOK, NEW i \in Ids, NEW old, NEW new,
         new \in {"running", "exited", "removed"}, Moves(i, old, new)
  PROVE  /\ status' \in [Ids -> {"none", "created", "running",
                                 "exited", "removed"}]
         /\ addr' \in [Ids -> Addrs \cup {NoAddr}]
         /\ UNCHANGED <<net, taken>>
         /\ exec' \in {"none", "running", "closed", "ok", "failed"}
<1>1. PICK a \in Free \cup {NoAddr, addr[i]} :
        addr' = [addr EXCEPT ![i] = a]
  BY DEF Moves
<1>2. a \in Addrs \cup {NoAddr}
  BY <1>1 DEF Free, TypeOK
<1>3. exec' \in {"none", "running", "closed", "ok", "failed"}
  BY DEF Moves, Fails, TypeOK
<1> QED
  BY <1>1, <1>2, <1>3 DEF Moves, TypeOK

(* A container that moves gets an address that nobody has.                 *)
LEMMA MovesAddr ==
  ASSUME TypeOK, AddrInv, NEW i \in Ids, NEW old, NEW new, Moves(i, old, new)
  PROVE  AddrInv'
<1>1. PICK a \in Free \cup {NoAddr, addr[i]} :
        addr' = [addr EXCEPT ![i] = a] /\ taken' = taken
  BY DEF Moves
<1>2. a # NoAddr => a \notin taken /\ \A j \in Ids : addr[j] = a => j = i
  BY <1>1 DEF AddrInv, Free
<1> QED
  BY <1>1, <1>2 DEF AddrInv, TypeOK

LEMMA IdentifierFacts ==
  TypeOK => /\ Identifier \in Ids \cup {NoId} /\ Target \in Ids \cup {NoId}
            /\ id # NoId => Identifier = id
  BY DEF TypeOK, Identifier, Target

LEMMA InspectedFacts ==
  ASSUME TypeOK, Inspected
  PROVE  /\ data' \in Data /\ Identifier \in Ids
         /\ data'.id = Identifier /\ data'.addr = addr[Identifier]
         /\ data'.net = (Identifier \in net)
<1>1. Identifier \in Ids
  BY IdentifierFacts DEF Inspected, Exists
<1>2. status[Identifier] \in {"created", "running", "exited"}
  BY DEF Inspected, Exists
<1>3. data' = [id |-> Identifier, status |-> status[Identifier],
               addr |-> addr[Identifier], net |-> Identifier \in net]
  BY DEF Inspected
<1>4. addr[Identifier] \in Addrs \cup {NoAddr}
  BY <1>1 DEF TypeOK
<1> QED
  BY <1>1, <1>2, <1>3, <1>4 DEF Data

LEMMA GetIdTypes ==
  ASSUME TypeOK, GetId
  PROVE  id' \in Ids \cup {NoId} /\ data' \in Data \cup {NoData}
<1>1. CASE id # NoId
  BY <1>1 DEF GetId, TypeOK
<1>2. CASE id = NoId /\ data # NoData /\ ~podman
  BY <1>2 DEF GetId, TypeOK, Data
<1>3. CASE id = NoId /\ ~(data # NoData /\ ~podman)
  <2>1. Inspected /\ id' = data'.id
    BY <1>3 DEF GetId
  <2> QED
    BY <1>3, <2>1, InspectedFacts
<1> QED
  BY <1>1, <1>2, <1>3

LEMMA GetNameTypes ==
  ASSUME TypeOK, GetName
  PROVE  name' \in BOOLEAN /\ data' \in Data \cup {NoData}
<1>1. CASE UNCHANGED <<name, data>>
  BY <1>1 DEF TypeOK
<1>2. CASE name' = TRUE /\ UNCHANGED data
  BY <1>2 DEF TypeOK
<1>3. CASE name' = TRUE /\ Inspected
  BY <1>3, InspectedFacts
<1> QED
  BY <1>1, <1>2, <1>3 DEF GetName

(* An identity, once known, is kept, and the data agree with it.           *)
LEMMA GetIdFacts ==
  ASSUME TypeOK, DataIsOfTheId, GetId
  PROVE  /\ id # NoId => id' = id
         /\ id' # NoId /\ data' # NoData => data'.id = id'
<1>1. CASE id # NoId
  BY <1>1 DEF GetId, TypeOK, DataIsOfTheId
<1>2. CASE id = NoId /\ data # NoData /\ ~podman
  BY <1>2 DEF GetId, TypeOK, Data
<1>3. CASE id = NoId /\ ~(data # NoData /\ ~podman)
  <2>1. Inspected /\ id' = data'.id
    BY <1>3 DEF GetId
  <2> QED
    BY <1>3, <2>1, InspectedFacts
<1> QED
  BY <1>1, <1>2, <1>3

LEMMA GetNameFacts ==
  ASSUME TypeOK, DataIsOfTheId, GetName
  PROVE  id # NoId /\ data' # NoData => data'.id = id
<1>1. CASE UNCHANGED data
  BY <1>1 DEF DataIsOfTheId
<1>2. CASE Inspected
  BY <1>2, InspectedFacts, IdentifierFacts
<1> QED
  BY <1>1, <1>2 DEF GetName

LEMMA LearnFacts ==
  ASSUME TypeOK, Identifier \in Ids, Learn
  PROVE  /\ known' \in Addrs \cup {NoAddr, Local}
         /\ \/ known' = addr[Identifier]
            \/ IF podman THEN addr[Identifier] = NoAddr
                         ELSE Identifier \notin net
<1>1. addr[Identifier] \in Addrs \cup {NoAddr}
  BY DEF TypeOK
<1>2. CASE podman
  BY <1>1, <1>2 DEF Learn
<1>3. CASE ~podman
  BY <1>1, <1>3 DEF Learn, TypeOK
<1> QED
  BY <1>2, <1>3

(* What Act does to the engine.                                            *)
LEMMA ActFacts ==
  ASSUME TypeOK, Act
  PROVE  /\ Target \in Ids /\ bearer' \in {bearer, NoId}
         /\ \E old, new : /\ new \in {"running", "exited", "removed"}
                          /\ Moves(Target, old, new)
<1>1. Target \in Ids /\ bearer' \in {bearer, NoId}
  BY IdentifierFacts DEF Act, Exists
<1> QED
  BY <1>1 DEF Act

-----------------------------------------------------------------------------
(* The types.                                                              *)

LEMMA InitTypes == Init => TypeOK
<1> SUFFICES ASSUME Init PROVE TypeOK
  OBVIOUS
<1>1. podman \in BOOLEAN /\ name \in BOOLEAN /\ ports \in BOOLEAN
  BY DEF Init
<1> QED
  BY <1>1, ObjectAssumption DEF Init, TypeOK, Ids, Results

LEMMA StepTypes == TypeOK /\ [Next]_vars => TypeOK'
<1> SUFFICES ASSUME TypeOK, [Next]_vars PROVE TypeOK'
  OBVIOUS
<1> USE ObjectAssumption
    DEF Ends, engineVars, netVars, objectVars, callVars
<1>1. ASSUME NEW i \in Ids,
             Exits(i) \/ StartedByOthers(i) \/ RemovedByOthers(i)
      PROVE  TypeOK'
  <2>1. /\ bearer' \in {bearer, NoId}
        /\ UNCHANGED <<objectVars, op, ports, result, acted>>
        /\ \E old, new : /\ new \in {"running", "exited", "removed"}
                         /\ Moves(i, old, new)
    BY <1>1 DEF Exits, StartedByOthers, RemovedByOthers
  <2> QED
    BY <2>1, MovesTypes DEF TypeOK
<1>2. ASSUME NEW i \in Ids, CreatedAnew(i) \/ Disconnected(i) PROVE TypeOK'
  BY <1>2 DEF CreatedAnew, Disconnected, TypeOK
<1>3. ASSUME NEW a \in Addrs, TakenByOthers(a) PROVE TypeOK'
  BY <1>3 DEF TakenByOthers, TypeOK
<1>4. CASE CommandEnds
  BY <1>4 DEF CommandEnds, Fails, TypeOK
<1>5. CASE Query
  BY <1>5, InspectedFacts DEF Query, TypeOK, Results
<1>6. CASE GetIPv4s
  BY <1>6, InspectedFacts, LearnFacts DEF GetIPv4s, TypeOK, Results
<1>7. CASE Raises \/ PortsRaise \/ Connect
  BY <1>7 DEF Raises, PortsRaise, Connect, TypeOK, Results
<1>8. ASSUME NEW act \in Acts, Begin(act) PROVE TypeOK'
  <2>1. /\ id' \in Ids \cup {NoId} /\ name' \in BOOLEAN
        /\ data' \in Data \cup {NoData}
    BY <1>8, GetIdTypes, GetNameTypes DEF Begin, TypeOK
  <2>2. /\ op' \in Acts /\ exec' = "none" /\ result' = "none"
        /\ UNCHANGED <<engineVars, podman, known, ports, acted>>
    BY <1>8 DEF Begin
  <2> QED
    BY <2>1, <2>2 DEF TypeOK, Results
<1>9. CASE PortsFirst
  BY <1>9, InspectedFacts DEF PortsFirst, TypeOK, Results
<1>10. CASE PortsSecond
  BY <1>10, InspectedFacts DEF PortsSecond, TypeOK, Results
<1>11. CASE Address
  BY <1>11, InspectedFacts, LearnFacts DEF Address, TypeOK, Results
<1>12. CASE Act
  <2>1. /\ status' \in [Ids -> {"none", "created", "running",
                                "exited", "removed"}]
        /\ addr' \in [Ids -> Addrs \cup {NoAddr}]
        /\ UNCHANGED <<net, taken>>
        /\ exec' \in {"none", "running", "closed", "ok", "failed"}
    BY <1>12, ActFacts, MovesTypes
  <2>2. /\ acted' \subseteq Ids
        /\ op' = "idle" /\ result' = "done" /\ UNCHANGED <<objectVars, ports>>
    BY <1>12, ActFacts DEF Act, TypeOK
  <2> QED
    BY <1>12, <2>1, <2>2, ActFacts DEF TypeOK, Results
<1>13. CASE ActRaises \/ Read \/ ActIdly \/ ExecuteEnds \/ PodmanKilled
  BY <1>13 DEF ActRaises, Read, ActIdly, ExecuteEnds, PodmanKilled, TypeOK,
               Results
<1>14. CASE Execute
  BY <1>14, IdentifierFacts DEF Execute, Exists, TypeOK
<1>15. CASE UNCHANGED vars
  BY <1>15 DEF vars, TypeOK
<1> QED
  BY <1>1, <1>2, <1>3, <1>4, <1>5, <1>6, <1>7, <1>8, <1>9, <1>10, <1>11,
     <1>12, <1>13, <1>14, <1>15
     DEF Next, Others, Call, Return

(* Every variable is of its kind, in every reachable state.                *)
THEOREM TypeCorrect == Spec => []TypeOK
  BY InitTypes, StepTypes, PTL DEF Spec

-----------------------------------------------------------------------------
(* One object, one container.                                              *)

LEMMA IdStep == TypeOK /\ IdInv /\ [Next]_vars => IdInv'
<1> SUFFICES ASSUME TypeOK, IdInv, [Next]_vars PROVE IdInv'
  OBVIOUS
<1> USE DEF IdInv, objectVars, callVars
<1>1. CASE Query \/ GetIPv4s \/ PortsFirst \/ PortsSecond \/ Address
  <2>1. Inspected /\ UNCHANGED <<id, acted>>
    BY <1>1 DEF Query, GetIPv4s, PortsFirst, PortsSecond, Address
  <2> QED
    BY <2>1, InspectedFacts, IdentifierFacts DEF DataIsOfTheId
<1>2. ASSUME NEW act \in Acts, Begin(act) PROVE IdInv'
  <2>1. UNCHANGED acted /\ ((GetName /\ UNCHANGED id) \/ GetId)
    BY <1>2 DEF Begin
  <2>2. NoId \notin Ids
    BY ObjectAssumption DEF Ids
  <2> QED
    BY <2>1, <2>2, GetIdFacts, GetNameFacts DEF DataIsOfTheId, TypeOK
<1>3. CASE Act \/ Execute
  BY <1>3 DEF Act, Execute, Target, DataIsOfTheId
<1>4. CASE UNCHANGED <<id, data, acted>>
  BY <1>4 DEF DataIsOfTheId
<1>5. Others \/ Raises \/ ActRaises \/ Read \/ ActIdly \/ ExecuteEnds
        \/ PodmanKilled \/ PortsRaise \/ Connect \/ UNCHANGED vars
        => UNCHANGED <<id, data, acted>>
  BY DEF Others, Exits, StartedByOthers, RemovedByOthers, CreatedAnew,
         Disconnected, TakenByOthers, CommandEnds, Raises, ActRaises, Read,
         ActIdly, ExecuteEnds, PodmanKilled, PortsRaise, Connect, vars
<1> QED
  BY <1>1, <1>2, <1>3, <1>4, <1>5 DEF Next, Call, Return

LEMMA InitId == Init => IdInv
  BY DEF Init, IdInv, DataIsOfTheId

(* One object acts on one container by its id, however many have borne the *)
(* name it was made with.                                                  *)
THEOREM OneContainer == Spec => []ActsOnOneContainer
<1>1. IdInv => ActsOnOneContainer
  <2> SUFFICES ASSUME IdInv PROVE Cardinality(acted) <= 1
    BY DEF ActsOnOneContainer
  <2>1. acted \subseteq {id} /\ IsFiniteSet({id}) /\ Cardinality({id}) = 1
    BY FS_Singleton DEF IdInv
  <2> QED
    BY <2>1, FS_Subset
<1> QED
  BY <1>1, InitId, IdStep, TypeCorrect, PTL DEF Spec

(* What the object says is of the container that its id names.             *)
THEOREM DataAgree == Spec => []DataIsOfTheId
<1>1. IdInv => DataIsOfTheId
  BY DEF IdInv
<1> QED
  BY <1>1, InitId, IdStep, TypeCorrect, PTL DEF Spec

-----------------------------------------------------------------------------
(* is_port_open.                                                           *)

LEMMA AddrStep == TypeOK /\ AddrInv /\ [Next]_vars => AddrInv'
<1> SUFFICES ASSUME TypeOK, AddrInv, [Next]_vars PROVE AddrInv'
  OBVIOUS
<1>1. ASSUME NEW i \in Ids,
             Exits(i) \/ StartedByOthers(i) \/ RemovedByOthers(i)
      PROVE  AddrInv'
  BY <1>1, MovesAddr DEF Exits, StartedByOthers, RemovedByOthers
<1>2. ASSUME NEW i \in Ids, Disconnected(i) PROVE AddrInv'
  BY <1>2 DEF Disconnected, AddrInv, TypeOK
<1>3. ASSUME NEW a \in Addrs, TakenByOthers(a) PROVE AddrInv'
  BY <1>3 DEF TakenByOthers, AddrInv, Free
<1>4. CASE Act
  BY <1>4, ActFacts, MovesAddr
<1>5. CASE UNCHANGED <<addr, taken>>
  BY <1>5 DEF AddrInv
<1>6. /\ (\E i \in Ids : CreatedAnew(i)) => UNCHANGED <<addr, taken>>
      /\ CommandEnds \/ Call \/ UNCHANGED vars => UNCHANGED <<addr, taken>>
      /\ ActRaises \/ Read \/ ActIdly \/ Execute \/ ExecuteEnds
           \/ PodmanKilled \/ PortsSecond \/ PortsRaise \/ Connect
           => UNCHANGED <<addr, taken>>
  BY DEF CreatedAnew, CommandEnds, Call, Query, GetIPv4s, Raises, Begin,
         PortsFirst, Address, ActRaises, Read, ActIdly, Execute, ExecuteEnds,
         PodmanKilled, PortsSecond, PortsRaise, Connect, vars, engineVars,
         netVars
<1> QED
  BY <1>1, <1>2, <1>3, <1>4, <1>5, <1>6 DEF Next, Others, Return

LEMMA ConnectStep == TypeOK /\ ConnectInv /\ [Next]_vars => ConnectInv'
<1> SUFFICES ASSUME TypeOK, ConnectInv, [Next]_vars, op' = "connect"
             PROVE  ConnectInv'
  BY DEF ConnectInv
<1> USE DEF objectVars, callVars, Ends
<1>1. CASE Address
  BY <1>1, InspectedFacts, LearnFacts DEF Address, ConnectInv
<1>2. CASE UNCHANGED <<podman, data, known, op, result>>
  BY <1>2 DEF ConnectInv
<1>3. Others \/ UNCHANGED vars
        => UNCHANGED <<podman, data, known, op, result>>
  BY DEF Others, Exits, StartedByOthers, RemovedByOthers, CreatedAnew,
         Disconnected, TakenByOthers, CommandEnds, vars
<1>4. ~Return /\ ~Query /\ ~GetIPv4s /\ ~Raises /\ ~PortsFirst
  BY DEF Return, Act, ActRaises, Read, ActIdly, Execute, ExecuteEnds,
         PodmanKilled, PortsSecond, PortsRaise, Connect, Query, GetIPv4s,
         Raises, PortsFirst
<1>5. ASSUME NEW act \in Acts PROVE ~Begin(act)
  BY DEF Begin, Acts
<1> QED
  BY <1>1, <1>2, <1>3, <1>4, <1>5 DEF Next, Call

(* is_port_open takes no other machine's answer for its container's,       *)
(* unless the container has changed its address since the inspection or    *)
(* that showed none.                                                       *)
THEOREM OpenPorts == Spec => OpenPortIsItsOwn
<1> DEFINE Own == op = "connect" /\ result' = "elsewhere" =>
                    \/ addr[data.id] # data.addr
                    \/ IF podman THEN data.addr = NoAddr ELSE ~data.net
<1>1. Init => AddrInv /\ ConnectInv
  BY DEF Init, AddrInv, ConnectInv
<1>2. TypeOK /\ AddrInv /\ ConnectInv /\ [Next]_vars => [Own]_vars
  <2> SUFFICES ASSUME TypeOK, AddrInv, ConnectInv, Next, op = "connect",
                      result' = "elsewhere", addr[data.id] = data.addr,
                      known = data.addr
               PROVE  FALSE
    BY DEF ConnectInv
  <2>1. /\ data.id \in Ids /\ data.addr \in Addrs
        /\ addr[data.id] \notin taken /\ known # Local
    BY ObjectAssumption DEF ConnectInv, Data, AddrInv
  <2>2. ~Connect
    BY <2>1, ObjectAssumption DEF Connect, AddrInv, Ends
  <2>3. ~Others
    BY DEF ConnectInv, Others, Exits, StartedByOthers, RemovedByOthers,
           CreatedAnew, Disconnected, TakenByOthers, CommandEnds, callVars
  <2>4. Return => Connect
    BY DEF Return, Act, ActRaises, Read, ActIdly, Execute, ExecuteEnds,
           PodmanKilled, PortsSecond, PortsRaise, Acts
  <2>5. ~Call
    BY DEF Call, Query, GetIPv4s, Raises, Begin, PortsFirst, Address
  <2> QED
    BY <2>2, <2>3, <2>4, <2>5 DEF Next
<1> QED
  BY <1>1, <1>2, AddrStep, ConnectStep, TypeCorrect, PTL
     DEF Spec, OpenPortIsItsOwn
=============================================================================
