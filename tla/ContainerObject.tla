-------------------------- MODULE ContainerObject --------------------------
(***************************************************************************)
(* One DockerContainer (conu/backend/docker/container.py) or               *)
(* PodmanContainer (conu/backend/podman/container.py): the Python object   *)
(* keeps an id, a name and the data of its latest inspection, the engine   *)
(* has the container.  The object may be made with an id or, as the        *)
(* constructor allows, with a name alone; containers run, exit, are        *)
(* removed and made anew under the same name while its methods, of several *)
(* requests each, are under way.  A podman command that is killed by a     *)
(* signal counts as a success (run_cmd looks for positive return codes).   *)
(***************************************************************************)
EXTENDS Integers, Sequences, FiniteSets

CONSTANTS
  MaxId,          \* bound: containers that bear the name, one after another
  NoId,           \* Python's None for an id
  Addrs,          \* the addresses of the container network
  NoAddr,         \* no address
  Local           \* the empty text, which connect takes for this host

ASSUME ObjectAssumption ==
  /\ MaxId \in Nat \ {0}
  /\ NoId \notin Int
  /\ NoAddr \notin Addrs /\ Local \notin Addrs /\ Local # NoAddr

Ids == 1..MaxId
NoData == [id |-> NoId, status |-> "none", addr |-> NoAddr, net |-> FALSE]

VARIABLES
  status,   \* each container: "none", "created", "running", "exited" or
            \* "removed"
  bearer,   \* the container that has the name now
  net,      \* the containers that belong to a network
  addr,     \* their addresses while they run
  taken,    \* the addresses of other people's containers
  podman,   \* the object is a PodmanContainer
  id,       \* self._id
  name,     \* the object knows the name (self.name)
  data,     \* self._inspect_data
  known,    \* self.metadata.ipv4_addresses: the first of them, or NoAddr
  op,       \* the running method, or "idle", and how far it is
  ports,    \* get_port_mappings: were there mappings at its first request
  exec,     \* the command of the running execute: "none", "running",
            \* "closed" (its output has ended, it has not), "ok" or "failed"
  result,   \* what the last method returned or "raised"
  acted     \* history: the containers the object has acted on by their id

netVars == <<net, addr, taken>>
engineVars == <<status, bearer, netVars>>
objectVars == <<podman, id, name, data, known>>
callVars == <<op, ports, exec, result, acted>>
vars == <<engineVars, objectVars, callVars>>

Data == [id : Ids, status : {"created", "running", "exited"},
         addr : Addrs \cup {NoAddr}, net : BOOLEAN]
Acts == {"start", "stop", "kill", "delete", "execute", "wait", "copy"}
Results == {"none", "done", "raised", "mappings", "[]", "None",
            "open", "elsewhere", "closed"}

TypeOK ==
  /\ status \in [Ids -> {"none", "created", "running", "exited", "removed"}]
  /\ bearer \in Ids \cup {NoId}
  /\ net \subseteq Ids
  /\ addr \in [Ids -> Addrs \cup {NoAddr}]
  /\ taken \subseteq Addrs
  /\ podman \in BOOLEAN
  /\ id \in Ids \cup {NoId}
  /\ name \in BOOLEAN
  /\ data \in Data \cup {NoData}
  /\ known \in Addrs \cup {NoAddr, Local}
  /\ op \in {"idle", "consume", "ports", "connect"} \cup Acts
  /\ ports \in BOOLEAN
  /\ exec \in {"none", "running", "closed", "ok", "failed"}
  /\ result \in Results
  /\ acted \subseteq Ids

(* An object over the first container: made with its id, by run_via_binary *)
(* or list_containers, or with its name.                                   *)
Init ==
  /\ status = [i \in Ids |-> IF i = 1 THEN "created" ELSE "none"]
  /\ bearer = 1
  /\ net = Ids /\ addr = [i \in Ids |-> NoAddr] /\ taken = {}
  /\ podman \in BOOLEAN
  /\ id \in {1, NoId}
  /\ name \in BOOLEAN
  /\ id = NoId => name
  /\ data = NoData /\ known = NoAddr
  /\ op = "idle" /\ ports = FALSE
  /\ exec = "none" /\ result = "none" /\ acted = {}

Exists(i) == i # NoId /\ status[i] \in {"created", "running", "exited"}

-----------------------------------------------------------------------------
(* The engine and its other users.                                         *)

Fails == IF exec \in {"running", "closed"} THEN "failed" ELSE exec

Free == Addrs \ (taken \cup {addr[i] : i \in Ids})

(* The container i goes from one state to the next; with it end the        *)
(* commands executed in it.  It has an address while it runs in a network. *)
Moves(i, old, new) ==
  /\ status[i] \in old
  /\ status' = [status EXCEPT ![i] = new]
  /\ \E a \in Free \cup {NoAddr, addr[i]} :
       /\ a # NoAddr <=> new = "running" /\ i \in net
       /\ addr' = [addr EXCEPT ![i] = a]
  /\ UNCHANGED <<net, taken>>
  /\ exec' = IF i \in acted /\ new # "running" THEN Fails ELSE exec

Exits(i) ==
  /\ Moves(i, {"running"}, "exited")
  /\ UNCHANGED <<bearer, objectVars, op, ports, result, acted>>

StartedByOthers(i) ==
  /\ Moves(i, {"created", "exited"}, "running")
  /\ UNCHANGED <<bearer, objectVars, op, ports, result, acted>>

RemovedByOthers(i) ==
  /\ Moves(i, {"created", "exited"}, "removed")
  /\ bearer' = IF bearer = i THEN NoId ELSE bearer
  /\ UNCHANGED <<objectVars, op, ports, result, acted>>

CreatedAnew(i) ==
  /\ bearer = NoId /\ status[i] = "none" /\ status[i - 1] # "none"
  /\ status' = [status EXCEPT ![i] = "created"]
  /\ bearer' = i
  /\ UNCHANGED <<netVars, objectVars, callVars>>

(* docker network disconnect.                                              *)
Disconnected(i) ==
  /\ Exists(i) /\ i \in net
  /\ net' = net \ {i} /\ addr' = [addr EXCEPT ![i] = NoAddr]
  /\ UNCHANGED <<status, bearer, taken, objectVars, callVars>>

TakenByOthers(a) ==
  /\ a \in Free \cup taken
  /\ taken' = IF a \in taken THEN taken \ {a} ELSE taken \cup {a}
  /\ UNCHANGED <<status, bearer, net, addr, objectVars, callVars>>

(* The executed command ends; its output may have ended before.  (podman   *)
(* exec waits for both; if it is killed the command may go on.)            *)
CommandEnds ==
  /\ exec \in {"running", "closed"}
  /\ \/ exec' \in {"ok", Fails}
     \/ exec = "running" /\ ~podman /\ exec' = "closed"
  /\ UNCHANGED <<engineVars, objectVars, op, ports, result, acted>>

-----------------------------------------------------------------------------
(* Inspection.                                                             *)

(* Faulty variant: the name goes before the id.                            *)
IdentifierByName == IF name THEN bearer ELSE id

(* The container that self._id or self.name identifies.                    *)
Identifier == IF id # NoId THEN id ELSE bearer

(* inspect(refresh=True)                                                   *)
Inspected ==
  /\ Exists(Identifier)
  /\ data' = [id |-> Identifier, status |-> status[Identifier],
              addr |-> addr[Identifier], net |-> Identifier \in net]

(* Faulty variant: the addresses are put down the first time only.         *)
LearnOnce ==
  known' = IF known = NoAddr /\ Identifier \in net THEN addr[Identifier]
           ELSE known

(* inspect_to_container_metadata: no network, no change of the addresses   *)
(* (Docker); no address is the empty one (Podman).                         *)
Learn ==
  known' = IF podman THEN IF addr[Identifier] = NoAddr THEN Local
                          ELSE addr[Identifier]
           ELSE IF Identifier \in net THEN addr[Identifier] ELSE known

(* get_id: without an id it is taken from the latest inspection, or from a *)
(* new one; a PodmanContainer always makes a new one.                      *)
GetId ==
  IF id # NoId THEN UNCHANGED <<id, data>>
  ELSE IF data # NoData /\ ~podman
         THEN id' = data.id /\ UNCHANGED data
         ELSE Inspected /\ id' = data'.id

(* is_running, get_status, exit_code and get_ports: one request.           *)
Query ==
  /\ op = "idle"
  /\ Inspected /\ result' = "done" /\ exec' = "none"
  /\ UNCHANGED <<engineVars, podman, id, name, known, op, ports, acted>>

(* get_metadata puts down what it has learnt; get_IPv4s returns that.      *)
GetIPv4s ==
  /\ op = "idle"
  /\ Inspected /\ Learn /\ result' = "done" /\ exec' = "none"
  /\ UNCHANGED <<engineVars, podman, id, name, op, ports, acted>>

(* NotFound, or the half output of a podman that was killed.               *)
Unanswered == ~Exists(Identifier) \/ podman

(* In a query or for want of an id to act on; is_running turns NotFound    *)
(* into False.                                                             *)
Raises ==
  /\ op = "idle" /\ Unanswered
  /\ result' = "raised" /\ exec' = "none"
  /\ UNCHANGED <<engineVars, objectVars, op, ports, acted>>

(* PodmanContainer.get_name asks only when it has no name.                 *)
GetName ==
  IF name THEN UNCHANGED <<name, data>>
  ELSE /\ name' = TRUE
       /\ IF data # NoData THEN UNCHANGED data ELSE Inspected

-----------------------------------------------------------------------------
(* Acting on the container: first its id, then the request.                *)

Begin(act) ==
  /\ op = "idle" /\ act \in Acts
  /\ podman => act \notin {"stop", "kill"}
  /\ IF podman /\ act = "delete"
       THEN GetName /\ UNCHANGED id
       ELSE GetId /\ UNCHANGED name
  /\ op' = act /\ exec' = "none" /\ result' = "none"
  /\ UNCHANGED <<engineVars, podman, known, ports, acted>>

(* Faulty variant: every engine deletes by name, as podman rm does here.   *)
TargetByName == IF op = "delete" THEN bearer ELSE id

Target == IF podman /\ op = "delete" THEN bearer ELSE id

Ends(r) == op' = "idle" /\ result' = r

(* start; stop and kill; delete(force=True).                               *)
Act ==
  /\ Exists(Target)
  /\ \/ /\ op = "start"
        /\ Moves(Target, {"created", "exited"}, "running")
        /\ UNCHANGED bearer
     \/ /\ op \in {"stop", "kill"}
        /\ Moves(Target, {"running"}, "exited")
        /\ UNCHANGED bearer
     \/ /\ op = "delete"
        /\ Moves(Target, {"created", "running", "exited"}, "removed")
        /\ bearer' = IF bearer = Target THEN NoId ELSE bearer
  /\ acted' = IF podman /\ op = "delete" THEN acted ELSE acted \cup {Target}
  /\ Ends("done")
  /\ UNCHANGED <<objectVars, ports>>

(* The engine refuses: no such container, not running, or running and not  *)
(* forced.                                                                 *)
ActRaises ==
  /\ op \in Acts
  /\ Exists(Target) =>
       \/ op \in {"kill", "execute"} /\ status[Target] # "running"
       \/ op = "delete" /\ (podman \/ status[Target] = "running")
  /\ Ends("raised")
  /\ UNCHANGED <<engineVars, objectVars, ports, exec, acted>>

(* copy_to, copy_from and logs change nothing.                             *)
Read ==
  /\ op = "copy" /\ Exists(Target)
  /\ Ends("done")
  /\ UNCHANGED <<engineVars, objectVars, ports, exec, acted>>

(* Stopping a container that does not run and starting one that does is    *)
(* nothing; wait returns when it has stopped.                              *)
ActIdly ==
  /\ Exists(Target)
  /\ op \in IF status[Target] = "running" THEN {"start"} ELSE {"stop", "wait"}
  /\ Ends("done")
  /\ UNCHANGED <<engineVars, objectVars, ports, exec, acted>>

(* execute: exec_create and exec_start, then reading until the output ends *)
(* and asking for the exit code, which is None for a running command.      *)
Execute ==
  /\ op = "execute" /\ Exists(Target) /\ status[Target] = "running"
  /\ op' = "consume" /\ exec' = "running"
  /\ acted' = acted \cup {Target}
  /\ UNCHANGED <<engineVars, objectVars, ports, result>>

ExecuteEnds ==
  /\ op = "consume" /\ exec \in {"closed", "ok", "failed"}
  /\ Ends(IF exec = "failed" THEN "raised" ELSE "done")
  /\ UNCHANGED <<engineVars, objectVars, ports, exec, acted>>

(* podman start, rm, wait, logs or exec is killed before it has done       *)
(* anything, or while the command runs.                                    *)
PodmanKilled ==
  /\ podman /\ op \in Acts \cup {"consume"}
  /\ Ends("done")
  /\ UNCHANGED <<engineVars, objectVars, ports, exec, acted>>

-----------------------------------------------------------------------------
(* get_port_mappings(port): the mappings are those of one request, whether *)
(* the port is among them is asked of another.                             *)

PortsFirst ==
  /\ op = "idle"
  /\ Inspected
  /\ op' = "ports" /\ ports' = (data'.status = "running")
  /\ result' = "none" /\ exec' = "none"
  /\ UNCHANGED <<engineVars, podman, id, name, known, acted>>

PortsSecond ==
  /\ op = "ports"
  /\ Inspected
  /\ Ends(IF data'.status # "running" THEN "[]"
          ELSE IF ports THEN "mappings" ELSE "None")
  /\ UNCHANGED <<engineVars, podman, id, name, known, ports, exec, acted>>

PortsRaise ==
  /\ op = "ports" /\ Unanswered
  /\ Ends("raised")
  /\ UNCHANGED <<engineVars, objectVars, ports, exec, acted>>

-----------------------------------------------------------------------------
(* is_port_open(port), by itself or as the function of wait_for_port: the  *)
(* address is that of one inspection, the connection comes later.          *)

Address ==
  /\ op = "idle"
  /\ Inspected /\ Learn
  /\ IF known' = NoAddr THEN op' = "idle" /\ result' = "closed"
     ELSE op' = "connect" /\ result' = "none"
  /\ exec' = "none"
  /\ UNCHANGED <<engineVars, podman, id, name, ports, acted>>

(* check_port: somebody at the address listens, or does not.               *)
Connect ==
  /\ op = "connect"
  /\ \/ Ends("closed")
     \/ known \in taken \cup {Local} /\ Ends("elsewhere")
     \/ \E i \in Ids : /\ addr[i] = known
                       /\ Ends(IF i = data.id THEN "open" ELSE "elsewhere")
  /\ UNCHANGED <<engineVars, objectVars, ports, exec, acted>>

-----------------------------------------------------------------------------

Others ==
  \/ \E i \in Ids : \/ Exits(i) \/ StartedByOthers(i)
                    \/ RemovedByOthers(i) \/ CreatedAnew(i)
                    \/ Disconnected(i)
  \/ \E a \in Addrs : TakenByOthers(a)
  \/ CommandEnds

Call == Query \/ GetIPv4s \/ Raises \/ (\E act \in Acts : Begin(act))
          \/ PortsFirst \/ Address

Return == Act \/ ActRaises \/ Read \/ ActIdly \/ Execute \/ ExecuteEnds
            \/ PodmanKilled \/ PortsSecond \/ PortsRaise \/ Connect

Next == Others \/ Call \/ Return

Spec == Init /\ [][Next]_vars

-----------------------------------------------------------------------------

(* Everything that one object does by an id is done to one container, even *)
(* if it was made with a name that another container bears by now (get_id  *)
(* keeps the id for good).  PodmanContainer.delete alone goes by the name. *)
ActsOnOneContainer == Cardinality(acted) <= 1

(* Once the id is known, what the object says of its container is of that  *)
(* container: a later inspection never goes by the name again.             *)
DataIsOfTheId == id # NoId /\ data # NoData => data.id = id

(* is_port_open asks for the address of its container each time, so it     *)
(* takes another machine's answer for its container's only if that has     *)
(* changed its address between the inspection and the connection, or if    *)
(* the inspection showed none: no address for podman, and for Docker no    *)
(* network, in which case the list of an earlier one is kept.              *)
OpenPortIsItsOwn ==
  [][op = "connect" /\ result' = "elsewhere" =>
       \/ addr[data.id] # data.addr
       \/ IF podman THEN data.addr = NoAddr ELSE ~data.net]_vars

=============================================================================
