--------------------------- MODULE DockerSessions ---------------------------
(***************************************************************************)
(* Conu processes that run and clean up containers on one docker engine:   *)
(* DockerImage.run_via_binary, run_via_binary_in_foreground, _run_container*)
(* and run_via_api, DockerContainer.stop and delete, and                   *)
(* DockerBackend.cleanup_containers.                                       *)
(*                                                                         *)
(* A run starts the docker client, which creates the container, writes its *)
(* id into the cid file and starts the container; conu waits for the file  *)
(* with a Probe and inspects the container the file names.  Each run is    *)
(* named by the container it would create.  The docker client, the engine, *)
(* the containers and the other sessions take their steps in between.      *)
(***************************************************************************)
EXTENDS FiniteSets

CONSTANTS
  Sessions,     \* conu processes
  Containers,   \* one per run
  Nobody,       \* not a session
  Clis,         \* how a run may be asked for: "bg", "fg", "api"
  AutoRemoves,  \* whether a run may ask for --rm: a set of BOOLEANs
  Deletes       \* TRUE if the sessions stop and delete containers themselves

ASSUME SessionsAssumption ==
  /\ Nobody \notin Sessions /\ Containers # {}
  /\ Clis \subseteq {"bg", "fg", "api"}
  /\ AutoRemoves \subseteq BOOLEAN
  /\ Deletes \in BOOLEAN

VARIABLES
  engine,    \* each container on the engine
  owner,     \* the session that asked for it
  how,       \* and the way it did
  auto,      \* it was asked for with --rm
  cli,       \* the docker client of the run
  cid,       \* the cid file of the run names the container
  pc,        \* where each session is
  cur,       \* the run a session is in
  handles,   \* the containers whose objects a session's caller holds
  todo,      \* what the session's cleanup_containers has still to remove
  listed,    \* history: what it listed
  remover,   \* history: who removed the container
  started    \* history: the container has been running

vars == <<engine, owner, how, auto, cli, cid, pc, cur, handles, todo, listed,
          remover, started>>

OnEngine == {"created", "running", "exited"}

TypeOK ==
  /\ engine \in [Containers -> {"unborn", "removed"} \cup OnEngine]
  /\ owner \in [Containers -> Sessions \cup {Nobody}]
  /\ how \in [Containers -> {"bg", "fg", "api"}]
  /\ auto \in [Containers -> BOOLEAN]
  /\ cli \in [Containers -> {"none", "connecting", "created", "written",
                             "started", "failed", "killed", "dead"}]
  /\ cid \in [Containers -> BOOLEAN]
  /\ pc \in [Sessions -> {"idle", "calling", "probing", "inspecting",
                          "stopping", "removing", "closed", "aborted"}]
  /\ cur \in [Sessions -> Containers]
  /\ handles \in [Sessions -> SUBSET Containers]
  /\ todo \in [Sessions -> SUBSET Containers]
  /\ listed \in [Sessions -> SUBSET Containers]
  /\ remover \in [Containers -> Sessions \cup {Nobody}]
  /\ started \in [Containers -> BOOLEAN]

Init ==
  /\ engine = [c \in Containers |-> "unborn"]
  /\ owner = [c \in Containers |-> Nobody]
  /\ how = [c \in Containers |-> "bg"]
  /\ auto = [c \in Containers |-> FALSE]
  /\ cli = [c \in Containers |-> "none"]
  /\ cid = [c \in Containers |-> FALSE]
  /\ pc = [s \in Sessions |-> "idle"]
  /\ cur = [s \in Sessions |-> CHOOSE c \in Containers : TRUE]
  /\ handles = [s \in Sessions |-> {}]
  /\ todo = [s \in Sessions |-> {}]
  /\ listed = [s \in Sessions |-> {}]
  /\ remover = [c \in Containers |-> Nobody]
  /\ started = [c \in Containers |-> FALSE]

(* The docker client was killed, and its last request may still be on its  *)
(* way to the engine ("killed") or not ("dead").                           *)
Killed == {"killed", "dead"}

Goto(s, label) == pc' = [pc EXCEPT ![s] = label]

-----------------------------------------------------------------------------
(* Running a container.                                                    *)

(* Runs are interchangeable: each takes the next name.                     *)
Ask(s, c, way, rm) ==
  /\ pc[s] = "idle" /\ owner[c] = Nobody
  /\ c = CHOOSE x \in Containers : owner[x] = Nobody
  /\ owner' = [owner EXCEPT ![c] = s]
  /\ how' = [how EXCEPT ![c] = way]
  /\ auto' = [auto EXCEPT ![c] = rm]

(* The callback of run_via_binary waits for the docker client; the one of  *)
(* run_via_binary_in_foreground only starts it.                            *)
RunBinary(s, c, way, rm) ==
  /\ way \in {"bg", "fg"}
  /\ Ask(s, c, way, rm)
  /\ cli' = [cli EXCEPT ![c] = "connecting"]
  /\ cur' = [cur EXCEPT ![s] = c]
  /\ Goto(s, IF way = "bg" THEN "calling" ELSE "probing")
  /\ UNCHANGED <<engine, cid, handles, todo, listed, remover, started>>

(* run_via_api creates the container, without conu's label, and returns.   *)
RunApi(s, c, rm) ==
  /\ "api" \in Clis
  /\ Ask(s, c, "api", rm)
  /\ engine' = [engine EXCEPT ![c] = "created"]
  /\ handles' = [handles EXCEPT ![s] = @ \cup {c}]
  /\ UNCHANGED <<cli, cid, pc, cur, todo, listed, remover, started>>

(* Faulty variant: run_cmd does not wait for the docker client.            *)
CallbackReturnsEarly(s) ==
  /\ pc[s] = "calling" /\ cli[cur[s]] \in {"written", "started"}
  /\ Goto(s, "probing")
  /\ UNCHANGED <<engine, owner, how, auto, cli, cid, cur, handles, todo,
                 listed, remover, started>>

(* run_cmd asks whether the exit code is greater than 0, and that of a     *)
(* client killed by a signal is negative: a killed client is a success.    *)
CallbackReturns(s) ==
  /\ pc[s] = "calling" /\ cli[cur[s]] \in {"started"} \cup Killed
  /\ Goto(s, "probing")
  /\ UNCHANGED <<engine, owner, how, auto, cli, cid, cur, handles, todo,
                 listed, remover, started>>

(* ConuException: the client failed.  What it created stays.               *)
CallbackRaises(s) ==
  /\ pc[s] = "calling" /\ cli[cur[s]] = "failed"
  /\ Goto(s, "idle")
  /\ UNCHANGED <<engine, owner, how, auto, cli, cid, cur, handles, todo,
                 listed, remover, started>>

ProbeSees(s) ==
  /\ pc[s] = "probing" /\ cid[cur[s]]
  /\ Goto(s, "inspecting")
  /\ UNCHANGED <<engine, owner, how, auto, cli, cid, cur, handles, todo,
                 listed, remover, started>>

(* CountExceeded or ProbeTimeout after two seconds: nobody tells the       *)
(* client.                                                                 *)
ProbeRaises(s) ==
  /\ pc[s] = "probing"
  /\ Goto(s, "idle")
  /\ UNCHANGED <<engine, owner, how, auto, cli, cid, cur, handles, todo,
                 listed, remover, started>>

(* The container is looked up for its name: it may be gone by now.         *)
Inspect(s) ==
  /\ pc[s] = "inspecting"
  /\ Goto(s, "idle")
  /\ handles' = IF engine[cur[s]] \in OnEngine
                  THEN [handles EXCEPT ![s] = @ \cup {cur[s]}] ELSE handles
  /\ UNCHANGED <<engine, owner, how, auto, cli, cid, cur, todo, listed,
                 remover, started>>

-----------------------------------------------------------------------------
(* The docker client of a run, and the container.                          *)

CliCreates(c) ==
  /\ cli[c] = "connecting"
  /\ cli' = [cli EXCEPT ![c] = "created"]
  /\ engine' = [engine EXCEPT ![c] = "created"]
  /\ UNCHANGED <<owner, how, auto, cid, pc, cur, handles, todo, listed,
                 remover, started>>

CliWritesCid(c) ==
  /\ cli[c] = "created"
  /\ cli' = [cli EXCEPT ![c] = "written"]
  /\ cid' = [cid EXCEPT ![c] = TRUE]
  /\ UNCHANGED <<engine, owner, how, auto, pc, cur, handles, todo, listed,
                 remover, started>>

(* The caller may have started it first, and even stopped it again.        *)
CliStarts(c) ==
  /\ cli[c] = "written" /\ engine[c] \in OnEngine
  /\ cli' = [cli EXCEPT ![c] = "started"]
  /\ engine' = [engine EXCEPT ![c] = "running"]
  /\ started' = [started EXCEPT ![c] = TRUE]
  /\ UNCHANGED <<owner, how, auto, cid, pc, cur, handles, todo, listed,
                 remover>>

(* No image, no such command, no engine, or the container was taken away:  *)
(* with --rm a container that did not start is removed.                    *)
CliFails(c) ==
  /\ cli[c] \in {"connecting", "created", "written"}
  /\ cli' = [cli EXCEPT ![c] = "failed"]
  /\ engine' = IF engine[c] = "created" /\ auto[c]
                 THEN [engine EXCEPT ![c] = "removed"] ELSE engine
  /\ UNCHANGED <<owner, how, auto, cid, pc, cur, handles, todo, listed,
                 remover, started>>

(* The client is killed by a signal, from outside.                         *)
CliKilled(c) ==
  /\ cli[c] \in {"connecting", "created", "written"}
  /\ cli' = [cli EXCEPT ![c] = "killed"]
  /\ UNCHANGED <<engine, owner, how, auto, cid, pc, cur, handles, todo, listed,
                 remover, started>>

(* The last request of a killed client, to create the container or to      *)
(* start it, reaches the engine after its death, or never.                 *)
LateRequest(c) ==
  /\ cli[c] = "killed"
  /\ cli' = [cli EXCEPT ![c] = "dead"]
  /\ \/ engine[c] = "unborn"
          /\ engine' = [engine EXCEPT ![c] = "created"]
          /\ UNCHANGED started
     \/ cid[c] /\ engine[c] \in OnEngine
          /\ engine' = [engine EXCEPT ![c] = "running"]
          /\ started' = [started EXCEPT ![c] = TRUE]
     \/ UNCHANGED <<engine, started>>
  /\ UNCHANGED <<owner, how, auto, cid, pc, cur, handles, todo, listed,
                 remover>>

(* A stopped container is removed at once if it was asked for with --rm.   *)
Stopped(c) == IF auto[c] THEN "removed" ELSE "exited"

ContainerExits(c) ==
  /\ engine[c] = "running"
  /\ engine' = [engine EXCEPT ![c] = Stopped(c)]
  /\ UNCHANGED <<owner, how, auto, cli, cid, pc, cur, handles, todo, listed,
                 remover, started>>

(* DockerContainer.start; starting a running container changes nothing.    *)
Start(s, c) ==
  /\ pc[s] = "idle" /\ c \in handles[s]
  /\ engine[c] \in {"created", "exited"}
  /\ engine' = [engine EXCEPT ![c] = "running"]
  /\ started' = [started EXCEPT ![c] = TRUE]
  /\ UNCHANGED <<owner, how, auto, cli, cid, pc, cur, handles, todo, listed,
                 remover>>

Stop(s, c) ==
  /\ Deletes
  /\ pc[s] = "idle" /\ c \in handles[s] /\ engine[c] = "running"
  /\ engine' = [engine EXCEPT ![c] = Stopped(c)]
  /\ UNCHANGED <<owner, how, auto, cli, cid, pc, cur, handles, todo, listed,
                 remover, started>>

(* Without force the engine removes no running container.                  *)
Delete(s, c) ==
  /\ Deletes
  /\ pc[s] = "idle" /\ c \in handles[s] /\ engine[c] \in {"created", "exited"}
  /\ engine' = [engine EXCEPT ![c] = "removed"]
  /\ remover' = [remover EXCEPT ![c] = s]
  /\ UNCHANGED <<owner, how, auto, cli, cid, pc, cur, handles, todo, listed,
                 started>>

-----------------------------------------------------------------------------
(* DockerBackend.cleanup_containers, at the end of a session.              *)

(* DockerRunBuilder.build labels what it runs, the same way in every       *)
(* session; run_via_api does not.                                          *)
Labelled(c) == how[c] \in {"bg", "fg"}

(* Faulty variant: only running containers are listed (no all=True).       *)
ListRunning(s) ==
  LET found == {c \in Containers : engine[c] = "running" /\ Labelled(c)}
  IN  /\ pc[s] = "idle"
      /\ todo' = [todo EXCEPT ![s] = found]
      /\ listed' = [listed EXCEPT ![s] =
                    {c \in Containers :
                       engine[c] \in OnEngine /\ Labelled(c)}]
      /\ Goto(s, "stopping")
      /\ UNCHANGED <<engine, owner, how, auto, cli, cid, cur, handles,
                     remover, started>>

List(s) ==
  LET found == {c \in Containers : engine[c] \in OnEngine /\ Labelled(c)}
  IN  /\ pc[s] = "idle"
      /\ todo' = [todo EXCEPT ![s] = found]
      /\ listed' = [listed EXCEPT ![s] = found]
      /\ Goto(s, "stopping")
      /\ UNCHANGED <<engine, owner, how, auto, cli, cid, cur, handles,
                     remover, started>>

(* Faulty variant: containers are removed without being stopped.           *)
CleanupSkipsStop(s, c) ==
  /\ pc[s] = "stopping" /\ c \in todo[s]
  /\ cur' = [cur EXCEPT ![s] = c]
  /\ Goto(s, IF engine[c] = "removed" THEN "aborted" ELSE "removing")
  /\ UNCHANGED <<engine, owner, how, auto, cli, cid, handles, todo, listed,
                 remover, started>>

(* Stopping a container that does not run is no error; NotFound is, and    *)
(* ends the cleanup.                                                       *)
CleanupStops(s, c) ==
  /\ pc[s] = "stopping" /\ c \in todo[s]
  /\ cur' = [cur EXCEPT ![s] = c]
  /\ IF engine[c] = "removed"
       THEN Goto(s, "aborted") /\ UNCHANGED engine
       ELSE /\ Goto(s, "removing")
            /\ engine' = IF engine[c] = "running"
                           THEN [engine EXCEPT ![c] = Stopped(c)] ELSE engine
  /\ UNCHANGED <<owner, how, auto, cli, cid, handles, todo, listed,
                 remover, started>>

(* NotFound, or a conflict because the container was started meanwhile,    *)
(* ends the cleanup.                                                       *)
CleanupRemoves(s) ==
  LET c == cur[s]
  IN  /\ pc[s] = "removing"
      /\ IF engine[c] \in {"created", "exited"}
           THEN /\ Goto(s, "stopping")
                /\ engine' = [engine EXCEPT ![c] = "removed"]
                /\ remover' = [remover EXCEPT ![c] = s]
                /\ todo' = [todo EXCEPT ![s] = @ \ {c}]
           ELSE /\ Goto(s, "aborted")
                /\ UNCHANGED <<engine, remover, todo>>
      /\ UNCHANGED <<owner, how, auto, cli, cid, cur, handles, listed,
                     started>>

CleanupDone(s) ==
  /\ pc[s] = "stopping" /\ todo[s] = {}
  /\ Goto(s, "closed")
  /\ UNCHANGED <<engine, owner, how, auto, cli, cid, cur, handles, todo,
                 listed, remover, started>>

-----------------------------------------------------------------------------

RunStep(s) ==
  CallbackReturns(s) \/ CallbackRaises(s) \/ ProbeSees(s) \/ ProbeRaises(s)
  \/ Inspect(s)

CleanupStep(s) ==
  (\E c \in Containers : CleanupStops(s, c)) \/ CleanupRemoves(s)
  \/ CleanupDone(s)

CliStep(c) ==
  \/ CliCreates(c) \/ CliWritesCid(c) \/ CliStarts(c) \/ CliFails(c)
  \/ CliKilled(c) \/ LateRequest(c)

CallerStep(s) ==
  \/ \E c \in Containers, way \in Clis, rm \in AutoRemoves :
       RunBinary(s, c, way, rm)
  \/ \E c \in Containers, rm \in AutoRemoves : RunApi(s, c, rm)
  \/ \E c \in Containers : Start(s, c) \/ Stop(s, c) \/ Delete(s, c)
  \/ List(s)

Next ==
  \/ \E s \in Sessions : CallerStep(s) \/ RunStep(s) \/ CleanupStep(s)
  \/ \E c \in Containers : CliStep(c) \/ ContainerExits(c)

Spec == Init /\ [][Next]_vars

-----------------------------------------------------------------------------
(* Properties.                                                             *)

(* run_via_binary gives the caller a container that has been running: the  *)
(* cid file alone, which is there before the start, is not enough.  The    *)
(* one way to a container that never ran is a client that was killed after *)
(* it wrote the file (lines 458-468 of docker/image.py), although run_cmd  *)
(* "raises subprocess.CalledProcessError if it fails"                      *)
(* (conu/utils/__init__.py:113).                                           *)
BackgroundRunHasStarted ==
  \A s \in Sessions : \A c \in handles[s] :
    how[c] = "bg" => started[c] \/ cli[c] \in Killed

(* cleanup_containers that ends without an exception has removed all it    *)
(* listed, whoever created it and whatever the others did meanwhile        *)
(* (lines 49-55 of docker/backend.py).                                     *)
QuietCleanupIsComplete ==
  \A s \in Sessions :
    pc[s] = "closed" => \A c \in listed[s] : engine[c] = "removed"

(* It is cut short only by a container that removed itself (--rm) or that  *)
(* another session removed, or by one that was started between its stop    *)
(* and its removal: by a client that nobody waits for (any more), or by    *)
(* another session's.  The session's own background runs never get in the  *)
(* way as long as nobody kills their clients (lines 52-55 of               *)
(* docker/backend.py, 458-463 of docker/image.py).                         *)
GoneMeanwhile(s, c) ==
  engine[c] = "removed" /\ (auto[c] \/ remover[c] \notin {Nobody, s})

StartedMeanwhile(s, c) ==
  started[c] /\ (how[c] = "fg" \/ owner[c] # s \/ cli[c] \in Killed)

CleanupAbortHasReason ==
  \A s \in Sessions :
    pc[s] = "aborted" =>
      GoneMeanwhile(s, cur[s]) \/ StartedMeanwhile(s, cur[s])

=============================================================================
