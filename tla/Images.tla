------------------------------- MODULE Images -------------------------------
(***************************************************************************)
(* Image objects of the Docker, Podman and Buildah backends                *)
(* (conu/backend/docker/image.py, podman/image.py, buildah/image.py): what *)
(* an object knows of its image, the engine's store and the registry that  *)
(* other people change between any two requests, and the transports of     *)
(* skopeo.  The program has one object, made for the name Own, and the     *)
(* second object that tag_image returns or save_to is given, named New.  A *)
(* command that is killed by a signal counts as a success (run_cmd looks   *)
(* for positive return codes only).                                        *)
(***************************************************************************)
EXTENDS Integers, FiniteSets

CONSTANTS
  MaxId,    \* bound: images, in the order in which they are built
  MaxPath   \* bound: directories that serve as a transport

Own == "own"
New == "new"
Names == {Own, New}
NoId == 0
Ids == 1..MaxId
NoPath == 0
Paths == 1..MaxPath

ASSUME ImagesAssumption == MaxId \in Nat \ {0} /\ MaxPath \in Nat \ {0}

VARIABLES
  latest,   \* the registry: the image under each name, or NoId
  local,    \* the engine: the image under each name, or NoId
  stored,   \* the engine: all images, those without a name included
  kind,     \* the object's class: DockerImage, PodmanImage or BuildahImage
  id, data, \* self._id, and the image of self._inspect_data
  place,    \* transport and path of the two objects
  temps,    \* how many temporary directories using_transport has made
  op,       \* the running method and how far it is, or "idle"
  asked,    \* history: source and target of the running copy, as called,
            \* and the source's path if that came without a transport; once
            \* skopeo has read, only the name to write to
  target,   \* the object that copy has made for its target
  buf,      \* the image that skopeo has read
  tagged,   \* history: the image that tag_image has named New
  pushing,  \* tag_image was called by push
  meddled,  \* history: others have been at work since the call began
  lost,     \* history: others have removed an image since then that one of
            \* the objects stands for
  cut,      \* history: in this call podman pull or buildah pull was killed
  result    \* how the last call ended

engineVars == <<latest, local, stored>>
objectVars == <<kind, id, data>>
cli == kind # "docker"
placeVars == <<place, temps>>
copyVars == <<asked, target, buf>>
seen == <<meddled, lost, cut>>
vars == <<engineVars, objectVars, placeVars, op, copyVars, tagged, pushing,
          seen, result>>

(* "dir" stands for dir and oci.  skopeo refuses every docker-archive,     *)
(* whose parameter lacks a colon (docker/skopeo.py, line 32).              *)
Transports == {"docker", "docker-daemon", "docker-archive", "dir"}
PathRequired == {"docker-archive", "dir"}
Place == [transport : Transports, path : Paths \cup {NoPath}]
At(t, p) == [transport |-> t, path |-> p]
NoCopy == [from |-> Own, to |-> New, src |-> At("docker", NoPath),
           dst |-> At("docker", NoPath)]

TypeOK ==
  /\ latest \in [Names -> Ids \cup {NoId}]
  /\ local \in [Names -> Ids \cup {NoId}]
  /\ stored \subseteq Ids
  /\ {local[n] : n \in Names} \subseteq stored \cup {NoId}
  /\ kind \in {"docker", "podman", "buildah"}
  /\ id \in Ids \cup {NoId} /\ data \in Ids \cup {NoId}
  /\ place \in [Names -> Place]
  /\ temps \in 0..MaxPath
  /\ op \in {"idle", "pull", "new", "pull_new", "push", "copy", "write"}
  /\ asked \in [from : Names, to : Names, src : Place, dst : Place]
  /\ target \in Place
  /\ buf \in Ids \cup {NoId}
  /\ tagged \in Ids \cup {NoId}
  /\ pushing \in BOOLEAN /\ meddled \in BOOLEAN
  /\ lost \in BOOLEAN /\ cut \in BOOLEAN
  /\ result \in {"none", "raised", "made", "tagged", "pushed", "done"}

Init ==
  /\ latest = [n \in Names |-> IF n = Own THEN 1 ELSE NoId]
  /\ local \in {[n \in Names |-> NoId], latest}
  /\ stored = {local[n] : n \in Names} \ {NoId}
  /\ kind \in {"docker", "podman", "buildah"}
  /\ id = NoId /\ data = NoId
  /\ place = [n \in Names |-> At("docker", NoPath)]
  /\ temps = 0
  /\ op = "idle" /\ asked = NoCopy /\ target = NoCopy.dst
  /\ buf = NoId /\ tagged = NoId /\ pushing = FALSE
  /\ meddled = FALSE /\ lost = FALSE /\ cut = FALSE /\ result = "none"

Goes(o) == op' = o /\ UNCHANGED <<seen, result>>
Ends(r) == op' = "idle" /\ result' = r /\ UNCHANGED seen

(* A call starts when no other runs; what the history variables say of the *)
(* last one is forgotten then.                                             *)
Idle == op = "idle" /\ result = "none"
Forget ==
  /\ op = "idle" /\ result # "none"
  /\ result' = "none" /\ meddled' = FALSE /\ lost' = FALSE /\ cut' = FALSE
  /\ tagged' = NoId /\ pushing' = FALSE
  /\ UNCHANGED <<engineVars, objectVars, placeVars, op, copyVars>>

Store(n, i) == /\ local' = [local EXCEPT ![n] = i]
               /\ stored' = stored \cup {i}

-----------------------------------------------------------------------------
(* Other people: a new image is published; an image is removed, or gets    *)
(* another's name, in the engine.                                          *)

Publish(n) ==
  /\ \E i \in Ids : latest[n] # i /\ latest' = [latest EXCEPT ![n] = i]
  /\ meddled' = (~Idle) /\ UNCHANGED lost
  /\ UNCHANGED <<local, stored, objectVars, placeVars, op, copyVars, tagged,
                 pushing, cut, result>>

RemovedByOthers(i) ==
  /\ i \in stored
  /\ stored' = stored \ {i}
  /\ local' = [n \in Names |-> IF local[n] = i THEN NoId ELSE local[n]]
  /\ meddled' = (~Idle)
  /\ lost' = (lost \/ (~Idle /\ i \in {id, local[Own], local[New]}))
  /\ UNCHANGED <<latest, objectVars, placeVars, op, copyVars, tagged,
                 pushing, cut, result>>

TaggedByOthers(n, i) ==
  /\ i \in stored /\ local[n] # i
  /\ local' = [local EXCEPT ![n] = i]
  /\ meddled' = (~Idle) /\ UNCHANGED lost
  /\ UNCHANGED <<latest, stored, objectVars, placeVars, op, copyVars, tagged,
                 pushing, cut, result>>

-----------------------------------------------------------------------------
(* Constructor, inspection and pull.                                       *)

(* __init__, perhaps with an identifier: with ALWAYS the image is pulled,  *)
(* with IF_NOT_PRESENT unless is_present, which asks for the identifier    *)
(* first, finds it.                                                        *)
Construct(policy, identifier) ==
  /\ Idle
  /\ id' = identifier
  /\ LET found == IF identifier = NoId THEN local[Own]
                  ELSE IF identifier \in stored THEN identifier ELSE NoId
     IN /\ data' = IF policy = "if_not_present" THEN found ELSE NoId
        /\ IF policy = "never" THEN Ends("done")
           ELSE IF policy = "if_not_present" /\ found # NoId THEN Ends("made")
           ELSE Goes("pull")
  /\ place' = [place EXCEPT ![Own] =
       At(IF policy = "never" THEN "docker" ELSE "docker-daemon", NoPath)]
  /\ UNCHANGED <<engineVars, kind, temps, copyVars, tagged, pushing>>

(* pull(), also by itself.                                                 *)
Pull ==
  /\ Idle /\ Goes("pull")
  /\ UNCHANGED <<engineVars, objectVars, placeVars, copyVars, tagged, pushing>>

(* Faulty variant: an error in the stream is only logged.                  *)
PullEndsSilently ==
  /\ op = "pull" /\ Ends("made")
  /\ \/ UNCHANGED <<local, stored>>
     \/ latest[Own] # NoId /\ Store(Own, latest[Own])
  /\ UNCHANGED <<latest, objectVars, placeVars, copyVars, tagged, pushing>>

(* The registry has no such image, or the transfer fails; otherwise what   *)
(* it has gets the name in the engine.  The object's id and data stay.     *)
PullEnds ==
  /\ op = "pull" /\ ~cli
  /\ \/ Ends("raised") /\ UNCHANGED <<local, stored, place>>
     \/ /\ latest[Own] # NoId
        /\ Store(Own, latest[Own])
        /\ place' = [place EXCEPT ![Own] = At("docker-daemon", NoPath)]
        /\ Ends("made")
  /\ UNCHANGED <<latest, objectVars, temps, copyVars, tagged, pushing>>

(* podman pull, buildah pull.                                              *)
CliPullEnds ==
  /\ op = "pull" /\ cli
  /\ \/ Ends("raised") /\ UNCHANGED <<local, stored>>
     \/ latest[Own] # NoId /\ Store(Own, latest[Own]) /\ Ends("made")
  /\ UNCHANGED <<latest, objectVars, placeVars, copyVars, tagged, pushing>>

(* It is killed: to run_cmd, and to the constructors, that is a success.   *)
CliPullKilled ==
  /\ cli /\ op \in {"pull", "pull_new"}
  /\ op' = "idle" /\ result' = IF op = "pull" THEN "made" ELSE "tagged"
  /\ cut' = TRUE
  /\ UNCHANGED <<engineVars, objectVars, placeVars, copyVars, tagged, pushing,
                 meddled, lost>>

(* Faulty variant: the name is inspected, although an id is known.         *)
IdentifiedByName == local[Own]

(* The image that self._id or the name identifies.                         *)
Identified == IF id # NoId THEN IF id \in stored THEN id ELSE NoId
              ELSE local[Own]

(* inspect(), is_present(), get_metadata().                                *)
Inspect ==
  /\ Idle
  /\ IF Identified = NoId THEN Ends("raised") /\ UNCHANGED data
     ELSE data' = Identified /\ Ends("done")
  /\ UNCHANGED <<engineVars, kind, id, placeVars, copyVars, tagged, pushing>>

(* get_id: an id that is known, one of a kept inspection, or a new one's.  *)
IdFound == IF id # NoId THEN id ELSE IF data # NoId THEN data ELSE local[Own]
GetId ==
  IF IdFound = NoId THEN UNCHANGED <<id, data>>
  ELSE /\ id' = IdFound
       /\ data' = IF id = NoId THEN IdFound ELSE data

-----------------------------------------------------------------------------
(* tag_image, push and rmi.                                                *)

(* Faulty variant: push() tags for the registry only when it was given a   *)
(* repository and a tag, and pushes what had the new name before.          *)
TagImageLate(push) ==
  /\ Idle /\ push /\ ~cli /\ local[Own] # NoId
  /\ tagged' = local[Own] /\ pushing' = push
  /\ Goes("new")
  /\ UNCHANGED <<engineVars, objectVars, placeVars, copyVars>>

(* What the tag command is given gets the new name as well.                *)
TagAs(i) ==
  /\ IF i \notin stored
       THEN Ends("raised") /\ UNCHANGED <<local, tagged>>
       ELSE /\ local' = [local EXCEPT ![New] = i]
            /\ tagged' = i
            /\ Goes("new")
  /\ UNCHANGED <<latest, stored, kind, placeVars, copyVars>>

(* Docker tags what has the name; push(repository, tag) begins with it.    *)
TagImage(push) ==
  /\ Idle /\ ~cli
  /\ pushing' = push /\ UNCHANGED <<id, data>>
  /\ TagAs(local[Own])

(* Podman and Buildah tag the image of the object's id.                    *)
CliTagImage ==
  /\ Idle /\ cli
  /\ GetId /\ UNCHANGED pushing
  /\ TagAs(IdFound)

(* A killed inspect has printed half its output, which raises; a killed    *)
(* tag or rmi has done nothing, and is a success.                          *)
CliKilled ==
  /\ Idle /\ cli
  /\ \/ Ends("raised") /\ UNCHANGED <<id, data>>
     \/ Ends("done") /\ UNCHANGED <<id, data>>
     \/ IdFound # NoId /\ GetId /\ (Goes("new") \/ Ends("done"))
  /\ UNCHANGED <<engineVars, kind, placeVars, copyVars, tagged, pushing>>

NewMade == IF pushing THEN Goes("push") ELSE Ends("tagged")

(* The object for the new name, IF_NOT_PRESENT: it may have to be pulled.  *)
ConstructNew ==
  /\ op = "new"
  /\ place' = [place EXCEPT ![New] = At("docker-daemon", NoPath)]
  /\ IF local[New] # NoId THEN NewMade ELSE Goes("pull_new")
  /\ UNCHANGED <<engineVars, objectVars, temps, copyVars, tagged, pushing>>

PullNewEnds ==
  /\ op = "pull_new"
  /\ \/ Ends("raised") /\ UNCHANGED <<local, stored>>
     \/ latest[New] # NoId /\ Store(New, latest[New]) /\ NewMade
  /\ UNCHANGED <<latest, objectVars, placeVars, copyVars, tagged, pushing>>

(* push() without arguments.                                               *)
PushOwn ==
  /\ Idle /\ ~cli
  /\ Goes("push")
  /\ UNCHANGED <<engineVars, objectVars, placeVars, copyVars, tagged, pushing>>

(* What has the name now is pushed; an error in the stream raises.         *)
PushEnds ==
  /\ op = "push"
  /\ LET n == IF pushing THEN New ELSE Own
     IN \/ Ends("raised") /\ UNCHANGED latest
        \/ /\ local[n] # NoId
           /\ latest' = [latest EXCEPT ![n] = local[n]]
           /\ Ends(IF pushing THEN "pushed" ELSE "done")
  /\ UNCHANGED <<local, stored, objectVars, placeVars, copyVars, tagged,
                 pushing>>

(* By name only the name goes, unless it is the last one; by id, an image  *)
(* with two names has to be forced.                                        *)
Rmi(viaName, force) ==
  /\ Idle
  /\ IF viaName THEN UNCHANGED <<id, data>> ELSE GetId
  /\ LET i == IF viaName THEN local[Own] ELSE IdFound
         bearers == {n \in Names : local[n] = i}
         gone == IF viaName THEN {Own} ELSE bearers
     IN IF i \notin stored \/ (~viaName /\ ~force /\ Cardinality(bearers) > 1)
          THEN Ends("raised") /\ UNCHANGED <<local, stored>>
          ELSE /\ local' = [n \in Names |->
                               IF n \in gone THEN NoId ELSE local[n]]
               /\ stored' = IF bearers \subseteq gone THEN stored \ {i}
                              ELSE stored
               /\ Ends("done")
  /\ UNCHANGED <<latest, kind, placeVars, copyVars, tagged, pushing>>

-----------------------------------------------------------------------------
(* Skopeo.                                                                 *)

(* Faulty variant: the transport alone is compared.                        *)
UsedHastily(pl, t, p, temp) ==
  IF pl.transport = t THEN pl
  ELSE IF t \in PathRequired THEN At(t, IF p = NoPath THEN temp ELSE p)
  ELSE At(t, NoPath)

(* using_transport: nothing changes if all is as it was; a transport that  *)
(* needs a path gets a temporary directory if none is given; the others    *)
(* have none.                                                              *)
Used(pl, t, p, temp) ==
  IF pl = At(t, p) THEN pl
  ELSE IF t \in PathRequired THEN At(t, IF p = NoPath THEN temp ELSE p)
  ELSE At(t, NoPath)

(* Temporary directories are numbered upwards, the user's own downwards.   *)
NewTemps(k) == temps' = temps + k /\ temps + k < MaxPath
Lacks(t, p) == IF t \in PathRequired /\ p = NoPath THEN 1 ELSE 0
UserPaths == {NoPath, MaxPath}

(* Faulty variant: the path stays when the transport needs none.           *)
UsingTransportKeepsPath(n, t, p) ==
  /\ Idle /\ ~cli
  /\ place' = [place EXCEPT ![n] = At(t, IF p = NoPath THEN @.path ELSE p)]
  /\ Ends("done")
  /\ UNCHANGED <<engineVars, objectVars, temps, copyVars, tagged, pushing>>

UsingTransport(n, t, p) ==
  /\ Idle /\ ~cli
  /\ NewTemps(Lacks(t, p))
  /\ place' = [place EXCEPT ![n] = Used(@, t, p, temps + 1)]
  /\ Ends("done")
  /\ UNCHANGED <<engineVars, objectVars, copyVars, tagged, pushing>>

(* copy of the object n to the name m: a new object with the target's      *)
(* transport; the source's transport is changed for good, if one is given: *)
(* a path alone is ignored.                                                *)
BeginCopy(n, m, st, sp, tt, tp) ==
  /\ Idle /\ ~cli
  /\ NewTemps(Lacks(tt, tp) + (IF st = "none" THEN 0 ELSE Lacks(st, sp)))
  /\ target' = Used(At("docker", NoPath), tt, tp, temps + 1)
  /\ place' = IF st = "none" THEN place
              ELSE [place EXCEPT ![n] = Used(@, st, sp, temps')]
  /\ asked' = [from |-> n, to |-> m, dst |-> At(tt, tp),
               src |-> IF st = "none" THEN place[n] ELSE At(st, sp)]
  /\ Goes("copy")
  /\ UNCHANGED <<engineVars, objectVars, buf, tagged, pushing>>

(* copy itself; skopeo_pull and skopeo_push; save_to and load_from, whose  *)
(* target is where the other object is.                                    *)
Copy ==
  \/ \E st \in Transports \cup {"none"}, tt \in Transports,
        sp, tp \in UserPaths :
       /\ st \in {"docker", "docker-daemon"} => sp = NoPath
       /\ tt \in {"docker", "docker-daemon"} => tp = NoPath
       /\ BeginCopy(Own, New, st, sp, tt, tp)
  \/ BeginCopy(Own, Own, "docker", NoPath, "docker-daemon", NoPath)
  \/ BeginCopy(Own, New, "docker-daemon", NoPath, "docker", NoPath)
  \/ \E n \in Names : \E m \in Names \ {n} :
       BeginCopy(n, m, "none", NoPath, place[m].transport, place[m].path)

(* What skopeo finds; a directory may hold any image, or none.             *)
CopyReads ==
  /\ op = "copy"
  /\ LET src == place[asked.from].transport
     IN buf' \in CASE "docker-archive" \in {src, target.transport} -> {NoId}
                   [] src = "docker" -> {latest[asked.from]}
                   [] src = "docker-daemon" -> {local[asked.from]}
                   [] OTHER -> Ids \cup {NoId}
  /\ IF buf' = NoId THEN Ends("raised") ELSE Goes("write")
  /\ asked' = IF buf' = NoId THEN NoCopy ELSE [NoCopy EXCEPT !.to = asked.to]
  /\ target' = IF buf' = NoId THEN NoCopy.dst ELSE target
  /\ UNCHANGED <<engineVars, objectVars, placeVars, tagged, pushing>>

CopyOver == buf' = NoId /\ asked' = NoCopy /\ target' = NoCopy.dst

CopyWrites ==
  /\ op = "write"
  /\ \/ Ends("raised") /\ UNCHANGED <<latest, local, stored>>
     \/ /\ CASE target.transport = "docker" ->
                  /\ latest' = [latest EXCEPT ![asked.to] = buf]
                  /\ UNCHANGED <<local, stored>>
             [] target.transport = "docker-daemon" ->
                  Store(asked.to, buf) /\ UNCHANGED latest
             [] OTHER -> UNCHANGED <<latest, local, stored>>
        /\ Ends("done")
  /\ CopyOver
  /\ UNCHANGED <<objectVars, placeVars, tagged, pushing>>

SkopeoKilled ==
  /\ op \in {"copy", "write"}
  /\ Ends("done") /\ CopyOver
  /\ UNCHANGED <<engineVars, objectVars, placeVars, tagged, pushing>>

-----------------------------------------------------------------------------

Others == \/ \E n \in Names : Publish(n) \/ \E i \in Ids : TaggedByOthers(n, i)
          \/ \E i \in Ids : RemovedByOthers(i)

Construction ==
  \E policy \in {"never", "if_not_present", "always"},
     identifier \in Ids \cup {NoId} : Construct(policy, identifier)
Removal == \E viaName, force \in BOOLEAN : Rmi(viaName, force)

DockerStep ==
  /\ kind = "docker"
  /\ \/ Construction \/ Pull \/ PullEnds \/ Inspect
     \/ \E push \in BOOLEAN : TagImage(push)
     \/ ConstructNew \/ PullNewEnds \/ PushOwn \/ PushEnds \/ Removal
     \/ \E n \in Names, t \in Transports, p \in UserPaths :
          UsingTransport(n, t, p)
     \/ Copy \/ CopyReads \/ CopyWrites \/ SkopeoKilled

CliStep == \/ Construction \/ Pull \/ CliPullEnds \/ CliPullKilled
           \/ Inspect \/ CliTagImage \/ ConstructNew \/ PullNewEnds
           \/ Removal \/ CliKilled

(* The two classes are the same code with another command; the name is not *)
(* Buildah's "scratch", which pull leaves alone.                           *)
PodmanStep == kind = "podman" /\ CliStep
BuildahStep == kind = "buildah" /\ CliStep

Next == Others \/ DockerStep \/ PodmanStep \/ BuildahStep \/ Forget

Spec == Init /\ [][Next]_vars

-----------------------------------------------------------------------------

(* The object's id and its kept inspection are of one image, even when the *)
(* name has been pulled or given to another one in the meantime.           *)
IdAndDataAgree == id # NoId /\ data # NoId => id = data

(* A constructor that may pull, pull and tag_image return only when the    *)
(* engine has an image of that name, or the one of the identifier that was *)
(* given; unless others have removed an image in the meantime, or the      *)
(* command that pulls was killed.                                          *)
ReadyImageIsThere ==
  /\ result = "made" => local[Own] # NoId \/ id \in stored \/ lost \/ cut
  /\ result = "tagged" => local[New] # NoId \/ lost \/ cut

(* push(repository, tag) publishes the image that it tagged, although it   *)
(* tags, constructs an object (that may pull) and pushes by name.          *)
PushedIsTheTagged == result = "pushed" => latest[New] = tagged \/ meddled

(* A transport that needs a path has one and the others have none,         *)
(* whatever was done before: transport_param never refuses its image.      *)
PathGoesWithTransport ==
  \A n \in Names :
    place[n].transport \in PathRequired <=> place[n].path # NoPath

(* skopeo reads and writes where the caller of copy said, or in a fresh    *)
(* directory where the path was left out, and reads where the object is if *)
(* no transport was said: docker/image.py:308 asks for a source_path with  *)
(* dir, docker-archive and oci, but a path alone changes nothing.          *)
CopyGoesWhereItSays ==
  op = "copy" =>
    LET Is(pl, want) ==
          /\ pl.transport = want.transport
          /\ want.path # NoPath => pl.path = want.path
          /\ Lacks(want.transport, want.path) = 1 => pl.path \in 1..temps
    IN Is(place[asked.from], asked.src) /\ Is(target, asked.dst)

=============================================================================
