---------------------------- MODULE ImagesProofs ----------------------------
(***************************************************************************)
(* Proofs about Images, for any number of images and directories, and      *)
(* whatever other people do with the engine and the registry meanwhile.    *)
(***************************************************************************)
EXTENDS Images, TLAPS

(* The types, as the proof takes them.                                     *)
Askings == [from : Names, to : Names, src : Place, dst : Place]

EngineTypeOK ==
  /\ latest \in [Names -> Ids \cup {NoId}]
  /\ local \in [Names -> Ids \cup {NoId}]
  /\ stored \subseteq Ids
  /\ \A n \in Names : local[n] \in stored \cup {NoId}

ObjectTypeOK ==
  /\ kind \in {"docker", "podman", "buildah"}
  /\ id \in Ids \cup {NoId} /\ data \in Ids \cup {NoId}
  /\ op \in {"idle", "pull", "new", "pull_new", "push", "copy", "write"}
  /\ buf \in Ids \cup {NoId} /\ tagged \in Ids \cup {NoId}
  /\ pushing \in BOOLEAN /\ meddled \in BOOLEAN
  /\ lost \in BOOLEAN /\ cut \in BOOLEAN
  /\ result \in {"none", "raised", "made", "tagged", "pushed", "done"}

PlaceTypeOK ==
  /\ place \in [Names -> Place]
  /\ temps \in 0..MaxPath
  /\ asked \in Askings
  /\ target \in Place

LEMMA TypeParts == TypeOK <=> EngineTypeOK /\ ObjectTypeOK /\ PlaceTypeOK
  BY DEF TypeOK, EngineTypeOK, ObjectTypeOK, PlaceTypeOK, Askings

CallInv ==
  /\ op # "idle" => result = "none"
  /\ Idle => ~pushing
  /\ op = "write" => buf # NoId

(* In a push, from the tag on, the new name is that image's, unless        *)
(* somebody has been at work; and only then is there anything to pull.     *)
Tagging == op \in {"new", "pull_new", "push"} /\ pushing

PushInv ==
  /\ Tagging => tagged \in Ids /\ (local[New] = tagged \/ meddled)
  /\ op = "pull_new" /\ pushing => meddled

IInv ==
  /\ EngineTypeOK /\ ObjectTypeOK /\ PlaceTypeOK /\ CallInv /\ PushInv
  /\ IdAndDataAgree /\ ReadyImageIsThere /\ PushedIsTheTagged
  /\ PathGoesWithTransport /\ CopyGoesWhereItSays

-----------------------------------------------------------------------------
(* Transports.                                                             *)

LEMMA Places ==
  /\ At("docker", NoPath) \in Place /\ At("docker-daemon", NoPath) \in Place
  /\ NoCopy \in Askings
  /\ NoCopy.dst \in Place
<1>1. At("docker", NoPath) \in Place /\ At("docker-daemon", NoPath) \in Place
  BY DEF At, Place, Transports
<1>2. NoCopy \in Askings
  BY <1>1 DEF NoCopy, Names, Askings
<1> QED
  BY <1>1, <1>2 DEF Askings

LEMMA UsedFacts ==
  ASSUME NEW pl \in Place, NEW t \in Transports, NEW p \in Paths \cup {NoPath},
         NEW temp \in Paths, pl.transport \in PathRequired <=> pl.path # NoPath
  PROVE  LET new == Used(pl, t, p, temp)
         IN  /\ new = At(t, IF t \in PathRequired THEN IF p = NoPath THEN temp ELSE p
                            ELSE NoPath)
             /\ new \in Place /\ new.transport = t
             /\ new.transport \in PathRequired <=> new.path # NoPath
             /\ t \in PathRequired => new.path = IF p = NoPath THEN temp ELSE p
<1> DEFINE new == Used(pl, t, p, temp)
           path == IF t \in PathRequired THEN IF p = NoPath THEN temp ELSE p ELSE NoPath
<1>1. temp # NoPath
  BY DEF Paths, NoPath
<1>2. At(t, path) \in Place /\ At(t, path).transport = t /\ At(t, path).path = path
  BY DEF At, Place
<1>3. new = At(t, path)
  <2>1. CASE pl = At(t, p)
    <3>1. pl.transport = t /\ pl.path = p
      BY <2>1 DEF At
    <3>2. path = p
      BY <3>1
    <3> QED
      BY <2>1, <3>2 DEF Used
  <2>2. CASE pl # At(t, p)
    BY <2>2 DEF Used
  <2> QED
    BY <2>1, <2>2
<1> HIDE DEF new
<1> QED
  BY <1>1, <1>2, <1>3 DEF new

(* How copy calls itself a copy: paths are only given where needed.        *)
LEMMA CopyCalls ==
  ASSUME PlaceTypeOK, PathGoesWithTransport, Copy
  PROVE  \E n, m \in Names, st \in Transports \cup {"none"}, tt \in Transports :
         \E sp, tp \in Paths \cup {NoPath} :
           /\ BeginCopy(n, m, st, sp, tt, tp)
           /\ st \in {"docker", "docker-daemon"} => sp = NoPath
           /\ tt \notin PathRequired => tp = NoPath
<1> USE DEF Transports, PathRequired
<1>1. UserPaths \subseteq Paths \cup {NoPath} /\ Own \in Names /\ New \in Names
  BY ImagesAssumption DEF UserPaths, Paths, Names
<1>2. ASSUME NEW st \in Transports \cup {"none"}, NEW tt \in Transports,
             NEW sp \in UserPaths, NEW tp \in UserPaths,
             st \in {"docker", "docker-daemon"} => sp = NoPath,
             tt \in {"docker", "docker-daemon"} => tp = NoPath,
             BeginCopy(Own, New, st, sp, tt, tp)
      PROVE  \E n1, m1 \in Names, st1 \in Transports \cup {"none"}, tt1 \in Transports :
             \E sp1, tp1 \in Paths \cup {NoPath} :
               /\ BeginCopy(n1, m1, st1, sp1, tt1, tp1)
               /\ st1 \in {"docker", "docker-daemon"} => sp1 = NoPath
               /\ tt1 \notin PathRequired => tp1 = NoPath
  <2>1. tt \notin PathRequired => tp = NoPath
    BY <1>2
  <2> HIDE DEF Transports, PathRequired
  <2> QED
    BY <1>1, <1>2, <2>1
<1>3. ASSUME \/ BeginCopy(Own, Own, "docker", NoPath, "docker-daemon", NoPath)
             \/ BeginCopy(Own, New, "docker-daemon", NoPath, "docker", NoPath)
      PROVE  \E n1, m1 \in Names, st1 \in Transports \cup {"none"}, tt1 \in Transports :
             \E sp1, tp1 \in Paths \cup {NoPath} :
               /\ BeginCopy(n1, m1, st1, sp1, tt1, tp1)
               /\ st1 \in {"docker", "docker-daemon"} => sp1 = NoPath
               /\ tt1 \notin PathRequired => tp1 = NoPath
  BY <1>1, <1>3
<1>4. ASSUME NEW n \in Names, NEW m \in Names,
             BeginCopy(n, m, "none", NoPath, place[m].transport, place[m].path)
      PROVE  \E n1, m1 \in Names, st1 \in Transports \cup {"none"}, tt1 \in Transports :
             \E sp1, tp1 \in Paths \cup {NoPath} :
               /\ BeginCopy(n1, m1, st1, sp1, tt1, tp1)
               /\ st1 \in {"docker", "docker-daemon"} => sp1 = NoPath
               /\ tt1 \notin PathRequired => tp1 = NoPath
  <2>1. /\ place[m].transport \in Transports /\ place[m].path \in Paths \cup {NoPath}
        /\ place[m].transport \notin PathRequired => place[m].path = NoPath
    BY DEF PlaceTypeOK, Place, PathGoesWithTransport
  <2> QED
    BY <1>4, <2>1
<1> QED
  BY <1>2, <1>3, <1>4 DEF Copy

LEMMA BeginCopyFacts ==
  ASSUME PlaceTypeOK, PathGoesWithTransport,
         NEW n \in Names, NEW m \in Names, NEW st \in Transports \cup {"none"},
         NEW tt \in Transports, NEW sp \in Paths \cup {NoPath},
         NEW tp \in Paths \cup {NoPath}, BeginCopy(n, m, st, sp, tt, tp),
         st \in {"docker", "docker-daemon"} => sp = NoPath, tt \notin PathRequired => tp = NoPath
  PROVE  PlaceTypeOK' /\ PathGoesWithTransport' /\ CopyGoesWhereItSays'
<1> DEFINE new == Used(place[n], st, sp, temps')
<1>1. /\ temps' \in Nat /\ temps' < MaxPath /\ temps <= temps'
      /\ tt \in PathRequired /\ tp = NoPath => temps + 1 <= temps'
      /\ st \in PathRequired /\ sp = NoPath => temps' \in Paths
      /\ temps + 1 \in Paths
  BY ImagesAssumption
     DEF BeginCopy, NewTemps, Lacks, PlaceTypeOK, Paths, PathRequired
<1>2. /\ target' \in Place /\ target'.transport = tt
      /\ tt \in PathRequired => target'.path = IF tp = NoPath THEN temps + 1 ELSE tp
      /\ tt \notin PathRequired => target'.path = NoPath
  <2>1. /\ At("docker", NoPath).transport = "docker"
        /\ At("docker", NoPath).path = NoPath
    BY DEF At
  <2>2. At("docker", NoPath).transport \in PathRequired
          <=> At("docker", NoPath).path # NoPath
    BY <2>1 DEF PathRequired
  <2> QED
    BY <1>1, <2>2, Places, UsedFacts DEF BeginCopy
<1>3. ASSUME st # "none"
      PROVE  /\ place' = [place EXCEPT ![n] = new]
             /\ new \in Place /\ new.transport = st
             /\ new.transport \in PathRequired <=> new.path # NoPath
             /\ st \in PathRequired => new.path = IF sp = NoPath THEN temps' ELSE sp
  <2>1. place' = [place EXCEPT ![n] = new]
    BY <1>3 DEF BeginCopy
  <2>2. place[n] \in Place /\ (place[n].transport \in PathRequired <=> place[n].path # NoPath)
    BY DEF PlaceTypeOK, PathGoesWithTransport
  <2>3. CASE temps' \in Paths
    <3>1. st \in Transports
      BY <1>3
    <3>2. /\ st \notin PathRequired => new = At(st, NoPath)
          /\ st \in PathRequired /\ sp # NoPath => new = At(st, sp)
          /\ st \in PathRequired /\ sp = NoPath => new = At(st, temps')
      BY <2>2, <2>3, <3>1, UsedFacts
    <3>3. new \in Place
      BY <2>2, <2>3, <3>1, UsedFacts
    <3> HIDE DEF new
    <3>4. new.transport = st /\ (new.transport \in PathRequired <=> new.path # NoPath)
      <4>1. temps' # NoPath
        BY <2>3 DEF Paths, NoPath
      <4> QED
        BY <3>2, <4>1 DEF At
    <3>5. st \in PathRequired => new.path = IF sp = NoPath THEN temps' ELSE sp
      BY <3>2 DEF At
    <3> QED
      BY <2>1, <3>3, <3>4, <3>5
  <2>4. CASE temps' \notin Paths
    <3>1. Used(place[n], st, sp, temps') = Used(place[n], st, sp, temps + 1)
      BY <1>1, <2>4 DEF Used
    <3>2. ~(st \in PathRequired /\ sp = NoPath)
      BY <1>1, <2>4
    <3>3. st \in Transports
      BY <1>3
    <3>4. new = At(st, IF st \in PathRequired THEN sp ELSE NoPath) /\ new \in Place
      BY <1>1, <2>2, <3>1, <3>2, <3>3, UsedFacts
    <3> HIDE DEF new
    <3>5. new.transport = st /\ (new.transport \in PathRequired <=> new.path # NoPath)
      BY <3>2, <3>4 DEF At
    <3>6. st \in PathRequired => new.path = IF sp = NoPath THEN temps' ELSE sp
      BY <3>2, <3>4 DEF At
    <3> QED
      BY <2>1, <3>4, <3>5, <3>6
  <2> QED
    BY <2>3, <2>4
<1> HIDE DEF new
<1>4. PathGoesWithTransport' /\ place' \in [Names -> Place]
  BY <1>3 DEF PlaceTypeOK, PathGoesWithTransport, BeginCopy
<1>5. /\ asked'.from = n /\ asked'.to = m /\ asked'.dst = At(tt, tp)
      /\ asked'.src = IF st = "none" THEN place[n] ELSE At(st, sp)
      /\ asked' \in Askings
  <2>1. At(tt, tp) \in Place /\ (st # "none" => At(st, sp) \in Place)
    BY DEF At, Place
  <2> QED
    BY <2>1 DEF BeginCopy, PlaceTypeOK, Askings
<1>6. PlaceTypeOK'
  BY <1>1, <1>2, <1>4, <1>5, ImagesAssumption DEF PlaceTypeOK
<1>7. CopyGoesWhereItSays'
  <2> DEFINE Is(pl, want) == /\ pl.transport = want.transport
                             /\ want.path # NoPath => pl.path = want.path
                             /\ want.path = NoPath /\ want.transport \in PathRequired =>
                                  pl.path \in 1..temps'
  <2>1. /\ asked'.dst.transport = tt /\ asked'.dst.path = tp
        /\ st # "none" => asked'.src.transport = st /\ asked'.src.path = sp
    BY <1>5 DEF At
  <2>2. Is(target', asked'.dst)
    BY <1>1, <1>2, <2>1 DEF PlaceTypeOK
  <2>3. CASE st = "none"
    <3>1. place' = place /\ asked'.src = place[n]
      BY <1>5, <2>3 DEF BeginCopy
    <3>2. Is(place'[n], asked'.src)
      BY <3>1 DEF PathGoesWithTransport
    <3> QED
      BY <1>5, <2>2, <3>2 DEF CopyGoesWhereItSays, Lacks
  <2>4. CASE st # "none"
    <3>1. place'[n] = new
      BY <1>3, <2>4 DEF PlaceTypeOK
    <3>2. st \in PathRequired /\ sp = NoPath => new.path \in 1..temps'
      BY <1>1, <1>3, <2>4 DEF Paths
    <3>3. sp # NoPath => new.path = sp
      <4>1. sp # NoPath => st \in PathRequired
        BY <2>4 DEF Transports, PathRequired
      <4> QED
        BY <1>3, <2>4, <4>1
    <3>4. Is(new, asked'.src)
      BY <1>3, <2>1, <2>4, <3>2, <3>3
    <3>5. Is(place'[n], asked'.src)
      BY <3>1, <3>4
    <3> QED
      BY <1>5, <2>2, <3>5 DEF CopyGoesWhereItSays, Lacks
  <2> QED
    BY <2>3, <2>4
<1> QED
  BY <1>4, <1>6, <1>7

-----------------------------------------------------------------------------

LEMMA InitInv == Init => IInv
<1> SUFFICES ASSUME Init PROVE IInv
  OBVIOUS
<1>1. TypeOK
  <2>1. 1 \in Ids /\ At("docker", NoPath) \in Place /\ 0 \in 0..MaxPath
    BY ImagesAssumption DEF Ids, At, Place, Transports
  <2>2. latest \in [Names -> Ids \cup {NoId}]
    BY <2>1 DEF Init
  <2>3. local \in [Names -> Ids \cup {NoId}]
    BY <2>2 DEF Init
  <2>4. NoCopy \in Askings
    BY <2>1 DEF NoCopy, Names, Askings
  <2>5. stored \subseteq Ids /\ {local[n] : n \in Names} \subseteq stored \cup {NoId}
    BY <2>3 DEF Init
  <2>6. NoCopy.dst \in Place
    BY <2>4 DEF Askings
  <2> QED
    BY <2>1, <2>2, <2>3, <2>4, <2>5, <2>6 DEF Init, TypeOK, Askings
<1>2. CallInv /\ PushInv /\ IdAndDataAgree /\ ReadyImageIsThere /\ PushedIsTheTagged
  BY DEF Init, CallInv, PushInv, Tagging, IdAndDataAgree, ReadyImageIsThere,
         PushedIsTheTagged
<1>3. PathGoesWithTransport /\ CopyGoesWhereItSays
  BY DEF Init, PathGoesWithTransport, CopyGoesWhereItSays, At, PathRequired
<1> QED
  BY <1>1, <1>2, <1>3, TypeParts DEF IInv

LEMMA StepInv == IInv /\ [Next]_vars => IInv'
<1> SUFFICES ASSUME IInv, [Next]_vars PROVE IInv'
  OBVIOUS
<1> USE ImagesAssumption DEF IInv, engineVars, objectVars, placeVars, copyVars, seen
<1> USE DEF Goes, Ends, Idle, Names, Own, New
<1>1. ASSUME NEW n \in Names, Publish(n) PROVE IInv'
  <2>1. EngineTypeOK'
    BY <1>1 DEF EngineTypeOK, Publish
  <2>2. ObjectTypeOK'
    BY <1>1 DEF ObjectTypeOK, CallInv, Publish
  <2>3. PlaceTypeOK'
    BY <1>1 DEF PlaceTypeOK, Publish
  <2>4. CallInv'
    BY <1>1 DEF CallInv, Publish
  <2>5. PushInv'
    BY <1>1 DEF PushInv, Tagging, Publish
  <2>6. IdAndDataAgree'
    BY <1>1 DEF IdAndDataAgree, Publish
  <2>7. ReadyImageIsThere'
    BY <1>1 DEF ReadyImageIsThere, Publish
  <2>8. PushedIsTheTagged'
    BY <1>1 DEF PushedIsTheTagged, Publish
  <2>9. PathGoesWithTransport'
    BY <1>1 DEF PathGoesWithTransport, Publish
  <2>10. CopyGoesWhereItSays'
    BY <1>1 DEF CopyGoesWhereItSays, Publish
  <2> QED
    BY <2>1, <2>2, <2>3, <2>4, <2>5, <2>6, <2>7, <2>8, <2>9, <2>10
<1>2. ASSUME NEW i \in Ids, RemovedByOthers(i) PROVE IInv'
  <2>1. EngineTypeOK'
    BY <1>2 DEF EngineTypeOK, RemovedByOthers
  <2>2. ObjectTypeOK'
    BY <1>2 DEF ObjectTypeOK, CallInv, RemovedByOthers
  <2>3. PlaceTypeOK'
    BY <1>2 DEF PlaceTypeOK, RemovedByOthers
  <2>4. CallInv'
    BY <1>2 DEF CallInv, RemovedByOthers
  <2>5. PushInv'
    BY <1>2 DEF PushInv, Tagging, RemovedByOthers
  <2>6. IdAndDataAgree'
    BY <1>2 DEF IdAndDataAgree, RemovedByOthers
  <2>7. ReadyImageIsThere'
    BY <1>2 DEF ReadyImageIsThere, RemovedByOthers
  <2>8. PushedIsTheTagged'
    BY <1>2 DEF PushedIsTheTagged, RemovedByOthers
  <2>9. PathGoesWithTransport'
    BY <1>2 DEF PathGoesWithTransport, RemovedByOthers
  <2>10. CopyGoesWhereItSays'
    BY <1>2 DEF CopyGoesWhereItSays, RemovedByOthers
  <2> QED
    BY <2>1, <2>2, <2>3, <2>4, <2>5, <2>6, <2>7, <2>8, <2>9, <2>10
<1>3. ASSUME NEW n \in Names, NEW i \in Ids, TaggedByOthers(n, i) PROVE IInv'
  <2>1. EngineTypeOK'
    BY <1>3 DEF EngineTypeOK, TaggedByOthers
  <2>2. ObjectTypeOK'
    BY <1>3 DEF ObjectTypeOK, CallInv, TaggedByOthers
  <2>3. PlaceTypeOK'
    BY <1>3 DEF PlaceTypeOK, TaggedByOthers
  <2>4. CallInv'
    BY <1>3 DEF CallInv, TaggedByOthers
  <2>5. PushInv'
    BY <1>3 DEF PushInv, Tagging, TaggedByOthers
  <2>6. IdAndDataAgree'
    BY <1>3 DEF IdAndDataAgree, TaggedByOthers
  <2>7. ReadyImageIsThere'
    BY <1>3 DEF EngineTypeOK, ReadyImageIsThere, Ids, NoId, TaggedByOthers
  <2>8. PushedIsTheTagged'
    BY <1>3 DEF PushedIsTheTagged, TaggedByOthers
  <2>9. PathGoesWithTransport'
    BY <1>3 DEF PathGoesWithTransport, TaggedByOthers
  <2>10. CopyGoesWhereItSays'
    BY <1>3 DEF CopyGoesWhereItSays, TaggedByOthers
  <2> QED
    BY <2>1, <2>2, <2>3, <2>4, <2>5, <2>6, <2>7, <2>8, <2>9, <2>10
<1>4. ASSUME NEW policy, NEW identifier \in Ids \cup {NoId},
             Construct(policy, identifier)
      PROVE IInv'
  <2>1. EngineTypeOK'
    BY <1>4 DEF EngineTypeOK, Construct
  <2>2. ObjectTypeOK'
    BY <1>4 DEF EngineTypeOK, ObjectTypeOK, Construct
  <2>3. PlaceTypeOK'
    BY <1>4, Places DEF PlaceTypeOK, Construct
  <2>4. CallInv'
    BY <1>4 DEF CallInv, Construct
  <2>5. PushInv'
    BY <1>4 DEF PushInv, Tagging, Construct
  <2>6. IdAndDataAgree'
    BY <1>4 DEF IdAndDataAgree, Construct
  <2>7. ReadyImageIsThere'
    BY <1>4 DEF ReadyImageIsThere, Construct
  <2>8. PushedIsTheTagged'
    BY <1>4 DEF PushedIsTheTagged, Construct
  <2>9. PathGoesWithTransport'
    BY <1>4 DEF PathGoesWithTransport, Construct, At, PathRequired
  <2>10. CopyGoesWhereItSays'
    BY <1>4 DEF CopyGoesWhereItSays, Construct
  <2> QED
    BY <2>1, <2>2, <2>3, <2>4, <2>5, <2>6, <2>7, <2>8, <2>9, <2>10
<1>5. ASSUME Pull PROVE IInv'
  <2>1. EngineTypeOK'
    BY <1>5 DEF EngineTypeOK, Pull
  <2>2. ObjectTypeOK'
    BY <1>5 DEF ObjectTypeOK, Pull
  <2>3. PlaceTypeOK'
    BY <1>5 DEF PlaceTypeOK, Pull
  <2>4. CallInv'
    BY <1>5 DEF CallInv, Pull
  <2>5. PushInv'
    BY <1>5 DEF PushInv, Tagging, Pull
  <2>6. IdAndDataAgree'
    BY <1>5 DEF IdAndDataAgree, Pull
  <2>7. ReadyImageIsThere'
    BY <1>5 DEF ReadyImageIsThere, Pull
  <2>8. PushedIsTheTagged'
    BY <1>5 DEF PushedIsTheTagged, Pull
  <2>9. PathGoesWithTransport'
    BY <1>5 DEF PathGoesWithTransport, Pull
  <2>10. CopyGoesWhereItSays'
    BY <1>5 DEF CopyGoesWhereItSays, Pull
  <2> QED
    BY <2>1, <2>2, <2>3, <2>4, <2>5, <2>6, <2>7, <2>8, <2>9, <2>10
<1>6. ASSUME PullEnds PROVE IInv'
  <2>1. EngineTypeOK'
    BY <1>6 DEF EngineTypeOK, PullEnds, Store
  <2>2. ObjectTypeOK'
    BY <1>6 DEF ObjectTypeOK, PullEnds
  <2>3. PlaceTypeOK'
    BY <1>6, Places DEF PlaceTypeOK, PullEnds
  <2>4. CallInv'
    BY <1>6 DEF CallInv, PullEnds
  <2>5. PushInv'
    BY <1>6 DEF PushInv, Tagging, PullEnds
  <2>6. IdAndDataAgree'
    BY <1>6 DEF IdAndDataAgree, PullEnds
  <2>7. ReadyImageIsThere'
    BY <1>6 DEF EngineTypeOK, ReadyImageIsThere, PullEnds, Store
  <2>8. PushedIsTheTagged'
    BY <1>6 DEF PushedIsTheTagged, PullEnds
  <2>9. PathGoesWithTransport'
    BY <1>6
       DEF PlaceTypeOK, PathGoesWithTransport, PullEnds, At, PathRequired
  <2>10. CopyGoesWhereItSays'
    BY <1>6 DEF CopyGoesWhereItSays, PullEnds
  <2> QED
    BY <2>1, <2>2, <2>3, <2>4, <2>5, <2>6, <2>7, <2>8, <2>9, <2>10
<1>7. ASSUME CliPullEnds PROVE IInv'
  <2>1. EngineTypeOK'
    BY <1>7 DEF EngineTypeOK, CliPullEnds, Store
  <2>2. ObjectTypeOK'
    BY <1>7 DEF ObjectTypeOK, CliPullEnds
  <2>3. PlaceTypeOK'
    BY <1>7 DEF PlaceTypeOK, CliPullEnds
  <2>4. CallInv'
    BY <1>7 DEF CallInv, CliPullEnds
  <2>5. PushInv'
    BY <1>7 DEF PushInv, Tagging, CliPullEnds
  <2>6. IdAndDataAgree'
    BY <1>7 DEF IdAndDataAgree, CliPullEnds
  <2>7. ReadyImageIsThere'
    BY <1>7 DEF EngineTypeOK, ReadyImageIsThere, CliPullEnds, Store
  <2>8. PushedIsTheTagged'
    BY <1>7 DEF PushedIsTheTagged, CliPullEnds
  <2>9. PathGoesWithTransport'
    BY <1>7 DEF PathGoesWithTransport, CliPullEnds
  <2>10. CopyGoesWhereItSays'
    BY <1>7 DEF CopyGoesWhereItSays, CliPullEnds
  <2> QED
    BY <2>1, <2>2, <2>3, <2>4, <2>5, <2>6, <2>7, <2>8, <2>9, <2>10
<1>8. ASSUME Inspect PROVE IInv'
  <2>1. EngineTypeOK'
    BY <1>8 DEF EngineTypeOK, Inspect
  <2>2. ObjectTypeOK'
    BY <1>8 DEF EngineTypeOK, ObjectTypeOK, Inspect, Identified
  <2>3. PlaceTypeOK'
    BY <1>8 DEF PlaceTypeOK, Inspect
  <2>4. CallInv'
    BY <1>8 DEF CallInv, Inspect
  <2>5. PushInv'
    BY <1>8 DEF PushInv, Tagging, Inspect
  <2>6. IdAndDataAgree'
    BY <1>8 DEF IdAndDataAgree, Inspect, Identified
  <2>7. ReadyImageIsThere'
    BY <1>8 DEF ReadyImageIsThere, Inspect
  <2>8. PushedIsTheTagged'
    BY <1>8 DEF PushedIsTheTagged, Inspect
  <2>9. PathGoesWithTransport'
    BY <1>8 DEF PathGoesWithTransport, Inspect
  <2>10. CopyGoesWhereItSays'
    BY <1>8 DEF CopyGoesWhereItSays, Inspect
  <2> QED
    BY <2>1, <2>2, <2>3, <2>4, <2>5, <2>6, <2>7, <2>8, <2>9, <2>10
<1>9. ASSUME NEW push \in BOOLEAN, TagImage(push) PROVE IInv'
  <2>1. EngineTypeOK'
    BY <1>9 DEF EngineTypeOK, TagImage, TagAs
  <2>2. ObjectTypeOK'
    BY <1>9 DEF EngineTypeOK, ObjectTypeOK, TagImage, TagAs
  <2>3. PlaceTypeOK'
    BY <1>9 DEF PlaceTypeOK, TagImage, TagAs
  <2>4. CallInv'
    BY <1>9 DEF CallInv, TagImage, TagAs
  <2>5. PushInv'
    BY <1>9 DEF EngineTypeOK, PushInv, Tagging, TagImage, TagAs
  <2>6. IdAndDataAgree'
    BY <1>9 DEF IdAndDataAgree, TagImage
  <2>7. ReadyImageIsThere'
    BY <1>9 DEF ReadyImageIsThere, TagImage, TagAs
  <2>8. PushedIsTheTagged'
    BY <1>9 DEF PushedIsTheTagged, TagImage, TagAs
  <2>9. PathGoesWithTransport'
    BY <1>9 DEF PathGoesWithTransport, TagImage, TagAs
  <2>10. CopyGoesWhereItSays'
    BY <1>9 DEF CopyGoesWhereItSays, TagImage, TagAs
  <2> QED
    BY <2>1, <2>2, <2>3, <2>4, <2>5, <2>6, <2>7, <2>8, <2>9, <2>10
<1>10. ASSUME CliTagImage PROVE IInv'
  <2>1. EngineTypeOK'
    BY <1>10 DEF EngineTypeOK, CliTagImage, TagAs
  <2>2. ObjectTypeOK'
    BY <1>10
       DEF EngineTypeOK, ObjectTypeOK, CliTagImage, TagAs, GetId, IdFound
  <2>3. PlaceTypeOK'
    BY <1>10 DEF PlaceTypeOK, CliTagImage, TagAs
  <2>4. CallInv'
    BY <1>10 DEF CallInv, CliTagImage, TagAs
  <2>5. PushInv'
    BY <1>10 DEF EngineTypeOK, PushInv, Tagging, CliTagImage, TagAs
  <2>6. IdAndDataAgree'
    BY <1>10 DEF IdAndDataAgree, CliTagImage, GetId, IdFound
  <2>7. ReadyImageIsThere'
    BY <1>10 DEF ReadyImageIsThere, CliTagImage, TagAs
  <2>8. PushedIsTheTagged'
    BY <1>10 DEF PushedIsTheTagged, CliTagImage, TagAs
  <2>9. PathGoesWithTransport'
    BY <1>10 DEF PathGoesWithTransport, CliTagImage, TagAs
  <2>10. CopyGoesWhereItSays'
    BY <1>10 DEF CopyGoesWhereItSays, CliTagImage, TagAs
  <2> QED
    BY <2>1, <2>2, <2>3, <2>4, <2>5, <2>6, <2>7, <2>8, <2>9, <2>10
<1>11. ASSUME ConstructNew PROVE IInv'
  <2>1. EngineTypeOK'
    BY <1>11 DEF EngineTypeOK, ConstructNew
  <2>2. ObjectTypeOK'
    BY <1>11 DEF ObjectTypeOK, ConstructNew, NewMade
  <2>3. PlaceTypeOK'
    BY <1>11, Places DEF PlaceTypeOK, ConstructNew
  <2>4. CallInv'
    BY <1>11 DEF CallInv, ConstructNew, NewMade
  <2>5. PushInv'
    <3>1. pushing => tagged \in Ids /\ (local[New] = tagged \/ meddled)
      BY <1>11 DEF PushInv, Tagging, ConstructNew
    <3>2. CASE local[New] = NoId
      <4>1. pushing => tagged # local[New]
        BY <3>1, <3>2 DEF Ids, NoId
      <4> QED
        BY <1>11, <3>1, <3>2, <4>1 DEF PushInv, Tagging, ConstructNew
    <3>3. CASE local[New] # NoId
      BY <1>11, <3>3 DEF PushInv, Tagging, ConstructNew, NewMade
    <3> QED
      BY <3>2, <3>3
  <2>6. IdAndDataAgree'
    BY <1>11 DEF IdAndDataAgree, ConstructNew
  <2>7. ReadyImageIsThere'
    BY <1>11 DEF ReadyImageIsThere, ConstructNew, NewMade
  <2>8. PushedIsTheTagged'
    BY <1>11 DEF PushedIsTheTagged, ConstructNew, NewMade
  <2>9. PathGoesWithTransport'
    BY <1>11
       DEF PlaceTypeOK, PathGoesWithTransport, ConstructNew, At, PathRequired
  <2>10. CopyGoesWhereItSays'
    BY <1>11 DEF CopyGoesWhereItSays, ConstructNew, NewMade
  <2> QED
    BY <2>1, <2>2, <2>3, <2>4, <2>5, <2>6, <2>7, <2>8, <2>9, <2>10
<1>12. ASSUME PullNewEnds PROVE IInv'
  <2>1. EngineTypeOK'
    BY <1>12 DEF EngineTypeOK, PullNewEnds, Store
  <2>2. ObjectTypeOK'
    BY <1>12 DEF ObjectTypeOK, PullNewEnds, NewMade
  <2>3. PlaceTypeOK'
    BY <1>12 DEF PlaceTypeOK, PullNewEnds
  <2>4. CallInv'
    BY <1>12 DEF CallInv, PullNewEnds, NewMade
  <2>5. PushInv'
    BY <1>12 DEF PushInv, Tagging, PullNewEnds, NewMade
  <2>6. IdAndDataAgree'
    BY <1>12 DEF IdAndDataAgree, PullNewEnds
  <2>7. ReadyImageIsThere'
    BY <1>12 DEF EngineTypeOK, ReadyImageIsThere, PullNewEnds, NewMade, Store
  <2>8. PushedIsTheTagged'
    BY <1>12 DEF PushedIsTheTagged, PullNewEnds, NewMade
  <2>9. PathGoesWithTransport'
    BY <1>12 DEF PathGoesWithTransport, PullNewEnds
  <2>10. CopyGoesWhereItSays'
    BY <1>12 DEF CopyGoesWhereItSays, PullNewEnds, NewMade
  <2> QED
    BY <2>1, <2>2, <2>3, <2>4, <2>5, <2>6, <2>7, <2>8, <2>9, <2>10
<1>13. ASSUME PushOwn PROVE IInv'
  <2>1. EngineTypeOK'
    BY <1>13 DEF EngineTypeOK, PushOwn
  <2>2. ObjectTypeOK'
    BY <1>13 DEF ObjectTypeOK, PushOwn
  <2>3. PlaceTypeOK'
    BY <1>13 DEF PlaceTypeOK, PushOwn
  <2>4. CallInv'
    BY <1>13 DEF CallInv, PushOwn
  <2>5. PushInv'
    BY <1>13 DEF CallInv, PushInv, Tagging, PushOwn
  <2>6. IdAndDataAgree'
    BY <1>13 DEF IdAndDataAgree, PushOwn
  <2>7. ReadyImageIsThere'
    BY <1>13 DEF ReadyImageIsThere, PushOwn
  <2>8. PushedIsTheTagged'
    BY <1>13 DEF PushedIsTheTagged, PushOwn
  <2>9. PathGoesWithTransport'
    BY <1>13 DEF PathGoesWithTransport, PushOwn
  <2>10. CopyGoesWhereItSays'
    BY <1>13 DEF CopyGoesWhereItSays, PushOwn
  <2> QED
    BY <2>1, <2>2, <2>3, <2>4, <2>5, <2>6, <2>7, <2>8, <2>9, <2>10
<1>14. ASSUME PushEnds PROVE IInv'
  <2>1. EngineTypeOK'
    BY <1>14 DEF EngineTypeOK, PushEnds
  <2>2. ObjectTypeOK'
    BY <1>14 DEF ObjectTypeOK, PushEnds
  <2>3. PlaceTypeOK'
    BY <1>14 DEF PlaceTypeOK, PushEnds
  <2>4. CallInv'
    BY <1>14 DEF CallInv, PushEnds
  <2>5. PushInv'
    BY <1>14 DEF PushInv, Tagging, PushEnds
  <2>6. IdAndDataAgree'
    BY <1>14 DEF IdAndDataAgree, PushEnds
  <2>7. ReadyImageIsThere'
    BY <1>14 DEF ReadyImageIsThere, PushEnds
  <2>8. PushedIsTheTagged'
    BY <1>14 DEF EngineTypeOK, PushInv, Tagging, PushedIsTheTagged, PushEnds
  <2>9. PathGoesWithTransport'
    BY <1>14 DEF PathGoesWithTransport, PushEnds
  <2>10. CopyGoesWhereItSays'
    BY <1>14 DEF CopyGoesWhereItSays, PushEnds
  <2> QED
    BY <2>1, <2>2, <2>3, <2>4, <2>5, <2>6, <2>7, <2>8, <2>9, <2>10
<1>15. ASSUME NEW viaName \in BOOLEAN, NEW force \in BOOLEAN,
              Rmi(viaName, force)
       PROVE IInv'
  <2>1. EngineTypeOK'
    BY <1>15 DEF EngineTypeOK, Rmi
  <2>2. ObjectTypeOK'
    BY <1>15 DEF EngineTypeOK, ObjectTypeOK, Rmi, GetId, IdFound
  <2>3. PlaceTypeOK'
    BY <1>15 DEF PlaceTypeOK, Rmi
  <2>4. CallInv'
    BY <1>15 DEF CallInv, Rmi
  <2>5. PushInv'
    BY <1>15 DEF PushInv, Tagging, Rmi
  <2>6. IdAndDataAgree'
    BY <1>15 DEF IdAndDataAgree, Rmi, GetId, IdFound
  <2>7. ReadyImageIsThere'
    BY <1>15 DEF ReadyImageIsThere, Rmi
  <2>8. PushedIsTheTagged'
    BY <1>15 DEF PushedIsTheTagged, Rmi
  <2>9. PathGoesWithTransport'
    BY <1>15 DEF PathGoesWithTransport, Rmi
  <2>10. CopyGoesWhereItSays'
    BY <1>15 DEF CopyGoesWhereItSays, Rmi
  <2> QED
    BY <2>1, <2>2, <2>3, <2>4, <2>5, <2>6, <2>7, <2>8, <2>9, <2>10
<1>16. ASSUME NEW n \in Names, NEW t \in Transports, NEW p \in UserPaths,
              UsingTransport(n, t, p)
       PROVE IInv'
  <2>1. EngineTypeOK'
    BY <1>16 DEF EngineTypeOK, UsingTransport
  <2>2. ObjectTypeOK'
    BY <1>16 DEF ObjectTypeOK, UsingTransport
  <2>3. PlaceTypeOK'
    <3>1. /\ temps + 1 \in Paths /\ temps' \in 0..MaxPath
          /\ UserPaths \subseteq Paths \cup {NoPath}
      BY <1>16
         DEF UsingTransport, NewTemps, Lacks, PlaceTypeOK, Paths, UserPaths
    <3>2. Used(place[n], t, p, temps + 1) \in Place
      BY <3>1, UsedFacts DEF PlaceTypeOK, PathGoesWithTransport
    <3> QED
      BY <1>16, <3>1, <3>2 DEF UsingTransport, PlaceTypeOK
  <2>4. CallInv'
    BY <1>16 DEF CallInv, UsingTransport
  <2>5. PushInv'
    BY <1>16 DEF PushInv, Tagging, UsingTransport
  <2>6. IdAndDataAgree'
    BY <1>16 DEF IdAndDataAgree, UsingTransport
  <2>7. ReadyImageIsThere'
    BY <1>16 DEF ReadyImageIsThere, UsingTransport
  <2>8. PushedIsTheTagged'
    BY <1>16 DEF PushedIsTheTagged, UsingTransport
  <2>9. PathGoesWithTransport'
    <3>1. temps + 1 \in Paths /\ UserPaths \subseteq Paths \cup {NoPath}
      BY <1>16
         DEF UsingTransport, NewTemps, Lacks, PlaceTypeOK, Paths, UserPaths
    <3>2. Used(place[n], t, p, temps + 1).transport \in PathRequired
            <=> Used(place[n], t, p, temps + 1).path # NoPath
      BY <3>1, UsedFacts DEF PlaceTypeOK, PathGoesWithTransport
    <3> QED
      BY <1>16, <3>2 DEF UsingTransport, PathGoesWithTransport
  <2>10. CopyGoesWhereItSays'
    BY <1>16 DEF CopyGoesWhereItSays, UsingTransport
  <2> QED
    BY <2>1, <2>2, <2>3, <2>4, <2>5, <2>6, <2>7, <2>8, <2>9, <2>10
<1>17. ASSUME Copy PROVE IInv'
  <2>0. PICK n \in Names, m \in Names, st \in Transports \cup {"none"},
             tt \in Transports, sp \in Paths \cup {NoPath}, tp \in Paths \cup {NoPath} :
          /\ BeginCopy(n, m, st, sp, tt, tp)
          /\ st \in {"docker", "docker-daemon"} => sp = NoPath
          /\ tt \notin PathRequired => tp = NoPath
    BY <1>17, CopyCalls
  <2>1. EngineTypeOK'
    BY <2>0 DEF EngineTypeOK, BeginCopy
  <2>2. ObjectTypeOK'
    BY <2>0 DEF ObjectTypeOK, BeginCopy
  <2>3. PlaceTypeOK'
    BY <2>0, BeginCopyFacts
  <2>4. CallInv'
    BY <2>0 DEF CallInv, BeginCopy
  <2>5. PushInv'
    BY <2>0 DEF PushInv, Tagging, BeginCopy
  <2>6. IdAndDataAgree'
    BY <2>0 DEF IdAndDataAgree, BeginCopy
  <2>7. ReadyImageIsThere'
    BY <2>0 DEF ReadyImageIsThere, BeginCopy
  <2>8. PushedIsTheTagged'
    BY <2>0 DEF PushedIsTheTagged, BeginCopy
  <2>9. PathGoesWithTransport'
    BY <2>0, BeginCopyFacts
  <2>10. CopyGoesWhereItSays'
    BY <2>0, BeginCopyFacts
  <2> QED
    BY <2>1, <2>2, <2>3, <2>4, <2>5, <2>6, <2>7, <2>8, <2>9, <2>10
<1>18. ASSUME CopyReads PROVE IInv'
  <2>1. EngineTypeOK'
    BY <1>18 DEF EngineTypeOK, CopyReads
  <2>2. ObjectTypeOK'
    <3>1. asked.from \in Names
      BY DEF PlaceTypeOK, Askings
    <3>2. buf' \in Ids \cup {NoId}
      BY <1>18, <3>1 DEF CopyReads, EngineTypeOK
    <3> QED
      BY <1>18, <3>2 DEF ObjectTypeOK, CopyReads
  <2>3. PlaceTypeOK'
    BY <1>18, Places DEF PlaceTypeOK, CopyReads, Askings
  <2>4. CallInv'
    BY <1>18 DEF CallInv, CopyReads
  <2>5. PushInv'
    BY <1>18 DEF PushInv, Tagging, CopyReads
  <2>6. IdAndDataAgree'
    BY <1>18 DEF IdAndDataAgree, CopyReads
  <2>7. ReadyImageIsThere'
    BY <1>18 DEF ReadyImageIsThere, CopyReads
  <2>8. PushedIsTheTagged'
    BY <1>18 DEF PushedIsTheTagged, CopyReads
  <2>9. PathGoesWithTransport'
    BY <1>18 DEF PathGoesWithTransport, CopyReads
  <2>10. CopyGoesWhereItSays'
    BY <1>18 DEF CopyGoesWhereItSays, CopyReads
  <2> QED
    BY <2>1, <2>2, <2>3, <2>4, <2>5, <2>6, <2>7, <2>8, <2>9, <2>10
<1>19. ASSUME CopyWrites PROVE IInv'
  <2>1. EngineTypeOK'
    <3>1. asked.to \in Names /\ buf \in Ids
      BY <1>19 DEF PlaceTypeOK, Askings, ObjectTypeOK, CallInv, CopyWrites
    <3> QED
      BY <1>19, <3>1 DEF EngineTypeOK, CopyWrites, Store
  <2>2. ObjectTypeOK'
    BY <1>19 DEF ObjectTypeOK, CopyWrites, CopyOver
  <2>3. PlaceTypeOK'
    BY <1>19, Places DEF PlaceTypeOK, CopyWrites, CopyOver
  <2>4. CallInv'
    BY <1>19 DEF CallInv, CopyWrites, CopyOver
  <2>5. PushInv'
    BY <1>19 DEF PushInv, Tagging, CopyWrites
  <2>6. IdAndDataAgree'
    BY <1>19 DEF IdAndDataAgree, CopyWrites
  <2>7. ReadyImageIsThere'
    BY <1>19 DEF ReadyImageIsThere, CopyWrites
  <2>8. PushedIsTheTagged'
    BY <1>19 DEF PushedIsTheTagged, CopyWrites
  <2>9. PathGoesWithTransport'
    BY <1>19 DEF PathGoesWithTransport, CopyWrites
  <2>10. CopyGoesWhereItSays'
    BY <1>19 DEF CopyGoesWhereItSays, CopyWrites
  <2> QED
    BY <2>1, <2>2, <2>3, <2>4, <2>5, <2>6, <2>7, <2>8, <2>9, <2>10
<1>20. ASSUME Forget PROVE IInv'
  <2>1. EngineTypeOK'
    BY <1>20 DEF EngineTypeOK, Forget
  <2>2. ObjectTypeOK'
    BY <1>20 DEF ObjectTypeOK, Forget
  <2>3. PlaceTypeOK'
    BY <1>20, Places DEF PlaceTypeOK, Forget
  <2>4. CallInv'
    BY <1>20 DEF CallInv, Forget
  <2>5. PushInv'
    BY <1>20 DEF PushInv, Tagging, Forget
  <2>6. IdAndDataAgree'
    BY <1>20 DEF IdAndDataAgree, Forget
  <2>7. ReadyImageIsThere'
    BY <1>20 DEF ReadyImageIsThere, Forget
  <2>8. PushedIsTheTagged'
    BY <1>20 DEF PushedIsTheTagged, Forget
  <2>9. PathGoesWithTransport'
    BY <1>20 DEF PathGoesWithTransport, Forget
  <2>10. CopyGoesWhereItSays'
    BY <1>20 DEF CopyGoesWhereItSays, Forget
  <2> QED
    BY <2>1, <2>2, <2>3, <2>4, <2>5, <2>6, <2>7, <2>8, <2>9, <2>10
<1>21. ASSUME CliPullKilled PROVE IInv'
  <2>1. EngineTypeOK'
    BY <1>21 DEF EngineTypeOK, CliPullKilled
  <2>2. ObjectTypeOK'
    BY <1>21 DEF ObjectTypeOK, CliPullKilled
  <2>3. PlaceTypeOK'
    BY <1>21, Places DEF PlaceTypeOK, CliPullKilled
  <2>4. CallInv'
    BY <1>21 DEF CallInv, CliPullKilled
  <2>5. PushInv'
    BY <1>21 DEF CallInv, PushInv, Tagging, CliPullKilled
  <2>6. IdAndDataAgree'
    BY <1>21 DEF IdAndDataAgree, CliPullKilled
  <2>7. ReadyImageIsThere'
    BY <1>21 DEF ReadyImageIsThere, CliPullKilled
  <2>8. PushedIsTheTagged'
    BY <1>21 DEF PushedIsTheTagged, CliPullKilled
  <2>9. PathGoesWithTransport'
    BY <1>21 DEF PathGoesWithTransport, CliPullKilled
  <2>10. CopyGoesWhereItSays'
    BY <1>21 DEF CopyGoesWhereItSays, CliPullKilled
  <2> QED
    BY <2>1, <2>2, <2>3, <2>4, <2>5, <2>6, <2>7, <2>8, <2>9, <2>10
<1>22. ASSUME CliKilled PROVE IInv'
  <2>1. EngineTypeOK'
    BY <1>22 DEF EngineTypeOK, CliKilled
  <2>2. ObjectTypeOK'
    BY <1>22 DEF ObjectTypeOK, CliKilled, EngineTypeOK, GetId, IdFound
  <2>3. PlaceTypeOK'
    BY <1>22, Places DEF PlaceTypeOK, CliKilled
  <2>4. CallInv'
    BY <1>22 DEF CallInv, CliKilled
  <2>5. PushInv'
    BY <1>22 DEF CallInv, PushInv, Tagging, CliKilled
  <2>6. IdAndDataAgree'
    BY <1>22 DEF IdAndDataAgree, CliKilled, GetId, IdFound
  <2>7. ReadyImageIsThere'
    BY <1>22 DEF ReadyImageIsThere, CliKilled
  <2>8. PushedIsTheTagged'
    BY <1>22 DEF PushedIsTheTagged, CliKilled
  <2>9. PathGoesWithTransport'
    BY <1>22 DEF PathGoesWithTransport, CliKilled
  <2>10. CopyGoesWhereItSays'
    BY <1>22 DEF CopyGoesWhereItSays, CliKilled
  <2> QED
    BY <2>1, <2>2, <2>3, <2>4, <2>5, <2>6, <2>7, <2>8, <2>9, <2>10
<1>23. ASSUME SkopeoKilled PROVE IInv'
  <2>1. EngineTypeOK'
    BY <1>23 DEF EngineTypeOK, SkopeoKilled
  <2>2. ObjectTypeOK'
    BY <1>23 DEF ObjectTypeOK, SkopeoKilled, CopyOver
  <2>3. PlaceTypeOK'
    BY <1>23, Places DEF PlaceTypeOK, SkopeoKilled, CopyOver
  <2>4. CallInv'
    BY <1>23 DEF CallInv, SkopeoKilled, CopyOver
  <2>5. PushInv'
    BY <1>23 DEF CallInv, PushInv, Tagging, SkopeoKilled
  <2>6. IdAndDataAgree'
    BY <1>23 DEF IdAndDataAgree, SkopeoKilled
  <2>7. ReadyImageIsThere'
    BY <1>23 DEF ReadyImageIsThere, SkopeoKilled
  <2>8. PushedIsTheTagged'
    BY <1>23 DEF PushedIsTheTagged, SkopeoKilled
  <2>9. PathGoesWithTransport'
    BY <1>23 DEF PathGoesWithTransport, SkopeoKilled
  <2>10. CopyGoesWhereItSays'
    BY <1>23 DEF CopyGoesWhereItSays, SkopeoKilled
  <2> QED
    BY <2>1, <2>2, <2>3, <2>4, <2>5, <2>6, <2>7, <2>8, <2>9, <2>10
<1>24. CASE UNCHANGED vars
  <2>1. EngineTypeOK'
    BY <1>24 DEF vars, EngineTypeOK
  <2>6. ObjectTypeOK'
    <3>1. /\ kind' = kind /\ id' = id /\ data' = data /\ op' = op /\ buf' = buf
          /\ tagged' = tagged /\ result' = result
      BY <1>24 DEF vars
    <3>2. /\ pushing' \in BOOLEAN /\ meddled' \in BOOLEAN
          /\ lost' \in BOOLEAN /\ cut' \in BOOLEAN
      BY <1>24 DEF vars, ObjectTypeOK
    <3> QED
      BY <3>1, <3>2 DEF ObjectTypeOK
  <2>5. PlaceTypeOK'
    BY <1>24 DEF vars, PlaceTypeOK
  <2>4. CallInv' /\ PushInv'
    BY <1>24 DEF vars, CallInv, PushInv, Tagging
  <2>2. IdAndDataAgree' /\ ReadyImageIsThere' /\ PushedIsTheTagged'
    BY <1>24 DEF vars, IdAndDataAgree, ReadyImageIsThere, PushedIsTheTagged
  <2>3. PathGoesWithTransport' /\ CopyGoesWhereItSays'
    BY <1>24 DEF vars, PathGoesWithTransport, CopyGoesWhereItSays
  <2> QED
    BY <2>1, <2>2, <2>3, <2>4, <2>5, <2>6
<1> QED
  BY <1>1, <1>2, <1>3, <1>4, <1>5, <1>6, <1>7, <1>8, <1>9, <1>10, <1>11,
     <1>12, <1>13, <1>14, <1>15, <1>16, <1>17, <1>18, <1>19, <1>20, <1>21,
     <1>22, <1>23, <1>24
     DEF Next, Others, DockerStep, PodmanStep, BuildahStep, CliStep, Construction, Removal

(* Every variable is of its kind, in every reachable state.                *)
THEOREM TypeCorrect == Spec => []TypeOK
<1>1. IInv => TypeOK
  BY TypeParts DEF IInv
<1> QED
  BY <1>1, InitInv, StepInv, PTL DEF Spec

(* The id an object has and the inspection it keeps are of one image.      *)
THEOREM IdsAndData == Spec => []IdAndDataAgree
<1>1. IInv => IdAndDataAgree
  BY DEF IInv
<1> QED
  BY <1>1, InitInv, StepInv, PTL DEF Spec

(* A constructor that may pull, pull and tag_image return only when the    *)
(* engine has an image of that name, or the one of the identifier that was *)
(* given; unless others removed one in the meantime, or the command that   *)
(* pulls was killed.                                                       *)
THEOREM ReadyImages == Spec => []ReadyImageIsThere
<1>1. IInv => ReadyImageIsThere
  BY DEF IInv
<1> QED
  BY <1>1, InitInv, StepInv, PTL DEF Spec

(* push(repository, tag) publishes what it tagged.                         *)
THEOREM PushedImages == Spec => []PushedIsTheTagged
<1>1. IInv => PushedIsTheTagged
  BY DEF IInv
<1> QED
  BY <1>1, InitInv, StepInv, PTL DEF Spec

(* A transport that needs a path has one, and the others have none.        *)
THEOREM TransportPaths == Spec => []PathGoesWithTransport
<1>1. IInv => PathGoesWithTransport
  BY DEF IInv
<1> QED
  BY <1>1, InitInv, StepInv, PTL DEF Spec

(* skopeo reads and writes where the caller of copy said, or in a fresh    *)
(* directory, and reads where the object is if no transport was given.     *)
THEOREM Copies == Spec => []CopyGoesWhereItSays
<1>1. IInv => CopyGoesWhereItSays
  BY DEF IInv
<1> QED
  BY <1>1, InitInv, StepInv, PTL DEF Spec
==============================================================================
