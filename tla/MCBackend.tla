----------------------------- MODULE MCBackend -----------------------------
(* Small instances of Backend: a DockerBackend, whose volumes and images   *)
(* methods are stubs, and an NspawnBackend, which has no cleanup_volumes   *)
(* and whose cleanup_containers logs what it cannot remove.                *)
EXTENDS Backend, TLC

CONSTANTS docker, nspawn

Docker ==
  [containers |-> "removes", volumes |-> "nothing", images |-> "nothing"]

Nspawn ==
  [containers |-> "tries", volumes |-> "raises", images |-> "removes"]

BothKinds == docker :> Docker @@ nspawn :> Nspawn

EveryCleanup ==
  {{}, {"NOTHING"}, {"EVERYTHING"}, {"CONTAINERS"}, {"TMP_DIRS"},
   {"CONTAINERS", "TMP_DIRS"}, {"VOLUMES", "IMAGES"}, {"NOTHING", "TMP_DIRS"}}

=============================================================================
