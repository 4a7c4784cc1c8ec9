------------------------- MODULE MCDockerSessions --------------------------
(* Small instances of DockerSessions.                                      *)
EXTENDS DockerSessions, TLC

Symmetry == Permutations(Sessions)

=============================================================================
