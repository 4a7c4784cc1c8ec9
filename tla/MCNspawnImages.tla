--------------------------- MODULE MCNspawnImages ---------------------------
(* Two clients, an image from a URL and one from a file, and two loop      *)
(* devices of which the name of one is the beginning of the other's, as    *)
(* with /dev/loop1 and /dev/loop10.                                        *)
EXTENDS NspawnImages, TLC

CONSTANTS c1, c2, web, built, loop1, loop10

MCNameStartsWith == {<<loop1, loop1>>, <<loop10, loop10>>, <<loop10, loop1>>}
MCSymmetry == Permutations(Clients)
=============================================================================
