------------------------------ MODULE MCProbe ------------------------------
(* Small instances of Probe.  A cfg cannot write -1: these operators do.   *)
EXTENDS Probe

SomeTimeouts  == {-1, 1}
ShortTimeouts == {-1, 0, 1}
SomeCounts    == {-1, 0, 1, 2}
Limits        == {0, 1, 2}

=============================================================================
