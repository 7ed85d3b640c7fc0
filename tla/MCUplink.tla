------------------------------ MODULE MCUplink ------------------------------
(* Two distinguishable samples suffice to tell any two orders apart.       *)
EXTENDS Uplink

CONSTANTS s1, s2, none

MCSample == {s1, s2}
=============================================================================
