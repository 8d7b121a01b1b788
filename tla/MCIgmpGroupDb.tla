--------------------------- MODULE MCIgmpGroupDb ---------------------------
(***************************************************************************)
(* Instances of IgmpGroupDb for TLC.                                       *)
(***************************************************************************)
EXTENDS IgmpGroupDb

\* Every group has an address of its own in the chip, or all but the third share one.
EachItsOwn(g) == g
OneShared(g) == IF g = "g3" THEN "g3" ELSE "g1"

NoTrunk == {{}}
TrunkOrNot == {{}, {0, 1}}
NoStatic == {{}}
StaticOrNot == {{}, {1}}

=============================================================================
