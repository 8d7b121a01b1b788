----------------------------- MODULE MCUpgrade -----------------------------
(***************************************************************************)
(* Instances of Upgrade for TLC.                                           *)
(***************************************************************************)
EXTENDS Upgrade

CONSTANTS old, new, a1, a2

\* One image ends inside a block of the bank section, the other at its end.
TwoImages == {old, new}
TwoLengths == [i \in TwoImages |-> IF i = old THEN 6 ELSE 7]

\* Complete images, one cut short, a header alone, and what is no image.
SomeFiles ==
    {[image |-> i, cells |-> TwoLengths[i]] : i \in TwoImages}
    \cup {[image |-> new, cells |-> 5], [image |-> new, cells |-> 0],
          [image |-> NotAnImage, cells |-> 0], [image |-> NotAnImage, cells |-> 2]}

=============================================================================
