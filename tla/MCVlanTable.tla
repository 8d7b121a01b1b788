---------------------------- MODULE MCVlanTable ----------------------------
(***************************************************************************)
(* An instance of VlanTable for TLC: two ports on the pages and one that   *)
(* they do not show; one VID more than fits in the table of static VLANs   *)
(* and than there are member configurations.                               *)
(***************************************************************************)
EXTENDS VlanTable

SomeMemberships ==
    {[mbr |-> Port, tag |-> {}], [mbr |-> {3}, tag |-> {3}], [mbr |-> {}, tag |-> {}]}

=============================================================================
