------------------------------ MODULE VlanStore ------------------------------
(***************************************************************************)
(* What the VLAN pages promise: a set of VLANs with their members, as      *)
(* large as the table, and a default VLAN for each port.  VLAN 1 and a     *)
(* VLAN that is some port's default cannot be removed.                     *)
(***************************************************************************)
EXTENDS Naturals, FiniteSets

CONSTANTS Vid, Port, Membership,
          MaxVlans      \* SAL_MAX_STATIC_VLAN

VARIABLES vlans,        \* the members of each VLAN there is
          default       \* the VLAN of a port's untagged frames

Put(v, m) ==
    /\ v \in DOMAIN vlans \/ Cardinality(DOMAIN vlans) < MaxVlans
    /\ vlans' = [w \in DOMAIN vlans \cup {v} |-> IF w = v THEN m ELSE vlans[w]]
    /\ UNCHANGED default

Drop(v) ==
    /\ v \in DOMAIN vlans \ {1}
    /\ \A p \in Port : default[p] # v
    /\ vlans' = [w \in DOMAIN vlans \ {v} |-> vlans[w]]
    /\ UNCHANGED default

SetDefault(p, v) ==
    /\ default' = [default EXCEPT ![p] = v]
    /\ UNCHANGED vlans

StoreInit ==
    /\ \E m \in Membership : vlans = [v \in {1} |-> m]
    /\ default = [p \in Port |-> 1]

StoreNext ==
    \/ \E v \in Vid, m \in Membership : Put(v, m)
    \/ \E v \in Vid : Drop(v)
    \/ \E p \in Port, v \in Vid : SetDefault(p, v)

StoreSpec == StoreInit /\ [][StoreNext]_<<vlans, default>>

=============================================================================
