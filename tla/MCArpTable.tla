----------------------------- MODULE MCArpTable -----------------------------
(***************************************************************************)
(* An instance of ArpTable for TLC: two IP addresses, each with a first    *)
(* and a second MAC address.  With either or none as the gateway, there    *)
(* are more hosts than the table has entries.                              *)
(***************************************************************************)
EXTENDS ArpTable, TLC

CONSTANTS ip1, ip2, mac1, mac2

Addresses == {Unset, ip1, ip2}
Pairs == {ip1, ip2} \X {mac1, mac2}

Macs == Permutations({mac1, mac2})

=============================================================================
