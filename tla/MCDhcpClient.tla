--------------------------- MODULE MCDhcpClient ---------------------------
(***************************************************************************)
(* Instances of DhcpClient for TLC.  No symmetry: the run checks liveness. *)
(***************************************************************************)
EXTENDS DhcpClient

=============================================================================
