------------------------------- MODULE MCGate -------------------------------
(***************************************************************************)
(* Gate with two servers.                                                  *)
(***************************************************************************)
EXTENDS Gate, TLC

CONSTANTS p1, p2

=============================================================================
