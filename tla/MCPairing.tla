----------------------------- MODULE MCPairing -----------------------------
(***************************************************************************)
(* Instances of Pairing for TLC: an honest server h with addresses in two  *)
(* networks and a fleet s1, s2 in a third, all behind a relay in a fourth. *)
(* s2 announces blocks 1 and 3, so that its span hides a gap at block 2.   *)
(***************************************************************************)
EXTENDS Pairing, TLC

CONSTANTS h, s1, s2, A, B, X, R

FleetReach == h :> {A, B} @@ s1 :> {X} @@ s2 :> {X}
PublicFirst == A :> 1 @@ X :> 2 @@ R :> 3 @@ B :> 4
GappyHosts == h :> {2} @@ s1 :> {2} @@ s2 :> {1, 3}

=============================================================================
