---------------------------- MODULE MCIntegrity ----------------------------
(***************************************************************************)
(* Instances of Integrity for TLC: two honest servers in clusters A and B  *)
(* and two cheats.  In the fleet the cheats share cluster X; in the spread *)
(* they sit in X and Y, so that they can corroborate each other.           *)
(***************************************************************************)
EXTENDS Integrity, TLC

CONSTANTS h1, h2, s1, s2, A, B, X, Y

FleetClusterOf == h1 :> A @@ h2 :> B @@ s1 :> X @@ s2 :> X

\* h2 is a server nobody could locate.
SpreadClusterOf == h1 :> A @@ h2 :> Unknown @@ s1 :> X @@ s2 :> Y

\* Newcomers, except where a long clean record makes the integrity bound matter:
\* with 78 passes two full disputes leave integrity exactly at one half.
Newcomers == [p \in Peers |-> 0]
VeteranRecord == [p \in Peers |-> IF p = h1 THEN 78 ELSE 0]
BriefRecord == [p \in Peers |-> 5]

=============================================================================
