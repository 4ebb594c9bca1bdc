------------------------------ MODULE MCGossip ------------------------------
(***************************************************************************)
(* Instances of Gossip for TLC: the reader me, which publishes as well, an *)
(* observer whose clock agrees with the reader's and one whose clock is    *)
(* ahead.                                                                  *)
(***************************************************************************)
EXTENDS Gossip, TLC

CONSTANTS me, alice, bob

InStep == [o \in Observers |-> 0]
AliceAhead == [o \in Observers |-> IF o = alice THEN 2 ELSE 0]

=============================================================================
