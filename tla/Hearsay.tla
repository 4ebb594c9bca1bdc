------------------------------ MODULE Hearsay ------------------------------
(***************************************************************************)
(* What sharing reputation promises a reader, without the machinery: every *)
(* observer has at most one vote, a vote is only ever replaced by a later  *)
(* one, and a vote that lapsed does not come back.                         *)
(***************************************************************************)
EXTENDS Integers

CONSTANT Observers

VARIABLES
    vote,   \* the epoch each observer currently votes with
    floor   \* the highest epoch heard from it, outliving the vote

Silent == -1

Init ==
    /\ vote = [o \in Observers |-> Silent]
    /\ floor = [o \in Observers |-> Silent]

\* A later vote is cast, in the place of the observer's previous one.
Hear(o) ==
    /\ floor'[o] > floor[o]
    /\ floor' = [floor EXCEPT ![o] = floor'[o]]
    /\ vote' = [vote EXCEPT ![o] = floor'[o]]

\* Votes lapse; what was heard stays heard.
Lapse(S) ==
    /\ vote' = [o \in Observers |-> IF o \in S THEN Silent ELSE vote[o]]
    /\ UNCHANGED floor

\* The reader starts over.
Forget ==
    /\ vote' = [o \in Observers |-> Silent]
    /\ floor' = [o \in Observers |-> Silent]

Next ==
    \/ \E o \in Observers : Hear(o)
    \/ \E S \in SUBSET Observers : Lapse(S)
    \/ Forget

Spec == Init /\ [][Next]_<<vote, floor>>

=============================================================================
