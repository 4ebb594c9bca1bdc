------------------------------- MODULE Views -------------------------------
(***************************************************************************)
(* What the readers of a swarm make of its announcements.  Petals writes   *)
(* one record per block and server; each reader first folds them into one  *)
(* range per server: the monitor and the check before a download           *)
(* (cli/monitor.py, cli/preflight.py) with the state of the first block    *)
(* they meet, the backend (backends/petals_backend.py) over the blocks     *)
(* that are ONLINE.                                                        *)
(*                                                                         *)
(* ann[s][b] is what the DHT answers about block b of server s.            *)
(***************************************************************************)
EXTENDS Integers, FiniteSets, FiniteSetsExt

CONSTANTS Servers,   \* peer ids, as numbers: their order breaks ties
          NumBlocks,
          Width      \* characters of the coverage bar

ASSUME ServersAssumption == Servers \subseteq Nat
ASSUME BlocksAssumption == NumBlocks \in Nat \ {0} /\ Width \in Nat \ {0}

Blocks == 0..NumBlocks - 1
States == {"absent", "OFFLINE", "JOINING", "ONLINE"}

InState(ann, s, S) == {b \in Blocks : ann[s][b] \in S}
Heard(ann, s) == InState(ann, s, States \ {"absent"})

Range1(s, B) == [peer |-> s, from |-> Min(B), to |-> Max(B) + 1]
Spanned(c) == c.from..c.to - 1

-----------------------------------------------------------------------------
(* The monitor.                                                            *)

Rows(ann) ==
    {[span |-> Range1(s, Heard(ann, s)), state |-> ann[s][Min(Heard(ann, s))]] :
        s \in {s \in Servers : Heard(ann, s) # {}}}

\* Only servers that are ONLINE count: one that is joining serves nothing.
MutReplicas(ann) ==
    [b \in Blocks |-> Cardinality({r \in Rows(ann) : b \in Spanned(r.span)})]
Replicas(ann) ==
    [b \in Blocks |->
        Cardinality({r \in Rows(ann) : r.state = "ONLINE" /\ b \in Spanned(r.span)})]

Missing(ann) == {b \in Blocks : Replicas(ann)[b] = 0}
Covered(ann) == Missing(ann) = {}

\* One character per block, or the worst block of each bucket.
Bar(ann) ==
    LET size == IF NumBlocks <= Width THEN 1 ELSE (NumBlocks + Width - 1) \div Width
        bucket(i) == {b \in Blocks : b \div size = i}
    IN [i \in 0..(NumBlocks - 1) \div size |-> Min({Replicas(ann)[b] : b \in bucket(i)})]

\* What the report tells its reader to do.
Advice(ann) ==
    LET rows == Rows(ann)
        joining == {r \in rows : r.state = "JOINING"}
        promised == MapThenSumSet(LAMBDA r : r.span.to - r.span.from, joining)
    IN IF rows = {} THEN "nobody"
       ELSE IF Covered(ann) THEN "usable"
       ELSE IF joining = {} \/ \E r \in rows : r.state = "ONLINE" THEN "gaps"
       ELSE IF promised < NumBlocks THEN "wait and find more" ELSE "wait"

\* check_before_loading: a read that fails lets the download begin.
MayLoad(ann, answered, skip) == skip \/ ~answered \/ Covered(ann)

-----------------------------------------------------------------------------
(* The backend.                                                            *)

Discover(ann) ==
    {Range1(s, InState(ann, s, {"ONLINE"})) :
        s \in {s \in Servers : InState(ann, s, {"ONLINE"}) # {}}}

\* No server has records of two states, or of blocks that are not adjacent: none
\* is moving.
Settled(ann) ==
    \A s \in Servers :
       LET B == Heard(ann, s)
       IN B # {} => /\ B = Min(B)..Max(B)
                    /\ \A b \in B : ann[s][b] = ann[s][Min(B)]
=============================================================================
