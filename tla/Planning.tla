------------------------------ MODULE Planning ------------------------------
(***************************************************************************)
(* The cheapest pipeline over the servers that cover a model               *)
(* (reputation/routing_bias.py).  A candidate is a server with the range   *)
(* of blocks it was found to host, its effective score and its share of    *)
(* the recent work, in percent.  Costs are in hundredths of a block.       *)
(***************************************************************************)
EXTENDS Views, Sequences

CONSTANTS HopPenalty, QualityWeight, LoadWeight,
          Unreachable,  \* a cost above every route's
          NoRoute

ASSUME CostsAssumption == HopPenalty \in Nat /\ QualityWeight \in Nat \ {0} /\ LoadWeight \in Nat
ASSUME UnreachableAssumption ==
    /\ Unreachable \in Nat
    /\ NumBlocks * (HopPenalty + 100 * LoadWeight + 100 * QualityWeight) < Unreachable
ASSUME NoRouteAssumption ==
    NoRoute \notin [cost : Nat, hops : Seq([peer : Nat, from : Nat, to : Nat])]

Clip(b) == Max({0, Min({b, NumBlocks})})

MutBoundaries(cands) == {0, NumBlocks} \cup {Clip(c.from) : c \in cands}
Boundaries(cands) ==
    {0, NumBlocks} \cup UNION {{Clip(c.from), Clip(c.to)} : c \in cands}

MutHopCost(c, p, t) == HopPenalty + (t - p) * QualityWeight * (100 - c.score)
HopCost(c, p, t) ==
    HopPenalty + LoadWeight * c.share + (t - p) * QualityWeight * (100 - c.score)

Hosts(c, p, t) == c.from <= p /\ p < c.to /\ t <= Min({c.to, NumBlocks})

\* The order candidates are tried in, so that equal costs fall alike everywhere.
Precedes(c, d) ==
    \/ c.from < d.from
    \/ c.from = d.from /\ c.to < d.to
    \/ c.from = d.from /\ c.to = d.to /\ c.peer < d.peer

\* The cheapest way to position t by a last hop from a position reached before; of
\* equals, the one from the first position and the first candidate.
Legs(reached, cands, t) ==
    {[cost |-> r.way.cost + HopCost(c, r.at, t), at |-> r.at, hops |-> r.way.hops, by |-> c] :
        r \in {r \in reached : r.way.cost < Unreachable}, c \in cands}
Able(reached, cands, t) == {l \in Legs(reached, cands, t) : Hosts(l.by, l.at, t)}
Cheap(L) == {l \in L : \A m \in L : l.cost <= m.cost}
First(L) == CHOOSE l \in L : \A m \in L \ {l} : \/ l.at < m.at
                                                \/ l.at = m.at /\ Precedes(l.by, m.by)

Reach(reached, cands, t) ==
    LET able == Able(reached, cands, t)
        first == First(Cheap(able))
    IN IF able = {} THEN [cost |-> Unreachable, hops |-> <<>>]
       ELSE [cost |-> first.cost,
             hops |-> Append(first.hops, [peer |-> first.by.peer, from |-> first.at, to |-> t])]

\* best and back, position by position.
Table(cands) ==
    LET positions == Boundaries(cands)
        best[t \in positions] ==
            IF t = 0 THEN [cost |-> 0, hops |-> <<>>]
            ELSE Reach({[at |-> p, way |-> best[p]] : p \in {p \in positions : p < t}}, cands, t)
    IN best

Plan(cands) ==
    LET end == Table(cands)[NumBlocks]
    IN IF end.cost = Unreachable THEN NoRoute ELSE end

\* Who could take over a hop, if it may be used.
Covering(hop, found, exclude) ==
    {c \in found : c.from <= hop.from /\ hop.to <= c.to /\ c.peer \notin exclude}

-----------------------------------------------------------------------------
(* The reference: every way of cutting the model into hops.                *)

Onward(rest, cands, p) ==
    {HopCost(d[1], p, d[2]) + rest[d[2]] :
        d \in {d \in cands \X ((p + 1)..NumBlocks) : Hosts(d[1], p, d[2])}}

Remaining(cands) ==
    LET rest[p \in 0..NumBlocks] ==
            IF p = NumBlocks THEN 0 ELSE Min({Unreachable} \cup Onward(rest, cands, p))
    IN rest
Cheapest(cands) == Remaining(cands)[0]

Tiles(hops) ==
    /\ hops # <<>> /\ hops[1].from = 0 /\ hops[Len(hops)].to = NumBlocks
    /\ \A i \in 1..Len(hops) - 1 : hops[i].to = hops[i + 1].from
    /\ \A i \in 1..Len(hops) : hops[i].from < hops[i].to
=============================================================================
