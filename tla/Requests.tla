------------------------------ MODULE Requests ------------------------------
(***************************************************************************)
(* A client that plans its own pipelines: it finds the servers, weighs     *)
(* what it measured of them against what strangers say, plans a route      *)
(* around recent load, runs it hop by hop with one replacement per hop and *)
(* learns from every outcome (run_swarm, sim/scenarios.py, and             *)
(* tools/backend_demo.py), while servers join, move and crash and other    *)
(* readers look at the same announcements.                                 *)
(*                                                                         *)
(* Verification by a second server is left to Integrity and Pairing; of    *)
(* the three factors of a score only reliability varies.  The simulator    *)
(* plans without hearsay; a Router takes an aggregator as an option, and   *)
(* here it has one.                                                        *)
(***************************************************************************)
EXTENDS Planning, Aggregate

CONSTANTS Places,      \* the ranges of blocks each server may host
          Lazy,        \* servers that return their input
          Opinions,    \* what an observer may report: sets of reports
          Bonus,       \* exploration bonus by number of outcomes, in percent
          MaxTally, MaxLoad, MaxEvents, MaxRequests, Nobody

ASSUME ServersAreFew == IsFiniteSet(Servers)
ASSUME PlacesAssumption == Places \in [Servers -> SUBSET (SUBSET Blocks)]
\* A batch has one report of each of its subjects.
ASSUME OpinionsAssumption ==
    \A R \in Opinions :
       /\ IsFiniteSet(R)
       /\ R \subseteq [subject : Servers, ok : Nat, failed : Nat, mismatches : Nat]
       /\ \A r, q \in R : r.subject = q.subject => r = q
ASSUME ReportsAssumption == ReportSize \in [Servers -> Nat]
ASSUME LimitsAssumption ==
    MaxTally \in Nat /\ MaxLoad \in Nat /\ MaxEvents \in Nat /\ MaxRequests \in Nat
ASSUME BonusAssumption == Bonus \in [0..2 * MaxTally -> Nat]
ASSUME NobodyAssumption == Nobody \notin Servers

VARIABLES ann,      \* the announcements, see Views
          up,       \* the blocks each server really serves
          batches,  \* the hearsay held, see Aggregate
          tally,    \* outcomes measured of each server: ok and failed
          faults,   \* whole faults the client witnessed of it
          load,     \* recent work, in blocks
          cands,    \* what discovery returned for this request
          route,    \* the hops still to run
          current,  \* the server trying the first of them, or Nobody
          attempted,  \* those that failed it
          events, requests
world == <<ann, up>>
memory == <<tally, faults, load>>
request == <<cands, route, current, attempted>>
bounds == <<events, requests>>
vars == <<world, batches, memory, request, bounds>>

-----------------------------------------------------------------------------
Excluded(s) == faults[s] > 0 \/ MismatchConfirmed(Claims(batches, s))

Outcomes(s) == tally[s].ok + tally[s].failed

\* What the client's own record of s is worth, in percent.
Reliability(s) == Rate(tally[s].ok, tally[s].failed)
OwnConfidence(s) == (100 * Outcomes(s)) \div (Outcomes(s) + PriorStrength)

\* A newcomer is tried, because it cannot prove itself otherwise.
ExplorationBonus(s) == Bonus[Outcomes(s)]

EffectiveScore(s) ==
    Least({100, Blend(Claims(batches, s), Reliability(s), OwnConfidence(s))
                   + ExplorationBonus(s)})

LoadShare(s) ==
    LET total == SumFunction(load)
    IN IF total = 0 THEN 0 ELSE (100 * load[s]) \div total

\* What the client makes of the servers it found, and which of them it may use.
Weighed(C) ==
    {[peer |-> c.peer, from |-> c.from, to |-> c.to,
      score |-> EffectiveScore(c.peer), share |-> LoadShare(c.peer)] : c \in C}
Usable(C) == Weighed({c \in C : ~Excluded(c.peer)})

-----------------------------------------------------------------------------
(* The client.                                                             *)

Running == current # Nobody

PlanRequest ==
    LET found == Discover(ann)
        plan == Plan(Usable(found))
    IN /\ ~Running /\ requests < MaxRequests
       /\ plan # NoRoute
       /\ cands' = found /\ route' = plan.hops
       /\ current' = plan.hops[1].peer /\ attempted' = {}
       /\ requests' = requests + 1
       /\ UNCHANGED <<world, batches, memory, events>>

Hop == Head(route)
Saturated(n, m) == Least({n, m})

\* record(): one more outcome of the server that was tried, of one kind.
Recorded(kind) == tally' = [tally EXCEPT ![current][kind] = Saturated(@ + 1, MaxTally)]

Noted == load' = [load EXCEPT ![current] = Saturated(@ + Hop.to - Hop.from, MaxLoad)]

\* The output of a hop of several blocks is compared with its input.
Passthrough == current \in Lazy /\ Hop.to - Hop.from >= 2

\* Nothing of a request is left when it ends.
MutEnded == current' = Nobody /\ attempted' = {} /\ UNCHANGED <<route, cands>>
Ended == current' = Nobody /\ route' = <<>> /\ cands' = {} /\ attempted' = {}

Succeed ==
    /\ Running /\ Hop.from..Hop.to - 1 \subseteq up[current]
    /\ Noted
    /\ Recorded("ok")
    /\ faults' = [faults EXCEPT ![current] =
                    IF Passthrough THEN Saturated(@ + 1, 2) ELSE @]
    /\ IF Len(route) = 1 THEN Ended
       ELSE /\ route' = Tail(route) /\ current' = route[2].peer
            /\ attempted' = {} /\ UNCHANGED cands
    /\ UNCHANGED <<world, batches, bounds>>

\* By score, and by name where scores are equal.
Better(c, d) == \/ EffectiveScore(c.peer) > EffectiveScore(d.peer)
                \/ EffectiveScore(c.peer) = EffectiveScore(d.peer) /\ c.peer <= d.peer

\* The best of the servers that were found for this request and could take over.
Alternates(exclude) ==
    LET spare == {c \in Covering(Hop, cands, exclude) : ~Excluded(c.peer)}
    IN {c \in spare : \A d \in spare \ {c} : Better(c, d)}

\* An error, or a server that is gone: one replacement is tried.
MutFail ==
    /\ Running
    /\ Noted
    /\ Recorded("failed")
    /\ \/ /\ \E c \in Alternates({current}) : current' = c.peer
          /\ attempted' = {current} /\ UNCHANGED <<route, cands>>
       \/ Alternates({current}) = {} /\ Ended
    /\ UNCHANGED <<world, batches, faults, bounds>>
Fail ==
    /\ Running
    /\ Noted
    /\ Recorded("failed")
    /\ \/ /\ attempted = {}
          /\ \E c \in Alternates({current}) : current' = c.peer
          /\ attempted' = {current} /\ UNCHANGED <<route, cands>>
       \/ (attempted = {} => Alternates({current}) = {}) /\ Ended
    /\ UNCHANGED <<world, batches, faults, bounds>>

Attempt == Succeed \/ Fail

-----------------------------------------------------------------------------
(* Everybody else.                                                         *)

Event == events < MaxEvents /\ events' = events + 1

\* Outcomes fade over days.
DecayReliability ==
    tally' = [s \in Servers |-> [ok |-> tally[s].ok \div 2, failed |-> tally[s].failed \div 2]]

\* Time passes: work fades, a fault loses its weight at once, outcomes in days.
Fade ==
    /\ Event
    /\ load' = [s \in Servers |-> load[s] \div 2]
    /\ faults' = [s \in Servers |-> Max({0, faults[s] - 1})]
    /\ UNCHANGED tally \/ DecayReliability
    /\ UNCHANGED <<world, batches, request, requests>>

Publish(o) ==
    /\ Event
    /\ \E R \in Opinions : batches' = [batches EXCEPT ![o] = FitToBudget(R)]
    /\ UNCHANGED <<world, memory, request, requests>>

Lapse(o) ==
    /\ Event /\ batches[o] # {}
    /\ batches' = [batches EXCEPT ![o] = {}]
    /\ UNCHANGED <<world, memory, request, requests>>

Tell(s, B, state) == [b \in Blocks |-> IF b \in B THEN state ELSE ann[s][b]]

\* A server that starts, or moves, withdraws what it hosted and announces what
\* it is going to host.
Settle(s) ==
    /\ Event
    /\ \E B \in Places[s] :
          ann' = [ann EXCEPT ![s] =
                    [b \in Blocks |-> IF b \in B THEN "JOINING"
                                      ELSE IF ann[s][b] = "absent" THEN "absent" ELSE "OFFLINE"]]
    /\ up' = [up EXCEPT ![s] = {}]
    /\ UNCHANGED <<batches, memory, request, requests>>

Ready(s) ==
    LET B == InState(ann, s, {"JOINING"})
    IN /\ B # {}
       /\ up' = [up EXCEPT ![s] = B]
       /\ ann' = [ann EXCEPT ![s] = Tell(s, B, "ONLINE")]
       /\ UNCHANGED <<batches, memory, request, bounds>>

Crash(s) ==
    /\ Event /\ up[s] # {}
    /\ up' = [up EXCEPT ![s] = {}]
    /\ UNCHANGED <<ann, batches, memory, request, requests>>

\* Records lapse: those of blocks it left, or all of a server that is gone.
Forget(s) ==
    LET stale == InState(ann, s, {"OFFLINE"}) \cup (InState(ann, s, {"ONLINE"}) \ up[s])
    IN /\ stale # {}
       /\ ann' = [ann EXCEPT ![s] = Tell(s, stale, "absent")]
       /\ UNCHANGED <<up, batches, memory, request, bounds>>

Around == \/ Fade
          \/ \E o \in Observers : Publish(o) \/ Lapse(o)
          \/ \E s \in Servers : Settle(s) \/ Ready(s) \/ Crash(s) \/ Forget(s)

\* The client comes to a swarm at work, and has read what observers published.
Init ==
    /\ up \in {f \in [Servers -> UNION {Places[s] : s \in Servers} \cup {{}}] :
                  \A s \in Servers : f[s] \in Places[s] \cup {{}}}
    /\ ann = [s \in Servers |-> [b \in Blocks |-> IF b \in up[s] THEN "ONLINE" ELSE "absent"]]
    /\ batches \in [Observers -> {FitToBudget(R) : R \in Opinions}]
    /\ tally = [s \in Servers |-> [ok |-> 0, failed |-> 0]]
    /\ faults = [s \in Servers |-> 0] /\ load = [s \in Servers |-> 0]
    /\ cands = {} /\ route = <<>> /\ current = Nobody /\ attempted = {}
    /\ events = 0 /\ requests = 0

Next == PlanRequest \/ Attempt \/ Around
Spec == Init /\ [][Next]_vars
\* Every hop is answered, or given up after its timeout.
FairSpec == Spec /\ WF_vars(Attempt)

-----------------------------------------------------------------------------
TypeOK ==
    /\ ann \in [Servers -> [Blocks -> States]]
    /\ up \in [Servers -> SUBSET Blocks]
    /\ \A o \in Observers : \E R \in Opinions \cup {{}} : batches[o] \subseteq R
    /\ tally \in [Servers -> [ok : 0..MaxTally, failed : 0..MaxTally]]
    /\ faults \in [Servers -> 0..2] /\ load \in [Servers -> 0..MaxLoad]
    /\ route \in Seq([peer : Servers, from : Blocks, to : 1..NumBlocks])
    /\ current \in Servers \cup {Nobody} /\ attempted \subseteq Servers
    /\ Running <=> route # <<>>
    /\ \A c \in cands : c.peer \in Servers /\ c.from < c.to
    /\ events \in 0..MaxEvents /\ requests \in 0..MaxRequests

\* routing_bias.py:185-198: whatever is announced, measured, said and loaded, the
\* planner's route tiles the model, is as cheap as any cut of it into hops, of any
\* length, and is missing only if some block has no server it may use.
PlanIsCheapest ==
    LET C == Usable(Discover(ann))
        plan == Plan(C)
    IN IF \A b \in Blocks : \E c \in C : b \in Spanned(c)
       THEN plan # NoRoute /\ Tiles(plan.hops) /\ plan.cost = Cheapest(C)
       ELSE plan = NoRoute

\* routing_bias.py:44-53: work goes round.  No hop is planned for a server while
\* another one, as good by the client's own scores, has done less of late.
NoPileUp ==
    LET C == Usable(Discover(ann))
        plan == Plan(C)
    IN plan # NoRoute =>
         \A i \in DOMAIN plan.hops : \A c, d \in C :
            LET h == plan.hops[i]
            IN c.peer = h.peer /\ Hosts(d, h.from, h.to) => d.score < c.score \/ d.share >= c.share

\* While no server is moving, the monitor calls the model usable exactly when a
\* client that excludes nobody could route through it, and its bar shows a gap
\* exactly when there is one.
ReadersAgree ==
    Settled(ann) =>
       /\ Covered(ann) <=> Plan(Weighed(Discover(ann))) # NoRoute
       /\ Covered(ann) <=> \A i \in DOMAIN Bar(ann) : Bar(ann)[i] > 0
       /\ Advice(ann) = "usable" => MayLoad(ann, TRUE, FALSE)

\* aggregate.py:8-20: however many observers one network has, it cannot move the
\* aggregate beyond what observers elsewhere say, if these are in more networks
\* than its weight is worth.
FleetCannotSway ==
    \A s \in Servers :
       LET C == Claims(batches, s)
       IN C # {} =>
            LET median == WeightedMedian(C)
            IN \A k \in Networks(C) :
                 LET rest == {c \in C : c.of # k}
                     telling == Networks(rest) \ {Unknown, ClusterOf[s]}
                     said == {c.estimate : c \in rest}
                 IN Cardinality(telling) * ObserverCap > Budget(k)
                      => Least(said) <= median /\ median <= Max(said)

\* records.py:213-236: every batch fits after eight cuts, or holds one report.
BatchFits ==
    \A o \in Observers : batches[o] # {} =>
       Bytes(batches[o]) <= MaxBatch \/ Cardinality(batches[o]) = 1

\* records.py:207-273: however often a batch was cut, nothing that was left out had
\* more evidence than what was kept.
BestKept ==
    \A o \in Observers : batches[o] # {} =>
       \E R \in Opinions : /\ batches[o] \subseteq R
                           /\ \A r \in batches[o], q \in R \ batches[o] :
                                 Attempts(r) >= Attempts(q)

\* Whatever its servers do, a request ends: each hop is tried twice at most, and
\* two servers that fail in turn do not keep it between them.
RequestEnds == Running ~> ~Running
=============================================================================
