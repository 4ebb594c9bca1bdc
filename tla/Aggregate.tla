----------------------------- MODULE Aggregate -----------------------------
(***************************************************************************)
(* Many strangers' claims about one server turned into one number          *)
(* (reputation/aggregate.py), and how much of what one measured oneself it *)
(* may change.  Weights and percentages are integers; a cluster is a       *)
(* network.                                                                *)
(*                                                                         *)
(* batches[o] is the set of reports in the batch of observer o that the    *)
(* reader holds, empty when it holds none; how it comes to hold one is     *)
(* module Gossip.                                                          *)
(***************************************************************************)
EXTENDS Integers, FiniteSets, FiniteSetsExt

CONSTANTS Observers,
          ClusterOf,      \* network of each observer and server
          Unknown,        \* the network of a peer that cannot be located
          ObserverCap,    \* max_weight_per_observer
          ClusterCap,     \* max_weight_per_cluster
          UnknownCap,     \* unknown_cluster_weight
          Discount,       \* collusion_discount, in percent
          PriorStrength,  \* prior_strength, of claims and of the scorer
          PriorRate,      \* prior_success_rate, in percent
          ConfidentClusters,  \* min_clusters_for_confidence
          AccusingClusters,   \* min_clusters_for_mismatch
          RemoteShare     \* max_remote_influence, in percent

ASSUME ObserversAssumption == IsFiniteSet(Observers)
ASSUME CapsAssumption ==
    /\ ObserverCap \in Nat \ {0} /\ ClusterCap \in Nat /\ UnknownCap \in Nat
    /\ ClusterCap >= ObserverCap
\* The unit of weight is so small that a network's voices share its budget evenly.
ASSUME UnitAssumption == \A n \in 1..Cardinality(Observers) : ClusterCap % n = 0
ASSUME DiscountAssumption == Discount \in 0..100
ASSUME InfluenceAssumption == ConfidentClusters \in Nat \ {0} /\ RemoteShare \in 0..100
ASSUME PriorAssumption == PriorStrength \in Nat \ {0} /\ PriorRate \in 0..100

Least(S) == Min(S)

\* Both the scorer and a claim start from the same prior.
Rate(ok, failed) == (PriorStrength * PriorRate + 100 * ok) \div (PriorStrength + ok + failed)

-----------------------------------------------------------------------------
(* The claims.                                                             *)

Own(o, s) ==
    IF ClusterOf[o] = ClusterOf[s] /\ ClusterOf[o] # Unknown
    THEN (ObserverCap * Discount) \div 100 ELSE ObserverCap

\* What each observer says of s, if it says anything; here no observer is a
\* server, so none speaks of itself.  Vouching within one's own network is what
\* self-dealing looks like, and counts for little.
Voices(batches, s) ==
    {[by |-> v[1], of |-> ClusterOf[v[1]], estimate |-> Rate(v[2].ok, v[2].failed),
      accuses |-> v[2].mismatches > 0, own |-> Own(v[1], s)] :
        v \in {v \in Observers \X UNION {batches[o] : o \in Observers} :
                 /\ v[2] \in batches[v[1]] /\ v[2].subject = s
                 /\ v[2].ok + v[2].failed > 0 \/ v[2].mismatches > 0}}

\* No network's voices weigh more together than its budget.
Budget(k) == IF k = Unknown THEN UnknownCap ELSE ClusterCap
MutWeight(v, V) == v.own
Weight(v, V) ==
    LET total == SumFunction([u \in {u \in V : u.of = v.of} |-> u.own])
    IN IF total > Budget(v.of) THEN (v.own * Budget(v.of)) \div total ELSE v.own

Claims(batches, s) ==
    LET V == Voices(batches, s)
        weighed == {[by |-> v.by, of |-> v.of, estimate |-> v.estimate,
                     accuses |-> v.accuses, weight |-> Weight(v, V)] : v \in V}
    IN {c \in weighed : c.weight > 0}

Total(C) == SumFunction([c \in C |-> c.weight])
Networks(C) == {c.of : c \in C}

\* The least estimate that half of the weight does not exceed.
WeightedMedian(C) ==
    Least({e \in {c.estimate : c \in C} : 2 * Total({c \in C : c.estimate <= e}) >= Total(C)})

MismatchConfirmed(C) == Cardinality(Networks({c \in C : c.accuses})) >= AccusingClusters

Trustworthy(C) == Cardinality(Networks(C)) >= 2

\* In percent: enough networks, and enough weight.
Confidence(C) ==
    LET spread == Least({100, (100 * Cardinality(Networks(C))) \div ConfidentClusters})
    IN (spread * Least({100, (100 * Total(C)) \div ObserverCap})) \div 100

\* Hearsay counts for less the more one has measured oneself.
Blend(C, own, confidence) ==
    LET share == (RemoteShare * (100 - confidence) * Confidence(C)) \div 10000
        mixed == ((100 - share) * own + share * WeightedMedian(C)) \div 100
    IN IF ~Trustworthy(C) THEN own
       ELSE IF MismatchConfirmed(C) THEN Least({mixed, 10}) ELSE mixed

-----------------------------------------------------------------------------
(* The batch an observer signs: sorted by evidence, then cut to the size a *)
(* DHT stores (build_batch and _fit_to_budget, reputation/records.py).     *)

CONSTANTS ReportSize, Envelope, MaxBatch, MaxReports

ASSUME SizesAssumption == Envelope \in Nat /\ MaxReports \in Nat \ {0} /\ MaxBatch \in Nat \ {0}

Attempts(r) == r.ok + r.failed
Bytes(R) == Envelope + SumFunction([r \in R |-> ReportSize[r.subject]])

\* The n best-evidenced reports of R; equals stay in their order.
MutTop(R, n) ==
    {r \in R : Cardinality({q \in R : \/ Attempts(q) < Attempts(r)
                                      \/ /\ Attempts(q) = Attempts(r)
                                         /\ q.subject < r.subject}) < n}
Top(R, n) ==
    {r \in R : Cardinality({q \in R : \/ Attempts(q) > Attempts(r)
                                      \/ /\ Attempts(q) = Attempts(r)
                                         /\ q.subject < r.subject}) < n}

\* One proportional cut, which always drops something and never everything.
Cut(R) ==
    IF Bytes(R) <= MaxBatch \/ Cardinality(R) <= 1 THEN R
    ELSE Top(R, Max({1, Least({(Cardinality(R) * MaxBatch) \div Bytes(R), Cardinality(R) - 1})}))

MutFitToBudget(R) == Top(R, MaxReports)
FitToBudget(R) ==
    LET fitted[i \in 0..8] == IF i = 0 THEN Top(R, MaxReports) ELSE Cut(fitted[i - 1])
    IN fitted[8]
=============================================================================
