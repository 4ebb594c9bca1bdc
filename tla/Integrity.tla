------------------------------ MODULE Integrity ------------------------------
(***************************************************************************)
(* The integrity half of ReputationScorer (reputation/scorer.py) together  *)
(* with the two places of VerificationSampler (verification/sampler.py)    *)
(* that feed it: eligible_verifiers, which picks who may judge whom, and   *)
(* record_outcome, which charges a verdict to both parties.                *)
(*                                                                         *)
(* One client compares the work of two servers at a time.  A disagreement  *)
(* proves that one of the two is wrong and not which, so it is recorded    *)
(* against both, under the network cluster of the partner, and a peer is   *)
(* quarantined only when enough distinct clusters accuse it or the client  *)
(* witnessed a fault itself.                                               *)
(*                                                                         *)
(* The code's decayed floats are counted here in quanta: Unit quanta are   *)
(* 1.0.  Time passes in lapses that multiply every weight by               *)
(* FadeNum/FadeDen and round down, which is where _decay_integrity deletes *)
(* entries below 1e-4.                                                     *)
(***************************************************************************)
EXTENDS Integers, FiniteSets, Functions

CONSTANTS
    Peers,                \* the servers this client knows
    Clusters,             \* network clusters a partner can be attributed to
    Unknown,              \* the cluster of a peer nobody could locate
    ClusterOf,            \* [Peers -> Clusters \cup {Unknown}]
    Cheats,               \* the servers that may return wrong work
    HonestAmbiguity,      \* whether two honest servers may land in the ambiguous band
    CleanRecord,          \* [Peers -> Nat]: earlier MATCHes in the loaded file
    MinDisputingPartners, \* ScorerConfig.min_disputing_partners
    Unit,                 \* quanta in a weight of 1.0
    FadeNum, FadeDen,     \* one lapse multiplies every weight by FadeNum/FadeDen
    MaxChecks             \* bound: how many outcomes are ever recorded

ASSUME ClustersAssumption ==
    /\ IsFiniteSet(Clusters)
    /\ Unknown \notin Clusters
    /\ ClusterOf \in [Peers -> Clusters \cup {Unknown}]
    /\ Cheats \subseteq Peers
ASSUME WeightsAssumption ==
    /\ Unit \in Nat \ {0}
    /\ FadeNum \in Nat
    /\ FadeDen \in Nat \ {0}
    /\ FadeNum < FadeDen
    /\ CleanRecord \in [Peers -> Nat]
ASSUME PartnersAssumption ==
    /\ MinDisputingPartners \in Nat \ {0}
    /\ HonestAmbiguity \in BOOLEAN

VARIABLES
    evidence,  \* _PeerState's integrity fields, per peer, in memory
    saved,     \* what the last save() left on disk, aged since
    checks,    \* outcomes recorded so far, for the bound only
    accusers,  \* history: clusters that ever disagreed with the peer
    witnessed  \* history: peers ever caught in a direct fault

vars == <<evidence, saved, checks, accusers, witnessed>>

Weights == [Clusters -> Nat]

Evidence == [pass: Nat, direct: Nat, confirmed: Nat, comparisons: Nat,
             disputes: Weights, ambiguous: Weights]

TypeOK ==
    /\ evidence \in [Peers -> Evidence]
    /\ saved \in [Peers -> Evidence]
    /\ checks \in Nat
    /\ accusers \in [Peers -> SUBSET Clusters]
    /\ witnessed \subseteq Peers

-----------------------------------------------------------------------------
(* Scoring: _combined_disputes, _dispute_load and breakdown. *)

IntegrityPrior == 2     \* ScorerConfig.integrity_prior_strength
MismatchPenalty == 40   \* ScorerConfig.mismatch_penalty

\* Ambiguous results count only when they are numerous and disproportionate:
\* at least 2.0 of them and at least a quarter of all comparisons.
AmbiguityCounts(e) ==
    LET total == SumFunction(e.ambiguous) IN
    /\ e.comparisons > 0
    /\ total >= 2 * Unit
    /\ 4 * total >= e.comparisons

\* Dispute weight per accusing cluster, in quarters of a quantum so that the
\* quarter weight of an ambiguous result stays whole.
Combined(e) ==
    LET counts == AmbiguityCounts(e) IN
    [c \in Clusters |-> 4 * e.disputes[c] + (IF counts THEN e.ambiguous[c] ELSE 0)]

\* A cluster accuses when its combined weight is at least 0.5.
Accusing(e) ==
    LET combined == Combined(e) IN {c \in Clusters : combined[c] >= 2 * Unit}

\* The escalation ladder, in hundredths.
Escalation(distinct) ==
    CASE distinct = 0 -> 0
      [] distinct = 1 -> 15
      [] distinct > 1 /\ distinct < MinDisputingPartners + 1 -> 100
      [] OTHER -> 150

DisputeLoad(e) ==
    SumFunction(Combined(e)) * Escalation(Cardinality(Accusing(e)))

\* (prior + pass) / (prior + pass + penalty * (direct + load)) < 1/2, with the
\* quarters and the hundredths of the load multiplied out.
LowIntegrity(e) ==
    400 * (IntegrityPrior * Unit + e.pass)
        < MismatchPenalty * (400 * e.direct + DisputeLoad(e))

\* Mutant: one accusing cluster is taken for corroboration.
MutAnyAccuser(e) == Cardinality(Accusing(e)) >= 1 \/ e.direct >= Unit

Corroborated(e) ==
    \/ Cardinality(Accusing(e)) >= MinDisputingPartners
    \/ e.direct >= Unit

Convicts(e) == Corroborated(e) /\ LowIntegrity(e)

\* breakdown(p).is_quarantined
Quarantined(p) == Convicts(evidence[p])

-----------------------------------------------------------------------------
(* Recording: record_verification, record_direct_fault, record_ambiguous.   *)

Blank == [pass |-> 0, direct |-> 0, confirmed |-> 0, comparisons |-> 0,
          disputes |-> [c \in Clusters |-> 0],
          ambiguous |-> [c \in Clusters |-> 0]]

\* n comparable checks, all of which agreed.
Clean(n) == [Blank EXCEPT !.pass = n * Unit, !.comparisons = n * Unit]

WithMatch(e, c) ==
    [e EXCEPT !.pass = @ + Unit, !.comparisons = @ + Unit]

\* One more entry in the bucket of cluster c.
Charge(w, c) == [w EXCEPT ![c] = @ + Unit]

\* Mutant: the caller forgets partner_cluster, and a dispute becomes a direct fault.
MutMismatchIsDirect(e, c) ==
    [e EXCEPT !.confirmed = @ + Unit, !.comparisons = @ + Unit,
              !.direct = @ + Unit]

WithMismatch(e, c) ==
    [e EXCEPT !.confirmed = @ + Unit, !.comparisons = @ + Unit,
              !.disputes = Charge(@, c)]

WithAmbiguity(e, c) ==
    [e EXCEPT !.ambiguous = Charge(@, c), !.comparisons = @ + Unit]

WithDirectFault(e) ==
    [e EXCEPT !.confirmed = @ + Unit, !.comparisons = @ + Unit,
              !.direct = @ + Unit]

Fade(w) == (w * FadeNum) \div FadeDen

\* Mutant: decay forgets the dispute buckets.
MutFadeKeepsDisputes(e) ==
    [pass |-> Fade(e.pass), direct |-> Fade(e.direct),
     confirmed |-> Fade(e.confirmed), comparisons |-> Fade(e.comparisons),
     disputes |-> e.disputes,
     ambiguous |-> [c \in Clusters |-> Fade(e.ambiguous[c])]]

Faded(e) ==
    [pass |-> Fade(e.pass), direct |-> Fade(e.direct),
     confirmed |-> Fade(e.confirmed), comparisons |-> Fade(e.comparisons),
     disputes |-> [c \in Clusters |-> Fade(e.disputes[c])],
     ambiguous |-> [c \in Clusters |-> Fade(e.ambiguous[c])]]

-----------------------------------------------------------------------------
(* The sampler: who may check whom, and what the check charges.             *)

\* are_independent on located peers: an unlocated peer is never paired.
Independent(s, v) ==
    /\ ClusterOf[s] # Unknown
    /\ ClusterOf[v] # Unknown
    /\ ClusterOf[s] # ClusterOf[v]

EligibleVerifiers(s) ==
    {v \in Peers : v # s /\ ~Quarantined(v) /\ Independent(s, v)}

\* record_outcome charges subject and verifier alike; below, each under the
\* cluster of the other.
Charged(s, v, ofSubject, ofVerifier) ==
    [p \in Peers |->
        CASE p = s -> ofSubject
          [] p = v -> ofVerifier
          [] OTHER -> evidence[p]]

\* History: s and v have each been accused from the cluster of the other.
Accused(s, v) ==
    [accusers EXCEPT ![s] = @ \cup {ClusterOf[v]}, ![v] = @ \cup {ClusterOf[s]}]

Check(s, v) ==
    /\ checks < MaxChecks
    /\ v \in EligibleVerifiers(s)
    /\ checks' = checks + 1

\* Anyone may happen to agree: a cheat need not cheat every time.
Match(s, v) ==
    /\ Check(s, v)
    /\ evidence' = Charged(s, v, WithMatch(evidence[s], ClusterOf[v]),
                                WithMatch(evidence[v], ClusterOf[s]))
    /\ UNCHANGED <<saved, accusers, witnessed>>

\* Calibrated tolerances keep two honest servers below the mismatch bound.
Mismatch(s, v) ==
    /\ {s, v} \cap Cheats # {}
    /\ Check(s, v)
    /\ evidence' = Charged(s, v, WithMismatch(evidence[s], ClusterOf[v]),
                                WithMismatch(evidence[v], ClusterOf[s]))
    /\ accusers' = Accused(s, v)
    /\ UNCHANGED <<saved, witnessed>>

\* INCONCLUSIVE with comparable=True: the distance fell in the ambiguous band.
Ambiguous(s, v) ==
    /\ {s, v} \cap Cheats # {} \/ HonestAmbiguity
    /\ Check(s, v)
    /\ evidence' = Charged(s, v, WithAmbiguity(evidence[s], ClusterOf[v]),
                                WithAmbiguity(evidence[v], ClusterOf[s]))
    /\ accusers' = Accused(s, v)
    /\ UNCHANGED <<saved, witnessed>>

\* INCONCLUSIVE with comparable=False: evidence about neither.
Incomparable(s, v) ==
    /\ v \in EligibleVerifiers(s)
    /\ UNCHANGED vars

\* detect_passthrough fired: the client saw the server echo its own input.
DirectFault(p) ==
    /\ p \in Cheats
    /\ checks < MaxChecks
    /\ checks' = checks + 1
    /\ evidence' = [evidence EXCEPT ![p] = WithDirectFault(@)]
    /\ witnessed' = witnessed \cup {p}
    /\ UNCHANGED <<saved, accusers>>

-----------------------------------------------------------------------------
(* Time and persistence. *)

\* Mutant: load() takes the file's weights as measured now.
MutFileDoesNotAge ==
    /\ evidence' = [p \in Peers |-> Faded(evidence[p])]
    /\ UNCHANGED <<saved, checks, accusers, witnessed>>

\* Decay is applied on the next read of a peer, from its own timestamp, and the
\* timestamps are saved with the weights: time spent on disk counts as well.
Lapse ==
    /\ evidence' = [p \in Peers |-> Faded(evidence[p])]
    /\ saved' = [p \in Peers |-> Faded(saved[p])]
    /\ UNCHANGED <<checks, accusers, witnessed>>

\* save(): written beside and renamed, so the file is never half old, half new.
Save ==
    /\ saved' = evidence
    /\ UNCHANGED <<evidence, checks, accusers, witnessed>>

\* The process ends, cleanly or not, and the next one loads the file.
Restart ==
    /\ evidence' = saved
    /\ UNCHANGED <<saved, checks, accusers, witnessed>>

Init ==
    /\ evidence = [p \in Peers |-> Clean(CleanRecord[p])]
    /\ saved = evidence
    /\ checks = 0
    /\ accusers = [p \in Peers |-> {}]
    /\ witnessed = {}

Next ==
    \/ \E s, v \in Peers :
        \/ Match(s, v)
        \/ Mismatch(s, v)
        \/ Ambiguous(s, v)
        \/ Incomparable(s, v)
    \/ \E p \in Peers : DirectFault(p)
    \/ Lapse
    \/ Save
    \/ Restart

Spec == Init /\ [][Next]_vars

\* Time always passes; nothing else is certain to happen.
FairSpec == Spec /\ WF_vars(Lapse)

-----------------------------------------------------------------------------
(* Properties. *)

CheatClusters == {ClusterOf[p] : p \in Cheats} \cap Clusters

\* Nobody is excluded on one cluster's word.  However often the same partner, or
\* any number of identities of one fleet, disagrees with a peer, and whatever
\* decay, saves and restarts do in between, breakdown() quarantines the peer only
\* if at least MinDisputingPartners distinct clusters really disagreed with it or
\* the client witnessed a fault itself.
QuarantineNeedsCorroboration ==
    \A p \in Peers : Quarantined(p) =>
        \/ Cardinality(accusers[p]) >= MinDisputingPartners
        \/ p \in witnessed

\* Verifying is safe for the honest: while the cheats sit in fewer clusters than
\* corroboration asks for, no honest peer is ever quarantined, although every
\* mismatch with a cheat is charged to the honest partner as well.
OneFleetCannotConvict ==
    (Cardinality(CheatClusters) < MinDisputingPartners /\ ~HonestAmbiguity) =>
        \A p \in Peers \ Cheats : ~Quarantined(p)

NoHeavier(a, b) ==
    /\ a.pass <= b.pass
    /\ a.direct <= b.direct
    /\ a.comparisons <= b.comparisons
    /\ \A c \in Clusters :
        /\ a.disputes[c] <= b.disputes[c]
        /\ a.ambiguous[c] <= b.ambiguous[c]

\* The file never holds more against (or for) a peer than memory does, so the load
\* after a crash loses evidence at worst and never brings back what had decayed.
RestartInventsNothing ==
    \A p \in Peers : NoHeavier(saved[p], evidence[p])

\* A peer enters quarantine only in a step that records something against it:
\* neither the passing of time, which shrinks passes, disputes and the ambiguous
\* rate's numerator and denominator alike, nor one more agreement convicts.
OnlyAccusationsConvict ==
    [][(Lapse \/ \E s, v \in Peers : Match(s, v)) =>
        \A p \in Peers : Quarantined(p)' => Quarantined(p)]_vars

\* Quarantine is not for life: evidence fades, and a peer that is not caught again
\* is eventually routable again.
Redemption == \A p \in Peers : Quarantined(p) ~> ~Quarantined(p)

\* What a mismatch is said to do: "one proven bad result costs roughly as much as
\* 40 clean ones earn".  One more of them therefore never sets its subject free.
MismatchNeverReleases ==
    [][\A s, v \in Peers : Mismatch(s, v) =>
        (Quarantined(s) => Quarantined(s)')]_vars

=============================================================================
