--------------------------- MODULE IntegrityProofs ---------------------------
(***************************************************************************)
(* Proofs about Integrity, for all peers, clusters, cheats, fade rates and *)
(* numbers of checks.                                                      *)
(*                                                                         *)
(* No invariant below mentions sums or scores: a peer is quarantined only  *)
(* if it is corroborated, and corroboration counts positive buckets, so it *)
(* is enough to know which buckets can be positive at all (Grounded) and   *)
(* who can have filled them (FromCheats).  Both must speak of the file as  *)
(* well as of memory, or a restart would break them.                       *)
(***************************************************************************)
EXTENDS Integrity, FiniteSetTheorems, TLAPS

\* A weight against p exists, in memory or on disk, only if it was earned.
GroundedIn(e, p) ==
    /\ p \notin witnessed => e[p].direct = 0
    /\ \A c \in Clusters \ accusers[p] :
        /\ e[p].disputes[c] = 0
        /\ e[p].ambiguous[c] = 0

Grounded == \A p \in Peers : GroundedIn(evidence, p) /\ GroundedIn(saved, p)

\* Without honest ambiguity, only cheats are witnessed and only clusters that
\* hold a cheat ever accuse an honest peer.
FromCheats ==
    /\ witnessed \subseteq Cheats
    /\ ~HonestAmbiguity =>
        \A p \in Peers \ Cheats : accusers[p] \subseteq CheatClusters

-----------------------------------------------------------------------------
(* Lemmas about the operators. *)

\* A weight fades to a weight, and a zero stays zero.
LEMMA FadeFacts ==
    /\ \A w \in Nat : Fade(w) \in Nat
    /\ Fade(0) = 0
<1> USE WeightsAssumption DEF Fade
<1>1. ASSUME NEW w \in Nat PROVE Fade(w) \in Nat
  <2>1. w * FadeNum \in Nat
    OBVIOUS
  <2>2. \A a \in Nat, b \in Nat \ {0} : a \div b \in Nat
    OBVIOUS
  <2> QED BY <2>1, <2>2
<1>2. Fade(0) = 0
  OBVIOUS
<1> QED BY <1>1, <1>2

LEMMA FadedType == \A e \in Evidence : Faded(e) \in Evidence
  BY FadeFacts DEF Evidence, Weights, Faded

LEMMA CleanType == \A n \in Nat : Clean(n) \in Evidence
<1>1. Blank \in Evidence
  BY DEF Blank, Evidence, Weights
<1>2. \A x \in Nat : [Blank EXCEPT !.pass = x, !.comparisons = x] \in Evidence
  BY <1>1 DEF Evidence
<1>3. \A n \in Nat : n * Unit \in Nat
  BY WeightsAssumption
<1> QED BY <1>2, <1>3 DEF Clean

\* The ways a comparison is recorded keep the record's type.
LEMMA WithType ==
    ASSUME NEW e \in Evidence, NEW c \in Clusters
    PROVE  /\ WithMatch(e, c) \in Evidence
           /\ WithMismatch(e, c) \in Evidence
           /\ WithAmbiguity(e, c) \in Evidence
<1>1. \A w \in Weights : Charge(w, c) \in Weights
  BY WeightsAssumption DEF Weights, Charge
<1>2. \A x \in Nat : x + Unit \in Nat
  BY WeightsAssumption
<1>3. WithMatch(e, c) \in Evidence
  BY <1>2 DEF WithMatch, Evidence
<1>4. WithMismatch(e, c) \in Evidence
  BY <1>1, <1>2 DEF WithMismatch, Evidence
<1>5. WithAmbiguity(e, c) \in Evidence
  BY <1>1, <1>2 DEF WithAmbiguity, Evidence
<1> QED BY <1>3, <1>4, <1>5

LEMMA DirectType == \A e \in Evidence : WithDirectFault(e) \in Evidence
<1>1. \A x \in Nat : x + Unit \in Nat
  BY WeightsAssumption
<1> QED BY <1>1 DEF WithDirectFault, Evidence

\* A pair that may be compared is two peers with clusters that are known.
LEMMA CheckFacts ==
    ASSUME NEW s \in Peers, NEW v \in Peers, Check(s, v)
    PROVE  /\ s # v
           /\ ClusterOf[s] \in Clusters
           /\ ClusterOf[v] \in Clusters
           /\ checks' = checks + 1
  BY ClustersAssumption DEF Check, EligibleVerifiers, Independent

-----------------------------------------------------------------------------
(* Type correctness. *)

LEMMA TypeInit == Init => TypeOK
  BY CleanType, WeightsAssumption DEF Init, TypeOK

LEMMA TypeNext == TypeOK /\ [Next]_vars => TypeOK'
<1> SUFFICES ASSUME TypeOK, [Next]_vars PROVE TypeOK'
  OBVIOUS
<1> USE DEF TypeOK
<1>1. ASSUME NEW s \in Peers, NEW v \in Peers, Match(s, v) PROVE TypeOK'
  BY <1>1, CheckFacts, WithType DEF Match, Charged
<1>2. ASSUME NEW s \in Peers, NEW v \in Peers, Mismatch(s, v) PROVE TypeOK'
  <2>1. evidence' \in [Peers -> Evidence]
    BY <1>2, CheckFacts, WithType DEF Mismatch, Charged
  <2>2. accusers' \in [Peers -> SUBSET Clusters]
    BY <1>2, CheckFacts DEF Mismatch, Accused
  <2> QED BY <1>2, <2>1, <2>2, CheckFacts DEF Mismatch
<1>3. ASSUME NEW s \in Peers, NEW v \in Peers, Ambiguous(s, v) PROVE TypeOK'
  <2>1. evidence' \in [Peers -> Evidence]
    BY <1>3, CheckFacts, WithType DEF Ambiguous, Charged
  <2>2. accusers' \in [Peers -> SUBSET Clusters]
    BY <1>3, CheckFacts DEF Ambiguous, Accused
  <2> QED BY <1>3, <2>1, <2>2, CheckFacts DEF Ambiguous
<1>4. ASSUME NEW p \in Peers, DirectFault(p) PROVE TypeOK'
  BY <1>4, DirectType, ClustersAssumption DEF DirectFault
<1>5. CASE Lapse
  BY <1>5, FadedType DEF Lapse
<1>6. CASE Save
  BY <1>6 DEF Save
<1>7. CASE Restart
  BY <1>7 DEF Restart
<1>8. CASE UNCHANGED vars
  BY <1>8 DEF vars
<1> QED
  BY <1>1, <1>2, <1>3, <1>4, <1>5, <1>6, <1>7, <1>8 DEF Next, Incomparable

\* Every evidence record, in memory and on disk, keeps its type.
THEOREM TypeCorrect == Spec => []TypeOK
<1>1. Init => TypeOK
  BY TypeInit
<1>2. TypeOK /\ [Next]_vars => TypeOK'
  BY TypeNext
<1> QED BY <1>1, <1>2, PTL DEF Spec

-----------------------------------------------------------------------------
(* Every weight was earned: Grounded is inductive. *)

\* A recorded comparison touches no bucket but the partner's, and no direct fault.
LEMMA WithEffect ==
    ASSUME NEW e \in Evidence, NEW c \in Clusters, NEW d \in Clusters \ {c}
    PROVE  /\ WithMismatch(e, c).direct = e.direct
           /\ WithMismatch(e, c).disputes[d] = e.disputes[d]
           /\ WithMismatch(e, c).ambiguous[d] = e.ambiguous[d]
           /\ WithAmbiguity(e, c).direct = e.direct
           /\ WithAmbiguity(e, c).disputes[d] = e.disputes[d]
           /\ WithAmbiguity(e, c).ambiguous[d] = e.ambiguous[d]
  BY DEF WithMismatch, WithAmbiguity, Charge, Evidence, Weights

LEMMA WithMatchEffect ==
    ASSUME NEW e \in Evidence, NEW c
    PROVE  /\ WithMatch(e, c).direct = e.direct
           /\ WithMatch(e, c).disputes = e.disputes
           /\ WithMatch(e, c).ambiguous = e.ambiguous
  BY DEF WithMatch, Evidence

LEMMA GroundedInit == Init => Grounded
<1> SUFFICES ASSUME Init PROVE Grounded
  OBVIOUS
<1>1. ASSUME NEW n \in Nat
      PROVE  /\ Clean(n).direct = 0
             /\ \A c \in Clusters : /\ Clean(n).disputes[c] = 0
                                  /\ Clean(n).ambiguous[c] = 0
  <2>1. Blank \in Evidence
    BY DEF Blank, Evidence, Weights
  <2>2. \A x : /\ [Blank EXCEPT !.pass = x, !.comparisons = x].direct = Blank.direct
               /\ [Blank EXCEPT !.pass = x, !.comparisons = x].disputes = Blank.disputes
               /\ [Blank EXCEPT !.pass = x, !.comparisons = x].ambiguous = Blank.ambiguous
    BY <2>1 DEF Evidence
  <2>3. /\ Blank.direct = 0
        /\ \A c \in Clusters : Blank.disputes[c] = 0 /\ Blank.ambiguous[c] = 0
    BY DEF Blank
  <2> QED BY <2>2, <2>3 DEF Clean
<1>2. ASSUME NEW p \in Peers
      PROVE  /\ evidence[p] = Clean(CleanRecord[p]) /\ saved[p] = Clean(CleanRecord[p])
             /\ CleanRecord[p] \in Nat
  BY WeightsAssumption DEF Init
<1> QED BY <1>1, <1>2 DEF Grounded, GroundedIn

LEMMA GroundedNext == TypeOK /\ Grounded /\ [Next]_vars => Grounded'
<1> SUFFICES ASSUME TypeOK, Grounded, [Next]_vars PROVE Grounded'
  OBVIOUS
<1> USE DEF Grounded, GroundedIn
<1>1. ASSUME NEW s \in Peers, NEW v \in Peers, Match(s, v) PROVE Grounded'
  <2> SUFFICES ASSUME NEW p \in Peers
               PROVE  GroundedIn(evidence, p)' /\ GroundedIn(saved, p)'
    OBVIOUS
  <2>1. UNCHANGED <<saved, accusers, witnessed>>
    BY <1>1 DEF Match
  <2>2. /\ evidence'[p].direct = evidence[p].direct
        /\ evidence'[p].disputes = evidence[p].disputes
        /\ evidence'[p].ambiguous = evidence[p].ambiguous
    <3>1. CASE p = s
      BY <1>1, <3>1, WithMatchEffect DEF Match, Charged, TypeOK
    <3>2. CASE p = v /\ p # s
      BY <1>1, <3>2, WithMatchEffect DEF Match, Charged, TypeOK
    <3>3. CASE p # s /\ p # v
      BY <1>1, <3>3 DEF Match, Charged
    <3> QED BY <3>1, <3>2, <3>3
  <2> QED BY <2>1, <2>2
<1>2. ASSUME NEW s \in Peers, NEW v \in Peers, Mismatch(s, v) PROVE Grounded'
  <2> SUFFICES ASSUME NEW p \in Peers
               PROVE  GroundedIn(evidence, p)' /\ GroundedIn(saved, p)'
    OBVIOUS
  <2>1. saved' = saved /\ witnessed' = witnessed /\ accusers[p] \subseteq accusers'[p]
    BY <1>2 DEF Mismatch, Accused, TypeOK
  <2>2. CASE p = s
    <3>1. evidence'[p] = WithMismatch(evidence[p], ClusterOf[v])
      BY <1>2, <2>2 DEF Mismatch, Charged
    <3>2. ClusterOf[v] \in accusers'[p]
      BY <1>2, <2>2, CheckFacts DEF Mismatch, Accused, TypeOK
    <3>3. evidence[p] \in Evidence /\ ClusterOf[v] \in Clusters
      BY <1>2, CheckFacts DEF Mismatch, TypeOK
    <3>4. ASSUME NEW c \in Clusters \ accusers'[p]
          PROVE  evidence'[p].disputes[c] = 0 /\ evidence'[p].ambiguous[c] = 0
      <4>1. c \in Clusters \ {ClusterOf[v]} /\ c \in Clusters \ accusers[p]
        BY <2>1, <3>2
      <4> QED BY <3>1, <3>3, <4>1, WithEffect
    <3>5. p \notin witnessed' => evidence'[p].direct = 0
      <4>1. evidence'[p].direct = evidence[p].direct
        BY <3>1, <3>3 DEF WithMismatch, Evidence
      <4> QED BY <2>1, <4>1
    <3> QED BY <2>1, <3>4, <3>5
  <2>3. CASE p = v
    <3>1. evidence'[p] = WithMismatch(evidence[p], ClusterOf[s])
      BY <1>2, <2>3, CheckFacts DEF Mismatch, Charged
    <3>2. ClusterOf[s] \in accusers'[p]
      BY <1>2, <2>3, CheckFacts DEF Mismatch, Accused, TypeOK
    <3>3. evidence[p] \in Evidence /\ ClusterOf[s] \in Clusters
      BY <1>2, CheckFacts DEF Mismatch, TypeOK
    <3>4. ASSUME NEW c \in Clusters \ accusers'[p]
          PROVE  evidence'[p].disputes[c] = 0 /\ evidence'[p].ambiguous[c] = 0
      <4>1. c \in Clusters \ {ClusterOf[s]} /\ c \in Clusters \ accusers[p]
        BY <2>1, <3>2
      <4> QED BY <3>1, <3>3, <4>1, WithEffect
    <3>5. p \notin witnessed' => evidence'[p].direct = 0
      <4>1. evidence'[p].direct = evidence[p].direct
        BY <3>1, <3>3 DEF WithMismatch, Evidence
      <4> QED BY <2>1, <4>1
    <3> QED BY <2>1, <3>4, <3>5
  <2>4. CASE p # s /\ p # v
    BY <1>2, <2>1, <2>4 DEF Mismatch, Charged
  <2> QED BY <2>2, <2>3, <2>4
<1>3. ASSUME NEW s \in Peers, NEW v \in Peers, Ambiguous(s, v) PROVE Grounded'
  <2> SUFFICES ASSUME NEW p \in Peers
               PROVE  GroundedIn(evidence, p)' /\ GroundedIn(saved, p)'
    OBVIOUS
  <2>1. saved' = saved /\ witnessed' = witnessed /\ accusers[p] \subseteq accusers'[p]
    BY <1>3 DEF Ambiguous, Accused, TypeOK
  <2>2. CASE p = s
    <3>1. evidence'[p] = WithAmbiguity(evidence[p], ClusterOf[v])
      BY <1>3, <2>2 DEF Ambiguous, Charged
    <3>2. ClusterOf[v] \in accusers'[p]
      BY <1>3, <2>2, CheckFacts DEF Ambiguous, Accused, TypeOK
    <3>3. evidence[p] \in Evidence /\ ClusterOf[v] \in Clusters
      BY <1>3, CheckFacts DEF Ambiguous, TypeOK
    <3>4. ASSUME NEW c \in Clusters \ accusers'[p]
          PROVE  evidence'[p].disputes[c] = 0 /\ evidence'[p].ambiguous[c] = 0
      <4>1. c \in Clusters \ {ClusterOf[v]} /\ c \in Clusters \ accusers[p]
        BY <2>1, <3>2
      <4> QED BY <3>1, <3>3, <4>1, WithEffect
    <3>5. p \notin witnessed' => evidence'[p].direct = 0
      <4>1. evidence'[p].direct = evidence[p].direct
        BY <3>1, <3>3 DEF WithAmbiguity, Evidence
      <4> QED BY <2>1, <4>1
    <3> QED BY <2>1, <3>4, <3>5
  <2>3. CASE p = v
    <3>1. evidence'[p] = WithAmbiguity(evidence[p], ClusterOf[s])
      BY <1>3, <2>3, CheckFacts DEF Ambiguous, Charged
    <3>2. ClusterOf[s] \in accusers'[p]
      BY <1>3, <2>3, CheckFacts DEF Ambiguous, Accused, TypeOK
    <3>3. evidence[p] \in Evidence /\ ClusterOf[s] \in Clusters
      BY <1>3, CheckFacts DEF Ambiguous, TypeOK
    <3>4. ASSUME NEW c \in Clusters \ accusers'[p]
          PROVE  evidence'[p].disputes[c] = 0 /\ evidence'[p].ambiguous[c] = 0
      <4>1. c \in Clusters \ {ClusterOf[s]} /\ c \in Clusters \ accusers[p]
        BY <2>1, <3>2
      <4> QED BY <3>1, <3>3, <4>1, WithEffect
    <3>5. p \notin witnessed' => evidence'[p].direct = 0
      <4>1. evidence'[p].direct = evidence[p].direct
        BY <3>1, <3>3 DEF WithAmbiguity, Evidence
      <4> QED BY <2>1, <4>1
    <3> QED BY <2>1, <3>4, <3>5
  <2>4. CASE p # s /\ p # v
    BY <1>3, <2>1, <2>4 DEF Ambiguous, Charged
  <2> QED BY <2>2, <2>3, <2>4
<1>4. ASSUME NEW q \in Peers, DirectFault(q) PROVE Grounded'
  <2> SUFFICES ASSUME NEW p \in Peers
               PROVE  GroundedIn(evidence, p)' /\ GroundedIn(saved, p)'
    OBVIOUS
  <2>1. /\ saved' = saved /\ accusers' = accusers
        /\ witnessed \subseteq witnessed' /\ q \in witnessed'
    BY <1>4 DEF DirectFault
  <2>2. CASE p = q
    <3>1. /\ evidence'[p].disputes = evidence[p].disputes
          /\ evidence'[p].ambiguous = evidence[p].ambiguous
      BY <1>4, <2>2 DEF DirectFault, WithDirectFault, TypeOK, Evidence
    <3> QED BY <2>1, <2>2, <3>1
  <2>3. CASE p # q
    BY <1>4, <2>1, <2>3 DEF DirectFault, TypeOK
  <2> QED BY <2>2, <2>3
<1>5. CASE Lapse
  BY <1>5, FadeFacts DEF Lapse, Faded, TypeOK
<1>6. CASE Save
  BY <1>6 DEF Save
<1>7. CASE Restart
  BY <1>7 DEF Restart
<1>8. CASE UNCHANGED vars
  BY <1>8 DEF vars
<1> QED
  BY <1>1, <1>2, <1>3, <1>4, <1>5, <1>6, <1>7, <1>8 DEF Next, Incomparable

-----------------------------------------------------------------------------
(* From grounded evidence to the rule. *)

\* A peer whose positive buckets all lie in A is accused from within A only.
LEMMA AccusersBound ==
    ASSUME NEW e \in Evidence, NEW A \in SUBSET Clusters,
           \A c \in Clusters \ A : e.disputes[c] = 0 /\ e.ambiguous[c] = 0
    PROVE  /\ Accusing(e) \subseteq A
           /\ Cardinality(Accusing(e)) <= Cardinality(A)
<1>1. ASSUME NEW c \in Clusters \ A PROVE Combined(e)[c] = 0
  BY DEF Combined
<1>2. Accusing(e) \subseteq A
  BY <1>1, WeightsAssumption DEF Accusing
<1>3. IsFiniteSet(A)
  BY ClustersAssumption, FS_Subset
<1> QED BY <1>2, <1>3, FS_Subset

LEMMA GroundedSuffices == TypeOK /\ Grounded => QuarantineNeedsCorroboration
<1> SUFFICES ASSUME TypeOK, Grounded, NEW p \in Peers, Quarantined(p)
             PROVE  Cardinality(accusers[p]) >= MinDisputingPartners \/ p \in witnessed
  BY DEF QuarantineNeedsCorroboration
<1>1. CASE evidence[p].direct >= Unit
  BY <1>1, WeightsAssumption DEF Grounded, GroundedIn
<1>2. CASE Cardinality(Accusing(evidence[p])) >= MinDisputingPartners
  <2>1. /\ evidence[p] \in Evidence
        /\ accusers[p] \in SUBSET Clusters
        /\ Accusing(evidence[p]) \in SUBSET Clusters
    BY DEF TypeOK, Accusing
  <2>2. Cardinality(Accusing(evidence[p])) <= Cardinality(accusers[p])
    BY <2>1, AccusersBound DEF Grounded, GroundedIn
  <2>3. /\ Cardinality(accusers[p]) \in Nat
        /\ Cardinality(Accusing(evidence[p])) \in Nat
    BY <2>1, ClustersAssumption, FS_Subset, FS_CardinalityType
  <2> QED BY <1>2, <2>2, <2>3, PartnersAssumption
<1> QED BY <1>1, <1>2 DEF Quarantined, Convicts, Corroborated

\* QuarantineNeedsCorroboration, for every population, clustering and schedule:
\* no sequence of checks, decay, saves and restarts lets breakdown() quarantine a
\* peer that fewer than MinDisputingPartners clusters disagreed with, unless the
\* client witnessed a fault itself.
THEOREM Corroboration == Spec => []QuarantineNeedsCorroboration
<1>1. Init => TypeOK /\ Grounded
  BY TypeInit, GroundedInit
<1>2. (TypeOK /\ Grounded) /\ [Next]_vars => (TypeOK /\ Grounded)'
  BY TypeNext, GroundedNext
<1>3. TypeOK /\ Grounded => QuarantineNeedsCorroboration
  BY GroundedSuffices
<1> QED BY <1>1, <1>2, <1>3, PTL DEF Spec

-----------------------------------------------------------------------------
(* One fleet: who can have filled the buckets. *)

LEMMA FromCheatsInit == Init => FromCheats
  BY ClustersAssumption DEF Init, FromCheats

LEMMA FromCheatsNext == TypeOK /\ FromCheats /\ [Next]_vars => FromCheats'
<1> SUFFICES ASSUME TypeOK, FromCheats, [Next]_vars PROVE FromCheats'
  OBVIOUS
<1> USE DEF FromCheats
\* Only a pair with a cheat in it disagrees, so the partner of an honest peer is one.
<1>1. ASSUME NEW s \in Peers, NEW v \in Peers, Check(s, v), {s, v} \cap Cheats # {},
             accusers' = Accused(s, v), ~HonestAmbiguity, NEW p \in Peers \ Cheats
      PROVE  accusers'[p] \subseteq CheatClusters
  <2>1. ASSUME NEW q \in Cheats, ClusterOf[q] \in Clusters
        PROVE  ClusterOf[q] \in CheatClusters
    BY <2>1 DEF CheatClusters
  <2>2. CASE p = s
    BY <1>1, <2>1, <2>2, CheckFacts DEF Accused, TypeOK
  <2>3. CASE p = v
    BY <1>1, <2>1, <2>3, CheckFacts DEF Accused, TypeOK
  <2>4. CASE p # s /\ p # v
    BY <1>1, <2>4 DEF Accused, TypeOK
  <2> QED BY <2>2, <2>3, <2>4
<1>2. ASSUME NEW s \in Peers, NEW v \in Peers, Mismatch(s, v) PROVE FromCheats'
  BY <1>1, <1>2 DEF Mismatch
<1>3. ASSUME NEW s \in Peers, NEW v \in Peers, Ambiguous(s, v) PROVE FromCheats'
  BY <1>1, <1>3 DEF Ambiguous
<1>4. ASSUME NEW s \in Peers, NEW v \in Peers, Match(s, v) PROVE FromCheats'
  BY <1>4 DEF Match
<1>5. ASSUME NEW p \in Peers, DirectFault(p) PROVE FromCheats'
  BY <1>5 DEF DirectFault
<1>6. CASE Lapse \/ Save \/ Restart \/ UNCHANGED vars
  BY <1>6 DEF Lapse, Save, Restart, vars
<1> QED BY <1>2, <1>3, <1>4, <1>5, <1>6 DEF Next, Incomparable

LEMMA FleetSuffices ==
    TypeOK /\ QuarantineNeedsCorroboration /\ FromCheats => OneFleetCannotConvict
<1> SUFFICES ASSUME TypeOK, QuarantineNeedsCorroboration, FromCheats,
                    Cardinality(CheatClusters) < MinDisputingPartners,
                    ~HonestAmbiguity, NEW p \in Peers \ Cheats
             PROVE  ~Quarantined(p)
  BY DEF OneFleetCannotConvict
<1>1. p \notin witnessed /\ accusers[p] \in SUBSET CheatClusters
  BY DEF FromCheats
<1>2. IsFiniteSet(CheatClusters)
  BY ClustersAssumption, FS_Subset DEF CheatClusters
<1>3. /\ Cardinality(accusers[p]) <= Cardinality(CheatClusters)
      /\ Cardinality(accusers[p]) \in Nat
      /\ Cardinality(CheatClusters) \in Nat
  BY <1>1, <1>2, FS_Subset, FS_CardinalityType
<1> QED BY <1>1, <1>3, PartnersAssumption DEF QuarantineNeedsCorroboration

\* OneFleetCannotConvict, for every population: while all cheats sit in fewer
\* clusters than corroboration asks for, verifying never costs an honest server
\* its place, however many identities the fleet runs and however often they meet.
THEOREM HonestStaySafe == Spec => []OneFleetCannotConvict
<1>1. Init => TypeOK /\ FromCheats
  BY TypeInit, FromCheatsInit
<1>2. (TypeOK /\ FromCheats) /\ [Next]_vars => (TypeOK /\ FromCheats)'
  BY TypeNext, FromCheatsNext
<1>3. TypeOK /\ FromCheats /\ QuarantineNeedsCorroboration => OneFleetCannotConvict
  BY FleetSuffices
<1> QED BY <1>1, <1>2, <1>3, Corroboration, PTL DEF Spec

-----------------------------------------------------------------------------
(* The file and memory. *)

LEMMA FadeMonotone ==
    ASSUME NEW a \in Nat, NEW b \in Nat, a <= b
    PROVE  Fade(a) <= Fade(b)
<1>1. a * FadeNum \in Nat /\ b * FadeNum \in Nat /\ a * FadeNum <= b * FadeNum
  BY WeightsAssumption
<1>2. \A x, y \in Nat, d \in Nat \ {0} : x <= y => x \div d <= y \div d
  OBVIOUS
<1> QED BY <1>1, <1>2, WeightsAssumption DEF Fade

LEMMA NoHeavierSelf == \A e \in Evidence : NoHeavier(e, e)
  BY DEF NoHeavier, Evidence, Weights

LEMMA NoHeavierTransitive ==
    ASSUME NEW a \in Evidence, NEW b \in Evidence, NEW c \in Evidence,
           NoHeavier(a, b), NoHeavier(b, c)
    PROVE  NoHeavier(a, c)
  BY DEF NoHeavier, Evidence, Weights

LEMMA NoHeavierFaded ==
    ASSUME NEW a \in Evidence, NEW b \in Evidence, NoHeavier(a, b)
    PROVE  NoHeavier(Faded(a), Faded(b))
<1>1. \A d \in Clusters : /\ a.disputes[d] \in Nat /\ b.disputes[d] \in Nat
                         /\ a.ambiguous[d] \in Nat /\ b.ambiguous[d] \in Nat
  BY DEF Evidence, Weights
<1> QED BY <1>1, FadeMonotone DEF NoHeavier, Faded, Evidence

\* Recording only ever adds.
LEMMA WithGrows ==
    ASSUME NEW e \in Evidence, NEW c \in Clusters
    PROVE  /\ NoHeavier(e, WithMatch(e, c))
           /\ NoHeavier(e, WithMismatch(e, c))
           /\ NoHeavier(e, WithAmbiguity(e, c))
<1> USE WeightsAssumption DEF NoHeavier, Evidence, Weights
<1>1. NoHeavier(e, WithMatch(e, c))
  BY DEF WithMatch
<1>2. NoHeavier(e, WithMismatch(e, c))
  BY DEF WithMismatch, Charge
<1>3. NoHeavier(e, WithAmbiguity(e, c))
  BY DEF WithAmbiguity, Charge
<1> QED BY <1>1, <1>2, <1>3

LEMMA DirectGrows == \A e \in Evidence : NoHeavier(e, WithDirectFault(e))
  BY WeightsAssumption DEF NoHeavier, Evidence, Weights, WithDirectFault

LEMMA RestartInit == Init => RestartInventsNothing
<1> SUFFICES ASSUME Init PROVE RestartInventsNothing
  OBVIOUS
<1>1. saved = evidence /\ evidence \in [Peers -> Evidence]
  BY TypeInit DEF Init, TypeOK
<1> QED BY <1>1, NoHeavierSelf DEF RestartInventsNothing

LEMMA RestartNext ==
    TypeOK /\ RestartInventsNothing /\ [Next]_vars => RestartInventsNothing'
<1> SUFFICES ASSUME TypeOK, RestartInventsNothing, [Next]_vars, NEW p \in Peers
             PROVE  NoHeavier(saved[p], evidence[p])'
  BY DEF RestartInventsNothing
<1>1. /\ evidence[p] \in Evidence /\ saved[p] \in Evidence
      /\ evidence'[p] \in Evidence /\ saved'[p] \in Evidence
  BY TypeNext DEF TypeOK
<1>2. NoHeavier(saved[p], evidence[p])
  BY DEF RestartInventsNothing
<1>3. ASSUME saved' = saved, NoHeavier(evidence[p], evidence'[p])
      PROVE  NoHeavier(saved[p], evidence[p])'
  BY <1>1, <1>2, <1>3, NoHeavierTransitive
<1>4. ASSUME NEW s \in Peers, NEW v \in Peers,
             Match(s, v) \/ Mismatch(s, v) \/ Ambiguous(s, v)
      PROVE  saved' = saved /\ NoHeavier(evidence[p], evidence'[p])
  <2>1. /\ saved' = saved
        /\ s # v /\ ClusterOf[s] \in Clusters /\ ClusterOf[v] \in Clusters
    BY <1>4, CheckFacts DEF Match, Mismatch, Ambiguous
  <2>2. \/ evidence'[p] = evidence[p]
        \/ \E c \in Clusters : evidence'[p] \in
              {WithMatch(evidence[p], c), WithMismatch(evidence[p], c),
               WithAmbiguity(evidence[p], c)}
    BY <1>4, <2>1 DEF Match, Mismatch, Ambiguous, Charged
  <2> QED BY <1>1, <2>1, <2>2, WithGrows, NoHeavierSelf
<1>5. ASSUME NEW q \in Peers, DirectFault(q)
      PROVE  saved' = saved /\ NoHeavier(evidence[p], evidence'[p])
  <2>1. evidence'[p] = evidence[p] \/ evidence'[p] = WithDirectFault(evidence[p])
    BY <1>5 DEF DirectFault, TypeOK
  <2> QED BY <1>1, <1>5, <2>1, DirectGrows, NoHeavierSelf DEF DirectFault
<1>6. CASE Lapse
  <2>1. evidence'[p] = Faded(evidence[p]) /\ saved'[p] = Faded(saved[p])
    BY <1>6 DEF Lapse
  <2> QED BY <1>1, <1>2, <2>1, NoHeavierFaded
<1>7. CASE Save \/ Restart
  BY <1>1, <1>7, NoHeavierSelf DEF Save, Restart
<1>8. CASE UNCHANGED vars
  BY <1>2, <1>8 DEF vars
<1> QED
  BY <1>3, <1>4, <1>5, <1>6, <1>7, <1>8 DEF Next, Incomparable

\* RestartInventsNothing, for every population, fade rate and schedule of saves and
\* restarts: what load() brings back was never heavier than what memory held.
THEOREM FileNeverHeavier == Spec => []RestartInventsNothing
<1>1. Init => TypeOK /\ RestartInventsNothing
  BY TypeInit, RestartInit
<1>2. (TypeOK /\ RestartInventsNothing) /\ [Next]_vars
        => (TypeOK /\ RestartInventsNothing)'
  BY TypeNext, RestartNext
<1> QED BY <1>1, <1>2, PTL DEF Spec

=============================================================================
