--------------------------- MODULE VerdictsProofs ---------------------------
(***************************************************************************)
(* Proofs about Verdicts, for any servers, outputs, sessions and tables.   *)
(*                                                                         *)
(* Whether thresholds spare the honest depends on the numbers and is       *)
(* checked by TLC.  Proved here is what surrounds that: the order of the   *)
(* two servers does not matter, and if no table fitted on the right        *)
(* hardware makes a mismatch of two honest sketches, then nothing else     *)
(* this module adds to Integrity goes beyond what Integrity assumes.  And  *)
(* a table, whatever was measured, always leaves a band between match and  *)
(* mismatch: for that, the quantile it is fitted at must exist.            *)
(***************************************************************************)
EXTENDS Verdicts, FiniteSetTheorems, WellFoundedInduction, TLAPS

-----------------------------------------------------------------------------
(* The comparison is symmetric. *)

IsSketch(x) == x.value \in Int /\ x.norm \in Int

LEMMA RelativeIsSymmetric ==
    ASSUME NEW a \in Int, NEW b \in Int
    PROVE  Relative(a, b) = Relative(b, a)
<1>1. Apart(a, b) = Apart(b, a)
  BY DEF Apart
<1>2. {a, b, 1} = {b, a, 1}
  OBVIOUS
<1> QED BY <1>1, <1>2 DEF Relative

LEMMA CompareIsSymmetric ==
    ASSUME NEW left, NEW right, IsSketch(left), IsSketch(right), NEW tolerance
    PROVE  Compare(left, right, tolerance) = Compare(right, left, tolerance)
<1>1. /\ Relative(left.value, right.value) = Relative(right.value, left.value)
      /\ Relative(left.norm, right.norm) = Relative(right.norm, left.norm)
  BY RelativeIsSymmetric DEF IsSketch
<1> QED BY <1>1 DEF Compare

LEMMA ToleranceIsSymmetric ==
    ASSUME NEW s, NEW v
    PROVE  ToleranceFor(s, v) = ToleranceFor(v, s)
<1>1. Key(Profile[s], Profile[v]) = Key(Profile[v], Profile[s])
  BY DEF Key
<1> QED BY <1>1 DEF ToleranceFor, Get, CanCompare

LEMMA ReturnsAreSketches ==
    ASSUME NEW p \in Peers, NEW i \in Inputs, NEW x \in Returns(p, i)
    PROVE  IsSketch(x)
<1>1. CASE x = Output[Gpu[p]][Mode[p]][i]
  BY <1>1, SketchesAssumption DEF IsSketch
<1>2. CASE x \in Forged
  BY <1>2, SketchesAssumption DEF IsSketch
<1> QED BY <1>1, <1>2 DEF Returns

LEMMA PairsAreTwo ==
    ASSUME IsFiniteSet(Peers), NEW p \in Pairs
    PROVE  \E s, v \in p : s # v
<1>1. p \subseteq Peers /\ Cardinality(p) = 2
  BY DEF Pairs, kSubset
<1>2. IsFiniteSet(p)
  BY <1>1, FS_Subset
<1>3. PICK s \in p : TRUE
  BY <1>1, <1>2, FS_EmptySet
<1>4. IsFiniteSet(p \ {s}) /\ Cardinality(p \ {s}) = 1
  BY <1>1, <1>2, <1>3, FS_RemoveElement
<1>5. PICK v \in p \ {s} : TRUE
  BY <1>4, FS_EmptySet
<1> QED BY <1>3, <1>5

\* "Comparing A against B must give the same verdict as B against A": for every
\* table, whoever returns what (compare_sketches, ToleranceTable.get).
THEOREM SubjectDoesNotMatter ==
    ASSUME IsFiniteSet(Peers)
    PROVE  Spec => []SameEitherWay
<1>1. SameEitherWay
  <2> SUFFICES ASSUME NEW p \in Pairs, NEW i \in Inputs
               PROVE  \E s, v \in p : /\ s # v
                        /\ \A left \in Returns(s, i), right \in Returns(v, i) :
                             Compare(left, right, ToleranceFor(s, v))
                               = Compare(right, left, ToleranceFor(v, s))
    BY DEF SameEitherWay
  <2>1. PICK s, v \in p : s # v
    BY PairsAreTwo
  <2>2. s \in Peers /\ v \in Peers
    BY DEF Pairs, kSubset
  <2>3. ASSUME NEW left \in Returns(s, i), NEW right \in Returns(v, i)
        PROVE  Compare(left, right, ToleranceFor(s, v))
                 = Compare(right, left, ToleranceFor(v, s))
    BY <2>2, ReturnsAreSketches, CompareIsSymmetric, ToleranceIsSymmetric
  <2> QED BY <2>1, <2>3
<1> QED BY <1>1, PTL

-----------------------------------------------------------------------------
(* The composition with Integrity. *)

\* No two honest sketches of one input that table t lets be compared mismatch.
Spares(t) ==
    \A s, v \in Peers \ Cheats, i \in Inputs :
       t = NoTable \/ CanCompare(t.tolerances, Profile[s], Profile[v])
         => Compare(Output[Gpu[s]][Mode[s]][i], Output[Gpu[v]][Mode[v]][i],
                    IF t = NoTable THEN Placeholder
                    ELSE Get(t.tolerances, Profile[s], Profile[v])) # "mismatch"

\* The sessions of table t cover what the honest servers compute with.
Covers(t) ==
    \A p \in Peers \ Cheats : Profile[p] \in Modes =>
       \E s \in t.notes : /\ s.gpu = Gpu[p]
                          /\ Mode[p] \in s.modes
                          /\ Inputs \subseteq 1 .. s.samples

\* Whatever is on disk or in use was fitted.
Fittings == file \in Tables \cup {NoTable} /\ client \in Tables \cup {NoTable}

LEMMA FittingsNext == Fittings /\ [Next]_vars => Fittings'
<1> SUFFICES ASSUME Fittings, [Next]_vars PROVE Fittings'
  OBVIOUS
<1> USE DEF Fittings
<1>1. ASSUME NEW table \in Tables, Fit(table) PROVE Fittings'
  BY <1>1 DEF Fit
<1>2. ASSUME NEW s \in Peers, NEW v \in Peers, Judge(s, v) \/ NoVerdict(s, v)
      PROVE  Fittings'
  BY <1>2 DEF Judge, NoVerdict, Plan
<1>3. CASE Lapse \/ Save
  BY <1>3 DEF Lapse, Save
<1>4. CASE StartClient
  BY <1>4 DEF StartClient
<1>5. CASE UNCHANGED vars
  BY <1>5 DEF vars
<1> QED BY <1>1, <1>2, <1>3, <1>4, <1>5 DEF Next

LEMMA FourVerdicts ==
    ASSUME NEW left, NEW right, NEW tolerance
    PROVE  Compare(left, right, tolerance) \in {"incomparable", "match", "mismatch", "ambiguous"}
  BY DEF Compare

\* With a table that spares the honest, a mismatch involves a cheat.
LEMMA MismatchNeedsCheat ==
    ASSUME Spares(client),
           NEW s \in Peers, NEW v \in Eligible(s), "mismatch" \in Outcomes(s, v)
    PROVE  {s, v} \cap Cheats # {}
<1> SUFFICES ASSUME s \notin Cheats, v \notin Cheats PROVE FALSE
  OBVIOUS
<1>0. PICK i \in Inputs : \E left \in Returns(s, i), right \in Returns(v, i) :
         Compare(left, right, ToleranceFor(s, v)) = "mismatch"
  BY DEF Outcomes
<1>1. PICK left \in Returns(s, i), right \in Returns(v, i) :
         Compare(left, right, ToleranceFor(s, v)) = "mismatch"
  BY <1>0
<1>2. left = Output[Gpu[s]][Mode[s]][i] /\ right = Output[Gpu[v]][Mode[v]][i]
  BY DEF Returns
<1>3. v \in Peers
  BY DEF Eligible, I!EligibleVerifiers
<1>4. client = NoTable \/ CanCompare(client.tolerances, Profile[s], Profile[v])
  BY DEF Eligible
<1> QED BY <1>1, <1>2, <1>3, <1>4 DEF Spares, ToleranceFor

LEMMA JudgeIsAStep ==
    ASSUME HonestAmbiguity = TRUE, Spares(client),
           NEW s \in Peers, NEW v \in Peers, Judge(s, v)
    PROVE  I!Next
<1>1. PICK verdict \in Outcomes(s, v) \ {"incomparable"} :
         /\ evidence' = I!Charged(s, v, Noted(evidence[s], ClusterOf[v], verdict),
                                        Noted(evidence[v], ClusterOf[s], verdict))
         /\ accusers' = IF verdict = "match" THEN accusers ELSE I!Accused(s, v)
  BY DEF Judge
<1>2. I!Check(s, v) /\ v \in Eligible(s) /\ UNCHANGED <<saved, witnessed>>
  BY DEF Judge, Plan, Front
<1>3. verdict \in {"match", "mismatch", "ambiguous"}
  BY FourVerdicts DEF Outcomes
<1>4. CASE verdict = "match"
  <2>1. I!Match(s, v)
    BY <1>1, <1>2, <1>4 DEF I!Match, Noted
  <2> QED BY <2>1 DEF I!Next
<1>5. CASE verdict = "mismatch"
  <2>1. {s, v} \cap Cheats # {}
    BY <1>2, <1>5, MismatchNeedsCheat
  <2>2. I!Mismatch(s, v)
    BY <1>1, <1>2, <1>5, <2>1 DEF I!Mismatch, Noted
  <2> QED BY <2>2 DEF I!Next
<1>6. CASE verdict = "ambiguous"
  <2>1. I!Ambiguous(s, v)
    BY <1>1, <1>2, <1>6 DEF I!Ambiguous, Noted
  <2> QED BY <2>1 DEF I!Next
<1> QED BY <1>3, <1>4, <1>5, <1>6

LEMMA StepIsAStep ==
    ASSUME HonestAmbiguity = TRUE, Spares(client), [Next]_vars
    PROVE  I!Next \/ UNCHANGED integrity
<1>1. ASSUME NEW table \in Tables, Fit(table) PROVE UNCHANGED integrity
  BY <1>1 DEF Fit, integrity
<1>2. ASSUME NEW s \in Peers, NEW v \in Peers, Judge(s, v) PROVE I!Next
  BY <1>2, JudgeIsAStep
<1>3. ASSUME NEW s \in Peers, NEW v \in Peers, NoVerdict(s, v) PROVE UNCHANGED integrity
  BY <1>3 DEF NoVerdict
<1>4. CASE Lapse \/ Save
  BY <1>4 DEF Lapse, Save, I!Next
<1>5. CASE StartClient
  BY <1>5 DEF StartClient, I!Next
<1>6. CASE UNCHANGED vars
  BY <1>6 DEF vars, integrity
<1> QED BY <1>1, <1>2, <1>3, <1>4, <1>5, <1>6 DEF Next

\* Calibration hands Integrity what it assumes, provided the thresholds do their
\* one duty: a table whose sessions cover the hardware of the honest servers spares
\* them.  Then, while the client's table is such a one, choosing verifiers, counting
\* pairs, fitting other tables and recording verdicts (sampler.py: plan,
\* select_verifier, record_outcome) take no step that Integrity does not allow for.
THEOREM CalibrationSuffices ==
    ASSUME HonestAmbiguity = TRUE, \A t \in Tables : Covers(t) => Spares(t)
    PROVE  Spec => JudgesAsAssumed
<1>1. Init => Fittings
  BY DEF Init, Fittings
<1>2. Fittings /\ [Next]_vars =>
        [(/\ client # NoTable
          /\ \A p \in Peers \ Cheats : Profile[p] \in Modes => Calibrated(p))
         => (I!Next \/ UNCHANGED integrity)]_vars
  <2> SUFFICES ASSUME Fittings, [Next]_vars, client # NoTable,
                      \A p \in Peers \ Cheats : Profile[p] \in Modes => Calibrated(p)
               PROVE  I!Next \/ UNCHANGED integrity
    OBVIOUS
  <2>1. client \in Tables
    BY DEF Fittings
  <2>2. Covers(client)
    BY DEF Covers, Calibrated
  <2>3. Spares(client)
    BY <2>1, <2>2
  <2> QED BY <2>3, StepIsAStep
<1> QED BY <1>1, <1>2, FittingsNext, PTL DEF Spec, JudgesAsAssumed

\* The client has no table, as the shipped chat and gateway, or one whose sessions
\* cover the hardware of the honest servers.
WellLoaded == client = NoTable \/ Covers(client)

\* What Integrity proves holds of clients that load no table but such ones: if those
\* tables and the placeholder spare the honest, choosing verifiers and judging
\* through tables implements Integrity.  Tables that spare nobody may be fitted and
\* written meanwhile; the client must not load them, which the code leaves to it.
THEOREM ImplementsIntegrity ==
    ASSUME HonestAmbiguity = TRUE, Spares(NoTable), \A t \in Tables : Covers(t) => Spares(t)
    PROVE  Spec /\ []WellLoaded => I!Spec
<1>1. Init => I!Init /\ Fittings
  BY DEF Init, Fittings
<1>2. Fittings /\ WellLoaded /\ [Next]_vars => [I!Next]_(I!vars)
  <2> SUFFICES ASSUME Fittings, WellLoaded, [Next]_vars PROVE [I!Next]_(I!vars)
    OBVIOUS
  <2>1. Spares(client)
    BY DEF Fittings, WellLoaded
  <2> QED BY <2>1, StepIsAStep DEF integrity, I!vars
<1> QED BY <1>1, <1>2, FittingsNext, PTL DEF Spec, I!Spec

-----------------------------------------------------------------------------
(* What calibration makes of any sessions.                                 *)

\* Some member of a set of natural numbers is the least.
LEMMA LeastNatural ==
    ASSUME NEW S \in SUBSET Nat, S # {}
    PROVE  \E n \in S : \A m \in S : n <= m
<1> DEFINE R == OpToRel(<, Nat)
<1>1. IsWellFoundedOn(R, Nat)
  BY NatLessThanWellFounded
<1>2. \A m, n \in Nat : m < n => <<m, n>> \in R
  BY DEF OpToRel
<1> HIDE DEF R
<1>3. PICK n \in S : \A m \in S : ~ (<<m, n>> \in R)
  BY <1>1, WFMin
<1>4. \A m \in S : m \in Nat /\ n \in Nat /\ ~ (m < n)
  BY <1>2, <1>3
<1> QED BY <1>4

\* Induction on natural numbers, for sets.
LEMMA AllNaturals ==
    ASSUME NEW S, 0 \in S, \A n \in Nat : n \in S => n + 1 \in S
    PROVE  Nat \subseteq S
<1> SUFFICES ASSUME Nat \ S # {} PROVE FALSE
  OBVIOUS
<1>1. PICK n \in Nat \ S : \A m \in Nat \ S : n <= m
  BY LeastNatural
<1> QED BY <1>1

\* Induction on finite sets, one element at a time.
LEMMA FiniteSubsets ==
    ASSUME NEW U, IsFiniteSet(U), NEW S, {} \in S,
           \A T \in SUBSET U : \A x \in U \ T : T \in S => T \cup {x} \in S
    PROVE  U \in S
<1> DEFINE G == {n \in Nat : \A T \in SUBSET U : Cardinality(T) = n => T \in S}
<1>1. 0 \in G
  BY FS_EmptySet, FS_Subset
<1>2. ASSUME NEW n \in Nat, n \in G PROVE n + 1 \in G
  <2> SUFFICES ASSUME NEW T \in SUBSET U, Cardinality(T) = n + 1 PROVE T \in S
    OBVIOUS
  <2>1. IsFiniteSet(T) /\ T # {}
    BY FS_EmptySet, FS_Subset
  <2>2. PICK x \in T : TRUE
    BY <2>1
  <2>3. Cardinality(T \ {x}) = n
    <3>1. Cardinality(T \ {x}) = Cardinality(T) - 1
      BY <2>1, FS_RemoveElement
    <3> QED BY <3>1
  <2>4. T \ {x} \in S
    BY <1>2, <2>3
  <2>5. T = (T \ {x}) \cup {x}
    OBVIOUS
  <2> QED BY <2>4, <2>5
<1>3. Nat \subseteq G
  BY <1>1, <1>2, AllNaturals
<1> QED BY <1>3, FS_CardinalityType

\* Division rounds down.
LEMMA Division ==
    ASSUME NEW a \in Nat, NEW d \in Nat \ {0}
    PROVE  /\ a \div d \in Nat /\ d * (a \div d) <= a /\ a < d * (a \div d) + d
           /\ \A m \in Nat : a <= m * d => a \div d <= m
<1>1. a \div d \in Nat /\ d * (a \div d) <= a /\ a < d * (a \div d) + d
  OBVIOUS
<1>2. ASSUME NEW m \in Nat, a <= m * d PROVE a \div d <= m
  <2> DEFINE q == a \div d
  <2>1. q \in Nat /\ d * q <= a
    BY <1>1
  <2> HIDE DEF q
  <2>2. ASSUME q >= m + 1 PROVE FALSE
    <3>1. d * q >= d * (m + 1)
      BY <2>1, <2>2
    <3>2. d * (m + 1) = m * d + d
      OBVIOUS
    <3>3. d * q \in Nat /\ m * d \in Nat /\ d * (m + 1) \in Nat
      BY <2>1
    <3> QED BY <1>2, <2>1, <3>1, <3>2, <3>3
  <2> QED BY <2>1, <2>2 DEF q
<1> QED BY <1>1, <1>2

LEMMA MinIs ==
    ASSUME NEW a \in Int, NEW b \in Int
    PROVE  Min({a, b}) \in {a, b} /\ Min({a, b}) <= a /\ Min({a, b}) <= b
<1>1. \E m \in {a, b} : \A x \in {a, b} : m =< x
  OBVIOUS
<1> QED BY <1>1 DEF Min

LEMMA MaxIs ==
    ASSUME NEW a \in Int, NEW b \in Int
    PROVE  Max({a, b}) \in {a, b} /\ Max({a, b}) >= a /\ Max({a, b}) >= b
<1>1. \E m \in {a, b} : \A x \in {a, b} : m >= x
  OBVIOUS
<1> QED BY <1>1 DEF Max

\* Finitely many numbers have a bound.
LEMMA Bounded ==
    ASSUME NEW d, IsFiniteSet(DOMAIN d), \A n \in DOMAIN d : d[n] \in Nat
    PROVE  \E k \in Nat : \A n \in DOMAIN d : d[n] <= k
<1> DEFINE Good == {T \in SUBSET DOMAIN d : \E k \in Nat : \A n \in T : d[n] <= k}
<1>1. {} \in Good
  BY 0 \in Nat
<1>2. ASSUME NEW T \in SUBSET DOMAIN d, NEW x \in DOMAIN d \ T, T \in Good
      PROVE  T \cup {x} \in Good
  <2>1. PICK k \in Nat : \A n \in T : d[n] <= k
    BY <1>2
  <2>2. k + d[x] \in Nat /\ \A n \in T \cup {x} : d[n] <= k + d[x]
    BY <2>1
  <2> QED BY <2>2
<1>3. DOMAIN d \in Good
  <2> HIDE DEF Good
  <2> QED BY <1>1, <1>2, FiniteSubsets
<1> QED BY <1>3

\* There is a distance at every rank: the least one with enough at or below it.
LEMMA RankIs ==
    ASSUME NEW d, IsFiniteSet(DOMAIN d), \A n \in DOMAIN d : d[n] \in Nat,
           NEW r \in Nat, r < Cardinality(DOMAIN d)
    PROVE  AtRank(d, r) \in Nat
<1> DEFINE upTo(x) == {n \in DOMAIN d : d[n] <= x}
           below(x) == {n \in DOMAIN d : d[n] < x}
           Xs == {x \in Nat : Cardinality(upTo(x)) > r}
<1>1. \A x \in Nat : IsFiniteSet(upTo(x)) /\ IsFiniteSet(below(x))
  BY FS_Subset
<1>2. Xs \in SUBSET Nat /\ Xs # {}
  <2>1. PICK k \in Nat : \A n \in DOMAIN d : d[n] <= k
    BY Bounded
  <2>2. upTo(k) = DOMAIN d
    BY <2>1
  <2> HIDE DEF upTo
  <2> QED BY <2>2
<1>3. PICK x \in Xs : \A y \in Xs : x <= y
  <2> HIDE DEF Xs
  <2> QED BY <1>2, LeastNatural
<1>4. x \in Nat /\ Cardinality(upTo(x)) > r
  BY <1>3
<1>5. Cardinality(below(x)) <= r
  <2>1. CASE x = 0
    <3>1. below(x) = {}
      BY <2>1
    <3> HIDE DEF below
    <3> QED BY <3>1, FS_EmptySet
  <2>2. CASE x # 0
    <3>1. x - 1 \in Nat /\ x - 1 \notin Xs
      BY <1>3, <1>4, <2>2
    <3>2. below(x) = upTo(x - 1)
      BY <1>4
    <3>3. IsFiniteSet(upTo(x - 1))
      BY <1>1, <3>1
    <3>4. ~ (Cardinality(upTo(x - 1)) > r)
      BY <3>1
    <3> HIDE DEF below, upTo
    <3>5. Cardinality(upTo(x - 1)) \in Nat
      BY <3>3, FS_CardinalityType
    <3> QED BY <3>2, <3>4, <3>5
  <2> QED BY <2>1, <2>2
<1>6. x \in Range(d)
  <2>1. below(x) # upTo(x)
    <3>1. Cardinality(upTo(x)) \in Nat /\ Cardinality(below(x)) \in Nat
      <4> HIDE DEF upTo, below
      <4> QED BY <1>1, <1>4, FS_CardinalityType
    <3> HIDE DEF upTo, below
    <3> QED BY <1>4, <1>5, <3>1
  <2>2. PICK n \in DOMAIN d : d[n] <= x /\ ~ (d[n] < x)
    BY <1>4, <2>1
  <2>3. d[n] = x
    BY <1>4, <2>2
  <2> QED BY <2>3 DEF Range
<1>7. AtRank(d, r) \in Range(d)
  <2> DEFINE P(y) == Cardinality({n \in DOMAIN d : d[n] < y}) <= r
                     /\ Cardinality({n \in DOMAIN d : d[n] <= y}) > r
  <2>1. P(x)
    BY <1>4, <1>5
  <2>2. AtRank(d, r) = CHOOSE y \in Range(d) : P(y)
    BY DEF AtRank
  <2> HIDE DEF P
  <2> QED BY <1>6, <2>1, <2>2
<1> QED BY <1>7 DEF Range

\* The quantile of some distances is a distance.
LEMMA QuantileIs ==
    ASSUME NEW d, IsFiniteSet(DOMAIN d), DOMAIN d # {}, \A n \in DOMAIN d : d[n] \in Nat
    PROVE  Quantile(d) \in Nat
<1> DEFINE last == Cardinality(DOMAIN d) - 1
           below == (last * QNum) \div QDen
           part == (last * QNum) % QDen
           next == Min({below + 1, last})
<1>1. Cardinality(DOMAIN d) \in Nat \ {0}
  BY FS_CardinalityType, FS_EmptySet
<1>2. last \in Nat /\ last < Cardinality(DOMAIN d)
  BY <1>1
<1>3. QNum \in Nat /\ QDen \in Nat \ {0} /\ QNum < QDen
  BY CalibrationAssumption
<1>4. Quantile(d) = (AtRank(d, below) * (QDen - part) + AtRank(d, next) * part) \div QDen
  BY DEF Quantile
<1> HIDE DEF last
<1>5. last * QNum \in Nat /\ last * QNum <= last * QDen
  <2>1. \A a, b, c \in Nat : b <= c => a * b <= a * c
    OBVIOUS
  <2> QED BY <1>2, <1>3, <2>1
<1>6. below \in Nat /\ below <= last
  <2> DEFINE a == last * QNum
  <2>1. a \in Nat /\ a <= last * QDen
    BY <1>5
  <2> HIDE DEF a
  <2>2. a \div QDen \in Nat /\ a \div QDen <= last
    BY <1>2, <1>3, <2>1, Division
  <2> QED BY <2>2 DEF a
<1>7. part \in Nat /\ QDen - part \in Nat
  <2> DEFINE a == last * QNum
  <2>1. a \in Nat
    BY <1>5
  <2> HIDE DEF a
  <2>2. a % QDen \in Nat /\ a % QDen <= QDen
    BY <1>3, <2>1
  <2>3. part = a % QDen
    BY DEF a
  <2> HIDE DEF part
  <2> QED BY <1>3, <2>2, <2>3
<1> HIDE DEF below, part
<1>8. next \in Nat /\ next <= last
  <2>1. below + 1 \in Int /\ last \in Int
    BY <1>2, <1>6
  <2>2. next \in {below + 1, last} /\ next <= last
    BY <2>1, MinIs
  <2> HIDE DEF next
  <2> QED BY <1>2, <1>6, <2>2
<1> HIDE DEF next
<1>9. AtRank(d, below) \in Nat /\ AtRank(d, next) \in Nat
  BY <1>1, <1>2, <1>6, <1>8, RankIs
<1> DEFINE u == AtRank(d, below)
           v == AtRank(d, next)
           q == QDen - part
<1>10. u * q + v * part \in Nat
  <2> HIDE DEF u, v, q
  <2>1. u \in Nat /\ v \in Nat /\ q \in Nat
    BY <1>7, <1>9 DEF u, v, q
  <2> QED BY <1>7, <2>1
<1> DEFINE w == u * q + v * part
<1>11. w \div QDen \in Nat
  <2>1. w \in Nat
    BY <1>10
  <2> HIDE DEF w
  <2> QED BY <1>3, <2>1, Division
<1> QED BY <1>4, <1>11

\* Every threshold leaves a band between match and mismatch.
LEMMA CalibrateIs ==
    ASSUME NEW d, IsFiniteSet(DOMAIN d), DOMAIN d # {}, \A n \in DOMAIN d : d[n] \in Nat
    PROVE  Calibrate(d).match < Calibrate(d).mismatch
<1> DEFINE m == Max({Quantile(d), Floor})
<1>1. m \in Nat /\ m >= 1
  <2>1. Floor \in Int /\ Floor >= 1 /\ Quantile(d) \in Int
    BY QuantileIs, CalibrationAssumption
  <2>2. m \in {Quantile(d), Floor} /\ m >= Floor
    BY <2>1, MaxIs
  <2>3. Quantile(d) \in Nat /\ Floor \in Nat
    BY QuantileIs, CalibrationAssumption
  <2> HIDE DEF m
  <2> QED BY <2>1, <2>2, <2>3
<1>2. Calibrate(d).match = m /\ Calibrate(d).mismatch = m * Multiplier
  BY DEF Calibrate
<1> HIDE DEF m
<1>3. m * Multiplier >= m * 2
  <2>1. \A a, b \in Nat : b >= 2 => a * b >= a * 2
    OBVIOUS
  <2>2. Multiplier \in Nat /\ Multiplier >= 2
    BY CalibrationAssumption
  <2> QED BY <1>1, <2>1, <2>2
<1>4. m * Multiplier \in Nat
  BY <1>1, CalibrationAssumption
<1> QED BY <1>1, <1>2, <1>3, <1>4

LEMMA RelativeIs ==
    ASSUME NEW a \in Nat, NEW b \in Nat
    PROVE  Relative(a, b) \in Nat
<1> DEFINE m == Max({a, b, 1})
           n == Scale * Apart(a, b)
<1>1. m \in Nat \ {0}
  <2>1. \E x \in {a, b, 1} : \A y \in {a, b, 1} : x >= y
    OBVIOUS
  <2>2. m \in {a, b, 1} /\ \A y \in {a, b, 1} : m >= y
    BY <2>1 DEF Max
  <2> HIDE DEF m
  <2> QED BY <2>2
<1>2. n \in Nat
  <2>1. Apart(a, b) \in Nat /\ Scale \in Nat
    BY SketchesAssumption DEF Apart
  <2> QED BY <2>1
<1>3. Relative(a, b) = n \div m
  BY DEF Relative
<1> HIDE DEF m, n
<1> QED BY <1>1, <1>2, <1>3, Division

LEMMA TwoOf ==
    ASSUME NEW S, IsFiniteSet(S), NEW p \in kSubset(2, S)
    PROVE  \E a, b \in S : p = {a, b}
<1>1. p \subseteq S /\ Cardinality(p) = 2 /\ IsFiniteSet(p)
  BY FS_Subset DEF kSubset
<1>2. PICK a \in p : TRUE
  BY <1>1, FS_EmptySet
<1>3. IsFiniteSet(p \ {a}) /\ Cardinality(p \ {a}) = 1
  BY <1>1, <1>2, FS_RemoveElement
<1>4. PICK b \in p \ {a} : p \ {a} = {b}
  BY <1>3, FS_Singleton
<1>5. p = {a, b}
  BY <1>2, <1>4
<1> QED BY <1>1, <1>5

\* Two runs that meet are compared on the inputs both have, by two numbers.
LEMMA MeetingIs ==
    ASSUME NEW chosen \in SUBSET Sessions, NEW p \in Meetings(chosen)
    PROVE  /\ IsFiniteSet(Sampled(p))
           /\ \A i \in Sampled(p) : Measured(p, i) \in Nat
           /\ MeetingKey(p) \in {Key(l, r) : l, r \in Modes}
<1>1. IsFiniteSet(Runs(chosen))
  BY FS_Subset, FS_Product, SessionsAssumption DEF Runs
<1>2. PICK a, b \in Runs(chosen) : p = {a, b}
  BY <1>1, TwoOf DEF Meetings
<1>3. /\ a[1] \in Sessions /\ a[2] \in Modes /\ a[2] \in a[1].modes
      /\ b[1] \in Sessions /\ b[2] \in Modes /\ b[2] \in b[1].modes
  BY DEF Runs
<1> DEFINE n == Min({a[1].samples, b[1].samples})
<1>4. Sampled(p) = 1..n
  <2>1. {run[1].samples : run \in p} = {a[1].samples, b[1].samples}
    BY <1>2
  <2> QED BY <2>1 DEF Sampled
<1>5. n \in Int /\ n <= a[1].samples /\ n <= b[1].samples
      /\ a[1].samples \in Nat /\ b[1].samples \in Nat
  <2>1. a[1].samples \in Nat /\ b[1].samples \in Nat
    BY <1>3, SessionsAssumption
  <2> DEFINE x == a[1].samples
             y == b[1].samples
  <2>2. x \in Int /\ y \in Int
    BY <2>1
  <2>3. n = Min({x, y})
    OBVIOUS
  <2> HIDE DEF n, x, y
  <2>4. n \in {x, y} /\ n <= x /\ n <= y
    BY <2>2, <2>3, MinIs
  <2> QED BY <2>1, <2>2, <2>4 DEF x, y
<1> HIDE DEF n
<1>6. IsFiniteSet(Sampled(p))
  <2>1. 1 \in Int /\ n \in Int
    BY <1>5
  <2>2. IsFiniteSet(1..n)
    BY ONLY <2>1, FS_Interval
  <2> QED BY ONLY <1>4, <2>2
<1>7. ASSUME NEW i \in Sampled(p) PROVE Measured(p, i) \in Nat
  <2> DEFINE x == Output[a[1].gpu][a[2]][i].value
             y == Output[b[1].gpu][b[2]][i].value
  <2>1. i \in 1..a[1].samples /\ i \in 1..b[1].samples
    BY <1>4, <1>5
  <2>2. x \in Nat /\ y \in Nat
    BY <1>3, <2>1, SessionsAssumption
  <2>3. {Output[run[1].gpu][run[2]][i].value : run \in p} = {x, y}
    BY <1>2
  <2>4. Measured(p, i) = Relative(Max({x, y}), Min({x, y}))
    BY <2>3 DEF Measured
  <2> HIDE DEF x, y
  <2>5. Max({x, y}) \in Nat /\ Min({x, y}) \in Nat
    <3>1. x \in Int /\ y \in Int
      BY <2>2
    <3>2. Max({x, y}) \in {x, y} /\ Min({x, y}) \in {x, y}
      BY <3>1, MinIs, MaxIs
    <3> QED BY <2>2, <3>2
  <2> QED BY <2>4, <2>5, RelativeIs
<1>8. MeetingKey(p) = {a[2], b[2]}
  BY <1>2 DEF MeetingKey
<1> QED BY <1>3, <1>6, <1>7, <1>8 DEF Key

\* Everything measured of two profiles is finitely many numbers.
LEMMA PoolIs ==
    ASSUME NEW chosen \in SUBSET Sessions, NEW key
    PROVE  LET d == Pool(chosen, key)
           IN  IsFiniteSet(DOMAIN d) /\ \A n \in DOMAIN d : d[n] \in Nat
<1> DEFINE met == {p \in Meetings(chosen) : MeetingKey(p) = key}
           On(p) == {<<p, i>> : i \in Sampled(p)}
           family == {On(p) : p \in met}
           d == Pool(chosen, key)
<1>1. IsFiniteSet(met)
  <2>1. IsFiniteSet(Runs(chosen))
    BY FS_Subset, FS_Product, SessionsAssumption DEF Runs
  <2>2. IsFiniteSet(SUBSET Runs(chosen))
    BY <2>1, FS_SUBSET
  <2>3. met \in SUBSET (SUBSET Runs(chosen))
    BY DEF Meetings, kSubset
  <2> HIDE DEF met
  <2> QED BY <2>2, <2>3, FS_Subset
<1>2. ASSUME NEW p \in met PROVE IsFiniteSet(On(p))
  <2> DEFINE f == [i \in Sampled(p) |-> <<p, i>>]
  <2>1. f \in Surjection(Sampled(p), On(p))
    BY DEF Surjection
  <2>2. IsFiniteSet(Sampled(p))
    BY MeetingIs
  <2> HIDE DEF f, On
  <2> QED BY <2>1, <2>2, FS_Surjection
<1>3. IsFiniteSet(family)
  <2> DEFINE f == [p \in met |-> On(p)]
  <2> HIDE DEF met, On
  <2>1. f \in Surjection(met, family)
    BY DEF Surjection
  <2> HIDE DEF f, family
  <2> QED BY <1>1, <2>1, FS_Surjection
<1>4. \A T \in family : IsFiniteSet(T)
  BY <1>2
<1>5. DOMAIN d = UNION family /\ \A n \in UNION family : d[n] = Measured(n[1], n[2])
  BY DEF Pool
<1>6. ASSUME NEW n \in UNION family PROVE Measured(n[1], n[2]) \in Nat
  <2>1. PICK p \in met : n \in On(p)
    OBVIOUS
  <2>2. PICK i \in Sampled(p) : n = <<p, i>>
    BY <2>1
  <2> QED BY <2>2, MeetingIs
<1> HIDE DEF family, d
<1>7. IsFiniteSet(UNION family)
  BY <1>3, <1>4, FS_UNION
<1> QED BY <1>5, <1>6, <1>7 DEF d

\* A fitted table is about pairs of modes and leaves a band for each of them.
LEMMA TableIs ==
    ASSUME NEW t \in Tables
    PROVE  /\ DOMAIN t.tolerances \subseteq {Key(l, r) : l, r \in Modes}
           /\ \A k \in DOMAIN t.tolerances : t.tolerances[k].match < t.tolerances[k].mismatch
<1>1. PICK chosen \in Poolable : t = [tolerances |-> Fitted(chosen), notes |-> chosen]
  BY DEF Tables
<1>2. chosen \in SUBSET Sessions /\ t.tolerances = Fitted(chosen)
  BY <1>1 DEF Poolable
<1> DEFINE keys == {MeetingKey(p) : p \in Meetings(chosen)}
           enough == {k \in keys : Cardinality(DOMAIN Pool(chosen, k)) >= MinSamples}
<1>3. Fitted(chosen) = [k \in enough |-> Calibrate(Pool(chosen, k))]
  BY DEF Fitted
<1>4. keys \subseteq {Key(l, r) : l, r \in Modes}
  BY <1>2, MeetingIs
<1>5. ASSUME NEW k \in enough PROVE Calibrate(Pool(chosen, k)).match < Calibrate(Pool(chosen, k)).mismatch
  <2>1. IsFiniteSet(DOMAIN Pool(chosen, k)) /\ \A n \in DOMAIN Pool(chosen, k) : Pool(chosen, k)[n] \in Nat
    BY <1>2, PoolIs
  <2>2. DOMAIN Pool(chosen, k) # {}
    <3>1. Cardinality(DOMAIN Pool(chosen, k)) >= MinSamples
      OBVIOUS
    <3> QED BY <3>1, FS_EmptySet, CalibrationAssumption
  <2> QED BY <2>1, <2>2, CalibrateIs
<1> QED BY <1>2, <1>3, <1>4, <1>5

-----------------------------------------------------------------------------
(* The types of the records.                                               *)

LEMMA FadeIs ==
    ASSUME NEW w \in Nat
    PROVE  I!Fade(w) \in Nat
<1> DEFINE x == w * FadeNum
<1>1. x \in Nat /\ FadeDen \in Nat \ {0}
  BY RecordsAssumption
<1>2. I!Fade(w) = x \div FadeDen
  BY DEF I!Fade
<1> HIDE DEF x
<1> QED BY <1>1, <1>2, Division

LEMMA FadedIs == \A e \in I!Evidence : I!Faded(e) \in I!Evidence
BY FadeIs DEF I!Evidence, I!Weights, I!Faded

LEMMA CleanIs == \A n \in Nat : I!Clean(n) \in I!Evidence
<1>1. I!Blank \in I!Evidence
  BY DEF I!Blank, I!Evidence, I!Weights
<1>2. \A x \in Nat : [I!Blank EXCEPT !.pass = x, !.comparisons = x] \in I!Evidence
  BY <1>1 DEF I!Evidence
<1>3. \A n \in Nat : n * Unit \in Nat
  BY RecordsAssumption
<1> QED BY <1>2, <1>3 DEF I!Clean

LEMMA NotedIs ==
    ASSUME NEW e \in I!Evidence, NEW c \in Clusters,
           NEW verdict \in {"match", "mismatch", "ambiguous"}
    PROVE  Noted(e, c, verdict) \in I!Evidence
<1>1. \A w \in I!Weights : I!Charge(w, c) \in I!Weights
  BY RecordsAssumption DEF I!Weights, I!Charge
<1>2. \A x \in Nat : x + Unit \in Nat
  BY RecordsAssumption
<1>3. I!WithMatch(e, c) \in I!Evidence
  BY <1>2 DEF I!WithMatch, I!Evidence
<1>4. I!WithMismatch(e, c) \in I!Evidence
  BY <1>1, <1>2 DEF I!WithMismatch, I!Evidence
<1>5. I!WithAmbiguity(e, c) \in I!Evidence
  BY <1>1, <1>2 DEF I!WithAmbiguity, I!Evidence
<1> QED BY <1>3, <1>4, <1>5 DEF Noted

LEMMA JudgeTypes ==
    ASSUME I!TypeOK, NEW s \in Peers, NEW v \in Peers, Judge(s, v)
    PROVE  I!TypeOK'
<1>1. PICK verdict \in Outcomes(s, v) \ {"incomparable"} :
         /\ evidence' = I!Charged(s, v, Noted(evidence[s], ClusterOf[v], verdict),
                                        Noted(evidence[v], ClusterOf[s], verdict))
         /\ accusers' = IF verdict = "match" THEN accusers ELSE I!Accused(s, v)
  BY DEF Judge
<1>2. verdict \in {"match", "mismatch", "ambiguous"}
  BY FourVerdicts DEF Outcomes
<1>3. ClusterOf[s] \in Clusters /\ ClusterOf[v] \in Clusters /\ checks' = checks + 1
  BY RecordsAssumption DEF Judge, I!Check, I!EligibleVerifiers, I!Independent
<1>4. evidence' \in [Peers -> I!Evidence]
  <2>1. /\ Noted(evidence[s], ClusterOf[v], verdict) \in I!Evidence
        /\ Noted(evidence[v], ClusterOf[s], verdict) \in I!Evidence
    BY <1>2, <1>3, NotedIs DEF I!TypeOK
  <2> QED BY <1>1, <2>1 DEF I!Charged, I!TypeOK
<1>5. accusers' \in [Peers -> SUBSET Clusters]
  BY <1>1, <1>3 DEF I!Accused, I!TypeOK
<1> QED BY <1>3, <1>4, <1>5 DEF Judge, I!TypeOK

\* The records, the counts of pairings and the tables.
Typed == I!TypeOK /\ pairings \in [Pairs -> Nat] /\ Fittings

LEMMA InitTyped == Init => Typed
<1> SUFFICES ASSUME Init PROVE Typed
  OBVIOUS
<1>1. I!TypeOK
  BY CleanIs, RecordsAssumption DEF Init, I!Init, I!TypeOK
<1> QED BY <1>1 DEF Init, Typed, Fittings

LEMMA NextTyped == Typed /\ [Next]_vars => Typed'
<1> SUFFICES ASSUME Typed, [Next]_vars PROVE Typed'
  OBVIOUS
<1>1. Fittings'
  BY FittingsNext DEF Typed
<1>2. pairings' \in [Pairs -> Nat]
  <2>1. ASSUME NEW s \in Peers, NEW v \in Peers, Plan(s, v) PROVE pairings' \in [Pairs -> Nat]
    <3>1. pairings' = [pairings EXCEPT ![{s, v}] = pairings[{s, v}] + 1]
      BY <2>1 DEF Plan
    <3>2. {s, v} \in Pairs => pairings[{s, v}] + 1 \in Nat
      BY DEF Typed
    <3> QED BY <3>1, <3>2 DEF Typed
  <2>2. Lapse \/ Save \/ (\E t \in Tables : Fit(t)) \/ UNCHANGED vars => pairings' = pairings
    BY DEF Lapse, Save, Fit, vars
  <2>3. StartClient => pairings' \in [Pairs -> Nat]
    BY DEF StartClient
  <2> QED BY <2>1, <2>2, <2>3 DEF Next, Judge, NoVerdict, Typed
<1>3. I!TypeOK'
  <2>1. ASSUME NEW s \in Peers, NEW v \in Peers, Judge(s, v) PROVE I!TypeOK'
    BY <2>1, JudgeTypes DEF Typed
  <2>2. CASE UNCHANGED integrity
    BY <2>2 DEF integrity, Typed, I!TypeOK
  <2>3. (\E s, v \in Peers : NoVerdict(s, v)) \/ (\E t \in Tables : Fit(t)) \/ UNCHANGED vars
           => UNCHANGED integrity
    BY DEF NoVerdict, Fit, vars, integrity
  <2>4. CASE Lapse
    BY <2>4, FadedIs DEF Lapse, I!Lapse, Typed, I!TypeOK
  <2>5. CASE Save
    BY <2>5 DEF Save, I!Save, Typed, I!TypeOK
  <2>6. CASE StartClient
    BY <2>6 DEF StartClient, I!Restart, Typed, I!TypeOK
  <2> QED BY <2>1, <2>2, <2>3, <2>4, <2>5, <2>6 DEF Next
<1> QED BY <1>1, <1>2, <1>3 DEF Typed

\* calibrate() refuses a multiplier that would leave no ambiguous band: whatever the
\* sessions measured, every tolerance of every table on disk or in use has one, and the
\* records that are judged with it keep their type.
THEOREM TablesLeaveABand == Spec => []TypeOK
<1>1. Typed => TypeOK
  <2> SUFFICES ASSUME Typed, NEW t \in {file, client} \ {NoTable}
               PROVE  /\ DOMAIN t.tolerances \subseteq {Key(l, r) : l, r \in Modes}
                      /\ \A k \in DOMAIN t.tolerances :
                            t.tolerances[k].match < t.tolerances[k].mismatch
    BY DEF Typed, TypeOK
  <2>1. t \in Tables
    BY DEF Typed, Fittings
  <2> QED BY <2>1, TableIs
<1> QED BY <1>1, InitTyped, NextTyped, PTL DEF Spec

=============================================================================
