------------------------------- MODULE Verdicts ------------------------------
(***************************************************************************)
(* How a disagreement becomes a verdict: the calibration sessions of       *)
(* tools/calibrate, the table fitted from them (fit_tolerances.py and      *)
(* verification/calibrate.py), the choice of a verifier that the table     *)
(* allows (VerificationSampler in verification/sampler.py), and the        *)
(* comparison of two sketches (verification/compare.py).                   *)
(*                                                                         *)
(* Module Integrity takes the verdicts as given and assumes that two       *)
(* honest servers are never found to MISMATCH.  Here verdicts are computed *)
(* from what servers return, and the assumption becomes a property.        *)
(*                                                                         *)
(* A sketch has one component, so its relative distance is that of two     *)
(* numbers and its cosine distance is 0.  Distances are in units of        *)
(* 1/Scale, rounded down.                                                  *)
(***************************************************************************)
EXTENDS Integers, FiniteSets, FiniteSetsExt, Functions

CONSTANTS
    \* Those of Integrity.
    Peers, Clusters, Unknown, ClusterOf, Cheats, HonestAmbiguity, CleanRecord,
    MinDisputingPartners, Unit, FadeNum, FadeDen, MaxChecks,
    Modes,          \* the ways of computing that MODE_PROFILES names
    Inputs,         \* 1..n, the fixed inputs, of which live requests are drawn too
    Output,         \* [GPUs -> [Modes -> [Inputs -> Sketches]]]: honest work
    Forged,         \* what a cheat may return instead
    Sessions,       \* session files: [gpu, modes, samples, inputs]
    Gpu,            \* [Peers -> GPUs]
    Mode,           \* [Peers -> Modes]: how a server computes
    Profile,        \* [Peers -> Modes \cup ...]: what it says of that in the DHT
    NoTable,        \* tolerances=None
    Scale,          \* distances are counted in 1/Scale
    MinSamples,     \* MIN_CALIBRATION_SAMPLES
    QNum, QDen,     \* the quantile, 1 - target_false_positive_rate
    Multiplier,     \* --mismatch-multiplier
    Floor,          \* --floor
    MaxPairings     \* bound: how often one pair is chosen

\* calibrate() refuses a multiplier that leaves no band, and a rate of 0 or above
\* one half; nothing refuses --floor 0, which the default excludes.
ASSUME CalibrationAssumption ==
    /\ Floor \in Nat \ {0}
    /\ Multiplier \in Nat /\ Multiplier > 1
    /\ QNum \in Nat /\ QDen \in Nat /\ QNum < QDen /\ 2 * QNum > QDen
    /\ MinSamples \in Nat \ {0}
ASSUME SketchesAssumption ==
    /\ Scale \in Nat \ {0}
    /\ \A p \in Peers, i \in Inputs :
        /\ Output[Gpu[p]][Mode[p]][i].value \in Nat
        /\ Output[Gpu[p]][Mode[p]][i].norm \in Nat
    /\ \A f \in Forged : f.value \in Nat /\ f.norm \in Nat
ASSUME SessionsAssumption ==
    /\ IsFiniteSet(Sessions) /\ IsFiniteSet(Modes)
    /\ \A s \in Sessions :
        /\ s.samples \in Nat
        /\ \A m \in s.modes, i \in 1 .. s.samples : Output[s.gpu][m][i].value \in Nat
\* What of Integrity's assumptions the records' types need.
ASSUME RecordsAssumption ==
    /\ ClusterOf \in [Peers -> Clusters \cup {Unknown}]
    /\ Unit \in Nat \ {0} /\ FadeNum \in Nat /\ FadeDen \in Nat \ {0}
    /\ CleanRecord \in [Peers -> Nat]

VARIABLES
    evidence, saved, checks, accusers, witnessed,   \* of Integrity
    file,       \* the table on disk with its notes, or NoTable
    client,     \* the table this client judges with, or NoTable
    pairings    \* PairHistory.counts

I == INSTANCE Integrity

vars == <<evidence, saved, checks, accusers, witnessed, file, client, pairings>>

integrity == <<evidence, saved, checks, accusers, witnessed>>

Pairs == kSubset(2, Peers)

-----------------------------------------------------------------------------
(* compare.py *)

Apart(a, b) == IF a >= b THEN a - b ELSE b - a

\* Mutant: scaled by the subject's sketch alone.
MutRelative(a, b) == (Scale * Apart(a, b)) \div Max({a, 1})

\* relative_l2, and norm_dev likewise.
Relative(a, b) == (Scale * Apart(a, b)) \div Max({a, b, 1})

\* Tolerance(), for whoever has no table: 0.02, 0.15 and, for the norm, 0.05.
Placeholder ==
    [match |-> (2 * Scale) \div 100, mismatch |-> (15 * Scale) \div 100,
     norm |-> (5 * Scale) \div 100]

Compare(left, right, tolerance) ==
    LET distance == Relative(left.value, right.value)
    IN  CASE left.dim # right.dim -> "incomparable"
          [] /\ left.dim = right.dim
             /\ distance <= tolerance.match
             /\ Relative(left.norm, right.norm) <= tolerance.norm -> "match"
          [] left.dim = right.dim /\ distance >= tolerance.mismatch -> "mismatch"
          [] OTHER -> "ambiguous"

-----------------------------------------------------------------------------
(* calibrate.py: a threshold from measured distances, d being a function   *)
(* from measurements to distances.                                         *)

\* The distance with r others before it.
AtRank(d, r) ==
    CHOOSE x \in Range(d) :
        /\ Cardinality({n \in DOMAIN d : d[n] < x}) <= r
        /\ Cardinality({n \in DOMAIN d : d[n] <= x}) > r

\* numpy.quantile: between the two distances around the position.
Quantile(d) ==
    LET last == Cardinality(DOMAIN d) - 1
        below == (last * QNum) \div QDen
        part == (last * QNum) % QDen
    IN  (AtRank(d, below) * (QDen - part)
            + AtRank(d, Min({below + 1, last})) * part) \div QDen

\* Mutant: the multiplier is forgotten, and the band with it.
MutCalibrate(d) ==
    LET match == Max({Quantile(d), Floor})
    IN  [match |-> match, mismatch |-> match + 1,
         norm |-> Max({Quantile(d) \div 10, Floor})]

\* Mutant: the floor is applied to the match threshold alone, after the multiplier.
MutFloor(d) ==
    [match |-> Max({Quantile(d), Floor}), mismatch |-> Quantile(d) * Multiplier,
     norm |-> Max({Quantile(d) \div 10, Floor})]

\* fit_tolerances.py gives the collector a tenth of each distance as its norm
\* deviation; the norms in the sessions are not read.
Calibrate(d) ==
    LET match == Max({Quantile(d), Floor})
    IN  [match |-> match, mismatch |-> match * Multiplier,
         norm |-> Max({Quantile(d) \div 10, Floor})]

\* ToleranceTable: a table is a function from unordered pairs to tolerances.
Key(left, right) == {left, right}

CanCompare(table, left, right) == Key(left, right) \in DOMAIN table

\* get(), and compare_sketches for a caller that got None.
Get(table, left, right) ==
    IF CanCompare(table, left, right) THEN table[Key(left, right)] ELSE Placeholder

-----------------------------------------------------------------------------
(* collect_sketches.py and fit_tolerances.py *)

\* (session, mode): what one session measured in one mode.
Runs(chosen) == {run \in chosen \X Modes : run[2] \in run[1].modes}

\* Two different runs are compared, of one session or of two.
Meetings(chosen) == kSubset(2, Runs(chosen))

MeetingKey(p) == {run[2] : run \in p}

Sampled(p) == 1 .. Min({run[1].samples : run \in p})

Measured(p, i) ==
    LET values == {Output[run[1].gpu][run[2]][i].value : run \in p}
    IN  Relative(Max(values), Min(values))

\* Every distance between two runs of these profiles.
Pool(chosen, key) ==
    LET met == {p \in Meetings(chosen) : MeetingKey(p) = key}
        measurements == UNION {{<<p, i>> : i \in Sampled(p)} : p \in met}
    IN  [n \in measurements |-> Measured(n[1], n[2])]

Fitted(chosen) ==
    LET keys == {MeetingKey(p) : p \in Meetings(chosen)}
        enough == {k \in keys : Cardinality(DOMAIN Pool(chosen, k)) >= MinSamples}
    IN  [k \in enough |-> Calibrate(Pool(chosen, k))]

\* Sessions of other inputs or weights are refused.
Poolable == {chosen \in SUBSET Sessions :
                chosen # {} /\ \A s, t \in chosen : s.inputs = t.inputs}

\* table.save, with its notes: the sessions it was fitted from.
Tables == {[tolerances |-> Fitted(chosen), notes |-> chosen] : chosen \in Poolable}

\* The file is written whatever the sessions were, those of one GPU included.
Fit(table) ==
    /\ table \in Tables
    /\ file' = table
    /\ UNCHANGED <<client, pairings, evidence, saved, checks, accusers, witnessed>>

-----------------------------------------------------------------------------
(* sampler.py *)

TypeOK ==
    /\ I!TypeOK
    /\ pairings \in [Pairs -> Nat]
    /\ \A t \in {file, client} \ {NoTable} :
        /\ DOMAIN t.tolerances \subseteq {Key(l, r) : l, r \in Modes}
        /\ \A k \in DOMAIN t.tolerances :
            t.tolerances[k].match < t.tolerances[k].mismatch

\* eligible_verifiers: with a table, only for a pair it covers.
Eligible(s) ==
    {v \in I!EligibleVerifiers(s) :
        client = NoTable \/ CanCompare(client.tolerances, Profile[s], Profile[v])}

Crosses(s, v) == Profile[s] # Profile[v]

\* rank: first servers of the same profile, then the pairs used least.
Before(s, v, w) ==
    \/ ~Crosses(s, v) /\ Crosses(s, w)
    \/ Crosses(s, v) = Crosses(s, w) /\ pairings[{s, v}] < pairings[{s, w}]

\* select_verifier draws among the equally preferred.
Front(s) == {v \in Eligible(s) : \A w \in Eligible(s) : ~Before(s, w, v)}

ToleranceFor(s, v) ==
    IF client = NoTable THEN Placeholder
    ELSE Get(client.tolerances, Profile[s], Profile[v])

\* The two outputs _verify compares.  The code sketches them with a projection
\* drawn for the request; here honest work on a live request is the work the
\* calibration measured on one of its inputs.
Returns(p, i) ==
    {Output[Gpu[p]][Mode[p]][i]} \cup (IF p \in Cheats THEN Forged ELSE {})

\* What comparing the work of s and v on one of the inputs may come to.
Outcomes(s, v) ==
    UNION {{Compare(left, right, ToleranceFor(s, v)) :
               left \in Returns(s, i), right \in Returns(v, i)} : i \in Inputs}

\* plan(): the pairing is counted before anybody is asked.
Plan(s, v) ==
    /\ v \in Front(s)
    /\ pairings[{s, v}] < MaxPairings
    /\ pairings' = [pairings EXCEPT ![{s, v}] = @ + 1]
    /\ UNCHANGED <<file, client>>

\* The entry a verdict makes in the evidence of either party.
Noted(e, c, verdict) ==
    CASE verdict = "match" -> I!WithMatch(e, c)
      [] verdict = "mismatch" -> I!WithMismatch(e, c)
      [] verdict = "ambiguous" -> I!WithAmbiguity(e, c)

\* record_outcome, for two sketches that could be compared.
Judge(s, v) ==
    /\ I!Check(s, v)
    /\ Plan(s, v)
    /\ \E verdict \in Outcomes(s, v) \ {"incomparable"} :
        /\ evidence' = I!Charged(s, v, Noted(evidence[s], ClusterOf[v], verdict),
                                       Noted(evidence[v], ClusterOf[s], verdict))
        /\ accusers' = IF verdict = "match" THEN accusers ELSE I!Accused(s, v)
    /\ UNCHANGED <<saved, witnessed>>

\* The verifier does not answer, an output is not finite and cannot be sketched,
\* or the hidden dimensions differ: evidence about neither.
NoVerdict(s, v) ==
    /\ Plan(s, v)
    /\ UNCHANGED integrity

Lapse == I!Lapse /\ UNCHANGED <<file, client, pairings>>
Save  == I!Save  /\ UNCHANGED <<file, client, pairings>>

\* A new client: with the measured table if its caller loads one, as the demo
\* does, and without one, as `seedmesh chat` and `gateway` do.
StartClient ==
    /\ client' \in {NoTable, file}
    /\ pairings' = [p \in Pairs |-> 0]
    /\ I!Restart
    /\ UNCHANGED file

Init ==
    /\ I!Init
    /\ file = NoTable
    /\ client = NoTable
    /\ pairings = [p \in Pairs |-> 0]

Next ==
    \/ \E table \in Tables : Fit(table)
    \/ \E s, v \in Peers : Judge(s, v) \/ NoVerdict(s, v)
    \/ Lapse
    \/ Save
    \/ StartClient

Spec == Init /\ [][Next]_vars

-----------------------------------------------------------------------------
(* Properties. *)

\* The sessions behind the client's table include the GPU and the mode p computes
\* with, on every input.
Calibrated(p) ==
    \E s \in client.notes :
        /\ s.gpu = Gpu[p]
        /\ Mode[p] \in s.modes
        /\ Inputs \subseteq 1 .. s.samples

\* Calibration does what the scoring relies on.  While the client judges with a
\* table fitted from sessions on the hardware that the honest servers with a
\* measured profile run, whatever it records, however the table came about and
\* whatever was pooled into it, is a step of Integrity, where a mismatch always
\* involves a cheat.
JudgesAsAssumed ==
    [][(/\ client # NoTable
        /\ \A p \in Peers \ Cheats : Profile[p] \in Modes => Calibrated(p))
        => (I!Next \/ UNCHANGED integrity)]_vars

\* "Comparing A against B must give the same verdict as B against A, or the result
\* would depend on which server the client happened to call the subject": whatever
\* two servers return, and whichever table is loaded.
SameEitherWay ==
    \A p \in Pairs, i \in Inputs : \E s, v \in p :
        /\ s # v
        /\ \A left \in Returns(s, i), right \in Returns(v, i) :
            Compare(left, right, ToleranceFor(s, v))
                = Compare(right, left, ToleranceFor(v, s))

=============================================================================
