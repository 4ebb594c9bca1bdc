# Seedmesh: a verification development

Seedmesh lets volunteers serve a large language model together: each hosts a few transformer
blocks over Petals, and a client's request passes through several of their machines. Nothing
in that protocol says whether the numbers that come back are right. The repository's own core
is what it adds on top: clients **measure** the servers they use, **re-check** a sample of
requests on a second, independent server, **remember** the evidence with a half-life,
**share** it over the DHT, and **stop routing** to servers with corroborated evidence of wrong
work. This directory models that loop in TLA+, checks it with TLC on small instances, and
proves its most important invariants with TLAPS for every value of the constants.

All paths below are relative to the repository root; `src/seedmesh` is abbreviated to its
sub-packages (`reputation/`, `verification/`, `cli/`).

## 1. Inventory

### The trust loop of one client

| Part | State it keeps | Operations | Made correct by |
|---|---|---|---|
| Integrity scoring, `reputation/scorer.py` | per peer: decayed passes, disputes and ambiguous results per accusing cluster, direct faults; a state file | `record_verification`, `record_ambiguous`, `record_direct_fault`, `breakdown`, `save`, `load` | nobody is excluded on one network's word; an honest server that catches a cheat is not convicted by it; evidence fades; a file never brings back what had faded |
| Reliability scoring, same file | outcome and latency averages per peer and range | `record`, `quantile`, `ranked` | refusals cost nothing; a preference, never a veto |
| Verification sampler, `verification/sampler.py` | pairing counts, start time | `should_verify`, `eligible_verifiers`, `plan`, `record_outcome` | subject and verifier are under different operators; a disagreement is charged to both, each under the other's cluster |
| Inline verifier, `verification/inline.py` | a bounded queue of captured prefill steps | `capture`, `run_pending` | only replayable steps are kept; could-not-check is never a pass; the queue drains |
| Discovery and addresses, `verification/petals_bridge.py` | first sightings, remembered addresses | `discover`, `resolve`, `run_on` | the address of a relay is never taken for the server's |
| Network clusters, `reputation/diversity.py`, `clusters.py` | memo of each peer's cluster | `assign`, `are_independent` | unknown is never independent; a peer is one accuser |
| Routing gate, `reputation/routing.py` | the set pushed into Petals | `refresh` | convicts leave the routing table, cleared servers come back |
| Client session, `reputation/session.py`, `observer.py`, chat loop of `cli/main.py` | time of the last round | `maybe_sync`, `close`, the wrapper around a session's `step` | verdict before gate before gossip before save; measuring never breaks a request |

### Between clients

| Part | State it keeps | Operations | Made correct by |
|---|---|---|---|
| Gossip, `reputation/gossip.py`, `dht.py` | epoch counter, transport id, DHT slots and directory | `publish`, `announce_self`, `known_observers`, `fetch` | an observer's latest word wins; one's own word is not hearsay |
| Signed records, `reputation/records.py` | highest epoch seen per observer | `build_batch`, `fit_batch`, `verify_batch`, `check_and_update` | no replay, bounded lifetime, a refused record leaves no trace |
| Aggregation, `reputation/aggregate.py` | one batch per observer | `ingest`, `drop_expired`, `aggregate` | influence is bounded per network, not per identity; the departed stop voting |

### Around the loop

| Part | State it keeps | Operations | Made correct by |
|---|---|---|---|
| Chat and gateway, `cli/main.py`, `cli/gateway.py` | the session, a lock, a busy flag, a request per thread | start and warm-up, a prompt with retries, sync rounds, close | one request in the stack at a time; nothing measured before routing works; what was measured is written |
| Serving, `cli/main.py`, `cli/stale.py`, `cli/visibility.py` | server processes, their parents, a baseline of peers | size, clear leftovers, launch, watch | a live server is left alone, leftovers are gone before a launch, the volunteer is told something, and only reads that miss servers make it wrong |
| Sizing and the swarm file, `cli/hardware.py`, `cli/swarm.py` | none | `plan_blocks`, `resolve_model_choice` | a planned server fits, whichever blocks it gets |
| Setup and the codemod, `cli/setup.py`, `tools/port_petals.py`, `tools/verify_petals_port.py` | a patched checkout | clone, install, port, link, verify | running it again completes what a killed run left |
| Route planner, `reputation/routing_bias.py` | recent load | `plan`, `alternates` | the route tiles the model, is the cheapest, and spreads work |
| Readers of announcements, `cli/monitor.py`, `cli/preflight.py`, `backends/petals_backend.py` | none | fold announcements to ranges, count replicas | they agree with one another about coverage |
| Comparison and calibration, `verification/compare.py`, `calibrate.py`, `tools/calibrate/` | a table of tolerances | fit, look up, compare | honest servers are never charged with a mismatch, on the hardware, the model and the inputs that were measured |

The rest keeps no state of the swarm: identity and state files (`cli/state.py`,
`core/identity.py`), the random swarms of `sim/`, diagnosis (`cli/doctor.py`), pages and printing.

### How the parts interact

* The chat loop is one thread: a prompt runs over Petals, the wrapper around
  `_ServerInferenceSession.step` records an outcome and captures prefill steps, and
  *after an answered prompt* `maybe_sync` replays, refreshes the gate, gossips and saves.
* Petals refreshes its routing table in a thread of its own, on a timer and when the gate asks
  for it, and filters the servers the gate has blocked. The gate reads that same table.
* The gateway runs the same stack from request threads, one at a time under a lock; its main
  thread closes the session at Ctrl-C without waiting for them.
* `serve` is a parent process per terminal: it plans from free memory, clears orphans, reads the
  swarm once, launches Petals and leaves a thread that watches for a new peer.
* Clients meet only in the DHT: a slot per DHT identity (new in every process) holds a record
  signed by an identity that is kept on disk. A `get` may return any stored copy.
* The state file is shared by all processes of one user and swarm.

### What is hard here

Feedback (verdicts decide who may verify next; the gate filters the table it reads), weak
evidence that must be attributed correctly, three clocks (observers', reader's, process age),
values that decay across thresholds, memos taken before the facts were known, restarts that
keep one identity and lose another, old copies arriving late, rounds of which one step may
fail, processes that outlive their parents, files written one after the other, and readers that
fold the same announcements differently. Each place is listed under `hazards` in `PROJECT.json`.

## 2. Modules

How they compose:

```
 Verdicts ──INSTANCE──> Integrity          Gossip ──implements──> Hearsay
   (supplies the assumption Integrity makes)  (refinement mapping, a PROPERTY)
 Client   ──INSTANCE──> Gate               Requests ──EXTENDS──> Planning ──EXTENDS──> Views
   (takes Gate's steps in the code's order)           └─EXTENDS──> Aggregate
 Pairing  (why Integrity may take ClusterOf as a constant)
 Hosting  ──EXTENDS──> Sizing              Setup   (stands alone)
```

`MC<X>` instantiates module X for TLC, `<X>Proofs` holds its theorems and those of the modules X
extends. Hosting, Requests and Verdicts cannot be extended together, so their proofs each carry the
few lemmas they need on finite sets, sums and least numbers. Definitions whose names
begin with `Mut` are mutated forms of the definition below them: plausible bugs that the
properties are shown to catch (`PROJECT.json`, `mutants`). `PROJECT.json`, `map`, names the
lines each definition is translated from.

### Integrity: what evidence is and what it does

`evidence` and `saved` are the integrity fields of `_PeerState` in memory and in the file, in
whole quanta instead of decayed floats; `Lapse` multiplies every weight by `FadeNum/FadeDen`
and rounds down. `Match`, `Mismatch`, `Ambiguous` and `Incomparable` are the outcomes of
`record_outcome`, each charged to both parties under the other's cluster; `DirectFault` is
`detect_passthrough`; `Save` and `Restart` are `save` and `load`. `Quarantined` is `breakdown`
with its escalation ladder, the ambiguous-rate gate and the integrity bound, multiplied out to
integers. `accusers` and `witnessed` are history. Which servers cheat is a constant; that two
honest ones never mismatch is an assumption here and a property of Verdicts.

### Verdicts: where evidence comes from

Calibration sessions (`Sessions`) hold what one GPU measured in some modes; `Fit` is
`fit_tolerances.py` with the pooling of every two runs, the quantile, the multiplier and the
floor; `StartClient` loads the file or does not; `Judge` and `NoVerdict` are `plan`, the choice
of `select_verifier`, `compare_sketches` and `record_outcome`, the last through an instance of
Integrity. A sketch has one component, so its distance is the relative distance of two numbers
and the cosine is left out.

Live work is identified with measured work: `Returns` draws a server's honest output from the inputs of
calibration. In the code a request has activations of its own, of any length and any range of blocks,
and its sketches use a projection drawn from a nonce; `tools/calibrate/README.md` (lines 125-127 and
155-156) warns that distances depend on the model and on the shape. What is shown of calibrated
verdicts therefore holds for the model and the inputs that were measured, and as far as these stand
for the rest.

### Pairing: who checks whom

One client process. `BeginReplay` is `run_pending` up to the end of `discover()`, with the
addresses the p2p daemon happens to report (direct, relayed or none); `Replay`, `PassOver` and
`NoVerifier` handle one captured step; `Capture` adds one if the queue has room. `assigned` is
the memo of `ClusterIndex`, which `are_independent` fills as a side effect (`Memoised`), in
every branch that consults it. `pairs` is history.

### Client and Gate: one process from start to end

Gate is `refresh()` against Petals' own routing table: `table` is filtered by `filter` on every
`Update`, and `Refresh` asks only the peers in it. Client adds the process around it: the
preflight, the warm-up with its deadline, `_start_reputation` with its two ways to fail, prompts
with retries, the rounds of `maybe_sync`, and `close()`, for a chat (one thread, cut off where
it is by Ctrl-C) and a gateway (request threads under a lock, which are *not* stopped by it).
`behind` says which copies, the file and the network, miss something that is in memory.

### Gossip, Hearsay and Aggregate: what others say

Gossip has every observer publish under a slot per process; the DHT answers each read with any
stored copy. `BeginRound`, `Accept`, `Refuse`, `EndRound` are `fetch`, `verify_batch` with
`check_and_update`, and `drop_expired`; `RestartReader` and `RestartOther` start new processes
with a new slot and epoch 1. Hearsay is the abstract promise, one vote per observer that only
moves forward. Aggregate holds the arithmetic on what was read: rates per report, the caps per
observer and network, the collusion discount, the weighted median, blending with one's own
measurements, and `fit_batch`. Published batches are cut by it before anybody reads them.

### Views, Planning, Requests: using the swarm

Views folds one set of announcements the way each reader does. Planning is the shortest-path
planner with its order of ties: `Table` is `best` and `back`, filled position by position by
`Reach`; `Cheapest`, a walk over every cut of the model, is the reference it is compared with. Requests runs a client over them: `PlanRequest`, `Succeed`,
`Fail` with one replacement per hop, while servers `Settle` on other blocks, get `Ready`,
`Crash` and are forgotten, and observers publish and lapse.

### Sizing and Hosting: serving

Sizing is `hardware.py` and `swarm.py` as operators. Hosting runs `serve` in several terminals
of one machine: `Serve` (with the refusals of the command), `Scan`, `Terminate`, `HardKill`,
`TakeBaseline`, `Launch`, `End`, `Interrupt`, `Hangup`; `Skip` and `Look` are the watching
thread. `Read` is what either is given: the code makes one lookup per block and takes a failed one for
nobody, so any part of what is announced may be missing, and only what raises comes back as
`NoBaseline`. `present`, `missed` and `shown` are history; `Announce`, `Close`, `Die`, `Expire` are the servers and the DHT.

### Setup: installing

Each *site* is a piece of text a patch of the codemod looks for, and reads "old", "new", "odd",
"half" or "absent". `Todo(k)` is what patch k finds to write, `Write` one file, `Kill` stops the
command between two writes or in one. `Works` is what `verify_petals_port.py` exercises.

## 3. What is checked

| Run | Question | Bounds, and why they are enough |
|---|---|---|
| `IntegrityFleet` | can a fleet in one network convict an honest server, and does every quarantine end? | two honest servers and two cheats of one cluster, three checks: two accusations make a quarantine, so a third party is left over; the counting argument is proved without bounds |
| `IntegritySpread` | do decay, restarts, agreement or one network alone convict? | two networks of cheats, an unlocated server, and a server with 78 passes, which two disputes put exactly on the bound |
| `PairingRounds` | does anybody check himself; is a server filed once; does the queue drain? | an honest server with two networks, a fleet of two behind a relay, a queue of one, ages up to the co-arrival gap: each rule decides in some state |
| `GossipReading` | does the reader implement Hearsay, whatever the DHT serves? | two observers, two processes each, two signatures, a clock two units ahead where one is tolerated: a copy of an earlier process, a reordering and a lapse all occur |
| `ClientRounds` | mutual exclusion, the busy flag, the warm-up, what `close()` keeps, and liveness | two request threads, two attempts, three ticks of warm-up, two servers of which one may be convicted: the interleavings of a pair of threads with the main thread and Petals' own |
| `RequestsRuns` | is the route cheapest, does load spread, do readers agree, how far does hearsay reach, does a batch fit and keep the best, does a request end? | three overlapping servers over three blocks, four observers in three networks, one change of the swarm and two requests; every start in which any servers are up. The bounds stop the model, hence `CHECK_DEADLOCK FALSE` |
| `HostingRuns` | who is cleared, does the plan hold, what may be wrong in what the volunteer is told, and is it told at last? | two terminals and two servers, so that one may clear the other's; three command lines (automatic with a watch, an explicit range of the default model with `--replace` on a public address, and one that is refused for want of a fixed port); every read may raise or leave any server out; memory for all blocks, but not beside another server |
| `SetupRuns` | what does running again mend? | all 20 sites of 14 patches, two kills, an upstream as expected or moved on in one of five ways; the proof has no bounds |
| `VerdictRuns` | do calibrated verdicts satisfy Integrity's assumption? | every usable choice of four sessions on two GPUs and two modes, distances in the measured proportions, two checks |

Three runs are expected to find a violation, of a sentence the repository says of itself:
`IntegrityRelease` (one more mismatch sets a server free), `GossipRollback` (a copy of an earlier
process replaces a later word) and `GateFlap` (a round un-blocks a convict it can no longer see).
The other findings in `PROJECT.json` have no run: the module named in each has the behaviour, as
the code has it, and the property nearby is stated with the premise that sets it apart.

Two bounds deserve a word. In `VerdictRuns` the quantile is 0.9 over at most a dozen distances, so it
lies between the two largest, as 0.999 does for every pool of fewer than about 1000; that a
larger pool would leave honest distances above the quantile is not covered, and the multiplier
is what protects those. In `HostingRuns`
no model's name occurs in another's, which is the premise of `LiveSafe` as well; where it does,
`stale.mentions` takes servers of the other model (a finding).

### Fairness

Every liveness property is checked under weak fairness of steps the code itself drives, and of no
failure or input:

* Integrity: `Lapse`. Time passes. (`Redemption`)
* Gossip: the clock and the steps of a round, which the client's interval starts again.
* Pairing: the loop of `run_pending`. (`FullQueueDrains`)
* Client: the main thread's steps, each request's steps once it was asked for, and Petals' refresh
  thread. No one has to ask, and no attempt has to succeed: a step over the network ends, by its
  timeout, one way or the other. `ConvictLeavesTable` and `ClearedReturns` take as a premise that
  rounds go on, since a client nobody uses makes none.
* Hosting: the watching thread. Reads of the swarm may all fail, or leave out any servers. (`VerdictComes`)
* Requests: an attempt ends in success or failure. (`RequestEnds`)

## 4. What is proved

TLAPS checks every step; assumptions are the `ASSUME`s of the modules (TLC evaluates them in the
runs) and those in the statements of the theorems. The main results, for any values of the
constants:

**Integrity** (`IntegrityProofs`): `TypeCorrect`, `Corroboration`, `HonestStaySafe`,
`FileNeverHeavier`. A quarantine counts buckets, so the inductive invariant says which buckets may be
positive at all: `Grounded` (a weight exists, in memory *or in the file*, only where the history has an
accusation) and `FromCheats` (without honest ambiguity, only cheats' clusters accuse the honest).
Without the clause about the file neither survives a restart.

**Gossip** (`GossipProofs`): `TypeCorrect`, `VoteLifetime`, `NewestWins`, `Implements`. The
invariant `Safe` adds `Provenance` (epochs and age rise together within a process) and `Memory` (both
memories of the reader name the same batch) to the types. For the refinement, `Accept` maps to
Hearsay's `Hear`, `EndRound` to `Lapse`, the reader's restart to `Forget`, all else to stutters.

**Pairing** (`PairingProofs`): `TypeCorrect`, `CheckedByOthers`, `OneVoice`, `TimeAloneParts`. `Placed`: whatever is
remembered of a server's address is one of its own. `Filed`: a recorded pair still has the clusters it
was filed under, because the memo never changes. `OneVoice` is why Integrity may take `ClusterOf` as
a constant, within a process. `TimeAloneParts` adds `Sighting`, whoever is filed has been seen: since
neither changes again, only the client's own age can part two servers that could check each other.

**Client** (`ClientProofs`): `TypeCorrect`, `Exclusion`, `FlagIsRight`, `StartsClean`,
`CloseIsComplete`, for any number of request threads, attempts and servers. Whoever is in the
stack of a serving gateway holds the lock; whoever holds it beyond `entering` has set the flag.

**Hosting** (`HostingProofs`): `TypesHold`, `LeftoversAreStopped`, `VerdictsAreRight`, `LiveSafe`,
`PlansHold`, for any number of terminals and servers. Terminals act at the same time on the same processes, so the invariant
is about what a terminal *remembers*: `Cleaning(t)` says what its leftovers are in each phase,
`Watching(t)` what its baseline is: the servers that were there without those the read missed, and
never the server to come. `MachineStep` abstracts every step of the machine to the four
facts that keep such memories true (a pid is not reused, the gone stay gone, a model does not change,
an orphan gets no new parent), and `Bystander` then settles all terminals but the one that acts.
`LiveSafe` assumes that no model's name occurs in that of another.
`PlansHold`, for any configuration, compares a sum over the layers a server loads with as many times the
largest of them, wherever the swarm puts it; its invariant `SInv` says what is known of sizes from the plan to the
launch. It assumes that no command has a budget of zero tokens, where plan and server differ (a finding).

**Requests** (`RequestsProofs`, with Planning, Aggregate and Views): the invariant `Types` gives
`TypesHold` and, with `Published` (every batch was cut to size), reduces the rest to lemmas on what the
operators compute in any state of the right type. The code's loops are recursive functions or folds;
in place of induction over them, the proofs take the least number, or the smallest set, at which a
claim would fail.

* `RoutesAreCheapest`: `Table` is followed over the boundaries of the ranges, `Cheapest` over all blocks.
  That boundaries suffice is the lemma `Exchange`: where a way through the model cuts between two boundaries,
  the hops that meet there can be moved to a boundary at no cost, rightwards if the first of them is the
  cheaper one per block, leftwards if not.
* `WorkGoesRound`: each hop of the table's route is the cheapest there could have been, and a server as
  good with less work would be cheaper. It needs `LoadWeight > 0`; at zero the planner does not look at work.
* `FleetsAreHeld`: the claims of a network weigh no more than its budget (`WithinBudget`), every other
  network at least one observer (`NetworkCounts`), so the median falls among the rest. By `UnitAssumption`
  weights are so fine that a budget divides evenly among observers, as the floats of the code do.
* `EightCutsSuffice`: above the size the batch ends with, the proportional cuts of `_fit_to_budget` leave
  at most 17, 8, 5, 3, 2, 1 and then no report. The theorem assumes that no report takes less than an
  eighteenth of a record; in the code a report of a peer id is 124 of 2048 characters.
  `TheBestIsKept` has no premise.
* `SettledReadersAgree`: while no server is moving, the rows the monitor counts are the ranges discovery
  returns, so that every reader sees the same blocks hosted.

**Setup** (`SetupProofs`): `TypesHold`, `RerunsComplete`, `TheShimComesBack`, for any drift of upstream and any
number of kills. `Progress` says that a site whose patch is over reads as patched, and one whose patch is
running does or is on its list; `Importing` that the shim is written before any importer and that a
missing shim leaves an importer which leads back to it; `Expected` that a kill spoils only the file
it interrupts. `TodoIsComplete` is the lemma about the fourteen patches.

**Verdicts** (`VerdictsProofs`): `SubjectDoesNotMatter` needs no invariant. `CalibrationSuffices` divides
`JudgesAsAssumed` in two: the numbers (a table whose sessions cover the honest servers' hardware makes
no mismatch of two honest sketches) are a hypothesis, which TLC establishes for the instance by
checking the property; that nothing else in the module goes beyond Integrity is proved.
`ImplementsIntegrity` is the refinement for a client that
loads no table, or only such as cover the honest servers' hardware (`WellLoaded`), while tables that spare
nobody may be fitted and written meanwhile, as `fit_tolerances.py` does (a finding). Its other hypothesis,
that the placeholder spares the honest too, holds of the instance, as does the first: three of its eight
tables cover the honest, those three spare them, and some of the others do not. `TablesLeaveABand` types
every table that can be fitted: because the floor is at least 1 and the multiplier above 1, a fitted
tolerance always leaves an ambiguous band between a match and a mismatch.

### Only model-checked

* Liveness, everywhere: `Redemption`, `FullQueueDrains`, `LockReturned`, `StartEnds`,
  `ConvictLeavesTable`, `ClearedReturns`, `VerdictComes`, `RequestEnds`. TLAPS has no rules for
  fairness.
* `OnlyAccusationsConvict`. Evidence is kept in whole quanta, and where these are few, a lapse that
  rounds every weight down can raise the *share* of ambiguous results past the gate of the scorer (4 of 17
  halved is 2 of 8). With the weights of `IntegritySpread` it does not; the exact decay of the code keeps
  every share, so no assumption on the model's constants would say what the code does.
* That thresholds spare the honest, the hypothesis of `CalibrationSuffices`: it depends on what was
  measured.
* The three violations, which are counterexamples.

Every invariant of every passing run is stated by a theorem. The type invariants of Integrity, Gossip,
Pairing and Setup are proved and no longer listed in the runs.

## 5. What is not modelled

* **Client files** (`cli/state.py`, `core/identity.py`): a key is read or created and a path computed.
  What persists enters Integrity, Gate and Gossip. Two clients over one directory, which the code
  neither excludes nor claims to support, are a listed hazard without a property.
* **Cryptography and encoding**: a batch is accepted only from its author and decodes to what was
  encoded.
* **Floating point**: projections, norms and tensors (`verification/sketch.py`, most of
  `backends/petals_backend.py`). Their results enter as the constant `Output`, and decay in quanta.
* **The ASN lookup** and the location of observers (`diversity.py`, `clusters.py`): a network is a
  model value.
* **Reporting**: pages, JSON, the doctor's diagnosis, `probe`, status texts, the gateway's history.
* **Drawing random swarms** in `sim/`, its presets and reports: TLC takes every choice. Sampling
  probabilities: a check that may happen may happen in the model.
* **Measurements of real networks** (`tools/churn_test.py`, the Colab scripts,
  `measure_dht_reliability.py`, `fetch_asn_table.py`): they keep no state of the system.

Of the plan this development followed, what would come next: Gossip feeding Aggregate in one specification, rather than each
taking the other's result as given; and several clients whose verdicts reach one another through
both.
