------------------------------- MODULE Gossip -------------------------------
(***************************************************************************)
(* ReputationGossip (reputation/gossip.py) with the records it carries     *)
(* (reputation/records.py), the DHT it carries them over                   *)
(* (reputation/dht.py) and the memory of the reader (EpochStore and the    *)
(* batches of ReputationAggregator).                                       *)
(*                                                                         *)
(* Every observer publishes; one of them, Reader, is also watched reading. *)
(* An observer's signing identity is kept on disk, while its DHT identity  *)
(* is that of a client-mode DHT node and new in every process: a session   *)
(* has a DHT slot of its own, and its epochs start again from 1.           *)
(*                                                                         *)
(* What a batch says about its subjects is left out.  A record whose       *)
(* signature does not check, or that is no record at all, is refused       *)
(* without a trace: to the reader it is a slot that returned nothing.      *)
(***************************************************************************)
EXTENDS Integers, FiniteSets

CONSTANTS
    Observers,    \* signing identities that publish
    Reader,       \* the one whose memory is modelled
    NoBatch,      \* no batch from this observer
    Skew,         \* [Observers -> Int]: their clocks against the reader's
    Ttl,          \* ReputationGossip.ttl_s
    MaxTtl,       \* MAX_TTL_S
    MaxSkew,      \* MAX_CLOCK_SKEW_S
    MaxSessions,  \* bound: processes an observer is run in
    MaxSigned,    \* bound: batches an observer signs
    MaxTime       \* bound: how far the clock runs

Batch == [observer: Observers, session: Nat, epoch: Nat, serial: Nat,
          issued: Int, expires: Int]

ASSUME ObserversAssumption ==
    /\ Reader \in Observers
    /\ Skew \in [Observers -> Int]
    /\ Skew[Reader] = 0
    /\ NoBatch \notin Batch
ASSUME TimesAssumption ==
    /\ Ttl \in Nat \ {0}
    /\ MaxTtl \in Nat
    /\ Ttl <= MaxTtl      \* build_batch refuses any other
    /\ MaxSkew \in Nat
ASSUME BoundsAssumption == MaxSessions \in Nat \ {0}

Slots == Observers \X (1 .. MaxSessions)

VARIABLES
    now,        \* the reader's clock
    session,    \* which process each observer is running in
    epoch,      \* ReputationGossip._epoch of that process
    signed,     \* history: batches each observer ever signed
    stored,     \* DHT: the batches that some node holds and may still serve
    directory,  \* DHT: until when each slot is advertised; -1 is never
    highest,    \* EpochStore._highest; -1 is absent
    batches,    \* ReputationAggregator._batches
    reading,    \* the reader is between fetch_fn and drop_expired
    inbox,      \* records fetched and not yet verified
    heard       \* history: the last batch the reader accepted in this process

network == <<session, epoch, signed, stored, directory>>
memory == <<highest, batches, reading, inbox, heard>>
vars == <<now, network, memory>>

TypeOK ==
    /\ now \in Nat
    /\ session \in [Observers -> 1 .. MaxSessions]
    /\ epoch \in [Observers -> Nat]
    /\ signed \in [Observers -> Nat]
    /\ stored \subseteq Batch
    /\ directory \in [Slots -> Int]
    /\ highest \in [Observers -> Int]
    /\ batches \in [Observers -> Batch \cup {NoBatch}]
    /\ reading \in BOOLEAN
    /\ inbox \subseteq stored
    /\ inbox # {} => reading
    /\ heard \in [Observers -> Batch \cup {NoBatch}]

-----------------------------------------------------------------------------
(* Publishing. *)

Slot(b) == <<b.observer, b.session>>

\* build_batch, by the observer's own clock.  serial is not in the record: it
\* is the true age of the observation.
Signed(o) ==
    [observer |-> o, session |-> session[o],
     epoch |-> epoch[o] + 1, serial |-> signed[o] + 1,
     issued |-> now + Skew[o], expires |-> now + Skew[o] + Ttl]

\* The record is built once and its store tried PUBLISH_ATTEMPTS times; it may
\* land without the DHT saying so.  Only a store that reported success is followed by
\* announce_self, and that store may be lost as well.
Publish(o) ==
    /\ signed[o] < MaxSigned
    /\ epoch' = [epoch EXCEPT ![o] = @ + 1]
    /\ signed' = [signed EXCEPT ![o] = @ + 1]
    /\ \/ UNCHANGED <<stored, directory>>
       \/ /\ stored' = stored \cup {Signed(o)}
          /\ directory' \in
                {directory, [directory EXCEPT ![Slot(Signed(o))] = Signed(o).expires]}
    /\ UNCHANGED <<now, session, memory>>

-----------------------------------------------------------------------------
(* Reading. *)

\* known_observers, less the reader's own slot.
Advertised ==
    {s \in Slots : directory[s] >= now} \ {<<Reader, session[Reader]>>}

\* A get with latest=False answers with whatever copy some node holds, or with
\* nothing; it never answers twice for a slot.
Answers ==
    {got \in SUBSET {b \in stored : Slot(b) \in Advertised} :
        \A b, c \in got : Slot(b) = Slot(c) => b = c}

\* fetch() past its early return: with no observer to ask, nothing happens.
BeginRound ==
    /\ ~reading
    /\ Advertised # {}
    /\ inbox' \in Answers
    /\ reading' = TRUE
    /\ UNCHANGED <<now, network, highest, batches, heard>>

\* Mutant: issued_at is taken on trust.
MutTrustsIssuedAt(b) ==
    /\ b.expires > b.issued
    /\ b.expires - b.issued <= MaxTtl
    /\ now <= b.expires

\* The time checks of verify_batch.
Valid(b) ==
    /\ b.expires > b.issued
    /\ b.expires - b.issued <= MaxTtl
    /\ b.issued <= now + MaxSkew
    /\ now <= b.expires

\* Mutant: only the record just seen counts as a replay.
MutFresh(b) == b.epoch # highest[b.observer]

\* EpochStore.check_and_update passes.
Fresh(b) == b.epoch > highest[b.observer]

\* ReputationAggregator.ingest
Ingested(b) ==
    LET existing == batches[b.observer] IN
    IF existing = NoBatch \/ b.epoch > existing.epoch
    THEN [batches EXCEPT ![b.observer] = b]
    ELSE batches

\* The epoch is bumped only once everything else has passed.
Accept(b) ==
    /\ b \in inbox
    /\ Valid(b)
    /\ Fresh(b)
    /\ highest' = [highest EXCEPT ![b.observer] = b.epoch]
    /\ batches' = Ingested(b)
    /\ heard' = [heard EXCEPT ![b.observer] = b]
    /\ inbox' = inbox \ {b}
    /\ UNCHANGED <<now, network, reading>>

\* Mutant: the epoch is checked and bumped before the time checks.
MutRefuse(b) ==
    /\ b \in inbox
    /\ ~(Valid(b) /\ Fresh(b))
    /\ highest' = [highest EXCEPT ![b.observer] = IF Fresh(b) THEN b.epoch ELSE @]
    /\ inbox' = inbox \ {b}
    /\ UNCHANGED <<now, network, batches, reading, heard>>

\* RecordError or UnchangedRecord: counted and dropped, never partially applied.
Refuse(b) ==
    /\ b \in inbox
    /\ ~(Valid(b) /\ Fresh(b))
    /\ inbox' = inbox \ {b}
    /\ UNCHANGED <<now, network, highest, batches, reading, heard>>

Expired(b) == now > b.expires

\* drop_expired
EndRound ==
    /\ reading
    /\ inbox = {}
    /\ batches' = [o \in Observers |->
                    IF batches[o] # NoBatch /\ Expired(batches[o])
                    THEN NoBatch ELSE batches[o]]
    /\ reading' = FALSE
    /\ UNCHANGED <<now, network, highest, inbox, heard>>

-----------------------------------------------------------------------------
(* Time and processes. *)

Tick ==
    /\ now < MaxTime
    /\ now' = now + 1
    /\ UNCHANGED <<network, memory>>

NewProcess(o) ==
    /\ session[o] < MaxSessions
    /\ session' = [session EXCEPT ![o] = @ + 1]
    /\ epoch' = [epoch EXCEPT ![o] = 0]
    /\ UNCHANGED <<now, signed, stored, directory>>

RestartOther(o) ==
    /\ o # Reader
    /\ NewProcess(o)
    /\ UNCHANGED memory

\* Neither the epochs nor the batches are persisted.
RestartReader ==
    /\ NewProcess(Reader)
    /\ highest' = [o \in Observers |-> -1]
    /\ batches' = [o \in Observers |-> NoBatch]
    /\ heard' = [o \in Observers |-> NoBatch]
    /\ reading' = FALSE
    /\ inbox' = {}

Init ==
    /\ now = 0
    /\ session = [o \in Observers |-> 1]
    /\ epoch = [o \in Observers |-> 0]
    /\ signed = [o \in Observers |-> 0]
    /\ stored = {}
    /\ directory = [s \in Slots |-> -1]
    /\ highest = [o \in Observers |-> -1]
    /\ batches = [o \in Observers |-> NoBatch]
    /\ reading = FALSE
    /\ inbox = {}
    /\ heard = [o \in Observers |-> NoBatch]

Next ==
    \/ \E o \in Observers : Publish(o) \/ RestartOther(o)
    \/ BeginRound
    \/ \E b \in inbox : Accept(b) \/ Refuse(b)
    \/ EndRound
    \/ RestartReader
    \/ Tick

Spec == Init /\ [][Next]_vars

\* Time passes, and prompts keep being answered: due rounds are made and run to
\* their end.
\* Nobody has to publish, and a get may fail every time.
FairSpec ==
    /\ Spec
    /\ WF_vars(Tick)
    /\ WF_vars(BeginRound)
    /\ WF_vars(\E b \in inbox : Accept(b) \/ Refuse(b))
    /\ WF_vars(EndRound)

-----------------------------------------------------------------------------
(* Properties. *)

Votes == {batches[o] : o \in Observers} \ {NoBatch}

Promise == INSTANCE Hearsay WITH
    vote <- [o \in Observers |->
                IF batches[o] = NoBatch THEN -1 ELSE batches[o].epoch],
    floor <- highest

\* Whatever copies the DHT serves, in whatever order and however often, the reader's
\* memory behaves as one vote per observer that only moves forward: EpochStore and
\* the aggregator never disagree about which batch is the newest.
OneVotePerObserver == Promise!Spec

\* Epochs do order what one process of an observer said: the reader never replaces a
\* batch by an older one of the same process.
NoRollbackInSession ==
    [][\A b \in inbox :
        (Accept(b) /\ heard[b.observer] # NoBatch
                   /\ heard[b.observer].session = b.session)
            => b.serial > heard[b.observer].serial]_vars

\* A batch is never ingested with more than MaxTtl + MaxSkew left to live, whatever
\* its author's clock says.
VoteIsBounded ==
    \A b \in Votes : b.expires <= now + MaxTtl + MaxSkew

\* "monotonic per-observer epoch, so an old favourable batch cannot be replayed to
\* overwrite a newer unfavourable one": across the author's processes as well.
NoRollback ==
    [][\A b \in inbox :
        (Accept(b) /\ heard[b.observer] # NoBatch)
            => b.serial > heard[b.observer].serial]_vars

=============================================================================
