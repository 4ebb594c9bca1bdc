---------------------------- MODULE GossipProofs ----------------------------
(***************************************************************************)
(* Gossip for any set of observers, any clocks, any lifetimes and any      *)
(* number of processes.  Two facts carry the safety results: within one    *)
(* process of an observer epochs and true ages rise together (Provenance), *)
(* and the two memories of the reader agree on what the newest batch is    *)
(* (Memory).                                                               *)
(***************************************************************************)
EXTENDS Gossip, TLAPS

\* What a stored batch says about the process that signed it.
Recorded(b) ==
    /\ b.session <= session[b.observer]
    /\ b.serial <= signed[b.observer]
    /\ b.session = session[b.observer] => b.epoch <= epoch[b.observer]

InOrder(b, c) ==
    (b.observer = c.observer /\ b.session = c.session /\ b.epoch > c.epoch)
        => b.serial > c.serial

Provenance ==
    /\ \A b \in stored : Recorded(b)
    /\ \A b, c \in stored : InOrder(b, c)

\* EpochStore remembers the last accepted batch, and the aggregator holds that
\* batch or none.
Remembers(o) ==
    /\ heard[o] # NoBatch =>
        /\ heard[o] \in stored
        /\ heard[o].observer = o
        /\ highest[o] = heard[o].epoch
    /\ heard[o] = NoBatch => highest[o] = -1
    /\ batches[o] \in {NoBatch, heard[o]}

Memory == \A o \in Observers : Remembers(o)

Safe == TypeOK /\ Provenance /\ Memory /\ VoteIsBounded

-----------------------------------------------------------------------------
(* Types. *)

LEMMA SignedType ==
    ASSUME TypeOK, NEW o \in Observers
    PROVE  /\ Signed(o) \in Batch
           /\ Slot(Signed(o)) \in Slots
BY ObserversAssumption, TimesAssumption DEF TypeOK, Signed, Batch, Slot, Slots

LEMMA IngestedType ==
    ASSUME TypeOK, NEW b \in inbox
    PROVE  Ingested(b) \in [Observers -> Batch \cup {NoBatch}]
BY DEF TypeOK, Ingested, Batch

LEMMA TypeInit == Init => TypeOK
<1> SUFFICES ASSUME Init PROVE TypeOK
    OBVIOUS
<1>1. session \in [Observers -> 1 .. MaxSessions]
    BY BoundsAssumption DEF Init
<1>2. stored \subseteq Batch /\ inbox \subseteq stored /\ inbox = {}
    BY DEF Init
<1>3. directory \in [Slots -> Int]
    <2>1. -1 \in Int
        OBVIOUS
    <2>. QED
        BY <2>1 DEF Init
<1>4. /\ batches \in [Observers -> Batch \cup {NoBatch}]
      /\ heard \in [Observers -> Batch \cup {NoBatch}]
    BY DEF Init
<1>5. highest \in [Observers -> Int]
    <2>1. -1 \in Int
        OBVIOUS
    <2>. QED
        BY <2>1 DEF Init
<1>6. /\ now \in Nat
      /\ epoch \in [Observers -> Nat]
      /\ signed \in [Observers -> Nat]
    BY DEF Init
<1>7. reading \in BOOLEAN
    BY DEF Init
<1>. QED
    BY <1>1, <1>2, <1>3, <1>4, <1>5, <1>6, <1>7 DEF TypeOK

LEMMA ProcessType ==
    ASSUME TypeOK, NEW o \in Observers, NewProcess(o)
    PROVE  /\ session' \in [Observers -> 1 .. MaxSessions]
           /\ epoch' \in [Observers -> Nat]
<1>1. session[o] + 1 \in 1 .. MaxSessions
    BY BoundsAssumption DEF TypeOK, NewProcess
<1>. QED
    BY <1>1 DEF TypeOK, NewProcess

LEMMA TypeNext == TypeOK /\ [Next]_vars => TypeOK'
<1> SUFFICES ASSUME TypeOK, [Next]_vars
             PROVE  TypeOK'
    OBVIOUS
<1>1. ASSUME NEW o \in Observers, Publish(o) PROVE TypeOK'
    <2>1. Signed(o) \in Batch /\ Slot(Signed(o)) \in Slots
        BY SignedType
    <2>2. Signed(o).expires \in Int
        BY <2>1 DEF Batch
    <2>3. stored' \subseteq Batch /\ stored \subseteq stored'
        BY <1>1, <2>1 DEF Publish, TypeOK
    <2>4. directory' \in [Slots -> Int]
        BY <1>1, <2>1, <2>2 DEF Publish, TypeOK
    <2>. QED
        BY <1>1, <2>3, <2>4 DEF Publish, TypeOK, memory
<1>2. ASSUME NEW o \in Observers, RestartOther(o) PROVE TypeOK'
    <2>1. NewProcess(o)
        BY <1>2 DEF RestartOther
    <2>2. /\ session' \in [Observers -> 1 .. MaxSessions]
          /\ epoch' \in [Observers -> Nat]
        BY <2>1, ProcessType
    <2>. QED
        BY <1>2, <2>2 DEF RestartOther, NewProcess, TypeOK, memory
<1>3. CASE BeginRound
    BY <1>3 DEF BeginRound, Answers, TypeOK, network
<1>4. ASSUME NEW b \in inbox, Accept(b) PROVE TypeOK'
    <2>1. batches' \in [Observers -> Batch \cup {NoBatch}]
        BY <1>4, IngestedType DEF Accept
    <2>2. b \in Batch /\ b.observer \in Observers /\ b.epoch \in Int
        BY DEF TypeOK, Batch
    <2>. QED
        BY <1>4, <2>1, <2>2 DEF Accept, TypeOK, network
<1>5. ASSUME NEW b \in inbox, Refuse(b) PROVE TypeOK'
    BY <1>5 DEF Refuse, TypeOK, network
<1>6. CASE EndRound
    BY <1>6 DEF EndRound, TypeOK, network
<1>7. CASE RestartReader
    <2>1. NewProcess(Reader)
        BY <1>7 DEF RestartReader
    <2>2. /\ session' \in [Observers -> 1 .. MaxSessions]
          /\ epoch' \in [Observers -> Nat]
        BY <2>1, ProcessType, ObserversAssumption
    <2>3. /\ highest' \in [Observers -> Int]
          /\ batches' \in [Observers -> Batch \cup {NoBatch}]
          /\ heard' \in [Observers -> Batch \cup {NoBatch}]
        BY <1>7 DEF RestartReader
    <2>. QED
        BY <1>7, <2>2, <2>3 DEF RestartReader, NewProcess, TypeOK
<1>8. CASE Tick
    BY <1>8 DEF Tick, TypeOK, network, memory
<1>9. CASE UNCHANGED vars
    BY <1>9 DEF vars, TypeOK, network, memory
<1>. QED
    BY <1>1, <1>2, <1>3, <1>4, <1>5, <1>6, <1>7, <1>8, <1>9 DEF Next

\* Every variable keeps its type; in particular the reader verifies only records the
\* DHT held, and only while a round is open.
THEOREM TypeCorrect == Spec => []TypeOK
BY TypeInit, TypeNext, PTL DEF Spec

-----------------------------------------------------------------------------
(* Epochs and ages. *)

LEMMA ProvenanceInit == Init => Provenance
BY DEF Init, Provenance

LEMMA ProvenanceNext == TypeOK /\ Provenance /\ [Next]_vars => Provenance'
<1> SUFFICES ASSUME TypeOK, Provenance, [Next]_vars
             PROVE  Provenance'
    OBVIOUS
<1>1. ASSUME NEW o \in Observers, Publish(o) PROVE Provenance'
    <2> PICK d : d = Signed(o)
        OBVIOUS
    <2>1. /\ stored' \subseteq stored \cup {d}
          /\ session' = session
          /\ epoch' = [epoch EXCEPT ![o] = @ + 1]
          /\ signed' = [signed EXCEPT ![o] = @ + 1]
        BY <1>1 DEF Publish
    <2>2. ASSUME NEW b \in stored PROVE Recorded(b)'
        BY <2>1 DEF Provenance, Recorded, TypeOK, Batch
    <2>3. Recorded(d)'
        BY <2>1 DEF Recorded, Signed, TypeOK
    <2>4. ASSUME NEW b \in stored PROVE InOrder(b, d) /\ InOrder(d, b)
        BY DEF Provenance, Recorded, InOrder, Signed, TypeOK, Batch
    <2>5. InOrder(d, d)
        BY DEF InOrder, Signed, TypeOK
    <2>6. ASSUME NEW b \in stored', NEW c \in stored' PROVE InOrder(b, c)
        BY <2>1, <2>4, <2>5 DEF Provenance
    <2>7. ASSUME NEW b \in stored' PROVE Recorded(b)'
        BY <2>1, <2>2, <2>3
    <2>. QED
        BY <2>6, <2>7 DEF Provenance, InOrder
<1>2. ASSUME NEW o \in Observers, NewProcess(o) PROVE Provenance'
    BY <1>2 DEF NewProcess, Provenance, Recorded, InOrder, TypeOK, Batch
<1>3. CASE UNCHANGED network
    BY <1>3 DEF network, Provenance, Recorded, InOrder
<1>. QED
    BY <1>1, <1>2, <1>3, ObserversAssumption
    DEF Next, RestartOther, BeginRound, Accept, Refuse, EndRound, RestartReader,
        Tick, vars, network

-----------------------------------------------------------------------------
(* The reader's memory. *)

\* A batch that EpochStore lets pass is always the one the aggregator keeps.
LEMMA AcceptedIsKept ==
    ASSUME TypeOK, Memory, NEW b \in inbox, Accept(b)
    PROVE  batches' = [batches EXCEPT ![b.observer] = b]
<1>1. b \in Batch /\ b.observer \in Observers
    BY DEF TypeOK, Batch
<1>2. Remembers(b.observer)
    BY <1>1 DEF Memory
<1>3. \/ batches[b.observer] = NoBatch
      \/ b.epoch > batches[b.observer].epoch
    BY <1>2 DEF Remembers, Accept, Fresh
<1>. QED
    BY <1>3 DEF Accept, Ingested

LEMMA MemoryInit == Init => Memory
BY DEF Init, Memory, Remembers

LEMMA MemoryNext == TypeOK /\ Memory /\ [Next]_vars => Memory'
<1> SUFFICES ASSUME TypeOK, Memory, [Next]_vars,
                    NEW p \in Observers
             PROVE  Remembers(p)'
    BY DEF Memory
<1>0. Remembers(p)
    BY DEF Memory
<1>1. ASSUME stored \subseteq stored', highest' = highest,
             heard' = heard, batches' = batches
      PROVE  Remembers(p)'
    BY <1>0, <1>1 DEF Remembers
<1>2. ASSUME NEW b \in inbox, Accept(b) PROVE Remembers(p)'
    <2>1. /\ b \in stored
          /\ b \in Batch
          /\ b.observer \in Observers
        BY DEF TypeOK, Batch
    <2>2. /\ batches' = [batches EXCEPT ![b.observer] = b]
          /\ highest' = [highest EXCEPT ![b.observer] = b.epoch]
          /\ heard' = [heard EXCEPT ![b.observer] = b]
          /\ stored' = stored
        BY <1>2, AcceptedIsKept DEF Accept, network
    <2>3. CASE p = b.observer
        <3>1. batches'[p] = b /\ highest'[p] = b.epoch /\ heard'[p] = b
            BY <2>1, <2>2, <2>3 DEF TypeOK
        <3>2. b # NoBatch
            BY <2>1, ObserversAssumption
        <3>. QED
            BY <2>1, <2>2, <2>3, <3>1, <3>2 DEF Remembers
    <2>4. CASE p # b.observer
        BY <1>0, <2>2, <2>4 DEF Remembers, TypeOK
    <2>. QED
        BY <2>3, <2>4
<1>3. CASE EndRound
    BY <1>0, <1>3 DEF EndRound, Remembers, network
<1>4. CASE RestartReader
    BY <1>4 DEF RestartReader, NewProcess, Remembers
<1>. QED
    BY <1>1, <1>2, <1>3, <1>4
    DEF Next, Publish, RestartOther, NewProcess, BeginRound, Refuse, Tick,
        vars, network, memory

-----------------------------------------------------------------------------
(* How long a vote lasts. *)

LEMMA BoundedInit == Init => VoteIsBounded
BY DEF Init, VoteIsBounded, Votes

LEMMA BoundedNext ==
    TypeOK /\ Memory /\ VoteIsBounded /\ [Next]_vars => VoteIsBounded'
<1> SUFFICES ASSUME TypeOK, Memory, VoteIsBounded, [Next]_vars,
                    NEW p \in Observers, batches'[p] # NoBatch
             PROVE  batches'[p].expires <= now' + MaxTtl + MaxSkew
    BY DEF VoteIsBounded, Votes
<1>1. batches[p] # NoBatch => batches[p].expires <= now + MaxTtl + MaxSkew
    BY DEF VoteIsBounded, Votes
<1>2. batches[p] # NoBatch => batches[p].expires \in Int
    BY DEF TypeOK, Batch
<1>3. now \in Nat /\ now' \in Nat /\ now' >= now
    BY DEF TypeOK, Next, Publish, RestartOther, NewProcess, BeginRound, Accept,
           Refuse, EndRound, RestartReader, Tick, vars
<1>4. CASE batches'[p] = batches[p]
    BY <1>1, <1>2, <1>3, <1>4, TimesAssumption
<1>5. ASSUME NEW b \in inbox, Accept(b)
      PROVE  batches'[p].expires <= now' + MaxTtl + MaxSkew
    <2>1. b \in Batch /\ b.issued \in Int /\ b.expires \in Int
        BY DEF TypeOK, Batch
    <2>2. b.expires <= now + MaxTtl + MaxSkew
        BY <1>5, <2>1, TimesAssumption DEF Accept, Valid, TypeOK
    <2>3. batches' = [batches EXCEPT ![b.observer] = b] /\ now' = now
        BY <1>5, AcceptedIsKept DEF Accept
    <2>4. batches'[p] = batches[p] \/ batches'[p] = b
        BY <2>3 DEF TypeOK
    <2>. QED
        BY <1>4, <2>2, <2>3, <2>4
<1>6. CASE EndRound
    BY <1>4, <1>6 DEF EndRound
<1>7. CASE RestartReader
    BY <1>7 DEF RestartReader
<1>. QED
    BY <1>4, <1>5, <1>6, <1>7
    DEF Next, Publish, RestartOther, BeginRound, Refuse, Tick, vars, memory

-----------------------------------------------------------------------------
(* The theorems. *)

LEMMA SafeAlways == Spec => []Safe
<1>1. Init => Safe
    BY TypeInit, ProvenanceInit, MemoryInit, BoundedInit DEF Safe
<1>2. Safe /\ [Next]_vars => Safe'
    BY TypeNext, ProvenanceNext, MemoryNext, BoundedNext DEF Safe
<1>. QED
    BY <1>1, <1>2, PTL DEF Spec

\* Whatever its author's clock says, no ingested batch outlives MaxTtl + MaxSkew.
THEOREM VoteLifetime == Spec => []VoteIsBounded
BY SafeAlways, PTL DEF Safe

LEMMA InSessionStep ==
    Safe /\ [Next]_vars =>
        [\A b \in inbox :
            (Accept(b) /\ heard[b.observer] # NoBatch
                       /\ heard[b.observer].session = b.session)
                => b.serial > heard[b.observer].serial]_vars
<1> SUFFICES ASSUME Safe, NEW b \in inbox, Accept(b),
                    heard[b.observer] # NoBatch,
                    heard[b.observer].session = b.session
             PROVE  b.serial > heard[b.observer].serial
    OBVIOUS
<1>1. b \in stored /\ b.observer \in Observers
    BY DEF Safe, TypeOK, Batch
<1>2. /\ heard[b.observer] \in stored
      /\ heard[b.observer].observer = b.observer
      /\ highest[b.observer] = heard[b.observer].epoch
    BY <1>1 DEF Safe, Memory, Remembers
<1>3. InOrder(b, heard[b.observer])
    BY <1>1, <1>2 DEF Safe, Provenance
<1>. QED
    BY <1>2, <1>3 DEF InOrder, Accept, Fresh

\* Replayed and reordered copies never take the reader back within one process of
\* their author.
THEOREM NewestWins == Spec => NoRollbackInSession
BY SafeAlways, InSessionStep, PTL DEF NoRollbackInSession, Spec

-----------------------------------------------------------------------------
(* Gossip implements Hearsay. *)

LEMMA PromiseInit == Init => Promise!Init
BY DEF Init, Promise!Init, Promise!Silent

LEMMA PromiseNext ==
    Safe /\ [Next]_vars =>
        [Promise!Next]_<<[o \in Observers |->
                            IF batches[o] = NoBatch THEN -1 ELSE batches[o].epoch],
                         highest>>
<1> DEFINE vote == [o \in Observers |->
                        IF batches[o] = NoBatch THEN -1 ELSE batches[o].epoch]
<1> SUFFICES ASSUME Safe, [Next]_vars
             PROVE  Promise!Next \/ UNCHANGED <<vote, highest>>
    OBVIOUS
<1>1. ASSUME NEW b \in inbox, Accept(b) PROVE Promise!Next
    <2>1. b \in Batch /\ b.observer \in Observers
        BY DEF Safe, TypeOK, Batch
    <2>2. batches' = [batches EXCEPT ![b.observer] = b]
        BY <1>1, AcceptedIsKept DEF Safe
    <2>3. highest' = [highest EXCEPT ![b.observer] = b.epoch]
        BY <1>1 DEF Accept
    <2>4. highest'[b.observer] = b.epoch
        BY <2>1, <2>3 DEF Safe, TypeOK
    <2>5. highest'[b.observer] > highest[b.observer]
        BY <1>1, <2>4 DEF Accept, Fresh
    <2>6. b # NoBatch
        BY <2>1, ObserversAssumption
    <2>7. vote' = [vote EXCEPT ![b.observer] = b.epoch]
        BY <2>1, <2>2, <2>6 DEF Safe, TypeOK
    <2>8. Promise!Hear(b.observer)
        BY <2>3, <2>4, <2>5, <2>7 DEF Promise!Hear
    <2>. QED
        BY <2>1, <2>8 DEF Promise!Next
<1>2. CASE EndRound
    <2> PICK gone : gone = {o \in Observers : batches[o] # NoBatch /\ Expired(batches[o])}
        OBVIOUS
    <2>1. gone \in SUBSET Observers
        OBVIOUS
    <2>2. vote' = [o \in Observers |-> IF o \in gone THEN -1 ELSE vote[o]]
        BY <1>2 DEF EndRound
    <2>3. Promise!Lapse(gone)
        BY <1>2, <2>2 DEF EndRound, Promise!Lapse, Promise!Silent
    <2>. QED
        BY <2>1, <2>3 DEF Promise!Next
<1>3. CASE RestartReader
    BY <1>3 DEF RestartReader, Promise!Next, Promise!Forget, Promise!Silent
<1>. QED
    BY <1>1, <1>2, <1>3
    DEF Next, Publish, RestartOther, BeginRound, Refuse, Tick, vars, memory

\* The machinery of epochs, expiry and restarts keeps the promise of one vote per
\* observer that only moves forward.
THEOREM Implements == Spec => OneVotePerObserver
BY SafeAlways, PromiseInit, PromiseNext, PTL DEF OneVotePerObserver, Promise!Spec, Spec

=============================================================================
