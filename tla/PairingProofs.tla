--------------------------- MODULE PairingProofs ---------------------------
(***************************************************************************)
(* Proofs about Pairing, for every swarm, relay and address book.          *)
(*                                                                         *)
(* The argument: every address the client remembers is one of the server's *)
(* own, because circuit addresses are dropped before anything is kept;     *)
(* what ClusterIndex holds for a peer is one of its own networks or        *)
(* Unknown, and is never replaced; so each recorded pair was, and still    *)
(* is, filed under two different networks of the two servers themselves.   *)
(* Whoever is filed has been seen, and sightings stay too: what is left to *)
(* part two filed servers is the client's own age.                         *)
(***************************************************************************)
EXTENDS Pairing, TLAPS

\* What is known of a server's whereabouts is true of it.
Own(p) == Reach[p] \cup {NoAddress}

Placed ==
    /\ best \in [Peers -> Address]
    /\ located \in [Peers -> Address]
    /\ assigned \in [Peers -> Cluster \cup {Unassigned}]
    /\ servers \subseteq Peers
    /\ pending \in Seq(Step)
    /\ \A p \in Peers : /\ best[p] \in Own(p)
                        /\ located[p] \in Own(p)
                        /\ assigned[p] \in Reach[p] \cup {Unknown, Unassigned}

\* Every pair is filed under what the cluster index still says of its parties.
Filed ==
    /\ pairs \subseteq Pair
    /\ \A pair \in pairs :
        /\ pair.subject_cluster = assigned[pair.subject]
        /\ pair.verifier_cluster = assigned[pair.verifier]
        /\ {pair.subject_cluster, pair.verifier_cluster} \subseteq Networks
        /\ pair.subject_cluster # pair.verifier_cluster

-----------------------------------------------------------------------------
(* Lemmas about the address book and the index. *)

\* Only addresses of the server itself survive the filter.
LEMMA FindableIsOwn ==
    ASSUME NEW p \in Peers
    PROVE  Findable[p] \subseteq Reach[p]
<1>1. \A addrs \in Multiaddrs(p) : Usable(addrs) \subseteq Reach[p]
  BY DEF Multiaddrs, Usable
<1>2. \A addrs \in Multiaddrs(p) : Preferred(Usable(addrs)) \subseteq Reach[p]
  BY <1>1 DEF Preferred
<1> QED BY <1>2 DEF Findable

\* assign() answers with one of the peer's own networks or Unknown, and with what it
\* answered before.
LEMMA AssignIsOwn ==
    ASSUME Placed, NEW p \in Peers
    PROVE  /\ Assign(p) \in Reach[p] \cup {Unknown}
           /\ assigned[p] # Unassigned => Assign(p) = assigned[p]
  BY DEF Placed, Assign, Own

LEMMA ReachIsNetworks ==
    ASSUME NEW p \in Peers
    PROVE  Reach[p] \subseteq Networks
  BY NetworksAssumption

\* The index never forgets and never changes its mind.
LEMMA MemoisedKeeps ==
    ASSUME Placed, NEW step, NEW quarantined, assigned' = Memoised(step, quarantined)
    PROVE  /\ assigned' \in [Peers -> Cluster \cup {Unassigned}]
           /\ \A p \in Peers :
                /\ assigned'[p] \in Reach[p] \cup {Unknown, Unassigned}
                /\ assigned[p] # Unassigned => assigned'[p] = assigned[p]
<1>1. \A p \in Peers : assigned'[p] = Assign(p) \/ assigned'[p] = assigned[p]
  BY DEF Memoised
<1>2. \A p \in Peers : assigned'[p] \in Reach[p] \cup {Unknown, Unassigned}
  BY <1>1, AssignIsOwn DEF Placed
<1>3. \A p \in Peers : assigned[p] # Unassigned => assigned'[p] = assigned[p]
  BY <1>1, AssignIsOwn
<1>4. assigned' = [p \in Peers |-> assigned'[p]]
  BY DEF Memoised
<1>5. assigned' \in [Peers -> Cluster \cup {Unassigned}]
  BY <1>2, <1>4, ReachIsNetworks DEF Cluster
<1> QED BY <1>2, <1>3, <1>5

-----------------------------------------------------------------------------
(* The invariant. *)

LEMMA InitPlaced == Init => Placed /\ Filed
<1> SUFFICES ASSUME Init PROVE Placed /\ Filed
  OBVIOUS
<1>1. Placed
  BY DEF Init, Placed, Nowhere, Own, Address, Cluster
<1>2. Filed
  BY DEF Init, Filed
<1> QED BY <1>1, <1>2

LEMMA NextPlaced == Placed /\ [Next]_vars => Placed'
<1> SUFFICES ASSUME Placed, [Next]_vars PROVE Placed'
  OBVIOUS
<1>1. ASSUME NEW p \in Peers, NEW needed \in Runs(p), Capture(p, needed)
      PROVE  Placed'
  <2>1. [subject |-> p, needed |-> needed] \in Step
    BY HostsAssumption DEF Step, Runs
  <2>2. pending' \in Seq(Step)
    BY <1>1, <2>1 DEF Capture, Placed
  <2> QED BY <1>1, <2>2 DEF Capture, Placed, view, round
<1>2. ASSUME NEW online \in SUBSET Peers, BeginReplay(online) PROVE Placed'
  <2>1. /\ servers' \subseteq Peers /\ pending' = pending /\ assigned' = assigned
    BY <1>2 DEF BeginReplay
  <2>2. ASSUME NEW book \in AddressBooks
        PROVE  book \in [Peers -> Address] /\ \A p \in Peers : book[p] \in Own(p)
    BY FindableIsOwn DEF AddressBooks, Placed, Own
  <2>3. /\ Nowhere \in [Peers -> Address]
        /\ \A p \in Peers : Nowhere[p] \in Own(p)
    BY DEF Nowhere, Address, Own
  <2>4. /\ best' \in [Peers -> Address] /\ located' \in [Peers -> Address]
        /\ \A p \in Peers : best'[p] \in Own(p) /\ located'[p] \in Own(p)
    <3>1. CASE best' \in AddressBooks /\ located' = best'
      BY <2>2, <3>1
    <3>2. CASE best' = best /\ located' = Nowhere
      BY <2>3, <3>2 DEF Placed
    <3> QED BY <1>2, <3>1, <3>2 DEF BeginReplay
  <2> QED BY <2>1, <2>4 DEF Placed, Own
<1>3. ASSUME Pop PROVE pending' \in Seq(Step)
  BY <1>3 DEF Pop, Placed
<1>4. CASE PassOver
  BY <1>3, <1>4 DEF PassOver, Placed, view, round, Own
<1>5. ASSUME NEW quarantined, NoVerifier(quarantined) PROVE Placed'
  BY <1>3, <1>5, MemoisedKeeps DEF NoVerifier, Placed, view, round, Own
<1>6. ASSUME NEW quarantined, NEW v \in Peers, Replay(v, quarantined) PROVE Placed'
  <2>1. /\ servers' = {} /\ located' = Nowhere /\ UNCHANGED view
        /\ pending' \in Seq(Step)
        /\ assigned' = Memoised(Head(pending), quarantined)
    BY <1>3, <1>6 DEF Replay, EndRound
  <2>2. \A p \in Peers : Nowhere[p] \in Own(p)
    BY DEF Nowhere, Own
  <2>3. Nowhere \in [Peers -> Address]
    BY DEF Nowhere, Address
  <2> QED BY <2>1, <2>2, <2>3, MemoisedKeeps DEF Placed, view, Own
<1>7. CASE OutOfSteps
  <2>1. \A p \in Peers : Nowhere[p] \in Own(p)
    BY DEF Nowhere, Own
  <2>2. Nowhere \in [Peers -> Address]
    BY DEF Nowhere, Address
  <2> QED BY <1>7, <2>1, <2>2 DEF OutOfSteps, EndRound, Placed, view, Own
<1>8. CASE DiscoveryFails
  BY <1>8 DEF DiscoveryFails, Placed, view, round, Own
<1>9. CASE Tick
  BY <1>9 DEF Tick, Placed, view, round, Own
<1>10. CASE UNCHANGED vars
  BY <1>10 DEF vars, Placed, view, round, Own
<1> QED
  BY <1>1, <1>2, <1>4, <1>5, <1>6, <1>7, <1>8, <1>9, <1>10 DEF Next, Replaying

\* Where no pair is added, the index's constancy keeps the recorded ones filed.
LEMMA StillFiled ==
    ASSUME Placed, Filed, pairs' = pairs,
           \A p \in Peers : assigned[p] # Unassigned => assigned'[p] = assigned[p]
    PROVE  Filed'
  BY NetworksAssumption DEF Filed, Pair

LEMMA NextFiled == Placed /\ Filed /\ [Next]_vars => Filed'
<1> SUFFICES ASSUME Placed, Filed, [Next]_vars PROVE Filed'
  OBVIOUS
<1>1. ASSUME NEW quarantined, NoVerifier(quarantined) PROVE Filed'
  BY <1>1, MemoisedKeeps, StillFiled DEF NoVerifier
<1>2. ASSUME NEW quarantined, NEW v \in Peers, Replay(v, quarantined) PROVE Filed'
  <2> DEFINE s == Head(pending).subject
             new == [subject |-> s, verifier |-> v,
                     subject_cluster |-> assigned'[s], verifier_cluster |-> assigned'[v]]
  <2>1. /\ s \in Peers
        /\ v \in EligibleVerifiers(Head(pending), quarantined)
        /\ assigned' = Memoised(Head(pending), quarantined)
        /\ pairs' = pairs \cup {new}
    BY <1>2 DEF Replay, Placed
  <2>2. /\ v \in Considered(Head(pending), quarantined)
        /\ Independent(s, v)
    BY <2>1 DEF EligibleVerifiers
  <2>3. assigned'[s] = Assign(s) /\ assigned'[v] = Assign(v)
    BY <2>1, <2>2 DEF Memoised
  <2>4. /\ {assigned'[s], assigned'[v]} \subseteq Networks
        /\ assigned'[s] # assigned'[v]
    BY <2>1, <2>2, <2>3, AssignIsOwn, ReachIsNetworks DEF Independent
  <2>5. new \in Pair
    BY <2>1, <2>4 DEF Pair, Cluster
  <2>6. \A p \in Peers : assigned[p] # Unassigned => assigned'[p] = assigned[p]
    BY <2>1, MemoisedKeeps
  <2>7. \A pair \in pairs :
          /\ pair.subject_cluster = assigned'[pair.subject]
          /\ pair.verifier_cluster = assigned'[pair.verifier]
    BY <2>6, NetworksAssumption DEF Filed, Pair
  <2> HIDE DEF s
  <2> QED BY <2>1, <2>4, <2>5, <2>7 DEF Filed
<1>3. ASSUME assigned' = assigned, pairs' = pairs PROVE Filed'
  BY <1>3 DEF Filed
<1> QED
  BY <1>1, <1>2, <1>3 DEF Next, Replaying, Capture, BeginReplay, PassOver,
     OutOfSteps, DiscoveryFails, Tick, vars, view, round

\* The rest of TypeOK: ages, sightings and the length of the queue.
Counted ==
    /\ age \in 0 .. MaxAge
    /\ first_seen \in [Peers -> -1 .. MaxAge]
    /\ Len(pending) <= MaxPending
    /\ replaying \in BOOLEAN

LEMMA InitCounted == Init => Counted
<1>1. -1 \in -1 .. MaxAge /\ 0 \in 0 .. MaxAge
  BY LimitsAssumption
<1>2. Len(<<>>) <= MaxPending
  BY LimitsAssumption
<1> QED BY <1>1, <1>2 DEF Init, Counted

LEMMA NextCounted == Placed /\ Counted /\ [Next]_vars => Counted'
<1> SUFFICES ASSUME Placed, Counted, [Next]_vars PROVE Counted'
  OBVIOUS
<1> USE LimitsAssumption DEF Counted
<1>1. ASSUME NEW p \in Peers, NEW needed \in Runs(p), Capture(p, needed)
      PROVE  Counted'
  <2>1. Len(pending') = Len(pending) + 1 /\ Len(pending) < MaxPending
    BY <1>1 DEF Capture, Placed
  <2>2. Len(pending) \in Nat
    BY DEF Placed
  <2> QED BY <1>1, <2>1, <2>2 DEF Capture, view, round
<1>2. ASSUME NEW online \in SUBSET Peers, BeginReplay(online) PROVE Counted'
  BY <1>2 DEF BeginReplay, Sighted
<1>3. ASSUME Pop PROVE Len(pending') <= MaxPending
  <2>1. pending # <<>> /\ pending' = Tail(pending) /\ pending \in Seq(Step)
    BY <1>3 DEF Pop, Placed
  <2> QED BY <2>1
<1>4. CASE PassOver
  BY <1>3, <1>4 DEF PassOver, view, round
<1>5. ASSUME NEW quarantined, NoVerifier(quarantined) PROVE Counted'
  BY <1>3, <1>5 DEF NoVerifier, view, round
<1>6. ASSUME NEW quarantined, NEW v \in Peers, Replay(v, quarantined) PROVE Counted'
  BY <1>3, <1>6 DEF Replay, EndRound, view
<1>7. CASE OutOfSteps
  BY <1>7 DEF OutOfSteps, EndRound, view
<1>8. CASE DiscoveryFails
  BY <1>8 DEF DiscoveryFails, view, round
<1>9. CASE Tick
  BY <1>9 DEF Tick, view, round
<1>10. CASE UNCHANGED vars
  BY <1>10 DEF vars, view, round
<1> QED
  BY <1>1, <1>2, <1>4, <1>5, <1>6, <1>7, <1>8, <1>9, <1>10 DEF Next, Replaying

\* Whom the index has filed, and whom a round looks at, has been seen.
Sighting ==
    /\ \A p \in servers : first_seen[p] # -1
    /\ \A p \in Peers : Settled(p) => first_seen[p] # -1

\* A sighting is kept.
LEMMA SightingsStay ==
    ASSUME Counted, NEW online, NEW p \in Peers
    PROVE  /\ first_seen[p] # -1 => Sighted(online)[p] = first_seen[p]
           /\ p \in online => Sighted(online)[p] # -1
  BY LimitsAssumption DEF Counted, Sighted

\* The index files only the step's server and those that were announced with it.
LEMMA MemoisedAreServers ==
    ASSUME Placed, Sighting, NEW step, NEW quarantined, step.subject \in servers,
           assigned' = Memoised(step, quarantined), first_seen' = first_seen
    PROVE  \A p \in Peers : Settled(p)' => first_seen'[p] # -1
<1> SUFFICES ASSUME NEW p \in Peers, assigned'[p] # Unassigned PROVE first_seen[p] # -1
  BY DEF Settled
<1>1. assigned'[p] = assigned[p] \/ p \in servers
  BY DEF Memoised, Considered
<1> QED BY <1>1 DEF Sighting, Settled

LEMMA InitSighting == Init => Sighting
  BY DEF Init, Sighting, Settled

LEMMA NextSighting == Placed /\ Counted /\ Sighting /\ [Next]_vars => Sighting'
<1> SUFFICES ASSUME Placed, Counted, Sighting, [Next]_vars PROVE Sighting'
  OBVIOUS
<1>1. ASSUME NEW online \in SUBSET Peers, BeginReplay(online) PROVE Sighting'
  <2>1. /\ servers' = online /\ assigned' = assigned
        /\ first_seen' = Sighted(online)
    BY <1>1 DEF BeginReplay
  <2>2. \A p \in Peers : /\ first_seen[p] # -1 => first_seen'[p] = first_seen[p]
                         /\ p \in online => first_seen'[p] # -1
    BY <2>1, SightingsStay
  <2>3. \A p \in servers' : first_seen'[p] # -1
    BY <2>1, <2>2
  <2>4. \A p \in Peers : Settled(p)' => first_seen'[p] # -1
    BY <2>1, <2>2 DEF Sighting, Settled
  <2> QED BY <2>3, <2>4 DEF Sighting
<1>2. ASSUME NEW quarantined, NoVerifier(quarantined) PROVE Sighting'
  <2>1. /\ Head(pending).subject \in servers /\ servers' = servers
        /\ assigned' = Memoised(Head(pending), quarantined)
        /\ first_seen' = first_seen
    BY <1>2 DEF NoVerifier, view, round
  <2> QED BY <2>1, MemoisedAreServers DEF Sighting
<1>3. ASSUME NEW quarantined, NEW v \in Peers, Replay(v, quarantined) PROVE Sighting'
  <2>1. /\ Head(pending).subject \in servers /\ servers' = {}
        /\ assigned' = Memoised(Head(pending), quarantined)
        /\ first_seen' = first_seen
    BY <1>3 DEF Replay, EndRound, view
  <2> QED BY <2>1, MemoisedAreServers DEF Sighting
<1>4. ASSUME servers' \subseteq servers, assigned' = assigned, first_seen' = first_seen
      PROVE  Sighting'
  BY <1>4 DEF Sighting, Settled
<1> QED
  BY <1>1, <1>2, <1>3, <1>4 DEF Next, Replaying, Capture, PassOver, OutOfSteps, EndRound,
     DiscoveryFails, Tick, vars, view, round

\* What the index holds of a peer, and when it was first seen, no step changes.
LEMMA FiledForGood ==
    ASSUME Placed, Counted, Sighting, [Next]_vars, NEW p \in Peers, Settled(p)
    PROVE  assigned'[p] = assigned[p] /\ first_seen'[p] = first_seen[p]
<1>1. ASSUME NEW online \in SUBSET Peers, BeginReplay(online)
      PROVE  assigned'[p] = assigned[p] /\ first_seen'[p] = first_seen[p]
  BY <1>1, SightingsStay DEF BeginReplay, Sighting
<1>2. ASSUME NEW quarantined, NoVerifier(quarantined)
      PROVE  assigned'[p] = assigned[p] /\ first_seen'[p] = first_seen[p]
  BY <1>2, MemoisedKeeps DEF NoVerifier, view, Settled
<1>3. ASSUME NEW quarantined, NEW v \in Peers, Replay(v, quarantined)
      PROVE  assigned'[p] = assigned[p] /\ first_seen'[p] = first_seen[p]
  BY <1>3, MemoisedKeeps DEF Replay, view, Settled
<1> QED
  BY <1>1, <1>2, <1>3 DEF Next, Replaying, Capture, PassOver, OutOfSteps,
     DiscoveryFails, Tick, vars, view, round

\* Of two filed servers only the time that passes can part them.
LEMMA OnlyTimeParts ==
    ASSUME Placed, Counted, Sighting, [Next]_vars, NEW s \in Peers, NEW v \in Peers,
           Settled(s), Settled(v), Independent(s, v), ~Independent(s, v)'
    PROVE  age < Gap /\ age' >= Gap
<1>1. /\ assigned'[s] = assigned[s] /\ first_seen'[s] = first_seen[s]
      /\ assigned'[v] = assigned[v] /\ first_seen'[v] = first_seen[v]
  BY FiledForGood
<1>2. Assign(s)' = Assign(s) /\ Assign(v)' = Assign(v)
  BY <1>1 DEF Assign, Settled
<1>3. ~CoArrived(s, v) /\ CoArrived(s, v)'
  BY <1>2 DEF Independent
<1>4. first_seen[s] - first_seen[v] \in -(Gap - 1) .. Gap - 1 /\ age' >= Gap
  BY <1>1, <1>3 DEF CoArrived
<1>5. ~(age >= Gap)
  BY <1>3, <1>4 DEF CoArrived
<1>6. age \in Int /\ Gap \in Int
  BY LimitsAssumption DEF Counted
<1> QED BY <1>4, <1>5, <1>6

-----------------------------------------------------------------------------
(* Theorems. *)

\* Everything the client keeps has its type and the queue its bound.
THEOREM TypeCorrect == Spec => []TypeOK
<1>1. Init => Placed /\ Filed /\ Counted
  BY InitPlaced, InitCounted
<1>2. (Placed /\ Filed /\ Counted) /\ [Next]_vars => (Placed /\ Filed /\ Counted)'
  BY NextPlaced, NextFiled, NextCounted
<1>3. Placed /\ Filed /\ Counted => TypeOK
  BY DEF Placed, Filed, Counted, TypeOK
<1> QED BY <1>1, <1>2, <1>3, PTL DEF Spec

\* NeverSelfChecked, for every swarm: both parties of every pair have been seen at
\* addresses of their own, in different networks.
THEOREM CheckedByOthers == Spec => []NeverSelfChecked
<1>1. Init => Placed /\ Filed
  BY InitPlaced
<1>2. (Placed /\ Filed) /\ [Next]_vars => (Placed /\ Filed)'
  BY NextPlaced, NextFiled
<1>3. Placed /\ Filed => NeverSelfChecked
  <2> SUFFICES ASSUME Placed, Filed, NEW pair \in pairs
               PROVE  \E a \in Reach[pair.subject], b \in Reach[pair.verifier] : a # b
    BY DEF NeverSelfChecked
  <2>1. /\ pair.subject \in Peers /\ pair.verifier \in Peers
        /\ assigned[pair.subject] \in Networks
        /\ assigned[pair.verifier] \in Networks
        /\ assigned[pair.subject] # assigned[pair.verifier]
    BY DEF Filed, Pair
  <2>2. /\ assigned[pair.subject] \in Reach[pair.subject]
        /\ assigned[pair.verifier] \in Reach[pair.verifier]
    BY <2>1, NetworksAssumption DEF Placed
  <2> QED BY <2>1, <2>2
<1> QED BY <1>1, <1>2, <1>3, PTL DEF Spec

\* OneVoicePerPeer, for every swarm: within a process a peer is always filed under
\* one cluster, however often it moves.
THEOREM OneVoice == Spec => []OneVoicePerPeer
<1>1. Init => Placed /\ Filed
  BY InitPlaced
<1>2. (Placed /\ Filed) /\ [Next]_vars => (Placed /\ Filed)'
  BY NextPlaced, NextFiled
<1>3. Filed => OneVoicePerPeer
  <2> SUFFICES ASSUME Filed, NEW p \in Peers, NEW a \in ClustersOf(p)
               PROVE  a = assigned[p]
    BY DEF OneVoicePerPeer
  <2> QED BY DEF Filed, ClustersOf
<1> QED BY <1>1, <1>2, <1>3, PTL DEF Spec

\* OnlyCoArrivalParts, for every swarm: two servers the index has filed, and that
\* could check each other, part only when the client comes of the age to judge when
\* they arrived.
THEOREM TimeAloneParts == Spec => OnlyCoArrivalParts
<1>1. Init => Placed /\ Filed /\ Counted /\ Sighting
  BY InitPlaced, InitCounted, InitSighting
<1>2. (Placed /\ Filed /\ Counted /\ Sighting) /\ [Next]_vars
        => (Placed /\ Filed /\ Counted /\ Sighting)'
  BY NextPlaced, NextFiled, NextCounted, NextSighting
<1>3. (Placed /\ Filed /\ Counted /\ Sighting) /\ [Next]_vars
        => [\A s, v \in Peers :
              (Settled(s) /\ Settled(v) /\ Independent(s, v) /\ ~Independent(s, v)')
                 => (age < Gap /\ age' >= Gap)]_vars
  BY OnlyTimeParts
<1> QED BY <1>1, <1>2, <1>3, PTL DEF Spec, OnlyCoArrivalParts

=============================================================================
