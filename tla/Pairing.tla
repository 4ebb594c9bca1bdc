------------------------------ MODULE Pairing ------------------------------
(***************************************************************************)
(* How a client finds a second server to check the first one with: the     *)
(* prefill steps it kept (InlineVerifier, verification/inline.py), the     *)
(* servers and addresses it can see (make_discover and                     *)
(* make_address_resolver, verification/petals_bridge.py), the network each *)
(* is taken to be in (ClusterIndex, reputation/diversity.py) and who may   *)
(* then judge whom (VerificationSampler, verification/sampler.py).         *)
(*                                                                         *)
(* A server's machine has addresses in the networks of its Reach.  The p2p *)
(* daemon reports any of them, none, or the circuit address of a relay,    *)
(* whose IP is in a network of Relays and says nothing about the server.   *)
(* The module is one client process: discovery, addresses and the cluster  *)
(* index start empty in each.  Whom the DHT announces in a round, and whom *)
(* the scorer has quarantined by then, is left open: the one is the        *)
(* swarm's affair, the other module Integrity's, and so is what a verdict  *)
(* does to reputation.                                                     *)
(***************************************************************************)
EXTENDS Integers, FiniteSets, Sequences, FiniteSetsExt

CONSTANTS
    Peers,       \* servers of the swarm
    Networks,    \* coarse clusters: an ASN, or a prefix where that is unknown
    Reach,       \* [Peers -> SUBSET Networks]: where each machine has addresses
    Relays,      \* networks of the relays
    Rank,        \* [Networks -> Nat]: the order in which addresses are preferred
    NoAddress,   \* an address that is not known
    Unknown,     \* UNKNOWN_CLUSTER
    Unassigned,  \* not in ClusterIndex._cache
    Hosts,       \* [Peers -> SUBSET Nat]: the blocks each announces
    Gap,         \* SamplerConfig.min_first_seen_gap_s
    MaxPending,  \* InlineVerifier.max_pending
    MaxAge       \* bound: how long the process is watched

ASSUME NetworksAssumption ==
    /\ Reach \in [Peers -> SUBSET Networks]
    /\ Relays \subseteq Networks
    /\ Rank \in [Networks -> Nat]
    /\ \A m, n \in Networks : Rank[m] = Rank[n] => m = n
    /\ {NoAddress, Unknown, Unassigned} \cap Networks = {}
    /\ Unknown # Unassigned
ASSUME HostsAssumption ==
    /\ Hosts \in [Peers -> SUBSET Nat]
    /\ \A p \in Peers : Hosts[p] # {} /\ IsFiniteSet(Hosts[p])
ASSUME LimitsAssumption ==
    /\ Gap \in Nat
    /\ MaxPending \in Nat \ {0}
    /\ MaxAge \in Nat

VARIABLES
    age,         \* observer_age(): time since the process started
    best,        \* make_address_resolver's best: networks of remembered addresses
    first_seen,  \* make_discover's first_seen; -1 is absent
    assigned,    \* ClusterIndex._cache: the coarse cluster of each peer
    pending,     \* InlineVerifier.pending
    replaying,   \* run_pending is past discover()
    servers,     \* what discover() returned to it
    located,     \* the addresses it returned them with
    pairs        \* history: who was set to check whom, and under which clusters

view == <<best, first_seen>>
round == <<replaying, servers, located>>
vars == <<age, view, assigned, pending, round, pairs>>

Address == Networks \cup {NoAddress}
Cluster == Networks \cup {Unknown}
Step == [subject: Peers, needed: SUBSET Nat]
Pair == [subject: Peers, verifier: Peers,
         subject_cluster: Cluster, verifier_cluster: Cluster]

TypeOK ==
    /\ age \in 0 .. MaxAge
    /\ best \in [Peers -> Address]
    /\ first_seen \in [Peers -> -1 .. MaxAge]
    /\ assigned \in [Peers -> Cluster \cup {Unassigned}]
    /\ pending \in Seq(Step)
    /\ Len(pending) <= MaxPending
    /\ replaying \in BOOLEAN
    /\ servers \subseteq Peers
    /\ located \in [Peers -> Address]
    /\ pairs \subseteq Pair

-----------------------------------------------------------------------------
(* Who is out there: make_discover and make_address_resolver.               *)

\* What list_peers() may say of p: direct addresses, relayed ones, both or none.
Multiaddrs(p) ==
    SUBSET (  {[relayed |-> FALSE, network |-> n] : n \in Reach[p]}
       \cup {[relayed |-> TRUE, network |-> n] : n \in Relays})

\* Mutant: the IP of a circuit address is taken for the server's.
MutUsable(addrs) == {a.network : a \in addrs}

\* Circuit addresses are discarded: they tell where the relay is.
Usable(addrs) == {a.network : a \in {b \in addrs : ~b.relayed}}

\* sorted(candidates, key=rank)[0], where there is one
Preferred(networks) ==
    {n \in networks : \A m \in networks : Rank[n] <= Rank[m]}

\* What one call may find for each server.
Findable ==
    [p \in Peers |-> UNION {Preferred(Usable(addrs)) : addrs \in Multiaddrs(p)}]

\* best.update(found): an address found now replaces the remembered one, and one
\* that is not found is kept.
AddressBooks ==
    {book \in [Peers -> Address] :
        \A p \in Peers : book[p] = best[p] \/ book[p] \in Findable[p]}

Nowhere == [p \in Peers |-> NoAddress]

\* Mutant: first_seen is when the peer was seen last.
MutSighted(online) == [p \in Peers |-> IF p \in online THEN age ELSE first_seen[p]]

\* first_seen.setdefault(peer_id, now)
Sighted(online) ==
    [p \in Peers |-> IF p \in online /\ first_seen[p] = -1 THEN age ELSE first_seen[p]]

\* min(start), max(end): a gap in the announced blocks is not seen.
Span(p) == Min(Hosts[p]) .. Max(Hosts[p])

-----------------------------------------------------------------------------
(* Who may judge whom: ClusterIndex and VerificationSampler.                *)

\* Mutant: the memo is not consulted.
MutAssign(p) == IF located[p] = NoAddress THEN Unknown ELSE located[p]

\* ClusterIndex.assign: the first answer is kept for good.
Assign(p) ==
    IF assigned[p] # Unassigned THEN assigned[p]
    ELSE IF located[p] = NoAddress THEN Unknown ELSE located[p]

\* Both were first seen within Gap of each other, by a client that has been
\* watching for at least as long.
CoArrived(s, v) ==
    /\ age >= Gap
    /\ first_seen[s] - first_seen[v] \in -(Gap - 1) .. Gap - 1

Independent(s, v) ==
    /\ s # v
    /\ Unknown \notin {Assign(s), Assign(v)}
    /\ Assign(s) # Assign(v)
    /\ ~CoArrived(s, v)

\* The candidates eligible_verifiers puts to are_independent.
Considered(step, quarantined) ==
    {c \in servers \ {step.subject} :
        step.needed \subseteq Span(c) /\ c \notin quarantined}

EligibleVerifiers(step, quarantined) ==
    {c \in Considered(step, quarantined) : Independent(step.subject, c)}

\* are_independent assigns both parties of every pair it is asked about.
Memoised(step, quarantined) ==
    LET candidates == Considered(step, quarantined)
        asked == IF candidates = {} THEN {} ELSE candidates \cup {step.subject}
    IN [p \in Peers |-> IF p \in asked THEN Assign(p) ELSE assigned[p]]

-----------------------------------------------------------------------------
(* Keeping steps and replaying them: InlineVerifier.                         *)

\* capture(): a prefill step over consecutive blocks of the server that ran it;
\* at max_pending it is dropped.
Capture(p, needed) ==
    /\ ~replaying
    /\ Len(pending) < MaxPending
    /\ pending' = Append(pending, [subject |-> p, needed |-> needed])
    /\ UNCHANGED <<age, view, assigned, round, pairs>>

\* run_pending() up to the loop, with an address book or, where list_peers raised,
\* without one.
BeginReplay(online) ==
    /\ ~replaying
    /\ pending # <<>>
    /\ replaying' = TRUE
    /\ servers' = online
    /\ first_seen' = Sighted(online)
    /\ \/ best' \in AddressBooks /\ located' = best'
       \/ best' = best /\ located' = Nowhere
    /\ UNCHANGED <<age, assigned, pending, pairs>>

\* discover() raised: everything captured is thrown away.
DiscoveryFails ==
    /\ ~replaying
    /\ pending # <<>>
    /\ pending' = <<>>
    /\ UNCHANGED <<age, view, assigned, round, pairs>>

\* Mutant: the step is looked at and not taken out.
MutPop == replaying /\ pending # <<>> /\ UNCHANGED pending

Pop == replaying /\ pending # <<>> /\ pending' = Tail(pending)

\* The server is no longer announced, or the sampler did not choose the step.
PassOver ==
    /\ Pop
    /\ UNCHANGED <<age, view, assigned, round, pairs>>

\* plan() returned None.
NoVerifier(quarantined) ==
    /\ Pop
    /\ Head(pending).subject \in servers
    /\ EligibleVerifiers(Head(pending), quarantined) = {}
    /\ assigned' = Memoised(Head(pending), quarantined)
    /\ UNCHANGED <<age, view, round, pairs>>

EndRound ==
    /\ replaying' = FALSE
    /\ servers' = {}
    /\ located' = Nowhere

\* plan() chose v; whatever run_on brings, limit = 1 ends the round.
Replay(v, quarantined) ==
    LET step == Head(pending) IN
    /\ Pop
    /\ step.subject \in servers
    /\ v \in EligibleVerifiers(step, quarantined)
    /\ assigned' = Memoised(step, quarantined)
    /\ pairs' = pairs \cup
         {[subject |-> step.subject, verifier |-> v,
           subject_cluster |-> assigned'[step.subject],
           verifier_cluster |-> assigned'[v]]}
    /\ EndRound
    /\ UNCHANGED <<age, view>>

\* Nothing left to replay.
OutOfSteps ==
    /\ replaying
    /\ pending = <<>>
    /\ EndRound
    /\ UNCHANGED <<age, view, assigned, pending, pairs>>

-----------------------------------------------------------------------------
(* What goes on around it. *)

Tick ==
    /\ age < MaxAge
    /\ age' = age + 1
    /\ UNCHANGED <<view, assigned, pending, round, pairs>>

Init ==
    /\ age = 0
    /\ best = Nowhere
    /\ first_seen = [p \in Peers |-> -1]
    /\ assigned = [p \in Peers |-> Unassigned]
    /\ pending = <<>>
    /\ replaying = FALSE
    /\ servers = {}
    /\ located = Nowhere
    /\ pairs = {}

Runs(p) == {a .. b : a, b \in Hosts[p]} \cap (SUBSET Hosts[p] \ {{}})

Replaying ==
    \/ \E online \in SUBSET Peers : BeginReplay(online)
    \/ PassOver
    \/ \E quarantined \in SUBSET Peers :
        \/ NoVerifier(quarantined)
        \/ \E v \in Peers : Replay(v, quarantined)
    \/ OutOfSteps

Next ==
    \/ Replaying
    \/ DiscoveryFails
    \/ \E p \in Peers : \E needed \in Runs(p) : Capture(p, needed)
    \/ Tick

Spec == Init /\ [][Next]_vars

\* Prompts keep being answered: rounds are made and run to their end.
FairSpec == Spec /\ WF_vars(Replaying)

-----------------------------------------------------------------------------
(* Properties. *)

\* Nobody checks his own work: whichever relays his servers are reached through, in
\* whatever order addresses become known and are forgotten, an operator whose
\* machines all sit in one network is never on both sides of a comparison.
NeverSelfChecked ==
    \A pair \in pairs :
        \E a \in Reach[pair.subject], b \in Reach[pair.verifier] : a # b

ClustersOf(p) ==
         {pair.subject_cluster : pair \in {q \in pairs : q.subject = p}}
    \cup {pair.verifier_cluster : pair \in {q \in pairs : q.verifier = p}}

\* A server that moves, or has addresses in several networks, counts as one accuser:
\* within a process all its disagreements are filed under one and the same cluster.
OneVoicePerPeer == \A p \in Peers : \A a, b \in ClustersOf(p) : a = b

Settled(p) == assigned[p] # Unassigned

\* Two servers that could check each other part only when the client grows old
\* enough to judge when they arrived: neither lost addresses, nor a failed daemon
\* call, nor a server going away and coming back undoes a pair.
OnlyCoArrivalParts ==
    [][\A s, v \in Peers :
        (Settled(s) /\ Settled(v) /\ Independent(s, v) /\ ~Independent(s, v)')
            => (age < Gap /\ age' >= Gap)]_vars

\* A full queue does not stay full while rounds are made, whoever left meanwhile.
FullQueueDrains ==
    (Len(pending) = MaxPending) ~> (Len(pending) < MaxPending)

=============================================================================
