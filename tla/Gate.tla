-------------------------------- MODULE Gate --------------------------------
(***************************************************************************)
(* ReputationGate (reputation/routing.py) against the routing table that   *)
(* Petals' RemoteSequenceManager refreshes in a thread of its own.  Module *)
(* Client says in which order a client takes these steps.                  *)
(*                                                                         *)
(* Which peers is_excluded() answers for is the set convicted here; how a  *)
(* peer gets there and out of it again is module Integrity.  Requests are  *)
(* routed over the peers in table, so a peer is avoided exactly while it   *)
(* is not in it.                                                           *)
(***************************************************************************)
EXTENDS FiniteSets

CONSTANT Peers

VARIABLES
    online,     \* peers announcing blocks in the DHT
    table,      \* peers in sequence_manager.state.sequence_info.block_infos
    filter,     \* sequence_manager.blocked_servers
    blocked,    \* ReputationGate.blocked
    convicted,  \* peers the router excludes, by what is in memory
    saved       \* the same, by what is in the state file

vars == <<online, table, filter, blocked, convicted, saved>>

TypeOK ==
    /\ online \subseteq Peers
    /\ table \subseteq Peers
    /\ filter \subseteq Peers
    /\ blocked \subseteq Peers
    /\ convicted \subseteq Peers
    /\ saved \subseteq Peers
    /\ filter = blocked

-----------------------------------------------------------------------------
(* The gate. *)

\* Mutant: exclusions are accumulated.
MutExcludedAmong(guilty) == blocked \cup (table \cap guilty)

\* excluded_among(known_peers()): only the routing table is asked.
ExcludedAmong(guilty) == table \cap guilty

\* Mutant: the set is kept, but never pushed into the manager.
MutRefresh(guilty) ==
    /\ blocked' = ExcludedAmong(guilty)
    /\ UNCHANGED filter

\* refresh() and _apply(); with an equal set both are left as they are.
Refresh(guilty) ==
    /\ blocked' = ExcludedAmong(guilty)
    /\ filter' = IF blocked' = blocked THEN filter ELSE blocked'

\* A replayed check tips the evidence against the peers found.
Convict(found) ==
    /\ convicted' = convicted \cup found
    /\ UNCHANGED <<online, table, filter, blocked, saved>>

\* refresh_gate() of a sync round.
Veto ==
    /\ Refresh(convicted)
    /\ UNCHANGED <<online, table, convicted, saved>>

\* save() of a sync round or of close().
SaveFile ==
    /\ saved' = convicted
    /\ UNCHANGED <<online, table, filter, blocked, convicted>>

-----------------------------------------------------------------------------
(* What goes on around it. *)

\* RemoteSequenceManager._update(): asked for by the gate or by its own timer.
Update ==
    /\ table' = online \ filter
    /\ UNCHANGED <<online, filter, blocked, convicted, saved>>

Join(p) ==
    /\ p \notin online
    /\ online' = online \cup {p}
    /\ UNCHANGED <<table, filter, blocked, convicted, saved>>

Leave(p) ==
    /\ p \in online
    /\ online' = online \ {p}
    /\ UNCHANGED <<table, filter, blocked, convicted, saved>>

\* The evidence decays, in memory and on disk alike.
Clear(p) ==
    /\ p \in convicted \cup saved
    /\ convicted' = convicted \ {p}
    /\ saved' = saved \ {p}
    /\ UNCHANGED <<online, table, filter, blocked>>

\* A new client process: a new routing table, a new gate, and the loaded file.
NewProcess ==
    /\ table' = {}
    /\ filter' = {}
    /\ blocked' = {}
    /\ convicted' = saved
    /\ UNCHANGED <<online, saved>>

Init ==
    /\ online \in SUBSET Peers
    /\ table = {}
    /\ filter = {}
    /\ blocked = {}
    /\ convicted = {}
    /\ saved = {}

Next ==
    \/ \E found \in SUBSET Peers : Convict(found)
    \/ Veto
    \/ SaveFile
    \/ Update
    \/ \E p \in Peers : Join(p) \/ Leave(p) \/ Clear(p)
    \/ NewProcess

Spec == Init /\ [][Next]_vars

-----------------------------------------------------------------------------
(* Properties. *)

\* "The set is recomputed from the scorer", "so a peer that is later cleared is
\* un-blocked": nothing but being cleared un-blocks a peer.
OnlyClearedUnblocked ==
    [][Veto => blocked \cap convicted \subseteq blocked']_vars

=============================================================================
