------------------------------- MODULE Client -------------------------------
(***************************************************************************)
(* The life of a client process: chat (cli/main.py) and gateway            *)
(* (cli/gateway.py), two front ends over one stack of warm-up, retries,    *)
(* the observer around a session's step (reputation/observer.py) and       *)
(* ClientReputation (reputation/session.py).  The veto and Petals' table   *)
(* are module Gate.                                                        *)
(*                                                                         *)
(* A chat runs everything in its main thread, so Ctrl-C lands wherever     *)
(* that thread is.  The gateway answers requests in daemon threads, and    *)
(* Ctrl-C stops only its main thread, which then closes the session.       *)
(*                                                                         *)
(* What the client has measured is followed as far as its copies go:       *)
(* behind says which of them miss something that is in memory.  Reading    *)
(* the status and GatewayState.history, a list for display, are left out.  *)
(***************************************************************************)
EXTENDS FiniteSets, Naturals

CONSTANTS
    Peers,          \* servers
    Suspects,       \* servers that verification may convict
    Main,           \* the thread a chat runs in
    Handlers,       \* request threads of a gateway
    Nobody,         \* the free lock
    Attempts,       \* --attempts
    Timeout,        \* CHAT_WARMUP_TIMEOUT
    Interval,       \* pause between probes
    MaxProbe        \* longest probe

Threads == {Main} \cup Handlers
Copies == {"file", "network"}

ASSUME ClientAssumption ==
    /\ Suspects \subseteq Peers
    /\ Main \notin Handlers
    /\ Nobody \notin Threads
    /\ Attempts \in Nat \ {0}
    /\ Timeout \in Nat
    /\ Interval \in Nat \ {0}
    /\ MaxProbe \in Nat

VARIABLES
    online, table, filter, blocked, convicted, saved,   \* of module Gate
    frontend,   \* "chat" or "gateway"
    phase,      \* where the main thread is
    waited,     \* time spent in wait_until_routable
    attached,   \* _ServerInferenceSession.step is wrapped
    held,       \* the front end has a ClientReputation
    pc,         \* where each request is
    attempt,    \* generate_with_retry's counter
    lock,       \* GatewayState._lock
    busy,       \* GatewayState.busy
    behind,     \* copies that miss evidence which is in memory
    kept        \* the save() of close() returned True

G == INSTANCE Gate

vetoVars == <<online, table, filter, blocked, convicted, saved>>
startVars == <<frontend, waited, held>>
requestVars == <<pc, attempt, lock, busy>>
memoryVars == <<attached, behind, kept>>
vars == <<vetoVars, startVars, phase, requestVars, memoryVars>>

Starting == {"connecting", "warmup", "attaching"}
Closing == {"detaching", "verifying", "gossiping", "saving", "shutting"}
Round == {"verifying", "gating", "gossiping", "saving"}
Stack == Round \cup {"generating", "answered"}
Places == Stack \cup {"idle", "entering", "leaving", "unlocking"}

\* Requests run in the main thread of a chat, and beside it in a gateway.
Workers == IF frontend = "chat" THEN {Main} ELSE Handlers

\* A gateway's daemon threads run for as long as the process does.
Alive == IF frontend = "chat" THEN phase = "serving"
                              ELSE phase \in {"serving"} \cup Closing

Inside(w) == pc[w] \in Stack

TypeOK ==
    /\ G!TypeOK
    /\ frontend \in {"chat", "gateway"}
    /\ phase \in Starting \cup {"serving"} \cup Closing \cup {"exited"}
    /\ waited \in 0 .. Timeout
    /\ attached \in BOOLEAN /\ held \in BOOLEAN
    /\ pc \in [Threads -> Places]
    /\ attempt \in [Threads -> 0 .. Attempts]
    /\ lock \in Threads \cup {Nobody}
    /\ busy \in BOOLEAN
    /\ behind \subseteq Copies
    /\ kept \in BOOLEAN

At(w, place) == pc[w] = place /\ w \in Workers /\ Alive
Goto(w, place) == pc' = [pc EXCEPT ![w] = place]

\* chat() of the gateway leaves through its finally clause, the chat's loop at once.
Leaving == IF frontend = "chat" THEN "idle" ELSE "leaving"

\* The wrapper around a step notes an outcome once the step is over, even when it has
\* been taken off since the step began.  A generation may fail before any step.
Noted ==
    \/ attached /\ behind' = Copies
    \/ ~attached /\ UNCHANGED behind
    \/ held /\ phase \in Closing /\ behind' = Copies
MaybeNoted == Noted \/ UNCHANGED behind

\* What only this process knew goes with it: its threads, its memory and its table.
Gone ==
    /\ phase' = "exited" /\ waited' = 0
    /\ attached' = FALSE /\ held' = FALSE
    /\ pc' = [w \in Threads |-> "idle"]
    /\ attempt' = [w \in Threads |-> 0]
    /\ lock' = Nobody /\ busy' = FALSE
    /\ behind' = {} /\ kept' = FALSE
    /\ G!NewProcess
    /\ UNCHANGED frontend

-----------------------------------------------------------------------------
(* Starting: nothing is measured before the swarm can be dialled. *)

\* Mutant: the wrapper is put in place before the swarm can be dialled.
MutPreflight(ok) ==
    /\ phase = "connecting"
    /\ IF ok THEN /\ phase' = "warmup" /\ attached' = TRUE
                  /\ UNCHANGED <<vetoVars, startVars, requestVars, behind, kept>>
             ELSE Gone

\* check_before_loading: an uncovered model ends the client.
Preflight(ok) ==
    /\ phase = "connecting"
    /\ IF ok THEN phase' = "warmup" /\ UNCHANGED <<vetoVars, startVars, requestVars, memoryVars>>
             ELSE Gone

\* The pause after a probe that took this long would pass the deadline.
TooLate(took) == waited + took + Interval >= Timeout

Routable ==
    /\ phase = "warmup"
    /\ phase' = "attaching" /\ waited' = 0
    /\ Noted
    /\ UNCHANGED <<vetoVars, frontend, held, requestVars, attached, kept>>

\* Mutant: the deadline moves with every attempt.
MutNotYet(took) ==
    /\ phase = "warmup"
    /\ took + Interval < Timeout
    /\ waited' = took + Interval
    /\ MaybeNoted
    /\ UNCHANGED <<vetoVars, frontend, held, phase, requestVars, attached, kept>>

\* "routing: not found": wait and probe again.
NotYet(took) ==
    /\ phase = "warmup"
    /\ ~TooLate(took)
    /\ waited' = waited + took + Interval
    /\ MaybeNoted
    /\ UNCHANGED <<vetoVars, frontend, held, phase, requestVars, attached, kept>>

\* Out of time, or an error that is no routing failure.
GiveUp == phase = "warmup" /\ Gone

\* _start_reputation: not asked for, refused before the wrapper is in place, refused
\* after that (the caller then has no ClientReputation to detach it with), or done.
StartReputation(wrapped, complete) ==
    /\ phase = "attaching"
    /\ complete => wrapped
    /\ phase' = "serving"
    /\ attached' = wrapped
    /\ held' = complete
    /\ UNCHANGED <<vetoVars, frontend, waited, requestVars, behind, kept>>

-----------------------------------------------------------------------------
(* A request. *)

\* Mutant: a second request is let in.
MutAsk(w) ==
    /\ At(w, "idle")
    /\ IF frontend = "chat"
       THEN Goto(w, "generating") /\ UNCHANGED lock
       ELSE Goto(w, "entering") /\ lock' = w
    /\ attempt' = [attempt EXCEPT ![w] = 1]
    /\ UNCHANGED <<vetoVars, startVars, phase, busy, memoryVars>>

\* A prompt; the gateway refuses it while another one holds the lock.
Ask(w) ==
    /\ At(w, "idle")
    /\ IF frontend = "chat"
       THEN Goto(w, "generating") /\ UNCHANGED lock
       ELSE Goto(w, "entering") /\ lock = Nobody /\ lock' = w
    /\ attempt' = [attempt EXCEPT ![w] = 1]
    /\ UNCHANGED <<vetoVars, startVars, phase, busy, memoryVars>>

Enter(w) ==
    /\ At(w, "entering")
    /\ Goto(w, "generating")
    /\ busy' = TRUE
    /\ UNCHANGED <<vetoVars, startVars, phase, attempt, lock, memoryVars>>

Answer(w) ==
    /\ At(w, "generating")
    /\ table # {}
    /\ Goto(w, "answered")
    /\ attempt' = [attempt EXCEPT ![w] = 0]
    /\ Noted
    /\ UNCHANGED <<vetoVars, startVars, phase, lock, busy, attached, kept>>

\* Mutant: a request that fails for good returns without the finally clause.
MutStall(w) ==
    /\ At(w, "generating")
    /\ IF attempt[w] < Attempts
       THEN attempt' = [attempt EXCEPT ![w] = @ + 1] /\ UNCHANGED pc
       ELSE attempt' = [attempt EXCEPT ![w] = 0] /\ Goto(w, "idle")
    /\ MaybeNoted
    /\ UNCHANGED <<vetoVars, startVars, phase, lock, busy, attached, kept>>

\* An attempt fails, in a server's step or before any: again with a fresh session,
\* and after the last attempt straight back, past maybe_sync.
Stall(w) ==
    /\ At(w, "generating")
    /\ IF attempt[w] < Attempts
       THEN attempt' = [attempt EXCEPT ![w] = @ + 1] /\ UNCHANGED pc
       ELSE attempt' = [attempt EXCEPT ![w] = 0] /\ Goto(w, Leaving)
    /\ MaybeNoted
    /\ UNCHANGED <<vetoVars, startVars, phase, lock, busy, attached, kept>>

-----------------------------------------------------------------------------
(* maybe_sync, between a request's answer and its return. *)

\* Nothing to do without a ClientReputation, or before the interval is over.
MaybeSync(w) ==
    /\ At(w, "answered")
    /\ \/ held /\ Goto(w, "verifying")
       \/ Goto(w, Leaving)
    /\ UNCHANGED <<vetoVars, startVars, phase, attempt, lock, busy, memoryVars>>

\* One that convicts nobody, a match or one more dispute, is evidence all the same.
Verdict(found) ==
    /\ G!Convict(found)
    /\ behind' \in {Copies} \cup IF found \subseteq convicted THEN {behind} ELSE {}

\* run_verification: one verdict a round, over a subject and its verifier.
Verify(w, found) ==
    /\ At(w, "verifying")
    /\ Verdict(found)
    /\ Goto(w, "gating")
    /\ UNCHANGED <<startVars, phase, attempt, lock, busy, attached, kept>>

RefreshGate(w) ==
    /\ At(w, "gating")
    /\ G!Veto
    /\ Goto(w, "gossiping")
    /\ UNCHANGED <<startVars, phase, attempt, lock, busy, memoryVars>>

\* gossip.sync(): raises, or stores the reports, or fails to store them.
Gossip(w, result) ==
    /\ At(w, "gossiping")
    /\ Goto(w, IF result = "raised" THEN Leaving ELSE "saving")
    /\ behind' = IF result = "stored" THEN behind \ {"network"} ELSE behind
    /\ UNCHANGED <<vetoVars, startVars, phase, attempt, lock, busy, attached, kept>>

Written(ok) ==
    /\ IF ok THEN G!SaveFile ELSE UNCHANGED vetoVars
    /\ behind' = IF ok THEN behind \ {"file"} ELSE behind

Save(w, ok) ==
    /\ At(w, "saving")
    /\ Written(ok)
    /\ Goto(w, Leaving)
    /\ UNCHANGED <<startVars, phase, attempt, lock, busy, attached, kept>>

\* Mutant: the lock is released first, and busy reset after it.
MutLeave(w) ==
    \/ /\ At(w, "leaving")
       /\ lock' = Nobody
       /\ Goto(w, "unlocking")
       /\ UNCHANGED <<vetoVars, startVars, phase, attempt, busy, memoryVars>>
    \/ /\ At(w, "unlocking")
       /\ busy' = FALSE
       /\ Goto(w, "idle")
       /\ UNCHANGED <<vetoVars, startVars, phase, attempt, lock, memoryVars>>

\* The finally clause of GatewayState.chat.
Leave(w) ==
    /\ At(w, "leaving")
    /\ busy' = FALSE
    /\ Goto(w, "unlocking")
    /\ UNCHANGED <<vetoVars, startVars, phase, attempt, lock, memoryVars>>

Unlock(w) ==
    /\ At(w, "unlocking")
    /\ lock' = Nobody
    /\ Goto(w, "idle")
    /\ UNCHANGED <<vetoVars, startVars, phase, attempt, busy, memoryVars>>

-----------------------------------------------------------------------------
(* The end. *)

\* Ctrl-C, or the end of a chat's input.  A chat's request is cut off where it is; if
\* that is in a server's step, the wrapper notes an error of that server.
Interrupt ==
    /\ phase = "serving"
    /\ phase' = IF held THEN "detaching" ELSE "shutting"
    /\ IF frontend = "chat"
       THEN /\ Goto(Main, "idle")
            /\ attempt' = [attempt EXCEPT ![Main] = 0]
            /\ \/ pc[Main] = "generating" /\ Noted
               \/ UNCHANGED behind
       ELSE UNCHANGED <<pc, attempt, behind>>
    /\ UNCHANGED <<vetoVars, startVars, lock, busy, attached, kept>>

Detach ==
    /\ phase = "detaching"
    /\ phase' = "verifying"
    /\ attached' = FALSE
    /\ UNCHANGED <<vetoVars, startVars, requestVars, behind, kept>>

\* Mutant: the file is written before the last verification.
MutLastVerify(found) ==
    \/ /\ phase = "verifying" /\ phase' = "gossiping"
       /\ UNCHANGED <<vetoVars, startVars, requestVars, memoryVars>>
    \/ /\ phase = "shutting" /\ UNCHANGED phase
       /\ Verdict(found)
       /\ UNCHANGED <<startVars, requestVars, attached, kept>>

LastVerify(found) ==
    /\ phase = "verifying"
    /\ phase' = "gossiping"
    /\ Verdict(found)
    /\ UNCHANGED <<startVars, requestVars, attached, kept>>

\* In close() gossip that raises does not keep save() from running.
LastGossip(result) ==
    /\ phase = "gossiping"
    /\ phase' = "saving"
    /\ behind' = IF result = "stored" THEN behind \ {"network"} ELSE behind
    /\ UNCHANGED <<vetoVars, startVars, requestVars, attached, kept>>

LastSave(ok) ==
    /\ phase = "saving"
    /\ phase' = "shutting"
    /\ Written(ok)
    /\ kept' = ok
    /\ UNCHANGED <<startVars, requestVars, attached>>

\* dht.shutdown(), and with the main thread gone the daemon threads end.
Shutdown == phase = "shutting" /\ Gone

\* Ctrl-C before serving, or a second one while closing: nothing more is run.
Abort == phase \in Starting \cup Closing /\ Gone

\* The next process, which loads the file that is left.
NewProcess(f) ==
    /\ phase = "exited"
    /\ phase' = "connecting" /\ frontend' = f
    /\ UNCHANGED <<vetoVars, waited, held, requestVars, memoryVars>>

\* Petals' own thread.
Update ==
    /\ phase \notin {"connecting", "exited"}
    /\ G!Update
    /\ UNCHANGED <<startVars, phase, requestVars, memoryVars>>

\* The other servers, and time.
Around ==
    /\ \E p \in Peers : G!Join(p) \/ G!Leave(p) \/ G!Clear(p)
    /\ UNCHANGED <<startVars, phase, requestVars, memoryVars>>

-----------------------------------------------------------------------------
Init ==
    /\ G!Init
    /\ frontend \in {"chat", "gateway"} /\ phase = "connecting" /\ waited = 0
    /\ attached = FALSE /\ held = FALSE
    /\ pc = [w \in Threads |-> "idle"]
    /\ attempt = [w \in Threads |-> 0]
    /\ lock = Nobody /\ busy = FALSE
    /\ behind = {} /\ kept = FALSE

Start ==
    \/ \E ok \in BOOLEAN : Preflight(ok)
    \/ Routable \/ GiveUp
    \/ \E took \in 0 .. MaxProbe : NotYet(took)
    \/ \E wrapped, complete \in BOOLEAN : StartReputation(wrapped, complete)

\* What goes on in a request once it is asked for.
Request(w) ==
    \/ Enter(w) \/ Answer(w) \/ Stall(w) \/ MaybeSync(w)
    \/ \E found \in SUBSET Suspects : Verify(w, found)
    \/ RefreshGate(w)
    \/ \E result \in {"raised", "stored", "lost"} : Gossip(w, result)
    \/ \E ok \in BOOLEAN : Save(w, ok)
    \/ Leave(w) \/ Unlock(w)

Close ==
    \/ Detach
    \/ \E found \in SUBSET Suspects : LastVerify(found)
    \/ \E result \in {"raised", "stored", "lost"} : LastGossip(result)
    \/ \E ok \in BOOLEAN : LastSave(ok)
    \/ Shutdown

Next ==
    \/ Start
    \/ \E w \in Threads : Ask(w) \/ Request(w)
    \/ Interrupt \/ Close \/ Abort
    \/ \E f \in {"chat", "gateway"} : NewProcess(f)
    \/ Update \/ Around

Spec == Init /\ [][Next]_vars

\* The main thread's own steps and a request's are taken, a step over the network or
\* to a server ends one way or another (it has a timeout), and Petals refreshes its
\* table.  Nobody has to ask, and no request has to be answered.
FairSpec ==
    /\ Spec
    /\ WF_vars(Start)
    /\ WF_vars(Close)
    /\ \A w \in Threads : WF_vars(Request(w))
    /\ WF_vars(Update)

-----------------------------------------------------------------------------
(* Properties. *)

\* "One request at a time": as long as the process is serving, no two threads are in
\* the stack that is not thread-safe (generation, verification, gate, gossip, save).
OneAtATime ==
    phase = "serving" =>
        \A v, w \in Threads : Inside(v) /\ Inside(w) => v = w

\* A status that says the gateway is free is right about it: the flag the page polls is
\* up for as long as a request is in the stack, across every way a request can end.
BusyWhileRunning ==
    frontend = "gateway" => \A w \in Threads : Inside(w) => busy

\* "Start measuring only now": a server is not charged for the routing gap in which
\* nothing can be dialled, so until the warm-up is over there is nothing to write down.
WarmUpNotMeasured == phase \in Starting => behind = {}

\* close() loses nothing of a chat: once it has run to its end and could write the
\* file, every measurement and verdict of the process is in it, the request that
\* Ctrl-C cut off included.
ChatKeepsEverything ==
    frontend = "chat" /\ phase = "shutting" /\ held /\ kept => "file" \notin behind

\* Nobody is locked out: a request that got the lock gives it back, whether it is
\* answered, fails, or its sync round does.
LockReturned == \A w \in Handlers : lock = w ~> (lock # w \/ phase = "exited")

\* A start comes to an end: the client serves or gives up, however long the swarm
\* cannot be dialled.
StartEnds == phase \in Starting ~> phase \in {"serving", "exited"}

\* A client that makes its rounds again and again gets a convicted server out of
\* its routing table, unless the conviction lapses or the client is closed.
RoundsGoOn == []<>(\E w \in Threads : pc[w] = "gating")
Serves == phase = "serving" /\ held

ConvictLeavesTable ==
    RoundsGoOn =>
        \A p \in Suspects : (Serves /\ p \in convicted \cap table)
                            ~> ~(Serves /\ p \in convicted \cap table)

\* And a server that is online and no longer convicted returns to the table without
\* anyone un-blocking it by hand.
ClearedReturns ==
    RoundsGoOn =>
        \A p \in Suspects : (Serves /\ p \in online \ convicted)
                            ~> (p \in table \/ ~(Serves /\ p \in online \ convicted))

=============================================================================
