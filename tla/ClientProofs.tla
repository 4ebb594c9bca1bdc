---------------------------- MODULE ClientProofs ----------------------------
(***************************************************************************)
(* Theorems about Client, for any set of servers and request threads and   *)
(* any number of attempts.                                                 *)
(***************************************************************************)
EXTENDS Client, TLAPS

-----------------------------------------------------------------------------
(* Types. *)

LEMMA Zeroes == 0 \in 0 .. Timeout /\ 0 \in 0 .. Attempts /\ "idle" \in Places
  BY ClientAssumption DEF Places

LEMMA TypeInit == ASSUME Init PROVE TypeOK
  <1>1. G!TypeOK
    BY DEF Init, G!Init, G!TypeOK
  <1>2. pc \in [Threads -> Places] /\ attempt \in [Threads -> 0 .. Attempts]
    BY Zeroes DEF Init
  <1> QED
    BY <1>1, <1>2, Zeroes DEF Init, TypeOK, Starting

LEMMA TypeGone == ASSUME TypeOK, Gone PROVE TypeOK'
  <1>1. G!TypeOK'
    BY DEF Gone, G!NewProcess, TypeOK, G!TypeOK
  <1>2. pc' \in [Threads -> Places] /\ attempt' \in [Threads -> 0 .. Attempts]
    BY Zeroes DEF Gone
  <1> QED
    BY <1>1, <1>2, Zeroes DEF Gone, TypeOK

LEMMA TypeNoted == ASSUME TypeOK, MaybeNoted PROVE behind' \subseteq Copies
  BY DEF MaybeNoted, Noted, TypeOK

LEMMA TypeStart == ASSUME TypeOK, Start PROVE TypeOK'
  <1>1. CASE \E ok \in BOOLEAN : Preflight(ok)
    <2> PICK ok \in BOOLEAN : Preflight(ok)
      BY <1>1
    <2>1. CASE ok
      BY <2>1 DEF Preflight, TypeOK, G!TypeOK, Starting, vetoVars, startVars, requestVars,
                  memoryVars
    <2>2. CASE ~ok
      BY <2>2, TypeGone DEF Preflight
    <2> QED
      BY <2>1, <2>2
  <1>2. CASE Routable
    <2>1. behind' \subseteq Copies
      BY <1>2, TypeNoted DEF Routable, MaybeNoted
    <2> QED
      BY <1>2, <2>1, Zeroes DEF Routable, TypeOK, G!TypeOK, Starting, vetoVars, requestVars
  <1>3. CASE GiveUp
    BY <1>3, TypeGone DEF GiveUp
  <1>4. CASE \E took \in 0 .. MaxProbe : NotYet(took)
    <2> PICK took \in 0 .. MaxProbe : NotYet(took)
      BY <1>4
    <2>1. waited' \in 0 .. Timeout
      BY ClientAssumption DEF NotYet, TooLate, TypeOK
    <2>2. behind' \subseteq Copies
      BY TypeNoted DEF NotYet
    <2> QED
      BY <2>1, <2>2 DEF NotYet, TypeOK, G!TypeOK, vetoVars, requestVars
  <1>5. CASE \E wrapped, complete \in BOOLEAN : StartReputation(wrapped, complete)
    <2> PICK wrapped \in BOOLEAN, complete \in BOOLEAN : StartReputation(wrapped, complete)
      BY <1>5
    <2>1. attached' \in BOOLEAN /\ held' \in BOOLEAN
      BY Zenon DEF StartReputation
    <2> QED
      BY <2>1 DEF StartReputation, TypeOK, G!TypeOK, vetoVars, requestVars
  <1> QED
    BY <1>1, <1>2, <1>3, <1>4, <1>5 DEF Start

\* The places a request goes to are places, whichever front end it belongs to.
LEMMA LeavingIsPlace == Leaving \in Places
  BY DEF Leaving, Places

LEMMA TypeGoto ==
  ASSUME TypeOK, NEW w, NEW place \in Places, Goto(w, place)
  PROVE  pc' \in [Threads -> Places]
  BY DEF Goto, TypeOK

LEMMA TypeVerdict ==
  ASSUME TypeOK, NEW found \in SUBSET Suspects, Verdict(found)
  PROVE  G!TypeOK' /\ behind' \subseteq Copies
  BY ClientAssumption DEF Verdict, G!Convict, TypeOK, G!TypeOK

LEMMA TypeWritten ==
  ASSUME TypeOK, NEW ok \in BOOLEAN, Written(ok)
  PROVE  G!TypeOK' /\ behind' \subseteq Copies
  BY DEF Written, G!SaveFile, TypeOK, G!TypeOK, vetoVars

LEMMA TypeRequest ==
  ASSUME TypeOK, NEW w \in Threads, Ask(w) \/ Request(w)
  PROVE  TypeOK'
  <1> USE DEF Places, Stack, Round
  <1>1. CASE Ask(w)
    <2>1. pc' \in [Threads -> Places]
      BY <1>1, TypeGoto DEF Ask
    <2>2. lock' \in Threads \cup {Nobody} /\ attempt' \in [Threads -> 0 .. Attempts]
      BY <1>1, ClientAssumption DEF Ask, TypeOK
    <2> QED
      BY <1>1, <2>1, <2>2 DEF Ask, TypeOK, G!TypeOK, vetoVars, startVars, memoryVars
  <1>2. CASE Enter(w)
    <2>1. pc' \in [Threads -> Places]
      BY <1>2, TypeGoto DEF Enter
    <2> QED
      BY <1>2, <2>1 DEF Enter, TypeOK, G!TypeOK, vetoVars, startVars, memoryVars
  <1>3. CASE Answer(w)
    <2>1. pc' \in [Threads -> Places]
      BY <1>3, TypeGoto DEF Answer
    <2>2. attempt' \in [Threads -> 0 .. Attempts] /\ behind' \subseteq Copies
      BY <1>3, ClientAssumption, TypeNoted DEF Answer, TypeOK, MaybeNoted
    <2> QED
      BY <1>3, <2>1, <2>2 DEF Answer, TypeOK, G!TypeOK, vetoVars, startVars
  <1>4. CASE Stall(w)
    <2>1. pc' \in [Threads -> Places]
      BY <1>4, TypeGoto, LeavingIsPlace DEF Stall, TypeOK
    <2>2. attempt' \in [Threads -> 0 .. Attempts]
      BY <1>4, ClientAssumption DEF Stall, TypeOK
    <2>3. behind' \subseteq Copies
      BY <1>4, TypeNoted DEF Stall
    <2> QED
      BY <1>4, <2>1, <2>2, <2>3 DEF Stall, TypeOK, G!TypeOK, vetoVars, startVars
  <1>5. CASE MaybeSync(w)
    <2>1. pc' \in [Threads -> Places]
      BY <1>5, TypeGoto, LeavingIsPlace DEF MaybeSync
    <2> QED
      BY <1>5, <2>1 DEF MaybeSync, TypeOK, G!TypeOK, vetoVars, startVars, memoryVars
  <1>6. CASE \E found \in SUBSET Suspects : Verify(w, found)
    <2> PICK found \in SUBSET Suspects : Verify(w, found)
      BY <1>6
    <2>1. pc' \in [Threads -> Places]
      BY TypeGoto DEF Verify
    <2>2. G!TypeOK' /\ behind' \subseteq Copies
      BY TypeVerdict DEF Verify
    <2> QED
      BY <2>1, <2>2 DEF Verify, TypeOK, startVars
  <1>7. CASE RefreshGate(w)
    <2>1. pc' \in [Threads -> Places]
      BY <1>7, TypeGoto DEF RefreshGate
    <2>2. G!TypeOK'
      BY <1>7 DEF RefreshGate, G!Veto, G!Refresh, G!ExcludedAmong, TypeOK, G!TypeOK
    <2> QED
      BY <1>7, <2>1, <2>2 DEF RefreshGate, TypeOK, startVars, memoryVars
  <1>8. CASE \E result \in {"raised", "stored", "lost"} : Gossip(w, result)
    <2> PICK result \in {"raised", "stored", "lost"} : Gossip(w, result)
      BY <1>8
    <2>1. pc' \in [Threads -> Places]
      BY TypeGoto, LeavingIsPlace DEF Gossip
    <2> QED
      BY <2>1 DEF Gossip, TypeOK, G!TypeOK, vetoVars, startVars
  <1>9. CASE \E ok \in BOOLEAN : Save(w, ok)
    <2> PICK ok \in BOOLEAN : Save(w, ok)
      BY <1>9
    <2>1. pc' \in [Threads -> Places]
      BY TypeGoto, LeavingIsPlace DEF Save
    <2>2. G!TypeOK' /\ behind' \subseteq Copies
      BY TypeWritten DEF Save
    <2> QED
      BY <2>1, <2>2 DEF Save, TypeOK, startVars
  <1>10. CASE Leave(w)
    <2>1. pc' \in [Threads -> Places]
      BY <1>10, TypeGoto DEF Leave
    <2> QED
      BY <1>10, <2>1 DEF Leave, TypeOK, G!TypeOK, vetoVars, startVars, memoryVars
  <1>11. CASE Unlock(w)
    <2>1. pc' \in [Threads -> Places]
      BY <1>11, TypeGoto DEF Unlock
    <2> QED
      BY <1>11, <2>1 DEF Unlock, TypeOK, G!TypeOK, vetoVars, startVars, memoryVars
  <1> QED
    BY <1>1, <1>2, <1>3, <1>4, <1>5, <1>6, <1>7, <1>8, <1>9, <1>10, <1>11 DEF Request

LEMMA TypeInterrupt == ASSUME TypeOK, Interrupt PROVE TypeOK'
  <1>1. pc' \in [Threads -> Places] /\ attempt' \in [Threads -> 0 .. Attempts]
    BY ClientAssumption DEF Interrupt, Goto, TypeOK, Places
  <1>2. behind' \subseteq Copies
    BY DEF Interrupt, Noted, TypeOK
  <1> QED
    BY <1>1, <1>2 DEF Interrupt, TypeOK, G!TypeOK, Closing, vetoVars, startVars

LEMMA TypeClose == ASSUME TypeOK, Close PROVE TypeOK'
  <1> USE DEF Closing
  <1>1. CASE Detach
    BY <1>1 DEF Detach, TypeOK, G!TypeOK, vetoVars, startVars, requestVars
  <1>2. CASE \E found \in SUBSET Suspects : LastVerify(found)
    BY <1>2, TypeVerdict DEF LastVerify, TypeOK, startVars, requestVars
  <1>3. CASE \E result \in {"raised", "stored", "lost"} : LastGossip(result)
    BY <1>3 DEF LastGossip, TypeOK, G!TypeOK, vetoVars, startVars, requestVars
  <1>4. CASE \E ok \in BOOLEAN : LastSave(ok)
    BY <1>4, TypeWritten DEF LastSave, TypeOK, startVars, requestVars
  <1>5. CASE Shutdown
    BY <1>5, TypeGone DEF Shutdown
  <1> QED
    BY <1>1, <1>2, <1>3, <1>4, <1>5 DEF Close

LEMMA TypeOther ==
  ASSUME TypeOK, Abort \/ (\E f \in {"chat", "gateway"} : NewProcess(f)) \/ Update \/ Around
  PROVE  TypeOK'
  <1>1. CASE Abort
    BY <1>1, TypeGone DEF Abort
  <1>2. CASE \E f \in {"chat", "gateway"} : NewProcess(f)
    BY <1>2 DEF NewProcess, TypeOK, G!TypeOK, Starting, vetoVars, requestVars, memoryVars
  <1>3. CASE Update
    BY <1>3 DEF Update, G!Update, TypeOK, G!TypeOK, startVars, requestVars, memoryVars
  <1>4. CASE Around
    BY <1>4 DEF Around, G!Join, G!Leave, G!Clear, TypeOK, G!TypeOK, startVars, requestVars,
                memoryVars
  <1> QED
    BY <1>1, <1>2, <1>3, <1>4

LEMMA TypeUnchanged == ASSUME TypeOK, UNCHANGED vars PROVE TypeOK'
  BY DEF TypeOK, G!TypeOK, vars, vetoVars, startVars, requestVars, memoryVars

LEMMA TypeNext == ASSUME TypeOK, [Next]_vars PROVE TypeOK'
  BY TypeStart, TypeRequest, TypeInterrupt, TypeClose, TypeOther, TypeUnchanged DEF Next

\* Everything a client keeps has its type, and what the gate holds is what it pushed
\* into Petals, in every life of the process.
THEOREM TypeCorrect == Spec => []TypeOK
  <1>1. Init => TypeOK
    BY TypeInit
  <1>2. TypeOK /\ [Next]_vars => TypeOK'
    BY TypeNext
  <1> QED
    BY <1>1, <1>2, PTL DEF Spec

-----------------------------------------------------------------------------
(* Who is where. *)

\* Before it serves and once it is gone a process has measured nothing.
Quiet ==
    phase \in Starting \cup {"exited"} => behind = {} /\ attached = FALSE

\* A request belongs to the main thread of a chat that is serving, or to the handler
\* that holds the gateway's lock.
Owned ==
    /\ phase \in Starting \cup {"exited"} => \A w \in Threads : pc[w] = "idle"
    /\ frontend = "chat" =>
            /\ \A w \in Handlers : pc[w] = "idle"
            /\ phase # "serving" => pc[Main] = "idle"
    /\ frontend = "gateway" =>
            /\ pc[Main] = "idle"
            /\ \A w \in Handlers : pc[w] # "idle" => lock = w

Up(w) == pc[w] \in Stack \cup {"leaving"}

\* The flag is up from before a request enters the stack until after it has left it.
Flagged == frontend = "gateway" => \A w \in Threads : Up(w) => busy

\* What close() has written is all there is, in a chat.
Complete ==
    /\ phase # "shutting" => ~kept
    /\ frontend = "chat" /\ phase = "shutting" /\ kept => "file" \notin behind

Safe == TypeOK /\ Quiet /\ Owned /\ Flagged /\ Complete

\* What a request's step leaves alone, and what it does with lock and flag.
Shape(w) ==
    /\ w \in Workers /\ Alive
    /\ UNCHANGED <<frontend, phase, attached, kept>>
    /\ \A v \in Threads : v # w => pc'[v] = pc[v]
    /\ frontend = "gateway" =>
            \/ pc[w] # "idle" /\ lock' = lock /\ busy' = busy /\ (Up(w)' => Up(w))
            \/ pc[w] = "idle" /\ lock = Nobody /\ lock' = w /\ busy' = busy /\ ~Up(w)'
            \/ pc[w] = "entering" /\ lock' = lock /\ busy' = TRUE
            \/ pc[w] = "leaving" /\ lock' = lock /\ ~Up(w)'
            \/ pc[w] = "unlocking" /\ pc'[w] = "idle" /\ busy' = busy

LEMMA Others ==
  ASSUME TypeOK, NEW w \in Threads, NEW place, Goto(w, place)
  PROVE  pc'[w] = place /\ \A v \in Threads : v # w => pc'[v] = pc[v]
  BY DEF Goto, TypeOK

LEMMA RequestShape ==
  ASSUME TypeOK, NEW w \in Threads, Ask(w) \/ Request(w)
  PROVE  Shape(w)
  <1> USE Others DEF Shape, At, Up, Stack, Round, Leaving
  <1>1. CASE Ask(w)
    BY <1>1 DEF Ask, memoryVars, startVars
  <1>2. CASE Enter(w)
    BY <1>2 DEF Enter, memoryVars, startVars
  <1>3. CASE Answer(w)
    BY <1>3 DEF Answer, startVars
  <1>4. CASE Stall(w)
    BY <1>4 DEF Stall, startVars
  <1>5. CASE MaybeSync(w)
    BY <1>5 DEF MaybeSync, memoryVars, startVars
  <1>6. CASE \E found \in SUBSET Suspects : Verify(w, found)
    BY <1>6 DEF Verify, startVars
  <1>7. CASE RefreshGate(w)
    BY <1>7 DEF RefreshGate, memoryVars, startVars
  <1>8. CASE \E result \in {"raised", "stored", "lost"} : Gossip(w, result)
    BY <1>8 DEF Gossip, startVars
  <1>9. CASE \E ok \in BOOLEAN : Save(w, ok)
    BY <1>9 DEF Save, startVars
  <1>10. CASE Leave(w)
    BY <1>10 DEF Leave, memoryVars, startVars
  <1>11. CASE Unlock(w)
    BY <1>11 DEF Unlock, memoryVars, startVars
  <1> QED
    BY <1>1, <1>2, <1>3, <1>4, <1>5, <1>6, <1>7, <1>8, <1>9, <1>10, <1>11 DEF Request

LEMMA SafeRequest ==
  ASSUME Safe, NEW w \in Threads, Ask(w) \/ Request(w)
  PROVE  Safe'
  <1>1. TypeOK' /\ Shape(w)
    BY TypeRequest, RequestShape DEF Safe
  <1>2. phase \notin Starting \cup {"exited"}
    BY <1>1 DEF Shape, Alive, Starting, Closing
  <1>3. Owned'
    <2>1. CASE frontend = "chat"
      BY <1>1, <1>2, <2>1, ClientAssumption DEF Safe, Owned, Shape, Workers, Alive, Threads
    <2>2. CASE frontend = "gateway"
      BY <1>1, <1>2, <2>2, ClientAssumption DEF Safe, Owned, Shape, Workers, Threads, TypeOK
    <2> QED
      BY <2>1, <2>2 DEF Safe, TypeOK
  <1>4. Flagged'
    <2> SUFFICES ASSUME frontend = "gateway", NEW v \in Threads, Up(v)'
                 PROVE  busy'
      BY <1>1 DEF Flagged, Shape
    <2>1. CASE v = w
      BY <1>1, <2>1 DEF Safe, Shape, Flagged, Up, Stack, Round
    <2>2. CASE v # w
      <3>1. Up(v) /\ busy
        BY <1>1, <2>2 DEF Safe, Shape, Flagged, Up
      <3>2. lock = v /\ v # Nobody
        BY <3>1, ClientAssumption DEF Safe, Owned, Up, Stack, Round, Threads
      <3>3. pc[w] # "idle" => lock = w
        BY <1>1 DEF Safe, Owned, Shape, Workers
      <3> QED
        BY <1>1, <2>2, <3>1, <3>2, <3>3 DEF Shape
    <2> QED
      BY <2>1, <2>2
  <1>5. Quiet' /\ Complete'
    BY <1>1, <1>2 DEF Safe, Quiet, Complete, Shape, Alive
  <1> QED
    BY <1>1, <1>3, <1>4, <1>5 DEF Safe

LEMMA SafeGone == ASSUME Safe, Gone PROVE Safe'
  <1>1. TypeOK'
    BY TypeGone DEF Safe
  <1>2. \A w \in Threads : pc'[w] = "idle"
    BY DEF Gone
  <1> QED
    BY <1>1, <1>2 DEF Safe, Quiet, Owned, Flagged, Complete, Gone, Up, Stack, Round, Threads

LEMMA SafeStart == ASSUME Safe, Start PROVE Safe'
  <1>1. TypeOK'
    BY TypeStart DEF Safe
  <1> USE DEF Starting, requestVars, memoryVars, startVars
  <1>2. CASE \E ok \in BOOLEAN : Preflight(ok)
    BY <1>1, <1>2, SafeGone DEF Preflight, Safe, Quiet, Owned, Flagged, Complete, Up
  <1>3. CASE Routable
    BY <1>1, <1>3 DEF Routable, Noted, Closing, Safe, Quiet, Owned, Flagged, Complete, Up
  <1>4. CASE GiveUp
    BY <1>4, SafeGone DEF GiveUp
  <1>5. CASE \E took \in 0 .. MaxProbe : NotYet(took)
    BY <1>1, <1>5
       DEF NotYet, MaybeNoted, Noted, Closing, Safe, Quiet, Owned, Flagged, Complete, Up
  <1>6. CASE \E wrapped, complete \in BOOLEAN : StartReputation(wrapped, complete)
    BY <1>1, <1>6 DEF StartReputation, Safe, Quiet, Owned, Flagged, Complete, Up, Threads
  <1> QED
    BY <1>2, <1>3, <1>4, <1>5, <1>6 DEF Start

LEMMA SafeInterrupt == ASSUME Safe, Interrupt PROVE Safe'
  <1>1. TypeOK'
    BY TypeInterrupt DEF Safe
  <1>2. Owned'
    <2>1. CASE frontend = "chat"
      BY <2>1, ClientAssumption
         DEF Interrupt, Goto, Safe, Owned, Starting, startVars, Threads, TypeOK
    <2>2. CASE frontend = "gateway"
      BY <2>2 DEF Interrupt, Safe, Owned, Starting, startVars
    <2> QED
      BY <2>1, <2>2 DEF Safe, TypeOK
  <1>3. Quiet' /\ Complete' /\ Flagged'
    BY DEF Interrupt, Safe, Quiet, Complete, Flagged, Up, Starting, startVars
  <1> QED
    BY <1>1, <1>2, <1>3 DEF Safe

LEMMA SafeClose == ASSUME Safe, Close PROVE Safe'
  <1>1. TypeOK'
    BY TypeClose DEF Safe
  <1> USE DEF Starting, startVars, requestVars
  <1>2. CASE Detach
    BY <1>1, <1>2 DEF Detach, Safe, Quiet, Owned, Flagged, Complete, Up
  <1>3. CASE \E found \in SUBSET Suspects : LastVerify(found)
    BY <1>1, <1>3 DEF LastVerify, Safe, Quiet, Owned, Flagged, Complete, Up
  <1>4. CASE \E result \in {"raised", "stored", "lost"} : LastGossip(result)
    BY <1>1, <1>4 DEF LastGossip, Safe, Quiet, Owned, Flagged, Complete, Up
  <1>5. CASE \E ok \in BOOLEAN : LastSave(ok)
    BY <1>1, <1>5 DEF LastSave, Written, Safe, Quiet, Owned, Flagged, Complete, Up
  <1>6. CASE Shutdown
    BY <1>6, SafeGone DEF Shutdown
  <1> QED
    BY <1>2, <1>3, <1>4, <1>5, <1>6 DEF Close

LEMMA SafeOther ==
  ASSUME Safe, Abort \/ (\E f \in {"chat", "gateway"} : NewProcess(f)) \/ Update \/ Around
  PROVE  Safe'
  <1>1. TypeOK'
    BY TypeOther DEF Safe
  <1>2. CASE Abort
    BY <1>2, SafeGone DEF Abort
  <1>3. CASE \E f \in {"chat", "gateway"} : NewProcess(f)
    <2>1. \A w \in Threads : pc'[w] = "idle"
      BY <1>3 DEF NewProcess, requestVars, Safe, Owned
    <2> QED
      BY <1>1, <1>3, <2>1
         DEF NewProcess, memoryVars, Safe, Quiet, Owned, Flagged, Complete, Up, Stack, Round,
             Starting, Threads
  <1>4. CASE Update
    BY <1>1, <1>4
       DEF Update, startVars, requestVars, memoryVars, Safe, Quiet, Owned, Flagged, Complete, Up
  <1>5. CASE Around
    BY <1>1, <1>5
       DEF Around, startVars, requestVars, memoryVars, Safe, Quiet, Owned, Flagged, Complete, Up
  <1> QED
    BY <1>2, <1>3, <1>4, <1>5

LEMMA SafeUnchanged == ASSUME Safe, UNCHANGED vars PROVE Safe'
  <1>1. TypeOK'
    BY TypeUnchanged DEF Safe
  <1> QED
    BY <1>1 DEF Safe, Quiet, Owned, Flagged, Complete, Up, vars, startVars, requestVars,
                memoryVars

LEMMA SafeInit == ASSUME Init PROVE Safe
  <1>1. \A w \in Threads : pc[w] = "idle"
    BY DEF Init
  <1> QED
    BY <1>1, TypeInit
       DEF Init, Safe, Quiet, Owned, Flagged, Complete, Up, Stack, Round, Threads

LEMMA SafeAlways == Spec => []Safe
  <1>1. Init => Safe
    BY SafeInit
  <1>2. Safe /\ [Next]_vars => Safe'
    BY SafeStart, SafeRequest, SafeInterrupt, SafeClose, SafeOther, SafeUnchanged DEF Next
  <1> QED
    BY <1>1, <1>2, PTL DEF Spec

-----------------------------------------------------------------------------
(* What follows from it. *)

\* As long as a process serves, no two threads are in the stack that is not thread-safe:
\* GatewayState._lock, and a chat's having one thread, keep them apart.
THEOREM Exclusion == Spec => []OneAtATime
  <1>1. Safe => OneAtATime
    BY ClientAssumption
       DEF Safe, TypeOK, Owned, OneAtATime, Inside, Stack, Round, Threads
  <1> QED
    BY <1>1, SafeAlways, PTL

\* The busy flag is up whenever a request is in the stack.
THEOREM FlagIsRight == Spec => []BusyWhileRunning
  <1>1. Safe => BusyWhileRunning
    BY DEF Safe, Flagged, BusyWhileRunning, Inside, Up
  <1> QED
    BY <1>1, SafeAlways, PTL

\* Nothing is measured before the warm-up is over.
THEOREM StartsClean == Spec => []WarmUpNotMeasured
  <1>1. Safe => WarmUpNotMeasured
    BY DEF Safe, Quiet, WarmUpNotMeasured
  <1> QED
    BY <1>1, SafeAlways, PTL

\* A chat that has been closed to the end has written everything it knew.
THEOREM CloseIsComplete == Spec => []ChatKeepsEverything
  <1>1. Safe => ChatKeepsEverything
    BY DEF Safe, Complete, ChatKeepsEverything
  <1> QED
    BY <1>1, SafeAlways, PTL

=============================================================================
