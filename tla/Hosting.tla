------------------------------ MODULE Hosting ------------------------------
(***************************************************************************)
(* The servers of one machine: what `seedmesh serve` does before and while *)
(* a Petals server runs (_cmd_serve, cli/main.py), how it clears what an   *)
(* earlier session left behind (cli/stale.py), and the background thread   *)
(* that tells the volunteer whether the swarm can see the new server       *)
(* (cli/visibility.py).                                                    *)
(*                                                                         *)
(* Servers outlive the terminals that started them; a server whose parent  *)
(* is gone is a child of init.  Announcements outlive servers: only one    *)
(* that shuts down by itself withdraws its own.  A server stands for the   *)
(* whole process tree Petals runs, has a pid no other process of the       *)
(* machine gets, and a peer id of its own.                                 *)
(***************************************************************************)
EXTENDS Sizing

CONSTANTS Terminals,   \* where a volunteer types commands
          MaxServers,  \* bound on the servers started
          Commands,    \* command lines of `seedmesh serve`, all with bootstrap peers
          Config,      \* what the configuration of each model says
          Mentions,    \* <<a, b>>: the name of model a occurs in that of b
          Total,       \* memory of the GPU
          Checks,      \* visibility.watch: how often it looks
          Nobody,      \* no owner: the server does not run
          TheInit,     \* process 1
          NoBaseline,  \* None: a read of the swarm that raised
          NoCommand    \* nothing was typed

Servers == 1..MaxServers
Phases == {"idle", "scan", "signal", "grace", "baseline", "launch", "serving"}
Verdicts == {"none", "skipped", "visible", "not visible"}

ASSUME ConfigAssumption == /\ DOMAIN Config # {} /\ IsFiniteSet(DOMAIN Config)
                           /\ \A m \in DOMAIN Config : Configuration(Config[m])
ASSUME MentionsAssumption == \A m \in DOMAIN Config : <<m, m>> \in Mentions
ASSUME BoundsAssumption == MaxServers \in Nat /\ Checks \in Nat \ {0} /\ Total \in Nat
ASSUME NamesAssumption == /\ {Nobody, TheInit} \cap Terminals = {}
                          /\ \A S \in SUBSET Servers : S # NoBaseline

VARIABLES at,         \* "unused", "up", "closing" or "gone"
          owner,      \* the terminal a server is a child of, or init
          model,      \* the model it serves
          load,       \* the memory it holds
          records,    \* announcements the DHT answers with
          phase,      \* where the command of each terminal is
          command,    \* and what was typed
          room,       \* the memory it was sized for; 0 when it was not
          blocks,     \* how many blocks it will ask for
          leftovers,  \* the processes it is clearing
          signalled,  \* and those that got its SIGTERM
          mine,       \* the server it launched
          baseline,   \* who was seen in the swarm before
          left,       \* checks the watching thread has left, 0 when it has ended
          verdict,    \* what the thread printed
          found,      \* history: whom its last read found new
          present,    \* history: who really was announced at the baseline
          missed,     \* history: whom the read of the baseline left out
          shown       \* history: one of its checks saw its own server
machine == <<at, owner, model, load>>
sizes == <<command, room, blocks>>
cleaning == <<leftovers, signalled>>
watching == <<baseline, left, verdict, found, present, missed, shown>>
vars == <<machine, records, phase, sizes, cleaning, mine, watching>>

-----------------------------------------------------------------------------
Alive(s) == at[s] \in {"up", "closing"}
Holding == {s \in Servers : Alive(s)}
Free == Largest({0, Total - SumFunction(load)})

\* The announcements for a model.
Announced(id) == {s \in records : model[s] = id}

Id(t) == Choice(command[t].name).id
Budget(c) == Tokens(c.name, c.tokens)

\* Commands name models that exist and ask for layers those have (Petals refuses
\* others); -1 blocks and no range is a command that asks for neither.
ASSUME CommandsAssumption ==
    \A c \in Commands :
       LET conf == Config[Choice(c.name).id]
       IN /\ Choice(c.name).id \in DOMAIN Config
          /\ Thousandths[c.quant] \in Nat
          /\ Budget(c) \in Nat \cup {NoTokens}
          /\ PerBlock(conf, c.quant, Budget(c)) > 0
          /\ c.count \in -1..conf.layers /\ c.range \subseteq 0..conf.layers - 1

\* list_petals_servers and stale_for: orphans of this model.
Orphaned(s) == owner[s] = TheInit
Found(id) == {s \in Holding : <<id, model[s]>> \in Mentions}
MutStaleFor(id) == Found(id)
StaleFor(id) == {s \in Found(id) : Orphaned(s)}
OthersFor(id) == {s \in Found(id) : ~Orphaned(s)}

Unused == {s \in Servers : at[s] = "unused"}
Starts(s) == s \in Unused /\ \A u \in Unused : s <= u

\* A process that is gone holds no memory and has no parent.
Vanish(S) == /\ at' = [s \in Servers |-> IF s \in S THEN "gone" ELSE at[s]]
             /\ load' = [s \in Servers |-> IF s \in S THEN 0 ELSE load[s]]
             /\ owner' = [s \in Servers |-> IF s \in S THEN Nobody ELSE owner[s]]

-----------------------------------------------------------------------------
(* The command.                                                            *)

\* A config that cannot be read is not fatal, unless the size depends on it.
Refused(c, fetched) ==
    LET conf == Config[Choice(c.name).id]
    IN \/ fetched /\ conf.type \notin Supported
       \/ c.count = 0
       \/ ~fetched /\ c.count = -1 /\ c.range = {}
       \/ c.publicIp /\ ~c.fixedPort

Serve(t, c, fetched) ==
    LET id == Choice(c.name).id
        auto == c.count = -1 /\ c.range = {}
        plan == PlanBlocks(Config[id], Total, Free, c.quant, Budget(c))
    IN /\ phase[t] = "idle"
       /\ ~Refused(c, fetched)
       /\ command' = [command EXCEPT ![t] = c]
       /\ blocks' = [blocks EXCEPT ![t] =
              IF auto THEN Largest({1, plan}) ELSE IF c.range = {} THEN c.count ELSE 0]
       /\ room' = [room EXCEPT ![t] =
              IF auto /\ plan > 0 THEN Usable(Total, Free) ELSE 0]
       /\ phase' = [phase EXCEPT ![t] = "scan"]
       /\ UNCHANGED <<machine, records, cleaning, mine, watching>>

Scan(t) ==
    LET id == Id(t)
        kept == StaleFor(id) \cup IF command[t].replace THEN OthersFor(id) ELSE {}
    IN /\ phase[t] = "scan"
       /\ leftovers' = [leftovers EXCEPT ![t] = kept]
       /\ phase' = [phase EXCEPT ![t] = IF kept = {} THEN "baseline" ELSE "signal"]
       /\ UNCHANGED <<machine, records, sizes, signalled, mine, watching>>

\* terminate: SIGTERM, three seconds, SIGKILL for what is still there.
Terminate(t) ==
    LET reached == {s \in leftovers[t] : Alive(s)}
    IN /\ phase[t] = "signal"
       /\ at' = [s \in Servers |-> IF s \in reached /\ at[s] = "up" THEN "closing" ELSE at[s]]
       /\ signalled' = [signalled EXCEPT ![t] = reached]
       /\ phase' = [phase EXCEPT ![t] = IF reached = {} THEN "baseline" ELSE "grace"]
       /\ UNCHANGED <<owner, model, load, records, sizes, leftovers, mine, watching>>

MutHardKill(t) ==
    /\ phase[t] = "grace"
    /\ phase' = [phase EXCEPT ![t] = "baseline"]
    /\ UNCHANGED <<machine, records, sizes, cleaning, mine, watching>>
HardKill(t) ==
    /\ phase[t] = "grace"
    /\ Vanish({s \in signalled[t] : Alive(s)})
    /\ phase' = [phase EXCEPT ![t] = "baseline"]
    /\ UNCHANGED <<model, records, sizes, cleaning, mine, watching>>

\* A read looks up one key per block.  A lookup that fails is one nobody answered
\* (_read_blocks, dht_fetch), so any part of what is announced may be missing, all
\* of it included; only what raises, a connection or the model's configuration, is
\* told apart.
Read(id) == {NoBaseline} \cup SUBSET Announced(id)

\* Mutant: a baseline that could not be read is taken for an empty swarm.
MutBefore(t, seen) == [baseline EXCEPT ![t] = IF seen = NoBaseline THEN {} ELSE seen]
Before(t, seen) == [baseline EXCEPT ![t] = seen]

TakeBaseline(t) ==
    LET id == Id(t)
    IN /\ phase[t] = "baseline"
       /\ phase' = [phase EXCEPT ![t] = "launch"]
       /\ IF command[t].watch
          THEN \E seen \in Read(id) :
                  /\ baseline' = Before(t, seen)
                  /\ present' = [present EXCEPT ![t] = Announced(id)]
                  /\ missed' = [missed EXCEPT ![t] =
                         IF seen = NoBaseline THEN {} ELSE Announced(id) \ seen]
          ELSE UNCHANGED <<baseline, present, missed>>
       /\ UNCHANGED <<machine, records, sizes, cleaning, mine, left, verdict, found, shown>>

\* Petals places a server of n blocks anywhere, an explicit range where it says.
Ranges(t) ==
    IF blocks[t] = 0 THEN {command[t].range}
    ELSE {a..(a + blocks[t] - 1) : a \in 0..Config[Id(t)].layers - blocks[t]}

\* The watching thread starts just before the server does.
Launch(t) ==
    LET c == command[t]
    IN /\ phase[t] = "launch"
       /\ phase' = [phase EXCEPT ![t] = "serving"]
       /\ \E s \in Servers :
             /\ Starts(s)
             /\ mine' = [mine EXCEPT ![t] = s]
             /\ at' = [at EXCEPT ![s] = "up"]
             /\ owner' = [owner EXCEPT ![s] = t]
             /\ model' = [model EXCEPT ![s] = Id(t)]
             /\ \E R \in Ranges(t) :
                   load' = [load EXCEPT ![s] =
                              Load(Config[Id(t)], R, c.quant, ServerTokens(Budget(c)))]
       /\ left' = [left EXCEPT ![t] = IF c.watch THEN Checks ELSE 0]
       /\ blocks' = [blocks EXCEPT ![t] = 0]
       /\ leftovers' = [leftovers EXCEPT ![t] = {}]
       /\ signalled' = [signalled EXCEPT ![t] = {}]
       /\ UNCHANGED <<records, command, room, baseline, verdict, found, present, missed, shown>>

Rest(t) == /\ phase' = [phase EXCEPT ![t] = "idle"]
           /\ left' = [left EXCEPT ![t] = 0]
           /\ room' = [room EXCEPT ![t] = 0]
           /\ leftovers' = [leftovers EXCEPT ![t] = {}]
           /\ signalled' = [signalled EXCEPT ![t] = {}]
           /\ mine' = [mine EXCEPT ![t] = 0]
           /\ baseline' = [baseline EXCEPT ![t] = {}]
           /\ verdict' = [verdict EXCEPT ![t] = "none"]
           /\ found' = [found EXCEPT ![t] = {}]
           /\ present' = [present EXCEPT ![t] = {}]
           /\ missed' = [missed EXCEPT ![t] = {}]
           /\ shown' = [shown EXCEPT ![t] = FALSE]
           /\ blocks' = [blocks EXCEPT ![t] = 0]
           /\ command' = [command EXCEPT ![t] = NoCommand]

\* The server ended, and subprocess.call with it.
End(t) ==
    /\ phase[t] = "serving" /\ ~Alive(mine[t])
    /\ Rest(t)
    /\ UNCHANGED <<machine, records>>

\* Ctrl-C reaches the whole group, and subprocess.call kills the server if it is
\* not gone within a quarter of a second; children it started may survive.
Interrupt(t) ==
    LET s == mine[t]
    IN /\ phase[t] = "serving"
       /\ \/ Vanish({s}) /\ records' \in {records, records \ {s}}
          \/ Alive(s) /\ owner' = [owner EXCEPT ![s] = TheInit] /\ UNCHANGED <<at, records, load>>
       /\ Rest(t)
       /\ UNCHANGED model

\* A closed terminal, a kill -9.
Hangup(t) ==
    /\ phase[t] # "idle"
    /\ owner' = [s \in Servers |-> IF owner[s] = t THEN TheInit ELSE owner[s]]
    /\ Rest(t)
    /\ UNCHANGED <<at, model, load, records>>

-----------------------------------------------------------------------------
(* The watching thread.                                                    *)

NewArrivals(before, after) ==
    IF before = NoBaseline \/ after = NoBaseline THEN {} ELSE after \ before

MutSkip(t) ==
    /\ left[t] > 0 /\ baseline[t] = NoBaseline
    /\ left' = [left EXCEPT ![t] = 0]
    /\ UNCHANGED <<machine, records, phase, sizes, cleaning, mine, baseline, verdict, found, present,
                   missed, shown>>
Skip(t) ==
    /\ left[t] > 0 /\ baseline[t] = NoBaseline
    /\ verdict' = [verdict EXCEPT ![t] = "skipped"]
    /\ left' = [left EXCEPT ![t] = 0]
    /\ UNCHANGED <<machine, records, phase, sizes, cleaning, mine, baseline, found, present,
                   missed, shown>>

\* A connection that cannot be opened counts like a read that raises.
Look(t, seen) ==
    LET new == NewArrivals(baseline[t], seen)
    IN /\ left[t] > 0 /\ baseline[t] # NoBaseline
       /\ found' = [found EXCEPT ![t] = new]
       /\ shown' = [shown EXCEPT ![t] = @ \/ (seen # NoBaseline /\ mine[t] \in seen)]
       /\ left' = [left EXCEPT ![t] = IF new # {} THEN 0 ELSE left[t] - 1]
       /\ verdict' = [verdict EXCEPT ![t] =
              IF new # {} THEN "visible" ELSE IF left[t] = 1 THEN "not visible" ELSE "none"]
       /\ UNCHANGED <<machine, records, phase, sizes, cleaning, mine, baseline, present, missed>>
Watch(t) == \/ Skip(t)
            \/ left[t] > 0 /\ \E seen \in Read(Id(t)) : Look(t, seen)

-----------------------------------------------------------------------------
(* The servers and the swarm.                                              *)

Announce(s) ==
    /\ at[s] = "up" /\ s \notin records
    /\ records' = records \cup {s}
    /\ UNCHANGED <<machine, phase, sizes, cleaning, mine, watching>>

\* A server that was asked to close withdraws its announcements, when it gets to it.
Close(s) ==
    /\ at[s] = "closing"
    /\ Vanish({s})
    /\ records' = records \ {s}
    /\ UNCHANGED <<model, phase, sizes, cleaning, mine, watching>>

Die(s) ==
    /\ at[s] = "up"
    /\ Vanish({s})
    /\ UNCHANGED <<model, records, phase, sizes, cleaning, mine, watching>>

Expire(s) ==
    /\ s \in records /\ at[s] = "gone"
    /\ records' = records \ {s}
    /\ UNCHANGED <<machine, phase, sizes, cleaning, mine, watching>>

Init ==
    /\ at = [s \in Servers |-> "unused"] /\ owner = [s \in Servers |-> Nobody]
    /\ model = [s \in Servers |-> NoName] /\ load = [s \in Servers |-> 0]
    /\ records = {}
    /\ phase = [t \in Terminals |-> "idle"]
    /\ command = [t \in Terminals |-> NoCommand]
    /\ room = [t \in Terminals |-> 0] /\ blocks = [t \in Terminals |-> 0]
    /\ leftovers = [t \in Terminals |-> {}] /\ signalled = [t \in Terminals |-> {}]
    /\ mine = [t \in Terminals |-> 0]
    /\ baseline = [t \in Terminals |-> {}] /\ left = [t \in Terminals |-> 0]
    /\ verdict = [t \in Terminals |-> "none"]
    /\ found = [t \in Terminals |-> {}] /\ present = [t \in Terminals |-> {}]
    /\ missed = [t \in Terminals |-> {}] /\ shown = [t \in Terminals |-> FALSE]

Working(t) == Scan(t) \/ Terminate(t) \/ HardKill(t) \/ TakeBaseline(t) \/ Launch(t)

Next ==
    \/ \E t \in Terminals :
          \/ \E c \in Commands, fetched \in BOOLEAN : Serve(t, c, fetched)
          \/ Working(t) \/ End(t) \/ Interrupt(t) \/ Hangup(t) \/ Watch(t)
    \/ \E s \in Servers : Announce(s) \/ Close(s) \/ Die(s) \/ Expire(s)

Spec == Init /\ [][Next]_vars
\* The watching thread is scheduled; nothing else has to happen.
FairSpec == Spec /\ \A t \in Terminals : WF_vars(Watch(t))

-----------------------------------------------------------------------------
TypeOK ==
    /\ at \in [Servers -> {"unused", "up", "closing", "gone"}]
    /\ owner \in [Servers -> Terminals \cup {TheInit, Nobody}]
    /\ model \in [Servers -> DOMAIN Config \cup {NoName}]
    /\ load \in [Servers -> Nat]
    /\ records \subseteq Servers
    /\ phase \in [Terminals -> Phases]
    /\ command \in [Terminals -> {NoCommand} \cup Commands]
    /\ room \in [Terminals -> Nat] /\ blocks \in [Terminals -> 0..Largest({Config[m].layers : m \in DOMAIN Config})]
    /\ leftovers \in [Terminals -> SUBSET Servers]
    /\ signalled \in [Terminals -> SUBSET Servers]
    /\ mine \in [Terminals -> 0..MaxServers]
    /\ baseline \in [Terminals -> {NoBaseline} \cup SUBSET Servers]
    /\ left \in [Terminals -> 0..Checks]
    /\ verdict \in [Terminals -> Verdicts]
    /\ found \in [Terminals -> SUBSET Servers] /\ present \in [Terminals -> SUBSET Servers]
    /\ missed \in [Terminals -> SUBSET Servers] /\ shown \in [Terminals -> BOOLEAN]

\* stale.py:9-13: a server whose parent is alive is asked to close only by a
\* command for its model that said --replace, whatever the terminals start, clear
\* and abandon meanwhile.
LiveLeftAlone ==
    [][\A s \in Servers :
         at[s] = "up" /\ owner[s] \in Terminals /\ at'[s] = "closing"
           => \E t \in Terminals : /\ phase[t] = "signal" /\ command[t].replace
                                   /\ Id(t) = model[s]]_vars

\* When a server is launched, none of the leftovers its command set out to clear
\* is still running, though one of them may have ignored SIGTERM and another
\* command may have been clearing the same ones.
LeftoversStopped ==
    \A t \in Terminals : phase[t] \in {"baseline", "launch"} =>
       \A s \in leftovers[t] : at[s] = "gone"

\* A server that was sized automatically never holds more memory than it was
\* sized for, whichever blocks the swarm gives it.
PlanHolds ==
    \A t \in Terminals :
       phase[t] = "serving" /\ room[t] > 0 => load[mine[t]] <= room[t]

\* "VISIBLE" names somebody who was in the swarm before the launch only where the
\* read of the baseline answered and left that peer out, never because the read
\* raised or a later one did; and "NOT VISIBLE" is never said of a server that a
\* check has seen, whatever other checks missed and whoever else comes and goes.
VerdictIsRight ==
    \A t \in Terminals :
       /\ verdict[t] = "visible" =>
              found[t] # {} /\ found[t] \cap present[t] \subseteq missed[t]
       /\ verdict[t] = "not visible" => ~shown[t]

\* The volunteer who launched a server is told something about its visibility, even
\* if no read of the swarm ever succeeds, unless the session ends first.
VerdictComes ==
    \A t \in Terminals :
       phase[t] = "serving" /\ command[t].watch ~> verdict[t] # "none" \/ phase[t] # "serving"
=============================================================================
