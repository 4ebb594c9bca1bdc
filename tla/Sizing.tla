------------------------------- MODULE Sizing -------------------------------
(***************************************************************************)
(* "What hardware do I have?" turned into "host N blocks of this model"    *)
(* (cli/hardware.py), and which model and settings a command line means in *)
(* a swarm (cli/swarm.py, main() in cli/main.py).  Both are computed once, *)
(* before a server starts.                                                 *)
(*                                                                         *)
(* A configuration is a record of the fields of config.json that are read; *)
(* a field the file does not have is 0.  Memory is in any unit.            *)
(***************************************************************************)
EXTENDS Integers, FiniteSets, FiniteSetsExt

CONSTANTS Thousandths,     \* BYTES_PER_PARAM, in thousandths of a unit
          GroupedTokens,   \* Petals' attention cache for grouped queries, 16384
          PlainTokens,     \* and for others, 4096
          MinReserve,      \* MIN_RESERVE_BYTES
          ReservePercent,  \* RESERVE_FRACTION
          Supported,       \* SUPPORTED_MODEL_TYPES
          Swarm,           \* what the swarm file says, or NoSwarm
          DefaultModel,
          NoSwarm, NoName, NoTokens

ASSUME TokensAssumption == GroupedTokens \in Nat \ {0} /\ PlainTokens \in Nat \ {0}
ASSUME ReserveAssumption == MinReserve \in Nat /\ ReservePercent \in 0..99

\* The fields that are read, as a checkpoint that was published has them.
Configuration(c) ==
    c \in [hidden : Nat, intermediate : Nat, heads : Nat \ {0}, kvHeads : Nat, headDim : Nat,
           moeIntermediate : Nat, routed : Nat, shared : Nat, firstDense : Nat, freq : Nat,
           qkNope : Nat, qkRope : Nat, vDim : Nat, layers : Nat \ {0}, type : {c.type}]

Largest(S) == Max(S)
Or(a, b) == IF a = 0 THEN b ELSE a

-----------------------------------------------------------------------------
(* Blocks are not uniform: a mixture of experts may begin with dense       *)
(* layers, and have an expert layer only every so often after that.        *)

ParamsPerBlock(c) ==
    LET kv == Or(c.kvHeads, c.heads)
        width == Or(c.headDim, c.hidden \div c.heads)
        inner == Or(c.moeIntermediate, c.intermediate)
        mlp == IF c.routed > 0
               THEN (c.routed + c.shared) * 3 * c.hidden * inner + c.hidden * c.routed
               ELSE 3 * c.hidden * c.intermediate
    IN 2 * c.hidden * c.heads * width + 2 * c.hidden * kv * width + mlp + 2 * c.hidden

IsMoeLayer(c, i) ==
    /\ c.routed > 0
    /\ i >= c.firstDense
    /\ (i - c.firstDense) % Or(c.freq, 1) = 0

ParamsPerLayer(c, i) ==
    ParamsPerBlock(IF IsMoeLayer(c, i) THEN c ELSE [c EXCEPT !.routed = 0, !.shared = 0])

Weight(params, quant) == (params * Thousandths[quant]) \div 1000

\* What attention stores per token, times the tokens the server keeps.
CachePerBlock(c, tokens) ==
    LET groups == Largest({1, c.heads \div Or(c.kvHeads, c.heads)})
        width == IF c.qkNope > 0 /\ c.qkRope > 0
                 THEN c.heads * (c.qkNope + c.qkRope + Or(c.vDim, c.qkNope))
                 ELSE (2 * c.hidden) \div groups
        kept == IF tokens # NoTokens THEN tokens
                ELSE IF groups > 1 THEN GroupedTokens ELSE PlainTokens
    IN width * kept * 2

\* The largest layer: a volunteer does not choose which range is assigned.
MutPerBlock(c, quant, tokens) ==
    Weight(ParamsPerLayer(c, 0), quant) + CachePerBlock(c, tokens)
PerBlock(c, quant, tokens) ==
    Weight(Largest({ParamsPerLayer(c, i) : i \in 0..c.layers - 1}), quant)
       + CachePerBlock(c, tokens)

Usable(total, free) ==
    Largest({0, free - Largest({MinReserve, (total * ReservePercent) \div 100})})

MutPlanBlocks(c, total, free, quant, tokens) ==
    Usable(total, free) \div PerBlock(c, quant, tokens)
PlanBlocks(c, total, free, quant, tokens) ==
    Min({c.layers, Usable(total, free) \div PerBlock(c, quant, tokens)})

\* What a server of the blocks R of c holds once it has loaded them.
Load(c, R, quant, tokens) ==
    SumFunction([i \in R |-> Weight(ParamsPerLayer(c, i), quant) + CachePerBlock(c, tokens)])

-----------------------------------------------------------------------------
(* Everyone in a swarm must name the same model: an alias, or no name at   *)
(* all, stands for what the swarm file declares, with its settings.        *)

Plain(id) == [id |-> id, tokens |-> NoTokens]
Declared == {Swarm.models[a] : a \in DOMAIN Swarm.models}

Choice(requested) ==
    IF Swarm = NoSwarm
    THEN Plain(IF requested = NoName THEN DefaultModel ELSE requested)
    ELSE IF requested \in DOMAIN Swarm.models THEN Swarm.models[requested]
    ELSE IF requested # NoName THEN Plain(requested)
    ELSE IF \E m \in Declared : m.id = Swarm.model
         THEN CHOOSE m \in Declared : m.id = Swarm.model
    ELSE Plain(Swarm.model)

\* An explicit flag wins; of the swarm's settings only a positive one counts.
Tokens(requested, explicit) ==
    IF explicit = NoTokens /\ Choice(requested).tokens # 0
    THEN Choice(requested).tokens ELSE explicit

\* The server is told of a budget only if it is not zero.
ServerTokens(tokens) == IF tokens = 0 THEN NoTokens ELSE tokens
=============================================================================
