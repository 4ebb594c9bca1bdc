----------------------------- MODULE MCHosting -----------------------------
(***************************************************************************)
(* Instances of Hosting: a dense model, the default of the swarm, and a    *)
(* mixture of experts that the swarm names by an alias and whose first     *)
(* layer is dense, on a GPU that has room for all of it, but not beside    *)
(* another server.  The second command names no model; the third is one    *)
(* that is refused, for want of a fixed port.                              *)
(***************************************************************************)
EXTENDS Hosting, TLC

CONSTANTS small, big, alias, Dense, Moe, t1, t2

Layer == [hidden |-> 1, intermediate |-> 1, heads |-> 1, kvHeads |-> 0, headDim |-> 0,
          moeIntermediate |-> 0, routed |-> 0, shared |-> 0, firstDense |-> 0, freq |-> 0,
          qkNope |-> 0, qkRope |-> 0, vDim |-> 0]
MCConfig == small :> (Layer @@ [layers |-> 2, type |-> Dense])
         @@ big :> ([Layer EXCEPT !.routed = 2, !.shared = 1, !.firstDense = 1]
                      @@ [layers |-> 3, type |-> Moe])
MCSwarm == [model |-> small, models |-> alias :> [id |-> big, tokens |-> 1]]
MCThousandths == "nf4" :> 516

Typed == [name |-> NoName, quant |-> "nf4", count |-> -1, range |-> {}, tokens |-> NoTokens,
          replace |-> FALSE, watch |-> FALSE, publicIp |-> FALSE,
          fixedPort |-> FALSE]
MCCommands == {[Typed EXCEPT !.name = alias, !.watch = TRUE],
               [Typed EXCEPT !.range = {0}, !.replace = TRUE, !.publicIp = TRUE, !.fixedPort = TRUE],
               [Typed EXCEPT !.name = alias, !.watch = TRUE, !.publicIp = TRUE]}
MCMentions == {<<small, small>>, <<big, big>>}
=============================================================================
