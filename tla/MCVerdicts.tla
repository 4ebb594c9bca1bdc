----------------------------- MODULE MCVerdicts -----------------------------
(***************************************************************************)
(* Two GPUs and two modes, fp16 and NF4.  The numbers keep the proportions *)
(* measured in the repository: about 0.002 between GPUs, 0.005 between two *)
(* NF4 servers and 0.055 between fp16 and NF4.  Four sessions: one per     *)
(* GPU, a second one on the first GPU without NF4, and a short one taken   *)
(* with other inputs.  Of what the cheat may forge, one sketch is far off, *)
(* one lies near the bound of the placeholder, and one is of another       *)
(* hidden dimension.                                                       *)
(***************************************************************************)
EXTENDS Verdicts, TLC

CONSTANTS h1, h2, c1, A, B, X, gpuA, gpuB, fp16, nf4

S(value, norm) == [value |-> value, norm |-> norm, dim |-> 1]

TheOutput ==
    gpuA :> (fp16 :> <<S(1000, 2000), S(1010, 1990)>> @@
             nf4  :> <<S(1060, 2080), S(952, 1900)>>) @@
    gpuB :> (fp16 :> <<S(1002, 2001), S(1013, 1990)>> @@
             nf4  :> <<S(1055, 2070), S(955, 1900)>>)

TheForged == {S(400, 2000), S(1170, 2000), [value |-> 1000, norm |-> 2000, dim |-> 2]}

TheSessions ==
    {[gpu |-> gpuA, modes |-> {fp16, nf4}, samples |-> 2, inputs |-> 1],
     [gpu |-> gpuB, modes |-> {fp16, nf4}, samples |-> 2, inputs |-> 1],
     [gpu |-> gpuA, modes |-> {fp16}, samples |-> 2, inputs |-> 1],
     [gpu |-> gpuB, modes |-> {fp16, nf4}, samples |-> 1, inputs |-> 2]}

TheClusterOf == h1 :> A @@ h2 :> B @@ c1 :> X
TheGpu == h1 :> gpuA @@ h2 :> gpuB @@ c1 :> gpuB
TheMode == h1 :> fp16 @@ h2 :> fp16 @@ c1 :> nf4
TheProfile == h1 :> fp16 @@ h2 :> fp16 @@ c1 :> nf4

Newcomers == [p \in Peers |-> 0]

=============================================================================
