----------------------------- MODULE MCRequests -----------------------------
(***************************************************************************)
(* Three servers whose ranges overlap, one of them lazy, and four          *)
(* observers, two of them in one network.                                  *)
(***************************************************************************)
EXTENDS Requests, TLC

CONSTANTS o1, o2, o3, o4, netA, netB, netK, netH

MCClusterOf == o1 :> netA @@ o2 :> netB @@ o3 :> netK @@ o4 :> netK @@ 1 :> netH @@ 2 :> netA @@ 3 :> Unknown
MCPlaces == 1 :> {0..2} @@ 2 :> {0..1, 0..2} @@ 3 :> {1..2}
Report(s, ok, failed, bad) == [subject |-> s, ok |-> ok, failed |-> failed, mismatches |-> bad]
MCOpinions == {{Report(1, 4, 0, 0), Report(3, 0, 3, 0), Report(2, 1, 0, 0)},
               {Report(1, 0, 4, 1)}}
MCReportSize == [s \in 1..3 |-> 2]
MCBonus == 0 :> 25 @@ 1 :> 18 @@ 2 :> 14
=============================================================================
