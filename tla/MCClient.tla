------------------------------ MODULE MCClient ------------------------------
(***************************************************************************)
(* Client: one server that may be convicted and cleared, two request       *)
(* threads, two attempts.                                                  *)
(***************************************************************************)
EXTENDS Client, TLC

CONSTANTS p1, p2, main, t1, t2, nobody

=============================================================================
