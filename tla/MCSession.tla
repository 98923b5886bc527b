----------------------------- MODULE MCSession -----------------------------
(***************************************************************************)
(* Session with two calls in flight.                                       *)
(***************************************************************************)
EXTENDS Session

CONSTANTS q1, q2
=============================================================================
