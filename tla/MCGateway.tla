----------------------------- MODULE MCGateway -----------------------------
(***************************************************************************)
(* Gateway for one user with two sessions, and one voice request at a time *)
(* to one of two channels, so that a clean-up that has read one of them    *)
(* may meet the user in the other.                                         *)
(***************************************************************************)
EXTENDS Gateway

CONSTANTS alice, c1, c2, s1, k1, k2, r1

MCUserOf == [c \in Conn |-> alice]
MCServerOf == [ch \in Channel |-> s1]
=============================================================================
