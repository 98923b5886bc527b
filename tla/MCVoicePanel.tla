---------------------------- MODULE MCVoicePanel ----------------------------
(***************************************************************************)
(* VoicePanel with two users, a server with two voice channels, a second   *)
(* server with one, and a request or a clean-up at a time.                 *)
(***************************************************************************)
EXTENDS VoicePanel

CONSTANTS alice, bob, c1, c2, c3, s1, s2, r1, k1

MCServerOf == [ch \in Channel |-> IF ch = c3 THEN s2 ELSE s1]
MCUserOf == [c \in Conn |-> alice]
=============================================================================
