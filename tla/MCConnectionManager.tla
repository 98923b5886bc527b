------------------------ MODULE MCConnectionManager ------------------------
(***************************************************************************)
(* ConnectionManager on a small instance: a user that connects twice (an   *)
(* old session and the one that replaces it), a second user, and           *)
(* broadcasts to both of them and to one of them.                          *)
(***************************************************************************)
EXTENDS ConnectionManager

CONSTANTS alice, bob, a1, a2, b1, e1, e2, e3

MCUserOf == [c \in Conn |-> IF c = b1 THEN bob ELSE alice]
MCRecipients == [e \in Event |-> IF e = e3 THEN {alice} ELSE User]
=============================================================================
