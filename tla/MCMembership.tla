---------------------------- MODULE MCMembership ----------------------------
(***************************************************************************)
(* Membership with the owner of two servers and one user whom all requests *)
(* concern.  Each kind of request comes from one of the servers: a user    *)
(* may be kicked from the second one, which is public, while in voice in   *)
(* the first, and banned there.                                            *)
(***************************************************************************)
EXTENDS Membership, TLC

CONSTANTS olga, alice, bob, c1, c2, s1, s2, r1, m1, m2

MCKinds == (AllKinds \ {"join", "kick"}) \X {s1} \cup {"join", "kick"} \X {s2}
MCRaceKinds == {"join", "ban"} \X Server

MCSymmetry == Permutations(MReq)
MCOwner == [s \in Server |-> olga]
MCUserOf == [c \in Conn |-> olga]
MCServerOf == [ch \in Channel |-> IF ch = c1 THEN s1 ELSE s2]
=============================================================================
