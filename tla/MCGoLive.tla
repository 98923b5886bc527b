------------------------------ MODULE MCGoLive ------------------------------
(***************************************************************************)
(* GoLive with two users, two voice channels, a voice request and two      *)
(* Go Live requests in flight.                                             *)
(***************************************************************************)
EXTENDS GoLive, TLC

CONSTANTS alice, bob, c1, c2, s1, r1, g1, g2, k1

MCUserOf == [c \in Conn |-> alice]
MCServerOf == [ch \in Channel |-> s1]

(* Users, channels and requests are interchangeable, and no property is    *)
(* one of liveness.                                                        *)
MCSymmetry == Permutations(User) \cup Permutations(Channel)
                                 \cup Permutations(GoReq)
=============================================================================
