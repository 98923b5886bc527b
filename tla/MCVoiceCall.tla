----------------------------- MODULE MCVoiceCall -----------------------------
(***************************************************************************)
(* TLC instance of a voice call in the web client.  What a client captures *)
(* and how the clients connect share the participants' being in a channel  *)
(* only, so they are studied one at a time: a behaviour is one of Media    *)
(* while Peers stands still, or the other way round.                       *)
(***************************************************************************)
EXTENDS Media, Peers, TLC

CONSTANTS a, b

Users == {a, b}
Symmetry == Permutations(Users)
PartsStudied == {{"mic"}, {"camera"}, {"screen"}, {"live"}, {}}

CallInit == MInit /\ WInit
CallNext == \/ part # {} /\ MNext /\ UNCHANGED wvars
            \/ part = {} /\ WNext /\ UNCHANGED mvars

CallSpec == CallInit /\ [][CallNext]_<<mvars, wvars>>
=============================================================================
