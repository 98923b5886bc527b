------------------------------ MODULE MCViews ------------------------------
(***************************************************************************)
(* TLC instance of the lists of the web client: every list of Stores and   *)
(* Panels, two keys, and a row under one of them; a second row for lists   *)
(* that are written back whole, the only ones whose rows act on each other.*)
(***************************************************************************)
EXTENDS Views

CONSTANTS k1, k2, r1, r2

MCKeyOf == r1 :> k1 @@ r2 :> k1
MCStudied == StorePanels \cup SettingsPanels \cup MessagePanels

MCRows == \/ truth[r2] = "gone"
          \/ \E op \in DOMAIN list.acts : TRUE \in list.acts[op].whole
=============================================================================
