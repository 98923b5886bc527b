----------------------------- MODULE VoicePanel -----------------------------
(***************************************************************************)
(* VoiceStates together with what the clients show: the participant list   *)
(* of VoiceChannel.tsx, kept up to date from VOICE_STATE_UPDATE events.    *)
(* All viewers stay connected, so an announcement reaches its audience at  *)
(* once and in order (ConnectionManager.tla).                              *)
(***************************************************************************)
EXTENDS VoiceStates

VARIABLE panel   \* viewer -> user -> the row its clients show, or NoRow

pvars == <<vvars, panel>>

PInit == VInit /\ panel = [v \in User |-> [u \in User |-> NoRow]]

(* The handler of VOICE_STATE_UPDATE in every mounted VoiceChannel: the    *)
(* panel of the event's channel adds or updates the user, every other      *)
(* panel drops the user.  So the last event decides where a user is shown. *)
Show(viewers, u, row) ==
    panel' = [v \in User |-> IF v \in viewers
                             THEN [panel[v] EXCEPT ![u] = row] ELSE panel[v]]

Announce(t) == Show(Audience(t), task[t].user, Announced(t))

PNext == \/ \E t \in Req : \/ ReqAnnounce(t) /\ Announce(t)
                           \/ /\ (\E u \in User : ReqStart(t, u)) \/ ReqQuiet(t)
                              /\ UNCHANGED panel
         \/ \E c \in Conn : \/ CleanAnnounce(c) /\ Announce(c)
                            \/ /\ CleanStart(c) \/ CleanQuiet(c)
                               /\ UNCHANGED panel

PSpec == PInit /\ [][PNext]_pvars

(* Tasks are polled by the runtime until they end. *)
PFairSpec == PSpec /\ \A t \in Task :
    WF_pvars(\/ t \in Req /\ ReqAnnounce(t) /\ Announce(t)
             \/ t \in Req /\ ReqQuiet(t) /\ UNCHANGED panel
             \/ t \in Conn /\ CleanAnnounce(t) /\ Announce(t)
             \/ t \in Conn /\ CleanQuiet(t) /\ UNCHANGED panel)

(* What a viewer should see of a user: its row if the viewer belongs to    *)
(* the server of that channel, nothing otherwise.                          *)
Visible(v, u) == IF voice[u] # NoRow /\ v \in members[ServerOf[voice[u].ch]]
                 THEN voice[u] ELSE NoRow

(* When none of a user's requests is under way, every client shows the     *)
(* user exactly where the table says: the events sent on join, leave,      *)
(* update and disconnect keep the participant lists in step with the table.*)
ShownTo(viewers) == \A u \in User : InFlight(u) = {} =>
                       \A v \in viewers : panel[v][u] = Visible(v, u)

PanelAgreesForAll == ShownTo(User)

(* The same for the viewers that belong to one server only: those who      *)
(* share a server with the user see where the user is, and those of the    *)
(* server the user has left for another one see the user nowhere.          *)
PanelAgrees == ShownTo({v \in User :
                  \A s, o \in Server :
                      v \in members[s] /\ v \in members[o] => s = o})

(* A participant whose row is gone is eventually shown nowhere, unless it  *)
(* joins again: every deletion is announced, and after it happened.        *)
LeftIsHidden ==
    \A u \in User : (voice[u] = NoRow) ~>
        (voice[u] # NoRow \/ \A v \in User : panel[v][u] = NoRow)
=============================================================================
