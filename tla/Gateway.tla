------------------------------ MODULE Gateway ------------------------------
(***************************************************************************)
(* The life of WebSocket sessions (handle_socket in                        *)
(* src/server/src/websocket/handler.rs) with the two tables it touches:    *)
(* users.status, written by set_presence, and voice_states, from which the *)
(* clean-up takes the user out (VoiceStates.tla).  The registry is the     *)
(* abstract one of Mailbox.tla: ConnectionManager.tla shows that its locks *)
(* and channels implement it.                                              *)
(*                                                                         *)
(* One user may have several sessions at once: it opens a second tab, or   *)
(* reconnects before the server has noticed that the first socket is dead. *)
(***************************************************************************)
EXTENDS VoiceStates

CONSTANTS NoConn,
          Choices,   \* the statuses clients ask for
          Settled,   \* TRUE: an aborted task has no statement left to execute
          Restarts,  \* TRUE: the server process may be restarted
          OverRest   \* TRUE: status may also be written over REST

ASSUME GatewayAssumption ==
    /\ NoConn \notin Conn
    /\ Choices \subseteq {"online", "away", "offline"}
    /\ Settled \in BOOLEAN /\ Restarts \in BOOLEAN /\ OverRest \in BOOLEAN

VARIABLES
    conn,     \* the registry: user -> its registered session, or NoConn
    sess,     \* session -> the step handle_socket takes next
    pres,     \* session -> the set_presence of its receive task
    status,   \* users.status
    seen,     \* user -> the status last announced to its co-members
    upset,    \* users who met a fault or an overlap, and
    adrift    \* of the others, users who asked for voice when no clean-up
              \* of theirs was to come (both for the properties only)

gvars == <<vvars, conn, sess, pres, status, seen, upset, adrift>>

-----------------------------------------------------------------------------
(* A session is new, then refused or greeted, online_write,                *)
(* online_announce, live, closing, cleaning, offline_write,                *)
(* offline_announce and gone: the step handle_socket takes next.  The      *)
(* status "away" stands for "dnd" as well.                                 *)
Active(c) == sess[c] \notin {"new", "refused", "gone"}
Sessions(u) == {c \in Conn : UserOf[c] = u}

(* No set_presence; a client starts from "online".                         *)
NoChange == [at |-> "idle", st |-> "online"]

GInit == /\ VInit
         /\ conn = [u \in User |-> NoConn]
         /\ sess = [c \in Conn |-> "new"]
         /\ pres = [c \in Conn |-> NoChange]
         /\ status = [u \in User |-> "offline"]
         /\ seen = [u \in User |-> "offline"]
         /\ upset = {} /\ adrift = {}

(* A fault is a failed statement, a restart, or a status written over REST *)
(* by another device; an overlap is a session or a request of the user     *)
(* that begins while another one is under way.  A user meets any number of *)
(* overlaps, but no fault of this module after the first one of either:    *)
(* the bound of the model.                                                 *)
Upset(u) == upset' = upset \cup {u} /\ adrift' = adrift \ {u}
Fault(u) == ~Reliable /\ u \notin upset
UpsetIf(u, really) == IF really THEN Upset(u) ELSE UNCHANGED <<upset, adrift>>

(* The two halves of set_presence: an UPDATE whose failure is ignored, and *)
(* a broadcast for which the co-members must be queried first.             *)
Persist(u, s) == \/ status' = [status EXCEPT ![u] = s] /\ UNCHANGED <<upset, adrift>>
                 \/ Fault(u) /\ UNCHANGED status /\ Upset(u)
Publish(u, s) == \/ seen' = [seen EXCEPT ![u] = s] /\ UNCHANGED <<upset, adrift>>
                 \/ Fault(u) /\ UNCHANGED seen /\ Upset(u)

Phase(c, from, to) == sess[c] = from /\ sess' = [sess EXCEPT ![c] = to]

-----------------------------------------------------------------------------
(* READY is built and sent; if either fails the task returns.              *)
Greet(c) == /\ \/ Phase(c, "new", "greeted")
               \/ Fault(UserOf[c]) /\ Phase(c, "new", "refused")
            /\ UpsetIf(UserOf[c], \E d \in Sessions(UserOf[c]) : Active(d))
            /\ UNCHANGED <<vvars, conn, pres, status, seen>>

(* connections.add: the newest session wins. *)
Register(c) == /\ Phase(c, "greeted", "online_write")
               /\ conn' = [conn EXCEPT ![UserOf[c]] = c]
               /\ UNCHANGED <<vvars, pres, status, seen, upset, adrift>>

(* set_presence(online), awaited before the two tasks are spawned.         *)
OnlineWrite(c) == /\ Phase(c, "online_write", "online_announce")
                  /\ Persist(UserOf[c], "online")
                  /\ UNCHANGED <<vvars, conn, pres, seen>>

OnlineAnnounce(c) == /\ Phase(c, "online_announce", "live")
                     /\ Publish(UserOf[c], "online")
                     /\ UNCHANGED <<vvars, conn, pres, status>>

-----------------------------------------------------------------------------
(* The receive task handles a PRESENCE_UPDATE of the client: one message   *)
(* at a time, each through the two halves of set_presence.                 *)
PresenceUpdate(c, s) ==
    /\ sess[c] = "live" /\ pres[c].at = "idle"
    /\ pres' = [pres EXCEPT ![c] = [at |-> "write", st |-> s]]
    /\ UNCHANGED <<vvars, conn, sess, status, seen, upset, adrift>>

(* Mutant of PresenceWrite: the status is announced but not stored.        *)
PresenceUnwritten(c) == /\ pres[c].at = "write"
                        /\ pres' = [pres EXCEPT ![c].at = "announce"]
                        /\ UNCHANGED <<vvars, conn, sess, status, seen, upset, adrift>>

PresenceWrite(c) == /\ pres[c].at = "write"
                    /\ pres' = [pres EXCEPT ![c].at = "announce"]
                    /\ Persist(UserOf[c], pres[c].st)
                    /\ UNCHANGED <<vvars, conn, sess, seen>>

PresenceAnnounce(c) == /\ pres[c].at = "announce"
                       /\ pres' = [pres EXCEPT ![c].at = "idle"]
                       /\ Publish(UserOf[c], pres[c].st)
                       /\ UNCHANGED <<vvars, conn, sess, status>>

(* The statement of an aborted task reaches the table after all.           *)
PresenceLate(c) == /\ pres[c].at = "late"
                   /\ pres' = [pres EXCEPT ![c] = NoChange]
                   /\ Upset(UserOf[c])
                   /\ status' = [status EXCEPT ![UserOf[c]] = pres[c].st]
                   /\ UNCHANGED <<vvars, conn, sess, seen>>

(* One of the two tasks ends and the other is aborted, possibly in the     *)
(* middle of set_presence.                                                 *)
Disconnect(c) ==
    /\ Phase(c, "live", "closing")
    /\ \/ pres' = [pres EXCEPT ![c] = NoChange]
       \/ /\ ~Settled /\ pres[c].at = "write"
          /\ pres' = [pres EXCEPT ![c].at = "late"]
    /\ UNCHANGED <<vvars, conn, status, seen, upset, adrift>>

-----------------------------------------------------------------------------
(* Mutants of Remove: a session waits for its entry, which a restart took, *)
(* and the clean-up of the voice state is forgotten.                       *)
RemoveOwn(c) == /\ Phase(c, "closing", "cleaning")
                /\ conn[UserOf[c]] = c /\ conn' = conn
                /\ CleanStart(c)
                /\ UNCHANGED <<pres, status, seen, upset, adrift>>
RemoveOnly(c) == /\ Phase(c, "closing", "offline_write")
                 /\ conn' = [conn EXCEPT ![UserOf[c]] = IF @ = c THEN NoConn ELSE @]
                 /\ UNCHANGED <<vvars, pres, status, seen, upset, adrift>>

(* connections.remove, which spares the entry of a newer session; then     *)
(* cleanup_voice_on_disconnect begins.                                     *)
Remove(c) == /\ Phase(c, "closing", "cleaning")
             /\ conn' = [conn EXCEPT ![UserOf[c]] = IF @ = c THEN NoConn ELSE @]
             /\ CleanStart(c)
             /\ UpsetIf(UserOf[c], InFlight(UserOf[c]) # {})
             /\ UNCHANGED <<pres, status, seen>>

(* A statement of the clean-up failed: the row it was aimed at survives.   *)
CleanFails(c) ==
    LET u == UserOf[c]
    IN \/ task[c].at = "clean_select" /\ voice[u] # NoRow /\ task'[c] = Idle
       \/ /\ task[c].at = "clean_delete" /\ InChannel(u, task[c].row.ch)
          /\ voice' = voice

Clean(c) == /\ CleanQuiet(c) \/ CleanAnnounce(c)
            /\ upset' = IF CleanFails(c) THEN upset \cup {UserOf[c]} ELSE upset
            /\ adrift' = IF CleanFails(c) \/ task'[c] = Idle
                         THEN adrift \ {UserOf[c]} ELSE adrift
            /\ sess' = IF task'[c] = Idle
                       THEN [sess EXCEPT ![c] = "offline_write"] ELSE sess
            /\ UNCHANGED <<conn, pres, status, seen>>

(* set_presence(offline), whether or not the user has another session.     *)
OfflineWrite(c) == /\ Phase(c, "offline_write", "offline_announce")
                   /\ Persist(UserOf[c], "offline")
                   /\ UNCHANGED <<vvars, conn, pres, seen>>

(* Mutant of OfflineAnnounce: the co-members are not told.                 *)
OfflineUnannounced(c) == /\ Phase(c, "offline_announce", "gone")
                         /\ UNCHANGED <<vvars, conn, pres, status, seen, upset, adrift>>

OfflineAnnounce(c) == /\ Phase(c, "offline_announce", "gone")
                      /\ Publish(UserOf[c], "offline")
                      /\ UNCHANGED <<vvars, conn, pres, status>>

-----------------------------------------------------------------------------
(* The clean-up of a session of the user is still to come.                 *)
Attended(u) == \E c \in Sessions(u) :
    sess[c] \in {"greeted", "online_write", "online_announce", "live", "closing"}

(* Voice requests ask for a token and a membership, not for a session: the *)
(* client may send one while its socket is down.                           *)
Request(t) ==
    /\ \/ \E u \in User : /\ ReqStart(t, u)
                          /\ IF InFlight(u) # {} THEN Upset(u)
                             ELSE /\ UNCHANGED upset
                                  /\ adrift' = IF Attended(u) \/ u \in upset
                                               THEN adrift ELSE adrift \cup {u}
       \/ (ReqQuiet(t) \/ ReqAnnounce(t)) /\ UNCHANGED <<upset, adrift>>
    /\ UNCHANGED <<conn, sess, pres, status, seen>>

(* Status over REST: login writes online, PATCH /users/@me what it is      *)
(* given; neither announces anything.                                      *)
Login(u) == /\ OverRest /\ u \notin upset /\ Upset(u)
            /\ status' = [status EXCEPT ![u] = "online"]
            /\ UNCHANGED <<vvars, conn, sess, pres, seen>>

PatchStatus(u, s) == /\ OverRest /\ u \notin upset /\ Upset(u)
                     /\ status' = [status EXCEPT ![u] = s]
                     /\ UNCHANGED <<vvars, conn, sess, pres, seen>>

(* The process is restarted: tasks, sessions and the registry are gone,    *)
(* the tables stay as they are; main() does not touch them.                *)
Restart == /\ Restarts /\ upset = {}
           /\ \E c \in Conn : Active(c)
           /\ upset' = User /\ adrift' = {}
           /\ conn' = [u \in User |-> NoConn]
           /\ sess' = [c \in Conn |-> IF Active(c) THEN "gone" ELSE sess[c]]
           /\ pres' = [c \in Conn |-> NoChange]
           /\ task' = [t \in Task |-> Idle]
           /\ UNCHANGED <<members, voice, status, seen>>

(* What the tasks of a session do by themselves: handle_socket, and the    *)
(* set_presence of its receive task.                                       *)
Handle(c) == \/ Register(c) \/ OnlineWrite(c) \/ OnlineAnnounce(c)
             \/ Remove(c) \/ Clean(c)
             \/ OfflineWrite(c) \/ OfflineAnnounce(c)

Receive(c) == PresenceWrite(c) \/ PresenceAnnounce(c) \/ PresenceLate(c)

GNext == \/ \E c \in Conn : \/ Greet(c) \/ Disconnect(c)
                            \/ Handle(c) \/ Receive(c)
                            \/ \E s \in Choices : PresenceUpdate(c, s)
         \/ \E t \in Req : Request(t)
         \/ \E u \in User : \/ Login(u)
                            \/ \E s \in Choices : PatchStatus(u, s)
         \/ Restart

GSpec == GInit /\ [][GNext]_gvars

(* The runtime polls every task; nothing is asked of the clients, of their *)
(* requests or of the receive tasks, on which no clean-up waits.           *)
GFairSpec == GSpec /\ \A c \in Conn : WF_gvars(Handle(c))

-----------------------------------------------------------------------------
(* No session of the user is being set up, open or being cleaned up, and   *)
(* none of its requests is under way.                                      *)
AllClosed(u) == InFlight(u) = {} /\ \A c \in Sessions(u) : ~Active(c)

(* No set_presence of the user is under way.                               *)
PresenceSettled(u) == \A c \in Sessions(u) :
    /\ pres[c].at = "idle"
    /\ ~Active(c) \/ sess[c] \in {"greeted", "live"}

(* The status a client has chosen is the one in the table as long as it is *)
(* connected: no other part of the server changes it, unless sessions of   *)
(* the user overlapped.                                                    *)
Persists(c) == /\ sess[c] = "live" /\ conn[UserOf[c]] = c
               /\ PresenceSettled(UserOf[c])
               => status[UserOf[c]] = pres[c].st
PresencePersists == \A c \in Conn : UserOf[c] \notin upset => Persists(c)

(* The same for every user, as docs/presence-status.md promises it.        *)
PresenceAlwaysPersists == \A c \in Conn : Persists(c)

(* Between two changes of presence the co-members were last told what the  *)
(* table says: an UPDATE and its broadcast may not be torn apart.          *)
PeersAgree == \A u \in User \ upset : PresenceSettled(u) => seen[u] = status[u]

(* A user all of whose sessions have been cleaned up is in no voice        *)
(* channel, unless it asked for one when no session of it was up; and such *)
(* a row lasts no longer than until its next session has been cleaned up.  *)
NoGhostParticipant == \A u \in User \ (upset \cup adrift) :
                          AllClosed(u) => voice[u] = NoRow

(* A session that starts to close is cleaned up to the end.                *)
ClosingEnds == \A c \in Conn : (sess[c] = "closing") ~> (sess[c] = "gone")
=============================================================================
