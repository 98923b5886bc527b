---------------------------- MODULE VoiceStates ----------------------------
(***************************************************************************)
(* The voice_states table (one row per user: the primary key is user_id)   *)
(* and everything that writes it: the REST handlers of                     *)
(* src/server/src/handlers/voice.rs and the clean-up that handle_socket    *)
(* runs when a WebSocket session ends                                      *)
(* (cleanup_voice_on_disconnect in src/server/src/websocket/handler.rs).   *)
(*                                                                         *)
(* Granularity: one SQL statement or one broadcast is one step.  A handler *)
(* is a task; between its steps any other task may run, and what it read   *)
(* earlier it carries along.                                               *)
(***************************************************************************)
EXTENDS Naturals, FiniteSets

CONSTANTS
    User, Channel, Server,
    NoRow,      \* the user has no row in voice_states
    NoServer,   \* join found no earlier row
    Req,        \* REST requests that may be in flight
    Conn,       \* WebSocket sessions, each with its clean-up
    UserOf,     \* session -> its user
    ServerOf,   \* channel -> its server
    Patient,    \* TRUE: a user has at most one task in flight
    Reliable    \* TRUE: no query fails and no request is dropped

ASSUME VoiceAssumption ==
    /\ UserOf \in [Conn -> User]
    /\ ServerOf \in [Channel -> Server]
    /\ NoServer \notin Server
    /\ Req \cap Conn = {}
    /\ Patient \in BOOLEAN /\ Reliable \in BOOLEAN

(* A row of voice_states.  "muted" stands for the four self_* flags, which *)
(* all handlers treat alike.  server_mute and server_deaf are never set.   *)
Row == [ch : Channel, muted : BOOLEAN]

ASSUME NoRowAssumption == NoRow \notin Row

VARIABLES
    members,  \* server_members: server -> its members
    voice,    \* voice_states: user -> its row, or NoRow
    task      \* request or session clean-up -> where it stands, what it read

vvars == <<members, voice, task>>

-----------------------------------------------------------------------------
Steps == {"join_prior", "join_upsert", "join_announce", "join_leave_old",
          "leave_delete", "leave_announce",
          "update_write", "update_announce",
          "clean_select", "clean_delete", "clean_announce"}

Task == Req \cup Conn

(* A task: the step it is about to take, its user, the row it works with   *)
(* (for a request the channel in the path, later the row that was          *)
(* returned) and the server of the earlier row, as join read it.           *)
Busy == [at : Steps, user : User, row : Row \cup {NoRow},
         prior : Server \cup {NoServer}]
Idle == [at |-> "idle"]

InFlight(u) == {t \in Task : task[t] # Idle /\ task[t].user = u}

VInit == /\ members \in [Server -> SUBSET User]
         /\ voice = [u \in User |-> NoRow]
         /\ task = [t \in Task |-> Idle]

(* Bookkeeping of a task: it begins at a step, goes on to another one with *)
(* what it has learnt, or ends.                                            *)
Begin(t, step, u, row) ==
    /\ task[t] = Idle
    /\ Patient => InFlight(u) = {}
    /\ task' = [task EXCEPT ![t] = [at |-> step, user |-> u, row |-> row,
                                    prior |-> NoServer]]
Goto(t, step) == task' = [task EXCEPT ![t].at = step]
End(t) == task' = [task EXCEPT ![t] = Idle]

(* The row a join writes: the new channel, the self_* flags reset.         *)
JoinRow(ch) == [ch |-> ch, muted |-> FALSE]

-----------------------------------------------------------------------------
(* POST /channels/:id/voice.  The channel is fetched, membership and the   *)
(* permission are checked; a refused request leaves no trace.              *)
JoinStart(t, u, ch) == /\ u \in members[ServerOf[ch]]
                       /\ Begin(t, "join_prior", u, JoinRow(ch))
                       /\ UNCHANGED <<members, voice>>

(* Mutant of JoinPrior: it keeps the earlier channel for its server.       *)
JoinPriorChannel(t) ==
    /\ task[t].at = "join_prior"
    /\ task' = [task EXCEPT ![t].at = "join_upsert",
                            ![t].prior = IF voice[task[t].user] = NoRow
                                         THEN NoServer
                                         ELSE voice[task[t].user].ch]
    /\ UNCHANGED <<members, voice>>

(* Where is the user now?  A failed query counts as "nowhere".             *)
JoinPrior(t) ==
    LET u == task[t].user
        found == IF voice[u] = NoRow THEN NoServer ELSE ServerOf[voice[u].ch]
    IN /\ task[t].at = "join_prior"
       /\ \E p \in IF Reliable THEN {found} ELSE {found, NoServer} :
             task' = [task EXCEPT ![t].at = "join_upsert", ![t].prior = p]
       /\ UNCHANGED <<members, voice>>

(* Mutant of JoinUpsert: the earlier row is deleted and the new one not    *)
(* inserted when the second statement fails.                               *)
JoinReplace(t) == /\ task[t].at = "join_upsert"
                  /\ \E row \in {task[t].row, NoRow} :
                        voice' = [voice EXCEPT ![task[t].user] = row]
                  /\ Goto(t, "join_announce")
                  /\ UNCHANGED members

(* The UPSERT moves the user here whatever row there was.                  *)
JoinUpsert(t) == /\ task[t].at = "join_upsert"
                 /\ voice' = [voice EXCEPT ![task[t].user] = task[t].row]
                 /\ Goto(t, "join_announce")
                 /\ UNCHANGED members

(* Mutant of JoinAnnounce: the old server is never told.                   *)
JoinAnnounceOnly(t) == /\ task[t].at = "join_announce"
                       /\ End(t)
                       /\ UNCHANGED <<members, voice>>

(* The new state is broadcast to the channel's server; a user that came    *)
(* from another server, as it was read before the UPSERT, still has to be  *)
(* announced there as gone.                                                *)
JoinAnnounce(t) ==
    /\ task[t].at = "join_announce"
    /\ IF task[t].prior \in {NoServer, ServerOf[task[t].row.ch]}
       THEN End(t) ELSE Goto(t, "join_leave_old")
    /\ UNCHANGED <<members, voice>>

JoinLeaveOld(t) == /\ task[t].at = "join_leave_old"
                   /\ End(t)
                   /\ UNCHANGED <<members, voice>>

-----------------------------------------------------------------------------
(* DELETE /channels/:id/voice. *)
LeaveStart(t, u, ch) == /\ u \in members[ServerOf[ch]]
                        /\ Begin(t, "leave_delete", u, JoinRow(ch))
                        /\ UNCHANGED <<members, voice>>

InChannel(u, ch) == voice[u] # NoRow /\ voice[u].ch = ch

(* Mutant of LeaveDelete: nobody is told.                                  *)
LeaveSilently(t) ==
    /\ task[t].at = "leave_delete"
    /\ voice' = IF InChannel(task[t].user, task[t].row.ch)
                THEN [voice EXCEPT ![task[t].user] = NoRow] ELSE voice
    /\ End(t)
    /\ UNCHANGED members

(* Only a row of this very channel is deleted; without one it is a 404.    *)
LeaveDelete(t) ==
    LET u == task[t].user
    IN /\ task[t].at = "leave_delete"
       /\ IF InChannel(u, task[t].row.ch)
          THEN voice' = [voice EXCEPT ![u] = NoRow] /\ Goto(t, "leave_announce")
          ELSE UNCHANGED voice /\ End(t)
       /\ UNCHANGED members

LeaveAnnounce(t) == /\ task[t].at = "leave_announce"
                    /\ End(t)
                    /\ UNCHANGED <<members, voice>>

-----------------------------------------------------------------------------
(* PATCH /channels/:id/voice: sets flags of the row of this channel and    *)
(* announces the row that the UPDATE returned.                             *)
UpdateStart(t, u, ch, m) == /\ u \in members[ServerOf[ch]]
                            /\ Begin(t, "update_write", u,
                                     [ch |-> ch, muted |-> m])
                            /\ UNCHANGED <<members, voice>>

UpdateWrite(t) ==
    LET u == task[t].user
    IN /\ task[t].at = "update_write"
       /\ IF InChannel(u, task[t].row.ch)
          THEN /\ voice' = [voice EXCEPT ![u] = task[t].row]
               /\ Goto(t, "update_announce")
          ELSE UNCHANGED voice /\ End(t)
       /\ UNCHANGED members

UpdateAnnounce(t) == /\ task[t].at = "update_announce"
                     /\ End(t)
                     /\ UNCHANGED <<members, voice>>

-----------------------------------------------------------------------------
(* cleanup_voice_on_disconnect: look the row up ...                        *)
CleanStart(c) ==
    /\ task[c] = Idle
    /\ Patient => InFlight(UserOf[c]) = {}
    /\ task' = [task EXCEPT ![c] =
                  [at |-> "clean_select", user |-> UserOf[c],
                   row |-> NoRow, prior |-> NoServer]]
    /\ UNCHANGED <<members, voice>>

(* ... (no row, or a failed query, ends the clean-up) ...                  *)
CleanSelect(c) ==
    LET u == task[c].user
    IN /\ task[c].at = "clean_select"
       /\ \/ /\ voice[u] # NoRow
             /\ task' = [task EXCEPT ![c].at = "clean_delete",
                                     ![c].row = voice[u]]
          \/ (voice[u] = NoRow \/ ~Reliable) /\ End(c)
       /\ UNCHANGED <<members, voice>>

(* ... delete it if it is still in the channel that was read ...           *)
CleanDelete(c) ==
    LET u == task[c].user
    IN /\ task[c].at = "clean_delete"
       /\ \/ /\ InChannel(u, task[c].row.ch)
             /\ voice' = [voice EXCEPT ![u] = NoRow]
          \/ /\ ~InChannel(u, task[c].row.ch) \/ ~Reliable
             /\ UNCHANGED voice
       /\ Goto(c, "clean_announce")
       /\ UNCHANGED members

(* ... and announce the leave, whatever the DELETE did.                    *)
CleanAnnounce(c) == /\ task[c].at = "clean_announce"
                    /\ End(c)
                    /\ UNCHANGED <<members, voice>>

(* A request ends early: a query fails, or its client hangs up and the     *)
(* handler is dropped at the await where it stands.                        *)
Drop(t) == /\ ~Reliable
           /\ task[t] # Idle
           /\ End(t)
           /\ UNCHANGED <<members, voice>>

-----------------------------------------------------------------------------
ReqStart(t, u) == \E ch \in Channel : \/ JoinStart(t, u, ch)
                                      \/ LeaveStart(t, u, ch)
                                      \/ \E m \in BOOLEAN :
                                            UpdateStart(t, u, ch, m)

(* The steps of a request that announce nothing ...                        *)
ReqQuiet(t) == \/ JoinPrior(t) \/ JoinUpsert(t) \/ LeaveDelete(t)
               \/ UpdateWrite(t) \/ Drop(t)

(* ... and those that broadcast VOICE_STATE_UPDATE.                        *)
ReqAnnounce(t) == \/ JoinAnnounce(t) \/ JoinLeaveOld(t)
                  \/ LeaveAnnounce(t) \/ UpdateAnnounce(t)

CleanQuiet(c) == CleanSelect(c) \/ CleanDelete(c)

VNext == \/ \E t \in Req : \/ \E u \in User : ReqStart(t, u)
                           \/ ReqQuiet(t) \/ ReqAnnounce(t)
         \/ \E c \in Conn : CleanStart(c) \/ CleanQuiet(c) \/ CleanAnnounce(c)

VSpec == VInit /\ [][VNext]_vvars

-----------------------------------------------------------------------------
(* Type correctness. *)
VTypeOK == /\ members \in [Server -> SUBSET User]
           /\ voice \in [User -> Row \cup {NoRow}]
           /\ task \in [Task -> Busy \cup {Idle}]

(* Whatever overlaps, a row disappears only by a request or a clean-up     *)
(* that was aimed at the channel the user is in: this is what the          *)
(* channel_id in both DELETE statements is for.                            *)
RemovalIsAimed ==
    [][\A u \in User : voice[u] # NoRow /\ voice'[u] = NoRow =>
          \E t \in InFlight(u) : /\ task[t].at \in {"leave_delete", "clean_delete"}
                                 /\ task[t].row.ch = voice[u].ch]_vvars

(* Who is told of an announcement of task t, and what: all members of the  *)
(* server concerned learn a row, or NoRow for a leave.                     *)
Audience(t) == members[IF task[t].at = "join_leave_old" THEN task[t].prior
                       ELSE ServerOf[task[t].row.ch]]
Announced(t) == IF task[t].at \in {"join_announce", "update_announce"}
                THEN task[t].row ELSE NoRow
=============================================================================
