------------------------- MODULE ConnectionManager -------------------------
(***************************************************************************)
(* The registry of live WebSocket connections                              *)
(* (src/server/src/websocket/connection_manager.rs) together with the      *)
(* parts of handle_socket that own its entries: one unbounded mpsc channel *)
(* per connection, the send task that forwards the channel to the socket,  *)
(* and the clean-up that removes the entry.                                *)
(*                                                                         *)
(* Granularity: add and remove run inside one write-locked section each; a *)
(* broadcast takes the read lock, sends to one recipient after another and *)
(* releases it.  Several broadcasts may hold the read lock together, so    *)
(* their sends interleave; add and remove wait for them.                   *)
(***************************************************************************)
EXTENDS Naturals, Sequences

CONSTANTS User, Conn, NoConn, Event,
          UserOf,       \* connection -> the user it authenticated as
          Recipients    \* event -> users it is addressed to

ASSUME ConnAssumption ==
    /\ NoConn \notin Conn
    /\ UserOf \in [Conn -> User]
    /\ Recipients \in [Event -> SUBSET User]

VARIABLES
    connections,  \* the map: user -> connection id of its entry, or NoConn
    session,      \* connection -> where its handle_socket task stands
    queue,        \* connection -> its mpsc channel, oldest message first
    wire,         \* connection -> messages written to its socket
    bcast,        \* event -> where the call that broadcasts it stands
    todo,         \* event -> recipients the broadcast loop has not visited
    before        \* history: event -> broadcasts that had ended when it began

vars == <<connections, session, queue, wire, bcast, todo, before>>

-----------------------------------------------------------------------------
(* "new": the upgrade has not happened; "refused": no READY was sent, the  *)
(* task has returned; "greeted": READY is on the socket, add has not run;  *)
(* "registered": add has run, the send task has not been spawned; "live":  *)
(* both tasks run; "closing": one of them ended and the other was aborted, *)
(* so the receiving half of the channel is gone; "gone": remove has run.   *)
Phases == {"new", "refused", "greeted", "registered", "live", "closing",
           "gone"}

(* The receiving half of the channel still exists. *)
Receiving(c) == session[c] \in {"registered", "live"}

(* Mutant of SenderHeld: the send task keeps a clone of the sender.        *)
SenderCloned(c) == session[c] = "live"

(* The only sender of the channel is the one stored in the map. *)
SenderHeld(c) == connections[UserOf[c]] = c

Readers == {e \in Event : bcast[e] = "sending"}

Init == /\ connections = [u \in User |-> NoConn]
        /\ session = [c \in Conn |-> "new"]
        /\ queue = [c \in Conn |-> <<>>]
        /\ wire = [c \in Conn |-> <<>>]
        /\ bcast = [e \in Event |-> "idle"]
        /\ todo = [e \in Event |-> {}]
        /\ before = [e \in Event |-> {}]

-----------------------------------------------------------------------------
(* handle_socket: READY is built and sent before the registry hears of the *)
(* connection.                                                             *)
Greet(c) == /\ session[c] = "new"
            /\ session' = [session EXCEPT ![c] = "greeted"]
            /\ UNCHANGED <<connections, queue, wire, bcast, todo, before>>

(* READY could not be built or sent: the task returns, nothing was added.  *)
GreetFails(c) == /\ session[c] = "new"
                 /\ session' = [session EXCEPT ![c] = "refused"]
                 /\ UNCHANGED <<connections, queue, wire, bcast, todo, before>>

(* Mutant of Add: the entry keeps the user's id for the connection's.      *)
AddUserId(c) == /\ session[c] = "greeted"
                /\ Readers = {}
                /\ connections' = [connections EXCEPT ![UserOf[c]] = UserOf[c]]
                /\ session' = [session EXCEPT ![c] = "registered"]
                /\ UNCHANGED <<queue, wire, bcast, todo, before>>

(* ConnectionManager::add: insert replaces the user's entry, which drops   *)
(* the sender of the connection it held.                                   *)
Add(c) == /\ session[c] = "greeted"
          /\ Readers = {}
          /\ connections' = [connections EXCEPT ![UserOf[c]] = c]
          /\ session' = [session EXCEPT ![c] = "registered"]
          /\ UNCHANGED <<queue, wire, bcast, todo, before>>

(* tokio::spawn of the send and receive tasks, after set_presence.         *)
Spawn(c) == /\ session[c] = "registered"
            /\ session' = [session EXCEPT ![c] = "live"]
            /\ UNCHANGED <<connections, queue, wire, bcast, todo, before>>

(* Mutant of Forward: the send task stops once it has been replaced.       *)
ForwardCurrent(c) == /\ session[c] = "live"
                     /\ queue[c] # <<>>
                     /\ SenderHeld(c)
                     /\ wire' = [wire EXCEPT ![c] = Append(@, Head(queue[c]))]
                     /\ queue' = [queue EXCEPT ![c] = Tail(@)]
                     /\ UNCHANGED <<connections, session, bcast, todo, before>>

(* The send task writes the oldest queued message to the socket.           *)
Forward(c) == /\ session[c] = "live"
              /\ queue[c] # <<>>
              /\ wire' = [wire EXCEPT ![c] = Append(@, Head(queue[c]))]
              /\ queue' = [queue EXCEPT ![c] = Tail(@)]
              /\ UNCHANGED <<connections, session, bcast, todo, before>>

(* rx.recv() returns None: the sender was dropped and the channel drained. *)
ChannelClosed(c) == /\ session[c] = "live"
                    /\ queue[c] = <<>>
                    /\ ~SenderHeld(c)
                    /\ session' = [session EXCEPT ![c] = "closing"]
                    /\ UNCHANGED <<connections, queue, wire, bcast, todo, before>>

(* The receive task ends (close frame, error, oversized frame, idle limit) *)
(* or a write to the socket fails; either way the other task is aborted.   *)
Disconnect(c) == /\ session[c] = "live"
                 /\ session' = [session EXCEPT ![c] = "closing"]
                 /\ UNCHANGED <<connections, queue, wire, bcast, todo, before>>

(* Mutants of Remove: without the comparison of ids, and without effect.   *)
RemoveAny(c) == /\ session[c] = "closing"
                /\ Readers = {}
                /\ connections' = [connections EXCEPT ![UserOf[c]] = NoConn]
                /\ session' = [session EXCEPT ![c] = "gone"]
                /\ UNCHANGED <<queue, wire, bcast, todo, before>>
RemoveNothing(c) == /\ session[c] = "closing"
                    /\ session' = [session EXCEPT ![c] = "gone"]
                    /\ UNCHANGED <<connections, queue, wire, bcast, todo, before>>

(* ConnectionManager::remove: only the connection's own entry is removed.  *)
Remove(c) == /\ session[c] = "closing"
             /\ Readers = {}
             /\ connections' = [connections EXCEPT ![UserOf[c]] =
                                   IF @ = c THEN NoConn ELSE @]
             /\ session' = [session EXCEPT ![c] = "gone"]
             /\ UNCHANGED <<queue, wire, bcast, todo, before>>

-----------------------------------------------------------------------------
(* broadcast_to_users (send_to_user is the case of one recipient) takes    *)
(* the read lock ...                                                       *)
BroadcastStart(e) == /\ bcast[e] = "idle"
                     /\ bcast' = [bcast EXCEPT ![e] = "sending"]
                     /\ todo' = [todo EXCEPT ![e] = Recipients[e]]
                     /\ before' = [before EXCEPT ![e] =
                                      {x \in Event : bcast[x] = "done"}]
                     /\ UNCHANGED <<connections, session, queue, wire>>

(* Mutants of Enqueue: the newest message overtakes, and every session of  *)
(* the user is served.                                                     *)
EnqueueFirst(e, u) == queue' = [c \in Conn |->
                                  IF connections[u] = c /\ Receiving(c)
                                  THEN <<e>> \o queue[c] ELSE queue[c]]
EnqueueAll(e, u) == queue' = [c \in Conn |->
                                IF UserOf[c] = u /\ Receiving(c)
                                THEN Append(queue[c], e) ELSE queue[c]]

(* The send to one recipient: appended when the recipient has an entry     *)
(* whose channel is open, silently ignored otherwise.                      *)
Enqueue(e, u) == queue' = [c \in Conn |->
                             IF connections[u] = c /\ Receiving(c)
                             THEN Append(queue[c], e) ELSE queue[c]]

BroadcastSend(e, u) == /\ bcast[e] = "sending"
                       /\ u \in todo[e]
                       /\ Enqueue(e, u)
                       /\ todo' = [todo EXCEPT ![e] = @ \ {u}]
                       /\ UNCHANGED <<connections, session, wire, bcast, before>>

(* ... and releases it after the last recipient. *)
BroadcastEnd(e) == /\ bcast[e] = "sending"
                   /\ todo[e] = {}
                   /\ bcast' = [bcast EXCEPT ![e] = "done"]
                   /\ UNCHANGED <<connections, session, queue, wire, todo, before>>

-----------------------------------------------------------------------------
SessionStep(c) == \/ Greet(c) \/ GreetFails(c) \/ Add(c) \/ Spawn(c)
                  \/ Forward(c) \/ ChannelClosed(c) \/ Disconnect(c)
                  \/ Remove(c)

BroadcastStep(e) == \/ BroadcastStart(e)
                    \/ \E u \in User : BroadcastSend(e, u)
                    \/ BroadcastEnd(e)

Next == \/ \E c \in Conn : SessionStep(c)
        \/ \E e \in Event : BroadcastStep(e)

Spec == Init /\ [][Next]_vars

(* The runtime polls every ready task, tokio's RwLock queues writers in    *)
(* front of later readers, and a client that stays connected reads its     *)
(* socket.  Nobody is obliged to connect, to disconnect or to broadcast.   *)
Fairness ==
    /\ \A c \in Conn : /\ SF_vars(Add(c)) /\ SF_vars(Remove(c))
                       /\ WF_vars(Spawn(c)) /\ WF_vars(Forward(c))
                       /\ WF_vars(ChannelClosed(c))
    /\ \A e \in Event : /\ \A u \in User : WF_vars(BroadcastSend(e, u))
                        /\ WF_vars(BroadcastEnd(e))

FairSpec == Spec /\ Fairness

-----------------------------------------------------------------------------
(* Type correctness. *)
TypeOK ==
    /\ connections \in [User -> Conn \cup {NoConn}]
    /\ session \in [Conn -> Phases]
    /\ queue \in [Conn -> Seq(Event)]
    /\ wire \in [Conn -> Seq(Event)]
    /\ bcast \in [Event -> {"idle", "sending", "done"}]
    /\ todo \in [Event -> SUBSET User]
    /\ before \in [Event -> SUBSET Event]

(* Everything that was accepted for a connection, in order. *)
Accepted(c) == wire[c] \o queue[c]

(* An entry of the map is a connection of that very user whose task will   *)
(* still run remove: no entry outlives its session, so no event is sent    *)
(* into a dead channel for ever.                                           *)
EntryHasOwner ==
    \A u \in User : connections[u] # NoConn =>
        /\ UserOf[connections[u]] = u
        /\ session[connections[u]] \in {"registered", "live", "closing"}

(* An entry disappears only by the clean-up of the connection it belongs   *)
(* to; it may be replaced, but only by a newer connection.  This is what   *)
(* the guard in remove is for: a reconnecting user's old clean-up must not *)
(* evict the new connection.                                               *)
NoEviction ==
    [][\A u \in User : connections'[u] # connections[u] =>
          \/ /\ connections'[u] = NoConn
             /\ session[connections[u]] = "closing"
             /\ session'[connections[u]] = "gone"
          \/ /\ connections'[u] # NoConn
             /\ session[connections'[u]] = "greeted"]_vars

(* Every connection sees broadcasts in an order that respects time: when   *)
(* one broadcast had ended before another began, no client receives the    *)
(* later one first.  (Broadcasts that overlap may reach two users in two   *)
(* different orders: the read lock is shared.)                             *)
InOrder ==
    \A c \in Conn : \A i, j \in DOMAIN Accepted(c) :
        i < j => Accepted(c)[j] \notin before[Accepted(c)[i]]

(* A connection that was replaced before it was cleaned up disconnects     *)
(* itself: its task ends although nobody tells it to.                      *)
ReplacedSessionEnds ==
    \A c \in Conn :
        (session[c] = "live" /\ connections[UserOf[c]] # c) ~> (session[c] = "gone")

(* An event that was queued for a connection is written to its socket      *)
(* unless the connection closes first.                                     *)
QueuedIsForwarded ==
    \A c \in Conn, e \in Event :
        (\E i \in DOMAIN queue[c] : queue[c][i] = e)
            ~> \/ \E i \in DOMAIN wire[c] : wire[c][i] = e
               \/ session[c] \in {"closing", "gone"}

-----------------------------------------------------------------------------
(* The registry implements the mailboxes of Mailbox.tla.                   *)
Attached == {c \in Conn : session[c] \in
                             {"registered", "live", "closing", "gone"}}

M == INSTANCE Mailbox WITH active <- connections,
                           used <- Attached,
                           accepted <- [c \in Conn |-> Accepted(c)]

ImplementsMailbox == M!MSpec
=============================================================================
