------------------------------ MODULE Mailbox ------------------------------
(***************************************************************************)
(* What the connection registry promises to the rest of the server, with   *)
(* no locks, no channels and no sockets: at any time a user has at most    *)
(* one active connection, and a message sent to a user is appended to the  *)
(* mailbox of the active connection or dropped.  ConnectionManager.tla     *)
(* implements this specification.                                          *)
(***************************************************************************)
EXTENDS Sequences

CONSTANTS User,     \* user ids
          Conn,     \* connection ids (one per WebSocket)
          NoConn,   \* "no entry in the map"
          Event,    \* messages sent by the server
          UserOf    \* the user a connection authenticated as

VARIABLES active,   \* user -> its active connection, or NoConn
          used,     \* connections that have been attached at some time
          accepted  \* connection -> messages accepted for it, oldest first

mvars == <<active, used, accepted>>

MInit == /\ active = [u \in User |-> NoConn]
         /\ used = {}
         /\ accepted = [c \in Conn |-> <<>>]

(* A connection becomes its user's active one, at most once in its life;   *)
(* it replaces whichever connection was active before.                     *)
Attach(c) == /\ c \notin used
             /\ used' = used \cup {c}
             /\ active' = [active EXCEPT ![UserOf[c]] = c]
             /\ UNCHANGED accepted

(* Only the active connection itself can leave its user without one.       *)
Detach(c) == /\ active[UserOf[c]] = c
             /\ active' = [active EXCEPT ![UserOf[c]] = NoConn]
             /\ UNCHANGED <<used, accepted>>

(* A message reaches the active connection of its addressee.               *)
Accept(c, e) == /\ active[UserOf[c]] = c
                /\ accepted' = [accepted EXCEPT ![c] = Append(@, e)]
                /\ UNCHANGED <<active, used>>

MNext == \E c \in Conn : \/ Attach(c)
                         \/ Detach(c)
                         \/ \E e \in Event : Accept(c, e)

MSpec == MInit /\ [][MNext]_mvars
=============================================================================
