------------------------------- MODULE Peers -------------------------------
(***************************************************************************)
(* The audio connections between the clients in one voice channel: who     *)
(* offers to whom, and how offers, answers, joins and leaves that cross    *)
(* are taken (useWebRTC.ts, VoiceChannel.tsx), over the server's relay of  *)
(* VOICE_SIGNAL, which passes a signal on between users of one channel     *)
(* only (handle_voice_signal in handler.rs).                               *)
(*                                                                         *)
(* Every user has the VoiceChannel mounted all the time.  An offer and its *)
(* answer carry a number.  Creating a description and sending it is one    *)
(* step; ICE candidates and media are the browser's.                       *)
(***************************************************************************)
EXTENDS Naturals, Sequences, FiniteSets, Functions

CONSTANTS User,
          MaxOffers,   \* bound: offers made
          MaxBehind    \* bound: events a client has not seen when somebody
                       \* else joins or leaves

ASSUME PeersAssumption == /\ IsFiniteSet(User) /\ "none" \notin User
                          /\ MaxOffers \in Nat /\ MaxBehind \in Nat

VARIABLES
    present,   \* users in the channel: the rows of voice_states
    at,        \* user -> what its client is doing about the channel
    snap,      \* user -> the answer of listVoiceParticipants, or NoList
    list,      \* user -> participants
    offered,   \* user -> offeredPeersRef
    pc,        \* user -> peer -> its RTCPeerConnection
    ready,     \* user -> initialNegotiationDoneRef
    inbox,     \* user -> events on their way, in order
    offers,    \* offers made so far
    upset      \* users whose offers crossed, or who came back to one another
               \* (for the properties only)

lists == <<snap, list>>
peers == <<offered, pc, ready>>
wvars == <<present, at, snap, list, offered, pc, ready, inbox, offers, upset>>

NoPc == [sig |-> "none", offer |-> 0, link |-> 0]
NoList == {"none"}
Steps == {"out", "joining", "joined", "listing", "in", "leaving", "left",
          "relisting"}

(* The voice hook is enabled while the store knows the channel.            *)
Enabled(u) == at[u] \in {"joined", "listing", "in"}

WInit == /\ present = {} /\ at = [u \in User |-> "out"]
         /\ snap = [u \in User |-> NoList] /\ list = [u \in User |-> {}]
         /\ offered = [u \in User |-> {}]
         /\ pc = [u \in User |-> [p \in User |-> NoPc]]
         /\ ready = [u \in User |-> {}]
         /\ inbox = [u \in User |-> <<>>] /\ offers = 0 /\ upset = {}

Tell(box, users, e) == [u \in User |-> IF u \in users THEN Append(box[u], e)
                                                      ELSE box[u]]

(* The server relays a signal between two users who are in the channel.    *)
Relay(box, u, users, e) == Tell(box, IF u \in present THEN users \cap present
                                                      ELSE {}, e)

UpToDate == \A u \in User : Len(inbox[u]) <= MaxBehind

State(u, in) == [type |-> "state", from |-> u, in |-> in, n |-> 0]
Signal(type, u, n) == [type |-> type, from |-> u, in |-> TRUE, n |-> n]

-----------------------------------------------------------------------------
(* closePeer, for every peer that is not among the participants.           *)
Keep(u, pcs, users) == [pcs EXCEPT ![u] = [p \in User |->
                            IF p \in users THEN pcs[u][p] ELSE NoPc]]

(* Mutant of Participants: the connections are left to themselves.         *)
ParticipantsOnly(u, users, pcs) ==
    /\ list' = [list EXCEPT ![u] = users]
    /\ pc' = pcs /\ UNCHANGED ready

(* The participants change: whoever has left is closed.                    *)
Participants(u, users, pcs) ==
    /\ list' = [list EXCEPT ![u] = users]
    /\ pc' = Keep(u, pcs, users)
    /\ ready' = [ready EXCEPT ![u] = @ \cap users]

(* createPeer unless there is one; it has an offer to be answered then.    *)
Offering(u, users, pcs) == [pcs EXCEPT ![u] = [p \in User |->
    IF p \in users
    THEN [pcs[u][p] EXCEPT !.sig = "offered", !.offer = offers + 1]
    ELSE pcs[u][p]]]

-----------------------------------------------------------------------------
(* handleJoin: the call of the store, then the list of participants.       *)
HandleJoin(u) == /\ at[u] = "out" /\ at' = [at EXCEPT ![u] = "joining"]
                 /\ UNCHANGED <<present, lists, peers, inbox, offers, upset>>

JoinServed(u) ==
    /\ at[u] = "joining" /\ u \notin present /\ UpToDate
    /\ present' = present \cup {u}
    /\ inbox' = Tell(inbox, User, State(u, TRUE))
    /\ UNCHANGED <<at, lists, peers, offers, upset>>

JoinAnswered(u) == /\ at[u] = "joining" /\ u \in present
                   /\ at' = [at EXCEPT ![u] = "joined"]
                   /\ UNCHANGED <<present, lists, peers, inbox, offers, upset>>

(* Users in the channel of whom this client has yet to hear that they left *)
(* it earlier: the list will be undone.                                    *)
Outdated(u) == {p \in present : State(p, FALSE) \in Range(inbox[u])}

ListServed(u) ==
    /\ at[u] \in {"joined", "left"}
    /\ at' = [at EXCEPT ![u] = IF @ = "joined" THEN "listing" ELSE "relisting"]
    /\ snap' = [snap EXCEPT ![u] = present]
    /\ upset' = IF Outdated(u) = {} THEN upset ELSE upset \cup {u}
    /\ UNCHANGED <<present, list, peers, inbox, offers>>

(* The peers who were there are offered to, each once only.                *)
Offer(u, new) ==
    /\ offered' = [offered EXCEPT ![u] = @ \cup new]
    /\ Participants(u, snap[u], Offering(u, new, pc))
    /\ offers' = IF new = {} THEN offers ELSE offers + 1
    /\ offers' <= MaxOffers
    /\ inbox' = Relay(inbox, u, new, Signal("offer", u, offers'))

(* Coming back to somebody, to a connection that is still there, or while  *)
(* a signal between the two is on its way: an answer does not say to which *)
(* offer, and one of an earlier call would be taken for one of this.       *)
Signalled(u, p) == \/ \E e \in Range(inbox[u]) : e.type # "state" /\ e.from = p
                   \/ \E e \in Range(inbox[p]) : e.type # "state" /\ e.from = u
Again(u) == {p \in snap[u] \ {u} : \/ p \in offered[u] \/ pc[u][p] # NoPc
                                   \/ Signalled(u, p)}

Listed(u) ==
    /\ at[u] = "listing" /\ at' = [at EXCEPT ![u] = "in"]
    /\ Offer(u, snap[u] \ (offered[u] \cup {u}))
    /\ snap' = [snap EXCEPT ![u] = NoList]
    /\ upset' = IF Again(u) = {} THEN upset ELSE upset \cup {u} \cup Again(u)
    /\ UNCHANGED present

(* handleLeave: the hook is off at once; offers are not forgotten and      *)
(* connections not closed.  Then the participants are listed again.        *)
HandleLeave(u) == /\ at[u] = "in" /\ at' = [at EXCEPT ![u] = "leaving"]
                  /\ UNCHANGED <<present, lists, peers, inbox, offers, upset>>

LeaveServed(u) ==
    /\ at[u] = "leaving" /\ UpToDate /\ at' = [at EXCEPT ![u] = "left"]
    /\ present' = present \ {u}
    /\ inbox' = Tell(inbox, User, State(u, FALSE))
    /\ UNCHANGED <<lists, peers, offers, upset>>

Relisted(u) == /\ at[u] = "relisting" /\ at' = [at EXCEPT ![u] = "out"]
               /\ Participants(u, snap[u], pc)
               /\ snap' = [snap EXCEPT ![u] = NoList]
               /\ UNCHANGED <<present, offered, inbox, offers, upset>>

-----------------------------------------------------------------------------
(* Events reach a client one by one.                                       *)
Next1(u, type) == inbox[u] # <<>> /\ Head(inbox[u]).type = type
Taken(u) == [inbox EXCEPT ![u] = Tail(@)]

(* VOICE_STATE_UPDATE, which a list answered later may undo.               *)
OnState(u) ==
    LET e == Head(inbox[u])
    IN /\ Next1(u, "state")
       /\ Participants(u, IF e.in THEN list[u] \cup {e.from}
                                  ELSE list[u] \ {e.from}, pc)
       /\ inbox' = Taken(u)
       /\ upset' = IF snap[u] # NoList /\ e.in # (e.from \in snap[u])
                   THEN upset \cup {u} ELSE upset
       /\ UNCHANGED <<present, at, snap, offered, offers>>

(* Stable again, with both ends agreed on the offer of this number.        *)
Settle(u, p, n) ==
    /\ pc' = [pc EXCEPT ![u][p] = [sig |-> "stable", offer |-> 0, link |-> n]]
    /\ ready' = [ready EXCEPT ![u] = @ \cup {p}]

(* An offer is answered, whether or not this client made one meanwhile:    *)
(* the browser takes its own back then.                                    *)
OnOffer(u) ==
    LET e == Head(inbox[u])
    IN /\ Next1(u, "offer")
       /\ IF Enabled(u)
          THEN /\ Settle(u, e.from, e.n)
               /\ inbox' = Relay(Taken(u), u, {e.from},
                                 Signal("answer", u, e.n))
          ELSE inbox' = Taken(u) /\ UNCHANGED <<pc, ready>>
       /\ upset' = IF pc[u][e.from].sig = "offered"
                   THEN upset \cup {u, e.from} ELSE upset
       /\ UNCHANGED <<present, at, lists, offered, offers>>

(* Mutant of OnAnswer: only the first negotiation is completed.            *)
OnFirstAnswer(u) ==
    LET e == Head(inbox[u])
    IN /\ Next1(u, "answer")
       /\ IF e.from \notin ready[u] /\ pc[u][e.from].sig = "offered"
          THEN Settle(u, e.from, e.n) ELSE UNCHANGED <<pc, ready>>
       /\ inbox' = Taken(u)
       /\ UNCHANGED <<present, at, lists, offered, offers, upset>>

(* An answer counts while there is an offer to be answered.                *)
OnAnswer(u) ==
    LET e == Head(inbox[u])
    IN /\ Next1(u, "answer")
       /\ IF Enabled(u) /\ pc[u][e.from].sig = "offered"
          THEN Settle(u, e.from, e.n) ELSE UNCHANGED <<pc, ready>>
       /\ inbox' = Taken(u)
       /\ UNCHANGED <<present, at, lists, offered, offers, upset>>

(* A camera or screen is added or removed: a connection that was agreed on *)
(* is negotiated again.                                                    *)
Renegotiate(u, p) ==
    /\ p \in ready[u] /\ pc[u][p].sig = "stable" /\ offers < MaxOffers
    /\ pc' = Offering(u, {p}, pc)
    /\ offers' = offers + 1
    /\ inbox' = Relay(inbox, u, {p}, Signal("offer", u, offers'))
    /\ upset' = IF at[u] = "in" THEN upset ELSE upset \cup {u, p}
    /\ UNCHANGED <<present, at, lists, offered, ready>>

(* The other end is closed: the connection fails, and is closed here too.  *)
PcFails(u, p) ==
    /\ pc[u][p].link # 0 /\ pc[p][u] = NoPc
    /\ pc' = Keep(u, pc, User \ {p})
    /\ ready' = [ready EXCEPT ![u] = @ \ {p}]
    /\ UNCHANGED <<present, at, lists, offered, inbox, offers, upset>>

-----------------------------------------------------------------------------
WNext == \E u \in User :
    \/ HandleJoin(u) \/ JoinServed(u) \/ JoinAnswered(u)
    \/ ListServed(u) \/ Listed(u)
    \/ HandleLeave(u) \/ LeaveServed(u) \/ Relisted(u)
    \/ OnState(u) \/ OnOffer(u) \/ OnAnswer(u)
    \/ \E p \in User \ {u} : Renegotiate(u, p) \/ PcFails(u, p)

WSpec == WInit /\ [][WNext]_wvars

-----------------------------------------------------------------------------
(* All is quiet between two users: no event is on its way to them, and     *)
(* neither was upset.                                                      *)
Quiet(u, p) == inbox[u] = <<>> /\ inbox[p] = <<>> /\ {u, p} \cap upset = {}

(* Whoever joins gets connected to everybody who is in the channel, and    *)
(* stays connected while cameras and screens come and go: both ends have   *)
(* agreed on the same offer, and wait for nothing.  Holds as long as       *)
(* offers do not cross, and nobody comes back to somebody it was connected *)
(* to or whose signals are still on their way.                             *)
CallsConnect == \A u \in User : \A p \in User \ {u} :
    at[u] = "in" /\ at[p] = "in" /\ Quiet(u, p) =>
        /\ pc[u][p].sig = "stable" /\ pc[u][p].link # 0
        /\ pc[u][p] = pc[p][u]

(* Who is listed is who is there, and connections lead to nobody else.     *)
ListsAgree == \A u \in User : Quiet(u, u) /\ snap[u] = NoList =>
    /\ list[u] = present
    /\ \A p \in User : pc[u][p] # NoPc => p \in list[u]
=============================================================================
