---------------------- MODULE ConnectionManager_proofs ----------------------
(***************************************************************************)
(* What is proved of ConnectionManager.tla for every set of users,         *)
(* connections and events: type correctness, the inductive invariant that  *)
(* ties an entry of the map to a session that will still clean it up, the  *)
(* action property NoEviction, the delivery order, and the implementation  *)
(* of Mailbox.tla.                                                         *)
(***************************************************************************)
EXTENDS ConnectionManager, TLAPS

(* Every value has its type in every reachable state.                      *)
THEOREM TypeCorrect == Spec => []TypeOK
<1>1. Init => TypeOK
  BY ConnAssumption DEF Init, TypeOK, Phases
<1>2. TypeOK /\ [Next]_vars => TypeOK'
  <2> SUFFICES ASSUME TypeOK, [Next]_vars PROVE TypeOK'
    OBVIOUS
  <2> USE ConnAssumption DEF TypeOK, Phases
  <2>1. ASSUME NEW c \in Conn, SessionStep(c) PROVE TypeOK'
    <3>1. CASE Greet(c) BY <3>1 DEF Greet
    <3>2. CASE GreetFails(c) BY <3>2 DEF GreetFails
    <3>3. CASE Add(c) BY <3>3 DEF Add
    <3>4. CASE Spawn(c) BY <3>4 DEF Spawn
    <3>5. CASE Forward(c) BY <3>5 DEF Forward
    <3>6. CASE ChannelClosed(c) BY <3>6 DEF ChannelClosed
    <3>7. CASE Disconnect(c) BY <3>7 DEF Disconnect
    <3>8. CASE Remove(c) BY <3>8 DEF Remove
    <3> QED BY <2>1, <3>1, <3>2, <3>3, <3>4, <3>5, <3>6, <3>7, <3>8
            DEF SessionStep
  <2>2. ASSUME NEW e \in Event, BroadcastStep(e) PROVE TypeOK'
    <3>1. CASE BroadcastStart(e) BY <3>1 DEF BroadcastStart
    <3>2. ASSUME NEW u \in User, BroadcastSend(e, u) PROVE TypeOK'
      <4>1. queue' \in [Conn -> Seq(Event)]
        BY <3>2 DEF BroadcastSend, Enqueue
      <4> QED BY <3>2, <4>1 DEF BroadcastSend
    <3>3. CASE BroadcastEnd(e) BY <3>3 DEF BroadcastEnd
    <3> QED BY <2>2, <3>1, <3>2, <3>3 DEF BroadcastStep
  <2>3. CASE UNCHANGED vars BY <2>3 DEF vars
  <2> QED BY <2>1, <2>2, <2>3 DEF Next
<1> QED BY <1>1, <1>2, PTL DEF Spec

-----------------------------------------------------------------------------
(* EntryHasOwner is inductive together with the types: an entry belongs to *)
(* its own user, and its session has registered but not removed itself.    *)
THEOREM EntryOwned == Spec => []EntryHasOwner
<1>1. Init => EntryHasOwner
  BY DEF Init, EntryHasOwner
<1>2. TypeOK /\ EntryHasOwner /\ [Next]_vars => EntryHasOwner'
  <2> SUFFICES ASSUME TypeOK, EntryHasOwner, [Next]_vars
               PROVE EntryHasOwner'
    OBVIOUS
  <2> USE ConnAssumption DEF TypeOK, EntryHasOwner, Phases
  <2>1. ASSUME NEW c \in Conn, SessionStep(c) PROVE EntryHasOwner'
    <3>1. CASE Greet(c) BY <3>1 DEF Greet
    <3>2. CASE GreetFails(c) BY <3>2 DEF GreetFails
    <3>3. CASE Add(c) BY <3>3 DEF Add
    <3>4. CASE Spawn(c) BY <3>4 DEF Spawn
    <3>5. CASE Forward(c) BY <3>5 DEF Forward
    <3>6. CASE ChannelClosed(c) BY <3>6 DEF ChannelClosed
    <3>7. CASE Disconnect(c) BY <3>7 DEF Disconnect
    <3>8. CASE Remove(c) BY <3>8 DEF Remove
    <3> QED BY <2>1, <3>1, <3>2, <3>3, <3>4, <3>5, <3>6, <3>7, <3>8
            DEF SessionStep
  <2>2. ASSUME NEW e \in Event, BroadcastStep(e) PROVE EntryHasOwner'
    BY <2>2 DEF BroadcastStep, BroadcastStart, BroadcastSend, BroadcastEnd
  <2>3. CASE UNCHANGED vars BY <2>3 DEF vars
  <2> QED BY <2>1, <2>2, <2>3 DEF Next
<1> QED BY <1>1, <1>2, TypeCorrect, PTL DEF Spec

(* The guard of remove: an entry that changes was either taken out by the  *)
(* clean-up of its own session or replaced by a session that registers.    *)
THEOREM EvictionGuarded == Spec => NoEviction
<1> DEFINE Guarded(u) ==
       connections'[u] # connections[u] =>
          \/ /\ connections'[u] = NoConn
             /\ session[connections[u]] = "closing"
             /\ session'[connections[u]] = "gone"
          \/ /\ connections'[u] # NoConn
             /\ session[connections'[u]] = "greeted"
<1>1. TypeOK /\ [Next]_vars => [\A u \in User : Guarded(u)]_vars
  <2> SUFFICES ASSUME TypeOK, Next, NEW u \in User PROVE Guarded(u)
    BY DEF vars
  <2> USE ConnAssumption DEF TypeOK
  <2>1. ASSUME NEW c \in Conn, SessionStep(c) PROVE Guarded(u)
    <3>1. CASE Add(c) BY <3>1 DEF Add
    <3>2. CASE Remove(c) BY <3>2 DEF Remove
    <3> QED BY <2>1, <3>1, <3>2 DEF SessionStep, Greet, GreetFails, Spawn,
               Forward, ChannelClosed, Disconnect
  <2>2. ASSUME NEW e \in Event, BroadcastStep(e) PROVE Guarded(u)
    BY <2>2 DEF BroadcastStep, BroadcastStart, BroadcastSend, BroadcastEnd
  <2> QED BY <2>1, <2>2 DEF Next
<1> QED BY <1>1, TypeCorrect, PTL DEF Spec, NoEviction

-----------------------------------------------------------------------------
(* Moving the oldest queued message to the socket changes neither the      *)
(* messages accepted for a connection nor their order.                     *)
LEMMA ForwardKeeps ==
    ASSUME NEW S, NEW w \in Seq(S), NEW q \in Seq(S), q # <<>>
    PROVE  Append(w, Head(q)) \o Tail(q) = w \o q
OBVIOUS

(* A message queued last is accepted last.                                 *)
LEMMA QueueExtends ==
    ASSUME NEW S, NEW w \in Seq(S), NEW q \in Seq(S), NEW e \in S
    PROVE  w \o Append(q, e) = Append(w \o q, e)
OBVIOUS

(* What a step does to the messages accepted for a connection: nothing, or *)
(* a broadcast appends its event to the connection registered for one of   *)
(* its recipients.                                                         *)
LEMMA AcceptedStep ==
    ASSUME TypeOK, [Next]_vars, NEW c \in Conn
    PROVE  /\ Accepted(c) \in Seq(Event)
           /\ \/ Accepted(c)' = Accepted(c)
              \/ \E e \in Event :
                    /\ bcast[e] = "sending"
                    /\ \E u \in User : connections[u] = c
                    /\ Accepted(c)' = Append(Accepted(c), e)
                    /\ UNCHANGED <<connections, session, bcast, before>>
<1> USE ConnAssumption DEF TypeOK, Accepted
<1>1. Accepted(c) \in Seq(Event)
  OBVIOUS
<1>2. ASSUME NEW d \in Conn, SessionStep(d)
      PROVE  Accepted(c)' = Accepted(c)
  <2>1. CASE Forward(d)
    <3>1. CASE c = d
      BY <2>1, <3>1, ForwardKeeps DEF Forward
    <3>2. CASE c # d
      BY <2>1, <3>2 DEF Forward
    <3> QED BY <3>1, <3>2
  <2> QED BY <1>2, <2>1 DEF SessionStep, Greet, GreetFails, Add, Spawn,
             ChannelClosed, Disconnect, Remove
<1>3. ASSUME NEW e \in Event, BroadcastStart(e) \/ BroadcastEnd(e)
      PROVE  Accepted(c)' = Accepted(c)
  BY <1>3 DEF BroadcastStart, BroadcastEnd
<1>4. ASSUME NEW e \in Event, NEW u \in User, BroadcastSend(e, u),
             Accepted(c)' # Accepted(c)
      PROVE  /\ bcast[e] = "sending"
             /\ connections[u] = c
             /\ Accepted(c)' = Append(Accepted(c), e)
             /\ UNCHANGED <<connections, session, bcast, before>>
  <2>1. queue'[c] = IF connections[u] = c /\ Receiving(c)
                    THEN Append(queue[c], e) ELSE queue[c]
    BY <1>4 DEF BroadcastSend, Enqueue
  <2>2. wire' = wire
    BY <1>4 DEF BroadcastSend
  <2>3. connections[u] = c /\ queue'[c] = Append(queue[c], e)
    BY <1>4, <2>1, <2>2
  <2> QED BY <1>4, <2>2, <2>3, QueueExtends DEF BroadcastSend
<1>5. CASE UNCHANGED vars
  BY <1>5 DEF vars
<1> QED BY <1>1, <1>2, <1>3, <1>4, <1>5 DEF Next, BroadcastStep

-----------------------------------------------------------------------------
(* InOrder is not inductive: an event must not begin after it has been     *)
(* accepted somewhere, and what ended before it began stays ended.         *)
OrderInv ==
    /\ InOrder
    /\ \A e \in Event : \A x \in before[e] : bcast[x] = "done"
    /\ \A c \in Conn : \A i \in DOMAIN Accepted(c) :
          bcast[Accepted(c)[i]] # "idle"

(* A broadcast step never turns an event that began back into one that did *)
(* not, nor an ended one into one that runs.                               *)
LEMMA BcastForward ==
    ASSUME TypeOK, [Next]_vars, NEW x \in Event
    PROVE  /\ bcast[x] # "idle" => bcast'[x] # "idle"
           /\ bcast[x] = "done" => bcast'[x] = "done"
           /\ before'[x] # before[x] =>
                 /\ bcast[x] = "idle"
                 /\ before'[x] = {y \in Event : bcast[y] = "done"}
<1> USE DEF TypeOK
<1>1. ASSUME NEW d \in Conn, SessionStep(d) PROVE UNCHANGED <<bcast, before>>
  BY <1>1 DEF SessionStep, Greet, GreetFails, Add, Spawn, Forward,
     ChannelClosed, Disconnect, Remove
<1>2. ASSUME NEW e \in Event, BroadcastStep(e)
      PROVE  /\ bcast[x] # "idle" => bcast'[x] # "idle"
             /\ bcast[x] = "done" => bcast'[x] = "done"
             /\ before'[x] # before[x] =>
                   /\ bcast[x] = "idle"
                   /\ before'[x] = {y \in Event : bcast[y] = "done"}
  BY <1>2 DEF BroadcastStep, BroadcastStart, BroadcastSend, BroadcastEnd
<1> QED BY <1>1, <1>2 DEF Next, vars

(* No connection ever accepts a broadcast that ended before another one    *)
(* began after that other one.                                             *)
THEOREM DeliveryOrder == Spec => []InOrder
<1>1. Init => OrderInv
  BY DEF Init, OrderInv, InOrder, Accepted
<1>2. TypeOK /\ OrderInv /\ [Next]_vars => OrderInv'
  <2> SUFFICES ASSUME TypeOK, OrderInv, [Next]_vars PROVE OrderInv'
    OBVIOUS
  <2>1. ASSUME NEW e \in Event, NEW x \in before'[e] PROVE bcast'[x] = "done"
    <3>1. x \in Event /\ bcast[x] = "done"
      BY <2>1, BcastForward DEF OrderInv, TypeOK
    <3> QED BY <3>1, BcastForward
  <2>2. ASSUME NEW c \in Conn
        PROVE  /\ \A i, j \in DOMAIN Accepted(c)' : i < j =>
                     Accepted(c)'[j] \notin before'[Accepted(c)'[i]]
               /\ \A i \in DOMAIN Accepted(c)' :
                     bcast'[Accepted(c)'[i]] # "idle"
    <3> DEFINE old == Accepted(c)
               new == Accepted(c)'
    <3>1. old \in Seq(Event)
      BY AcceptedStep
    <3>2. /\ \A i, j \in DOMAIN old : i < j => old[j] \notin before[old[i]]
          /\ \A i \in DOMAIN old : bcast[old[i]] # "idle"
      BY DEF OrderInv, InOrder
    <3>3. CASE new = old
      <4> HIDE DEF old, new
      <4>1. \A i \in DOMAIN old : old[i] \in Event
        BY <3>1
      <4>2. \A i \in DOMAIN old : before'[old[i]] = before[old[i]]
        BY <4>1, <3>2, BcastForward
      <4>3. \A i \in DOMAIN old : bcast'[old[i]] # "idle"
        BY <4>1, <3>2, BcastForward
      <4>4. \A i, j \in DOMAIN new :
               i < j => new[j] \notin before'[new[i]]
        BY <3>2, <3>3, <4>2
      <4>5. \A i \in DOMAIN new : bcast'[new[i]] # "idle"
        BY <3>3, <4>3
      <4> QED BY <4>4, <4>5 DEF old, new
    <3>4. ASSUME NEW e \in Event, bcast[e] = "sending",
                 new = Append(old, e), UNCHANGED <<bcast, before>>
          PROVE  /\ \A i, j \in DOMAIN new :
                       i < j => new[j] \notin before'[new[i]]
                 /\ \A i \in DOMAIN new : bcast'[new[i]] # "idle"
      <4> HIDE DEF old, new
      <4>1. \A x \in Event : e \notin before[x]
        BY <3>4 DEF OrderInv
      <4>2. /\ DOMAIN new = 1 .. Len(old) + 1
            /\ DOMAIN old = 1 .. Len(old)
            /\ Len(old) \in Nat
            /\ new[Len(old) + 1] = e
            /\ \A i \in DOMAIN old : new[i] = old[i] /\ old[i] \in Event
        BY <3>1, <3>4
      <4>3. ASSUME NEW i \in DOMAIN new, NEW j \in DOMAIN new, i < j
            PROVE  new[j] \notin before[new[i]]
        <5>1. i \in DOMAIN old
          BY <4>2, <4>3
        <5>2. CASE j \in DOMAIN old
          BY <3>2, <4>2, <4>3, <5>1, <5>2
        <5>3. CASE j = Len(old) + 1
          BY <4>1, <4>2, <5>1, <5>3
        <5> QED BY <4>2, <4>3, <5>2, <5>3
      <4>4. \A i \in DOMAIN new : bcast[new[i]] # "idle"
        BY <3>2, <3>4, <4>2
      <4> QED BY <3>4, <4>3, <4>4
    <3> QED BY <3>3, <3>4, AcceptedStep
  <2> QED BY <2>1, <2>2 DEF OrderInv, InOrder
<1>3. OrderInv => InOrder
  BY DEF OrderInv
<1> QED BY <1>1, <1>2, <1>3, TypeCorrect, PTL DEF Spec

-----------------------------------------------------------------------------
(* The registry, its locks, channels and tasks implement the mailboxes of  *)
(* Mailbox.tla: every step is an attach, a detach, the acceptance of one   *)
(* message by the active connection of a user, or invisible.               *)
THEOREM Implementation == Spec => ImplementsMailbox
<1>1. Init => M!MInit
  BY DEF Init, M!MInit, Attached, Accepted
<1>2. TypeOK /\ EntryHasOwner /\ [Next]_vars => [M!MNext]_(M!mvars)
  <2> SUFFICES ASSUME TypeOK, EntryHasOwner, [Next]_vars
               PROVE  M!MNext \/ UNCHANGED M!mvars
    OBVIOUS
  <2> DEFINE acc == [c \in Conn |-> Accepted(c)]
  <2> USE ConnAssumption
  <2>1. ASSUME NEW c \in Conn, Add(c) PROVE M!Attach(c)
    <3>1. acc' = acc
      BY <2>1 DEF Add, Accepted
    <3>2. c \notin Attached /\ Attached' = Attached \cup {c}
      BY <2>1 DEF Add, Attached, TypeOK
    <3> QED BY <2>1, <3>1, <3>2 DEF Add, M!Attach, TypeOK
  <2>2. ASSUME NEW c \in Conn, Remove(c)
        PROVE  M!Detach(c) \/ UNCHANGED M!mvars
    <3>1. acc' = acc
      BY <2>2 DEF Remove, Accepted
    <3>2. Attached' = Attached
      BY <2>2 DEF Remove, Attached, TypeOK
    <3>3. CASE connections[UserOf[c]] = c
      BY <2>2, <3>1, <3>2, <3>3 DEF Remove, M!Detach, TypeOK
    <3>4. CASE connections[UserOf[c]] # c
      BY <2>2, <3>1, <3>2, <3>4 DEF Remove, M!mvars, TypeOK
    <3> QED BY <3>3, <3>4
  <2>3. ASSUME NEW c \in Conn,
               \/ Greet(c) \/ GreetFails(c) \/ Spawn(c) \/ Forward(c)
               \/ ChannelClosed(c) \/ Disconnect(c)
        PROVE  UNCHANGED M!mvars
    <3>1. Attached' = Attached
      BY <2>3 DEF Greet, GreetFails, Spawn, Forward, ChannelClosed,
         Disconnect, Attached, TypeOK
    <3>2. ASSUME NEW d \in Conn PROVE Accepted(d)' = Accepted(d)
      <4>1. bcast' = bcast /\ todo' = todo
        BY <2>3 DEF Greet, GreetFails, Spawn, Forward, ChannelClosed,
           Disconnect
      <4>2. CASE Forward(c)
        <5>1. CASE d = c
          BY <4>2, <5>1, ForwardKeeps DEF Forward, Accepted, TypeOK
        <5>2. CASE d # c
          BY <4>2, <5>2 DEF Forward, Accepted, TypeOK
        <5> QED BY <5>1, <5>2
      <4> QED BY <2>3, <4>2 DEF Greet, GreetFails, Spawn, ChannelClosed,
                 Disconnect, Accepted
    <3>3. connections' = connections
      BY <2>3 DEF Greet, GreetFails, Spawn, Forward, ChannelClosed, Disconnect
    <3> QED BY <3>1, <3>2, <3>3 DEF M!mvars
  <2>4. ASSUME NEW e \in Event, BroadcastStart(e) \/ BroadcastEnd(e)
        PROVE  UNCHANGED M!mvars
    BY <2>4 DEF BroadcastStart, BroadcastEnd, M!mvars, Attached, Accepted
  <2>5. ASSUME NEW e \in Event, NEW u \in User, BroadcastSend(e, u)
        PROVE  M!MNext \/ UNCHANGED M!mvars
    <3>1. UNCHANGED <<connections, session, wire>> /\ Attached' = Attached
      BY <2>5 DEF BroadcastSend, Attached
    <3>2. \A c \in Conn : queue'[c] = IF connections[u] = c /\ Receiving(c)
                                      THEN Append(queue[c], e) ELSE queue[c]
      BY <2>5 DEF BroadcastSend, Enqueue
    <3>3. CASE \E c \in Conn : connections[u] = c /\ Receiving(c)
      <4>1. PICK c \in Conn : connections[u] = c /\ Receiving(c)
        BY <3>3
      <4>2. UserOf[c] = u
        BY <4>1 DEF EntryHasOwner
      <4>3. Accepted(c)' = Append(Accepted(c), e)
        <5>1. wire'[c] = wire[c] /\ queue'[c] = Append(queue[c], e)
          BY <3>1, <3>2, <4>1
        <5>2. wire[c] \in Seq(Event) /\ queue[c] \in Seq(Event)
          BY DEF TypeOK
        <5>3. \A w, q \in Seq(Event) : w \o Append(q, e) = Append(w \o q, e)
          BY QueueExtends
        <5>4. wire[c] \o Append(queue[c], e) = Append(wire[c] \o queue[c], e)
          BY <5>2, <5>3, Zenon
        <5> QED BY <5>1, <5>4, Zenon DEF Accepted
      <4>4. \A d \in Conn : d # c => Accepted(d)' = Accepted(d)
        BY <3>1, <3>2, <4>1 DEF Accepted
      <4>5. acc' = [acc EXCEPT ![c] = Append(@, e)]
        BY <4>3, <4>4
      <4> QED BY <3>1, <4>1, <4>2, <4>5 DEF M!Accept, M!MNext
    <3>4. CASE ~ \E c \in Conn : connections[u] = c /\ Receiving(c)
      <4>1. \A c \in Conn : Accepted(c)' = Accepted(c)
        BY <3>1, <3>2, <3>4 DEF Accepted
      <4> QED BY <3>1, <4>1 DEF M!mvars
    <3> QED BY <3>3, <3>4
  <2>6. CASE UNCHANGED vars
    BY <2>6 DEF vars, M!mvars, Attached, Accepted
  <2> QED BY <2>1, <2>2, <2>3, <2>4, <2>5, <2>6
          DEF Next, SessionStep, BroadcastStep, M!MNext
<1> QED BY <1>1, <1>2, TypeCorrect, EntryOwned, PTL
        DEF Spec, ImplementsMailbox, M!MSpec
=============================================================================
