--------------------------- MODULE Session_proofs ---------------------------
(***************************************************************************)
(* Proofs about Session, for any calls in flight, any number of sessions   *)
(* on the server and of generations of tokens, with or without faults: a   *)
(* refresh token is exchanged once, and the socket follows the session.    *)
(***************************************************************************)
EXTENDS Session, TLAPS

(* A call is idle, or at one of its steps; one that is to write a row has  *)
(* found it.                                                               *)
Steps == {"sent", "ok", "failed", "refused", "refresh", "swap",
          "ok_refresh", "refused_refresh", "failed_refresh"}
Methods == Plain \cup SignIns \cup {"getCurrentUser"}
Calls == [at : Steps, e : Methods, again : BOOLEAN, acc : Nat,
          sid : 0..MaxRows]
Found(d) == d.at = "swap" => d.sid \in 1..MaxRows
CallTypes == /\ call \in [Slot -> {Idle} \cup Calls]
             /\ \A k \in Slot : Found(call[k])
             /\ disk \in Nat /\ tok \in Nat /\ issued \in Seq(Nat)

LEMMA InFlight ==
    ASSUME CallTypes, NEW k \in Slot, call[k].at # "idle"
    PROVE  call[k] \in Calls
  BY DEF CallTypes, Idle

(* Only a call at its step is at a step. *)
LEMMA AtStep ==
    ASSUME CallTypes, NEW k \in Slot, NEW at \in Steps, At(k, at)
    PROVE  call[k] \in Calls
  BY InFlight DEF At, Steps

(* What a step of one call makes of it. *)
LEMMA CallStep ==
    ASSUME CallTypes, NEW k \in Slot,
           NEW d \in {Idle} \cup Calls, Found(d),
           call' = [call EXCEPT ![k] = d],
           disk' \in Nat, tok' \in Nat, issued' \in Seq(Nat)
    PROVE  CallTypes'
  BY DEF CallTypes, Found

LEMMA IdleFound == Found(Idle)
  BY DEF Found, Idle

LEMMA CallInit == SInit => CallTypes
  BY IdleFound DEF SInit, CallTypes, None

(* The server's part of a call. *)
LEMMA CallServed ==
    ASSUME CallTypes, NEW k \in Slot, Network(k)
    PROVE  CallTypes'
<1>1. call[k] \in Calls /\ Len(issued) + 1 \in Nat
  <2>1. \E at \in Steps : At(k, at)
    BY DEF Network, ServeSignIn, Serve, RefreshRead, RefreshSwap, Steps
  <2> QED
    BY <2>1, AtStep DEF CallTypes
<1>2. disk' \in Nat /\ tok' \in Nat
  BY DEF CallTypes, Network, ServeSignIn, Serve, RefreshRead, RefreshSwap,
         tokens
<1>3. issued' \in Seq(Nat)
  <2>1. issued' = issued \/ \E g \in Nat : issued' = Append(issued, g)
    BY <1>1 DEF Network, ServeSignIn, Serve, RefreshRead, RefreshSwap, server,
                Issue, None, Calls
  <2> QED
    BY <2>1 DEF CallTypes
<1>4. PICK d \in Calls : Found(d) /\ call' = [call EXCEPT ![k] = d]
  <2>1. ASSUME NEW at \in Steps \ {"swap"}, NEW g \in Nat
        PROVE  /\ [call[k] EXCEPT !.at = at] \in Calls
               /\ [call[k] EXCEPT !.at = at, !.acc = g] \in Calls
               /\ Found([call[k] EXCEPT !.at = at])
               /\ Found([call[k] EXCEPT !.at = at, !.acc = g])
    BY <1>1, <2>1 DEF Calls, Found
  <2>2. ASSUME NEW i \in 1..MaxRows
        PROVE  /\ [call[k] EXCEPT !.at = "swap", !.sid = i] \in Calls
               /\ Found([call[k] EXCEPT !.at = "swap", !.sid = i])
    <3>1. "swap" \in Steps /\ i \in 0..MaxRows
      BY SessionAssumption DEF Steps
    <3>2. [call[k] EXCEPT !.at = "swap", !.sid = i] \in Calls
      BY <1>1, <3>1 DEF Calls
    <3>3. [call[k] EXCEPT !.at = "swap", !.sid = i].sid = i
      BY <1>1 DEF Calls
    <3> QED
      BY <3>2, <3>3 DEF Found
  <2>3. \/ \E at \in Steps \ {"swap"} :
               call' = [call EXCEPT ![k] = [call[k] EXCEPT !.at = at]]
        \/ \E at \in Steps \ {"swap"}, g \in Nat :
               call' = [call EXCEPT ![k] =
                           [call[k] EXCEPT !.at = at, !.acc = g]]
        \/ \E i \in 1..MaxRows :
               call' = [call EXCEPT ![k] =
                           [call[k] EXCEPT !.at = "swap", !.sid = i]]
    <3>1. CASE ServeSignIn(k)
      BY <1>1, <3>1 DEF ServeSignIn, Answer, Handed, Got, Steps
    <3>2. CASE Serve(k)
      BY <3>2 DEF Serve, Answer, Steps
    <3>3. CASE RefreshRead(k)
      BY <3>3 DEF RefreshRead, Answer, Steps
    <3>4. CASE RefreshSwap(k)
      BY <1>1, <3>4 DEF RefreshSwap, Answer, Handed, Got, Steps
    <3> QED
      BY <3>1, <3>2, <3>3, <3>4 DEF Network
  <2> QED
    BY <2>1, <2>2, <2>3
<1> QED
  BY <1>2, <1>3, <1>4, CallStep

(* The client's part. *)
LEMMA CallContinued ==
    ASSUME CallTypes, NEW k \in Slot, Continue(k)
    PROVE  CallTypes'
<1>1. call[k] \in Calls
  BY AtStep DEF Continue, TryRefresh, Refreshed, SessionExpired, RefreshBroken,
                Restored, RestoreRefused, SignedIn, SignInFails, CallEnds,
                Repeats, Fails, Steps
<1>2. disk' \in Nat /\ tok' \in Nat /\ issued' \in Seq(Nat)
  BY <1>1 DEF CallTypes, Continue, TryRefresh, Refreshed, SessionExpired,
              RefreshBroken, Restored, RestoreRefused, SignedIn, SignInFails,
              CallEnds, Expire, RestoreFails, tokens, server, None, Calls
<1>3. \/ call' = [call EXCEPT ![k] = Idle]
      \/ call' = [call EXCEPT ![k] =
                     [call[k] EXCEPT !.at = "refresh", !.acc = disk]]
      \/ call' = [call EXCEPT ![k] =
                     [call[k] EXCEPT !.at = "sent", !.again = TRUE]]
  BY DEF Continue, TryRefresh, Refreshed, SessionExpired, RefreshBroken,
         Restored, RestoreRefused, SignedIn, SignInFails, CallEnds, Expire,
         Done, Handed
<1>4. /\ [call[k] EXCEPT !.at = "refresh", !.acc = disk] \in Calls
      /\ Found([call[k] EXCEPT !.at = "refresh", !.acc = disk])
  BY <1>1 DEF CallTypes, Calls, Found, Steps
<1>5. /\ [call[k] EXCEPT !.at = "sent", !.again = TRUE] \in Calls
      /\ Found([call[k] EXCEPT !.at = "sent", !.again = TRUE])
  BY <1>1 DEF CallTypes, Calls, Found, Steps
<1> QED
  BY <1>2, <1>3, <1>4, <1>5, CallStep, IdleFound

(* The screens start calls, and a reload forgets them. *)
Starts(k) == \/ Launch(k) \/ Setup(k)
             \/ \E e \in SignIns : SignIn(k, e)
             \/ \E e \in Plain : Request(k, e)

LEMMA CallStarted ==
    ASSUME CallTypes, NEW k \in Slot, Starts(k)
    PROVE  CallTypes'
<1>1. disk' \in Nat /\ tok' \in Nat /\ issued' \in Seq(Nat)
  BY DEF CallTypes, Starts, Launch, Setup, SignIn, Request, RestoreSession,
         tokens, server
<1>2. CASE UNCHANGED call
  BY <1>1, <1>2 DEF CallTypes
<1>3. CASE call' # call
  <2>1. PICK e \in Methods, g \in Nat : Send(k, e, g)
    BY <1>3 DEF Starts, Launch, Setup, SignIn, Request, RestoreSession,
                Methods, CallTypes
  <2> DEFINE d == [at |-> "sent", e |-> e, again |-> FALSE, acc |-> g,
                   sid |-> None]
  <2>2. d \in Calls /\ Found(d)
    BY SessionAssumption DEF Calls, Found, Steps, None
  <2> QED
    BY <1>1, <2>1, <2>2, CallStep DEF Send
<1> QED
  BY <1>2, <1>3

LEMMA CallKept ==
    ASSUME CallTypes,
           \/ Logout \/ Reload \/ WsOpens \/ WsCloses \/ Reconnect
           \/ \E g \in Gen : AccessExpires(g)
           \/ \E i \in 1..MaxRows : SessionEnds(i)
           \/ UNCHANGED svars
    PROVE  CallTypes'
<1>1. disk' \in Nat /\ tok' \in Nat /\ issued' \in Seq(Nat)
  BY DEF CallTypes, Logout, Reload, WsOpens, WsCloses, Reconnect,
         AccessExpires, SessionEnds, svars, tokens, server, None
<1>2. UNCHANGED call \/ call' = [k \in Slot |-> Idle]
  BY DEF Logout, Reload, WsOpens, WsCloses, Reconnect,
         AccessExpires, SessionEnds, svars
<1> QED
  BY <1>1, <1>2, IdleFound DEF CallTypes

LEMMA CallNextStep == CallTypes /\ [SNext]_svars => CallTypes'
<1> SUFFICES ASSUME CallTypes, [SNext]_svars PROVE CallTypes'
  OBVIOUS
<1> QED
  BY CallServed, CallContinued, CallStarted, CallKept DEF SNext, Starts

-----------------------------------------------------------------------------
Issued == 1..Len(issued)

(* RotatedOnce alone is not inductive: what a session may be refreshed     *)
(* with was issued, was not exchanged yet, and belongs to no other         *)
(* session.                                                                *)
RotInv ==
    /\ issued \in Seq(Nat)
    /\ row \in [1..MaxRows -> Nat]
    /\ \A i \in 1..MaxRows : row[i] <= Len(issued)
    /\ \A i, j \in 1..MaxRows : row[i] = row[j] /\ row[i] # None => i = j
    /\ \A g \in Issued :
         /\ issued[g] <= Len(issued)
         /\ \A i \in 1..MaxRows : issued[g] = row[i] => issued[g] = None
    /\ RotatedOnce

LEMMA RotInit == SInit => RotInv
  BY DEF SInit, RotInv, RotatedOnce, Issued, None

(* A session takes a new token, for one it had or for none. *)
LEMMA RotIssue ==
    ASSUME RotInv, NEW i \in 1..MaxRows, NEW g \in {None, row[i]},
           row[i] \in {None, g},
           issued' = Append(issued, g),
           row' = [row EXCEPT ![i] = Len(issued) + 1]
    PROVE  RotInv'
<1>1. g \in Nat /\ Len(issued) \in Nat
  BY DEF RotInv, None
<1>2. /\ issued' \in Seq(Nat) /\ Len(issued') = Len(issued) + 1
      /\ \A h \in Issued : issued'[h] = issued[h]
      /\ issued'[Len(issued) + 1] = g
  BY <1>1 DEF RotInv, Issued
<1>3. row' \in [1..MaxRows -> Nat]
  BY <1>1 DEF RotInv
<1>4. \A j \in 1..MaxRows : row'[j] = IF j = i THEN Len(issued) + 1 ELSE row[j]
  BY DEF RotInv
<1>5. \A h \in Issued' : h \in Issued \/ h = Len(issued) + 1
  BY <1>1, <1>2 DEF Issued
<1>6. g <= Len(issued)
  BY <1>1 DEF RotInv, None
<1>7. \A j \in 1..MaxRows : row'[j] <= Len(issued')
  <2>1. \A j \in 1..MaxRows : row[j] \in Nat /\ row[j] <= Len(issued)
    BY DEF RotInv
  <2> QED
    BY <1>1, <1>2, <1>4, <2>1
<1>8. \A j, k \in 1..MaxRows : row'[j] = row'[k] /\ row'[j] # None => j = k
  BY <1>1, <1>4 DEF RotInv
<1>9. \A h \in Issued' :
         /\ issued'[h] <= Len(issued')
         /\ \A j \in 1..MaxRows : issued'[h] = row'[j] => issued'[h] = None
  <2> SUFFICES ASSUME NEW h \in Issued'
               PROVE  /\ issued'[h] <= Len(issued')
                      /\ \A j \in 1..MaxRows :
                            issued'[h] = row'[j] => issued'[h] = None
    OBVIOUS
  <2>1. CASE h \in Issued
    <3>1. /\ issued'[h] = issued[h] /\ issued[h] \in Nat
          /\ issued[h] <= Len(issued)
      BY <1>2, <2>1 DEF RotInv, Issued
    <3> QED
      BY <1>1, <1>2, <1>4, <2>1, <3>1 DEF RotInv
  <2>2. CASE h = Len(issued) + 1
    BY <1>1, <1>2, <1>4, <1>6, <2>2 DEF RotInv
  <2> QED
    BY <1>5, <2>1, <2>2
<1>10. RotatedOnce'
  <2>1. \A h \in Issued : issued[h] = g /\ g # None => FALSE
    BY DEF RotInv
  <2>2. \A x, y \in Issued' : issued'[x] = issued'[y] /\ issued'[x] # None
                                 => x = y
    BY <1>2, <1>5, <2>1 DEF RotInv, RotatedOnce, Issued
  <2> QED
    BY <2>2 DEF RotatedOnce, Issued
<1> QED
  BY <1>2, <1>3, <1>7, <1>8, <1>9, <1>10 DEF RotInv

LEMMA RotStep == CallTypes /\ RotInv /\ [SNext]_svars => RotInv'
<1> SUFFICES ASSUME CallTypes, RotInv, [SNext]_svars PROVE RotInv'
  OBVIOUS
<1>0. ASSUME UNCHANGED <<row, issued>> PROVE RotInv'
  BY <1>0 DEF RotInv, RotatedOnce, Issued
<1>1. ASSUME NEW k \in Slot, ServeSignIn(k) PROVE RotInv'
  <2>1. CASE UNCHANGED server
    BY <1>0, <2>1 DEF server
  <2>2. CASE \E i \in 1..MaxRows :
               /\ row[i] = None
               /\ row' = [row EXCEPT ![i] = Len(issued) + 1]
               /\ issued' = Append(issued, None)
    BY <2>2, RotIssue
  <2> QED
    BY <1>1, <2>1, <2>2 DEF ServeSignIn, Issue
<1>2. ASSUME NEW k \in Slot, RefreshSwap(k) PROVE RotInv'
  <2>1. CASE UNCHANGED server
    BY <1>0, <2>1 DEF server
  <2> DEFINE i == call[k].sid
  <2>2. i \in 1..MaxRows
    BY <1>2 DEF RefreshSwap, At, CallTypes, Found
  <2>3. CASE /\ row' = [row EXCEPT ![i] = Len(issued) + 1]
             /\ issued' = Append(issued, row[i])
    BY <2>2, <2>3, RotIssue
  <2> QED
    BY <1>2, <2>1, <2>3 DEF RefreshSwap, Issue
<1>3. ASSUME NEW i \in 1..MaxRows, SessionEnds(i) PROVE RotInv'
  BY <1>3 DEF SessionEnds, RotInv, RotatedOnce, Issued, None
<1>4. ASSUME NEW k \in Slot,
             Serve(k) \/ RefreshRead(k) \/ Continue(k) \/ Starts(k)
      PROVE  UNCHANGED <<row, issued>>
  BY <1>4 DEF Serve, RefreshRead, Continue, TryRefresh, Refreshed,
              SessionExpired, RefreshBroken, Restored, RestoreRefused,
              SignedIn, SignInFails, CallEnds, Expire, Starts, Launch, Setup,
              SignIn, Request, server
<1>5. ASSUME \/ Logout \/ Reload \/ WsOpens \/ WsCloses \/ Reconnect
             \/ \E g \in Gen : AccessExpires(g)
             \/ UNCHANGED svars
      PROVE  UNCHANGED <<row, issued>>
  BY <1>5 DEF Logout, Reload, WsOpens, WsCloses, Reconnect, AccessExpires,
              svars, server
<1> QED
  BY <1>0, <1>1, <1>2, <1>3, <1>4, <1>5 DEF SNext, Network, Starts

(* However many calls refresh at once, and whatever is lost, one refresh   *)
(* token buys one pair of tokens.                                          *)
THEOREM NoDoubleRotation == SFairSpec => []RotatedOnce
<1>1. RotInv => RotatedOnce
  BY DEF RotInv
<1> QED
  BY <1>1, CallInit, CallNextStep, RotInit, RotStep, PTL
     DEF SFairSpec, SSpec

-----------------------------------------------------------------------------
(* SocketFollowsSession alone is not inductive: answers hold tokens, and   *)
(* restoring the session overlaps with no other call, so that nothing      *)
(* drops the token it will connect with.                                   *)
SockTypes == /\ gtok \in Nat /\ timer \in BOOLEAN /\ beat \in BOOLEAN
             /\ launched \in BOOLEAN /\ loading \in BOOLEAN
             /\ authed \in BOOLEAN
Holds(d) == d.at = "ok_refresh" \/ (d.at = "ok" /\ d.e \in SignIns)
                => d.acc # None
Active(k) == call[k].at # "idle"
Restores(k) == Active(k) /\ Restoring(k)
Alone == \A k \in Slot : Restores(k) =>
            /\ loading /\ ~authed /\ tok # None
            /\ \A j \in Slot : Active(j) => j = k
Fresh == ~launched => /\ loading /\ ~authed
                      /\ \A k \in Slot : ~Active(k)
CallInv == Alone /\ Fresh /\ \A k \in Slot : Active(k) => Holds(call[k])
SockInv == SockTypes /\ CallInv /\ SocketFollowsSession

LEMMA SockInit == SInit => SockInv
<1> SUFFICES ASSUME SInit PROVE SockInv
  OBVIOUS
<1>1. \A k \in Slot : ~Active(k)
  BY DEF SInit, Active, Idle
<1>2. SockTypes /\ SocketFollowsSession
  BY DEF SInit, SockTypes, SocketFollowsSession, None
<1> QED
  BY <1>1, <1>2 DEF SInit, SockInv, CallInv, Alone, Fresh, Restores

(* A call goes on. *)
LEMMA SockGoesOn ==
    ASSUME CallTypes, CallInv, NEW k \in Slot, call[k] \in Calls,
           NEW d \in Calls, d.e = call[k].e, Holds(d),
           call' = [call EXCEPT ![k] = d],
           UNCHANGED <<launched, loading, authed>>, tok' # None \/ tok' = tok
    PROVE  CallInv'
<1>1. \A j \in Slot : call'[j] = IF j = k THEN d ELSE call[j]
  BY DEF CallTypes
<1>2. Active(k) /\ Active(k)'
  BY <1>1 DEF Active, Calls, Steps
<1>3. \A j \in Slot : /\ Active(j)' <=> Active(j)
                      /\ Restores(j)' <=> Restores(j)
  BY <1>1, <1>2 DEF Active, Restores, Restoring
<1>4. Alone'
  BY <1>3 DEF CallInv, Alone
<1>5. Fresh'
  BY <1>3 DEF CallInv, Fresh
<1>6. \A j \in Slot : Active(j)' => Holds(call'[j])
  BY <1>1, <1>3 DEF CallInv, Holds
<1> QED
  BY <1>4, <1>5, <1>6 DEF CallInv, Holds

(* A call ends: if it was restoring the session no other was active, and   *)
(* if not no other is restoring it.                                        *)
LEMMA SockEnds ==
    ASSUME CallTypes, CallInv, NEW k \in Slot, call[k] \in Calls,
           call' = [call EXCEPT ![k] = Idle], UNCHANGED launched
    PROVE  CallInv'
<1>1. \A j \in Slot : call'[j] = IF j = k THEN Idle ELSE call[j]
  BY DEF CallTypes
<1>2. Active(k)
  BY DEF Active, Calls, Steps
<1>3. \A j \in Slot : /\ Active(j)' => j # k /\ Active(j)
                      /\ Restores(j)' => j # k /\ Restores(j)
  BY <1>1 DEF Active, Restores, Restoring, Idle
<1>4. \A j \in Slot : ~Restores(j)'
  BY <1>2, <1>3 DEF CallInv, Alone
<1>5. launched'
  BY <1>2 DEF CallInv, Fresh
<1>6. \A j \in Slot : Active(j)' => Holds(call'[j])
  BY <1>1, <1>3 DEF CallInv, Holds
<1> QED
  BY <1>4, <1>5, <1>6 DEF CallInv, Alone, Fresh, Holds

LEMMA SockServed ==
    ASSUME CallTypes, SockInv, NEW k \in Slot, Network(k)
    PROVE  SockInv'
<1>1. UNCHANGED <<socket, auth, screen, tok>>
  BY DEF Network, ServeSignIn, Serve, RefreshRead, RefreshSwap, tokens
<1>2. call[k] \in Calls /\ Len(issued) + 1 \in Nat /\ Len(issued) + 1 # None
  <2>1. \E at \in Steps : At(k, at)
    BY DEF Network, ServeSignIn, Serve, RefreshRead, RefreshSwap, Steps
  <2> QED
    BY <2>1, AtStep DEF CallTypes, None
<1>3. PICK d \in Calls : /\ d.e = call[k].e /\ Holds(d)
                         /\ call' = [call EXCEPT ![k] = d]
  <2>1. ASSUME NEW at \in Steps \ {"ok", "ok_refresh"}
        PROVE  /\ [call[k] EXCEPT !.at = at] \in Calls
               /\ [call[k] EXCEPT !.at = at].e = call[k].e
               /\ Holds([call[k] EXCEPT !.at = at])
    BY <1>2, <2>1 DEF Calls, Holds
  <2>2. ASSUME NEW at \in Steps
        PROVE  LET d == [call[k] EXCEPT !.at = at, !.acc = Len(issued) + 1]
               IN  d \in Calls /\ d.e = call[k].e /\ Holds(d)
    BY <1>2, <2>2 DEF Calls, Holds
  <2>3. ASSUME call[k].e \notin SignIns
        PROVE  /\ [call[k] EXCEPT !.at = "ok"] \in Calls
               /\ [call[k] EXCEPT !.at = "ok"].e = call[k].e
               /\ Holds([call[k] EXCEPT !.at = "ok"])
    BY <1>2, <2>3 DEF Calls, Holds, Steps
  <2>4. ASSUME NEW i \in 1..MaxRows
        PROVE  LET d == [call[k] EXCEPT !.at = "swap", !.sid = i]
               IN  d \in Calls /\ d.e = call[k].e /\ Holds(d)
    <3>1. "swap" \in Steps /\ i \in 0..MaxRows
      BY SessionAssumption DEF Steps
    <3> QED
      BY <1>2, <3>1 DEF Calls, Holds
  <2>5. CASE ServeSignIn(k)
    BY <2>1, <2>2, <2>5 DEF ServeSignIn, Answer, Handed, Got, Steps
  <2>6. CASE Serve(k)
    BY <2>1, <2>3, <2>6 DEF Serve, Answer, Steps
  <2>7. CASE RefreshRead(k)
    BY <2>1, <2>4, <2>7 DEF RefreshRead, Answer, Steps
  <2>8. CASE RefreshSwap(k)
    BY <2>1, <2>2, <2>8 DEF RefreshSwap, Answer, Handed, Got, Steps
  <2> QED
    BY <2>5, <2>6, <2>7, <2>8 DEF Network
<1>4. CallInv'
  BY <1>1, <1>2, <1>3, SockGoesOn DEF SockInv, auth, screen
<1> QED
  BY <1>1, <1>4 DEF SockInv, SockTypes, SocketFollowsSession, socket, auth,
                    screen

LEMMA SockContinued ==
    ASSUME CallTypes, SockInv, NEW k \in Slot, Continue(k)
    PROVE  SockInv'
<1>1. call[k] \in Calls
  BY AtStep DEF Continue, TryRefresh, Refreshed, SessionExpired, RefreshBroken,
                Restored, RestoreRefused, SignedIn, SignInFails, CallEnds,
                Repeats, Fails, Steps
<1>0. Active(k) /\ Holds(call[k])
  BY <1>1 DEF SockInv, CallInv, Active, Calls, Steps
<1>2. CASE TryRefresh(k)
  <2>1. PICK d \in Calls : /\ d.e = call[k].e /\ Holds(d)
                           /\ call' = [call EXCEPT ![k] = d]
    <3> DEFINE d == [call[k] EXCEPT !.at = "refresh", !.acc = disk]
    <3>1. d \in Calls /\ d.e = call[k].e /\ Holds(d)
      BY <1>1 DEF CallTypes, Calls, Steps, Holds
    <3> QED
      BY <1>2, <3>1 DEF TryRefresh, Handed
  <2>2. CallInv'
    BY <1>1, <1>2, <2>1, SockGoesOn DEF TryRefresh, SockInv, tokens, auth,
                                        screen
  <2> QED
    BY <1>2, <2>2 DEF TryRefresh, SockInv, SockTypes, SocketFollowsSession,
                      socket, auth, screen
<1>3. CASE Refreshed(k)
  <2>1. PICK d \in Calls : /\ d.e = call[k].e /\ Holds(d)
                           /\ call' = [call EXCEPT ![k] = d]
    <3> DEFINE d == [call[k] EXCEPT !.at = "sent", !.again = TRUE]
    <3>1. d \in Calls /\ d.e = call[k].e /\ Holds(d)
      BY <1>1 DEF Calls, Steps, Holds
    <3> QED
      BY <1>3, <3>1 DEF Refreshed
  <2>2. tok' # None
    BY <1>0, <1>3 DEF Refreshed, At, Holds
  <2>3. CallInv'
    BY <1>1, <1>3, <2>1, <2>2, SockGoesOn DEF Refreshed, SockInv, auth, screen
  <2> QED
    BY <1>3, <2>3 DEF Refreshed, SockInv, SockTypes, SocketFollowsSession,
                      socket, auth, screen
<1>4. ASSUME \/ SessionExpired(k) \/ RefreshBroken(k) \/ Restored(k)
             \/ RestoreRefused(k) \/ SignedIn(k) \/ SignInFails(k)
             \/ CallEnds(k)
      PROVE  CallInv'
  <2>1. call' = [call EXCEPT ![k] = Idle] /\ UNCHANGED launched
    BY <1>4 DEF SessionExpired, RefreshBroken, Restored, RestoreRefused,
                SignedIn, SignInFails, CallEnds, Expire, Done, screen
  <2> QED
    BY <1>1, <2>1, SockEnds DEF SockInv
<1>5. CASE SessionExpired(k)
  BY <1>4, <1>5 DEF SessionExpired, Expire, Disconnect, SockInv, SockTypes,
                    SocketFollowsSession, screen, None
<1>6. CASE \/ RefreshBroken(k) \/ RestoreRefused(k)
           \/ SignInFails(k) \/ CallEnds(k)
  <2>1. UNCHANGED <<socket, authed, launched>>
    BY <1>6 DEF RefreshBroken, RestoreRefused, SignInFails, CallEnds,
                RestoreFails, auth, screen
  <2>2. loading' = FALSE \/ loading' = loading
    BY <1>6 DEF RefreshBroken, RestoreRefused, SignInFails, CallEnds,
                RestoreFails, auth
  <2>3. CallInv'
    BY <1>4, <1>6
  <2>4. SockTypes'
    BY <2>1, <2>2 DEF SockInv, SockTypes, socket
  <2>5. SocketFollowsSession'
    BY <2>1 DEF SockInv, SocketFollowsSession, socket
  <2> QED
    BY <2>3, <2>4, <2>5 DEF SockInv
<1>7. CASE Restored(k)
  <2>1. tok # None
    BY <1>0, <1>7 DEF Restored, SockInv, CallInv, Alone, Restores
  <2> QED
    BY <1>4, <1>7, <2>1 DEF Restored, Connect, SockInv, SockTypes,
                            SocketFollowsSession, screen, CallTypes
<1>8. CASE SignedIn(k)
  <2>1. call[k].acc # None /\ call[k].acc \in Nat
    BY <1>0, <1>1, <1>8 DEF SignedIn, At, Holds, Calls
  <2> QED
    BY <1>4, <1>8, <2>1 DEF SignedIn, Connect, SockInv, SockTypes,
                            SocketFollowsSession, screen
<1> QED
  BY <1>2, <1>3, <1>5, <1>6, <1>7, <1>8 DEF Continue

LEMMA SockStarted ==
    ASSUME CallTypes, SockInv, NEW k \in Slot, Starts(k)
    PROVE  SockInv'
<1>1. UNCHANGED <<socket, authed>> /\ loading' \in BOOLEAN
      /\ launched' \in BOOLEAN
  BY DEF Starts, Launch, Setup, SignIn, Request, RestoreSession, auth, screen,
         SockInv, SockTypes
<1>2. SockTypes' /\ SocketFollowsSession'
  BY <1>1 DEF SockInv, SockTypes, SocketFollowsSession, socket
<1>3. ASSUME NEW e \in Methods, NEW g \in Nat, Send(k, e, g)
      PROVE  /\ \A j \in Slot : j # k => call'[j] = call[j]
             /\ call'[k].e = e /\ call'[k].at = "sent"
  BY <1>3 DEF Send, CallTypes
<1>4. CASE Launch(k) \/ Setup(k)
  <2>1. /\ ~launched /\ launched' /\ call[k] = Idle /\ tok' = disk
        /\ \/ disk = None /\ UNCHANGED call
           \/ disk # None /\ Send(k, "getCurrentUser", disk)
                          /\ UNCHANGED loading
    BY <1>4 DEF Launch, Setup, RestoreSession, auth
  <2>2. loading /\ ~authed /\ \A j \in Slot : ~Active(j)
    BY <2>1 DEF SockInv, CallInv, Fresh
  <2>3. CASE UNCHANGED call
    <3>1. \A j \in Slot : ~Active(j)'
      BY <2>2, <2>3 DEF Active
    <3> QED
      BY <1>2, <2>1, <3>1 DEF SockInv, CallInv, Alone, Fresh, Restores
  <2>4. CASE /\ disk # None /\ Send(k, "getCurrentUser", disk)
             /\ UNCHANGED loading
    <3>1. "getCurrentUser" \in Methods /\ disk \in Nat
      BY DEF Methods, CallTypes
    <3>2. /\ \A j \in Slot : j # k => call'[j] = call[j]
          /\ call'[k].at = "sent"
      BY <1>3, <2>4, <3>1
    <3>3. \A j \in Slot : Active(j)' => j = k
      BY <2>2, <3>2 DEF Active
    <3>4. \A j \in Slot : Active(j)' => Holds(call'[j])
      BY <3>2, <3>3 DEF Holds
    <3>5. Alone'
      BY <1>1, <2>1, <2>2, <2>4, <3>3 DEF Alone, Restores
    <3> QED
      BY <1>2, <2>1, <3>4, <3>5 DEF SockInv, CallInv, Fresh, Holds
  <2> QED
    BY <2>1, <2>3, <2>4
<1>5. CASE \/ \E e \in SignIns : SignIn(k, e)
           \/ \E e \in Plain : Request(k, e)
  <2>1. PICK e \in SignIns \cup Plain :
           /\ Send(k, e, tok)
           /\ UNCHANGED launched
           /\ authed \/ ~loading
    BY <1>5 DEF SignIn, Request, Screen, screen
  <2>2. e # "getCurrentUser" /\ e \in Methods /\ tok \in Nat
    BY SessionAssumption DEF SignIns, Methods, CallTypes
  <2>3. \A j \in Slot : ~Restores(j)
    BY <2>1 DEF SockInv, CallInv, Alone
  <2>4. /\ \A j \in Slot : j # k => call'[j] = call[j]
        /\ call'[k].e = e /\ call'[k].at = "sent"
    BY <1>3, <2>1, <2>2
  <2>5. \A j \in Slot : ~Restores(j)'
    BY <2>2, <2>3, <2>4 DEF Restores, Restoring, Active
  <2>6. launched'
    BY <2>1 DEF SockInv, CallInv, Fresh
  <2>7. \A j \in Slot : Active(j)' => Holds(call'[j])
    BY <2>4 DEF SockInv, CallInv, Holds, Active
  <2> QED
    BY <1>2, <2>5, <2>6, <2>7 DEF SockInv, CallInv, Alone, Fresh, Holds
<1> QED
  BY <1>4, <1>5 DEF Starts

(* The socket, the button, the page and the server's clock. *)
LEMMA SockKept ==
    ASSUME CallTypes, SockInv,
           \/ Logout \/ Reload \/ WsOpens \/ WsCloses \/ Reconnect
           \/ \E g \in Gen : AccessExpires(g)
           \/ \E i \in 1..MaxRows : SessionEnds(i)
           \/ UNCHANGED svars
    PROVE  SockInv'
<1>1. CASE Reload
  <2>1. \A k \in Slot : ~Active(k)'
    BY <1>1 DEF Reload, Active, Idle
  <2>2. CallInv'
    BY <1>1, <2>1 DEF Reload, CallInv, Alone, Fresh, Restores
  <2> QED
    BY <1>1, <2>2 DEF Reload, Disconnect, SockInv, SockTypes,
                      SocketFollowsSession, None
<1>2. CASE Logout
  <2>1. authed /\ UNCHANGED <<call, launched>>
    BY <1>2 DEF Logout, Screen, screen
  <2>2. launched /\ \A k \in Slot : ~Restores(k)
    BY <2>1 DEF SockInv, CallInv, Alone, Fresh
  <2>3. CallInv'
    BY <2>1, <2>2 DEF SockInv, CallInv, Alone, Fresh, Restores, Restoring,
                      Active, Holds
  <2> QED
    BY <1>2, <2>1, <2>3 DEF Logout, Disconnect, SockInv, SockTypes,
                            SocketFollowsSession, None
<1>3. ASSUME UNCHANGED <<call, tok, auth, screen>> PROVE CallInv'
  BY <1>3 DEF SockInv, CallInv, Alone, Fresh, Restores, Restoring, Active,
              Holds, auth, screen
<1>4. CASE WsOpens \/ WsCloses \/ Reconnect
  <2>1. UNCHANGED <<call, tok, auth, screen, gtok>>
    BY <1>4 DEF WsOpens, WsCloses, Reconnect, Connect, tokens
  <2>2. CallInv'
    BY <1>3, <2>1
  <2>3. SocketFollowsSession' /\ timer' \in BOOLEAN /\ beat' \in BOOLEAN
    <3>1. CASE WsOpens
      BY <2>1, <3>1 DEF WsOpens, SockInv, SockTypes, SocketFollowsSession, auth
    <3>2. CASE WsCloses
      <4>1. gtok # None
        BY <3>2 DEF WsCloses, SockInv, SocketFollowsSession
      <4>2. ws' = "closed" /\ beat' = FALSE /\ timer' = TRUE
        BY <3>2, <4>1 DEF WsCloses
      <4> QED
        BY <2>1, <4>1, <4>2 DEF SockInv, SocketFollowsSession, auth
    <3>3. CASE Reconnect
      <4>1. gtok # None
        BY <3>3 DEF Reconnect, SockInv, SocketFollowsSession
      <4>2. ws' = "connecting" /\ beat' = FALSE /\ timer' = FALSE
        BY <3>3 DEF Reconnect, Connect
      <4> QED
        BY <2>1, <4>1, <4>2 DEF SockInv, SocketFollowsSession, auth
    <3> QED
      BY <1>4, <3>1, <3>2, <3>3
  <2> QED
    BY <2>1, <2>2, <2>3 DEF SockInv, SockTypes, auth, screen
<1>5. CASE \/ \E g \in Gen : AccessExpires(g)
           \/ \E i \in 1..MaxRows : SessionEnds(i)
           \/ UNCHANGED svars
  BY <1>3, <1>5 DEF AccessExpires, SessionEnds, SockInv, SockTypes,
                    SocketFollowsSession, tokens, socket, auth, screen, svars
<1> QED
  BY <1>1, <1>2, <1>4, <1>5

LEMMA SockStep == CallTypes /\ SockInv /\ [SNext]_svars => SockInv'
<1> SUFFICES ASSUME CallTypes, SockInv, [SNext]_svars PROVE SockInv'
  OBVIOUS
<1> QED
  BY SockServed, SockContinued, SockStarted, SockKept DEF SNext, Starts

(* However refreshes, sign-ins, logouts and reloads overlap: while the     *)
(* user is signed in there is one socket, or a timer for the next one, and *)
(* none is left behind when the session ends.                              *)
THEOREM SocketCorrect == SFairSpec => []SocketFollowsSession
<1>1. SockInv => SocketFollowsSession
  BY DEF SockInv
<1> QED
  BY <1>1, CallInit, CallNextStep, SockInit, SockStep, PTL
     DEF SFairSpec, SSpec
-----------------------------------------------------------------------------
(* A session is dropped wrongly only if a refused refresh, or a refused    *)
(* call after a refresh, does not speak of the token that is stored.       *)
(* While refreshes have not overlapped, the one under way is for the       *)
(* stored token, and once it is refused no session goes by that; a call    *)
(* that is repeated has an access token that is still valid.               *)
Fine(d) ==
    /\ d.at = "ok_refresh" \/ (d.at = "ok" /\ d.e \in SignIns) =>
         d.acc <= Len(issued)
    /\ d.at = "ok_refresh" \/ (d.at = "sent" /\ d.again /\ d.e \notin SignIns) =>
         d.acc \in valid
    /\ d.again /\ d.e \notin SignIns => d.at \in {"sent", "ok", "failed"}
Lone(d) ==
    /\ d.at \in {"refresh", "swap", "refused_refresh"} =>
         d.acc = disk /\ disk # None
    /\ d.at = "swap" => \A i \in 1..MaxRows : row[i] = d.acc => i = d.sid
    /\ d.at = "refused_refresh" => \A i \in 1..MaxRows : row[i] # d.acc
LiveInv == /\ disk <= Len(issued)
           /\ \A k \in Slot : Active(k) => Fine(call[k])
           /\ ~raced => /\ \A j, k \in Refreshing : j = k
                        /\ \A k \in Slot : Active(k) => Lone(call[k])

(* What the server does to its tokens while calls go on. *)
Served == /\ Len(issued) <= Len(issued') /\ valid \subseteq valid'
          /\ \A i \in 1..MaxRows : row'[i] \in {row[i], None, Len(issued) + 1}

LEMMA LiveInit == SInit => LiveInv
BY DEF SInit, LiveInv, Active, Refreshing, Idle, None

(* A call that is left alone stays fine. *)
LEMMA FineStays ==
    ASSUME CallTypes, LiveInv, NEW k \in Slot, call'[k] = call[k], issued' \in Seq(Nat),
           Len(issued) <= Len(issued'), valid \subseteq valid', Active(k)'
    PROVE  Fine(call[k])'
<1>1. Active(k) /\ Fine(call[k])
  BY DEF LiveInv, Active
<1>2. call[k] \in Calls /\ call[k].acc \in Nat
  BY <1>1, InFlight DEF Active, Calls
<1>3. Len(issued) \in Nat /\ Len(issued') \in Nat
  BY DEF CallTypes
<1> QED
  BY <1>1, <1>2, <1>3 DEF Fine

(* Tokens that are issued are not the stored one. *)
LEMMA LoneStays ==
    ASSUME CallTypes, LiveInv, NEW k \in Slot, call'[k] = call[k],
           Served, disk' = disk, ~raced, Active(k)'
    PROVE  Lone(call[k])'
<1>1. Lone(call[k])
  BY DEF LiveInv, Active
<1>2. /\ disk \in Nat /\ Len(issued) \in Nat /\ disk <= Len(issued)
  BY DEF CallTypes, LiveInv
<1>3. \A i \in 1..MaxRows : disk # None => (row'[i] = disk => row[i] = disk)
  BY <1>2 DEF Served, None
<1> QED
  BY <1>1, <1>3 DEF Lone

LEMMA LiveKept ==
    ASSUME CallTypes, LiveInv, Served, disk' = disk, issued' \in Seq(Nat),
           raced => raced',
           \A j \in Slot : \/ call'[j] = call[j]
                           \/ /\ Active(j)' => Fine(call[j])'
                              /\ Active(j)' /\ ~raced' => Lone(call[j])',
           ~raced' => \A i, j \in Refreshing' : i = j
    PROVE  LiveInv'
<1>1. disk' <= Len(issued')
  <2>1. disk \in Nat /\ Len(issued) \in Nat /\ Len(issued') \in Nat
    BY DEF CallTypes
  <2> QED
    BY <2>1 DEF LiveInv, Served
<1>2. \A j \in Slot : Active(j)' => Fine(call[j])'
  BY FineStays DEF Served
<1>3. ~raced' => \A j \in Slot : Active(j)' => Lone(call[j])'
  BY LoneStays
<1> QED
  BY <1>1, <1>2, <1>3 DEF LiveInv

(* The stored token is replaced while no refresh is under way. *)
LEMMA LiveReplaced ==
    ASSUME CallTypes, LiveInv, UNCHANGED server, disk' \in Nat,
           disk' <= Len(issued), raced => raced',
           \A j \in Slot : call'[j] = call[j] \/ (Active(j)' => Fine(call[j])'),
           ~raced' => Refreshing' = {}
    PROVE  LiveInv'
<1>1. \A j \in Slot : Active(j)' => Fine(call[j])'
  BY FineStays DEF server, CallTypes
<1>2. ~raced' => \A j \in Slot : Lone(call[j])'
  BY DEF Refreshing, Lone
<1> QED
  BY <1>1, <1>2 DEF LiveInv, server

LEMMA LiveServed ==
    ASSUME CallTypes, RotInv, LiveInv, NEW k \in Slot, Network(k)
    PROVE  LiveInv'
<1>1. /\ call[k] \in Calls /\ Active(k) /\ Fine(call[k])
      /\ (~raced => Lone(call[k])) /\ Len(issued) + 1 \in Nat
  <2>1. \E at \in Steps : At(k, at)
    BY DEF Network, ServeSignIn, Serve, RefreshRead, RefreshSwap, Steps
  <2>2. call[k] \in Calls
    BY <2>1, AtStep
  <2> QED
    BY <2>1, <2>2 DEF LiveInv, CallTypes, Active, At, Steps
<1>2. UNCHANGED <<disk, raced>> /\ issued' \in Seq(Nat)
  <2>1. CallTypes'
    BY CallServed
  <2> QED
    BY <2>1 DEF Network, ServeSignIn, Serve, RefreshRead, RefreshSwap, tokens, CallTypes
<1>3. Served
  <2>1. UNCHANGED server \/ \E i \in 1..MaxRows, g \in Nat :
           Issue(g) /\ row' = [row EXCEPT ![i] = Len(issued) + 1]
    BY <1>1 DEF Network, ServeSignIn, Serve, RefreshRead, RefreshSwap, At,
                CallTypes, Found, Calls, None
  <2>2. CASE UNCHANGED server
    BY <1>1, <2>2 DEF server, Served
  <2>3. CASE \E i \in 1..MaxRows, g \in Nat :
           Issue(g) /\ row' = [row EXCEPT ![i] = Len(issued) + 1]
    <3>1. PICK i \in 1..MaxRows, g \in Nat :
             Issue(g) /\ row' = [row EXCEPT ![i] = Len(issued) + 1]
      BY <2>3
    <3>2. Len(issued') = Len(issued) + 1 /\ valid \subseteq valid'
      BY <1>1, <3>1 DEF Issue, CallTypes
    <3> QED
      BY <1>1, <3>1, <3>2 DEF RotInv, Served
  <2> QED
    BY <2>1, <2>2, <2>3
<1>4. PICK d \in Calls :
         /\ call' = [call EXCEPT ![k] = d]
         /\ Fine(d)' /\ (~raced => Lone(d)')
         /\ d.at \in {"ok", "failed", "refused"} \/ k \in Refreshing
  <2>1. CASE ServeSignIn(k)
    <3>1. PICK at \in {"ok", "failed", "refused"} :
             \/ Handed(k, at, Len(issued) + 1) /\ Issue(None)
             \/ at = "refused" /\ Answer(k, at)
      BY <2>1 DEF ServeSignIn, Got
    <3>2. PICK d : /\ \/ /\ d = [call[k] EXCEPT !.at = at, !.acc = Len(issued) + 1]
                         /\ Issue(None)
                      \/ at = "refused" /\ d = [call[k] EXCEPT !.at = at]
                   /\ call' = [call EXCEPT ![k] = d]
      BY <3>1 DEF Handed, Answer
    <3>3. d \in Calls /\ d.at = at /\ d.e = call[k].e
      BY <1>1, <3>1, <3>2 DEF Calls, Steps
    <3>4. ASSUME at = "ok" PROVE d.acc <= Len(issued')
      <4>1. d = [call[k] EXCEPT !.at = at, !.acc = Len(issued) + 1] /\ Issue(None)
        BY <3>2, <3>4
      <4>2. d.acc = Len(issued) + 1
        BY <1>1, <4>1 DEF Calls
      <4>3. Len(issued') = Len(issued) + 1
        BY <4>1 DEF Issue, CallTypes, None
      <4> QED
        BY <1>1, <4>2, <4>3
    <3>5. Fine(d)' /\ Lone(d)'
      BY <2>1, <3>1, <3>3, <3>4 DEF ServeSignIn, Fine, Lone
    <3> QED
      BY <3>1, <3>2, <3>3, <3>5
  <2>2. CASE Serve(k)
    <3>1. PICK at \in {"ok", "failed", "refused"} :
             Answer(k, at) /\ (call[k].acc \in valid => at # "refused")
      BY <2>2 DEF Serve
    <3>2. PICK d : d = [call[k] EXCEPT !.at = at] /\ call' = [call EXCEPT ![k] = d]
      BY <3>1 DEF Answer
    <3>3. d \in Calls /\ d.at = at /\ d.e = call[k].e /\ d.again = call[k].again
      BY <1>1, <3>1, <3>2 DEF Calls, Steps
    <3>4. Fine(d)' /\ Lone(d)'
      BY <1>1, <2>2, <3>1, <3>3 DEF Serve, At, Fine, Lone
    <3> QED
      BY <3>1, <3>2, <3>3, <3>4
  <2>3. CASE RefreshRead(k)
    <3>1. /\ call[k].at = "refresh" /\ UNCHANGED server
          /\ call[k].again => call[k].e \in SignIns
          /\ ~raced => call[k].acc = disk /\ disk # None
      BY <1>1, <2>3 DEF RefreshRead, At, Fine, Lone
    <3>2. k \in Refreshing
      BY <3>1 DEF Refreshing
    <3>3. CASE \E i \in 1..MaxRows :
            /\ row[i] = call[k].acc
            /\ call' = [call EXCEPT ![k] = [@ EXCEPT !.at = "swap", !.sid = i]]
      <4>1. PICK i \in 1..MaxRows :
            /\ row[i] = call[k].acc
            /\ call' = [call EXCEPT ![k] = [@ EXCEPT !.at = "swap", !.sid = i]]
        BY <3>3
      <4>2. PICK d : /\ d = [call[k] EXCEPT !.at = "swap", !.sid = i]
                     /\ call' = [call EXCEPT ![k] = d]
        BY <4>1
      <4>3. "swap" \in Steps /\ i \in 0..MaxRows
        BY SessionAssumption DEF Steps
      <4>4. /\ d \in Calls /\ d.at = "swap" /\ d.e = call[k].e /\ d.again = call[k].again
            /\ d.acc = call[k].acc /\ d.sid = i
        BY <1>1, <4>2, <4>3 DEF Calls
      <4>5. Fine(d)'
        BY <3>1, <4>4 DEF Fine
      <4>6. ~raced => \A j \in 1..MaxRows : row'[j] = d.acc => j = i
        BY <3>1, <4>1, <4>4 DEF RotInv, server
      <4>7. ~raced => Lone(d)'
        BY <1>2, <3>1, <4>4, <4>6 DEF Lone
      <4> QED
        BY <3>2, <4>2, <4>4, <4>5, <4>7
    <3>4. CASE \/ (\A i \in 1..MaxRows : row[i] # call[k].acc)
                     /\ Answer(k, "refused_refresh")
               \/ Answer(k, "failed_refresh")
      <4>1. PICK at \in {"refused_refresh", "failed_refresh"} :
              /\ Answer(k, at)
              /\ at = "refused_refresh" => \A i \in 1..MaxRows : row[i] # call[k].acc
        BY <3>4
      <4>2. PICK d : d = [call[k] EXCEPT !.at = at] /\ call' = [call EXCEPT ![k] = d]
        BY <4>1 DEF Answer
      <4>3. /\ d \in Calls /\ d.at = at /\ d.e = call[k].e /\ d.again = call[k].again
            /\ d.acc = call[k].acc
        BY <1>1, <4>1, <4>2 DEF Calls, Steps
      <4>4. Fine(d)' /\ (~raced => Lone(d)')
        BY <1>2, <3>1, <4>1, <4>3 DEF Fine, Lone, server
      <4> QED
        BY <3>2, <4>2, <4>3, <4>4
    <3> QED
      BY <2>3, <3>3, <3>4 DEF RefreshRead
  <2>4. CASE RefreshSwap(k)
    <3>1. /\ call[k].at = "swap"
          /\ call[k].again => call[k].e \in SignIns
          /\ ~raced => /\ call[k].acc = disk /\ disk # None
                       /\ \A i \in 1..MaxRows : row[i] = call[k].acc => i = call[k].sid
      BY <1>1, <2>4 DEF RefreshSwap, At, Fine, Lone
    <3>2. k \in Refreshing
      BY <3>1 DEF Refreshing
    <3>3. PICK at \in {"ok_refresh", "failed_refresh", "refused_refresh"} :
            \/ Handed(k, at, Len(issued) + 1) /\ Issue(call[k].acc) /\ at # "refused_refresh"
            \/ /\ Answer(k, at) /\ at = "refused_refresh" /\ UNCHANGED server
               /\ row[call[k].sid] # call[k].acc
      BY <2>4 DEF RefreshSwap, Got
    <3>4. CASE Handed(k, at, Len(issued) + 1) /\ Issue(call[k].acc) /\ at # "refused_refresh"
      <4>1. PICK d : /\ d = [call[k] EXCEPT !.at = at, !.acc = Len(issued) + 1]
                     /\ call' = [call EXCEPT ![k] = d]
        BY <3>4 DEF Handed
      <4>2. /\ d \in Calls /\ d.at = at /\ d.e = call[k].e /\ d.again = call[k].again
            /\ d.acc = Len(issued) + 1
        BY <1>1, <3>3, <4>1 DEF Calls, Steps
      <4>3. Len(issued') = Len(issued) + 1 /\ d.acc \in valid'
        BY <1>1, <3>4, <4>2 DEF Issue, CallTypes, Calls
      <4>4. Fine(d)' /\ Lone(d)'
        BY <1>1, <3>1, <3>4, <4>2, <4>3 DEF Fine, Lone
      <4> QED
        BY <3>2, <4>1, <4>2, <4>4
    <3>5. CASE /\ Answer(k, at) /\ at = "refused_refresh" /\ UNCHANGED server
               /\ row[call[k].sid] # call[k].acc
      <4>1. PICK d : d = [call[k] EXCEPT !.at = at] /\ call' = [call EXCEPT ![k] = d]
        BY <3>5 DEF Answer
      <4>2. /\ d \in Calls /\ d.at = at /\ d.e = call[k].e /\ d.again = call[k].again
            /\ d.acc = call[k].acc
        BY <1>1, <3>5, <4>1 DEF Calls, Steps
      <4>3. Fine(d)' /\ (~raced => Lone(d)')
        BY <1>2, <3>1, <3>5, <4>2 DEF Fine, Lone, server
      <4> QED
        BY <3>2, <4>1, <4>2, <4>3
    <3> QED
      BY <3>3, <3>4, <3>5
  <2> QED
    BY <2>1, <2>2, <2>3, <2>4 DEF Network
<1>5. call'[k] = d /\ \A j \in Slot : j # k => call'[j] = call[j]
  BY <1>4 DEF CallTypes
<1>6. Refreshing' \subseteq Refreshing
  BY <1>4, <1>5 DEF Refreshing
<1>7. Fine(call[k])' /\ (~raced' => Lone(call[k])')
  BY <1>2, <1>4, <1>5 DEF Fine, Lone
<1>8. ~raced' => \A i, j \in Refreshing' : i = j
  BY <1>2, <1>6 DEF LiveInv
<1> QED
  BY <1>2, <1>3, <1>5, <1>7, <1>8, LiveKept

(* What the client makes of an answer. *)
LEMMA LiveContinued ==
    ASSUME CallTypes, SockInv, LiveInv, NEW k \in Slot, Continue(k)
    PROVE  LiveInv'
<1>1. call[k] \in Calls /\ Active(k) /\ Fine(call[k])
  <2>1. call[k] \in Calls
    BY AtStep DEF Continue, TryRefresh, Refreshed, SessionExpired, RefreshBroken,
                  Restored, RestoreRefused, SignedIn, SignInFails, CallEnds,
                  Repeats, Fails, Steps
  <2> QED
    BY <2>1 DEF LiveInv, Active, Calls, Steps
<1>2. /\ UNCHANGED server /\ (raced => raced') /\ Served
      /\ disk' \in Nat /\ issued' \in Seq(Nat)
  <2>1. CallTypes'
    BY CallContinued
  <2>2. UNCHANGED server
    BY DEF Continue, TryRefresh, Refreshed, SessionExpired, RefreshBroken, Restored,
           RestoreRefused, SignedIn, SignInFails, CallEnds, Expire
  <2>3. raced => raced'
    <3>1. CASE UNCHANGED raced
      BY <3>1
    <3>2. CASE TryRefresh(k) \/ SignedIn(k)
      BY <3>2, ZenonT(30) DEF TryRefresh, SignedIn
    <3>3. CASE RefreshBroken(k)
      BY <3>1, <3>3 DEF RefreshBroken
    <3> QED
      BY <3>1, <3>2, <3>3 DEF Continue, Refreshed, SessionExpired, Restored,
                              RestoreRefused, SignInFails, CallEnds
  <2> QED
    BY <2>1, <2>2, <2>3 DEF CallTypes, Served, server
<1>3. ASSUME call' = [call EXCEPT ![k] = Idle]
      PROVE  /\ call'[k] = Idle /\ ~Active(k)'
             /\ \A j \in Slot : j # k => call'[j] = call[j]
             /\ Refreshing' = Refreshing \ {k}
  BY <1>3 DEF CallTypes, Active, Refreshing, Idle
<1>4. CASE TryRefresh(k)
  <2>1. PICK d : d = [call[k] EXCEPT !.at = "refresh", !.acc = disk]
    OBVIOUS
  <2>2. call' = [call EXCEPT ![k] = d] /\ disk' = disk
    BY <1>4, <2>1 DEF TryRefresh, Handed, tokens
  <2>3. /\ d.at = "refresh" /\ d.acc = disk /\ d.again = FALSE
        /\ disk # None /\ call'[k] = d
        /\ \A j \in Slot : j # k => call'[j] = call[j]
    BY <1>1, <1>4, <2>1, <2>2 DEF TryRefresh, Repeats, Calls, CallTypes
  <2>4. Fine(call[k])' /\ Lone(call[k])'
    BY <2>2, <2>3 DEF Fine, Lone
  <2>5. ~raced' => \A i, j \in Refreshing' : i = j
    <3>1. ~raced' => Refreshing = {}
      BY <1>4 DEF TryRefresh
    <3>2. \A j \in Refreshing' : j = k \/ j \in Refreshing
      BY <2>3 DEF Refreshing
    <3> QED
      BY <3>1, <3>2
  <2> QED
    BY <1>2, <2>2, <2>3, <2>4, <2>5, LiveKept
<1>5. CASE Refreshed(k)
  <2>1. PICK d : d = [call[k] EXCEPT !.at = "sent", !.again = TRUE]
    OBVIOUS
  <2>2. call' = [call EXCEPT ![k] = d] /\ disk' = call[k].acc
    BY <1>5, <2>1 DEF Refreshed
  <2>3. /\ d.at = "sent" /\ d.acc = call[k].acc /\ call'[k] = d
        /\ \A j \in Slot : j # k => call'[j] = call[j]
    BY <1>1, <2>1, <2>2 DEF Calls, CallTypes
  <2>4. call[k].acc <= Len(issued) /\ call[k].acc \in valid /\ k \in Refreshing
    BY <1>1, <1>5 DEF Refreshed, At, Fine, Refreshing
  <2>5. Fine(call[k])'
    BY <1>2, <2>3, <2>4 DEF Fine, server
  <2>6. ~raced' => Refreshing' = {}
    <3>1. Refreshing' \subseteq Refreshing \ {k}
      BY <2>3 DEF Refreshing
    <3> QED
      BY <1>2, <2>4, <3>1 DEF LiveInv
  <2> QED
    BY <1>2, <2>2, <2>3, <2>4, <2>5, <2>6, LiveReplaced
<1>6. CASE SessionExpired(k)
  <2>1. call' = [call EXCEPT ![k] = Idle] /\ disk' = None /\ k \in Refreshing
    BY <1>6 DEF SessionExpired, Expire, Done, At, Refreshing
  <2>2. disk' <= Len(issued)
    BY <2>1 DEF CallTypes, None
  <2>3. ~raced' => Refreshing' = {}
    BY <1>2, <1>3, <2>1 DEF LiveInv
  <2> QED
    BY <1>2, <1>3, <2>1, <2>2, <2>3, LiveReplaced
<1>7. CASE SignedIn(k)
  <2>1. call' = [call EXCEPT ![k] = Idle] /\ disk' = call[k].acc
    BY <1>7 DEF SignedIn, Done
  <2>2. disk' <= Len(issued)
    BY <1>1, <1>7, <2>1 DEF SignedIn, At, Fine
  <2>3. ~raced' => Refreshing' = {}
    BY <1>3, <1>7, <2>1 DEF SignedIn
  <2> QED
    BY <1>2, <1>3, <2>1, <2>2, <2>3, LiveReplaced
<1>8. CASE (RefreshBroken(k) /\ Restoring(k)) \/ RestoreRefused(k)
  <2>1. call' = [call EXCEPT ![k] = Idle] /\ disk' \in {None, disk} /\ Restoring(k)
    BY <1>8 DEF RefreshBroken, RestoreRefused, RestoreFails, Done
  <2>2. disk' <= Len(issued)
    BY <2>1 DEF CallTypes, LiveInv, None
  <2>3. Refreshing' = {}
    <3>1. \A j \in Slot : Active(j) => j = k
      BY <1>1, <2>1 DEF SockInv, CallInv, Alone, Restores
    <3>2. \A j \in Refreshing : Active(j) /\ j \in Slot
      BY DEF Refreshing, Active
    <3> QED
      BY <1>3, <2>1, <3>1, <3>2
  <2> QED
    BY <1>2, <1>3, <2>1, <2>2, <2>3, LiveReplaced
<1>9. CASE \/ RefreshBroken(k) /\ ~Restoring(k)
           \/ Restored(k) \/ SignInFails(k) \/ CallEnds(k)
  <2>1. call' = [call EXCEPT ![k] = Idle] /\ disk' = disk
    BY <1>9 DEF RefreshBroken, Restored, SignInFails, CallEnds, Done, tokens
  <2>2. ~raced' => \A i, j \in Refreshing' : i = j
    BY <1>2, <1>3, <2>1 DEF LiveInv
  <2> QED
    BY <1>2, <1>3, <2>1, <2>2, LiveKept
<1> QED
  BY <1>4, <1>5, <1>6, <1>7, <1>8, <1>9 DEF Continue

LEMMA LiveStarted ==
    ASSUME CallTypes, LiveInv, NEW k \in Slot, Starts(k)
    PROVE  LiveInv'
<1>1. UNCHANGED <<server, disk, raced>>
  BY DEF Starts, Launch, Setup, SignIn, Request, RestoreSession, tokens
<1>2. Served /\ issued' \in Seq(Nat)
  BY <1>1 DEF Served, server, CallTypes
<1>3. \/ UNCHANGED call
      \/ \E e, g : Send(k, e, g)
  BY DEF Starts, Launch, Setup, SignIn, Request, RestoreSession
<1>4. \A j \in Slot : \/ call'[j] = call[j]
                      \/ call'[j].at = "sent" /\ call'[j].again = FALSE
  BY <1>3 DEF Send, CallTypes
<1>5. \A j \in Slot : \/ call'[j] = call[j]
                      \/ Fine(call[j])' /\ Lone(call[j])'
  BY <1>4 DEF Fine, Lone
<1>6. Refreshing' \subseteq Refreshing
  BY <1>4 DEF Refreshing
<1>7. ~raced' => \A i, j \in Refreshing' : i = j
  BY <1>1, <1>6 DEF LiveInv
<1> QED
  BY <1>1, <1>2, <1>5, <1>7, LiveKept

LEMMA LiveOther ==
    ASSUME CallTypes, LiveInv,
           \/ Logout \/ Reload \/ WsOpens \/ WsCloses \/ Reconnect
           \/ \E g \in Gen : AccessExpires(g)
           \/ \E i \in 1..MaxRows : SessionEnds(i)
           \/ UNCHANGED svars
    PROVE  LiveInv'
<1>1. CASE Logout
  <2>1. UNCHANGED <<server, call>> /\ disk' = None /\ raced' = (raced \/ Refreshing # {})
    BY <1>1 DEF Logout
  <2>2. disk' <= Len(issued) /\ disk' \in Nat
    BY <2>1 DEF CallTypes, None
  <2>3. ~raced' => Refreshing' = {}
    BY <2>1 DEF Refreshing
  <2> QED
    BY <2>1, <2>2, <2>3, LiveReplaced
<1>2. CASE Reload
  BY <1>2 DEF Reload, LiveInv, Active, Idle, Refreshing, server
<1>3. CASE WsOpens \/ WsCloses \/ Reconnect \/ UNCHANGED svars
  <2>1. UNCHANGED <<server, disk, call, raced>>
    BY <1>3 DEF WsOpens, WsCloses, Reconnect, tokens, svars
  <2> QED
    BY <2>1 DEF LiveInv, Active, Fine, Lone, Refreshing, server
<1>4. CASE \E i \in 1..MaxRows : SessionEnds(i)
  <2>1. UNCHANGED <<disk, call, raced, issued, valid>>
    BY <1>4 DEF SessionEnds, tokens
  <2>2. Served /\ issued' \in Seq(Nat)
    BY <1>4 DEF SessionEnds, Served, CallTypes, None
  <2>3. Refreshing' = Refreshing
    BY <2>1 DEF Refreshing
  <2> QED
    BY <2>1, <2>2, <2>3, LiveKept DEF LiveInv
<1>5. CASE \E g \in Gen : AccessExpires(g)
  <2>1. PICK g \in Gen : AccessExpires(g)
    BY <1>5
  <2>2. UNCHANGED <<disk, call, raced, issued, row>> /\ valid' = valid \ {g}
    BY <2>1 DEF AccessExpires, tokens
  <2>3. \A j \in Slot : Active(j) /\ Fine(call[j]) => Fine(call[j])'
    BY <2>1, <2>2 DEF AccessExpires, At, Fine
  <2> QED
    BY <2>2, <2>3 DEF LiveInv, Active, Lone, Refreshing
<1> QED
  BY <1>1, <1>2, <1>3, <1>4, <1>5

LEMMA LiveStep ==
    ASSUME CallTypes, RotInv, SockInv, LiveInv, [SNext]_svars
    PROVE  LiveInv'
BY LiveServed, LiveContinued, LiveStarted, LiveOther DEF SNext, Starts

(* What drops the stored tokens. *)
LEMMA LiveDrops ==
    ASSUME CallTypes, SockInv, LiveInv, [SNext]_svars, DropsLive, ~raced'
    PROVE  FALSE
<1>1. /\ disk # None /\ disk' = None /\ call' # call
      /\ \E i \in 1..MaxRows : row[i] = disk
  BY DEF DropsLive
<1>2. PICK k \in Slot : \/ SessionExpired(k) \/ RestoreRefused(k)
                        \/ RefreshBroken(k) \/ Refreshed(k) \/ SignedIn(k)
  BY <1>1 DEF SNext, svars, Network, ServeSignIn, Serve, RefreshRead, RefreshSwap,
              Continue, TryRefresh, Restored, SignInFails, CallEnds, Launch, Setup,
              SignIn, Request, RestoreSession, Logout, Reload, WsOpens, WsCloses,
              Reconnect, AccessExpires, SessionEnds, tokens
<1>3. call[k] \in Calls /\ Active(k)
  <2>1. call[k] \in Calls
    BY <1>2, AtStep DEF SessionExpired, RestoreRefused, RefreshBroken, Refreshed,
                        SignedIn, Fails, Repeats, Steps
  <2> QED
    BY <2>1 DEF Active, Calls, Steps
<1>4. Fine(call[k]) /\ Holds(call[k])
  BY <1>3 DEF LiveInv, SockInv, CallInv
<1>5. CASE SessionExpired(k)
  <2>1. ~raced /\ call[k].at = "refused_refresh"
    BY <1>5 DEF SessionExpired, At
  <2>2. Lone(call[k])
    BY <1>3, <2>1 DEF LiveInv
  <2> QED
    BY <1>1, <2>1, <2>2 DEF Lone
<1>6. CASE RestoreRefused(k)
  <2>1. call[k].e = "getCurrentUser" /\ call[k].at = "refused" /\ ~Repeats(k)
    BY <1>1, <1>6 DEF RestoreRefused, RestoreFails, Restoring, Fails, At
  <2>2. call[k].again /\ call[k].e \notin SignIns
    BY <1>1, <2>1, SessionAssumption DEF Repeats, At, SignIns
  <2> QED
    BY <1>4, <2>1, <2>2 DEF Fine
<1>7. CASE RefreshBroken(k)
  BY <1>1, <1>7 DEF RefreshBroken, tokens
<1>8. CASE Refreshed(k) \/ SignedIn(k)
  BY <1>1, <1>4, <1>8 DEF Refreshed, SignedIn, At, Holds
<1> QED
  BY <1>2, <1>5, <1>6, <1>7, <1>8

(* A tab drops stored tokens that the server would still take only after   *)
(* refreshes overlapped with one another, with a logout or a sign-in, or   *)
(* a refresh broke while the session was restored; whatever else is lost,  *)
(* late, expired or repeated.                                              *)
THEOREM LiveSessionKept == SFairSpec => KeepsLiveSession
<1>1. SInit => CallTypes /\ RotInv /\ SockInv /\ LiveInv
  BY CallInit, RotInit, SockInit, LiveInit
<1>2. CallTypes /\ RotInv /\ SockInv /\ LiveInv /\ [SNext]_svars =>
        CallTypes' /\ RotInv' /\ SockInv' /\ LiveInv'
  BY CallNextStep, RotStep, SockStep, LiveStep
<1>3. CallTypes /\ SockInv /\ LiveInv /\ [SNext]_svars => [DropsLive => raced']_svars
  BY LiveDrops
<1> QED
  BY <1>1, <1>2, <1>3, PTL DEF SFairSpec, SSpec, KeepsLiveSession
=============================================================================
