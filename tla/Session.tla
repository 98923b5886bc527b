------------------------------ MODULE Session ------------------------------
(***************************************************************************)
(* The signed-in session of one browser tab: the tokens in localStorage    *)
(* and in the ApiClient, calls that refresh them when they meet a 401      *)
(* (api/client.ts), the state of the auth store (stores/authStore.ts), the *)
(* reconnecting WebSocket (api/websocket.ts) and the screens that start    *)
(* all this (App.tsx, AuthForm.tsx, ServerSetup.tsx), against the server's *)
(* rotation of refresh tokens (refresh_token in handlers/auth.rs).         *)
(*                                                                         *)
(* Tokens come in generations: the access and the refresh token of one     *)
(* answer of the server carry the same number.                             *)
(***************************************************************************)
EXTENDS Api, Naturals, Sequences

CONSTANTS
    Slot,      \* calls that may be in flight
    Plain,     \* the methods called while signed in: names of ApiCalls
    MaxGen,    \* bound: generations of tokens
    MaxRows,   \* bound: sessions of the user on the server at a time
    Faulty     \* TRUE: requests or their answers may be lost

ASSUME SessionAssumption ==
    /\ Plain \subseteq DOMAIN ApiCalls
    /\ {"getCurrentUser", "login", "register"} \cap Plain = {}
    /\ ApiCalls["getCurrentUser"].refreshes
    /\ MaxGen \in Nat /\ MaxRows \in Nat /\ Faulty \in BOOLEAN

VARIABLES
    row,       \* sessions: row -> the generation it may be refreshed with
    issued,    \* generation -> the one it was exchanged for, or None
    valid,     \* access tokens that have not expired
    disk,      \* localStorage: the generation stored, or None
    tok,       \* ApiClient.accessToken
    gtok,      \* WebSocketClient.token
    ws,        \* its socket
    timer,     \* its reconnectTimer is set
    beat,      \* its heartbeatTimer is set
    url,       \* a server URL is known
    launched,  \* restoreSession was called
    loading,   \* isLoading of the auth store
    authed,    \* isAuthenticated
    call,      \* slot -> the call in it
    raced      \* a refresh overlapped with another one, with a logout or a
               \* sign-in, or broke while the session was restored (for the
               \* properties only)

server == <<row, issued, valid>>
tokens == <<disk, tok>>
socket == <<gtok, ws, timer, beat>>
auth == <<loading, authed>>
screen == <<url, launched>>
svars == <<server, tokens, socket, auth, screen, call, raced>>

None == 0
Gen == 1..MaxGen
Idle == [at |-> "idle"]
SignIns == {"login", "register"}

(* The screen App renders. *)
Screen == IF ~url THEN "setup" ELSE IF loading THEN "loading"
          ELSE IF ~authed THEN "auth" ELSE "app"

SInit == /\ row = [i \in 1..MaxRows |-> None] /\ issued = <<>> /\ valid = {}
         /\ disk = None /\ tok = None
         /\ gtok = None /\ ws = "none" /\ timer = FALSE /\ beat = FALSE
         /\ url \in BOOLEAN /\ launched = FALSE
         /\ loading = TRUE /\ authed = FALSE
         /\ call = [k \in Slot |-> Idle]
         /\ raced = FALSE

-----------------------------------------------------------------------------
(* The socket: connect() and each reconnection give up the socket and the  *)
(* timers there are; disconnect() does no more than that.                  *)
Connect(g) == /\ gtok' = g /\ ws' = "connecting"
              /\ timer' = FALSE /\ beat' = FALSE

Disconnect == /\ gtok' = None /\ ws' = "none"
              /\ timer' = FALSE /\ beat' = FALSE

(* The server looks at the token when the socket is opened, not later.     *)
WsOpens == /\ ws = "connecting" /\ gtok \in valid
           /\ ws' = "open" /\ beat' = TRUE
           /\ UNCHANGED <<gtok, timer, server, tokens, auth, screen, call,
                          raced>>

(* Mutant of WsCloses: only a socket that was open is opened again.        *)
WsLost == /\ ws \in {"connecting", "open"}
          /\ ws' = "closed" /\ beat' = FALSE /\ timer' = (ws = "open")
          /\ UNCHANGED <<gtok, server, tokens, auth, screen, call, raced>>

WsCloses == /\ ws \in {"connecting", "open"}
            /\ ws' = "closed" /\ beat' = FALSE /\ timer' = (gtok # None)
            /\ UNCHANGED <<gtok, server, tokens, auth, screen, call, raced>>

(* The timer of scheduleReconnect fires: the same token is used again.     *)
Reconnect == /\ timer
             /\ Connect(gtok)
             /\ UNCHANGED <<server, tokens, auth, screen, call, raced>>

-----------------------------------------------------------------------------
(* Calls.  request() reads the access token when the call is sent.         *)
Send(k, e, g) == call' = [call EXCEPT ![k] =
                     [at |-> "sent", e |-> e, again |-> FALSE, acc |-> g,
                      sid |-> None]]
Answer(k, at) == call' = [call EXCEPT ![k] = [@ EXCEPT !.at = at]]
Handed(k, at, g) == call' = [call EXCEPT ![k] = [@ EXCEPT !.at = at, !.acc = g]]
Done(k) == call' = [call EXCEPT ![k] = Idle]
At(k, at) == call[k].at = at

(* An answer with tokens is received as their generation. *)
Got(at, failed) == IF Faulty THEN {at, failed} ELSE {at}

(* A token of a new generation is issued.  (The tokens of one second are   *)
(* one and the same string in the code: auth/mod.rs gives them no id.)     *)
Issue(g) == /\ Len(issued) < MaxGen
            /\ issued' = Append(issued, g)
            /\ valid' = valid \cup {Len(issued) + 1}

(* The server signs the user in, or refuses.                               *)
ServeSignIn(k) ==
    /\ At(k, "sent") /\ call[k].e \in SignIns
    /\ \/ /\ \E i \in 1..MaxRows :
               /\ row[i] = None
               /\ row' = [row EXCEPT ![i] = Len(issued) + 1]
          /\ Issue(None)
          /\ \E at \in Got("ok", "failed") : Handed(k, at, Len(issued) + 1)
       \/ Answer(k, "refused") /\ UNCHANGED server
    /\ UNCHANGED <<tokens, socket, auth, screen, raced>>

(* Any other call needs an access token.                                   *)
Serve(k) ==
    /\ At(k, "sent") /\ call[k].e \notin SignIns
    /\ \/ Answer(k, IF call[k].acc \in valid THEN "ok" ELSE "refused")
       \/ Faulty /\ Answer(k, "failed")
    /\ UNCHANGED <<server, tokens, socket, auth, screen, raced>>

-----------------------------------------------------------------------------
(* A call that is refused for the first time refreshes the tokens that are *)
(* stored by now.                                                          *)
Refreshing == {k \in Slot : call[k].at \in {"refresh", "swap", "ok_refresh",
                                      "refused_refresh", "failed_refresh"}}

Repeats(k) == /\ At(k, "refused") /\ ~call[k].again
              /\ ApiCalls[call[k].e].refreshes /\ disk # None

Fails(k) == At(k, "failed") \/ (At(k, "refused") /\ ~Repeats(k))

TryRefresh(k) == /\ Repeats(k)
                 /\ Handed(k, "refresh", disk)
                 /\ raced' = (raced \/ Refreshing # {})
                 /\ UNCHANGED <<server, tokens, socket, auth, screen>>

(* refresh_token: the session is looked up by the token ...                *)
RefreshRead(k) ==
    /\ At(k, "refresh")
    /\ \/ \E i \in 1..MaxRows :
            /\ row[i] = call[k].acc
            /\ call' = [call EXCEPT ![k] = [@ EXCEPT !.at = "swap", !.sid = i]]
       \/ /\ \A i \in 1..MaxRows : row[i] # call[k].acc
          /\ Answer(k, "refused_refresh")
       \/ Faulty /\ Answer(k, "failed_refresh")
    /\ UNCHANGED <<server, tokens, socket, auth, screen, raced>>

(* Mutant of RefreshSwap: the row is updated whatever token it holds.      *)
RefreshSwapBlind(k) ==
    /\ At(k, "swap") /\ Issue(call[k].acc)
    /\ row' = [row EXCEPT ![call[k].sid] = Len(issued) + 1]
    /\ Handed(k, "ok_refresh", Len(issued) + 1)
    /\ UNCHANGED <<tokens, socket, auth, screen, raced>>

(* ... and its row takes the new token if it still holds the old one.      *)
RefreshSwap(k) ==
    LET i == call[k].sid
    IN /\ At(k, "swap")
       /\ \/ /\ row[i] = call[k].acc
             /\ Issue(call[k].acc)
             /\ row' = [row EXCEPT ![i] = Len(issued) + 1]
             /\ \E at \in Got("ok_refresh", "failed_refresh") :
                  Handed(k, at, Len(issued) + 1)
          \/ /\ row[i] # call[k].acc
             /\ Answer(k, "refused_refresh") /\ UNCHANGED server
       /\ UNCHANGED <<tokens, socket, auth, screen, raced>>

(* The new tokens are stored and the call is repeated with them.           *)
Refreshed(k) ==
    LET g == call[k].acc
    IN /\ At(k, "ok_refresh")
       /\ disk' = g /\ tok' = g
       /\ call' = [call EXCEPT ![k] = [@ EXCEPT !.at = "sent", !.again = TRUE]]
       /\ UNCHANGED <<server, socket, auth, screen, raced>>

(* The session-expired callback: everything is dropped, and the call fails *)
(* with the 401 it met.                                                    *)
Expire(k) == /\ disk' = None /\ tok' = None
             /\ Disconnect
             /\ loading' = FALSE /\ authed' = FALSE
             /\ Done(k)
             /\ UNCHANGED <<server, screen>>

(* Mutant of SessionExpired: the WebSocket is left to itself.              *)
SessionForgotten(k) == /\ At(k, "refused_refresh")
                       /\ disk' = None /\ tok' = None
                       /\ loading' = FALSE /\ authed' = FALSE
                       /\ Done(k)
                       /\ UNCHANGED <<server, socket, screen, raced>>

SessionExpired(k) == At(k, "refused_refresh") /\ Expire(k) /\ UNCHANGED raced

-----------------------------------------------------------------------------
(* What the callers make of their answers.  restoreSession clears what is  *)
(* stored when it meets a 401, and keeps it after any other error.         *)
Restoring(k) == call[k].e = "getCurrentUser"

RestoreFails(clears) == /\ disk' = IF clears THEN None ELSE disk
                        /\ tok' = None /\ loading' = FALSE
                        /\ UNCHANGED <<authed, socket>>

(* Mutant of RefreshBroken: every failure is taken for a refusal.          *)
RefreshGivenUp(k) == At(k, "failed_refresh") /\ Expire(k) /\ UNCHANGED raced

(* The refresh got no answer, or an error of the server: the call fails    *)
(* with the 401 it met before.                                             *)
RefreshBroken(k) ==
    /\ At(k, "failed_refresh")
    /\ IF Restoring(k) THEN RestoreFails(TRUE) /\ raced' = TRUE
       ELSE UNCHANGED <<tokens, socket, auth, raced>>
    /\ Done(k)
    /\ UNCHANGED <<server, screen>>

Restored(k) == /\ At(k, "ok") /\ Restoring(k)
               /\ Connect(tok)
               /\ authed' = TRUE /\ loading' = FALSE
               /\ Done(k)
               /\ UNCHANGED <<server, tokens, screen, raced>>

RestoreRefused(k) == /\ Fails(k) /\ Restoring(k)
                     /\ RestoreFails(At(k, "refused"))
                     /\ Done(k)
                     /\ UNCHANGED <<server, screen, raced>>

SignedIn(k) == /\ At(k, "ok") /\ call[k].e \in SignIns
               /\ disk' = call[k].acc /\ tok' = call[k].acc
               /\ Connect(call[k].acc)
               /\ authed' = TRUE /\ loading' = FALSE
               /\ Done(k)
               /\ raced' = (raced \/ Refreshing # {})
               /\ UNCHANGED <<server, screen>>

SignInFails(k) == /\ Fails(k) /\ call[k].e \in SignIns
                  /\ loading' = FALSE
                  /\ Done(k)
                  /\ UNCHANGED <<server, tokens, authed, socket, screen, raced>>

CallEnds(k) == /\ At(k, "ok") \/ Fails(k)
               /\ call[k].e \in Plain
               /\ Done(k)
               /\ UNCHANGED <<server, tokens, auth, socket, screen, raced>>

-----------------------------------------------------------------------------
(* restoreSession, once the page is loaded; without tokens it ends at      *)
(* once.                                                                   *)
RestoreSession(k) ==
    /\ ~launched /\ launched' = TRUE
    /\ call[k] = Idle
    /\ tok' = disk /\ disk' = disk
    /\ IF disk = None THEN loading' = FALSE /\ UNCHANGED <<authed, call>>
       ELSE Send(k, "getCurrentUser", disk) /\ UNCHANGED auth

Launch(k) == /\ url /\ RestoreSession(k)
             /\ UNCHANGED <<server, socket, url, raced>>

(* ServerSetup has reached the server at the URL that was entered.         *)
Setup(k) == /\ Screen = "setup"
            /\ url' = TRUE /\ RestoreSession(k)
            /\ UNCHANGED <<server, socket, raced>>

(* AuthForm: the user signs in or registers.                               *)
SignIn(k, e) == /\ Screen = "auth"
                /\ call[k] = Idle
                /\ Send(k, e, tok)
                /\ loading' = TRUE
                /\ UNCHANGED <<server, tokens, socket, authed, screen, raced>>

(* While the user is signed in the stores and panels call the server.      *)
Request(k, e) == /\ Screen = "app"
                 /\ call[k] = Idle
                 /\ Send(k, e, tok)
                 /\ UNCHANGED <<server, tokens, socket, auth, screen, raced>>

(* The button of UserPanel: nothing is said to the server, and calls that  *)
(* are in flight go on.                                                    *)
Logout == /\ Screen = "app"
          /\ disk' = None /\ tok' = None
          /\ Disconnect
          /\ loading' = FALSE /\ authed' = FALSE
          /\ raced' = (raced \/ Refreshing # {})
          /\ UNCHANGED <<server, screen, call>>

(* The page is loaded again: what is in memory and in flight is gone.      *)
Reload == /\ launched /\ launched' = FALSE
          /\ tok' = None /\ Disconnect
          /\ loading' = TRUE /\ authed' = FALSE
          /\ call' = [k \in Slot |-> Idle]
          /\ UNCHANGED <<server, disk, url, raced>>

(* Fifteen minutes are over: longer than a repeated call takes.            *)
AccessExpires(g) ==
    /\ g \in valid
    /\ \A k \in Slot : At(k, "ok_refresh") \/ (At(k, "sent") /\ call[k].again)
                       => call[k].acc # g
    /\ valid' = valid \ {g}
    /\ UNCHANGED <<row, issued, tokens, socket, auth, screen, call, raced>>

(* The row of a session expires, or a password reset or an administrator   *)
(* removes it.                                                             *)
SessionEnds(i) == /\ row[i] # None
                  /\ row' = [row EXCEPT ![i] = None]
                  /\ UNCHANGED <<issued, valid, tokens, socket, auth, screen,
                                 call, raced>>

-----------------------------------------------------------------------------
Network(k) == ServeSignIn(k) \/ Serve(k) \/ RefreshRead(k) \/ RefreshSwap(k)

Continue(k) == \/ TryRefresh(k) \/ Refreshed(k) \/ SessionExpired(k)
               \/ RefreshBroken(k) \/ Restored(k) \/ RestoreRefused(k)
               \/ SignedIn(k) \/ SignInFails(k) \/ CallEnds(k)

SNext == \/ \E k \in Slot : \/ Network(k) \/ Continue(k)
                            \/ Launch(k) \/ Setup(k)
                            \/ \E e \in SignIns : SignIn(k, e)
                            \/ \E e \in Plain : Request(k, e)
         \/ Logout \/ Reload
         \/ WsOpens \/ WsCloses \/ Reconnect
         \/ \E g \in Gen : AccessExpires(g)
         \/ \E i \in 1..MaxRows : SessionEnds(i)

SSpec == SInit /\ [][SNext]_svars

(* Timers fire, and a server that can be reached again and again is        *)
(* reached at last.                                                        *)
SFairSpec == SSpec /\ WF_svars(Reconnect) /\ SF_svars(WsOpens)

-----------------------------------------------------------------------------
(* The socket follows the session: there is a token to connect with        *)
(* exactly while the user is signed in, then either a socket or a timer    *)
(* that will open the next one, never both; heartbeats go to an open one.  *)
SocketFollowsSession ==
    /\ authed <=> gtok # None
    /\ gtok # None => (timer <=> ws = "closed")
    /\ gtok = None => ws = "none" /\ ~timer
    /\ beat <=> ws = "open"

(* A refresh token buys one pair of tokens only: concurrent refreshes with *)
(* the same token do not both succeed (the compare-and-swap of the         *)
(* server).                                                                *)
RotatedOnce == \A g, h \in 1..Len(issued) :
    issued[g] = issued[h] /\ issued[g] # None => g = h

(* A tab that is not told to sign out drops its stored tokens only when    *)
(* the server would not take the refresh token any more.                   *)
DropsLive == /\ disk # None /\ disk' = None /\ call' # call
             /\ \E i \in 1..MaxRows : row[i] = disk
KeepsLiveSession == [][DropsLive => raced']_svars

(* The same without exceptions, as the comments in client.ts promise.      *)
NeverDropsLive == [][~DropsLive]_svars

(* A connection that is lost comes back, unless the user signs out or the  *)
(* access token it was first opened with has expired.                      *)
ConnectionReturns == (gtok # None /\ ws # "open") ~>
                     (ws = "open" \/ gtok = None \/ gtok \notin valid)
=============================================================================
