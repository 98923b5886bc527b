------------------------------- MODULE GoLive -------------------------------
(***************************************************************************)
(* Go Live sessions (src/server/src/handlers/go_live.rs): a map in memory, *)
(* behind a lock, from voice channel to broadcaster.  Starting needs a row *)
(* in voice_states (VoiceStates.tla), which is checked before the lock is  *)
(* taken; the banner of the clients (useGoLive.ts) follows the broadcasts  *)
(* made after it was released.                                             *)
(***************************************************************************)
EXTENDS VoiceStates

CONSTANTS Nobody,
          GoReq    \* start and stop requests that may be in flight

ASSUME GoLiveAssumption == Nobody \notin User

VARIABLES
    live,    \* go_live_sessions: channel -> broadcaster, or Nobody
    banner,  \* channel -> the broadcaster its members were last told of
    go,      \* request -> where it stands
    torn     \* channels on which a stop overlapped another request, and
             \* nobody has started or stopped alone since (for the
             \* properties only)

lvars == <<vvars, live, banner, go, torn>>

-----------------------------------------------------------------------------
GoBusy == [at : {"start_write", "start_announce", "stop_announce"},
           user : User, ch : Channel]

OnChannel(ch) == {g \in GoReq : go[g] # Idle /\ go[g].ch = ch}
Starts == {"start_write", "start_announce"}

LInit == /\ VInit
         /\ live = [ch \in Channel |-> Nobody]
         /\ banner = [ch \in Channel |-> Nobody]
         /\ go = [g \in GoReq |-> Idle]
         /\ torn = {}

Ask(g, step, u, ch) ==
    /\ go[g] = Idle
    /\ u \in members[ServerOf[ch]]
    /\ go' = [go EXCEPT ![g] = [at |-> step, user |-> u, ch |-> ch]]

GoAt(g, step) == go[g] # Idle /\ go[g].at = step
GoEnd(g) == go' = [go EXCEPT ![g] = Idle]

(* A start joins requests on its channel of which one may be a stop.       *)
Joins(ch) == torn' = IF \A o \in OnChannel(ch) : go[o].at \in Starts
                     THEN torn ELSE torn \cup {ch}

(* POST: the caller must be in the channel ... *)
StartCheck(g, u, ch) == /\ InChannel(u, ch)
                        /\ Ask(g, "start_write", u, ch)
                        /\ Joins(ch)
                        /\ UNCHANGED <<vvars, live, banner>>

(* Mutants of StartWrite: nobody looks who is live already, and the map    *)
(* is given the channel for the user.                                      *)
StartWriteBlind(g) == /\ GoAt(g, "start_write")
                      /\ live' = [live EXCEPT ![go[g].ch] = go[g].user]
                      /\ go' = [go EXCEPT ![g].at = "start_announce"]
                      /\ UNCHANGED <<vvars, banner, torn>>
StartWriteChannel(g) == /\ GoAt(g, "start_write")
                        /\ live' = [live EXCEPT ![go[g].ch] = go[g].ch]
                        /\ go' = [go EXCEPT ![g].at = "start_announce"]
                        /\ UNCHANGED <<vvars, banner, torn>>

(* ... and, under the write lock, nobody else may be live there.           *)
StartWrite(g) ==
    LET u == go[g].user  ch == go[g].ch
    IN /\ GoAt(g, "start_write")
       /\ IF live[ch] \in {Nobody, u}
          THEN /\ live' = [live EXCEPT ![ch] = u]
               /\ go' = [go EXCEPT ![g].at = "start_announce"]
               /\ torn' = IF OnChannel(ch) = {g} THEN torn \ {ch} ELSE torn
          ELSE UNCHANGED <<live, torn>> /\ GoEnd(g)
       /\ UNCHANGED <<vvars, banner>>

StartAnnounce(g) == /\ GoAt(g, "start_announce")
                    /\ banner' = [banner EXCEPT ![go[g].ch] = go[g].user]
                    /\ GoEnd(g)
                    /\ UNCHANGED <<vvars, live, torn>>

(* DELETE: under the write lock, and by the broadcaster only; it need not  *)
(* be in the channel any more.                                             *)
Stop(g, u, ch) == /\ live[ch] = u
                  /\ Ask(g, "stop_announce", u, ch)
                  /\ live' = [live EXCEPT ![ch] = Nobody]
                  /\ torn' = IF OnChannel(ch) = {} THEN torn \ {ch}
                                                   ELSE torn \cup {ch}
                  /\ UNCHANGED <<vvars, banner>>

(* Mutant of StopAnnounce: the banner stays up.                            *)
StopAnnounceKeeps(g) == /\ GoAt(g, "stop_announce")
                        /\ GoEnd(g)
                        /\ UNCHANGED <<vvars, live, banner, torn>>

(* The clients drop the banner whoever it was that stopped.                *)
StopAnnounce(g) == /\ GoAt(g, "stop_announce")
                   /\ banner' = [banner EXCEPT ![go[g].ch] = Nobody]
                   /\ GoEnd(g)
                   /\ UNCHANGED <<vvars, live, torn>>

(* Leaving the channel, moving on and disconnecting do not touch the map.  *)
LNext == \/ VNext /\ UNCHANGED <<live, banner, go, torn>>
         \/ \E g \in GoReq :
               \/ \E u \in User, ch \in Channel :
                     StartCheck(g, u, ch) \/ Stop(g, u, ch)
               \/ StartWrite(g) \/ StartAnnounce(g) \/ StopAnnounce(g)

LSpec == LInit /\ [][LNext]_lvars

-----------------------------------------------------------------------------
(* Type correctness (with VTypeOK). *)
LTypeOK == /\ live \in [Channel -> User \cup {Nobody}]
           /\ banner \in [Channel -> User \cup {Nobody}]
           /\ go \in [GoReq -> GoBusy \cup {Idle}]
           /\ torn \in SUBSET Channel

(* A broadcast is never taken over: two users that start at the same time  *)
(* cannot both succeed, and a channel passes from one broadcaster to       *)
(* another only by way of a stop.                                          *)
NeverTakenOver ==
    [][\A ch \in Channel : live[ch] # Nobody /\ live'[ch] # live[ch]
                              => live'[ch] = Nobody]_lvars

(* With no request under way on a channel its members see the banner of    *)
(* the user who is live there.  Stops overlap starts and other stops, and  *)
(* then broadcasts are made in another order than the changes of the map;  *)
(* what that leaves behind lasts no longer than until somebody starts or   *)
(* stops with no other request under way on the channel.                   *)
BannerAgrees == \A ch \in Channel \ torn : OnChannel(ch) = {} => banner[ch] = live[ch]

(* The same for every channel, whatever overlaps.                          *)
BannerAlwaysAgrees == \A ch \in Channel : OnChannel(ch) = {} => banner[ch] = live[ch]

(* Who is live in a channel is in that channel.                            *)
LiveIsInVoice == \A ch \in Channel :
    live[ch] # Nobody /\ OnChannel(ch) = {} /\ InFlight(live[ch]) = {}
        => InChannel(live[ch], ch)
=============================================================================
