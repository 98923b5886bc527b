------------------------------- MODULE Media -------------------------------
(***************************************************************************)
(* What one web client captures while it is in a voice channel: the voice  *)
(* store's switches (stores/voiceStore.ts), the microphone, camera and     *)
(* screen that useWebRTC.ts asks the browser for as the switches change,   *)
(* push-to-talk (usePushToTalk.ts, VoiceChannel.tsx) and the screen of a   *)
(* Go Live broadcast (useGoLive.ts).                                       *)
(*                                                                         *)
(* The effects of React run together with the change that makes them run.  *)
(***************************************************************************)
EXTENDS Naturals, FiniteSets

CONSTANTS
    Parts,      \* sets of captures that are studied together
    MaxDead,    \* bound: abandoned requests for a capture at a time
    MaxCalls    \* bound: changes of switches on their way to the server

Switch == {"muted", "camera", "screen"}
Capture == {"mic", "camera", "screen", "live"}
AskKind == Capture \cup {"swap"}

ASSUME MediaAssumption == /\ Parts \subseteq SUBSET Capture
                          /\ MaxDead \in Nat /\ MaxCalls \in Nat

VARIABLES
    part,      \* the captures under study
    conn,      \* connectedChannelId: "out", "joining", "in" the channel
    leaving,   \* leaveVoiceChannel is on its way
    flag,      \* switch -> is it on in the store
    row,       \* the switches in voice_states, or NoSwitches
    call,      \* updateVoiceState calls in flight
    ask,       \* kind -> the request that counts, and how many do not
    undo,      \* switches about to be turned back
    cap,       \* capture -> what is captured: "none", "on" or "off"
    ptt,       \* voiceMode is push-to-talk
    held,      \* the key is down: activeRef and isPttActive
    binding,   \* capturingKey: the next key becomes the push-to-talk key
    focus,     \* the window has the focus
    starting,  \* startGoLive is on its way
    swapped,   \* the camera was turned off while its device was changed
    crossed    \* calls overlapped, or an answer was lost (both for the
               \* properties only)

switches == <<conn, flag>>
calls == <<leaving, row, call, starting>>
captures == <<ask, undo, cap>>
keys == <<ptt, held, binding, focus>>
ghosts == <<swapped, crossed>>
mvars == <<part, conn, leaving, flag, row, call, ask, undo, cap, ptt, held,
           binding, focus, starting, swapped, crossed>>

NoSwitches == [gone |-> TRUE]
AllOff == [f \in Switch |-> FALSE]

MInit == /\ part \in Parts
         /\ conn = "out" /\ leaving = FALSE /\ flag = AllOff /\ row = NoSwitches
         /\ call = {}
         /\ ask = [k \in AskKind |-> [live |-> FALSE, dead |-> 0]]
         /\ undo = {}
         /\ cap = [k \in Capture |-> "none"]
         /\ ptt \in BOOLEAN /\ ("mic" \notin part => ~ptt)
         /\ held = FALSE /\ binding = FALSE /\ focus = TRUE
         /\ starting = FALSE /\ swapped = FALSE /\ crossed = FALSE

-----------------------------------------------------------------------------
(* The effects of useWebRTC.  A request is given up, and what is captured  *)
(* released, when what the effect depends on changes; then a new request   *)
(* is made if the capture is wanted.                                       *)
Want(k, c, f) == c = "in" /\ k \in part /\ (k \in {"camera", "screen"} => f[k])

Changed(k, c, f) == \/ (c = "in") # (conn = "in")
                    \/ k \in {"camera", "screen"} /\ f[k] # flag[k]

(* The camera is swapped only if there is one.                             *)
Swaps(c, f) == Want("camera", c, f) /\ cap["camera"] # "none"

Renew(a, wanted) == [live |-> wanted,
                     dead |-> IF a.live THEN a.dead + 1 ELSE a.dead]

(* dev names the devices that were chosen anew.                            *)
Reruns(k, c, f, dev) ==
    IF k = "swap" THEN Changed("mic", c, f) \/ "camera" \in dev
    ELSE k # "live" /\ (Changed(k, c, f) \/ (k = "mic" /\ "mic" \in dev))

Commit(c, f, dev) ==
    /\ conn' = c /\ flag' = f
    /\ ask' = [k \in AskKind |->
                 IF ~Reruns(k, c, f, dev) THEN ask[k]
                 ELSE Renew(ask[k], IF k = "swap" THEN Swaps(c, f)
                                    ELSE Want(k, c, f))]
    /\ \A k \in AskKind : ask'[k].dead <= MaxDead
    /\ swapped' = (swapped \/ (ask'["swap"].live /\ ~f["camera"]))

Released(k, c, f, dev) ==
    IF k = "live" THEN c # "in"
    ELSE Reruns(k, c, f, dev) /\ (k = "mic" \/ ~Want(k, c, f))

Release(c, f, dev) == [k \in Capture |-> IF Released(k, c, f, dev)
                                         THEN "none" ELSE cap[k]]

(* The microphone's track follows the mute switch and the key.             *)
MicEnabled(f, p, h) == ~f["muted"] /\ (p => h)

(* When a switch or the key changes the track that there is is set.        *)
SetTrack(caps, f, p, h) ==
    IF \/ <<f["muted"], p, h>> = <<flag["muted"], ptt, held>>
       \/ caps["mic"] = "none"
    THEN caps
    ELSE [caps EXCEPT !["mic"] = IF MicEnabled(f, p, h) THEN "on" ELSE "off"]

(* usePushToTalk listens in the channel, and lets go of the key when it    *)
(* stops to.                                                               *)
Listens(c, p, b) == c = "in" /\ p /\ ~b
StillHeld(c, p, b) == held /\ Listens(c, p, b)

(* The store changes: the effects run.                                     *)
Change(c, f) == /\ Commit(c, f, {})
                /\ held' = StillHeld(c, ptt, binding)
                /\ cap' = SetTrack(Release(c, f, {}), f, ptt, held')
                /\ UNCHANGED <<part, ptt, binding, focus>>

(* The choice of another microphone or camera in the settings.             *)
ChooseDevice(k) == /\ conn = "in" /\ k \in part \cap {"mic", "camera"}
                   /\ Commit(conn, flag, {k})
                   /\ cap' = Release(conn, flag, {k})
                   /\ UNCHANGED <<part, calls, keys, crossed, undo>>

-----------------------------------------------------------------------------
(* The store: join, leave and the switches.                                *)
Join == /\ conn = "out" /\ conn' = "joining"
        /\ crossed' = (crossed \/ leaving \/ call # {})
        /\ UNCHANGED <<part, calls, captures, keys, flag, swapped>>

(* The row is new, or reset; the store takes its switches over.            *)
Joined == /\ conn = "joining"
          /\ row' = AllOff /\ Change("in", AllOff)
          /\ UNCHANGED <<leaving, call, starting, crossed, undo>>

JoinFails == /\ conn = "joining" /\ conn' = "out"
             /\ UNCHANGED <<part, calls, captures, keys, ghosts, flag>>

Leave == /\ conn = "in" /\ ~leaving
         /\ Change("out", AllOff)
         /\ leaving' = TRUE
         /\ crossed' = (crossed \/ call # {} \/ starting)
         /\ UNCHANGED <<row, call, starting, undo>>

LeaveEnds == /\ leaving /\ leaving' = FALSE
             /\ \/ row' = NoSwitches /\ UNCHANGED crossed
                \/ UNCHANGED row /\ crossed' = TRUE
             /\ UNCHANGED <<part, switches, captures, keys, call, starting,
                            swapped>>

(* A switch is turned at once, and the server told.                        *)
Turn(s) == LET c == [s |-> s, to |-> ~flag[s], at |-> "sent"]
           IN /\ Cardinality(call) < MaxCalls /\ c \notin call
              /\ call' = call \cup {c}
              /\ crossed' = (crossed \/ \E d \in call : d.s = s)
              /\ Change(conn, [flag EXCEPT ![s] = ~flag[s]])

Shown(s) == IF s = "muted" THEN "mic" ELSE s

Toggle(s) == /\ conn = "in" /\ Shown(s) \in part
             /\ Turn(s)
             /\ UNCHANGED <<leaving, row, starting, undo>>

Ends(c, at) == call' = (call \ {c}) \cup {[c EXCEPT !.at = at]}

(* The server takes the switch over, or the call fails.                    *)
ToggleServed(c) ==
    /\ c.at = "sent"
    /\ \/ /\ row # NoSwitches /\ row' = [row EXCEPT ![c.s] = c.to]
          /\ \/ Ends(c, "ok") /\ UNCHANGED crossed
             \/ Ends(c, "failed") /\ crossed' = TRUE
       \/ Ends(c, "failed") /\ UNCHANGED <<row, crossed>>
    /\ UNCHANGED <<part, switches, captures, keys, leaving, starting, swapped>>

(* Mutant of ToggleEnds: a failure leaves the switch as it is.             *)
ToggleKept(c) ==
    /\ c.at # "sent" /\ call' = call \ {c}
    /\ UNCHANGED <<part, switches, captures, keys, ghosts, leaving, row,
                   starting>>

(* A failure turns the switch back to where it was before the call.        *)
ToggleEnds(c) ==
    /\ c.at # "sent" /\ call' = call \ {c}
    /\ Change(conn, IF c.at = "ok" THEN flag ELSE [flag EXCEPT ![c.s] = ~c.to])
    /\ UNCHANGED <<leaving, row, starting, crossed, undo>>

-----------------------------------------------------------------------------
(* One of the requests of this kind is answered.                           *)
Forget(k) == IF ask[k].live THEN [ask EXCEPT ![k].live = FALSE]
                            ELSE [ask EXCEPT ![k].dead = @ - 1]

(* Mutant of Granted: it is not noticed that the request was abandoned.    *)
GrantedAnyway(k) ==
    /\ \/ /\ ask[k].live /\ ask' = [ask EXCEPT ![k].live = FALSE]
          /\ starting' = (starting \/ k = "live")
       \/ /\ ask[k].dead > 0
          /\ ask' = [ask EXCEPT ![k].dead = @ - 1]
          /\ UNCHANGED starting
    /\ cap' = [cap EXCEPT ![IF k = "swap" THEN "camera" ELSE k] = "on"]
    /\ UNCHANGED <<part, switches, keys, ghosts, leaving, row, call, undo>>

(* The browser answers a request; an abandoned one is stopped at once.     *)
Granted(k) ==
    /\ \/ /\ ask[k].live /\ ask' = [ask EXCEPT ![k].live = FALSE]
          /\ cap' = [cap EXCEPT ![IF k = "swap" THEN "camera" ELSE k] = "on"]
          /\ starting' = (starting \/ k = "live")
       \/ /\ ask[k].dead > 0
          /\ ask' = [ask EXCEPT ![k].dead = @ - 1]
          /\ UNCHANGED <<cap, starting>>
    /\ UNCHANGED <<part, switches, keys, ghosts, leaving, row, call, undo>>

(* ... or refuses.  The switch of a camera or screen is to be turned back  *)
(* then, whichever request it was; so is that of a screen whose capture    *)
(* the user ends in the browser.                                           *)
Denied(k) == /\ ask[k].live \/ ask[k].dead > 0
             /\ ask' = Forget(k)
             /\ undo' = undo \cup ({k} \cap {"camera", "screen"})
             /\ UNCHANGED <<part, switches, calls, keys, ghosts, cap>>

ScreenEnds == /\ cap["screen"] # "none"
              /\ undo' = undo \cup {"screen"}
              /\ UNCHANGED <<part, switches, calls, keys, ghosts, ask, cap>>

TurnBack(s) == /\ s \in undo /\ undo' = undo \ {s}
               /\ IF flag[s] /\ conn = "in" THEN Turn(s)
                  ELSE UNCHANGED <<part, switches, keys, ghosts, call, ask,
                                   cap>>
               /\ UNCHANGED <<leaving, row, starting>>

-----------------------------------------------------------------------------
(* Push-to-talk: the key counts while the window has the focus.            *)
Press == /\ Listens(conn, ptt, binding) /\ focus /\ ~held
         /\ held' = TRUE
         /\ cap' = SetTrack(cap, flag, ptt, TRUE)
         /\ UNCHANGED <<part, switches, calls, ghosts, ask, ptt, binding,
                        focus, undo>>

ReleaseKey(window) ==
    /\ held' = FALSE /\ focus' = window
    /\ cap' = SetTrack(cap, flag, ptt, FALSE)
    /\ UNCHANGED <<part, switches, calls, ghosts, ask, ptt, binding, undo>>

KeyUp == held /\ ReleaseKey(focus)
Blur == "mic" \in part /\ focus /\ ReleaseKey(FALSE)

Focus == /\ ~focus /\ focus' = TRUE
         /\ UNCHANGED <<part, switches, calls, captures, ghosts, ptt, held,
                        binding>>

(* Mutant of Settings: the key is not let go of.                           *)
SettingsHeld(p, b) ==
    /\ conn = "in" /\ "mic" \in part /\ <<p, b>> # <<ptt, binding>>
    /\ ptt' = p /\ binding' = b
    /\ cap' = SetTrack(cap, flag, p, held)
    /\ UNCHANGED <<part, switches, calls, ghosts, ask, held, focus, undo>>

(* The settings: the input mode, and a new key for push-to-talk.           *)
Settings(p, b) ==
    /\ conn = "in" /\ "mic" \in part /\ <<p, b>> # <<ptt, binding>>
    /\ ptt' = p /\ binding' = b
    /\ held' = StillHeld(conn, p, b)
    /\ cap' = SetTrack(cap, flag, p, held')
    /\ UNCHANGED <<part, switches, calls, ghosts, ask, focus, undo>>

-----------------------------------------------------------------------------
(* Go Live: the screen is asked for, then the server; a refusal ends the   *)
(* capture.  One start at a time is modelled.                              *)
StartBroadcast == /\ conn = "in" /\ "live" \in part /\ cap["live"] = "none"
                  /\ ~ask["live"].live /\ ~starting
                  /\ ask' = [ask EXCEPT !["live"].live = TRUE]
                  /\ UNCHANGED <<part, switches, calls, keys, ghosts, cap,
                                 undo>>

BroadcastStarts ==
    /\ starting /\ starting' = FALSE
    /\ \/ row # NoSwitches /\ UNCHANGED cap
       \/ cap' = [cap EXCEPT !["live"] = "none"]
    /\ crossed' = (crossed \/ (conn # "in" /\ row # NoSwitches))
    /\ UNCHANGED <<part, switches, keys, leaving, row, call, ask, swapped,
                   undo>>

(* The button, or the end of the capture in the browser.                   *)
StopBroadcast == /\ cap["live"] # "none"
                 /\ cap' = [cap EXCEPT !["live"] = "none"]
                 /\ UNCHANGED <<part, switches, calls, keys, ghosts, ask,
                                undo>>

-----------------------------------------------------------------------------
MNext == \/ Join \/ Joined \/ JoinFails \/ Leave \/ LeaveEnds
         \/ \E s \in Switch : Toggle(s) \/ TurnBack(s)
         \/ \E c \in call : ToggleServed(c) \/ ToggleEnds(c)
         \/ \E k \in Capture : ChooseDevice(k)
         \/ \E k \in AskKind : Granted(k) \/ Denied(k)
         \/ ScreenEnds \/ Press \/ KeyUp \/ Blur \/ Focus
         \/ \E p, b \in BOOLEAN : Settings(p, b)
         \/ StartBroadcast \/ BroadcastStarts \/ StopBroadcast

MSpec == MInit /\ [][MNext]_mvars

-----------------------------------------------------------------------------
(* Nothing is captured that is not wanted, however late the browser        *)
(* answers: no microphone outside the channel, no screen whose switch is   *)
(* off, no camera either (unless it is turned off while its device is      *)
(* being changed), and no Go Live capture outside the channel beyond the   *)
(* answer of the server.                                                   *)
CapturesWanted ==
    /\ \A k \in {"mic", "screen"} : cap[k] # "none" => Want(k, conn, flag)
    /\ cap["camera"] # "none" => conn = "in" /\ (flag["camera"] \/ swapped)
    /\ cap["live"] # "none" => conn = "in" \/ starting \/ crossed

(* The switches shown are those the server tells the others, once all      *)
(* calls have ended, one after the other.                                  *)
SwitchesAgree == conn = "in" /\ call = {} /\ ~leaving /\ ~crossed => flag = row

(* The key cannot get stuck: it is held only while it is listened to and   *)
(* the window has the focus.                                               *)
KeyNotStuck == held => Listens(conn, ptt, binding) /\ focus

(* In push-to-talk the microphone is open only while the key is held, and  *)
(* never while muted (the comment on the effect says so).                  *)
MicObeys == cap["mic"] = "on" => MicEnabled(flag, ptt, held)
=============================================================================
