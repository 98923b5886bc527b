-------------------------- MODULE VoiceCall_proofs --------------------------
(***************************************************************************)
(* Proofs about a voice call in the web client.  For Media: whatever       *)
(* captures are studied together and however many requests and calls are   *)
(* under way, nothing is captured that is not wanted, the push-to-talk key *)
(* does not stick, and the switches agree with the server's.  For Peers:   *)
(* however many users come and go, offers are made and events are on their *)
(* way, the lists are right, and whoever meets gets connected.             *)
(***************************************************************************)
EXTENDS Media, Peers, TLAPS

Call == [s : Switch, to : BOOLEAN, at : {"sent", "ok", "failed"}]

MTypeOK ==
    /\ part \in SUBSET Capture
    /\ conn \in {"out", "joining", "in"} /\ leaving \in BOOLEAN
    /\ flag \in [Switch -> BOOLEAN]
    /\ row \in [Switch -> BOOLEAN] \cup {NoSwitches}
    /\ call \in SUBSET Call
    /\ ask \in [AskKind -> [live : BOOLEAN, dead : Nat]]
    /\ undo \in SUBSET {"camera", "screen"}
    /\ cap \in [Capture -> {"none", "on", "off"}]
    /\ ptt \in BOOLEAN /\ held \in BOOLEAN /\ binding \in BOOLEAN
    /\ focus \in BOOLEAN /\ starting \in BOOLEAN
    /\ swapped \in BOOLEAN /\ crossed \in BOOLEAN

(* What is captured is wanted, and so is what a request that counts will   *)
(* bring.                                                                  *)
RequestsWanted ==
    /\ \A k \in {"mic", "camera", "screen"} : ask[k].live => Want(k, conn, flag)
    /\ ask["swap"].live => conn = "in" /\ (flag["camera"] \/ swapped)

CaptureInv == MTypeOK /\ CapturesWanted /\ RequestsWanted

(* As long as no calls cross: outside the channel none is under way, and   *)
(* inside each switch has one call at most, from which can be told in what *)
(* the store and the row differ.                                           *)
CallsAlone ==
    /\ conn # "out" => ~leaving
    /\ conn # "in" => call = {}
    /\ conn = "in" =>
          /\ row # NoSwitches
          /\ \A c, d \in call : c.s = d.s => c = d
          /\ \A c \in call : /\ flag[c.s] = c.to
                             /\ row[c.s] = (IF c.at = "ok" THEN c.to ELSE ~c.to)
          /\ \A s \in Switch : (\A c \in call : c.s # s) => flag[s] = row[s]

SwitchInv == MTypeOK /\ (~crossed => CallsAlone)

-----------------------------------------------------------------------------
(* A change of the store keeps the types. *)
LEMMA CommitType ==
    ASSUME MTypeOK, NEW c \in {"out", "joining", "in"}, NEW f \in [Switch -> BOOLEAN],
           NEW dev \in SUBSET Capture, Commit(c, f, dev)
    PROVE  /\ conn' \in {"out", "joining", "in"}
           /\ flag' \in [Switch -> BOOLEAN]
           /\ ask' \in [AskKind -> [live : BOOLEAN, dead : Nat]]
           /\ swapped' \in BOOLEAN
<1>1. ASSUME NEW k \in AskKind
      PROVE  (IF ~Reruns(k, c, f, dev) THEN ask[k]
              ELSE Renew(ask[k], IF k = "swap" THEN Swaps(c, f) ELSE Want(k, c, f)))
                 \in [live : BOOLEAN, dead : Nat]
  <2>1. ask[k] \in [live : BOOLEAN, dead : Nat]
    BY DEF MTypeOK
  <2>2. Swaps(c, f) \in BOOLEAN /\ Want(k, c, f) \in BOOLEAN
    BY DEF Swaps, Want
  <2> QED
    BY <2>1, <2>2 DEF Renew
<1>2. swapped' \in BOOLEAN
  BY DEF Commit, MTypeOK
<1> QED
  BY <1>1, <1>2 DEF Commit

LEMMA ReleaseType ==
    ASSUME MTypeOK, NEW c, NEW f, NEW dev
    PROVE  Release(c, f, dev) \in [Capture -> {"none", "on", "off"}]
BY DEF MTypeOK, Release

LEMMA TrackType ==
    ASSUME NEW caps \in [Capture -> {"none", "on", "off"}], NEW f, NEW p, NEW h
    PROVE  SetTrack(caps, f, p, h) \in [Capture -> {"none", "on", "off"}]
BY DEF SetTrack

LEMMA ChangeType ==
    ASSUME MTypeOK, NEW c \in {"out", "joining", "in"}, NEW f \in [Switch -> BOOLEAN],
           Change(c, f), leaving' \in BOOLEAN,
           row' \in [Switch -> BOOLEAN] \cup {NoSwitches}, call' \in SUBSET Call,
           undo' \in SUBSET {"camera", "screen"}, starting' \in BOOLEAN,
           crossed' \in BOOLEAN
    PROVE  MTypeOK'
<1>1. /\ conn' \in {"out", "joining", "in"} /\ flag' \in [Switch -> BOOLEAN]
      /\ ask' \in [AskKind -> [live : BOOLEAN, dead : Nat]] /\ swapped' \in BOOLEAN
  BY CommitType DEF Change
<1>2. cap' \in [Capture -> {"none", "on", "off"}]
  BY ReleaseType, TrackType DEF Change
<1>3. held' \in BOOLEAN
  BY DEF Change, StillHeld, Listens
<1> QED
  BY <1>1, <1>2, <1>3 DEF Change, MTypeOK

LEMMA TurnType ==
    ASSUME MTypeOK, NEW s \in Switch, Turn(s), UNCHANGED <<leaving, row, starting>>,
           undo' \in SUBSET {"camera", "screen"}
    PROVE  MTypeOK'
<1>1. /\ conn \in {"out", "joining", "in"}
      /\ [flag EXCEPT ![s] = ~flag[s]] \in [Switch -> BOOLEAN]
  BY DEF MTypeOK
<1>2. call' \in SUBSET Call
  <2>1. [s |-> s, to |-> ~flag[s], at |-> "sent"] \in Call
    BY DEF Call
  <2> QED
    BY <2>1 DEF Turn, MTypeOK
<1>3. crossed' \in BOOLEAN /\ Change(conn, [flag EXCEPT ![s] = ~flag[s]])
  BY DEF Turn, MTypeOK
<1> QED
  BY <1>1, <1>2, <1>3, ChangeType DEF MTypeOK

LEMMA ForgetType ==
    ASSUME MTypeOK, NEW k \in AskKind, ask[k].live \/ ask[k].dead > 0
    PROVE  /\ Forget(k) \in [AskKind -> [live : BOOLEAN, dead : Nat]]
           /\ ask[k].dead > 0 => [ask EXCEPT ![k].dead = @ - 1]
                                    \in [AskKind -> [live : BOOLEAN, dead : Nat]]
<1>1. /\ ask \in [AskKind -> [live : BOOLEAN, dead : Nat]]
      /\ ask[k] \in [live : BOOLEAN, dead : Nat]
  BY DEF MTypeOK
<1>2. [ask[k] EXCEPT !.live = FALSE] \in [live : BOOLEAN, dead : Nat]
  BY <1>1
<1>3. ask[k].dead > 0 => [ask[k] EXCEPT !.dead = ask[k].dead - 1]
                            \in [live : BOOLEAN, dead : Nat]
  BY <1>1
<1> QED
  BY <1>1, <1>2, <1>3 DEF Forget

LEMMA MType == MTypeOK /\ [MNext]_mvars => MTypeOK'
<1> SUFFICES ASSUME MTypeOK, [MNext]_mvars PROVE MTypeOK'
  OBVIOUS
<1> USE DEF switches, calls, captures, keys, ghosts
<1>1. CASE UNCHANGED mvars
  BY <1>1 DEF mvars, MTypeOK
<1>2. CASE Join
  BY <1>2 DEF Join, MTypeOK
<1>3. CASE Joined
  <2>1. AllOff \in [Switch -> BOOLEAN] /\ crossed' = crossed
    BY <1>3 DEF AllOff, Joined
  <2> QED
    BY <1>3, <2>1, ChangeType DEF Joined, MTypeOK
<1>4. CASE JoinFails
  BY <1>4 DEF JoinFails, MTypeOK
<1>5. CASE Leave
  <2>1. AllOff \in [Switch -> BOOLEAN] /\ crossed' \in BOOLEAN
    BY <1>5 DEF AllOff, Leave, MTypeOK
  <2> QED
    BY <1>5, <2>1, ChangeType DEF Leave, MTypeOK
<1>6. CASE LeaveEnds
  BY <1>6 DEF LeaveEnds, MTypeOK
<1>7. ASSUME NEW s \in Switch, Toggle(s) PROVE MTypeOK'
  BY <1>7, TurnType DEF Toggle, MTypeOK
<1>8. ASSUME NEW s \in Switch, TurnBack(s) PROVE MTypeOK'
  <2>1. undo' \in SUBSET {"camera", "screen"}
    BY <1>8 DEF TurnBack, MTypeOK
  <2>2. CASE Turn(s)
    BY <1>8, <2>1, <2>2, TurnType DEF TurnBack
  <2> QED
    BY <1>8, <2>1, <2>2 DEF TurnBack, MTypeOK
<1>9. ASSUME NEW c \in call, ToggleServed(c) PROVE MTypeOK'
  <2>1. c \in Call
    BY DEF MTypeOK
  <2>2. \A end \in {"ok", "failed"} : [c EXCEPT !.at = end] \in Call
    BY <2>1 DEF Call
  <2>3. call' \in SUBSET Call
    BY <1>9, <2>2 DEF ToggleServed, Ends, MTypeOK
  <2>4. row' \in [Switch -> BOOLEAN] \cup {NoSwitches}
    BY <1>9, <2>1 DEF ToggleServed, Call, MTypeOK
  <2> QED
    BY <1>9, <2>3, <2>4 DEF ToggleServed, MTypeOK
<1>10. ASSUME NEW c \in call, ToggleEnds(c) PROVE MTypeOK'
  <2>1. c \in Call
    BY DEF MTypeOK
  <2> DEFINE f == IF c.at = "ok" THEN flag ELSE [flag EXCEPT ![c.s] = ~c.to]
  <2>2. f \in [Switch -> BOOLEAN] /\ conn \in {"out", "joining", "in"}
    BY <2>1 DEF MTypeOK, Call
  <2>3. Change(conn, f) /\ call' \in SUBSET Call
    BY <1>10 DEF ToggleEnds, MTypeOK
  <2>4. UNCHANGED <<leaving, row, starting, crossed, undo>>
    BY <1>10 DEF ToggleEnds
  <2> HIDE DEF f
  <2> QED
    BY <2>2, <2>3, <2>4, ChangeType DEF MTypeOK
<1>11. ASSUME NEW k \in Capture, ChooseDevice(k) PROVE MTypeOK'
  <2>1. /\ conn' \in {"out", "joining", "in"} /\ flag' \in [Switch -> BOOLEAN]
        /\ ask' \in [AskKind -> [live : BOOLEAN, dead : Nat]] /\ swapped' \in BOOLEAN
    BY <1>11, CommitType DEF ChooseDevice, MTypeOK
  <2>2. cap' \in [Capture -> {"none", "on", "off"}]
    BY <1>11, ReleaseType DEF ChooseDevice
  <2> QED
    BY <1>11, <2>1, <2>2 DEF ChooseDevice, MTypeOK
<1>12. ASSUME NEW k \in AskKind, Granted(k) PROVE MTypeOK'
  <2>1. ask' \in [AskKind -> [live : BOOLEAN, dead : Nat]]
    <3>1. CASE ask[k].live /\ ask' = [ask EXCEPT ![k].live = FALSE]
      <4>1. Forget(k) = [ask EXCEPT ![k].live = FALSE]
        BY <3>1, Zenon DEF Forget
      <4>2. Forget(k) \in [AskKind -> [live : BOOLEAN, dead : Nat]]
        BY <3>1, ForgetType
      <4> QED
        BY <3>1, <4>1, <4>2
    <3>2. CASE ask[k].dead > 0 /\ ask' = [ask EXCEPT ![k].dead = @ - 1]
      BY <3>2, ForgetType
    <3> QED
      BY <1>12, <3>1, <3>2 DEF Granted
  <2>2. cap' \in [Capture -> {"none", "on", "off"}]
    <3>1. \/ UNCHANGED cap
          \/ \E x : cap' = [cap EXCEPT ![x] = "on"]
      BY <1>12 DEF Granted
    <3> QED
      BY <3>1 DEF MTypeOK
  <2>3. starting' \in BOOLEAN
    BY <1>12 DEF Granted, MTypeOK
  <2>4. UNCHANGED <<part, conn, leaving, flag, row, call, undo, ptt, held, binding, focus,
                    swapped, crossed>>
    BY <1>12 DEF Granted
  <2> QED
    BY <2>1, <2>2, <2>3, <2>4 DEF MTypeOK
<1>13. ASSUME NEW k \in AskKind, Denied(k) PROVE MTypeOK'
  <2>1. ask' \in [AskKind -> [live : BOOLEAN, dead : Nat]]
    BY <1>13, ForgetType DEF Denied
  <2> QED
    BY <1>13, <2>1 DEF Denied, MTypeOK
<1>14. CASE Press \/ KeyUp \/ Blur \/ Focus
  <2>1. \/ UNCHANGED cap
        \/ \E p, h : cap' = SetTrack(cap, flag, p, h)
    BY <1>14 DEF Press, KeyUp, Blur, ReleaseKey, Focus
  <2>2. cap' \in [Capture -> {"none", "on", "off"}]
    BY <2>1, TrackType DEF MTypeOK
  <2>3. held' \in BOOLEAN /\ focus' \in BOOLEAN
    BY <1>14 DEF Press, KeyUp, Blur, ReleaseKey, Focus, MTypeOK
  <2>4. UNCHANGED <<part, conn, leaving, flag, row, call, ask, undo, ptt, binding,
                    starting, swapped, crossed>>
    BY <1>14 DEF Press, KeyUp, Blur, ReleaseKey, Focus
  <2> QED
    BY <2>2, <2>3, <2>4 DEF MTypeOK
<1>15. ASSUME NEW p \in BOOLEAN, NEW b \in BOOLEAN, Settings(p, b) PROVE MTypeOK'
  BY <1>15, TrackType DEF Settings, StillHeld, Listens, MTypeOK
<1>16. CASE ScreenEnds \/ StartBroadcast \/ BroadcastStarts \/ StopBroadcast
  <2>1. /\ cap' \in [Capture -> {"none", "on", "off"}]
        /\ starting' \in BOOLEAN /\ crossed' \in BOOLEAN
        /\ undo' \in SUBSET {"camera", "screen"}
    BY <1>16 DEF ScreenEnds, StartBroadcast, BroadcastStarts, StopBroadcast, MTypeOK
  <2>2. ask' = ask \/ ask' = [ask EXCEPT !["live"].live = TRUE]
    BY <1>16 DEF ScreenEnds, StartBroadcast, BroadcastStarts, StopBroadcast
  <2>3. ask' \in [AskKind -> [live : BOOLEAN, dead : Nat]]
    BY <2>2, ZenonT(30) DEF MTypeOK
  <2>4. UNCHANGED <<part, conn, leaving, flag, row, call, ptt, held, binding, focus, swapped>>
    BY <1>16 DEF ScreenEnds, StartBroadcast, BroadcastStarts, StopBroadcast
  <2> QED
    BY <2>1, <2>3, <2>4 DEF MTypeOK
<1> QED
  BY <1>1, <1>2, <1>3, <1>4, <1>5, <1>6, <1>7, <1>8, <1>9, <1>10, <1>11, <1>12, <1>13,
     <1>14, <1>15, <1>16 DEF MNext

LEMMA MInitType == MInit => MTypeOK
<1> SUFFICES ASSUME MInit PROVE MTypeOK
  OBVIOUS
<1>1. part \in SUBSET Capture
  BY MediaAssumption DEF MInit
<1>2. /\ ask \in [AskKind -> [live : BOOLEAN, dead : Nat]]
      /\ cap \in [Capture -> {"none", "on", "off"}] /\ flag \in [Switch -> BOOLEAN]
  BY DEF MInit, AllOff
<1> QED
  BY <1>1, <1>2 DEF MInit, MTypeOK

(* The push-to-talk key cannot get stuck: losing the focus, leaving the    *)
(* channel, another input mode and the choice of a new key all let go.     *)
THEOREM KeyLetGo == MSpec => []KeyNotStuck
<1>1. MInit => KeyNotStuck
  BY DEF MInit, KeyNotStuck
<1>2. KeyNotStuck /\ [MNext]_mvars => KeyNotStuck'
  <2> SUFFICES ASSUME KeyNotStuck, [MNext]_mvars PROVE KeyNotStuck'
    OBVIOUS
  <2> USE DEF KeyNotStuck, switches, keys, calls, Listens
  <2>1. ASSUME NEW c, NEW f, Change(c, f) PROVE KeyNotStuck'
    BY <2>1 DEF Change, Commit, StillHeld
  <2>2. CASE Joined \/ Leave \/ \E s \in Switch : Toggle(s)
    BY <2>1, <2>2 DEF Joined, Leave, Toggle, Turn
  <2>3. CASE \E s \in Switch : TurnBack(s)
    BY <2>1, <2>3 DEF TurnBack, Turn
  <2>4. CASE \E c \in call : ToggleEnds(c)
    BY <2>1, <2>4 DEF ToggleEnds
  <2>5. CASE \/ UNCHANGED mvars \/ Join \/ JoinFails \/ LeaveEnds
             \/ \E c \in call : ToggleServed(c)
             \/ \E k \in AskKind : Granted(k) \/ Denied(k)
             \/ ScreenEnds \/ StartBroadcast \/ BroadcastStarts \/ StopBroadcast
    BY <2>5 DEF mvars, Join, JoinFails, LeaveEnds, ToggleServed, Granted, Denied,
                ScreenEnds, StartBroadcast, BroadcastStarts, StopBroadcast
  <2>6. CASE \E k \in Capture : ChooseDevice(k)
    BY <2>6 DEF ChooseDevice, Commit
  <2>7. CASE Press \/ KeyUp \/ Blur \/ Focus
    BY <2>7 DEF Press, KeyUp, Blur, ReleaseKey, Focus
  <2>8. CASE \E p, b \in BOOLEAN : Settings(p, b)
    <3>1. PICK p \in BOOLEAN, b \in BOOLEAN : Settings(p, b)
      BY <2>8
    <3>2. held' => conn = "in" /\ p /\ ~b /\ held
      BY <3>1, Zenon DEF Settings, StillHeld
    <3> QED
      BY <3>1, <3>2 DEF Settings
  <2> QED
    BY <2>2, <2>3, <2>4, <2>5, <2>6, <2>7, <2>8 DEF MNext
<1> QED
  BY <1>1, <1>2, PTL DEF MSpec

-----------------------------------------------------------------------------
(* The effects that a change makes run leave no capture and no request     *)
(* that counts behind which the new switches do not want.                  *)
LEMMA CommitWanted ==
    ASSUME CaptureInv, NEW c \in {"out", "joining", "in"}, NEW f \in [Switch -> BOOLEAN],
           NEW dev \in SUBSET Capture, Commit(c, f, dev), UNCHANGED part,
           \A k \in Capture : cap'[k] # "none" => Release(c, f, dev)[k] # "none"
    PROVE  CapturesWanted' /\ RequestsWanted'
<1>1. conn' = c /\ flag' = f
  BY DEF Commit
<1>2. ASSUME NEW k \in {"mic", "camera", "screen"}, ~Reruns(k, c, f, dev)
      PROVE  Want(k, conn, flag) => Want(k, c, f)
  BY <1>2 DEF Reruns, Changed, Want
<1>3. \A k \in AskKind :
          /\ ~Reruns(k, c, f, dev) => ask'[k] = ask[k]
          /\ Reruns(k, c, f, dev) =>
                ask'[k].live = (IF k = "swap" THEN Swaps(c, f) ELSE Want(k, c, f))
  BY DEF Commit, Renew
<1>4. swapped' = (swapped \/ (ask'["swap"].live /\ ~f["camera"]))
  BY DEF Commit
<1>5. ASSUME NEW k \in {"mic", "camera", "screen"}, ask'[k].live
      PROVE  Want(k, c, f)
  <2>1. k \in AskKind /\ k # "swap"
    BY DEF AskKind, Capture
  <2>2. CASE Reruns(k, c, f, dev)
    <3>1. ask'[k].live = Want(k, c, f)
      BY <1>3, <2>1, <2>2
    <3> QED
      BY <1>5, <3>1, Zenon
  <2>3. CASE ~Reruns(k, c, f, dev)
    BY <1>2, <1>3, <1>5, <2>1, <2>3 DEF CaptureInv, RequestsWanted
  <2> QED
    BY <2>2, <2>3
<1>6. ASSUME ask'["swap"].live
      PROVE  c = "in" /\ (f["camera"] \/ swapped')
  <2>1. "swap" \in AskKind
    BY DEF AskKind
  <2>2. CASE Reruns("swap", c, f, dev)
    <3>1. ask'["swap"].live = Swaps(c, f)
      BY <1>3, <2>1, <2>2
    <3>2. Swaps(c, f)
      BY <1>6, <3>1, Zenon
    <3> QED
      BY <3>2 DEF Swaps, Want
  <2>3. CASE ~Reruns("swap", c, f, dev)
    <3>1. c = "in"
      BY <1>3, <1>6, <2>1, <2>3 DEF CaptureInv, RequestsWanted, Reruns, Changed
    <3> QED
      BY <1>4, <1>6, <3>1
  <2> QED
    BY <2>2, <2>3
<1>7. \A k \in Capture : cap'[k] # "none" => cap[k] # "none" /\ ~Released(k, c, f, dev)
  BY DEF Release
<1>8. ASSUME NEW k \in {"mic", "screen"}, cap'[k] # "none"
      PROVE  Want(k, c, f)
  <2>1. cap[k] # "none" /\ ~Released(k, c, f, dev)
    BY <1>7, <1>8 DEF Capture
  <2>2. CASE Reruns(k, c, f, dev)
    BY <2>1, <2>2 DEF Released
  <2>3. CASE ~Reruns(k, c, f, dev)
    BY <1>2, <2>1, <2>3 DEF CaptureInv, CapturesWanted
  <2> QED
    BY <2>2, <2>3
<1>9. ASSUME cap'["camera"] # "none"
      PROVE  c = "in" /\ (f["camera"] \/ swapped')
  <2>1. cap["camera"] # "none" /\ ~Released("camera", c, f, dev)
    BY <1>7, <1>9 DEF Capture
  <2>2. CASE Reruns("camera", c, f, dev)
    BY <2>1, <2>2 DEF Released, Want
  <2>3. CASE ~Reruns("camera", c, f, dev)
    BY <1>4, <2>1, <2>3 DEF CaptureInv, CapturesWanted, Reruns, Changed
  <2> QED
    BY <2>2, <2>3
<1>10. cap'["live"] # "none" => c = "in"
  BY <1>7 DEF Capture, Released
<1> QED
  BY <1>1, <1>5, <1>6, <1>8, <1>9, <1>10 DEF CapturesWanted, RequestsWanted, Want

LEMMA TrackKeeps ==
    ASSUME NEW caps \in [Capture -> {"none", "on", "off"}], NEW f, NEW p, NEW h,
           NEW k \in Capture
    PROVE  SetTrack(caps, f, p, h)[k] # "none" => caps[k] # "none"
BY DEF SetTrack

LEMMA ChangeWanted ==
    ASSUME CaptureInv, NEW c \in {"out", "joining", "in"}, NEW f \in [Switch -> BOOLEAN],
           Change(c, f)
    PROVE  CapturesWanted' /\ RequestsWanted'
<1>1. Release(c, f, {}) \in [Capture -> {"none", "on", "off"}]
  BY ReleaseType DEF CaptureInv
<1>2. \A k \in Capture : cap'[k] # "none" => Release(c, f, {})[k] # "none"
  BY <1>1, TrackKeeps DEF Change
<1> QED
  BY <1>2, CommitWanted DEF Change

(* A step that leaves the switches alone and captures nothing more.        *)
LEMMA QuietWanted ==
    ASSUME CaptureInv, UNCHANGED <<part, conn, flag, swapped>>,
           \A k \in Capture : cap'[k] # "none" => cap[k] # "none",
           \A k \in AskKind \ {"live"} : ask'[k].live => ask[k].live,
           starting \/ crossed => \/ starting' \/ crossed'
                                  \/ cap'["live"] = "none" \/ conn = "in"
    PROVE  CapturesWanted' /\ RequestsWanted'
BY DEF CaptureInv, CapturesWanted, RequestsWanted, AskKind, Capture, Want

LEMMA CaptureStep == CaptureInv /\ [MNext]_mvars => CaptureInv'
<1> SUFFICES ASSUME CaptureInv, [MNext]_mvars PROVE CapturesWanted' /\ RequestsWanted'
  BY MType DEF CaptureInv
<1> DEFINE G == CapturesWanted' /\ RequestsWanted'
<1>0. MTypeOK
  BY DEF CaptureInv
<1> USE DEF switches, calls, captures, keys, ghosts
<1>1. CASE UNCHANGED mvars
  BY <1>1, QuietWanted DEF mvars
<1>2. CASE Join \/ JoinFails
  <2>1. /\ conn # "in" /\ conn' # "in"
        /\ UNCHANGED <<part, flag, ask, cap, swapped, starting>>
        /\ crossed => crossed'
    BY <1>0, <1>2 DEF Join, JoinFails, MTypeOK
  <2> QED
    BY <2>1 DEF CaptureInv, CapturesWanted, RequestsWanted, Want
<1>3. CASE Joined
  <2>1. AllOff \in [Switch -> BOOLEAN]
    BY DEF AllOff
  <2> QED
    BY <1>3, <2>1, ChangeWanted DEF Joined
<1>4. CASE Leave
  <2>1. AllOff \in [Switch -> BOOLEAN]
    BY DEF AllOff
  <2> QED
    BY <1>4, <2>1, ChangeWanted DEF Leave
<1>5. ASSUME NEW s \in Switch, Turn(s) PROVE G
  <2>1. [flag EXCEPT ![s] = ~flag[s]] \in [Switch -> BOOLEAN]
        /\ conn \in {"out", "joining", "in"}
    BY <1>0 DEF MTypeOK
  <2> QED
    BY <1>5, <2>1, ChangeWanted DEF Turn
<1>6. ASSUME NEW s \in Switch, TurnBack(s) PROVE G
  <2>1. CASE ~Turn(s)
    <3>1. UNCHANGED <<part, conn, flag, swapped, ask, cap, starting, crossed>>
      BY <1>6, <2>1 DEF TurnBack
    <3> QED
      BY <3>1, QuietWanted
  <2> QED
    BY <1>5, <2>1
<1>7. ASSUME NEW c \in call, ToggleEnds(c) PROVE G
  <2> DEFINE f == IF c.at = "ok" THEN flag ELSE [flag EXCEPT ![c.s] = ~c.to]
  <2>1. f \in [Switch -> BOOLEAN] /\ conn \in {"out", "joining", "in"}
    BY <1>0 DEF MTypeOK, Call
  <2>2. Change(conn, f)
    BY <1>7 DEF ToggleEnds
  <2> HIDE DEF f
  <2> QED
    BY <2>1, <2>2, ChangeWanted
<1>8. CASE \/ LeaveEnds \/ \E c \in call : ToggleServed(c)
  <2>1. UNCHANGED <<part, conn, flag, swapped, ask, cap, starting>> /\ (crossed => crossed')
    BY <1>8 DEF LeaveEnds, ToggleServed
  <2> QED
    BY <2>1, QuietWanted
<1>9. ASSUME NEW k \in Capture, ChooseDevice(k) PROVE G
  <2>1. /\ {k} \in SUBSET Capture /\ flag \in [Switch -> BOOLEAN]
        /\ conn \in {"out", "joining", "in"}
    BY <1>0 DEF MTypeOK
  <2>2. /\ Commit(conn, flag, {k}) /\ UNCHANGED part
        /\ cap' = Release(conn, flag, {k})
    BY <1>9 DEF ChooseDevice
  <2> QED
    BY <2>1, <2>2, CommitWanted
<1>10. ASSUME NEW k \in AskKind, Granted(k) PROVE G
  <2>0. ask \in [AskKind -> [live : BOOLEAN, dead : Nat]]
        /\ cap \in [Capture -> {"none", "on", "off"}]
        /\ UNCHANGED <<part, conn, flag, swapped, crossed>>
    BY <1>0, <1>10 DEF MTypeOK, Granted
  <2>1. CASE ask[k].live /\ ask' = [ask EXCEPT ![k].live = FALSE]
             /\ cap' = [cap EXCEPT ![IF k = "swap" THEN "camera" ELSE k] = "on"]
             /\ starting' = (starting \/ k = "live")
    <3>1. \A i \in AskKind : ask'[i].live => ask[i].live
      BY <2>0, <2>1
    <3>2. RequestsWanted'
      BY <2>0, <3>1 DEF CaptureInv, RequestsWanted, AskKind, Capture, Want
    <3>3. \A i \in Capture :
             cap'[i] # "none" => \/ cap[i] # "none" \/ i = k
                                 \/ i = "camera" /\ k = "swap"
      BY <2>0, <2>1
    <3>4. CapturesWanted'
      BY <2>0, <2>1, <3>3 DEF CaptureInv, CapturesWanted, RequestsWanted, Capture, Want
    <3> QED
      BY <3>2, <3>4
  <2>2. CASE ask' = [ask EXCEPT ![k].dead = @ - 1] /\ UNCHANGED <<cap, starting>>
    <3>1. \A i \in AskKind : ask'[i].live => ask[i].live
      BY <2>0, <2>2
    <3> QED
      BY <2>0, <2>2, <3>1, QuietWanted
  <2> QED
    BY <1>10, <2>1, <2>2 DEF Granted
<1>11. ASSUME NEW k \in AskKind, Denied(k) PROVE G
  <2>1. \A i \in AskKind : ask'[i].live => ask[i].live
    BY <1>0, <1>11 DEF Denied, Forget, MTypeOK
  <2>2. UNCHANGED <<part, conn, flag, swapped, crossed, cap, starting>>
    BY <1>11 DEF Denied
  <2> QED
    BY <2>1, <2>2, QuietWanted
<1>12. CASE Press \/ KeyUp \/ Blur \/ Focus \/ \E p, b \in BOOLEAN : Settings(p, b)
  <2>1. \/ UNCHANGED cap
        \/ \E p, h : cap' = SetTrack(cap, flag, p, h)
    BY <1>12 DEF Press, KeyUp, Blur, ReleaseKey, Focus, Settings
  <2>2. \A k \in Capture : cap'[k] # "none" => cap[k] # "none"
    BY <1>0, <2>1, TrackKeeps DEF MTypeOK
  <2>3. UNCHANGED <<part, conn, flag, swapped, crossed, ask, starting>>
    BY <1>12 DEF Press, KeyUp, Blur, ReleaseKey, Focus, Settings
  <2> QED
    BY <2>2, <2>3, QuietWanted
<1>13. CASE ScreenEnds \/ StartBroadcast \/ BroadcastStarts \/ StopBroadcast
  <2>1. UNCHANGED <<part, conn, flag, swapped>>
    BY <1>13 DEF ScreenEnds, StartBroadcast, BroadcastStarts, StopBroadcast
  <2>2. \A k \in Capture : cap'[k] # "none" => cap[k] # "none"
    BY <1>0, <1>13 DEF ScreenEnds, StartBroadcast, BroadcastStarts, StopBroadcast, MTypeOK
  <2>3. \A k \in AskKind \ {"live"} : ask'[k].live => ask[k].live
    BY <1>0, <1>13 DEF ScreenEnds, StartBroadcast, BroadcastStarts, StopBroadcast, MTypeOK
  <2>4. starting \/ crossed => \/ starting' \/ crossed'
                               \/ cap'["live"] = "none" \/ conn = "in"
    BY <1>0, <1>13 DEF ScreenEnds, StartBroadcast, BroadcastStarts, StopBroadcast, MTypeOK,
                       CaptureInv, CapturesWanted, Capture
  <2> QED
    BY <2>1, <2>2, <2>3, <2>4, QuietWanted
<1> QED
  BY <1>1, <1>2, <1>3, <1>4, <1>5, <1>6, <1>7, <1>8, <1>9, <1>10, <1>11, <1>12, <1>13
     DEF MNext, Toggle

(* However late the browser grants a capture, and whatever was switched,   *)
(* chosen or left meanwhile: nothing is captured that is not wanted.       *)
THEOREM NothingUnwanted == MSpec => []CapturesWanted
<1>1. MInit => CaptureInv
  <2> SUFFICES ASSUME MInit PROVE CaptureInv
    OBVIOUS
  <2>1. \A k \in Capture : cap[k] = "none"
    BY DEF MInit
  <2>2. \A k \in AskKind : ~ask[k].live
    BY DEF MInit
  <2> QED
    BY <2>1, <2>2, MInitType DEF CaptureInv, CapturesWanted, RequestsWanted, AskKind, Capture
<1>2. CaptureInv => CapturesWanted
  BY DEF CaptureInv
<1> QED
  BY <1>1, <1>2, CaptureStep, PTL DEF MSpec

-----------------------------------------------------------------------------
(* Calls that have crossed stay crossed. *)
LEMMA CrossedStays ==
    ASSUME MTypeOK, [MNext]_mvars, crossed
    PROVE  crossed'
<1> USE DEF switches, calls, captures, keys, ghosts
<1>1. CASE UNCHANGED crossed
  BY <1>1
<1>2. CASE Join \/ Leave \/ LeaveEnds
  BY <1>2 DEF Join, Leave, LeaveEnds, MTypeOK
<1>3. ASSUME NEW s \in Switch, Turn(s) PROVE crossed'
  BY <1>3 DEF Turn, MTypeOK
<1>4. ASSUME NEW c \in call, ToggleServed(c) PROVE crossed'
  BY <1>4 DEF ToggleServed, MTypeOK
<1>5. CASE BroadcastStarts
  BY <1>5 DEF BroadcastStarts, MTypeOK
<1> QED
  BY <1>1, <1>2, <1>3, <1>4, <1>5
     DEF MNext, mvars, Joined, JoinFails, Toggle, TurnBack, ToggleEnds, ChooseDevice,
         Granted, Denied, ScreenEnds, Press, KeyUp, Blur, ReleaseKey, Focus, Settings,
         StartBroadcast, StopBroadcast

LEMMA TurnAlone ==
    ASSUME MTypeOK, CallsAlone, conn = "in", NEW s \in Switch, Turn(s), ~crossed',
           UNCHANGED <<leaving, row>>
    PROVE  CallsAlone'
<1> DEFINE n == [s |-> s, to |-> ~flag[s], at |-> "sent"]
<1>1. /\ n.s = s /\ n.to = ~flag[s] /\ n.at = "sent"
      /\ call' = call \cup {n}
  BY DEF Turn
<1> HIDE DEF n
<1>2. /\ conn' = conn /\ flag' = [flag EXCEPT ![s] = ~flag[s]]
      /\ flag \in [Switch -> BOOLEAN] /\ row \in [Switch -> BOOLEAN]
      /\ row # NoSwitches /\ ~leaving
  BY DEF Turn, Change, Commit, MTypeOK, CallsAlone
<1>3. \A d \in call : d.s # s /\ d.s \in Switch
  BY DEF Turn, MTypeOK, Call
<1>4. flag[s] = row[s] /\ flag'[s] = ~flag[s]
      /\ \A r \in Switch : r # s => flag'[r] = flag[r]
  BY <1>2, <1>3 DEF CallsAlone
<1>5. ~leaving' /\ conn' = "in" /\ row' # NoSwitches
  BY <1>2
<1>6. \A c, d \in call' : c.s = d.s => c = d
  BY <1>1, <1>3 DEF CallsAlone
<1>7. ASSUME NEW c \in call'
      PROVE  flag'[c.s] = c.to /\ row'[c.s] = (IF c.at = "ok" THEN c.to ELSE ~c.to)
  <2>1. CASE c = n
    BY <1>1, <1>2, <1>4, <2>1
  <2>2. CASE c # n
    <3>1. c \in call /\ c.s # s /\ c.s \in Switch
      BY <1>1, <1>3, <2>2
    <3> QED
      BY <1>4, <3>1 DEF CallsAlone
  <2> QED
    BY <2>1, <2>2
<1>8. ASSUME NEW r \in Switch, \A c \in call' : c.s # r
      PROVE  flag'[r] = row'[r]
  <2>1. r # s /\ \A c \in call : c.s # r
    BY <1>1, <1>8
  <2> QED
    BY <1>4, <2>1 DEF CallsAlone
<1> QED
  BY <1>5, <1>6, <1>7, <1>8 DEF CallsAlone

(* The server answers a call of which it has not lost the answer.          *)
LEMMA ServedAlone ==
    ASSUME MTypeOK, CallsAlone, NEW c \in call, ToggleServed(c), ~crossed, ~crossed'
    PROVE  CallsAlone'
<1>0. conn = "in" /\ c.at = "sent" /\ c \in Call /\ c.s \in Switch /\ c.to \in BOOLEAN
  BY DEF CallsAlone, MTypeOK, Call, ToggleServed
<1>1. PICK end \in {"ok", "failed"} :
         /\ call' = (call \ {c}) \cup {[c EXCEPT !.at = end]}
         /\ row' = IF end = "ok" THEN [row EXCEPT ![c.s] = c.to] ELSE row
  BY DEF ToggleServed, Ends
<1> DEFINE n == [c EXCEPT !.at = end]
<1>2. n.s = c.s /\ n.to = c.to /\ n.at = end
  BY <1>0 DEF Call
<1> HIDE DEF n
<1>3. UNCHANGED <<conn, leaving, flag>>
  BY DEF ToggleServed, switches
<1>4. /\ row \in [Switch -> BOOLEAN] /\ row' \in [Switch -> BOOLEAN] /\ row' # NoSwitches
      /\ row'[c.s] = (IF end = "ok" THEN c.to ELSE row[c.s])
      /\ \A r \in Switch : r # c.s => row'[r] = row[r]
  <2>1. row \in [Switch -> BOOLEAN] /\ row # NoSwitches
    BY <1>0 DEF MTypeOK, CallsAlone
  <2>2. row' # NoSwitches
    <3>1. row'[c.s] \in BOOLEAN /\ (end = "ok" => DOMAIN row' = Switch)
      BY <1>0, <1>1, <2>1
    <3>2. end = "ok" => row' # NoSwitches
      BY <3>1 DEF Switch, NoSwitches
    <3> QED
      BY <1>1, <2>1, <3>2
  <2> QED
    BY <1>0, <1>1, <2>1, <2>2
<1>5. \A d \in call \ {c} : d.s # c.s /\ d.s \in Switch
  BY <1>0 DEF CallsAlone, MTypeOK, Call
<1>6. \A d, e \in call' : d.s = e.s => d = e
  <2>1. call' = (call \ {c}) \cup {n}
    BY <1>1 DEF n
  <2> QED
    BY <1>0, <1>2, <1>5, <2>1 DEF CallsAlone
<1>7. ASSUME NEW d \in call'
      PROVE  flag[d.s] = d.to /\ row'[d.s] = (IF d.at = "ok" THEN d.to ELSE ~d.to)
  <2>1. CASE d = n
    BY <1>0, <1>2, <1>4, <2>1 DEF CallsAlone
  <2>2. CASE d # n
    <3>1. d \in call \ {c}
      BY <1>1, <2>2 DEF n
    <3> QED
      BY <1>0, <1>4, <1>5, <3>1 DEF CallsAlone
  <2> QED
    BY <2>1, <2>2
<1>8. ASSUME NEW r \in Switch, \A d \in call' : d.s # r
      PROVE  flag[r] = row'[r]
  <2>1. n \in call'
    BY <1>1 DEF n
  <2>2. r # c.s
    BY <1>2, <1>8, <2>1
  <2>3. \A d \in call : d.s # r
    BY <1>1, <1>8, <2>2
  <2> QED
    BY <1>0, <1>4, <2>2, <2>3 DEF CallsAlone
<1> QED
  BY <1>0, <1>3, <1>4, <1>6, <1>7, <1>8 DEF CallsAlone

(* A call that ends: after a failure the switch is turned back.            *)
LEMMA EndedAlone ==
    ASSUME MTypeOK, CallsAlone, NEW c \in call, ToggleEnds(c)
    PROVE  CallsAlone'
<1> DEFINE f == IF c.at = "ok" THEN flag ELSE [flag EXCEPT ![c.s] = ~c.to]
<1>0. conn = "in" /\ c \in Call /\ c.s \in Switch /\ c.to \in BOOLEAN /\ row # NoSwitches
  BY DEF CallsAlone, MTypeOK, Call
<1>1. /\ call' = call \ {c} /\ conn' = conn /\ flag' = f
      /\ UNCHANGED <<leaving, row>>
  BY DEF ToggleEnds, Change, Commit
<1>2. /\ f[c.s] = row[c.s]
      /\ \A r \in Switch : r # c.s => f[r] = flag[r]
  <2>1. /\ flag \in [Switch -> BOOLEAN] /\ flag[c.s] = c.to
        /\ row[c.s] = (IF c.at = "ok" THEN c.to ELSE ~c.to)
    BY <1>0 DEF MTypeOK, CallsAlone
  <2>2. CASE c.at = "ok"
    BY <2>1, <2>2
  <2>3. CASE c.at # "ok"
    BY <1>0, <2>1, <2>3
  <2> QED
    BY <2>2, <2>3
<1> HIDE DEF f
<1>3. \A d \in call' : d.s # c.s /\ d.s \in Switch
  BY <1>0, <1>1 DEF CallsAlone, MTypeOK, Call
<1>4. \A d \in call' : flag'[d.s] = d.to /\ row'[d.s] = (IF d.at = "ok" THEN d.to ELSE ~d.to)
  BY <1>0, <1>1, <1>2, <1>3 DEF CallsAlone
<1>5. ASSUME NEW r \in Switch, \A d \in call' : d.s # r
      PROVE  flag'[r] = row'[r]
  BY <1>0, <1>1, <1>2, <1>5 DEF CallsAlone
<1> QED
  BY <1>0, <1>1, <1>4, <1>5 DEF CallsAlone

LEMMA SwitchStep == SwitchInv /\ [MNext]_mvars => SwitchInv'
<1> SUFFICES ASSUME SwitchInv, [MNext]_mvars, ~crossed' PROVE CallsAlone'
  BY MType DEF SwitchInv
<1>0. MTypeOK /\ ~crossed /\ CallsAlone
  BY CrossedStays DEF SwitchInv
<1> USE DEF switches, calls, captures, keys, ghosts
<1>1. CASE UNCHANGED <<conn, leaving, flag, row, call>>
  BY <1>0, <1>1 DEF CallsAlone
<1>2. CASE Join
  BY <1>0, <1>2 DEF Join, CallsAlone, MTypeOK
<1>3. CASE Joined
  <2>1. /\ conn = "joining" /\ conn' = "in" /\ flag' = AllOff /\ row' = AllOff
        /\ UNCHANGED <<leaving, call>>
    BY <1>3 DEF Joined, Change, Commit
  <2>2. AllOff # NoSwitches
    <3>1. DOMAIN AllOff = Switch
      BY DEF AllOff
    <3> QED
      BY <3>1 DEF Switch, NoSwitches
  <2> QED
    BY <1>0, <2>1, <2>2 DEF CallsAlone
<1>4. CASE JoinFails
  BY <1>0, <1>4 DEF JoinFails, CallsAlone
<1>5. CASE Leave
  <2>1. conn' = "out" /\ UNCHANGED call /\ call = {}
    BY <1>0, <1>5 DEF Leave, Change, Commit, MTypeOK
  <2> QED
    BY <2>1 DEF CallsAlone
<1>6. CASE LeaveEnds
  <2>1. conn = "out" /\ UNCHANGED <<conn, call>>
    BY <1>0, <1>6 DEF LeaveEnds, CallsAlone
  <2> QED
    BY <1>0, <2>1 DEF CallsAlone
<1>7. ASSUME NEW s \in Switch, Toggle(s) PROVE CallsAlone'
  BY <1>0, <1>7, TurnAlone DEF Toggle
<1>8. ASSUME NEW s \in Switch, TurnBack(s) PROVE CallsAlone'
  <2>1. CASE flag[s] /\ conn = "in"
    <3>1. Turn(s) /\ UNCHANGED <<leaving, row>>
      BY <1>8, <2>1 DEF TurnBack
    <3> QED
      BY <1>0, <2>1, <3>1, TurnAlone
  <2> QED
    BY <1>1, <1>8, <2>1 DEF TurnBack
<1>9. ASSUME NEW c \in call, ToggleServed(c) PROVE CallsAlone'
  BY <1>0, <1>9, ServedAlone
<1>10. ASSUME NEW c \in call, ToggleEnds(c) PROVE CallsAlone'
  BY <1>0, <1>10, EndedAlone
<1>11. CASE \E k \in Capture : ChooseDevice(k)
  BY <1>1, <1>11 DEF ChooseDevice, Commit
<1> QED
  BY <1>1, <1>2, <1>3, <1>4, <1>5, <1>6, <1>7, <1>8, <1>9, <1>10, <1>11
     DEF MNext, mvars, Granted, Denied, ScreenEnds, Press, KeyUp, Blur, ReleaseKey, Focus,
         Settings, StartBroadcast, BroadcastStarts, StopBroadcast

(* The store's switches, turned before the server has agreed, are those of *)
(* voice_states once all calls have ended, if no two of them overlapped    *)
(* and no answer was lost: a failure turns exactly its own switch back.    *)
THEOREM SwitchesCorrect == MSpec => []SwitchesAgree
<1>1. MInit => SwitchInv
  BY MInitType DEF MInit, SwitchInv, CallsAlone
<1>2. SwitchInv => SwitchesAgree
  <2> SUFFICES ASSUME SwitchInv, conn = "in", call = {}, ~crossed PROVE flag = row
    BY DEF SwitchesAgree
  <2>1. flag \in [Switch -> BOOLEAN] /\ row \in [Switch -> BOOLEAN]
    BY DEF SwitchInv, MTypeOK, CallsAlone
  <2>2. \A s \in Switch : flag[s] = row[s]
    BY DEF SwitchInv, CallsAlone
  <2> QED
    BY <2>1, <2>2
<1> QED
  BY <1>1, <1>2, SwitchStep, PTL DEF MSpec


-----------------------------------------------------------------------------
(* Peers: the events on their way.                                         *)

About(e, p) == e.type = "state" /\ e.from = p
IsSig(e, p) == e.type # "state" /\ e.from = p

(* Of the events s on their way to a client and a user p: s says nothing   *)
(* of p being in the channel or not; what it says last is so; and an offer *)
(* of p after which it says nothing was made by somebody still there.      *)
Silent(s, p) == \A i \in DOMAIN s : ~About(s[i], p)
LastSays(s, p, here) == \A i \in DOMAIN s :
    About(s[i], p) /\ (\A j \in DOMAIN s : j > i => ~About(s[j], p))
      => (s[i].in <=> p \in here)
OffersStand(s, p, here) == \A i \in DOMAIN s :
    s[i].type = "offer" /\ s[i].from = p
      /\ (\A j \in DOMAIN s : j > i => ~About(s[j], p)) => p \in here

(* No signal of p; not the news that p has left; the only signal of p,     *)
(* which nothing about p follows; an answer, then an offer; and an offer   *)
(* as the first signal of p.                                               *)
Free(s, p) == \A i \in DOMAIN s : ~IsSig(s[i], p)
NoOut(s, p) == \A i \in DOMAIN s : s[i] # State(p, FALSE)
One(s, p, type, n) == \E i \in DOMAIN s :
    /\ s[i] = Signal(type, p, n)
    /\ \A j \in DOMAIN s : j # i => ~IsSig(s[j], p)
    /\ \A j \in DOMAIN s : j > i => s[j].from # p
Two(s, p, n, m) == \E i, k \in DOMAIN s :
    /\ i < k /\ s[i] = Signal("answer", p, n) /\ s[k] = Signal("offer", p, m)
    /\ \A j \in DOMAIN s : j # i /\ j # k => ~IsSig(s[j], p)
    /\ \A j \in DOMAIN s : j > k => s[j].from # p
FirstOffer(s, p) == \E i \in DOMAIN s :
    /\ IsSig(s[i], p) /\ s[i].type = "offer"
    /\ \A j \in DOMAIN s : j < i => ~IsSig(s[j], p)

Events == {e \in [type : {"state", "offer", "answer"}, from : User,
                  in : BOOLEAN, n : Nat] : e.type = "state" => e.n = 0}
PcType == [sig : {"none", "offered", "stable"}, offer : Nat, link : Nat]

-----------------------------------------------------------------------------
(* A queue with one event more, and with one event less.                   *)
LEMMA Longer ==
    ASSUME NEW S, NEW s \in Seq(S), NEW e \in S
    PROVE  /\ Append(s, e) \in Seq(S) /\ Append(s, e) # <<>>
           /\ DOMAIN Append(s, e) = DOMAIN s \cup {Len(s) + 1}
           /\ Append(s, e)[Len(s) + 1] = e
           /\ \A i \in DOMAIN s : /\ i \in Nat /\ i < Len(s) + 1
                                  /\ Append(s, e)[i] = s[i]
           /\ Len(s) + 1 \in Nat
  OBVIOUS

LEMMA Shorter ==
    ASSUME NEW S, NEW s \in Seq(S), s # <<>>
    PROVE  /\ Tail(s) \in Seq(S) /\ Head(s) \in S /\ Head(s) = s[1] /\ 1 \in DOMAIN s
           /\ \A i \in DOMAIN Tail(s) : /\ i \in Nat /\ i > 0 /\ i + 1 \in DOMAIN s
                                        /\ Tail(s)[i] = s[i + 1]
           /\ \A i \in DOMAIN s : /\ i \in Nat /\ i > 0
                                  /\ i # 1 => /\ i - 1 \in DOMAIN Tail(s)
                                              /\ Tail(s)[i - 1] = s[i]
  OBVIOUS

(* What is on the way says that p came or left, and that is so.            *)
LEMMA NewsOf ==
    ASSUME NEW s \in Seq(Events), NEW p \in User, NEW here, NEW e \in Events,
           About(e, p), e.in <=> p \in here
    PROVE  /\ LastSays(Append(s, e), p, here) /\ OffersStand(Append(s, e), p, here)
           /\ ~Silent(Append(s, e), p)
<1> DEFINE t == Append(s, e)
           l == Len(s) + 1
<1>1. /\ DOMAIN t = DOMAIN s \cup {l} /\ t[l] = e
      /\ \A i \in DOMAIN s : i < l /\ t[i] = s[i]
  BY Longer
<1> HIDE DEF t, l
<1>2. About(t[l], p) /\ l \in DOMAIN t
  BY <1>1
<1>3. ~Silent(t, p)
  BY <1>2 DEF Silent
<1>4. LastSays(t, p, here)
  BY <1>1, <1>2 DEF LastSays
<1>5. OffersStand(t, p, here)
  BY <1>1, <1>2 DEF OffersStand, About
<1> QED
  BY <1>3, <1>4, <1>5 DEF t

LEMMA OtherNews ==
    ASSUME NEW s \in Seq(Events), NEW p \in User, NEW here, NEW now,
           p \in now <=> p \in here, NEW e \in Events, ~About(e, p),
           e.type = "offer" /\ e.from = p => p \in here,
           LastSays(s, p, here), OffersStand(s, p, here)
    PROVE  /\ LastSays(Append(s, e), p, now) /\ OffersStand(Append(s, e), p, now)
           /\ Silent(Append(s, e), p) <=> Silent(s, p)
<1> DEFINE t == Append(s, e)
           l == Len(s) + 1
<1>1. /\ DOMAIN t = DOMAIN s \cup {l} /\ t[l] = e
      /\ \A i \in DOMAIN s : i < l /\ t[i] = s[i]
  BY Longer
<1> HIDE DEF t, l
<1>2. Silent(t, p) <=> Silent(s, p)
  BY <1>1 DEF Silent
<1>3. LastSays(t, p, now)
  BY <1>1 DEF LastSays
<1>4. OffersStand(t, p, now)
  BY <1>1 DEF OffersStand
<1> QED
  BY <1>2, <1>3, <1>4 DEF t

LEMMA NewsTaken ==
    ASSUME NEW s \in Seq(Events), s # <<>>, NEW p \in User, NEW here,
           LastSays(s, p, here), OffersStand(s, p, here)
    PROVE  /\ LastSays(Tail(s), p, here) /\ OffersStand(Tail(s), p, here)
           /\ Silent(s, p) <=> ~About(Head(s), p) /\ Silent(Tail(s), p)
           /\ Silent(Tail(s), p) /\ About(Head(s), p) => (Head(s).in <=> p \in here)
           /\ Silent(Tail(s), p) /\ Head(s).type = "offer" /\ Head(s).from = p
                => p \in here
<1> DEFINE t == Tail(s)
<1>1. /\ Head(s) = s[1] /\ 1 \in DOMAIN s
      /\ \A i \in DOMAIN t : i \in Nat /\ i + 1 \in DOMAIN s /\ t[i] = s[i + 1]
      /\ \A i \in DOMAIN s : /\ i \in Nat /\ i > 0
                             /\ i # 1 => i - 1 \in DOMAIN t /\ t[i - 1] = s[i]
  BY Shorter
<1> HIDE DEF t
<1>2. ASSUME NEW i \in DOMAIN t, \A j \in DOMAIN t : j > i => ~About(t[j], p)
      PROVE  \A j \in DOMAIN s : j > i + 1 => ~About(s[j], p)
  <2>1. ASSUME NEW j \in DOMAIN s, j > i + 1 PROVE ~About(s[j], p)
    <3>1. j - 1 \in DOMAIN t /\ t[j - 1] = s[j] /\ j - 1 > i
      BY <1>1, <2>1
    <3> QED
      BY <1>2, <3>1
  <2> QED
    BY <2>1
<1>3. LastSays(t, p, here)
  BY <1>1, <1>2 DEF LastSays
<1>4. OffersStand(t, p, here)
  BY <1>1, <1>2 DEF OffersStand
<1>5. Silent(s, p) <=> ~About(Head(s), p) /\ Silent(t, p)
  BY <1>1 DEF Silent
<1>6. ASSUME Silent(t, p) PROVE \A j \in DOMAIN s : j > 1 => ~About(s[j], p)
  BY <1>1, <1>6 DEF Silent
<1>7. Silent(t, p) /\ About(Head(s), p) => (Head(s).in <=> p \in here)
  BY <1>1, <1>6 DEF LastSays
<1>8. Silent(t, p) /\ Head(s).type = "offer" /\ Head(s).from = p => p \in here
  BY <1>1, <1>6 DEF OffersStand
<1> QED
  BY <1>3, <1>4, <1>5, <1>7, <1>8 DEF t

-----------------------------------------------------------------------------
WTypeOK ==
    /\ present \in SUBSET User
    /\ at \in [User -> Steps]
    /\ snap \in [User -> (SUBSET User) \cup {NoList}]
    /\ list \in [User -> SUBSET User]
    /\ offered \in [User -> SUBSET User]
    /\ pc \in [User -> [User -> PcType]]
    /\ ready \in [User -> SUBSET User]
    /\ inbox \in [User -> Seq(Events)]
    /\ offers \in Nat /\ upset \in SUBSET User

(* Where a client stands, whether it has a list to take over, and whether  *)
(* the server has it in the channel; it gets no signals of its own.        *)
Here(u) ==
    /\ snap[u] = NoList <=> at[u] \notin {"listing", "relisting"}
    /\ at[u] \in {"joined", "listing", "in", "leaving"} => u \in present
    /\ at[u] \in {"out", "left", "relisting"} => u \notin present
    /\ Free(inbox[u], u)

(* What client u makes of user p: if nothing about p is on its way to u,   *)
(* the list is right about p, the list to take over is, and a connection   *)
(* leads to somebody who is there.                                         *)
Told(u, p) ==
    /\ LastSays(inbox[u], p, present) /\ OffersStand(inbox[u], p, present)
    /\ u \notin upset /\ Silent(inbox[u], p) =>
         /\ p \in list[u] <=> p \in present
         /\ snap[u] # NoList => (p \in snap[u] <=> p \in present)
         /\ pc[u][p] # NoPc => p \in present

TInv == /\ WTypeOK /\ \A u \in User : Here(u)
        /\ \A u, p \in User : Told(u, p)

-----------------------------------------------------------------------------
(* What the operators of the model return.                                 *)
LEMMA TellIs ==
    ASSUME NEW box \in [User -> Seq(Events)], NEW users, NEW e \in Events
    PROVE  /\ Tell(box, users, e) \in [User -> Seq(Events)]
           /\ \A v \in User : Tell(box, users, e)[v] =
                               IF v \in users THEN Append(box[v], e) ELSE box[v]
  BY DEF Tell

LEMMA RelayIs ==
    ASSUME NEW box \in [User -> Seq(Events)], NEW u \in User, NEW users,
           NEW e \in Events
    PROVE  /\ Relay(box, u, users, e) \in [User -> Seq(Events)]
           /\ \A v \in User : Relay(box, u, users, e)[v] =
                 IF u \in present /\ v \in users /\ v \in present
                 THEN Append(box[v], e) ELSE box[v]
  BY TellIs DEF Relay

LEMMA TakenIs ==
    ASSUME WTypeOK, NEW u \in User, inbox[u] # <<>>
    PROVE  /\ Taken(u) \in [User -> Seq(Events)] /\ Taken(u)[u] = Tail(inbox[u])
           /\ \A v \in User : v # u => Taken(u)[v] = inbox[v]
<1>1. Tail(inbox[u]) \in Seq(Events)
  BY Shorter DEF WTypeOK
<1> QED
  BY <1>1 DEF Taken, WTypeOK

LEMMA EventsAre ==
    ASSUME NEW u \in User, NEW n \in Nat
    PROVE  /\ \A b \in BOOLEAN : State(u, b) \in Events /\ About(State(u, b), u)
                                /\ State(u, b).in = b /\ State(u, b).type = "state"
                                /\ State(u, b).from = u
           /\ \A t \in {"offer", "answer"} :
                  /\ Signal(t, u, n) \in Events /\ Signal(t, u, n).type = t
                  /\ Signal(t, u, n).from = u /\ Signal(t, u, n).n = n
  BY DEF State, Signal, Events, About

LEMMA KeepIs ==
    ASSUME NEW u \in User, NEW users, NEW pcs \in [User -> [User -> PcType]]
    PROVE  /\ Keep(u, pcs, users) \in [User -> [User -> PcType]]
           /\ \A p \in User : Keep(u, pcs, users)[u][p] =
                               IF p \in users THEN pcs[u][p] ELSE NoPc
           /\ \A v \in User : v # u => Keep(u, pcs, users)[v] = pcs[v]
<1>1. NoPc \in PcType
  BY DEF NoPc, PcType
<1> QED
  BY <1>1 DEF Keep

LEMMA OfferingIs ==
    ASSUME WTypeOK, NEW u \in User, NEW users \in SUBSET User
    PROVE  /\ Offering(u, users, pc) \in [User -> [User -> PcType]]
           /\ \A p \in User : IF p \in users
                 THEN /\ Offering(u, users, pc)[u][p].sig = "offered"
                      /\ Offering(u, users, pc)[u][p].offer = offers + 1
                      /\ Offering(u, users, pc)[u][p].link = pc[u][p].link
                 ELSE Offering(u, users, pc)[u][p] = pc[u][p]
           /\ \A v \in User : v # u => Offering(u, users, pc)[v] = pc[v]
<1> DEFINE old(p) == [pc[u][p] EXCEPT !.sig = "offered"]
           new(p) == [old(p) EXCEPT !.offer = offers + 1]
<1>0. offers + 1 \in Nat /\ \A p \in User : pc[u][p] \in PcType
  BY DEF WTypeOK
<1>1. ASSUME NEW p \in User
      PROVE  /\ new(p) \in PcType /\ new(p).sig = "offered"
             /\ new(p).offer = offers + 1 /\ new(p).link = pc[u][p].link
  <2>1. /\ old(p) \in PcType /\ old(p).sig = "offered"
        /\ old(p).link = pc[u][p].link
    BY <1>0 DEF PcType
  <2> HIDE DEF old
  <2> QED
    BY <1>0, <2>1 DEF PcType
<1>2. Offering(u, users, pc) = [pc EXCEPT ![u] =
           [p \in User |-> IF p \in users THEN new(p) ELSE pc[u][p]]]
  BY DEF Offering
<1> HIDE DEF new
<1> QED
  BY <1>1, <1>2 DEF WTypeOK

-----------------------------------------------------------------------------
(* What a step leaves alone between u and p keeps u told about p.          *)
LEMMA ToldKeeps ==
    ASSUME WTypeOK, NEW u \in User, NEW p \in User, Told(u, p),
           \/ inbox'[u] = inbox[u]
           \/ \E e \in Events : /\ inbox'[u] = Append(inbox[u], e) /\ ~About(e, p)
                                /\ e.type = "offer" /\ e.from = p => p \in present,
           p \in present' <=> p \in present, upset \subseteq upset',
           p \in list'[u] <=> p \in list[u],
           snap'[u] = snap[u] \/ snap'[u] = NoList,
           pc'[u][p] # NoPc => pc[u][p] # NoPc
    PROVE  Told(u, p)'
<1>1. inbox[u] \in Seq(Events)
  BY DEF WTypeOK
<1>2. /\ LastSays(inbox'[u], p, present') /\ OffersStand(inbox'[u], p, present')
      /\ Silent(inbox'[u], p) <=> Silent(inbox[u], p)
  <2>1. CASE inbox'[u] = inbox[u]
    BY <2>1 DEF Told, LastSays, OffersStand
  <2>2. CASE inbox'[u] # inbox[u]
    <3>1. PICK e \in Events :
             /\ inbox'[u] = Append(inbox[u], e) /\ ~About(e, p)
             /\ e.type = "offer" /\ e.from = p => p \in present
      BY <2>2
    <3> QED
      BY <1>1, <3>1, OtherNews DEF Told
  <2> QED
    BY <2>1, <2>2
<1> QED
  BY <1>2 DEF Told

(* A user comes or goes, and everybody is told so.                         *)
LEMMA ComeOrGo ==
    ASSUME TInv, NEW w \in User, NEW b \in BOOLEAN,
           present' = IF b THEN present \cup {w} ELSE present \ {w},
           inbox' = Tell(inbox, User, State(w, b)),
           UNCHANGED <<lists, peers, offers, upset>>
    PROVE  /\ inbox' \in [User -> Seq(Events)]
           /\ \A u \in User : Free(inbox'[u], u)
           /\ \A u, p \in User : Told(u, p)'
<1>0. PICK e \in Events : /\ e = State(w, b) /\ About(e, w) /\ (e.in <=> b)
                         /\ e.type = "state" /\ e.from = w
  <2>1. State(w, b) \in Events
    BY EventsAre
  <2> QED
    BY <2>1 DEF State, About
<1>1. inbox \in [User -> Seq(Events)] /\ \A u \in User : inbox[u] \in Seq(Events)
  BY DEF TInv, WTypeOK
<1>2. inbox' = Tell(inbox, User, e)
  BY <1>0
<1>3. /\ inbox' \in [User -> Seq(Events)]
      /\ \A u \in User : inbox'[u] = Append(inbox[u], e)
  <2>1. \A u \in User : Append(inbox[u], e) \in Seq(Events)
    BY <1>1, Longer
  <2>2. inbox' = [u \in User |-> Append(inbox[u], e)]
    BY <1>2 DEF Tell
  <2> QED
    BY <2>1, <2>2
<1>4. ASSUME NEW u \in User PROVE Free(inbox'[u], u)
  <2>1. ~IsSig(e, u) /\ Free(inbox[u], u)
    BY <1>0 DEF IsSig, TInv, Here
  <2>2. /\ DOMAIN Append(inbox[u], e) = DOMAIN inbox[u] \cup {Len(inbox[u]) + 1}
        /\ Append(inbox[u], e)[Len(inbox[u]) + 1] = e
        /\ \A i \in DOMAIN inbox[u] : Append(inbox[u], e)[i] = inbox[u][i]
    BY <1>1, Longer
  <2> QED
    BY <1>3, <2>1, <2>2 DEF Free
<1>5. ASSUME NEW u \in User, NEW p \in User PROVE Told(u, p)'
  <2>1. CASE p = w
    <3>1. About(e, p) /\ (e.in <=> p \in present')
      BY <1>0, <2>1
    <3>2. PICK s \in Seq(Events) : s = inbox[u]
      BY <1>1
    <3>3. /\ LastSays(Append(s, e), p, present') /\ OffersStand(Append(s, e), p, present')
          /\ ~Silent(Append(s, e), p)
      BY <3>1, NewsOf
    <3>4. inbox'[u] = Append(s, e)
      BY <1>3, <3>2
    <3> QED
      BY <3>3, <3>4 DEF Told
  <2>2. CASE p # w
    <3>1. ~About(e, p) /\ e.type # "offer"
      BY <1>0, <2>2 DEF About
    <3>2. Told(u, p) /\ WTypeOK /\ (p \in present' <=> p \in present)
      BY <2>2 DEF TInv
    <3> QED
      BY <1>3, <3>1, <3>2, ToldKeeps DEF lists, peers
  <2> QED
    BY <2>1, <2>2
<1> QED
  BY <1>3, <1>4, <1>5

(* A signal of u is relayed, if at all, to others who are in the channel.  *)
LEMMA SignalSent ==
    ASSUME NEW box \in [User -> Seq(Events)], NEW u \in User,
           NEW users \in SUBSET (User \ {u}), NEW t \in {"offer", "answer"},
           NEW n \in Nat
    PROVE  /\ Signal(t, u, n) \in Events
           /\ Relay(box, u, users, Signal(t, u, n)) \in [User -> Seq(Events)]
           /\ Relay(box, u, users, Signal(t, u, n))[u] = box[u]
           /\ \A v \in User :
                \/ Relay(box, u, users, Signal(t, u, n))[v] = box[v]
                \/ /\ u \in present /\ v \in users
                   /\ Relay(box, u, users, Signal(t, u, n))[v] =
                        Append(box[v], Signal(t, u, n))
<1>1. PICK e \in Events : e = Signal(t, u, n)
  BY EventsAre
<1>2. /\ Relay(box, u, users, e) \in [User -> Seq(Events)]
      /\ \A v \in User : Relay(box, u, users, e)[v] =
            IF u \in present /\ v \in users /\ v \in present
            THEN Append(box[v], e) ELSE box[v]
  BY RelayIs
<1>3. u \notin users
  OBVIOUS
<1> QED
  BY <1>1, <1>2, <1>3

(* Nobody is sent a signal of its own; everybody else stays told.          *)
LEMMA SignalKeeps ==
    ASSUME TInv, NEW u \in User, NEW t \in {"offer", "answer"}, NEW n \in Nat,
           NEW v \in User,
           \/ inbox'[v] = inbox[v]
           \/ /\ u \in present /\ u # v
              /\ inbox'[v] = Append(inbox[v], Signal(t, u, n)),
           present' = present, upset \subseteq upset'
    PROVE  /\ Free(inbox'[v], v)
           /\ \A p \in User :
                (p \in list'[v] <=> p \in list[v])
                  /\ (snap'[v] = snap[v] \/ snap'[v] = NoList)
                  /\ (pc'[v][p] # NoPc => pc[v][p] # NoPc) => Told(v, p)'
<1>1. PICK e \in Events : e = Signal(t, u, n) /\ e.type = t /\ e.from = u
  BY EventsAre
<1>2. WTypeOK /\ inbox[v] \in Seq(Events) /\ Free(inbox[v], v)
  BY DEF TInv, WTypeOK, Here
<1>3. Free(inbox'[v], v)
  <2>1. CASE inbox'[v] = inbox[v]
    BY <1>2, <2>1 DEF Free
  <2>2. CASE inbox'[v] # inbox[v]
    <3>1. inbox'[v] = Append(inbox[v], e) /\ ~IsSig(e, v)
      BY <1>1, <2>2 DEF IsSig
    <3>2. /\ DOMAIN Append(inbox[v], e) = DOMAIN inbox[v] \cup {Len(inbox[v]) + 1}
          /\ Append(inbox[v], e)[Len(inbox[v]) + 1] = e
          /\ \A i \in DOMAIN inbox[v] : Append(inbox[v], e)[i] = inbox[v][i]
      BY <1>2, Longer
    <3> QED
      BY <1>2, <3>1, <3>2 DEF Free
  <2> QED
    BY <2>1, <2>2
<1>4. ASSUME NEW p \in User, p \in list'[v] <=> p \in list[v],
             snap'[v] = snap[v] \/ snap'[v] = NoList,
             pc'[v][p] # NoPc => pc[v][p] # NoPc
      PROVE  Told(v, p)'
  <2>1. ~About(e, p) /\ (e.type = "offer" /\ e.from = p /\ u \in present => p \in present)
    BY <1>1 DEF About
  <2>2. \/ inbox'[v] = inbox[v]
        \/ \E f \in Events : /\ inbox'[v] = Append(inbox[v], f) /\ ~About(f, p)
                             /\ f.type = "offer" /\ f.from = p => p \in present
    BY <1>1, <2>1
  <2>3. Told(v, p) /\ WTypeOK
    BY DEF TInv
  <2> QED
    BY <1>4, <2>2, <2>3, ToldKeeps
<1> QED
  BY <1>3, <1>4

(* The event that is taken is heeded.                                      *)
LEMMA ToldTaken ==
    ASSUME TInv, NEW u \in User, inbox[u] # <<>>, inbox'[u] = Tail(inbox[u]),
           present' = present, upset \subseteq upset', snap'[u] = snap[u]
    PROVE  /\ Free(inbox'[u], u)
           /\ \A p \in User :
                /\ ~About(Head(inbox[u]), p) =>
                     /\ p \in list'[u] <=> p \in list[u]
                     /\ pc'[u][p] # NoPc => \/ pc[u][p] # NoPc
                                            \/ /\ Head(inbox[u]).type = "offer"
                                               /\ Head(inbox[u]).from = p
                /\ About(Head(inbox[u]), p) =>
                     /\ p \in list'[u] <=> Head(inbox[u]).in
                     /\ ~Head(inbox[u]).in => pc'[u][p] = NoPc
                     /\ snap[u] # NoList /\ ~(Head(inbox[u]).in <=> p \in snap[u])
                          => u \in upset'
                => Told(u, p)'
<1>1. PICK s \in Seq(Events) : s = inbox[u]
  BY DEF TInv, WTypeOK
<1>2. Free(inbox'[u], u)
  <2>1. \A i \in DOMAIN Tail(s) : i + 1 \in DOMAIN s /\ Tail(s)[i] = s[i + 1]
    BY <1>1, Shorter
  <2> QED
    BY <1>1, <2>1 DEF TInv, Here, Free
<1>3. ASSUME NEW p \in User,
             ~About(Head(inbox[u]), p) =>
                 /\ p \in list'[u] <=> p \in list[u]
                 /\ pc'[u][p] # NoPc => \/ pc[u][p] # NoPc
                                        \/ /\ Head(inbox[u]).type = "offer"
                                           /\ Head(inbox[u]).from = p,
             About(Head(inbox[u]), p) =>
                 /\ p \in list'[u] <=> Head(inbox[u]).in
                 /\ ~Head(inbox[u]).in => pc'[u][p] = NoPc
                 /\ snap[u] # NoList /\ ~(Head(inbox[u]).in <=> p \in snap[u])
                      => u \in upset'
      PROVE  Told(u, p)'
  <2>1. Told(u, p)
    BY DEF TInv
  <2>2. /\ LastSays(Tail(s), p, present) /\ OffersStand(Tail(s), p, present)
        /\ Silent(s, p) <=> ~About(Head(s), p) /\ Silent(Tail(s), p)
        /\ Silent(Tail(s), p) /\ About(Head(s), p) => (Head(s).in <=> p \in present)
        /\ Silent(Tail(s), p) /\ Head(s).type = "offer" /\ Head(s).from = p
             => p \in present
    <3>1. s # <<>> /\ LastSays(s, p, present) /\ OffersStand(s, p, present)
      BY <1>1, <2>1 DEF Told
    <3> QED
      BY <3>1, NewsTaken
  <2>3. ASSUME u \notin upset', Silent(Tail(s), p)
        PROVE  /\ p \in list'[u] <=> p \in present
               /\ snap[u] # NoList => (p \in snap[u] <=> p \in present)
               /\ pc'[u][p] # NoPc => p \in present
    <3>1. CASE About(Head(s), p)
      BY <1>1, <1>3, <2>2, <2>3, <3>1
    <3>2. CASE ~About(Head(s), p)
      <4>1. /\ p \in list[u] <=> p \in present
            /\ snap[u] # NoList => (p \in snap[u] <=> p \in present)
            /\ pc[u][p] # NoPc => p \in present
        BY <1>1, <2>1, <2>2, <2>3, <3>2 DEF Told
      <4> QED
        BY <1>1, <1>3, <2>2, <2>3, <3>2, <4>1
    <3> QED
      BY <3>1, <3>2
  <2> QED
    BY <1>1, <2>2, <2>3 DEF Told
<1> QED
  BY <1>2, <1>3

-----------------------------------------------------------------------------
(* Nothing but bookkeeping is done.                                        *)
LEMMA TBookkeeping ==
    ASSUME TInv, NEW u \in User, HandleJoin(u) \/ JoinAnswered(u) \/ HandleLeave(u)
    PROVE  TInv'
<1>1. UNCHANGED <<present, lists, peers, inbox, offers, upset>>
  BY DEF HandleJoin, JoinAnswered, HandleLeave
<1>2. WTypeOK'
  BY <1>1 DEF TInv, WTypeOK, lists, peers, Steps, HandleJoin, JoinAnswered, HandleLeave
<1>3. ASSUME NEW v \in User PROVE Here(v)'
  BY <1>1 DEF TInv, WTypeOK, Here, lists, HandleJoin, JoinAnswered, HandleLeave
<1>4. ASSUME NEW v \in User, NEW p \in User PROVE Told(v, p)'
  BY <1>1 DEF TInv, Told, lists, peers
<1> QED
  BY <1>2, <1>3, <1>4 DEF TInv

LEMMA TJoinServed ==
    ASSUME TInv, NEW u \in User, JoinServed(u)
    PROVE  TInv'
<1>1. /\ inbox' \in [User -> Seq(Events)]
      /\ \A v \in User : Free(inbox'[v], v)
      /\ \A v, p \in User : Told(v, p)'
  <2>1. TRUE \in BOOLEAN /\ present' = (IF TRUE THEN present \cup {u} ELSE present \ {u})
        /\ inbox' = Tell(inbox, User, State(u, TRUE))
        /\ UNCHANGED <<lists, peers, offers, upset>>
    BY DEF JoinServed
  <2> QED
    BY <2>1, ComeOrGo
<1>2. WTypeOK'
  BY <1>1 DEF TInv, WTypeOK, lists, peers, JoinServed
<1>3. ASSUME NEW v \in User PROVE Here(v)'
  BY <1>1 DEF TInv, WTypeOK, Here, lists, JoinServed
<1> QED
  BY <1>1, <1>2, <1>3 DEF TInv

LEMMA TLeaveServed ==
    ASSUME TInv, NEW u \in User, LeaveServed(u)
    PROVE  TInv'
<1>1. /\ inbox' \in [User -> Seq(Events)]
      /\ \A v \in User : Free(inbox'[v], v)
      /\ \A v, p \in User : Told(v, p)'
  <2>1. FALSE \in BOOLEAN /\ present' = (IF FALSE THEN present \cup {u} ELSE present \ {u})
        /\ inbox' = Tell(inbox, User, State(u, FALSE))
        /\ UNCHANGED <<lists, peers, offers, upset>>
    BY DEF LeaveServed
  <2> QED
    BY <2>1, ComeOrGo
<1>2. WTypeOK'
  BY <1>1 DEF TInv, WTypeOK, lists, peers, Steps, LeaveServed
<1>3. ASSUME NEW v \in User PROVE Here(v)'
  BY <1>1 DEF TInv, WTypeOK, Here, lists, LeaveServed
<1> QED
  BY <1>1, <1>2, <1>3 DEF TInv

LEMMA TListServed ==
    ASSUME TInv, NEW u \in User, ListServed(u)
    PROVE  TInv'
<1>1. WTypeOK' /\ upset \subseteq upset'
  BY DEF TInv, WTypeOK, lists, peers, Steps, ListServed
<1>2. present \in SUBSET User /\ NoList \notin SUBSET User
  BY PeersAssumption DEF TInv, WTypeOK, NoList
<1>3. ASSUME NEW v \in User PROVE Here(v)'
  BY <1>2 DEF TInv, WTypeOK, Here, ListServed
<1>4. ASSUME NEW v \in User, NEW p \in User PROVE Told(v, p)'
  <2>1. CASE v # u
    BY <1>1, <2>1 DEF TInv, WTypeOK, Told, peers, ListServed
  <2>2. CASE v = u
    BY <1>1, <1>2, <2>2 DEF TInv, WTypeOK, Told, peers, ListServed
  <2> QED
    BY <2>1, <2>2
<1> QED
  BY <1>1, <1>3, <1>4 DEF TInv

(* The list is taken over, and connections to others closed.               *)
LEMMA TTakenOver ==
    ASSUME TInv, NEW u \in User, NEW p \in User,
           inbox'[u] = inbox[u], present' = present, upset \subseteq upset',
           snap[u] # NoList, list'[u] = snap[u], snap'[u] = NoList,
           pc'[u][p] # NoPc => p \in snap[u]
    PROVE  Told(u, p)'
  BY DEF TInv, Told

LEMMA TRelisted ==
    ASSUME TInv, NEW u \in User, Relisted(u)
    PROVE  TInv'
<1>1. /\ WTypeOK /\ snap[u] \in SUBSET User /\ snap[u] # NoList
      /\ pc \in [User -> [User -> PcType]] /\ Participants(u, snap[u], pc)
  <2>1. snap[u] # NoList /\ at[u] = "relisting"
    BY DEF TInv, Here, Relisted
  <2> QED
    BY <2>1 DEF TInv, WTypeOK, Relisted
<1>2. /\ list' \in [User -> SUBSET User] /\ list'[u] = snap[u]
      /\ pc' \in [User -> [User -> PcType]] /\ ready' \in [User -> SUBSET User]
      /\ \A p \in User : pc'[u][p] = IF p \in snap[u] THEN pc[u][p] ELSE NoPc
      /\ \A v \in User : v # u => list'[v] = list[v] /\ pc'[v] = pc[v]
  <2>1. /\ Keep(u, pc, snap[u]) \in [User -> [User -> PcType]]
        /\ \A p \in User : Keep(u, pc, snap[u])[u][p] =
                            IF p \in snap[u] THEN pc[u][p] ELSE NoPc
        /\ \A v \in User : v # u => Keep(u, pc, snap[u])[v] = pc[v]
    BY <1>1, KeepIs
  <2>2. /\ list' = [list EXCEPT ![u] = snap[u]] /\ pc' = Keep(u, pc, snap[u])
        /\ ready' = [ready EXCEPT ![u] = @ \cap snap[u]]
    BY <1>1 DEF Participants
  <2>3. list' \in [User -> SUBSET User] /\ ready' \in [User -> SUBSET User]
    BY <1>1, <2>2 DEF WTypeOK
  <2> QED
    BY <1>1, <2>1, <2>2, <2>3 DEF WTypeOK
<1>3. /\ snap' = [snap EXCEPT ![u] = NoList] /\ at' = [at EXCEPT ![u] = "out"]
      /\ UNCHANGED <<present, offered, inbox, offers, upset>> /\ at[u] = "relisting"
  BY DEF Relisted
<1>4. WTypeOK'
  BY <1>1, <1>2, <1>3 DEF WTypeOK, Steps
<1>5. ASSUME NEW v \in User PROVE Here(v)'
  BY <1>1, <1>3 DEF TInv, WTypeOK, Here
<1>6. ASSUME NEW v \in User, NEW p \in User PROVE Told(v, p)'
  <2>1. CASE v = u
    <3>1. snap'[u] = NoList
      BY <1>1, <1>3 DEF WTypeOK
    <3> QED
      BY <1>1, <1>2, <1>3, <2>1, <3>1, TTakenOver
  <2>2. CASE v # u
    BY <1>1, <1>2, <1>3, <2>2 DEF TInv, WTypeOK, Told
  <2> QED
    BY <2>1, <2>2
<1> QED
  BY <1>4, <1>5, <1>6 DEF TInv

(* Whom a client that got the list offers to.                              *)
New(u) == snap[u] \ (offered[u] \cup {u})

(* The list is taken over, and who is on it and not yet offered to is.     *)
LEMMA ListedDoes ==
    ASSUME TInv, NEW u \in User, Listed(u)
    PROVE  /\ WTypeOK /\ WTypeOK' /\ at[u] = "listing" /\ snap[u] \in SUBSET User
           /\ snap[u] # NoList /\ snap'[u] = NoList
           /\ present' = present /\ upset \subseteq upset' /\ offers + 1 \in Nat
           /\ at' = [at EXCEPT ![u] = "in"]
           /\ \A v \in User : v # u =>
                /\ snap'[v] = snap[v] /\ list'[v] = list[v] /\ pc'[v] = pc[v]
           /\ list'[u] = snap[u]
           /\ \A p \in User : p \notin snap[u] => pc'[u][p] = NoPc
           /\ \A p \in User : p \in New(u) =>
                /\ pc'[u][p].sig = "offered" /\ pc'[u][p].offer = offers + 1
                /\ pc'[u][p].link = pc[u][p].link
           /\ \A v \in User : inbox'[v] =
                IF u \in present /\ v \in New(u) /\ v \in present
                THEN Append(inbox[v], Signal("offer", u, offers + 1)) ELSE inbox[v]
<1>1. /\ WTypeOK /\ at[u] = "listing" /\ snap[u] \in SUBSET User
      /\ snap[u] # NoList /\ offers + 1 \in Nat
  <2>1. snap[u] # NoList /\ at[u] = "listing"
    BY DEF TInv, Here, Listed
  <2> QED
    BY <2>1 DEF TInv, WTypeOK
<1>2. /\ at' = [at EXCEPT ![u] = "in"] /\ snap' = [snap EXCEPT ![u] = NoList]
      /\ upset' = IF Again(u) = {} THEN upset ELSE upset \cup {u} \cup Again(u)
      /\ present' = present
      /\ offered' = [offered EXCEPT ![u] = @ \cup New(u)]
      /\ list' = [list EXCEPT ![u] = snap[u]]
      /\ pc' = Keep(u, Offering(u, New(u), pc), snap[u])
      /\ ready' = [ready EXCEPT ![u] = @ \cap snap[u]]
      /\ offers' = IF New(u) = {} THEN offers ELSE offers + 1
      /\ inbox' = Relay(inbox, u, New(u), Signal("offer", u, offers'))
  BY DEF Listed, Offer, Participants, New
<1>3. /\ Offering(u, New(u), pc) \in [User -> [User -> PcType]]
      /\ \A p \in User : IF p \in New(u)
            THEN /\ Offering(u, New(u), pc)[u][p].sig = "offered"
                 /\ Offering(u, New(u), pc)[u][p].offer = offers + 1
                 /\ Offering(u, New(u), pc)[u][p].link = pc[u][p].link
            ELSE Offering(u, New(u), pc)[u][p] = pc[u][p]
      /\ \A v \in User : v # u => Offering(u, New(u), pc)[v] = pc[v]
  <2>1. New(u) \in SUBSET User
    BY <1>1 DEF New
  <2> QED
    BY <1>1, <2>1, OfferingIs
<1>4. /\ pc' \in [User -> [User -> PcType]]
      /\ \A p \in User : p \notin snap[u] => pc'[u][p] = NoPc
      /\ \A p \in User : p \in New(u) =>
            /\ pc'[u][p].sig = "offered" /\ pc'[u][p].offer = offers + 1
            /\ pc'[u][p].link = pc[u][p].link
      /\ \A v \in User : v # u => pc'[v] = pc[v]
  <2>1. PICK pcs \in [User -> [User -> PcType]] : pcs = Offering(u, New(u), pc)
    BY <1>3
  <2>2. /\ Keep(u, pcs, snap[u]) \in [User -> [User -> PcType]]
        /\ \A p \in User : Keep(u, pcs, snap[u])[u][p] =
                            IF p \in snap[u] THEN pcs[u][p] ELSE NoPc
        /\ \A v \in User : v # u => Keep(u, pcs, snap[u])[v] = pcs[v]
    BY KeepIs
  <2>3. pc' = Keep(u, pcs, snap[u])
    BY <1>2, <2>1
  <2>4. \A p \in User : p \in New(u) => p \in snap[u]
    BY DEF New
  <2> QED
    BY <1>3, <2>1, <2>2, <2>3, <2>4
<1>5. /\ inbox' \in [User -> Seq(Events)]
      /\ \A v \in User : inbox'[v] =
           IF u \in present /\ v \in New(u) /\ v \in present
           THEN Append(inbox[v], Signal("offer", u, offers + 1)) ELSE inbox[v]
  <2>1. inbox \in [User -> Seq(Events)] /\ offers' \in Nat
    BY <1>1, <1>2 DEF WTypeOK
  <2>2. PICK e \in Events : e = Signal("offer", u, offers')
    BY <2>1, EventsAre
  <2>3. /\ Relay(inbox, u, New(u), e) \in [User -> Seq(Events)]
        /\ \A v \in User : Relay(inbox, u, New(u), e)[v] =
              IF u \in present /\ v \in New(u) /\ v \in present
              THEN Append(inbox[v], e) ELSE inbox[v]
    BY <2>1, RelayIs
  <2>4. \A v \in New(u) : offers' = offers + 1
    BY <1>2
  <2> QED
    BY <1>2, <2>2, <2>3, <2>4
<1>6. WTypeOK' /\ upset \subseteq upset'
  <2>1. /\ at' \in [User -> Steps] /\ snap' \in [User -> (SUBSET User) \cup {NoList}]
        /\ list' \in [User -> SUBSET User] /\ ready' \in [User -> SUBSET User]
    BY <1>1, <1>2 DEF WTypeOK, Steps
  <2>3. New(u) \in SUBSET User
    BY <1>1 DEF New
  <2>4. /\ offered' \in [User -> SUBSET User] /\ present' \in SUBSET User
        /\ offers' \in Nat
    BY <1>1, <1>2, <2>3 DEF WTypeOK
  <2>2. upset' \in SUBSET User /\ upset \subseteq upset'
    BY <1>1, <1>2 DEF WTypeOK, Again
  <2> QED
    BY <1>4, <1>5, <2>1, <2>2, <2>4 DEF WTypeOK
<1>7. /\ snap'[u] = NoList /\ list'[u] = snap[u]
      /\ \A v \in User : v # u => snap'[v] = snap[v] /\ list'[v] = list[v]
  BY <1>1, <1>2 DEF WTypeOK
<1> QED
  BY <1>1, <1>2, <1>4, <1>5, <1>6, <1>7

LEMMA TListed ==
    ASSUME TInv, NEW u \in User, Listed(u)
    PROVE  TInv'
<1>1. /\ WTypeOK /\ WTypeOK' /\ at[u] = "listing" /\ snap[u] \in SUBSET User
      /\ snap[u] # NoList /\ snap'[u] = NoList
      /\ present' = present /\ upset \subseteq upset' /\ offers + 1 \in Nat
      /\ at' = [at EXCEPT ![u] = "in"]
      /\ \A v \in User : v # u =>
           /\ snap'[v] = snap[v] /\ list'[v] = list[v] /\ pc'[v] = pc[v]
      /\ list'[u] = snap[u]
      /\ \A p \in User : p \notin snap[u] => pc'[u][p] = NoPc
      /\ \A v \in User : inbox'[v] =
           IF u \in present /\ v \in New(u) /\ v \in present
           THEN Append(inbox[v], Signal("offer", u, offers + 1)) ELSE inbox[v]
  BY ListedDoes
<1>2. ASSUME NEW v \in User
      PROVE  \/ inbox'[v] = inbox[v]
             \/ /\ u \in present /\ u # v
                /\ inbox'[v] = Append(inbox[v], Signal("offer", u, offers + 1))
  BY <1>1 DEF New
<1>3. ASSUME NEW v \in User PROVE Free(inbox'[v], v)
  BY <1>1, <1>2, SignalKeeps
<1>4. ASSUME NEW v \in User PROVE Here(v)'
  <2>2. v # u => at'[v] = at[v]
    BY <1>1 DEF WTypeOK
  <2>3. at'[u] = "in"
    BY <1>1 DEF WTypeOK
  <2> QED
    BY <1>1, <1>3, <2>2, <2>3 DEF TInv, Here
<1>5. ASSUME NEW v \in User, NEW p \in User PROVE Told(v, p)'
  <2>1. CASE v = u
    <3>1. inbox'[u] = inbox[u]
      BY <1>1 DEF New
    <3> QED
      BY <1>1, <2>1, <3>1, TTakenOver
  <2>2. CASE v # u
    BY <1>1, <1>2, <2>2, SignalKeeps
  <2> QED
    BY <2>1, <2>2
<1> QED
  BY <1>1, <1>4, <1>5 DEF TInv

-----------------------------------------------------------------------------
(* The next event of a client.                                             *)
LEMMA NextIs ==
    ASSUME TInv, NEW u \in User, inbox[u] # <<>>
    PROVE  /\ WTypeOK /\ Head(inbox[u]) \in Events /\ Tail(inbox[u]) \in Seq(Events)
           /\ Head(inbox[u]).from \in User /\ Head(inbox[u]).n \in Nat
           /\ Head(inbox[u]).type # "state" => Head(inbox[u]).from # u
<1>1. PICK s \in Seq(Events) : s = inbox[u]
  BY DEF TInv, WTypeOK
<1>2. Head(s) \in Events /\ Tail(s) \in Seq(Events) /\ Head(s) = s[1] /\ 1 \in DOMAIN s
  <2>1. s # <<>>
    BY <1>1
  <2> QED
    BY <2>1, Shorter
<1>3. Head(s).type # "state" => Head(s).from # u
  BY <1>1, <1>2 DEF TInv, Here, Free, IsSig
<1> QED
  BY <1>1, <1>2, <1>3 DEF Events, TInv

LEMMA OnStateDoes ==
    ASSUME TInv, NEW u \in User, OnState(u)
    PROVE  /\ WTypeOK' /\ inbox[u] # <<>> /\ Head(inbox[u]).type = "state"
           /\ inbox'[u] = Tail(inbox[u])
           /\ UNCHANGED <<present, at, snap>> /\ upset \subseteq upset'
           /\ \A v \in User : v # u =>
                inbox'[v] = inbox[v] /\ list'[v] = list[v] /\ pc'[v] = pc[v]
           /\ list'[u] = IF Head(inbox[u]).in
                         THEN list[u] \cup {Head(inbox[u]).from}
                         ELSE list[u] \ {Head(inbox[u]).from}
           /\ \A p \in User : pc'[u][p] = IF p \in list'[u] THEN pc[u][p] ELSE NoPc
           /\ snap[u] # NoList
                /\ ~(Head(inbox[u]).in <=> Head(inbox[u]).from \in snap[u])
                => u \in upset'
<1>1. /\ inbox[u] # <<>> /\ Head(inbox[u]).type = "state"
      /\ UNCHANGED <<present, at, snap, offered, offers>>
      /\ inbox' = Taken(u)
      /\ upset' = IF snap[u] # NoList /\ Head(inbox[u]).in # (Head(inbox[u]).from \in snap[u])
                  THEN upset \cup {u} ELSE upset
  BY DEF OnState, Next1
<1>2. WTypeOK /\ Head(inbox[u]).from \in User /\ Head(inbox[u]).in \in BOOLEAN
  BY <1>1, NextIs DEF Events
<1>3. PICK users \in SUBSET User :
         users = IF Head(inbox[u]).in THEN list[u] \cup {Head(inbox[u]).from}
                                      ELSE list[u] \ {Head(inbox[u]).from}
  BY <1>2 DEF WTypeOK
<1>4. /\ list' = [list EXCEPT ![u] = users] /\ pc' = Keep(u, pc, users)
      /\ ready' = [ready EXCEPT ![u] = @ \cap users]
  BY <1>3 DEF OnState, Participants
<1>5. /\ Keep(u, pc, users) \in [User -> [User -> PcType]]
      /\ \A p \in User : Keep(u, pc, users)[u][p] =
                          IF p \in users THEN pc[u][p] ELSE NoPc
      /\ \A v \in User : v # u => Keep(u, pc, users)[v] = pc[v]
  <2>1. pc \in [User -> [User -> PcType]]
    BY <1>2 DEF WTypeOK
  <2> QED
    BY <2>1, KeepIs
<1>6. /\ inbox' \in [User -> Seq(Events)] /\ inbox'[u] = Tail(inbox[u])
      /\ \A v \in User : v # u => inbox'[v] = inbox[v]
  BY <1>1, <1>2, TakenIs
<1>7. /\ list' \in [User -> SUBSET User] /\ ready' \in [User -> SUBSET User]
      /\ list'[u] = users /\ \A v \in User : v # u => list'[v] = list[v]
  BY <1>2, <1>4 DEF WTypeOK
<1>8. /\ upset \subseteq upset' /\ upset' \in SUBSET User
      /\ snap[u] # NoList /\ ~(Head(inbox[u]).in <=> Head(inbox[u]).from \in snap[u])
           => u \in upset'
  <2>1. (Head(inbox[u]).in # (Head(inbox[u]).from \in snap[u])) <=>
          ~(Head(inbox[u]).in <=> Head(inbox[u]).from \in snap[u])
    BY <1>2
  <2> QED
    BY <1>1, <1>2, <2>1 DEF WTypeOK
<1>9. WTypeOK'
  BY <1>1, <1>2, <1>4, <1>5, <1>6, <1>7, <1>8 DEF WTypeOK
<1> QED
  BY <1>1, <1>3, <1>4, <1>5, <1>6, <1>7, <1>8, <1>9

LEMMA TOnState ==
    ASSUME TInv, NEW u \in User, OnState(u)
    PROVE  TInv'
<1>1. /\ WTypeOK' /\ inbox[u] # <<>> /\ Head(inbox[u]).type = "state"
      /\ inbox'[u] = Tail(inbox[u])
      /\ UNCHANGED <<present, at, snap>> /\ upset \subseteq upset'
      /\ \A v \in User : v # u =>
           inbox'[v] = inbox[v] /\ list'[v] = list[v] /\ pc'[v] = pc[v]
      /\ list'[u] = IF Head(inbox[u]).in
                    THEN list[u] \cup {Head(inbox[u]).from}
                    ELSE list[u] \ {Head(inbox[u]).from}
      /\ \A p \in User : pc'[u][p] = IF p \in list'[u] THEN pc[u][p] ELSE NoPc
      /\ snap[u] # NoList
           /\ ~(Head(inbox[u]).in <=> Head(inbox[u]).from \in snap[u])
           => u \in upset'
  BY OnStateDoes
<1>2. ASSUME NEW p \in User PROVE Told(u, p)'
  BY <1>1, ToldTaken DEF About
<1>3. ASSUME NEW v \in User, v # u, NEW p \in User PROVE Told(v, p)'
  BY <1>1, <1>3 DEF TInv, Told
<1>4. ASSUME NEW v \in User PROVE Here(v)'
  <2>1. Free(inbox'[v], v)
    BY <1>1, ToldTaken DEF TInv, Here
  <2> QED
    BY <1>1, <2>1 DEF TInv, Here
<1> QED
  BY <1>1, <1>2, <1>3, <1>4 DEF TInv

-----------------------------------------------------------------------------
Settled(n) == [sig |-> "stable", offer |-> 0, link |-> n]

LEMMA SettleIs ==
    ASSUME WTypeOK, NEW u \in User, NEW p \in User, NEW n \in Nat,
           pc' = [pc EXCEPT ![u][p] = Settled(n)]
    PROVE  /\ pc' \in [User -> [User -> PcType]] /\ pc'[u][p] = Settled(n)
           /\ \A v, x \in User : v # u \/ x # p => pc'[v][x] = pc[v][x]
<1>1. Settled(n) \in PcType
  BY DEF Settled, PcType
<1>2. pc \in [User -> [User -> PcType]]
  BY DEF WTypeOK
<1> QED
  BY <1>1, <1>2

LEMMA OnOfferDoes ==
    ASSUME TInv, NEW u \in User, OnOffer(u)
    PROVE  /\ WTypeOK' /\ inbox[u] # <<>> /\ Head(inbox[u]).type = "offer"
           /\ inbox'[u] = Tail(inbox[u])
           /\ UNCHANGED <<present, at, lists>>
           /\ upset' = IF pc[u][Head(inbox[u]).from].sig = "offered"
                       THEN upset \cup {u, Head(inbox[u]).from} ELSE upset
           /\ \A v, x \in User :
                 v # u \/ x # Head(inbox[u]).from => pc'[v][x] = pc[v][x]
           /\ Enabled(u) =>
                /\ pc'[u][Head(inbox[u]).from] = Settled(Head(inbox[u]).n)
                /\ \A v \in User : v # u => inbox'[v] =
                     IF u \in present /\ v = Head(inbox[u]).from /\ v \in present
                     THEN Append(inbox[v], Signal("answer", u, Head(inbox[u]).n))
                     ELSE inbox[v]
           /\ ~Enabled(u) => pc' = pc /\ \A v \in User : v # u => inbox'[v] = inbox[v]
<1>1. /\ inbox[u] # <<>> /\ Head(inbox[u]).type = "offer"
      /\ UNCHANGED <<present, at, lists, offered, offers>>
      /\ upset' = IF pc[u][Head(inbox[u]).from].sig = "offered"
                  THEN upset \cup {u, Head(inbox[u]).from} ELSE upset
  BY DEF OnOffer, Next1
<1>2. /\ WTypeOK /\ Head(inbox[u]).from \in User /\ Head(inbox[u]).n \in Nat
      /\ Head(inbox[u]).from # u
  BY <1>1, NextIs
<1>3. PICK p \in User, n \in Nat : p = Head(inbox[u]).from /\ n = Head(inbox[u]).n
  BY <1>2
<1>4. PICK box \in [User -> Seq(Events)] :
         box = Taken(u) /\ box[u] = Tail(inbox[u])
           /\ \A v \in User : v # u => box[v] = inbox[v]
  BY <1>1, <1>2, TakenIs
<1>5. CASE Enabled(u)
  <2>1. /\ pc' = [pc EXCEPT ![u][p] = Settled(n)]
        /\ ready' = [ready EXCEPT ![u] = @ \cup {p}]
        /\ inbox' = Relay(box, u, {p}, Signal("answer", u, n))
    BY <1>3, <1>4, <1>5 DEF OnOffer, Settle, Settled
  <2>2. /\ inbox' \in [User -> Seq(Events)]
        /\ \A v \in User : inbox'[v] =
             IF u \in present /\ v \in {p} /\ v \in present
             THEN Append(box[v], Signal("answer", u, n)) ELSE box[v]
    <3>1. PICK e \in Events : e = Signal("answer", u, n)
      BY EventsAre
    <3>2. /\ Relay(box, u, {p}, e) \in [User -> Seq(Events)]
          /\ \A v \in User : Relay(box, u, {p}, e)[v] =
               IF u \in present /\ v \in {p} /\ v \in present
               THEN Append(box[v], e) ELSE box[v]
      BY RelayIs
    <3> QED
      BY <2>1, <3>1, <3>2
  <2>3. /\ pc' \in [User -> [User -> PcType]] /\ pc'[u][p] = Settled(n)
        /\ \A v, x \in User : v # u \/ x # p => pc'[v][x] = pc[v][x]
    <3>1. WTypeOK
      BY <1>2
    <3> QED
      BY <2>1, <3>1, SettleIs, ZenonT(30)
  <2>4. ready' \in [User -> SUBSET User]
    BY <1>2, <2>1 DEF WTypeOK
  <2>5. WTypeOK'
    BY <1>1, <1>2, <2>2, <2>3, <2>4 DEF WTypeOK, lists
  <2> QED
    BY <1>1, <1>2, <1>3, <1>4, <1>5, <2>2, <2>3, <2>5
<1>6. CASE ~Enabled(u)
  <2>1. inbox' = box /\ UNCHANGED <<pc, ready>>
    BY <1>4, <1>6 DEF OnOffer
  <2>2. WTypeOK'
    BY <1>1, <1>2, <2>1 DEF WTypeOK, lists
  <2> QED
    BY <1>1, <1>4, <1>6, <2>1, <2>2
<1> QED
  BY <1>5, <1>6

LEMMA TOnOffer ==
    ASSUME TInv, NEW u \in User, OnOffer(u)
    PROVE  TInv'
<1>1. /\ WTypeOK' /\ inbox[u] # <<>> /\ Head(inbox[u]).type = "offer"
      /\ inbox'[u] = Tail(inbox[u])
      /\ UNCHANGED <<present, at, lists>>
      /\ upset' = IF pc[u][Head(inbox[u]).from].sig = "offered"
                  THEN upset \cup {u, Head(inbox[u]).from} ELSE upset
      /\ \A v, x \in User :
            v # u \/ x # Head(inbox[u]).from => pc'[v][x] = pc[v][x]
      /\ Enabled(u) =>
           /\ pc'[u][Head(inbox[u]).from] = Settled(Head(inbox[u]).n)
           /\ \A v \in User : v # u => inbox'[v] =
                IF u \in present /\ v = Head(inbox[u]).from /\ v \in present
                THEN Append(inbox[v], Signal("answer", u, Head(inbox[u]).n))
                ELSE inbox[v]
      /\ ~Enabled(u) => pc' = pc /\ \A v \in User : v # u => inbox'[v] = inbox[v]
  BY OnOfferDoes
<1>2. /\ WTypeOK /\ Head(inbox[u]).from \in User /\ Head(inbox[u]).n \in Nat
      /\ upset \subseteq upset' /\ snap' = snap /\ list' = list
  BY <1>1, NextIs DEF lists
<1>3. ASSUME NEW p \in User PROVE Told(u, p)'
  BY <1>1, <1>2, ToldTaken DEF About
<1>4. PICK n \in Nat : n = Head(inbox[u]).n
  BY <1>2
<1>5. ASSUME NEW v \in User, v # u
      PROVE  \/ inbox'[v] = inbox[v]
             \/ /\ u \in present /\ u # v
                /\ inbox'[v] = Append(inbox[v], Signal("answer", u, n))
  BY <1>1, <1>4, <1>5
<1>6. ASSUME NEW v \in User, v # u, NEW p \in User
      PROVE  Told(v, p)' /\ Free(inbox'[v], v)
  BY <1>1, <1>2, <1>5, <1>6, SignalKeeps
<1>7. ASSUME NEW v \in User PROVE Here(v)'
  <2>1. Free(inbox'[v], v)
    BY <1>1, <1>2, <1>6, ToldTaken
  <2> QED
    BY <1>1, <1>2, <2>1 DEF TInv, Here
<1> QED
  BY <1>1, <1>3, <1>6, <1>7 DEF TInv

LEMMA OnAnswerDoes ==
    ASSUME TInv, NEW u \in User, OnAnswer(u)
    PROVE  /\ WTypeOK' /\ inbox[u] # <<>> /\ Head(inbox[u]).type = "answer"
           /\ inbox'[u] = Tail(inbox[u])
           /\ \A v \in User : v # u => inbox'[v] = inbox[v]
           /\ UNCHANGED <<present, at, lists, upset>>
           /\ \A v, x \in User :
                 v # u \/ x # Head(inbox[u]).from => pc'[v][x] = pc[v][x]
           /\ pc'[u][Head(inbox[u]).from] =
                IF Enabled(u) /\ pc[u][Head(inbox[u]).from].sig = "offered"
                THEN Settled(Head(inbox[u]).n) ELSE pc[u][Head(inbox[u]).from]
<1>1. /\ inbox[u] # <<>> /\ Head(inbox[u]).type = "answer"
      /\ UNCHANGED <<present, at, lists, offered, offers, upset>>
      /\ inbox' = Taken(u)
  BY DEF OnAnswer, Next1
<1>2. PICK p \in User, n \in Nat : p = Head(inbox[u]).from /\ n = Head(inbox[u]).n
  BY <1>1, NextIs
<1>3. /\ WTypeOK /\ inbox' \in [User -> Seq(Events)] /\ inbox'[u] = Tail(inbox[u])
      /\ \A v \in User : v # u => inbox'[v] = inbox[v]
  BY <1>1, TakenIs DEF TInv
<1>4. CASE Enabled(u) /\ pc[u][p].sig = "offered"
  <2>1. /\ pc' = [pc EXCEPT ![u][p] = Settled(n)]
        /\ ready' = [ready EXCEPT ![u] = @ \cup {p}]
    BY <1>2, <1>4 DEF OnAnswer, Settle, Settled
  <2>2. /\ pc' \in [User -> [User -> PcType]] /\ pc'[u][p] = Settled(n)
        /\ \A v, x \in User : v # u \/ x # p => pc'[v][x] = pc[v][x]
    <3>1. WTypeOK
      BY <1>3
    <3> QED
      BY <2>1, <3>1, SettleIs, ZenonT(30)
  <2>3. WTypeOK'
    BY <1>1, <1>3, <2>1, <2>2 DEF WTypeOK, lists
  <2> QED
    BY <1>1, <1>2, <1>3, <1>4, <2>2, <2>3
<1>5. CASE ~(Enabled(u) /\ pc[u][p].sig = "offered")
  <2>1. UNCHANGED <<pc, ready>>
    BY <1>2, <1>5 DEF OnAnswer
  <2>2. WTypeOK'
    BY <1>1, <1>3, <2>1 DEF WTypeOK, lists
  <2> QED
    BY <1>1, <1>2, <1>3, <1>5, <2>1, <2>2
<1> QED
  BY <1>4, <1>5

LEMMA TOnAnswer ==
    ASSUME TInv, NEW u \in User, OnAnswer(u)
    PROVE  TInv'
<1>1. /\ WTypeOK' /\ inbox[u] # <<>> /\ Head(inbox[u]).type = "answer"
      /\ inbox'[u] = Tail(inbox[u])
      /\ \A v \in User : v # u => inbox'[v] = inbox[v]
      /\ UNCHANGED <<present, at, lists, upset>>
      /\ \A v, x \in User :
            v # u \/ x # Head(inbox[u]).from => pc'[v][x] = pc[v][x]
      /\ pc'[u][Head(inbox[u]).from] =
           IF Enabled(u) /\ pc[u][Head(inbox[u]).from].sig = "offered"
           THEN Settled(Head(inbox[u]).n) ELSE pc[u][Head(inbox[u]).from]
  BY OnAnswerDoes
<1>2. snap' = snap /\ list' = list
  BY <1>1 DEF lists
<1>3. ASSUME NEW p \in User PROVE Told(u, p)'
  <2>1. pc'[u][p] # NoPc => pc[u][p] # NoPc
    BY <1>1 DEF NoPc
  <2> QED
    BY <1>1, <1>2, <2>1, ToldTaken DEF About
<1>4. ASSUME NEW v \in User, v # u, NEW p \in User PROVE Told(v, p)'
  BY <1>1, <1>2, <1>4 DEF TInv, Told
<1>5. ASSUME NEW v \in User PROVE Here(v)'
  <2>1. Free(inbox'[v], v)
    BY <1>1, <1>2, ToldTaken DEF TInv, Here
  <2> QED
    BY <1>1, <1>2, <2>1 DEF TInv, Here
<1> QED
  BY <1>1, <1>3, <1>4, <1>5 DEF TInv

-----------------------------------------------------------------------------
LEMMA RenegotiateDoes ==
    ASSUME TInv, NEW u \in User, NEW p \in User, p # u, Renegotiate(u, p)
    PROVE  /\ WTypeOK' /\ pc[u][p].sig = "stable" /\ offers + 1 \in Nat
           /\ UNCHANGED <<present, at, lists>>
           /\ upset' = IF at[u] = "in" THEN upset ELSE upset \cup {u, p}
           /\ \A v, x \in User : v # u \/ x # p => pc'[v][x] = pc[v][x]
           /\ pc'[u][p].sig = "offered" /\ pc'[u][p].offer = offers + 1
           /\ pc'[u][p].link = pc[u][p].link
           /\ \A v \in User : inbox'[v] =
                IF u \in present /\ v = p /\ v \in present
                THEN Append(inbox[v], Signal("offer", u, offers + 1)) ELSE inbox[v]
<1>0. PICK users \in SUBSET User : users = {p}
  OBVIOUS
<1>1. /\ pc[u][p].sig = "stable"
      /\ pc' = Offering(u, {p}, pc) /\ offers' = offers + 1
      /\ inbox' = Relay(inbox, u, {p}, Signal("offer", u, offers'))
      /\ upset' = IF at[u] = "in" THEN upset ELSE upset \cup {u, p}
      /\ UNCHANGED <<present, at, lists, offered, ready>>
  BY DEF Renegotiate
<1>2. WTypeOK /\ inbox \in [User -> Seq(Events)] /\ offers + 1 \in Nat
  BY DEF TInv, WTypeOK
<1>3. /\ pc' \in [User -> [User -> PcType]]
      /\ \A x \in User : IF x \in {p}
            THEN /\ pc'[u][x].sig = "offered"
                 /\ pc'[u][x].offer = offers + 1
                 /\ pc'[u][x].link = pc[u][x].link
            ELSE pc'[u][x] = pc[u][x]
      /\ \A v \in User : v # u => pc'[v] = pc[v]
  <2>1. /\ Offering(u, users, pc) \in [User -> [User -> PcType]]
        /\ \A x \in User : IF x \in users
              THEN /\ Offering(u, users, pc)[u][x].sig = "offered"
                   /\ Offering(u, users, pc)[u][x].offer = offers + 1
                   /\ Offering(u, users, pc)[u][x].link = pc[u][x].link
              ELSE Offering(u, users, pc)[u][x] = pc[u][x]
        /\ \A v \in User : v # u => Offering(u, users, pc)[v] = pc[v]
    BY <1>2, OfferingIs
  <2> QED
    BY <1>0, <1>1, <2>1
<1>4. /\ inbox' \in [User -> Seq(Events)]
      /\ \A v \in User : inbox'[v] =
           IF u \in present /\ v \in {p} /\ v \in present
           THEN Append(inbox[v], Signal("offer", u, offers + 1)) ELSE inbox[v]
  <2>1. PICK e \in Events : e = Signal("offer", u, offers + 1)
    BY <1>2, EventsAre
  <2>2. /\ Relay(inbox, u, users, e) \in [User -> Seq(Events)]
        /\ \A v \in User : Relay(inbox, u, users, e)[v] =
              IF u \in present /\ v \in users /\ v \in present
              THEN Append(inbox[v], e) ELSE inbox[v]
    BY <1>2, RelayIs, SMTT(30)
  <2> QED
    BY <1>0, <1>1, <2>1, <2>2
<1>5. WTypeOK'
  BY <1>1, <1>2, <1>3, <1>4 DEF WTypeOK, lists
<1> QED
  BY <1>1, <1>2, <1>3, <1>4, <1>5

LEMMA TRenegotiate ==
    ASSUME TInv, NEW u \in User, NEW p \in User, p # u, Renegotiate(u, p)
    PROVE  TInv'
<1>1. /\ WTypeOK' /\ pc[u][p].sig = "stable" /\ offers + 1 \in Nat
      /\ UNCHANGED <<present, at, lists>>
      /\ upset' = IF at[u] = "in" THEN upset ELSE upset \cup {u, p}
      /\ \A v, x \in User : v # u \/ x # p => pc'[v][x] = pc[v][x]
      /\ \A v \in User : inbox'[v] =
           IF u \in present /\ v = p /\ v \in present
           THEN Append(inbox[v], Signal("offer", u, offers + 1)) ELSE inbox[v]
  BY RenegotiateDoes
<1>2. PICK n \in Nat : n = offers + 1
  BY <1>1
<1>3. ASSUME NEW v \in User
      PROVE  \/ inbox'[v] = inbox[v]
             \/ /\ u \in present /\ u # v
                /\ inbox'[v] = Append(inbox[v], Signal("offer", u, n))
  BY <1>1, <1>2
<1>4. present' = present /\ upset \subseteq upset' /\ snap' = snap /\ list' = list
  BY <1>1 DEF lists
<1>5. ASSUME NEW v \in User
      PROVE  Free(inbox'[v], v) /\ \A x \in User : Told(v, x)'
  <2>1. \A x \in User : pc'[v][x] # NoPc => pc[v][x] # NoPc
    BY <1>1 DEF NoPc
  <2> QED
    BY <1>3, <1>4, <2>1, SignalKeeps
<1>6. ASSUME NEW v \in User PROVE Here(v)'
  BY <1>1, <1>4, <1>5 DEF TInv, Here
<1> QED
  BY <1>1, <1>5, <1>6 DEF TInv

LEMMA PcFailsDoes ==
    ASSUME TInv, NEW u \in User, NEW p \in User, PcFails(u, p)
    PROVE  /\ WTypeOK' /\ pc[u][p].link # 0 /\ pc[p][u] = NoPc
           /\ UNCHANGED <<present, at, lists, inbox, upset>>
           /\ pc'[u][p] = NoPc
           /\ \A v, x \in User : v # u \/ x # p => pc'[v][x] = pc[v][x]
<1>1. /\ pc[u][p].link # 0 /\ pc[p][u] = NoPc
      /\ pc' = Keep(u, pc, User \ {p}) /\ ready' = [ready EXCEPT ![u] = @ \ {p}]
      /\ UNCHANGED <<present, at, lists, offered, inbox, offers, upset>>
  BY DEF PcFails
<1>2. WTypeOK /\ pc \in [User -> [User -> PcType]]
  BY DEF TInv, WTypeOK
<1>3. /\ Keep(u, pc, User \ {p}) \in [User -> [User -> PcType]]
      /\ \A x \in User : Keep(u, pc, User \ {p})[u][x] =
                          IF x \in User \ {p} THEN pc[u][x] ELSE NoPc
      /\ \A v \in User : v # u => Keep(u, pc, User \ {p})[v] = pc[v]
  BY <1>2, KeepIs
<1>4. WTypeOK'
  BY <1>1, <1>2, <1>3 DEF WTypeOK, lists
<1> QED
  BY <1>1, <1>3, <1>4

LEMMA TPcFails ==
    ASSUME TInv, NEW u \in User, NEW p \in User, PcFails(u, p)
    PROVE  TInv'
<1>1. /\ WTypeOK' /\ UNCHANGED <<present, at, lists, inbox, upset>>
      /\ pc'[u][p] = NoPc
      /\ \A v, x \in User : v # u \/ x # p => pc'[v][x] = pc[v][x]
  BY PcFailsDoes
<1>2. ASSUME NEW v \in User, NEW x \in User PROVE Told(v, x)'
  <2>1. pc'[v][x] # NoPc => pc[v][x] # NoPc
    BY <1>1
  <2> QED
    BY <1>1, <2>1 DEF TInv, Told, lists
<1>3. ASSUME NEW v \in User PROVE Here(v)'
  BY <1>1 DEF TInv, Here, lists
<1> QED
  BY <1>1, <1>2, <1>3 DEF TInv

-----------------------------------------------------------------------------
LEMMA TInitially == WInit => TInv
<1> SUFFICES ASSUME WInit PROVE TInv
  OBVIOUS
<1>1. WTypeOK
  <2>1. <<>> \in Seq(Events) /\ NoPc \in PcType
    BY DEF NoPc, PcType
  <2> QED
    BY <2>1 DEF WInit, WTypeOK, Steps
<1>2. ASSUME NEW u \in User PROVE Here(u)
  BY DEF WInit, Here, Free
<1>3. ASSUME NEW u \in User, NEW p \in User PROVE Told(u, p)
  BY DEF WInit, Told, LastSays, OffersStand
<1> QED
  BY <1>1, <1>2, <1>3 DEF TInv

LEMMA TStep == TInv /\ [WNext]_wvars => TInv'
<1> SUFFICES ASSUME TInv, [WNext]_wvars PROVE TInv'
  OBVIOUS
<1>1. CASE UNCHANGED wvars
  BY <1>1 DEF wvars, TInv, WTypeOK, Here, Told
<1>2. CASE WNext
  <2>1. PICK u \in User :
          \/ HandleJoin(u) \/ JoinServed(u) \/ JoinAnswered(u)
          \/ ListServed(u) \/ Listed(u)
          \/ HandleLeave(u) \/ LeaveServed(u) \/ Relisted(u)
          \/ OnState(u) \/ OnOffer(u) \/ OnAnswer(u)
          \/ \E p \in User \ {u} : Renegotiate(u, p) \/ PcFails(u, p)
    BY <1>2 DEF WNext
  <2>2. CASE HandleJoin(u) \/ JoinAnswered(u) \/ HandleLeave(u)
    BY <2>2, TBookkeeping
  <2>3. CASE JoinServed(u) \/ LeaveServed(u)
    BY <2>3, TJoinServed, TLeaveServed
  <2>4. CASE ListServed(u) \/ Listed(u) \/ Relisted(u)
    BY <2>4, TListServed, TListed, TRelisted
  <2>5. CASE OnState(u) \/ OnOffer(u) \/ OnAnswer(u)
    BY <2>5, TOnState, TOnOffer, TOnAnswer
  <2>6. ASSUME NEW p \in User, p # u, Renegotiate(u, p) \/ PcFails(u, p)
        PROVE  TInv'
    BY <2>6, TRenegotiate, TPcFails
  <2> QED
    BY <2>1, <2>2, <2>3, <2>4, <2>5, <2>6
<1> QED
  BY <1>1, <1>2

(* The participants a client shows are the users in the channel, once      *)
(* nothing is on its way to it and no list of it was undone, and it keeps  *)
(* no connection to anybody else (closePeer, useWebRTC.ts).                *)
THEOREM ListsRight == WSpec => []ListsAgree
<1>1. TInv => ListsAgree
  <2> SUFFICES ASSUME TInv, NEW u \in User, Quiet(u, u), snap[u] = NoList
               PROVE  /\ list[u] = present
                      /\ \A p \in User : pc[u][p] # NoPc => p \in list[u]
    BY DEF ListsAgree
  <2>1. u \notin upset /\ \A p \in User : Silent(inbox[u], p)
    BY DEF Quiet, Silent
  <2>2. list[u] \in SUBSET User /\ present \in SUBSET User
    BY DEF TInv, WTypeOK
  <2> QED
    BY <2>1, <2>2 DEF TInv, Told
<1> QED
  BY <1>1, TInitially, TStep, PTL DEF WSpec

-----------------------------------------------------------------------------
(* What is said of the signals of p in s holds of t.                       *)
Kept(s, t, p) ==
    /\ Free(s, p) => Free(t, p)
    /\ NoOut(s, p) => NoOut(t, p)
    /\ \A type \in {"offer", "answer"}, n \in Nat : One(s, p, type, n) => One(t, p, type, n)
    /\ \A n, m \in Nat : Two(s, p, n, m) => Two(t, p, n, m)
    /\ FirstOffer(s, p) => FirstOffer(t, p)

LEMMA KeptLonger ==
    ASSUME NEW s \in Seq(Events), NEW p \in User, NEW e \in Events, e.from # p
    PROVE  Kept(s, Append(s, e), p)
<1> DEFINE t == Append(s, e)
           l == Len(s) + 1
<1>1. /\ DOMAIN t = DOMAIN s \cup {l} /\ t[l] = e /\ l \in Nat
      /\ \A i \in DOMAIN s : i \in Nat /\ i < l /\ t[i] = s[i]
  BY Longer
<1>2. ~IsSig(e, p) /\ e # State(p, FALSE)
  BY DEF IsSig, State
<1> HIDE DEF t, l
<1>3. (Free(s, p) => Free(t, p)) /\ (NoOut(s, p) => NoOut(t, p))
  BY <1>1, <1>2 DEF Free, NoOut
<1>4. ASSUME NEW type \in {"offer", "answer"}, NEW n \in Nat, One(s, p, type, n)
      PROVE  One(t, p, type, n)
  <2>1. PICK i \in DOMAIN s : /\ s[i] = Signal(type, p, n)
                              /\ \A j \in DOMAIN s : j # i => ~IsSig(s[j], p)
                              /\ \A j \in DOMAIN s : j > i => s[j].from # p
    BY <1>4 DEF One
  <2>2. /\ i \in DOMAIN t /\ t[i] = Signal(type, p, n)
        /\ \A j \in DOMAIN t : j # i => ~IsSig(t[j], p)
        /\ \A j \in DOMAIN t : j > i => t[j].from # p
    BY <1>1, <1>2, <2>1
  <2> QED
    BY <2>2 DEF One
<1>5. ASSUME NEW n \in Nat, NEW m \in Nat, Two(s, p, n, m) PROVE Two(t, p, n, m)
  <2>1. PICK i \in DOMAIN s, k \in DOMAIN s :
          /\ i < k /\ s[i] = Signal("answer", p, n) /\ s[k] = Signal("offer", p, m)
          /\ \A j \in DOMAIN s : j # i /\ j # k => ~IsSig(s[j], p)
          /\ \A j \in DOMAIN s : j > k => s[j].from # p
    BY <1>5 DEF Two
  <2>2. /\ i \in DOMAIN t /\ k \in DOMAIN t
        /\ t[i] = Signal("answer", p, n) /\ t[k] = Signal("offer", p, m)
        /\ \A j \in DOMAIN t : j # i /\ j # k => ~IsSig(t[j], p)
        /\ \A j \in DOMAIN t : j > k => t[j].from # p
    BY <1>1, <1>2, <2>1
  <2> QED
    BY <2>1, <2>2 DEF Two
<1>6. ASSUME FirstOffer(s, p) PROVE FirstOffer(t, p)
  <2>1. PICK i \in DOMAIN s : /\ IsSig(s[i], p) /\ s[i].type = "offer"
                              /\ \A j \in DOMAIN s : j < i => ~IsSig(s[j], p)
    BY <1>6 DEF FirstOffer
  <2>2. /\ i \in DOMAIN t /\ IsSig(t[i], p) /\ t[i].type = "offer"
        /\ \A j \in DOMAIN t : j < i => ~IsSig(t[j], p)
    BY <1>1, <1>2, <2>1
  <2> QED
    BY <2>2 DEF FirstOffer
<1>7. Kept(s, t, p)
  BY <1>3, <1>4, <1>5, <1>6 DEF Kept
<1> QED
  BY <1>7 DEF t

LEMMA KeptOr ==
    ASSUME NEW s \in Seq(Events), NEW p \in User, NEW t,
           t = s \/ \E e \in Events : e.from # p /\ t = Append(s, e)
    PROVE  Kept(s, t, p)
<1>1. CASE t = s
  BY <1>1 DEF Kept
<1>2. CASE \E e \in Events : e.from # p /\ t = Append(s, e)
  BY <1>2, KeptLonger
<1> QED
  BY <1>1, <1>2

LEMMA KeptShorter ==
    ASSUME NEW s \in Seq(Events), s # <<>>, NEW p \in User, ~IsSig(Head(s), p)
    PROVE  Kept(s, Tail(s), p)
<1> DEFINE t == Tail(s)
<1>1. /\ Head(s) = s[1] /\ 1 \in DOMAIN s
      /\ \A i \in DOMAIN t : i \in Nat /\ i + 1 \in DOMAIN s /\ t[i] = s[i + 1]
      /\ \A i \in DOMAIN s : /\ i \in Nat /\ i > 0
                             /\ i # 1 => i - 1 \in DOMAIN t /\ t[i - 1] = s[i]
  BY Shorter
<1>2. \A type, n : Signal(type, p, n).type = type /\ Signal(type, p, n).from = p
  BY DEF Signal
<1> HIDE DEF t
<1>3. (Free(s, p) => Free(t, p)) /\ (NoOut(s, p) => NoOut(t, p))
  BY <1>1, ZenonT(30) DEF Free, NoOut
<1>4. ASSUME NEW type \in {"offer", "answer"}, NEW n \in Nat, One(s, p, type, n)
      PROVE  One(t, p, type, n)
  <2>1. PICK i \in DOMAIN s : /\ s[i] = Signal(type, p, n)
                              /\ \A j \in DOMAIN s : j # i => ~IsSig(s[j], p)
                              /\ \A j \in DOMAIN s : j > i => s[j].from # p
    BY <1>4 DEF One
  <2>2. i # 1
    BY <1>1, <1>2, <2>1 DEF IsSig
  <2>3. /\ i - 1 \in DOMAIN t /\ t[i - 1] = Signal(type, p, n)
        /\ \A j \in DOMAIN t : j # i - 1 => ~IsSig(t[j], p)
        /\ \A j \in DOMAIN t : j > i - 1 => t[j].from # p
    <3>1. i - 1 \in DOMAIN t /\ t[i - 1] = Signal(type, p, n)
      BY <1>1, <2>1, <2>2
    <3>2. ASSUME NEW j \in DOMAIN t
          PROVE  /\ j # i - 1 => ~IsSig(t[j], p)
                 /\ j > i - 1 => t[j].from # p
      <4>1. /\ j + 1 \in DOMAIN s /\ t[j] = s[j + 1]
            /\ j # i - 1 => j + 1 # i
            /\ j > i - 1 => j + 1 > i
        BY <1>1, <2>1
      <4> QED
        BY <2>1, <4>1
    <3> QED
      BY <3>1, <3>2
  <2> QED
    BY <2>3 DEF One
<1>5. ASSUME NEW n \in Nat, NEW m \in Nat, Two(s, p, n, m) PROVE Two(t, p, n, m)
  <2>1. PICK i \in DOMAIN s, k \in DOMAIN s :
          /\ i < k /\ s[i] = Signal("answer", p, n) /\ s[k] = Signal("offer", p, m)
          /\ \A j \in DOMAIN s : j # i /\ j # k => ~IsSig(s[j], p)
          /\ \A j \in DOMAIN s : j > k => s[j].from # p
    BY <1>5 DEF Two
  <2>2. IsSig(s[i], p) /\ i # 1 /\ k # 1
    BY <1>1, <1>2, <2>1 DEF IsSig
  <2>3. /\ i - 1 \in DOMAIN t /\ k - 1 \in DOMAIN t /\ i - 1 < k - 1
        /\ t[i - 1] = Signal("answer", p, n) /\ t[k - 1] = Signal("offer", p, m)
        /\ \A j \in DOMAIN t : j # i - 1 /\ j # k - 1 => ~IsSig(t[j], p)
        /\ \A j \in DOMAIN t : j > k - 1 => t[j].from # p
    <3>1. /\ i - 1 \in DOMAIN t /\ k - 1 \in DOMAIN t /\ i - 1 < k - 1
          /\ t[i - 1] = Signal("answer", p, n) /\ t[k - 1] = Signal("offer", p, m)
      BY <1>1, <2>1, <2>2
    <3>2. ASSUME NEW j \in DOMAIN t
          PROVE  /\ j # i - 1 /\ j # k - 1 => ~IsSig(t[j], p)
                 /\ j > k - 1 => t[j].from # p
      <4>1. /\ j \in Nat /\ j + 1 \in DOMAIN s /\ t[j] = s[j + 1]
            /\ i \in Nat /\ k \in Nat
        BY <1>1
      <4> QED
        BY <2>1, <4>1
    <3> QED
      BY <3>1, <3>2
  <2> QED
    BY <2>3 DEF Two
<1>6. ASSUME FirstOffer(s, p) PROVE FirstOffer(t, p)
  <2>1. PICK i \in DOMAIN s : /\ IsSig(s[i], p) /\ s[i].type = "offer"
                              /\ \A j \in DOMAIN s : j < i => ~IsSig(s[j], p)
    BY <1>6 DEF FirstOffer
  <2>2. i # 1
    BY <1>1, <2>1
  <2>3. /\ i - 1 \in DOMAIN t /\ IsSig(t[i - 1], p) /\ t[i - 1].type = "offer"
        /\ \A j \in DOMAIN t : j < i - 1 => ~IsSig(t[j], p)
    BY <1>1, <2>1, <2>2, SMTT(30)
  <2> QED
    BY <2>3 DEF FirstOffer
<1>7. Kept(s, t, p)
  BY <1>3, <1>4, <1>5, <1>6 DEF Kept
<1> QED
  BY <1>7 DEF t

(* One signal of p more, and the next one taken.                           *)
LEMMA SignalMore ==
    ASSUME NEW s \in Seq(Events), NEW p \in User, NEW n \in Nat,
           NEW type \in {"offer", "answer"}
    PROVE  /\ NoOut(s, p) => NoOut(Append(s, Signal(type, p, n)), p)
           /\ Free(s, p) => One(Append(s, Signal(type, p, n)), p, type, n)
           /\ (Free(s, p) /\ type = "offer") \/ FirstOffer(s, p)
                => FirstOffer(Append(s, Signal(type, p, n)), p)
           /\ \A k \in Nat : One(s, p, "answer", k) /\ type = "offer"
                => Two(Append(s, Signal(type, p, n)), p, k, n)
<1>0. PICK e \in Events : /\ e = Signal(type, p, n) /\ e.type = type
                         /\ e.from = p /\ IsSig(e, p)
  BY EventsAre DEF IsSig
<1> DEFINE t == Append(s, e)
           l == Len(s) + 1
<1>1. /\ DOMAIN t = DOMAIN s \cup {l} /\ t[l] = e /\ l \in Nat
      /\ \A i \in DOMAIN s : i \in Nat /\ i < l /\ t[i] = s[i]
  BY Longer
<1>2. e # State(p, FALSE)
  BY <1>0 DEF State
<1> HIDE DEF t, l
<1>3. NoOut(s, p) => NoOut(t, p)
  BY <1>1, <1>2 DEF NoOut
<1>4. ASSUME Free(s, p) PROVE One(t, p, type, n)
  <2>1. /\ l \in DOMAIN t /\ t[l] = Signal(type, p, n)
        /\ \A j \in DOMAIN t : j # l => ~IsSig(t[j], p)
        /\ \A j \in DOMAIN t : ~(j > l)
    BY <1>0, <1>1, <1>4 DEF Free
  <2> QED
    BY <2>1 DEF One
<1>5. ASSUME (Free(s, p) /\ type = "offer") \/ FirstOffer(s, p)
      PROVE  FirstOffer(t, p)
  <2>1. CASE FirstOffer(s, p)
    <3>1. PICK i \in DOMAIN s : /\ IsSig(s[i], p) /\ s[i].type = "offer"
                                /\ \A j \in DOMAIN s : j < i => ~IsSig(s[j], p)
      BY <2>1 DEF FirstOffer
    <3>2. /\ i \in DOMAIN t /\ IsSig(t[i], p) /\ t[i].type = "offer"
          /\ \A j \in DOMAIN t : j < i => ~IsSig(t[j], p)
      BY <1>1, <3>1
    <3> QED
      BY <3>2 DEF FirstOffer
  <2>2. CASE Free(s, p) /\ type = "offer"
    <3>1. /\ l \in DOMAIN t /\ IsSig(t[l], p) /\ t[l].type = "offer"
          /\ \A j \in DOMAIN t : j < l => ~IsSig(t[j], p)
      BY <1>0, <1>1, <2>2 DEF Free
    <3> QED
      BY <3>1 DEF FirstOffer
  <2> QED
    BY <1>5, <2>1, <2>2
<1>6. ASSUME NEW k \in Nat, One(s, p, "answer", k), type = "offer"
      PROVE  Two(t, p, k, n)
  <2>1. PICK i \in DOMAIN s : /\ s[i] = Signal("answer", p, k)
                              /\ \A j \in DOMAIN s : j # i => ~IsSig(s[j], p)
    BY <1>6 DEF One
  <2>2. /\ i \in DOMAIN t /\ l \in DOMAIN t /\ i < l
        /\ t[i] = Signal("answer", p, k) /\ t[l] = Signal("offer", p, n)
        /\ \A j \in DOMAIN t : j # i /\ j # l => ~IsSig(t[j], p)
        /\ \A j \in DOMAIN t : ~(j > l)
    BY <1>0, <1>1, <1>6, <2>1
  <2> QED
    BY <2>2 DEF Two
<1> QED
  BY <1>0, <1>3, <1>4, <1>5, <1>6 DEF t

LEMMA SignalTaken ==
    ASSUME NEW s \in Seq(Events), s # <<>>, NEW p \in User, IsSig(Head(s), p)
    PROVE  /\ ~Free(s, p) /\ (NoOut(s, p) => NoOut(Tail(s), p))
           /\ \A type \in {"offer", "answer"}, n \in Nat : One(s, p, type, n) =>
                /\ Head(s) = Signal(type, p, n) /\ Free(Tail(s), p)
                /\ NoOut(Tail(s), p) /\ Silent(s, p)
           /\ \A n, m \in Nat : Two(s, p, n, m) =>
                /\ Head(s) = Signal("answer", p, n) /\ One(Tail(s), p, "offer", m)
           /\ FirstOffer(s, p) => Head(s).type = "offer"
<1> DEFINE t == Tail(s)
<1>1. /\ Head(s) = s[1] /\ 1 \in DOMAIN s
      /\ \A i \in DOMAIN t : i \in Nat /\ i > 0 /\ i + 1 \in DOMAIN s /\ t[i] = s[i + 1]
      /\ \A i \in DOMAIN s : /\ i \in Nat /\ i > 0
                             /\ i # 1 => i - 1 \in DOMAIN t /\ t[i - 1] = s[i]
  BY Shorter
<1>2. /\ \A type, n : Signal(type, p, n).type = type /\ Signal(type, p, n).from = p
      /\ State(p, FALSE).from = p
  BY DEF Signal, State
<1> HIDE DEF t
<1>3. ~Free(s, p) /\ (NoOut(s, p) => NoOut(t, p))
  BY <1>1, ZenonT(30) DEF Free, NoOut
<1>4. ASSUME NEW type \in {"offer", "answer"}, NEW n \in Nat, One(s, p, type, n)
      PROVE  /\ Head(s) = Signal(type, p, n) /\ Free(t, p)
             /\ NoOut(t, p) /\ Silent(s, p)
  <2>1. PICK i \in DOMAIN s : /\ s[i] = Signal(type, p, n)
                              /\ \A j \in DOMAIN s : j # i => ~IsSig(s[j], p)
                              /\ \A j \in DOMAIN s : j > i => s[j].from # p
    BY <1>4 DEF One
  <2>2. i = 1
    BY <1>1, <2>1
  <2>3. \A j \in DOMAIN t : t[j].from # p /\ ~IsSig(t[j], p)
    BY <1>1, <2>1, <2>2
  <2>4. Free(t, p) /\ NoOut(t, p)
    BY <1>2, <2>3 DEF Free, NoOut
  <2>5. Silent(s, p)
    <3>1. \A j \in DOMAIN s : j # 1 => s[j].from # p
      BY <1>1, <2>1, <2>2
    <3> QED
      BY <1>1, <3>1 DEF Silent, About, IsSig
  <2> QED
    BY <1>1, <2>1, <2>2, <2>4, <2>5
<1>5. ASSUME NEW n \in Nat, NEW m \in Nat, Two(s, p, n, m)
      PROVE  Head(s) = Signal("answer", p, n) /\ One(t, p, "offer", m)
  <2>1. PICK i \in DOMAIN s, k \in DOMAIN s :
          /\ i < k /\ s[i] = Signal("answer", p, n) /\ s[k] = Signal("offer", p, m)
          /\ \A j \in DOMAIN s : j # i /\ j # k => ~IsSig(s[j], p)
          /\ \A j \in DOMAIN s : j > k => s[j].from # p
    BY <1>5 DEF Two
  <2>2. i = 1 /\ k # 1
    BY <1>1, <2>1
  <2>3. /\ k - 1 \in DOMAIN t /\ t[k - 1] = Signal("offer", p, m)
        /\ \A j \in DOMAIN t : j # k - 1 => ~IsSig(t[j], p)
        /\ \A j \in DOMAIN t : j > k - 1 => t[j].from # p
    <3>1. k - 1 \in DOMAIN t /\ t[k - 1] = Signal("offer", p, m)
      BY <1>1, <2>1, <2>2
    <3>2. ASSUME NEW j \in DOMAIN t
          PROVE  /\ j # k - 1 => ~IsSig(t[j], p)
                 /\ j > k - 1 => t[j].from # p
      <4>1. /\ j \in Nat /\ j > 0 /\ j + 1 \in DOMAIN s /\ t[j] = s[j + 1]
            /\ k \in Nat
        BY <1>1
      <4> QED
        BY <2>1, <2>2, <4>1
    <3> QED
      BY <3>1, <3>2
  <2> QED
    BY <1>1, <2>1, <2>2, <2>3 DEF One
<1>6. ASSUME FirstOffer(s, p) PROVE Head(s).type = "offer"
  BY <1>1, <1>6 DEF FirstOffer
<1> QED
  BY <1>3, <1>4, <1>5, <1>6 DEF t

-----------------------------------------------------------------------------
(* How two users stand to each other.  u has p on its list and nothing on  *)
(* the way says that p left; u waits for p to take its offer; p answered,  *)
(* and may have made an offer of its own since; both made one, and u is to *)
(* find out; both agreed on one offer, and nothing is on the way.          *)
Linked(u, p) == p \in list[u] /\ NoOut(inbox[u], p)

Offers(u, p) ==
    /\ pc[u][p].sig = "offered" /\ pc[u][p].offer # 0
    /\ Linked(u, p) /\ Free(inbox[u], p)
    /\ One(inbox[p], u, "offer", pc[u][p].offer)
    /\ pc[u][p].link = 0 \/ (pc[p][u] # NoPc /\ Linked(p, u))

Answered(u, p) ==
    /\ pc[u][p].sig = "offered" /\ pc[u][p].offer # 0
    /\ pc[p][u].link = pc[u][p].offer
    /\ Linked(u, p) /\ Linked(p, u) /\ Free(inbox[p], u)
    /\ \/ /\ pc[p][u].sig = "stable" /\ pc[p][u].offer = 0
          /\ One(inbox[u], p, "answer", pc[u][p].offer)
       \/ /\ pc[p][u].sig = "offered" /\ pc[p][u].offer # 0
          /\ Two(inbox[u], p, pc[u][p].offer, pc[p][u].offer)

Crosses(u, p) ==
    /\ pc[u][p].sig = "offered" /\ Linked(u, p) /\ FirstOffer(inbox[u], p)
    /\ pc[u][p].link = 0 \/ (pc[p][u] # NoPc /\ Linked(p, u))

Connected(u, p) ==
    /\ pc[u][p].sig = "stable" /\ pc[u][p].link # 0 /\ pc[u][p].offer = 0
    /\ pc[p][u] = pc[u][p]
    /\ Linked(u, p) /\ Linked(p, u)
    /\ Free(inbox[u], p) /\ Free(inbox[p], u)

Talking(u, p) == \/ Connected(u, p)
                 \/ Offers(u, p) \/ Offers(p, u)
                 \/ Answered(u, p) \/ Answered(p, u)
                 \/ Crosses(u, p) \/ Crosses(p, u)

(* u will offer to p, once it takes its list over.                         *)
WillOffer(u, p) == p \in snap[u] /\ NoOut(inbox[u], p)

Pair(u, p) ==
    /\ at[u] = "in" /\ at[p] = "in" => Talking(u, p)
    /\ at[u] = "listing" /\ at[p] = "in" =>
          WillOffer(u, p) \/ (Offers(p, u) /\ pc[p][u].link = 0)
    /\ at[u] = "listing" /\ at[p] = "listing" => WillOffer(u, p) \/ WillOffer(p, u)

Pairs == \A u \in User : \A p \in User \ {u} :
             {u, p} \cap upset = {} => Pair(u, p)

CInv == TInv /\ Pairs

LEMMA PcIs ==
    ASSUME WTypeOK, NEW u \in User, NEW p \in User
    PROVE  pc[u][p] \in PcType /\ pc[u][p].offer \in Nat /\ pc[u][p].link \in Nat
  BY DEF WTypeOK, PcType

(* A phase lasts as long as nothing happens between the two.               *)
LEMMA PhaseKeeps ==
    ASSUME WTypeOK, NEW u \in User, NEW p \in User,
           Kept(inbox[u], inbox'[u], p), Kept(inbox[p], inbox'[p], u),
           Linked(u, p) => p \in list'[u] /\ pc'[u][p] = pc[u][p],
           Linked(p, u) => u \in list'[p] /\ pc'[p][u] = pc[p][u]
    PROVE  /\ Connected(u, p) => Connected(u, p)'
           /\ Offers(u, p) => Offers(u, p)' /\ pc'[u][p] = pc[u][p]
           /\ Answered(u, p) => Answered(u, p)'
           /\ Crosses(u, p) => Crosses(u, p)'
<1>1. /\ Linked(u, p) => Linked(u, p)' /\ pc'[u][p] = pc[u][p]
      /\ Linked(p, u) => Linked(p, u)' /\ pc'[p][u] = pc[p][u]
  BY DEF Linked, Kept
<1>2. /\ pc[u][p].offer \in Nat /\ pc[p][u].offer \in Nat
  BY PcIs
<1>3. /\ Free(inbox[u], p) => Free(inbox'[u], p)
      /\ Free(inbox[p], u) => Free(inbox'[p], u)
      /\ \A type \in {"offer", "answer"}, n \in Nat :
           /\ One(inbox[u], p, type, n) => One(inbox'[u], p, type, n)
           /\ One(inbox[p], u, type, n) => One(inbox'[p], u, type, n)
      /\ \A n, m \in Nat : Two(inbox[u], p, n, m) => Two(inbox'[u], p, n, m)
      /\ FirstOffer(inbox[u], p) => FirstOffer(inbox'[u], p)
  BY DEF Kept
<1>4. ASSUME Connected(u, p) PROVE Connected(u, p)'
  BY <1>1, <1>3, <1>4 DEF Connected
<1>5. ASSUME Offers(u, p) PROVE Offers(u, p)' /\ pc'[u][p] = pc[u][p]
  BY <1>1, <1>2, <1>3, <1>5 DEF Offers
<1>6. ASSUME Answered(u, p) PROVE Answered(u, p)'
  BY <1>1, <1>2, <1>3, <1>6 DEF Answered
<1>7. ASSUME Crosses(u, p) PROVE Crosses(u, p)'
  BY <1>1, <1>3, <1>7 DEF Crosses
<1> QED
  BY <1>4, <1>5, <1>6, <1>7

LEMMA PairKeeps ==
    ASSUME WTypeOK, NEW u \in User, NEW p \in User, Pair(u, p),
           at'[u] = at[u], at'[p] = at[p], snap'[u] = snap[u], snap'[p] = snap[p],
           Kept(inbox[u], inbox'[u], p), Kept(inbox[p], inbox'[p], u),
           Linked(u, p) => p \in list'[u] /\ pc'[u][p] = pc[u][p],
           Linked(p, u) => u \in list'[p] /\ pc'[p][u] = pc[p][u]
    PROVE  Pair(u, p)'
<1>1. /\ Connected(u, p) => Connected(u, p)'
      /\ Offers(u, p) => Offers(u, p)' /\ pc'[u][p] = pc[u][p]
      /\ Answered(u, p) => Answered(u, p)'
      /\ Crosses(u, p) => Crosses(u, p)'
  BY PhaseKeeps
<1>2. /\ Offers(p, u) => Offers(p, u)' /\ pc'[p][u] = pc[p][u]
      /\ Answered(p, u) => Answered(p, u)'
      /\ Crosses(p, u) => Crosses(p, u)'
  BY PhaseKeeps
<1>3. Talking(u, p) => Talking(u, p)'
  BY <1>1, <1>2 DEF Talking
<1>4. /\ WillOffer(u, p) => WillOffer(u, p)'
      /\ WillOffer(p, u) => WillOffer(p, u)'
  BY DEF WillOffer, Kept
<1> QED
  BY <1>2, <1>3, <1>4 DEF Pair

(* The pairs a step of u has no part in, and those of a user who is        *)
(* neither in the channel nor about to be.                                 *)
LEMMA PairSame ==
    ASSUME WTypeOK, NEW u \in User, NEW p \in User, Pair(u, p),
           at'[u] = at[u], at'[p] = at[p], snap'[u] = snap[u], snap'[p] = snap[p],
           list'[u] = list[u], list'[p] = list[p],
           pc'[u][p] = pc[u][p], pc'[p][u] = pc[p][u],
           \/ inbox'[u] = inbox[u]
           \/ \E e \in Events : e.from # p /\ inbox'[u] = Append(inbox[u], e),
           \/ inbox'[p] = inbox[p]
           \/ \E e \in Events : e.from # u /\ inbox'[p] = Append(inbox[p], e)
    PROVE  Pair(u, p)'
<1>1. inbox[u] \in Seq(Events) /\ inbox[p] \in Seq(Events)
  BY DEF WTypeOK
<1>2. Kept(inbox[u], inbox'[u], p)
  BY <1>1, KeptOr
<1>3. Kept(inbox[p], inbox'[p], u)
  BY <1>1, KeptOr
<1>4. /\ Linked(u, p) => p \in list'[u] /\ pc'[u][p] = pc[u][p]
      /\ Linked(p, u) => u \in list'[p] /\ pc'[p][u] = pc[p][u]
  BY DEF Linked
<1> QED
  BY <1>2, <1>3, <1>4, PairKeeps

LEMMA PairOut ==
    ASSUME NEW u, NEW p, at'[u] \notin {"in", "listing"} \/ at'[p] \notin {"in", "listing"}
    PROVE  Pair(u, p)'
  BY DEF Pair

(* Pairs without u, and all pairs while u is not in the channel.           *)
LEMMA Aside ==
    ASSUME CInv, NEW u \in User, NEW v \in User, NEW x \in User,
           v # u, x # u, v # x, {v, x} \cap upset' = {}, upset \subseteq upset',
           \A w \in {v, x} :
             /\ at'[w] = at[w] /\ snap'[w] = snap[w] /\ list'[w] = list[w]
             /\ \/ inbox'[w] = inbox[w]
                \/ \E e \in Events : e.from = u /\ inbox'[w] = Append(inbox[w], e),
           pc'[v][x] = pc[v][x], pc'[x][v] = pc[x][v]
    PROVE  Pair(v, x)'
<1>1. WTypeOK /\ Pair(v, x)
  BY DEF CInv, TInv, Pairs
<1>2. /\ at'[v] = at[v] /\ snap'[v] = snap[v] /\ list'[v] = list[v]
      /\ at'[x] = at[x] /\ snap'[x] = snap[x] /\ list'[x] = list[x]
  OBVIOUS
<1>3. /\ \/ inbox'[v] = inbox[v]
         \/ \E e \in Events : e.from # x /\ inbox'[v] = Append(inbox[v], e)
      /\ \/ inbox'[x] = inbox[x]
         \/ \E e \in Events : e.from # v /\ inbox'[x] = Append(inbox[x], e)
  OBVIOUS
<1> QED
  BY <1>1, <1>2, <1>3, PairSame

LEMMA Outside ==
    ASSUME CInv, NEW u \in User, at'[u] \notin {"in", "listing"}, upset \subseteq upset',
           \A w \in User : w # u =>
             /\ at'[w] = at[w] /\ snap'[w] = snap[w] /\ list'[w] = list[w]
             /\ pc'[w] = pc[w]
             /\ \/ inbox'[w] = inbox[w]
                \/ \E e \in Events : e.from = u /\ inbox'[w] = Append(inbox[w], e)
    PROVE  Pairs'
<1>1. ASSUME NEW v \in User, NEW x \in User, v # x, {v, x} \cap upset' = {}
      PROVE  Pair(v, x)'
  <2>1. CASE v = u \/ x = u
    BY <2>1, PairOut
  <2>2. CASE v # u /\ x # u
    <3>1. /\ \A w \in {v, x} :
               /\ at'[w] = at[w] /\ snap'[w] = snap[w] /\ list'[w] = list[w]
               /\ \/ inbox'[w] = inbox[w]
                  \/ \E e \in Events : e.from = u /\ inbox'[w] = Append(inbox[w], e)
          /\ pc'[v][x] = pc[v][x] /\ pc'[x][v] = pc[x][v]
      BY <2>2
    <3> QED
      BY <1>1, <2>2, <3>1, Aside
  <2> QED
    BY <2>1, <2>2
<1> QED
  BY <1>1 DEF Pairs

LEMMA CElsewhere ==
    ASSUME CInv, NEW u \in User,
           \/ HandleJoin(u) \/ JoinAnswered(u) \/ HandleLeave(u)
           \/ JoinServed(u) \/ LeaveServed(u) \/ Relisted(u)
    PROVE  Pairs'
<1>1. /\ WTypeOK /\ at \in [User -> Steps] /\ snap \in [User -> (SUBSET User) \cup {NoList}]
      /\ list \in [User -> SUBSET User] /\ inbox \in [User -> Seq(Events)]
  BY DEF CInv, TInv, WTypeOK
<1>2. CASE HandleJoin(u) \/ JoinAnswered(u) \/ HandleLeave(u)
  <2>1. /\ at'[u] \notin {"in", "listing"} /\ upset \subseteq upset'
        /\ \A w \in User : w # u =>
             /\ at'[w] = at[w] /\ snap'[w] = snap[w] /\ list'[w] = list[w]
             /\ pc'[w] = pc[w] /\ inbox'[w] = inbox[w]
    BY <1>1, <1>2 DEF HandleJoin, JoinAnswered, HandleLeave, lists, peers
  <2> QED
    BY <2>1, Outside
<1>3. CASE JoinServed(u) \/ LeaveServed(u)
  <2>1. PICK b \in BOOLEAN : inbox' = Tell(inbox, User, State(u, b))
    BY <1>3 DEF JoinServed, LeaveServed
  <2>2. PICK e \in Events : e = State(u, b) /\ e.from = u
    BY EventsAre
  <2>3. \A w \in User : inbox'[w] = Append(inbox[w], e)
    BY <2>1, <2>2 DEF Tell
  <2>4. /\ at'[u] \notin {"in", "listing"} /\ upset \subseteq upset'
        /\ \A w \in User : w # u =>
             /\ at'[w] = at[w] /\ snap'[w] = snap[w] /\ list'[w] = list[w]
             /\ pc'[w] = pc[w]
    BY <1>1, <1>3 DEF JoinServed, LeaveServed, lists, peers
  <2> QED
    BY <2>2, <2>3, <2>4, Outside
<1>4. CASE Relisted(u)
  <2>1. snap[u] # NoList
    BY <1>4 DEF CInv, TInv, Here, Relisted
  <2>2. /\ Keep(u, pc, snap[u]) \in [User -> [User -> PcType]]
        /\ \A v \in User : v # u => Keep(u, pc, snap[u])[v] = pc[v]
    <3>1. pc \in [User -> [User -> PcType]]
      BY <1>1 DEF WTypeOK
    <3> QED
      BY <3>1, KeepIs
  <2>3. /\ at'[u] \notin {"in", "listing"} /\ upset \subseteq upset'
        /\ \A w \in User : w # u =>
             /\ at'[w] = at[w] /\ snap'[w] = snap[w] /\ list'[w] = list[w]
             /\ pc'[w] = pc[w] /\ inbox'[w] = inbox[w]
    BY <1>1, <1>4, <2>2 DEF Relisted, Participants
  <2> QED
    BY <2>3, Outside
<1> QED
  BY <1>2, <1>3, <1>4

-----------------------------------------------------------------------------
LEMMA CListServed ==
    ASSUME CInv, NEW u \in User, ListServed(u)
    PROVE  Pairs'
<1>1. /\ WTypeOK /\ at \in [User -> Steps] /\ snap \in [User -> (SUBSET User) \cup {NoList}]
      /\ inbox \in [User -> Seq(Events)]
  BY DEF CInv, TInv, WTypeOK
<1>2. /\ at[u] \in {"joined", "left"} /\ snap' = [snap EXCEPT ![u] = present]
      /\ at' = [at EXCEPT ![u] = IF @ = "joined" THEN "listing" ELSE "relisting"]
      /\ upset' = IF Outdated(u) = {} THEN upset ELSE upset \cup {u}
      /\ UNCHANGED <<present, list, peers, inbox, offers>>
  BY DEF ListServed
<1>3. /\ upset \subseteq upset'
      /\ \A w \in User : w # u =>
           /\ at'[w] = at[w] /\ snap'[w] = snap[w] /\ list'[w] = list[w]
           /\ pc'[w] = pc[w] /\ inbox'[w] = inbox[w]
  BY <1>1, <1>2 DEF peers
<1>4. CASE at[u] = "left"
  <2>1. at'[u] \notin {"in", "listing"}
    BY <1>1, <1>2, <1>4
  <2> QED
    BY <1>3, <2>1, Outside
<1>5. CASE at[u] = "joined"
  <2>1. at'[u] = "listing" /\ snap'[u] = present
    BY <1>1, <1>2, <1>5
  <2>2. ASSUME NEW p \in User, u \notin upset', at'[p] \in {"in", "listing"}, p # u
        PROVE  WillOffer(u, p)'
    <3>1. p \in present
      BY <1>3, <2>2 DEF CInv, TInv, Here
    <3>2. State(p, FALSE) \notin Range(inbox[u])
      BY <1>2, <2>2, <3>1 DEF Outdated
    <3>3. NoOut(inbox[u], p)
      BY <1>1, <3>2 DEF NoOut, Range
    <3> QED
      BY <1>2, <2>1, <3>1, <3>3 DEF WillOffer
  <2>3. ASSUME NEW v \in User, NEW x \in User, v # x, {v, x} \cap upset' = {}
        PROVE  Pair(v, x)'
    <3>1. CASE v = u
      BY <2>1, <2>2, <2>3, <3>1 DEF Pair
    <3>2. CASE x = u
      BY <2>1, <2>2, <2>3, <3>2 DEF Pair
    <3>3. CASE v # u /\ x # u
      BY <1>3, <2>3, <3>3, Aside
    <3> QED
      BY <3>1, <3>2, <3>3
  <2> QED
    BY <2>3 DEF Pairs
<1> QED
  BY <1>2, <1>4, <1>5

LEMMA CPcFails ==
    ASSUME CInv, NEW u \in User, NEW p \in User, p # u, PcFails(u, p)
    PROVE  Pairs'
<1>1. /\ pc[u][p].link # 0 /\ pc[p][u] = NoPc
      /\ UNCHANGED <<present, at, lists, inbox, upset>>
      /\ \A v, x \in User : v # u \/ x # p => pc'[v][x] = pc[v][x]
  BY PcFailsDoes DEF CInv
<1>2. WTypeOK /\ UNCHANGED <<snap, list>>
  BY <1>1 DEF CInv, TInv, lists
<1>3. NoPc.sig = "none" /\ NoPc.link = 0
  BY DEF NoPc
<1>4. ~(Talking(u, p) \/ Talking(p, u) \/ (Offers(p, u) /\ pc[p][u].link = 0)
        \/ (Offers(u, p) /\ pc[u][p].link = 0))
  BY <1>1, <1>3 DEF Talking, Connected, Offers, Answered, Crosses
<1>5. ASSUME NEW v \in User, NEW x \in User, v # x, {v, x} \cap upset' = {}
      PROVE  Pair(v, x)'
  <2>1. Pair(v, x)
    BY <1>1, <1>5 DEF CInv, Pairs
  <2>2. WillOffer(v, x)' <=> WillOffer(v, x)
    BY <1>1, <1>2 DEF WillOffer
  <2>3. WillOffer(x, v)' <=> WillOffer(x, v)
    BY <1>1, <1>2 DEF WillOffer
  <2>4. CASE (v = u /\ x = p) \/ (v = p /\ x = u)
    BY <1>1, <1>4, <2>1, <2>2, <2>3, <2>4 DEF Pair
  <2>5. CASE ~((v = u /\ x = p) \/ (v = p /\ x = u))
    <3>0. (v # u \/ x # p) /\ (x # u \/ v # p)
      BY <2>5
    <3>1. pc'[v][x] = pc[v][x] /\ pc'[x][v] = pc[x][v]
      BY <1>1, <3>0
    <3>2. /\ at'[v] = at[v] /\ snap'[v] = snap[v] /\ list'[v] = list[v]
          /\ at'[x] = at[x] /\ snap'[x] = snap[x] /\ list'[x] = list[x]
          /\ inbox'[v] = inbox[v] /\ inbox'[x] = inbox[x]
      BY <1>1, <1>2
    <3> QED
      BY <1>2, <2>1, <3>1, <3>2, PairSame
  <2> QED
    BY <2>4, <2>5
<1> QED
  BY <1>5 DEF Pairs

-----------------------------------------------------------------------------
(* The pair of a client that takes an event, whatever it is, if not a      *)
(* signal of the other end.                                                *)
LEMMA OtherTaken ==
    ASSUME CInv, NEW u \in User, NEW v \in User, NEW x \in User, v # x,
           u \in {v, x}, {v, x} \cap upset' = {}, upset \subseteq upset',
           inbox[u] # <<>>, inbox'[u] = Tail(inbox[u]),
           \A p \in {v, x} \ {u} :
             /\ ~IsSig(Head(inbox[u]), p)
             /\ \/ inbox'[p] = inbox[p]
                \/ \E e \in Events : e.from # u /\ inbox'[p] = Append(inbox[p], e)
             /\ Linked(u, p) => p \in list'[u] /\ pc'[u][p] = pc[u][p]
             /\ list'[p] = list[p] /\ pc'[p][u] = pc[p][u],
           \A w \in {v, x} : at'[w] = at[w] /\ snap'[w] = snap[w]
    PROVE  Pair(v, x)'
<1>1. WTypeOK /\ Pair(v, x) /\ inbox[v] \in Seq(Events) /\ inbox[x] \in Seq(Events)
  BY DEF CInv, TInv, Pairs, WTypeOK
<1>2. ASSUME NEW p \in {v, x}, p # u
      PROVE  /\ Kept(inbox[u], inbox'[u], p) /\ Kept(inbox[p], inbox'[p], u)
             /\ Linked(u, p) => p \in list'[u] /\ pc'[u][p] = pc[u][p]
             /\ Linked(p, u) => u \in list'[p] /\ pc'[p][u] = pc[p][u]
  <2>1. Kept(inbox[u], inbox'[u], p)
    BY <1>1, <1>2, KeptShorter
  <2>2. Kept(inbox[p], inbox'[p], u)
    BY <1>1, <1>2, KeptOr
  <2> QED
    BY <1>2, <2>1, <2>2 DEF Linked
<1>3. /\ at'[v] = at[v] /\ snap'[v] = snap[v] /\ at'[x] = at[x] /\ snap'[x] = snap[x]
  OBVIOUS
<1>4. CASE u = v
  <2>1. /\ Kept(inbox[v], inbox'[v], x) /\ Kept(inbox[x], inbox'[x], v)
        /\ Linked(v, x) => x \in list'[v] /\ pc'[v][x] = pc[v][x]
        /\ Linked(x, v) => v \in list'[x] /\ pc'[x][v] = pc[x][v]
    BY <1>2, <1>4
  <2> QED
    BY <1>1, <1>3, <2>1, PairKeeps
<1>5. CASE u = x
  <2>1. /\ Kept(inbox[v], inbox'[v], x) /\ Kept(inbox[x], inbox'[x], v)
        /\ Linked(v, x) => x \in list'[v] /\ pc'[v][x] = pc[v][x]
        /\ Linked(x, v) => v \in list'[x] /\ pc'[x][v] = pc[x][v]
    BY <1>2, <1>5
  <2> QED
    BY <1>1, <1>3, <2>1, PairKeeps
<1> QED
  BY <1>4, <1>5

LEMMA COnState ==
    ASSUME CInv, NEW u \in User, OnState(u)
    PROVE  Pairs'
<1>1. /\ inbox[u] # <<>> /\ Head(inbox[u]).type = "state"
      /\ inbox'[u] = Tail(inbox[u])
      /\ UNCHANGED <<present, at, snap>> /\ upset \subseteq upset'
      /\ \A v \in User : v # u =>
           inbox'[v] = inbox[v] /\ list'[v] = list[v] /\ pc'[v] = pc[v]
      /\ list'[u] = IF Head(inbox[u]).in
                    THEN list[u] \cup {Head(inbox[u]).from}
                    ELSE list[u] \ {Head(inbox[u]).from}
      /\ \A p \in User : pc'[u][p] = IF p \in list'[u] THEN pc[u][p] ELSE NoPc
  BY OnStateDoes DEF CInv
<1>2. ASSUME NEW p \in User, Linked(u, p)
      PROVE  p \in list'[u] /\ pc'[u][p] = pc[u][p]
  <2>1. PICK s \in Seq(Events) : s = inbox[u]
    BY DEF CInv, TInv, WTypeOK
  <2>2. s # <<>> /\ Head(s) = s[1] /\ 1 \in DOMAIN s /\ Head(s) \in Events
    <3>1. s # <<>>
      BY <1>1, <2>1
    <3> QED
      BY <3>1, Shorter
  <2>3. Head(s) # State(p, FALSE) /\ p \in list[u]
    BY <1>2, <2>1, <2>2 DEF Linked, NoOut
  <2>4. ~(Head(s).from = p /\ ~Head(s).in)
    <3>1. /\ Head(s) \in [type : {"state", "offer", "answer"}, from : User,
                          in : BOOLEAN, n : Nat]
          /\ Head(s).type = "state" /\ Head(s).n = 0
      BY <1>1, <2>1, <2>2 DEF Events
    <3> QED
      BY <2>3, <3>1 DEF State
  <2> QED
    BY <1>1, <2>1, <2>3, <2>4
<1>3. ASSUME NEW v \in User, NEW x \in User, v # x, {v, x} \cap upset' = {}
      PROVE  Pair(v, x)'
  <2>1. CASE u \in {v, x}
    <3>1. \A p \in {v, x} \ {u} :
             /\ ~IsSig(Head(inbox[u]), p) /\ inbox'[p] = inbox[p]
             /\ Linked(u, p) => p \in list'[u] /\ pc'[u][p] = pc[u][p]
             /\ list'[p] = list[p] /\ pc'[p][u] = pc[p][u]
      BY <1>1, <1>2 DEF IsSig
    <3> QED
      BY <1>1, <1>3, <2>1, <3>1, OtherTaken
  <2>2. CASE u \notin {v, x}
    <3>1. pc'[v][x] = pc[v][x] /\ pc'[x][v] = pc[x][v]
      BY <1>1, <2>2
    <3> QED
      BY <1>1, <1>3, <2>2, <3>1, Aside
  <2> QED
    BY <2>1, <2>2
<1> QED
  BY <1>3 DEF Pairs

-----------------------------------------------------------------------------
(* The signal at the head of u's queue: what it tells of where the two are.*)
LEMMA HeadSignal ==
    ASSUME CInv, NEW u \in User, inbox[u] # <<>>, Head(inbox[u]).type # "state",
           NEW q, q = Head(inbox[u]).from
    PROVE  /\ q \in User /\ q # u /\ IsSig(Head(inbox[u]), q)
           /\ WTypeOK /\ Head(inbox[u]).n \in Nat
           /\ pc[u][q] \in PcType /\ pc[q][u] \in PcType
           /\ ~Free(inbox[u], q) /\ (NoOut(inbox[u], q) => NoOut(Tail(inbox[u]), q))
           /\ ~Connected(u, q) /\ ~Offers(u, q) /\ ~Answered(q, u)
           /\ Offers(q, u) => /\ Head(inbox[u]).type = "offer"
                              /\ Head(inbox[u]).n = pc[q][u].offer
                              /\ Free(Tail(inbox[u]), q) /\ NoOut(Tail(inbox[u]), q)
                              /\ Silent(inbox[u], q)
           /\ \A n \in Nat : One(inbox[u], q, "answer", n) =>
                /\ Head(inbox[u]).type = "answer" /\ Head(inbox[u]).n = n
                /\ Free(Tail(inbox[u]), q)
           /\ \A n, m \in Nat : Two(inbox[u], q, n, m) =>
                /\ Head(inbox[u]).type = "answer" /\ Head(inbox[u]).n = n
                /\ One(Tail(inbox[u]), q, "offer", m)
           /\ Crosses(u, q) => Head(inbox[u]).type = "offer"
<1>1. /\ TInv /\ q \in User /\ q # u /\ IsSig(Head(inbox[u]), q)
      /\ WTypeOK /\ Head(inbox[u]).n \in Nat
  BY NextIs DEF CInv, IsSig
<1>2. PICK s \in Seq(Events) : s = inbox[u]
  BY <1>1 DEF WTypeOK
<1>3. /\ ~Free(s, q) /\ (NoOut(s, q) => NoOut(Tail(s), q))
      /\ \A type \in {"offer", "answer"}, n \in Nat : One(s, q, type, n) =>
           /\ Head(s) = Signal(type, q, n) /\ Free(Tail(s), q)
           /\ NoOut(Tail(s), q) /\ Silent(s, q)
      /\ \A n, m \in Nat : Two(s, q, n, m) =>
           /\ Head(s) = Signal("answer", q, n) /\ One(Tail(s), q, "offer", m)
      /\ FirstOffer(s, q) => Head(s).type = "offer"
  <2>1. s # <<>> /\ IsSig(Head(s), q)
    BY <1>1, <1>2
  <2> QED
    BY <1>1, <2>1, SignalTaken
<1>4. \A type, n : Signal(type, q, n).type = type /\ Signal(type, q, n).n = n
  BY DEF Signal
<1>5. pc[u][q] \in PcType /\ pc[q][u] \in PcType /\ pc[q][u].offer \in Nat
  BY <1>1, PcIs
<1>6. ~Connected(u, q) /\ ~Offers(u, q) /\ ~Answered(q, u)
  BY <1>2, <1>3 DEF Connected, Offers, Answered
<1>7. Offers(q, u) => /\ Head(s).type = "offer" /\ Head(s).n = pc[q][u].offer
                      /\ Free(Tail(s), q) /\ NoOut(Tail(s), q) /\ Silent(s, q)
  <2>1. Offers(q, u) => One(s, q, "offer", pc[q][u].offer)
    BY <1>2 DEF Offers
  <2> QED
    BY <1>3, <1>4, <1>5, <2>1, SMTT(30)
<1>8. Crosses(u, q) => Head(s).type = "offer"
  BY <1>2, <1>3 DEF Crosses
<1> QED
  BY <1>1, <1>2, <1>3, <1>4, <1>5, <1>6, <1>7, <1>8

LEMMA AnswerPair ==
    ASSUME CInv, NEW u \in User, NEW q \in User, inbox[u] # <<>>,
           Head(inbox[u]).type = "answer", q = Head(inbox[u]).from,
           inbox'[u] = Tail(inbox[u]), inbox'[q] = inbox[q],
           UNCHANGED <<at, snap, list>>, {u, q} \cap upset = {}, WTypeOK',
           pc'[q][u] = pc[q][u],
           pc'[u][q] = IF pc[u][q].sig = "offered"
                       THEN Settled(Head(inbox[u]).n) ELSE pc[u][q]
    PROVE  Pair(u, q)' /\ Pair(q, u)'
<1>1. /\ q # u /\ WTypeOK /\ Head(inbox[u]).n \in Nat
      /\ pc[u][q] \in PcType /\ pc[q][u] \in PcType
      /\ ~Free(inbox[u], q) /\ (NoOut(inbox[u], q) => NoOut(inbox'[u], q))
      /\ ~Connected(u, q) /\ ~Offers(u, q) /\ ~Answered(q, u)
      /\ ~Offers(q, u) /\ ~Crosses(u, q)
      /\ \A n \in Nat : One(inbox[u], q, "answer", n) =>
           Head(inbox[u]).n = n /\ Free(inbox'[u], q)
      /\ \A n, m \in Nat : Two(inbox[u], q, n, m) =>
           Head(inbox[u]).n = n /\ One(inbox'[u], q, "offer", m)
  BY HeadSignal, SMTT(30)
<1>2. Pair(u, q) /\ Pair(q, u)
  BY <1>1 DEF CInv, Pairs
<1>3. \A n : Settled(n).sig = "stable" /\ Settled(n).offer = 0 /\ Settled(n).link = n
  BY DEF Settled
<1>4. (Linked(u, q) => Linked(u, q)') /\ (Linked(q, u) => Linked(q, u)')
  BY <1>1 DEF Linked
<1>5. ASSUME Answered(u, q) PROVE Connected(u, q)' \/ Offers(q, u)'
  <2>1. /\ pc[u][q].sig = "offered" /\ pc[u][q].offer # 0 /\ pc[u][q].offer \in Nat
        /\ pc[q][u].link = pc[u][q].offer /\ pc[q][u].offer \in Nat
        /\ Linked(u, q)' /\ Linked(q, u)' /\ Free(inbox'[q], u)
    BY <1>1, <1>4, <1>5, PcIs DEF Answered
  <2>2. CASE /\ pc[q][u].sig = "stable" /\ pc[q][u].offer = 0
             /\ One(inbox[u], q, "answer", pc[u][q].offer)
    <3>1. Head(inbox[u]).n = pc[u][q].offer /\ Free(inbox'[u], q)
      BY <1>1, <2>1, <2>2
    <3>2. pc[q][u] = Settled(pc[u][q].offer)
      BY <1>1, <2>1, <2>2 DEF Settled, PcType
    <3>3. pc'[u][q] = Settled(pc[u][q].offer) /\ pc'[q][u] = pc'[u][q]
      BY <2>1, <3>1, <3>2
    <3> QED
      BY <1>3, <2>1, <3>1, <3>3, SMTT(30) DEF Connected
  <2>3. CASE /\ pc[q][u].sig = "offered" /\ pc[q][u].offer # 0
             /\ Two(inbox[u], q, pc[u][q].offer, pc[q][u].offer)
    <3>1. /\ Head(inbox[u]).n = pc[u][q].offer
          /\ One(inbox'[u], q, "offer", pc[q][u].offer)
      BY <1>1, <2>1, <2>3
    <3>2. pc'[u][q].sig = "stable" /\ NoPc.sig = "none"
      BY <1>3, <2>1 DEF NoPc
    <3> QED
      BY <2>1, <2>3, <3>1, <3>2 DEF Offers
  <2> QED
    BY <1>5, <2>2, <2>3 DEF Answered
<1>6. ASSUME Crosses(q, u) PROVE Crosses(q, u)'
  <2>1. pc[u][q] # NoPc => pc'[u][q] # NoPc
    BY <1>3 DEF NoPc
  <2> QED
    BY <1>4, <1>6, <2>1 DEF Crosses
<1>7. Talking(u, q) => Talking(u, q)'
  BY <1>1, <1>5, <1>6 DEF Talking
<1>8. Talking(u, q)' => Talking(q, u)'
  <2>1. Connected(u, q)' => Connected(q, u)'
    BY DEF Connected
  <2> QED
    BY <2>1 DEF Talking
<1>9. Talking(q, u) => Talking(u, q)
  <2>1. Connected(q, u) => Connected(u, q)
    BY DEF Connected
  <2> QED
    BY <2>1 DEF Talking
<1>10. (WillOffer(u, q) => WillOffer(u, q)') /\ (WillOffer(q, u) => WillOffer(q, u)')
  BY <1>1 DEF WillOffer
<1> QED
  BY <1>1, <1>2, <1>7, <1>8, <1>9, <1>10 DEF Pair

LEMMA COnAnswer ==
    ASSUME CInv, NEW u \in User, OnAnswer(u)
    PROVE  Pairs'
<1>1. /\ WTypeOK' /\ inbox[u] # <<>> /\ Head(inbox[u]).type = "answer"
      /\ inbox'[u] = Tail(inbox[u])
      /\ \A v \in User : v # u => inbox'[v] = inbox[v]
      /\ UNCHANGED <<present, at, lists, upset>>
      /\ \A v, x \in User :
            v # u \/ x # Head(inbox[u]).from => pc'[v][x] = pc[v][x]
      /\ pc'[u][Head(inbox[u]).from] =
           IF Enabled(u) /\ pc[u][Head(inbox[u]).from].sig = "offered"
           THEN Settled(Head(inbox[u]).n) ELSE pc[u][Head(inbox[u]).from]
  BY OnAnswerDoes DEF CInv
<1>2. PICK q \in User : q = Head(inbox[u]).from /\ q # u
  BY <1>1, HeadSignal
<1>3. UNCHANGED <<at, snap, list>>
  BY <1>1 DEF lists
<1>4. ASSUME {u, q} \cap upset = {} PROVE Pair(u, q)' /\ Pair(q, u)'
  <2>1. CASE at[u] \in {"in", "listing"}
    <3>1. Enabled(u)
      BY <2>1 DEF Enabled
    <3>2. pc'[u][q] = IF pc[u][q].sig = "offered"
                      THEN Settled(Head(inbox[u]).n) ELSE pc[u][q]
      BY <1>1, <1>2, <3>1
    <3>3. pc'[q][u] = pc[q][u] /\ inbox'[q] = inbox[q]
      BY <1>1, <1>2
    <3> QED
      BY <1>1, <1>2, <1>3, <1>4, <3>2, <3>3, AnswerPair
  <2>2. CASE at[u] \notin {"in", "listing"}
    BY <1>3, <2>2, PairOut
  <2> QED
    BY <2>1, <2>2
<1>5. ASSUME NEW v \in User, NEW x \in User, v # x, {v, x} \cap upset' = {}
      PROVE  Pair(v, x)'
  <2>1. CASE (v = u /\ x = q) \/ (v = q /\ x = u)
    BY <1>1, <1>4, <1>5, <2>1
  <2>2. CASE u \in {v, x} /\ q \notin {v, x}
    <3>1. \A p \in {v, x} \ {u} :
             /\ ~IsSig(Head(inbox[u]), p) /\ inbox'[p] = inbox[p]
             /\ Linked(u, p) => p \in list'[u] /\ pc'[u][p] = pc[u][p]
             /\ list'[p] = list[p] /\ pc'[p][u] = pc[p][u]
      BY <1>1, <1>2, <1>3, <2>2 DEF IsSig, Linked
    <3> QED
      BY <1>1, <1>3, <1>5, <2>2, <3>1, OtherTaken
  <2>3. CASE u \notin {v, x}
    <3>1. pc'[v][x] = pc[v][x] /\ pc'[x][v] = pc[x][v]
      BY <1>1, <2>3
    <3> QED
      BY <1>1, <1>3, <1>5, <2>3, <3>1, Aside
  <2> QED
    BY <1>2, <1>5, <2>1, <2>2, <2>3
<1> QED
  BY <1>5 DEF Pairs

-----------------------------------------------------------------------------
LEMMA TalkingBoth ==
    ASSUME NEW u, NEW p
    PROVE  (Talking(u, p) <=> Talking(p, u)) /\ (Talking(u, p)' => Talking(p, u)')
<1>1. (Connected(u, p) <=> Connected(p, u)) /\ (Connected(u, p)' <=> Connected(p, u)')
  BY DEF Connected
<1> QED
  BY <1>1 DEF Talking

(* What a signal that u sends to q leaves as it is, and brings.            *)
LEMMA Sent ==
    ASSUME WTypeOK, NEW u \in User, NEW q \in User, NEW n \in Nat,
           NEW type \in {"offer", "answer"},
           inbox'[q] = IF u \in present /\ q \in present
                       THEN Append(inbox[q], Signal(type, u, n)) ELSE inbox[q]
    PROVE  /\ NoOut(inbox[q], u) => NoOut(inbox'[q], u)
           /\ FirstOffer(inbox[q], u) => FirstOffer(inbox'[q], u)
           /\ u \in present /\ q \in present =>
                /\ Free(inbox[q], u) => One(inbox'[q], u, type, n)
                /\ Free(inbox[q], u) /\ type = "offer" => FirstOffer(inbox'[q], u)
                /\ \A k \in Nat : One(inbox[q], u, "answer", k) /\ type = "offer"
                     => Two(inbox'[q], u, k, n)
<1>1. PICK s \in Seq(Events) : s = inbox[q]
  BY DEF WTypeOK
<1>2. /\ NoOut(s, u) => NoOut(Append(s, Signal(type, u, n)), u)
      /\ Free(s, u) => One(Append(s, Signal(type, u, n)), u, type, n)
      /\ (Free(s, u) /\ type = "offer") \/ FirstOffer(s, u)
           => FirstOffer(Append(s, Signal(type, u, n)), u)
      /\ \A k \in Nat : One(s, u, "answer", k) /\ type = "offer"
           => Two(Append(s, Signal(type, u, n)), u, k, n)
  BY SignalMore
<1>3. CASE u \in present /\ q \in present
  <2>1. inbox'[q] = Append(s, Signal(type, u, n))
    BY <1>1, <1>3
  <2> QED
    BY <1>1, <1>2, <1>3, <2>1
<1>4. CASE ~(u \in present /\ q \in present)
  BY <1>4
<1> QED
  BY <1>3, <1>4

LEMMA OfferPair ==
    ASSUME CInv, NEW u \in User, NEW q \in User, inbox[u] # <<>>,
           Head(inbox[u]).type = "offer", q = Head(inbox[u]).from,
           at[u] \in {"in", "listing"}, pc[u][q].sig # "offered",
           inbox'[u] = Tail(inbox[u]),
           inbox'[q] = IF u \in present /\ q \in present
                       THEN Append(inbox[q], Signal("answer", u, Head(inbox[u]).n))
                       ELSE inbox[q],
           UNCHANGED <<present, at, snap, list>>, {u, q} \cap upset = {},
           pc'[q][u] = pc[q][u], pc'[u][q] = Settled(Head(inbox[u]).n)
    PROVE  Pair(u, q)' /\ Pair(q, u)'
<1>1. PICK n \in Nat :
      /\ n = Head(inbox[u]).n /\ q # u /\ WTypeOK
      /\ pc[u][q] \in PcType /\ pc[q][u] \in PcType
      /\ NoOut(inbox[u], q) => NoOut(inbox'[u], q)
      /\ ~Connected(u, q) /\ ~Offers(u, q) /\ ~Answered(q, u)
      /\ Offers(q, u) => /\ n = pc[q][u].offer
                         /\ Free(inbox'[u], q) /\ NoOut(inbox'[u], q)
                         /\ Silent(inbox[u], q)
  BY HeadSignal, SMTT(30)
<1>2. Pair(u, q) /\ Pair(q, u) /\ Here(u) /\ Here(q) /\ Told(u, q)
  BY <1>1 DEF CInv, TInv, Pairs
<1>3. /\ NoOut(inbox[q], u) => NoOut(inbox'[q], u)
      /\ FirstOffer(inbox[q], u) => FirstOffer(inbox'[q], u)
      /\ u \in present /\ q \in present =>
           (Free(inbox[q], u) => One(inbox'[q], u, "answer", n))
  BY <1>1, Sent
<1>4. pc'[u][q].sig = "stable" /\ pc'[u][q].offer = 0 /\ pc'[u][q].link = n
  BY <1>1 DEF Settled
<1>5. (Linked(u, q) => Linked(u, q)') /\ (Linked(q, u) => Linked(q, u)')
  BY <1>1, <1>3 DEF Linked
<1>6. ASSUME Offers(q, u), at[q] = "in"
      PROVE  Answered(q, u)' /\ (at[u] = "listing" => WillOffer(u, q)')
  <2>1. q \in present /\ u \in present
    BY <1>2, <1>6 DEF Here
  <2>2. /\ q \in list[u] /\ (snap[u] # NoList => q \in snap[u])
        /\ at[u] = "listing" => snap[u] # NoList
    BY <1>1, <1>2, <1>6, <2>1 DEF Told, Here
  <2>3. Linked(u, q)' /\ (at[u] = "listing" => WillOffer(u, q)')
    BY <1>1, <1>6, <2>2 DEF Linked, WillOffer
  <2>4. /\ pc'[q][u].sig = "offered" /\ pc'[q][u].offer # 0 /\ Linked(q, u)'
        /\ Free(inbox'[u], q) /\ One(inbox'[q], u, "answer", pc'[q][u].offer)
        /\ pc'[u][q].link = pc'[q][u].offer
    BY <1>1, <1>3, <1>4, <1>5, <1>6, <2>1 DEF Offers
  <2> QED
    BY <1>4, <2>3, <2>4 DEF Answered
<1>7. ASSUME Crosses(q, u) PROVE Crosses(q, u)'
  <2>1. pc'[u][q] # NoPc
    BY <1>4 DEF NoPc
  <2> QED
    BY <1>3, <1>5, <1>7, <2>1 DEF Crosses
<1>8. ASSUME Talking(u, q), at[q] = "in" PROVE Talking(u, q)'
  <2>1. ~Answered(u, q) /\ ~Crosses(u, q)
    BY DEF Answered, Crosses
  <2> QED
    BY <1>1, <1>6, <1>7, <1>8, <2>1 DEF Talking
<1>9. /\ WillOffer(u, q) => WillOffer(u, q)'
      /\ WillOffer(q, u) => WillOffer(q, u)'
  BY <1>1, <1>3 DEF WillOffer
<1>10. Pair(u, q)'
  BY <1>2, <1>6, <1>8, <1>9 DEF Pair
<1>11. Pair(q, u)'
  BY <1>1, <1>2, <1>6, <1>8, <1>9, TalkingBoth DEF Pair
<1> QED
  BY <1>10, <1>11

LEMMA COnOffer ==
    ASSUME CInv, NEW u \in User, OnOffer(u)
    PROVE  Pairs'
<1>1. /\ WTypeOK' /\ inbox[u] # <<>> /\ Head(inbox[u]).type = "offer"
      /\ inbox'[u] = Tail(inbox[u])
      /\ UNCHANGED <<present, at, lists>>
      /\ upset' = IF pc[u][Head(inbox[u]).from].sig = "offered"
                  THEN upset \cup {u, Head(inbox[u]).from} ELSE upset
      /\ \A v, x \in User :
            v # u \/ x # Head(inbox[u]).from => pc'[v][x] = pc[v][x]
      /\ Enabled(u) =>
           /\ pc'[u][Head(inbox[u]).from] = Settled(Head(inbox[u]).n)
           /\ \A v \in User : v # u => inbox'[v] =
                IF u \in present /\ v = Head(inbox[u]).from /\ v \in present
                THEN Append(inbox[v], Signal("answer", u, Head(inbox[u]).n))
                ELSE inbox[v]
      /\ ~Enabled(u) => pc' = pc /\ \A v \in User : v # u => inbox'[v] = inbox[v]
  BY OnOfferDoes DEF CInv
<1>2. PICK q \in User, n \in Nat :
         q = Head(inbox[u]).from /\ q # u /\ n = Head(inbox[u]).n
  BY <1>1, HeadSignal
<1>3. UNCHANGED <<present, at, snap, list>> /\ upset \subseteq upset'
  BY <1>1 DEF lists
<1>4. ASSUME {u, q} \cap upset' = {} PROVE Pair(u, q)' /\ Pair(q, u)'
  <2>1. CASE at[u] \in {"in", "listing"}
    <3>1. Enabled(u)
      BY <2>1 DEF Enabled
    <3>2. /\ pc[u][q].sig # "offered" /\ {u, q} \cap upset = {}
          /\ pc'[q][u] = pc[q][u] /\ pc'[u][q] = Settled(Head(inbox[u]).n)
          /\ inbox'[q] = IF u \in present /\ q \in present
                         THEN Append(inbox[q], Signal("answer", u, Head(inbox[u]).n))
                         ELSE inbox[q]
      BY <1>1, <1>2, <1>4, <3>1
    <3> QED
      BY <1>1, <1>2, <1>3, <2>1, <3>2, OfferPair
  <2>2. CASE at[u] \notin {"in", "listing"}
    BY <1>3, <2>2, PairOut
  <2> QED
    BY <2>1, <2>2
<1>5. PICK e \in Events : e = Signal("answer", u, n) /\ e.from = u
  BY EventsAre
<1>6. \A w \in User : w # u =>
         \/ inbox'[w] = inbox[w]
         \/ w = q /\ \E f \in Events : f.from = u /\ inbox'[w] = Append(inbox[w], f)
  BY <1>1, <1>2, <1>5
<1>7. ASSUME NEW v \in User, NEW x \in User, v # x, {v, x} \cap upset' = {}
      PROVE  Pair(v, x)'
  <2>1. CASE (v = u /\ x = q) \/ (v = q /\ x = u)
    BY <1>4, <1>7, <2>1
  <2>2. CASE u \in {v, x} /\ q \notin {v, x}
    <3>1. \A p \in {v, x} \ {u} :
             /\ ~IsSig(Head(inbox[u]), p) /\ inbox'[p] = inbox[p]
             /\ Linked(u, p) => p \in list'[u] /\ pc'[u][p] = pc[u][p]
             /\ list'[p] = list[p] /\ pc'[p][u] = pc[p][u]
      BY <1>1, <1>2, <1>3, <1>6, <2>2 DEF IsSig, Linked
    <3> QED
      BY <1>1, <1>3, <1>7, <2>2, <3>1, OtherTaken
  <2>3. CASE u \notin {v, x}
    <3>1. pc'[v][x] = pc[v][x] /\ pc'[x][v] = pc[x][v]
      BY <1>1, <2>3
    <3> QED
      BY <1>1, <1>3, <1>6, <1>7, <2>3, <3>1, Aside
  <2> QED
    BY <1>2, <1>7, <2>1, <2>2, <2>3
<1> QED
  BY <1>7 DEF Pairs

-----------------------------------------------------------------------------
LEMMA RenegotiatePair ==
    ASSUME CInv, NEW u \in User, NEW p \in User, p # u, at[u] = "in",
           pc[u][p].sig = "stable", {u, p} \cap upset = {}, offers + 1 \in Nat,
           UNCHANGED <<present, at, snap, list>>,
           pc'[p][u] = pc[p][u], pc'[u][p].sig = "offered",
           pc'[u][p].offer = offers + 1, pc'[u][p].link = pc[u][p].link,
           inbox'[u] = inbox[u],
           inbox'[p] = IF u \in present /\ p \in present
                       THEN Append(inbox[p], Signal("offer", u, offers + 1))
                       ELSE inbox[p]
    PROVE  Pair(u, p)' /\ Pair(p, u)'
<1>1. PICK n \in Nat : n = offers + 1 /\ n # 0
  BY DEF CInv, TInv, WTypeOK
<1>2. WTypeOK /\ Pair(u, p) /\ Pair(p, u) /\ Here(u) /\ Here(p)
  BY DEF CInv, TInv, Pairs
<1>3. /\ NoOut(inbox[p], u) => NoOut(inbox'[p], u)
      /\ FirstOffer(inbox[p], u) => FirstOffer(inbox'[p], u)
      /\ u \in present /\ p \in present =>
           /\ Free(inbox[p], u) => One(inbox'[p], u, "offer", n)
           /\ Free(inbox[p], u) => FirstOffer(inbox'[p], u)
           /\ \A k \in Nat : One(inbox[p], u, "answer", k) => Two(inbox'[p], u, k, n)
  BY <1>1, <1>2, Sent
<1>4. (Linked(u, p) => Linked(u, p)') /\ (Linked(p, u) => Linked(p, u)')
  BY <1>3 DEF Linked
<1>5. NoPc.sig = "none"
  BY DEF NoPc
<1>6. ASSUME Talking(u, p), at[p] = "in" PROVE Talking(u, p)'
  <2>1. u \in present /\ p \in present
    BY <1>2, <1>6 DEF Here
  <2>2. ~Offers(u, p) /\ ~Answered(u, p) /\ ~Crosses(u, p)
    BY DEF Offers, Answered, Crosses
  <2>3. ASSUME Connected(u, p) PROVE Offers(u, p)'
    BY <1>1, <1>3, <1>4, <1>5, <2>1, <2>3 DEF Connected, Offers
  <2>4. ASSUME Offers(p, u) PROVE Crosses(p, u)'
    BY <1>3, <1>4, <1>5, <2>1, <2>4 DEF Offers, Crosses
  <2>5. ASSUME Answered(p, u) PROVE Answered(p, u)'
    <3>1. pc[p][u].offer \in Nat
      BY <1>2, PcIs
    <3>2. pc[u][p].sig # "offered"
      OBVIOUS
    <3>3. /\ pc[p][u].sig = "offered" /\ pc[p][u].offer # 0
          /\ pc[u][p].link = pc[p][u].offer
          /\ Linked(p, u) /\ Linked(u, p) /\ Free(inbox[u], p)
          /\ One(inbox[p], u, "answer", pc[p][u].offer)
      BY <2>5, <3>2 DEF Answered
    <3>4. Two(inbox'[p], u, pc[p][u].offer, n)
      BY <1>3, <2>1, <3>1, <3>3
    <3> QED
      BY <1>1, <1>4, <3>3, <3>4 DEF Answered
  <2>6. ASSUME Crosses(p, u) PROVE Crosses(p, u)'
    BY <1>3, <1>4, <1>5, <2>6 DEF Crosses
  <2> QED
    BY <1>6, <2>2, <2>3, <2>4, <2>5, <2>6 DEF Talking
<1>7. /\ WillOffer(u, p) => WillOffer(u, p)'
      /\ WillOffer(p, u) => WillOffer(p, u)'
  BY <1>3 DEF WillOffer
<1>8. ~Offers(u, p)
  BY DEF Offers
<1>9. Pair(u, p)'
  BY <1>2, <1>6, <1>7 DEF Pair
<1>10. Pair(p, u)'
  BY <1>2, <1>6, <1>7, <1>8, TalkingBoth DEF Pair
<1> QED
  BY <1>9, <1>10

LEMMA CRenegotiate ==
    ASSUME CInv, NEW u \in User, NEW p \in User, p # u, Renegotiate(u, p)
    PROVE  Pairs'
<1>1. /\ WTypeOK' /\ pc[u][p].sig = "stable" /\ offers + 1 \in Nat
      /\ UNCHANGED <<present, at, lists>>
      /\ upset' = IF at[u] = "in" THEN upset ELSE upset \cup {u, p}
      /\ \A v, x \in User : v # u \/ x # p => pc'[v][x] = pc[v][x]
      /\ pc'[u][p].sig = "offered" /\ pc'[u][p].offer = offers + 1
      /\ pc'[u][p].link = pc[u][p].link
      /\ \A v \in User : inbox'[v] =
           IF u \in present /\ v = p /\ v \in present
           THEN Append(inbox[v], Signal("offer", u, offers + 1)) ELSE inbox[v]
  BY RenegotiateDoes DEF CInv
<1>2. UNCHANGED <<present, at, snap, list>> /\ upset \subseteq upset'
  BY <1>1 DEF lists
<1>3. PICK n \in Nat : n = offers + 1
  BY <1>1
<1>4. PICK e \in Events : e = Signal("offer", u, n) /\ e.from = u
  BY EventsAre
<1>5. \A w \in User : \/ inbox'[w] = inbox[w]
                      \/ w = p /\ \E f \in Events : f.from = u /\ inbox'[w] = Append(inbox[w], f)
  BY <1>1, <1>3, <1>4
<1>6. ASSUME {u, p} \cap upset' = {} PROVE Pair(u, p)' /\ Pair(p, u)'
  <2>1. at[u] = "in" /\ {u, p} \cap upset = {}
    BY <1>1, <1>6
  <2>2. pc'[p][u] = pc[p][u] /\ inbox'[u] = inbox[u]
    BY <1>1
  <2>3. inbox'[p] = IF u \in present /\ p \in present
                    THEN Append(inbox[p], Signal("offer", u, offers + 1))
                    ELSE inbox[p]
    BY <1>1
  <2> QED
    BY <1>1, <1>2, <2>1, <2>2, <2>3, RenegotiatePair
<1>7. ASSUME NEW v \in User, NEW x \in User, v # x, {v, x} \cap upset' = {}
      PROVE  Pair(v, x)'
  <2>1. CASE (v = u /\ x = p) \/ (v = p /\ x = u)
    BY <1>6, <1>7, <2>1
  <2>2. CASE ~((v = u /\ x = p) \/ (v = p /\ x = u))
    <3>1. Pair(v, x) /\ WTypeOK
      BY <1>2, <1>7 DEF CInv, TInv, Pairs
    <3>2. (v # u \/ x # p) /\ (x # u \/ v # p)
      BY <2>2
    <3>3. pc'[v][x] = pc[v][x] /\ pc'[x][v] = pc[x][v]
      BY <1>1, <3>2
    <3>4. /\ \/ inbox'[v] = inbox[v]
             \/ \E f \in Events : f.from # x /\ inbox'[v] = Append(inbox[v], f)
          /\ \/ inbox'[x] = inbox[x]
             \/ \E f \in Events : f.from # v /\ inbox'[x] = Append(inbox[x], f)
      BY <1>5, <3>2
    <3>5. /\ at'[v] = at[v] /\ snap'[v] = snap[v] /\ list'[v] = list[v]
          /\ at'[x] = at[x] /\ snap'[x] = snap[x] /\ list'[x] = list[x]
      BY <1>2
    <3> QED
      BY <3>1, <3>3, <3>4, <3>5, PairSame
  <2> QED
    BY <2>1, <2>2
<1> QED
  BY <1>7 DEF Pairs

-----------------------------------------------------------------------------
(* Whom u takes over from its list without having met, it offers to.       *)
LEMMA ListedPair ==
    ASSUME CInv, NEW u \in User, NEW p \in User, p # u, Listed(u),
           {u, p} \cap upset' = {}
    PROVE  Pair(u, p)' /\ Pair(p, u)'
<1>1. /\ WTypeOK /\ WTypeOK' /\ at[u] = "listing" /\ snap[u] \in SUBSET User
      /\ present' = present /\ upset \subseteq upset' /\ offers + 1 \in Nat
      /\ at' = [at EXCEPT ![u] = "in"]
      /\ \A v \in User : v # u =>
           /\ snap'[v] = snap[v] /\ list'[v] = list[v] /\ pc'[v] = pc[v]
      /\ list'[u] = snap[u]
      /\ \A x \in User : x \in New(u) =>
           /\ pc'[u][x].sig = "offered" /\ pc'[u][x].offer = offers + 1
           /\ pc'[u][x].link = pc[u][x].link
      /\ \A v \in User : inbox'[v] =
           IF u \in present /\ v \in New(u) /\ v \in present
           THEN Append(inbox[v], Signal("offer", u, offers + 1)) ELSE inbox[v]
  BY ListedDoes DEF CInv
<1>2. PICK n \in Nat : n = offers + 1 /\ n # 0
  BY <1>1 DEF WTypeOK
<1>3. /\ Pair(u, p) /\ Pair(p, u) /\ Here(u) /\ Here(p)
      /\ at'[u] = "in" /\ at'[p] = at[p]
  BY <1>1 DEF CInv, TInv, Pairs, WTypeOK
<1>4. p \in snap[u] => p \notin offered[u] /\ pc[u][p] = NoPc /\ ~Signalled(u, p)
  <2>1. p \notin Again(u)
    BY DEF Listed
  <2> QED
    BY <2>1 DEF Again
<1>5. inbox'[u] = inbox[u] /\ u \in present
  BY <1>1, <1>3 DEF New, Here
<1>6. NoOut(inbox[p], u) => NoOut(inbox'[p], u)
  <2>1. CASE p \in New(u)
    <3>1. inbox'[p] = IF u \in present /\ p \in present
                      THEN Append(inbox[p], Signal("offer", u, n)) ELSE inbox[p]
      BY <1>1, <1>2, <2>1
    <3> QED
      BY <1>1, <3>1, Sent
  <2>2. CASE p \notin New(u)
    BY <1>1, <2>2
  <2> QED
    BY <2>1, <2>2
<1>7. ASSUME WillOffer(u, p), at[p] \in {"in", "listing"}
      PROVE  Offers(u, p)' /\ pc'[u][p].link = 0
  <2>1. p \in New(u) /\ p \in present /\ pc[u][p] = NoPc /\ ~Signalled(u, p)
    BY <1>3, <1>4, <1>7 DEF WillOffer, New, Here
  <2>2. inbox'[p] = IF u \in present /\ p \in present
                    THEN Append(inbox[p], Signal("offer", u, n)) ELSE inbox[p]
    BY <1>1, <1>2, <2>1
  <2>3. Free(inbox[u], p) /\ Free(inbox[p], u)
    <3>1. PICK s \in Seq(Events), t \in Seq(Events) : s = inbox[u] /\ t = inbox[p]
      BY <1>1 DEF WTypeOK
    <3>2. (\A i \in DOMAIN s : s[i] \in Range(s)) /\ (\A i \in DOMAIN t : t[i] \in Range(t))
      BY DEF Range
    <3> QED
      BY <2>1, <3>1, <3>2 DEF Signalled, Free, IsSig
  <2>4. One(inbox'[p], u, "offer", n)
    BY <1>1, <1>5, <2>1, <2>2, <2>3, Sent
  <2>5. pc'[u][p].sig = "offered" /\ pc'[u][p].offer = n /\ pc'[u][p].link = 0
    BY <1>1, <1>2, <2>1 DEF NoPc
  <2>6. Linked(u, p)' /\ Free(inbox'[u], p)
    BY <1>1, <1>5, <1>7, <2>3 DEF Linked, WillOffer
  <2> QED
    BY <1>2, <2>4, <2>5, <2>6 DEF Offers
<1>8. ASSUME Offers(p, u), pc[p][u].link = 0 PROVE Offers(p, u)'
  <2>1. PICK s \in Seq(Events) : s = inbox[u]
    BY <1>1 DEF WTypeOK
  <2>2. PICK i \in DOMAIN s : s[i] = Signal("offer", p, pc[p][u].offer)
    BY <1>8, <2>1 DEF Offers, One
  <2>3. s[i] \in Range(inbox[u]) /\ s[i].type # "state" /\ s[i].from = p
    BY <2>1, <2>2 DEF Range, Signal
  <2>4. p \notin snap[u]
    BY <1>4, <2>3 DEF Signalled
  <2>5. inbox'[p] = inbox[p] /\ pc'[p][u] = pc[p][u] /\ list'[p] = list[p]
    BY <1>1, <2>4 DEF New
  <2> QED
    BY <1>5, <1>8, <2>5 DEF Offers, Linked
<1>9. WillOffer(p, u) => WillOffer(p, u)'
  BY <1>1, <1>6 DEF WillOffer
<1>10. Pair(u, p)'
  <2>1. at[p] = "in" => Talking(u, p)'
    BY <1>1, <1>3, <1>7, <1>8 DEF Pair, Talking
  <2> QED
    BY <1>3, <2>1 DEF Pair
<1>11. Pair(p, u)'
  <2>1. at[p] = "in" => Talking(p, u)'
    BY <1>1, <1>3, <1>7, <1>8 DEF Pair, Talking
  <2>2. at[p] = "listing" => WillOffer(p, u)' \/ (Offers(u, p)' /\ pc'[u][p].link = 0)
    BY <1>1, <1>3, <1>7, <1>9 DEF Pair
  <2> QED
    BY <1>3, <2>1, <2>2 DEF Pair
<1> QED
  BY <1>10, <1>11

LEMMA CListed ==
    ASSUME CInv, NEW u \in User, Listed(u)
    PROVE  Pairs'
<1>1. /\ WTypeOK /\ upset \subseteq upset' /\ offers + 1 \in Nat
      /\ at' = [at EXCEPT ![u] = "in"]
      /\ \A v \in User : v # u =>
           /\ snap'[v] = snap[v] /\ list'[v] = list[v] /\ pc'[v] = pc[v]
      /\ \A v \in User : inbox'[v] =
           IF u \in present /\ v \in New(u) /\ v \in present
           THEN Append(inbox[v], Signal("offer", u, offers + 1)) ELSE inbox[v]
  BY ListedDoes DEF CInv
<1>2. PICK n \in Nat : n = offers + 1
  BY <1>1
<1>3. PICK e \in Events : e = Signal("offer", u, n) /\ e.from = u
  BY EventsAre
<1>4. \A w \in User : w # u =>
         /\ at'[w] = at[w] /\ snap'[w] = snap[w] /\ list'[w] = list[w]
         /\ pc'[w] = pc[w]
         /\ \/ inbox'[w] = inbox[w]
            \/ \E f \in Events : f.from = u /\ inbox'[w] = Append(inbox[w], f)
  BY <1>1, <1>2, <1>3 DEF WTypeOK
<1>5. ASSUME NEW v \in User, NEW x \in User, v # x, {v, x} \cap upset' = {}
      PROVE  Pair(v, x)'
  <2>1. CASE v = u
    BY <1>5, <2>1, ListedPair
  <2>2. CASE x = u
    <3>1. {u, v} \cap upset' = {} /\ v # u
      BY <1>5, <2>2
    <3> QED
      BY <2>2, <3>1, ListedPair
  <2>3. CASE v # u /\ x # u
    BY <1>1, <1>4, <1>5, <2>3, Aside
  <2> QED
    BY <2>1, <2>2, <2>3
<1> QED
  BY <1>5 DEF Pairs

-----------------------------------------------------------------------------
LEMMA CStep == CInv /\ [WNext]_wvars => CInv'
<1> SUFFICES ASSUME CInv, [WNext]_wvars PROVE CInv'
  OBVIOUS
<1>1. TInv'
  BY TStep DEF CInv
<1>2. CASE UNCHANGED wvars
  <2>1. UNCHANGED <<present, at, snap, list, pc, inbox, upset>>
    BY <1>2 DEF wvars
  <2>2. ASSUME NEW v \in User, NEW x \in User, v # x, {v, x} \cap upset' = {}
        PROVE  Pair(v, x)'
    <3>1. WTypeOK /\ Pair(v, x)
      BY <2>1, <2>2 DEF CInv, TInv, Pairs
    <3> QED
      BY <2>1, <3>1, PairSame
  <2> QED
    BY <1>1, <2>2 DEF CInv, Pairs
<1>3. CASE WNext
  <2>1. PICK u \in User :
          \/ HandleJoin(u) \/ JoinServed(u) \/ JoinAnswered(u)
          \/ ListServed(u) \/ Listed(u)
          \/ HandleLeave(u) \/ LeaveServed(u) \/ Relisted(u)
          \/ OnState(u) \/ OnOffer(u) \/ OnAnswer(u)
          \/ \E p \in User \ {u} : Renegotiate(u, p) \/ PcFails(u, p)
    BY <1>3 DEF WNext
  <2>2. CASE \/ HandleJoin(u) \/ JoinAnswered(u) \/ HandleLeave(u)
             \/ JoinServed(u) \/ LeaveServed(u) \/ Relisted(u)
    BY <1>1, <2>2, CElsewhere DEF CInv
  <2>3. CASE ListServed(u) \/ Listed(u)
    BY <1>1, <2>3, CListServed, CListed DEF CInv
  <2>4. CASE OnState(u) \/ OnOffer(u) \/ OnAnswer(u)
    BY <1>1, <2>4, COnState, COnOffer, COnAnswer DEF CInv
  <2>5. ASSUME NEW p \in User, p # u, Renegotiate(u, p) \/ PcFails(u, p)
        PROVE  CInv'
    BY <1>1, <2>5, CRenegotiate, CPcFails DEF CInv
  <2> QED
    BY <2>1, <2>2, <2>3, <2>4, <2>5
<1> QED
  BY <1>2, <1>3

(* Two users who are in the channel and have heard everything have agreed  *)
(* on one offer, unless their offers crossed or they met before: no answer *)
(* is taken for another's, and no connection is closed on late news.       *)
THEOREM CallsGetConnected == WSpec => []CallsConnect
<1>1. WInit => CInv
  <2>1. WInit => Pairs
    BY DEF WInit, Pairs, Pair
  <2> QED
    BY <2>1, TInitially DEF CInv
<1>2. CInv => CallsConnect
  <2> SUFFICES ASSUME CInv, NEW u \in User, NEW p \in User, p # u,
                      at[u] = "in", at[p] = "in", Quiet(u, p)
               PROVE  /\ pc[u][p].sig = "stable" /\ pc[u][p].link # 0
                      /\ pc[u][p] = pc[p][u]
    BY DEF CallsConnect
  <2>1. Talking(u, p)
    BY DEF CInv, Pairs, Pair, Quiet
  <2>2. ~Offers(u, p) /\ ~Offers(p, u)
    BY DEF Offers, One, Quiet
  <2>3. ~Answered(u, p) /\ ~Answered(p, u)
    BY DEF Answered, One, Two, Quiet
  <2>4. ~Crosses(u, p) /\ ~Crosses(p, u)
    BY DEF Crosses, FirstOffer, Quiet
  <2> QED
    BY <2>1, <2>2, <2>3, <2>4 DEF Talking, Connected
<1> QED
  BY <1>1, <1>2, CStep, PTL DEF WSpec
=============================================================================
