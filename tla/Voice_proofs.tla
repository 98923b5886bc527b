---------------------------- MODULE Voice_proofs ----------------------------
(***************************************************************************)
(* Proofs about the three modules that extend VoiceStates, for any users,  *)
(* servers, channels, requests and sessions.                               *)
(*                                                                         *)
(*   GoLive      a broadcast is never taken over, however requests         *)
(*               overlap; its banner agrees with the map, but for what     *)
(*               overlapping stops leave until a request comes alone.      *)
(*   VoicePanel  what members are shown of a voice channel agrees with the *)
(*               table while a user's tasks do not overlap and no query    *)
(*               fails.                                                    *)
(*   Gateway     presence and voice of a user who has met no fault and no  *)
(*               overlap, whatever others met: its sessions may come and   *)
(*               go, and requests may be under way when one closes.        *)
(***************************************************************************)
EXTENDS GoLive, VoicePanel, Gateway, VoiceStates_proofs

-----------------------------------------------------------------------------
(* GoLive. *)
(* A step of one request, as the four kinds of step leave it.              *)
GoStep(g) == \/ \E u \in User, ch \in Channel : StartCheck(g, u, ch)
             \/ \E u \in User, ch \in Channel : Stop(g, u, ch)
             \/ StartWrite(g) \/ StartAnnounce(g) \/ StopAnnounce(g)

LEMMA LSteps ==
    ASSUME [LNext]_lvars
    PROVE  UNCHANGED <<live, banner, go, torn>> \/ \E g \in GoReq : GoStep(g)
  BY DEF LNext, lvars, GoStep

(* Idle is no step of a request; a request at a step is busy.              *)
LEMMA GoBusyAt ==
    ASSUME LTypeOK, NEW g \in GoReq, go[g] # Idle
    PROVE  /\ go[g] \in GoBusy
           /\ go[g].user \in User /\ go[g].ch \in Channel
  BY DEF LTypeOK, GoBusy

-----------------------------------------------------------------------------
(* Every value has its type, whatever the voice states do meanwhile.       *)
LEMMA LTypeInit == LInit => LTypeOK
  BY DEF LInit, LTypeOK

LEMMA LTypeStep == LTypeOK /\ [LNext]_lvars => LTypeOK'
<1> SUFFICES ASSUME LTypeOK, [LNext]_lvars PROVE LTypeOK'
  OBVIOUS
<1>1. CASE UNCHANGED <<live, banner, go, torn>>
  BY <1>1 DEF LTypeOK
<1>2. ASSUME NEW g \in GoReq, NEW u \in User, NEW ch \in Channel,
             StartCheck(g, u, ch) \/ Stop(g, u, ch)
      PROVE  LTypeOK'
  <2>1. \E step \in {"start_write", "stop_announce"} :
           go' = [go EXCEPT ![g] = [at |-> step, user |-> u, ch |-> ch]]
    BY <1>2 DEF StartCheck, Stop, Ask
  <2>2. go' \in [GoReq -> GoBusy \cup {Idle}]
    BY <2>1 DEF LTypeOK, GoBusy
  <2>3. live' \in [Channel -> User \cup {Nobody}] /\ banner' = banner
    BY <1>2 DEF StartCheck, Stop, LTypeOK
  <2>4. torn' \in SUBSET Channel
    BY <1>2 DEF StartCheck, Stop, Joins, LTypeOK
  <2> QED
    BY <2>2, <2>3, <2>4 DEF LTypeOK
<1>3. ASSUME NEW g \in GoReq, StartWrite(g) PROVE LTypeOK'
  <2>1. go[g] # Idle
    BY <1>3 DEF StartWrite, GoAt
  <2>2. go[g] \in GoBusy /\ go[g].user \in User
    BY <2>1, GoBusyAt
  <2>3. [go[g] EXCEPT !.at = "start_announce"] \in GoBusy
    BY <2>2 DEF GoBusy
  <2>4. go' \in [GoReq -> GoBusy \cup {Idle}]
    BY <1>3, <2>3 DEF StartWrite, GoEnd, LTypeOK
  <2>5. live' \in [Channel -> User \cup {Nobody}] /\ banner' = banner
    BY <1>3, <2>2 DEF StartWrite, LTypeOK
  <2>6. torn' \in SUBSET Channel
    BY <1>3 DEF StartWrite, LTypeOK
  <2> QED
    BY <2>4, <2>5, <2>6 DEF LTypeOK
<1>4. ASSUME NEW g \in GoReq, StartAnnounce(g) \/ StopAnnounce(g) PROVE LTypeOK'
  <2>1. go[g] # Idle
    BY <1>4 DEF StartAnnounce, StopAnnounce, GoAt
  <2>2. go[g].user \in User
    BY <2>1, GoBusyAt
  <2> QED
    BY <1>4, <2>2 DEF StartAnnounce, StopAnnounce, GoEnd, LTypeOK
<1> QED
  BY <1>1, <1>2, <1>3, <1>4, LSteps DEF GoStep

THEOREM LTypeCorrect == LSpec => []LTypeOK
  BY LTypeInit, LTypeStep, PTL DEF LSpec

-----------------------------------------------------------------------------
(* The check under the write lock is what protects a broadcast: a start    *)
(* writes only where nobody, or the same user, is live.                    *)
THEOREM NoTakeOver == LSpec => NeverTakenOver
<1> DEFINE Kept(ch) == live[ch] # Nobody /\ live'[ch] # live[ch]
                          => live'[ch] = Nobody
<1>1. LTypeOK /\ [LNext]_lvars => [\A ch \in Channel : Kept(ch)]_lvars
  <2> SUFFICES ASSUME LTypeOK, [LNext]_lvars, NEW ch \in Channel
               PROVE  Kept(ch)
    OBVIOUS
  <2>1. CASE UNCHANGED <<live, banner, go, torn>>
    BY <2>1
  <2>2. ASSUME NEW g \in GoReq, GoStep(g) PROVE Kept(ch)
    BY <2>2 DEF GoStep, StartCheck, Stop, StartWrite, StartAnnounce,
                StopAnnounce, LTypeOK
  <2> QED
    BY <2>1, <2>2, LSteps
<1> QED
  BY <1>1, LTypeInit, LTypeStep, PTL DEF LSpec, NeverTakenOver

-----------------------------------------------------------------------------
(* Why the banner agrees.  Between the change of the map and its broadcast *)
(* the two differ; that is known of the request in between, on a channel   *)
(* that is not torn: one that has started knows who is live, one that has  *)
(* stopped is alone on its channel and nobody is live there.               *)
StartedIsLive == \A g \in GoReq :
    GoAt(g, "start_announce") /\ go[g].ch \notin torn
        => live[go[g].ch] = go[g].user

StoppedIsAlone == \A g \in GoReq :
    GoAt(g, "stop_announce") /\ go[g].ch \notin torn
        => live[go[g].ch] = Nobody /\ OnChannel(go[g].ch) = {g}

ToAnnounce(ch) == \E g \in OnChannel(ch) : go[g].at # "start_write"

SettledAgrees == \A ch \in Channel \ torn : ToAnnounce(ch) \/ banner[ch] = live[ch]

BInv == LTypeOK /\ StartedIsLive /\ StoppedIsAlone /\ SettledAgrees

LEMMA BInit == LInit => BInv
<1>1. LInit => \A g \in GoReq : go[g] = Idle
  BY DEF LInit
<1>2. LInit => \A ch \in Channel : banner[ch] = live[ch]
  BY DEF LInit
<1> QED
  BY <1>1, <1>2, LTypeInit DEF BInv, StartedIsLive, StoppedIsAlone,
     SettledAgrees, GoAt

(* What is known of one channel.                                           *)
Even(ch) == /\ \A g \in OnChannel(ch) :
                  /\ go[g].at = "start_announce" => live[ch] = go[g].user
                  /\ go[g].at = "stop_announce" => /\ live[ch] = Nobody
                                                   /\ OnChannel(ch) = {g}
            /\ ToAnnounce(ch) \/ banner[ch] = live[ch]

LEMMA BInvEven ==
    LTypeOK => (BInv <=> \A ch \in Channel \ torn : Even(ch))
<1> SUFFICES ASSUME LTypeOK
             PROVE  /\ BInv => \A ch \in Channel \ torn : Even(ch)
                    /\ (\A ch \in Channel \ torn : Even(ch)) => BInv
  OBVIOUS
<1>1. ASSUME NEW g \in GoReq, go[g] # Idle
      PROVE  go[g].ch \in Channel /\ g \in OnChannel(go[g].ch)
  BY <1>1, GoBusyAt DEF OnChannel
<1>2. BInv => \A ch \in Channel \ torn : Even(ch)
  BY DEF BInv, Even, StartedIsLive, StoppedIsAlone, SettledAgrees, GoAt, OnChannel
<1>3. (\A ch \in Channel \ torn : Even(ch)) => BInv
  BY <1>1 DEF BInv, Even, StartedIsLive, StoppedIsAlone, SettledAgrees, GoAt
<1> QED
  BY <1>2, <1>3

(* A step of one request leaves the other channels as they are.            *)
LEMMA OtherChannels ==
    ASSUME LTypeOK, NEW ch \in Channel, NEW g \in GoReq, g \notin OnChannel(ch),
           g \notin OnChannel(ch)',
           live'[ch] = live[ch], banner'[ch] = banner[ch],
           \A o \in GoReq : o # g => go'[o] = go[o]
    PROVE  Even(ch) => Even(ch)'
<1>1. OnChannel(ch)' = OnChannel(ch)
  BY DEF OnChannel
<1>2. \A o \in OnChannel(ch) : go'[o] = go[o]
  BY DEF OnChannel
<1> QED
  BY <1>1, <1>2 DEF Even, ToAnnounce

(* A request begins: what it makes of its channel.                         *)
LEMMA AskEven ==
    ASSUME LTypeOK, NEW g \in GoReq, NEW u \in User, NEW ch \in Channel,
           StartCheck(g, u, ch) \/ Stop(g, u, ch), ch \notin torn',
           ch \notin torn => Even(ch)
    PROVE  Even(ch)'
<1>1. PICK step \in {"start_write", "stop_announce"} :
         /\ step = "start_write" <=> StartCheck(g, u, ch)
         /\ go' = [go EXCEPT ![g] = [at |-> step, user |-> u, ch |-> ch]]
  BY DEF StartCheck, Stop, Ask, Idle
<1>2. go[g] = Idle /\ g \notin OnChannel(ch)
  BY DEF StartCheck, Stop, Ask, OnChannel
<1>3. /\ go'[g].at = step /\ go'[g].ch = ch /\ go'[g] # Idle
      /\ \A o \in GoReq : o # g => go'[o] = go[o]
  BY <1>1 DEF LTypeOK, Idle
<1>4. OnChannel(ch)' = OnChannel(ch) \cup {g}
  BY <1>2, <1>3 DEF OnChannel
<1>5. \A o \in OnChannel(ch) : o # g /\ go'[o] = go[o]
  BY <1>2, <1>3 DEF OnChannel
<1>6. CASE StartCheck(g, u, ch)
  <2>1. /\ ch \notin torn /\ UNCHANGED <<live, banner>>
        /\ \A o \in OnChannel(ch) : go[o].at # "stop_announce"
    BY <1>6 DEF StartCheck, Joins, Starts
  <2>2. step = "start_write"
    BY <1>1, <1>6
  <2> QED
    BY <1>3, <1>4, <1>5, <2>1, <2>2 DEF Even, ToAnnounce
<1>7. CASE Stop(g, u, ch)
  <2>1. OnChannel(ch) = {} /\ live' = [live EXCEPT ![ch] = Nobody]
    BY <1>7 DEF Stop
  <2>2. go'[g].at # "start_write"
    BY <1>1, <1>3, <1>7 DEF Stop, Ask, StartCheck
  <2>3. live'[ch] = Nobody
    BY <2>1 DEF LTypeOK
  <2> QED
    BY <1>3, <1>4, <2>1, <2>2, <2>3, <1>1 DEF Even, ToAnnounce
<1> QED
  BY <1>6, <1>7

LEMMA BStep == ASSUME BInv, [LNext]_lvars PROVE BInv'
<1>0. LTypeOK /\ LTypeOK' /\ \A ch \in Channel \ torn : Even(ch)
  BY LTypeStep, BInvEven DEF BInv
<1> SUFFICES ASSUME NEW ch \in Channel, ch \notin torn' PROVE Even(ch)'
  <2>1. LTypeOK' => (BInv' <=> (\A ch \in Channel \ torn : Even(ch))')
    BY BInvEven, PTL
  <2> QED
    BY <1>0, <2>1
<1>1. CASE UNCHANGED <<live, banner, go, torn>>
  BY <1>0, <1>1 DEF Even, ToAnnounce, OnChannel
<1>2. ASSUME NEW g \in GoReq, NEW u \in User, NEW d \in Channel,
             StartCheck(g, u, d) \/ Stop(g, u, d)
      PROVE  Even(ch)'
  <2>1. CASE ch = d
    BY <1>0, <1>2, <2>1, AskEven
  <2>2. CASE ch # d
    <3>1. /\ ch \notin torn /\ g \notin OnChannel(ch)
          /\ live'[ch] = live[ch] /\ banner'[ch] = banner[ch]
      BY <1>0, <1>2, <2>2 DEF StartCheck, Stop, Joins, Ask, OnChannel, LTypeOK
    <3>2. g \notin OnChannel(ch)' /\ \A o \in GoReq : o # g => go'[o] = go[o]
      BY <1>0, <1>2, <2>2 DEF StartCheck, Stop, Ask, OnChannel, LTypeOK
    <3> QED
      BY <1>0, <3>1, <3>2, OtherChannels
  <2> QED
    BY <2>1, <2>2
<1>3. ASSUME NEW g \in GoReq, StartWrite(g) PROVE Even(ch)'
  <2>1. /\ go[g] \in GoBusy /\ go[g].at = "start_write"
        /\ go[g].user \in User /\ go[g].ch \in Channel
        /\ g \in OnChannel(go[g].ch) /\ banner' = banner
    BY <1>0, <1>3, GoBusyAt DEF StartWrite, GoAt, OnChannel
  <2>2. \A o \in GoReq : o # g => go'[o] = go[o]
    BY <1>0, <1>3 DEF StartWrite, GoEnd, LTypeOK
  <2>3. CASE ch # go[g].ch
    <3>1. /\ ch \notin torn /\ g \notin OnChannel(ch)
          /\ live'[ch] = live[ch] /\ banner'[ch] = banner[ch]
      BY <1>0, <1>3, <2>1, <2>3 DEF StartWrite, OnChannel, LTypeOK
    <3>2. g \notin OnChannel(ch)'
      BY <1>0, <1>3, <2>1, <2>3 DEF StartWrite, GoEnd, OnChannel, LTypeOK, GoBusy
    <3> QED
      BY <1>0, <2>2, <3>1, <3>2, OtherChannels
  <2>4. CASE ch = go[g].ch /\ live[ch] \in {Nobody, go[g].user}
    <3>1. /\ go' = [go EXCEPT ![g].at = "start_announce"]
          /\ live' = [live EXCEPT ![ch] = go[g].user]
          /\ ch \in torn => OnChannel(ch) = {g}
      BY <1>3, <2>4 DEF StartWrite
    <3>2. /\ go'[g].at = "start_announce" /\ go'[g].ch = ch
          /\ go'[g].user = go[g].user /\ go'[g] # Idle
      BY <1>0, <2>1, <2>4, <3>1 DEF LTypeOK, GoBusy, Idle
    <3>3. OnChannel(ch)' = OnChannel(ch) /\ g \in OnChannel(ch)
      BY <2>1, <2>2, <2>4, <3>2, <1>3 DEF OnChannel, StartWrite, GoAt
    <3>4. live'[ch] = go[g].user
      BY <1>0, <3>1 DEF LTypeOK
    <3>5. ASSUME NEW o \in OnChannel(ch), o # g
          PROVE  /\ go'[o] = go[o] /\ Even(ch)
                 /\ go[o].user \in User
      BY <1>0, <2>2, <3>1, <3>5, GoBusyAt DEF OnChannel
    <3>6. ASSUME NEW o \in OnChannel(ch), o # g, go'[o].at = "start_announce"
          PROVE  live'[ch] = go'[o].user
      <4>1. live[ch] = go[o].user
        BY <3>5, <3>6 DEF Even
      <4>2. live[ch] # Nobody
        BY <3>5, <3>6, <4>1, GoLiveAssumption
      <4> QED
        BY <2>4, <3>4, <3>5, <3>6, <4>1, <4>2
    <3>7. ASSUME NEW o \in OnChannel(ch), o # g, go'[o].at = "stop_announce"
          PROVE  FALSE
      BY <3>3, <3>5, <3>7 DEF Even
    <3> QED
      BY <3>2, <3>3, <3>4, <3>6, <3>7 DEF Even, ToAnnounce
  <2>5. CASE ch = go[g].ch /\ live[ch] \notin {Nobody, go[g].user}
    <3>1. ch \notin torn /\ UNCHANGED live /\ go' = [go EXCEPT ![g] = Idle]
      BY <1>3, <2>5 DEF StartWrite, GoEnd
    <3>2. OnChannel(ch)' = OnChannel(ch) \ {g}
      BY <1>0, <2>2, <3>1 DEF OnChannel, LTypeOK
    <3>3. \A o \in OnChannel(ch)' : o \in OnChannel(ch) /\ go'[o] = go[o]
      BY <2>2, <3>2 DEF OnChannel
    <3>4. ToAnnounce(ch)' <=> ToAnnounce(ch)
      BY <2>1, <3>2, <3>3 DEF ToAnnounce
    <3>5. Even(ch) /\ \A o \in OnChannel(ch) : go[o].at # "stop_announce"
      BY <1>0, <2>1, <2>5, <3>1 DEF Even
    <3> QED
      BY <2>1, <3>1, <3>3, <3>4, <3>5 DEF Even
  <2> QED
    BY <2>3, <2>4, <2>5
<1>4. ASSUME NEW g \in GoReq, StartAnnounce(g) \/ StopAnnounce(g)
      PROVE  Even(ch)'
  <2>1. /\ go[g].ch \in Channel /\ g \in OnChannel(go[g].ch)
        /\ UNCHANGED <<live, torn>>
    BY <1>0, <1>4, GoBusyAt DEF StartAnnounce, StopAnnounce, GoAt, OnChannel
  <2>2. go'[g] = Idle /\ \A o \in GoReq : o # g => go'[o] = go[o]
    BY <1>0, <1>4 DEF StartAnnounce, StopAnnounce, GoEnd, LTypeOK
  <2>3. CASE ch # go[g].ch
    <3>1. g \notin OnChannel(ch) /\ g \notin OnChannel(ch)' /\ banner'[ch] = banner[ch]
      BY <1>0, <1>4, <2>2, <2>3 DEF StartAnnounce, StopAnnounce, OnChannel, LTypeOK
    <3> QED
      BY <1>0, <2>1, <2>2, <3>1, OtherChannels
  <2>4. CASE ch = go[g].ch
    <3>1. banner'[ch] = live[ch]
      BY <1>0, <1>4, <2>1, <2>4
         DEF StartAnnounce, StopAnnounce, GoAt, Even, LTypeOK
    <3>2. OnChannel(ch)' = OnChannel(ch) \ {g}
      BY <2>2 DEF OnChannel
    <3>3. \A o \in OnChannel(ch)' : o \in OnChannel(ch) /\ go'[o] = go[o]
      BY <2>2, <3>2 DEF OnChannel
    <3>4. \A o \in OnChannel(ch)' : go[o].at # "stop_announce"
      BY <1>0, <2>1, <2>4, <3>2, <3>3 DEF Even
    <3> QED
      BY <1>0, <2>1, <3>1, <3>3, <3>4 DEF Even
  <2> QED
    BY <2>3, <2>4
<1> QED
  BY <1>1, <1>2, <1>3, <1>4, LSteps DEF GoStep

(* Whatever overlaps: with no request under way on a channel its members   *)
(* see the banner of the user who is live, except for what an overlapping  *)
(* stop left behind, and that does not survive the next request that is    *)
(* alone on the channel when it changes the map.                           *)
THEOREM BannerCorrect == LSpec => []BannerAgrees
<1>1. BInv => BannerAgrees
  BY DEF BInv, SettledAgrees, BannerAgrees, ToAnnounce
<1>2. BInv /\ [LNext]_lvars => BInv'
  BY BStep
<1> QED
  BY <1>1, <1>2, BInit, PTL DEF LSpec

-----------------------------------------------------------------------------
(* VoicePanel. *)

(* The viewers that belong to one server at most.                          *)
Narrow == {v \in User : \A s, o \in Server :
                           v \in members[s] /\ v \in members[o] => s = o}

PTypeOK == VInv /\ panel \in [User -> [User -> Row \cup {NoRow}]]

(* The server of the row that a task carries.                              *)
There(k) == ServerOf[k.row.ch]

(* What a viewer is shown of a user one of whose tasks stands at k: the    *)
(* truth until the task writes, and then, until it has announced what it   *)
(* wrote, nothing unless the viewer belongs to the server to be told.      *)
ShownAt(v, u, k) ==
    /\ k.at \in {"join_prior", "join_upsert", "leave_delete", "update_write",
                 "clean_select", "clean_delete"} => panel[v][u] = Visible(v, u)
    /\ k.at = "join_upsert" =>
          k.prior = IF voice[u] = NoRow THEN NoServer ELSE ServerOf[voice[u].ch]
    /\ k.at \in {"join_announce", "join_leave_old", "update_announce",
                 "clean_delete"} => voice[u] = k.row
    /\ k.at \in {"leave_announce", "clean_announce"} => voice[u] = NoRow
    /\ k.at = "join_announce" => \/ panel[v][u] = NoRow
                                 \/ k.prior \in Server /\ v \in members[k.prior]
    /\ k.at = "join_leave_old" =>
          /\ k.prior # There(k)
          /\ IF v \in members[There(k)] THEN panel[v][u] = k.row
             ELSE panel[v][u] = NoRow \/ v \in members[k.prior]
    /\ k.at \in {"update_announce", "leave_announce", "clean_announce"} =>
          panel[v][u] = NoRow \/ v \in members[There(k)]

InStep(v, u) == \/ InFlight(u) = {} /\ panel[v][u] = Visible(v, u)
                \/ \E t \in Task : InFlight(u) = {t} /\ ShownAt(v, u, task[t])

PInv == PTypeOK /\ \A v \in Narrow, u \in User : InStep(v, u)
-----------------------------------------------------------------------------
(* A task and what it carries, as the panel's proofs need them.            *)
LEMMA TaskHas ==
    ASSUME VInv, NEW t \in Task, task[t].at \in Steps
    PROVE  /\ task[t] # Idle /\ task[t] \in Busy /\ task[t].user \in User
           /\ t \in InFlight(task[t].user)
           /\ task[t].at \in Carrying => /\ task[t].row \in Row /\ task[t].row # NoRow
                                         /\ There(task[t]) \in Server
           /\ voice[task[t].user] \in Row \cup {NoRow}
           /\ voice[task[t].user] # NoRow => ServerOf[voice[task[t].user].ch] \in Server
<1>1. task[t] # Idle /\ task[t] \in Busy /\ t \in InFlight(task[t].user)
  BY BusyAt DEF VInv
<1>2. task[t].user \in User /\ voice[task[t].user] \in Row \cup {NoRow}
  BY <1>1 DEF Busy, VInv, VTypeOK
<1>3. task[t].at \in Carrying => task[t].row \in Row
  BY DEF VInv, Carries
<1> QED
  BY <1>1, <1>2, <1>3, VoiceAssumption, NoRowAssumption DEF Row, There

(* What a step of task t does to the record of t.                          *)
LEMMA GoesTo ==
    ASSUME VInv, NEW t \in Task, task[t].at \in Steps, NEW step \in Steps,
           Goto(t, step)
    PROVE  /\ task'[t] # Idle /\ task'[t].at = step
           /\ task'[t].user = task[t].user /\ task'[t].row = task[t].row
           /\ task'[t].prior = task[t].prior
           /\ \A x \in Task \ {t} : task'[x] = task[x]
<1> DEFINE b == [task[t] EXCEPT !.at = step]
<1>1. b.at = step /\ b.user = task[t].user /\ b.row = task[t].row /\ b.prior = task[t].prior
  BY TaskHas DEF Busy
<1>2. b # Idle
  BY <1>1 DEF Idle, Steps
<1>3. task' = [task EXCEPT ![t] = b]
  BY DEF Goto
<1> HIDE DEF b
<1> QED
  BY <1>1, <1>2, <1>3 DEF VInv, VTypeOK

LEMMA EndsAt ==
    ASSUME VInv, NEW t \in Task, End(t)
    PROVE  task'[t] = Idle /\ \A x \in Task \ {t} : task'[x] = task[x]
  BY DEF VInv, VTypeOK, End

(* A step of one task about one user leaves what is shown of the others.   *)
LEMMA OthersInStep ==
    ASSUME NEW t \in Task, NEW u \in User, NEW v \in User, NEW w \in User, w # u,
           InStep(v, w), UNCHANGED members,
           voice'[w] = voice[w], panel'[v][w] = panel[v][w],
           \A x \in Task \ {t} : task'[x] = task[x],
           task[t] = Idle \/ task[t].user = u,
           task'[t] = Idle \/ task'[t].user = u
    PROVE  InStep(v, w)'
<1>1. InFlight(w)' = InFlight(w) /\ \A x \in InFlight(w) : task'[x] = task[x]
  BY DEF InFlight
<1>2. Visible(v, w)' = Visible(v, w)
  BY DEF Visible
<1>3. ASSUME NEW x \in Task, x \in InFlight(w), ShownAt(v, w, task[x])
      PROVE  ShownAt(v, w, task[x])'
  <2>1. task'[x] = task[x]
    BY <1>1, <1>3
  <2>2. There(task[x])' = There(task[x])
    BY <2>1 DEF There
  <2> QED
    BY <1>2, <1>3, <2>1, <2>2 DEF ShownAt
<1> QED
  BY <1>1, <1>2, <1>3 DEF InStep

(* The one task about a user goes on with its account, or it ends with the *)
(* user shown as the table says.                                           *)
LEMMA OwnInStep ==
    ASSUME NEW t \in Task, NEW u \in User, NEW v \in User,
           InFlight(u) \subseteq {t},
           \A x \in Task \ {t} : task'[x] = task[x],
           \/ task'[t] = Idle /\ panel'[v][u] = Visible(v, u)'
           \/ task'[t] # Idle /\ task'[t].user = u /\ ShownAt(v, u, task[t])'
    PROVE  InStep(v, u)'
<1>1. CASE task'[t] = Idle
  <2>1. InFlight(u)' = {}
    BY <1>1 DEF InFlight
  <2> QED
    BY <1>1, <2>1 DEF InStep
<1>2. CASE task'[t] # Idle
  <2>1. InFlight(u)' = {t}
    BY <1>2 DEF InFlight
  <2> QED
    BY <1>2, <2>1 DEF InStep
<1> QED
  BY <1>1, <1>2

(* The task under way about a user is the only one, and accounted for.     *)
LEMMA OnlyOne ==
    ASSUME PInv, NEW t \in Task, NEW u \in User, NEW v \in Narrow,
           t \in InFlight(u)
    PROVE  InFlight(u) = {t} /\ ShownAt(v, u, task[t])
<1>1. InStep(v, u)
  BY DEF PInv
<1> QED
  BY <1>1 DEF InStep

(* So a step of task t, of user u, keeps everybody's panels in step if it  *)
(* keeps what is shown of u.                                               *)
LEMMA PanelFrame ==
    ASSUME PInv, PTypeOK', NEW t \in Task, NEW u \in User,
           UNCHANGED members,
           \A w \in User \ {u} : /\ voice'[w] = voice[w]
                                 /\ \A v \in User : panel'[v][w] = panel[v][w],
           \A x \in Task \ {t} : task'[x] = task[x],
           task[t] = Idle \/ task[t].user = u,
           task'[t] = Idle \/ task'[t].user = u,
           \A v \in Narrow : InFlight(u) \subseteq {t},
           \A v \in Narrow :
              \/ task'[t] = Idle /\ panel'[v][u] = Visible(v, u)'
              \/ task'[t] # Idle /\ task'[t].user = u /\ ShownAt(v, u, task[t])'
    PROVE  PInv'
<1>1. Narrow' = Narrow /\ Narrow \subseteq User
  BY DEF Narrow
<1>2. ASSUME NEW v \in Narrow, NEW w \in User PROVE InStep(v, w)'
  <2>1. CASE w = u
    BY <1>1, <2>1, OwnInStep
  <2>2. CASE w # u
    BY <1>1, <2>2, OthersInStep DEF PInv
  <2> QED
    BY <2>1, <2>2
<1> QED
  BY <1>1, <1>2 DEF PInv
-----------------------------------------------------------------------------
(* A task begins while nothing else is under way about its user.           *)
LEMMA PanelBegins ==
    ASSUME PInv, VInv', NEW t \in Task, NEW u \in User, InFlight(u) = {},
           NEW step \in {"join_prior", "leave_delete", "update_write", "clean_select"},
           NEW row, task[t] = Idle,
           task' = [task EXCEPT ![t] = [at |-> step, user |-> u, row |-> row,
                                        prior |-> NoServer]],
           UNCHANGED <<members, voice, panel>>
    PROVE  PInv'
<1> DEFINE b == [at |-> step, user |-> u, row |-> row, prior |-> NoServer]
<1>1. b # Idle /\ b.at = step /\ b.user = u
  BY DEF Idle
<1>2. task'[t] = b /\ \A x \in Task \ {t} : task'[x] = task[x]
  BY DEF PInv, PTypeOK, VInv, VTypeOK
<1> HIDE DEF b
<1>3. PTypeOK'
  BY DEF PInv, PTypeOK
<1>4. ASSUME NEW v \in Narrow PROVE ShownAt(v, u, task[t])'
  <2>1. panel[v][u] = Visible(v, u)
    BY DEF PInv, InStep
  <2>2. Visible(v, u)' = Visible(v, u)
    BY DEF Visible
  <2> QED
    BY <1>1, <1>2, <2>1, <2>2 DEF ShownAt
<1> QED
  BY <1>1, <1>2, <1>3, <1>4, PanelFrame

LEMMA PanelStarts ==
    ASSUME Patient = TRUE, PInv, UNCHANGED panel,
           \/ \E t \in Req, u \in User : ReqStart(t, u)
           \/ \E c \in Conn : CleanStart(c)
    PROVE  PInv'
<1>1. ASSUME NEW t \in Req, NEW u \in User, ReqStart(t, u) PROVE PInv'
  <2>1. VInv' /\ t \in Task
    BY <1>1, ReqStartOK DEF PInv, PTypeOK, Task
  <2>2. PICK ch \in Channel : \/ JoinStart(t, u, ch) \/ LeaveStart(t, u, ch)
                              \/ \E m \in BOOLEAN : UpdateStart(t, u, ch, m)
    BY <1>1 DEF ReqStart
  <2>3. PICK step \in {"join_prior", "leave_delete", "update_write"}, row \in Row :
           Begin(t, step, u, row) /\ UNCHANGED <<members, voice>>
    BY <2>2 DEF JoinStart, LeaveStart, UpdateStart, JoinRow, Row
  <2> QED
    BY <2>1, <2>3, PanelBegins DEF Begin
<1>2. ASSUME NEW c \in Conn, CleanStart(c) PROVE PInv'
  <2>1. VInv' /\ c \in Task /\ UserOf[c] \in User
    BY <1>2, CleanOK, VoiceAssumption DEF PInv, PTypeOK, Task
  <2> QED
    BY <1>2, <2>1, PanelBegins DEF CleanStart
<1> QED
  BY <1>1, <1>2

-----------------------------------------------------------------------------
(* The quiet steps: the table changes, what is shown does not.             *)
LEMMA PanelJoinPrior ==
    ASSUME Reliable = TRUE, PInv, NEW t \in Req, JoinPrior(t), UNCHANGED panel
    PROVE  PInv'
<1>1. t \in Task /\ VInv /\ task[t].at = "join_prior" /\ PTypeOK'
  BY ReqQuietOK DEF PInv, PTypeOK, Task, JoinPrior, ReqQuiet
<1>2. PICK u \in User : u = task[t].user
  BY <1>1, TaskHas DEF Steps
<1>3. task[t] # Idle /\ task[t] \in Busy /\ t \in InFlight(u)
  BY <1>1, <1>2, TaskHas DEF Steps
<1> DEFINE found == IF voice[u] = NoRow THEN NoServer ELSE ServerOf[voice[u].ch]
           a == [task[t] EXCEPT !.at = "join_upsert"]
           b == [a EXCEPT !.prior = found]
<1>4. task' = [task EXCEPT ![t].at = "join_upsert", ![t].prior = found]
  BY <1>2 DEF JoinPrior
<1>5. task' = [task EXCEPT ![t] = b]
  BY <1>1, <1>4, Zenon DEF VInv, VTypeOK
<1>6. a \in Busy /\ a.at = "join_upsert" /\ a.user = u
  BY <1>2, <1>3 DEF Busy, Steps
<1> HIDE DEF a, found
<1>7. b.at = "join_upsert" /\ b.user = u /\ b.prior = found
  BY <1>6 DEF Busy
<1> HIDE DEF b
<1>8. /\ task'[t] # Idle /\ task'[t].at = "join_upsert" /\ task'[t].user = u
      /\ task'[t].prior = found /\ \A x \in Task \ {t} : task'[x] = task[x]
  BY <1>1, <1>5, <1>7 DEF VInv, VTypeOK, Idle
<1>9. UNCHANGED <<members, voice>>
  BY DEF JoinPrior
<1>10. ASSUME NEW v \in Narrow
       PROVE  InFlight(u) = {t} /\ ShownAt(v, u, task[t])'
  <2>1. InFlight(u) = {t} /\ ShownAt(v, u, task[t])
    BY <1>1, <1>3, OnlyOne
  <2>2. panel'[v][u] = Visible(v, u)'
    BY <1>1, <1>9, <2>1 DEF ShownAt, Visible
  <2>3. found' = found
    BY <1>9 DEF found
  <2> QED
    BY <1>8, <1>9, <2>1, <2>2, <2>3 DEF ShownAt, found
<1> QED
  BY <1>1, <1>2, <1>3, <1>8, <1>9, <1>10, PanelFrame
LEMMA PanelJoinUpsert ==
    ASSUME PInv, NEW t \in Req, JoinUpsert(t), UNCHANGED panel
    PROVE  PInv'
<1>1. t \in Task /\ VInv /\ task[t].at = "join_upsert" /\ PTypeOK'
  BY ReqQuietOK DEF PInv, PTypeOK, Task, JoinUpsert, ReqQuiet
<1>2. PICK u \in User : u = task[t].user
  BY <1>1, TaskHas DEF Steps
<1>3. /\ task[t] # Idle /\ t \in InFlight(u) /\ There(task[t]) \in Server
      /\ task[t].row # NoRow
      /\ voice[u] # NoRow => ServerOf[voice[u].ch] \in Server
  BY <1>1, <1>2, TaskHas DEF Steps, Carrying
<1>4. /\ task'[t] # Idle /\ task'[t].at = "join_announce" /\ task'[t].user = u
      /\ task'[t].row = task[t].row /\ task'[t].prior = task[t].prior
      /\ \A x \in Task \ {t} : task'[x] = task[x]
  BY <1>1, <1>2, GoesTo DEF JoinUpsert, Steps
<1>5. /\ UNCHANGED members /\ voice'[u] = task[t].row
      /\ \A w \in User \ {u} : voice'[w] = voice[w]
  BY <1>1, <1>2 DEF JoinUpsert, VInv, VTypeOK
<1>6. ASSUME NEW v \in Narrow
      PROVE  InFlight(u) = {t} /\ ShownAt(v, u, task[t])'
  <2>1. InFlight(u) = {t} /\ ShownAt(v, u, task[t])
    BY <1>1, <1>3, OnlyOne
  <2> QED
    BY <1>1, <1>3, <1>4, <1>5, <2>1 DEF ShownAt, Visible
<1> QED
  BY <1>1, <1>2, <1>3, <1>4, <1>5, <1>6, PanelFrame

(* A leave deletes the row it is aimed at, or finds none and ends.         *)
LEMMA PanelLeaveDelete ==
    ASSUME PInv, NEW t \in Req, LeaveDelete(t), UNCHANGED panel
    PROVE  PInv'
<1>1. t \in Task /\ VInv /\ task[t].at = "leave_delete" /\ PTypeOK'
  BY ReqQuietOK DEF PInv, PTypeOK, Task, LeaveDelete, ReqQuiet
<1>2. PICK u \in User : u = task[t].user
  BY <1>1, TaskHas DEF Steps
<1>3. task[t] # Idle /\ t \in InFlight(u) /\ There(task[t]) \in Server
  BY <1>1, <1>2, TaskHas DEF Steps, Carrying
<1>4. UNCHANGED members
  BY DEF LeaveDelete
<1>5. CASE InChannel(u, task[t].row.ch)
  <2>1. Goto(t, "leave_announce") /\ voice' = [voice EXCEPT ![u] = NoRow]
    BY <1>2, <1>5 DEF LeaveDelete
  <2>2. /\ task'[t] # Idle /\ task'[t].at = "leave_announce" /\ task'[t].user = u
        /\ task'[t].row = task[t].row
        /\ \A x \in Task \ {t} : task'[x] = task[x]
    BY <1>1, <1>2, <2>1, GoesTo DEF Steps
  <2>3. voice'[u] = NoRow /\ \A w \in User \ {u} : voice'[w] = voice[w]
    BY <1>1, <2>1 DEF VInv, VTypeOK
  <2>4. ASSUME NEW v \in Narrow
        PROVE  InFlight(u) = {t} /\ ShownAt(v, u, task[t])'
    <3>1. InFlight(u) = {t} /\ ShownAt(v, u, task[t])
      BY <1>1, <1>3, OnlyOne
    <3> QED
      BY <1>1, <1>4, <1>5, <2>2, <2>3, <3>1 DEF ShownAt, Visible, InChannel, There
  <2> QED
    BY <1>1, <1>2, <1>3, <1>4, <2>2, <2>3, <2>4, PanelFrame
<1>6. CASE ~InChannel(u, task[t].row.ch)
  <2>1. /\ UNCHANGED voice /\ task'[t] = Idle
        /\ \A x \in Task \ {t} : task'[x] = task[x]
    BY <1>1, <1>2, <1>6, EndsAt DEF LeaveDelete
  <2>2. ASSUME NEW v \in Narrow
        PROVE  InFlight(u) = {t} /\ panel'[v][u] = Visible(v, u)'
    <3>1. InFlight(u) = {t} /\ ShownAt(v, u, task[t])
      BY <1>1, <1>3, OnlyOne
    <3> QED
      BY <1>1, <1>4, <2>1, <3>1 DEF ShownAt, Visible
  <2> QED
    BY <1>1, <1>2, <1>3, <1>4, <2>1, <2>2, PanelFrame
<1> QED
  BY <1>5, <1>6

LEMMA PanelUpdateWrite ==
    ASSUME PInv, NEW t \in Req, UpdateWrite(t), UNCHANGED panel
    PROVE  PInv'
<1>1. t \in Task /\ VInv /\ task[t].at = "update_write" /\ PTypeOK'
  BY ReqQuietOK DEF PInv, PTypeOK, Task, UpdateWrite, ReqQuiet
<1>2. PICK u \in User : u = task[t].user
  BY <1>1, TaskHas DEF Steps
<1>3. task[t] # Idle /\ t \in InFlight(u) /\ There(task[t]) \in Server
  BY <1>1, <1>2, TaskHas DEF Steps, Carrying
<1>4. UNCHANGED members
  BY DEF UpdateWrite
<1>5. CASE InChannel(u, task[t].row.ch)
  <2>1. Goto(t, "update_announce") /\ voice' = [voice EXCEPT ![u] = task[t].row]
    BY <1>2, <1>5 DEF UpdateWrite
  <2>2. /\ task'[t] # Idle /\ task'[t].at = "update_announce" /\ task'[t].user = u
        /\ task'[t].row = task[t].row
        /\ \A x \in Task \ {t} : task'[x] = task[x]
    BY <1>1, <1>2, <2>1, GoesTo DEF Steps
  <2>3. voice'[u] = task[t].row /\ \A w \in User \ {u} : voice'[w] = voice[w]
    BY <1>1, <2>1 DEF VInv, VTypeOK
  <2>4. ASSUME NEW v \in Narrow
        PROVE  InFlight(u) = {t} /\ ShownAt(v, u, task[t])'
    <3>1. InFlight(u) = {t} /\ ShownAt(v, u, task[t])
      BY <1>1, <1>3, OnlyOne
    <3> QED
      BY <1>1, <1>4, <1>5, <2>2, <2>3, <3>1 DEF ShownAt, Visible, InChannel, There
  <2> QED
    BY <1>1, <1>2, <1>3, <1>4, <2>2, <2>3, <2>4, PanelFrame
<1>6. CASE ~InChannel(u, task[t].row.ch)
  <2>1. /\ UNCHANGED voice /\ task'[t] = Idle
        /\ \A x \in Task \ {t} : task'[x] = task[x]
    BY <1>1, <1>2, <1>6, EndsAt DEF UpdateWrite
  <2>2. ASSUME NEW v \in Narrow
        PROVE  InFlight(u) = {t} /\ panel'[v][u] = Visible(v, u)'
    <3>1. InFlight(u) = {t} /\ ShownAt(v, u, task[t])
      BY <1>1, <1>3, OnlyOne
    <3> QED
      BY <1>1, <1>4, <2>1, <3>1 DEF ShownAt, Visible
  <2> QED
    BY <1>1, <1>2, <1>3, <1>4, <2>1, <2>2, PanelFrame
<1> QED
  BY <1>5, <1>6

(* A clean-up that finds a row deletes it, as nothing intervenes.          *)
LEMMA PanelCleanSelect ==
    ASSUME Reliable = TRUE, PInv, NEW t \in Conn, CleanSelect(t), UNCHANGED panel
    PROVE  PInv'
<1>1. t \in Task /\ VInv /\ task[t].at = "clean_select" /\ PTypeOK'
  BY CleanOK DEF PInv, PTypeOK, Task, CleanSelect, CleanQuiet
<1>2. PICK u \in User : u = task[t].user
  BY <1>1, TaskHas DEF Steps
<1>3. task[t] # Idle /\ t \in InFlight(u) /\ task[t] \in Busy
  BY <1>1, <1>2, TaskHas DEF Steps
<1>4. UNCHANGED <<members, voice>>
  BY DEF CleanSelect
<1>5. CASE voice[u] # NoRow
  <2> DEFINE b == [at |-> "clean_delete", user |-> u, row |-> voice[u],
                   prior |-> task[t].prior]
  <2>1. task' = [task EXCEPT ![t] = b]
    BY <1>2, <1>3, <1>5 DEF CleanSelect, Busy
  <2>2. b # Idle /\ b.at = "clean_delete" /\ b.user = u /\ b.row = voice[u]
    BY DEF Idle
  <2> HIDE DEF b
  <2>3. /\ task'[t] # Idle /\ task'[t].at = "clean_delete" /\ task'[t].user = u
        /\ task'[t].row = voice[u] /\ \A x \in Task \ {t} : task'[x] = task[x]
    BY <1>1, <2>1, <2>2 DEF VInv, VTypeOK
  <2>4. ASSUME NEW v \in Narrow
        PROVE  InFlight(u) = {t} /\ ShownAt(v, u, task[t])'
    <3>1. InFlight(u) = {t} /\ ShownAt(v, u, task[t])
      BY <1>1, <1>3, OnlyOne
    <3> QED
      BY <1>1, <1>4, <2>3, <3>1 DEF ShownAt, Visible
  <2> QED
    BY <1>1, <1>2, <1>3, <1>4, <2>3, <2>4, PanelFrame
<1>6. CASE voice[u] = NoRow
  <2>1. task'[t] = Idle /\ \A x \in Task \ {t} : task'[x] = task[x]
    BY <1>1, <1>2, <1>6, EndsAt DEF CleanSelect
  <2>2. ASSUME NEW v \in Narrow
        PROVE  InFlight(u) = {t} /\ panel'[v][u] = Visible(v, u)'
    <3>1. InFlight(u) = {t} /\ ShownAt(v, u, task[t])
      BY <1>1, <1>3, OnlyOne
    <3> QED
      BY <1>1, <1>4, <2>1, <3>1 DEF ShownAt, Visible
  <2> QED
    BY <1>1, <1>2, <1>3, <1>4, <2>1, <2>2, PanelFrame
<1> QED
  BY <1>5, <1>6

LEMMA PanelCleanDelete ==
    ASSUME Reliable = TRUE, PInv, NEW t \in Conn, CleanDelete(t), UNCHANGED panel
    PROVE  PInv'
<1>1. t \in Task /\ VInv /\ task[t].at = "clean_delete" /\ PTypeOK'
  BY CleanOK DEF PInv, PTypeOK, Task, CleanDelete, CleanQuiet
<1>2. PICK u \in User : u = task[t].user
  BY <1>1, TaskHas DEF Steps
<1>3. /\ task[t] # Idle /\ t \in InFlight(u) /\ There(task[t]) \in Server
      /\ task[t].row # NoRow
  BY <1>1, <1>2, TaskHas DEF Steps, Carrying
<1>4. UNCHANGED members /\ Goto(t, "clean_announce")
  BY DEF CleanDelete
<1>5. /\ task'[t] # Idle /\ task'[t].at = "clean_announce" /\ task'[t].user = u
      /\ task'[t].row = task[t].row
      /\ \A x \in Task \ {t} : task'[x] = task[x]
  BY <1>1, <1>2, <1>4, GoesTo DEF Steps
<1>6. /\ InChannel(u, task[t].row.ch) => voice'[u] = NoRow
      /\ \A w \in User \ {u} : voice'[w] = voice[w]
  BY <1>1, <1>2 DEF CleanDelete, VInv, VTypeOK
<1>7. ASSUME NEW v \in Narrow
      PROVE  InFlight(u) = {t} /\ ShownAt(v, u, task[t])'
  <2>1. InFlight(u) = {t} /\ ShownAt(v, u, task[t])
    BY <1>1, <1>3, OnlyOne
  <2>2. voice[u] = task[t].row /\ voice'[u] = NoRow
    BY <1>1, <1>3, <1>6, <2>1 DEF ShownAt, InChannel
  <2> QED
    BY <1>1, <1>4, <1>5, <2>1, <2>2 DEF ShownAt, Visible, There
<1> QED
  BY <1>1, <1>2, <1>3, <1>4, <1>5, <1>6, <1>7, PanelFrame

-----------------------------------------------------------------------------
(* An announcement shows one user, to the members of one server.           *)
LEMMA Announces ==
    ASSUME PTypeOK, NEW t \in Task, NEW u \in User, u = task[t].user,
           Announced(t) \in Row \cup {NoRow}, Announce(t)
    PROVE  /\ panel' \in [User -> [User -> Row \cup {NoRow}]]
           /\ \A v \in User : panel'[v][u] = IF v \in Audience(t) THEN Announced(t)
                                             ELSE panel[v][u]
           /\ \A v \in User, w \in User \ {u} : panel'[v][w] = panel[v][w]
  BY DEF PTypeOK, Announce, Show

(* The announcements that end a task leave the user shown as the table     *)
(* says, and a join that comes from another server goes on to announce it  *)
(* there.                                                                  *)
LEMMA PanelAnnounces ==
    ASSUME PInv, NEW t \in Task, VInv', Announce(t), UNCHANGED <<members, voice>>,
           \/ t \in Req /\ ReqAnnounce(t)
           \/ t \in Conn /\ CleanAnnounce(t)
    PROVE  PInv'
<1>1. VInv /\ PTypeOK /\ task[t].at \in {"join_announce", "join_leave_old",
                      "leave_announce", "update_announce", "clean_announce"}
  BY DEF PInv, PTypeOK, ReqAnnounce, JoinAnnounce, JoinLeaveOld, LeaveAnnounce,
         UpdateAnnounce, CleanAnnounce
<1>2. PICK u \in User : u = task[t].user
  BY <1>1, TaskHas DEF Steps
<1>3. /\ task[t] # Idle /\ t \in InFlight(u) /\ There(task[t]) \in Server
      /\ task[t].row \in Row /\ task[t].row # NoRow
      /\ task[t].at = "join_leave_old" => task[t].prior \in Server
  BY <1>1, <1>2, TaskHas DEF Steps, Carrying, VInv, Carries
<1>4. Announced(t) = IF task[t].at \in {"join_announce", "update_announce"}
                     THEN task[t].row ELSE NoRow
  BY DEF Announced
<1>5. /\ panel' \in [User -> [User -> Row \cup {NoRow}]]
      /\ \A v \in User : panel'[v][u] = IF v \in Audience(t) THEN Announced(t)
                                        ELSE panel[v][u]
      /\ \A v \in User, w \in User \ {u} : panel'[v][w] = panel[v][w]
  BY <1>1, <1>2, <1>3, <1>4, Announces
<1>6. PTypeOK'
  BY <1>5 DEF PTypeOK
<1>7. ASSUME NEW v \in Narrow
      PROVE  /\ InFlight(u) = {t} /\ ShownAt(v, u, task[t])
             /\ v \in User
             /\ \A s, o \in Server : v \in members[s] /\ v \in members[o] => s = o
  BY <1>3, OnlyOne DEF Narrow
<1>8. CASE /\ task[t].at = "join_announce"
           /\ task[t].prior \notin {NoServer, There(task[t])}
  <2>1. Goto(t, "join_leave_old")
    BY <1>8 DEF ReqAnnounce, JoinAnnounce, JoinLeaveOld, LeaveAnnounce,
                UpdateAnnounce, CleanAnnounce, There
  <2>2. /\ task'[t] # Idle /\ task'[t].at = "join_leave_old" /\ task'[t].user = u
        /\ task'[t].row = task[t].row /\ task'[t].prior = task[t].prior
        /\ \A x \in Task \ {t} : task'[x] = task[x]
    BY <1>1, <1>2, <2>1, GoesTo DEF Steps
  <2>3. Audience(t) = members[There(task[t])] /\ Announced(t) = task[t].row
    BY <1>4, <1>8 DEF Audience, There
  <2>4. ASSUME NEW v \in Narrow PROVE ShownAt(v, u, task[t])'
    BY <1>5, <1>7, <1>8, <2>2, <2>3 DEF ShownAt, There
  <2> QED
    BY <1>2, <1>5, <1>6, <1>7, <2>2, <2>4, PanelFrame
<1>9. CASE ~ /\ task[t].at = "join_announce"
             /\ task[t].prior \notin {NoServer, There(task[t])}
  <2>1. End(t)
    BY <1>9 DEF ReqAnnounce, JoinAnnounce, JoinLeaveOld, LeaveAnnounce,
                UpdateAnnounce, CleanAnnounce, There
  <2>2. task'[t] = Idle /\ \A x \in Task \ {t} : task'[x] = task[x]
    BY <1>1, <2>1, EndsAt
  <2>3. ASSUME NEW v \in Narrow PROVE panel'[v][u] = Visible(v, u)'
    <3>1. Visible(v, u)' = Visible(v, u)
      BY DEF Visible
    <3>2. CASE task[t].at \in {"join_announce", "update_announce"}
      <4>1. Audience(t) = members[There(task[t])] /\ Announced(t) = task[t].row
        BY <1>4, <3>2 DEF Audience, There
      <4>2. Visible(v, u) = IF v \in members[There(task[t])]
                            THEN task[t].row ELSE NoRow
        BY <1>3, <1>7, <3>2 DEF ShownAt, Visible, There
      <4> QED
        BY <1>5, <1>7, <1>9, <3>1, <3>2, <4>1, <4>2, VoiceAssumption DEF ShownAt
    <3>3. CASE task[t].at \in {"leave_announce", "clean_announce"}
      <4>1. Audience(t) = members[There(task[t])] /\ Announced(t) = NoRow
        BY <1>4, <3>3 DEF Audience, There
      <4>2. Visible(v, u) = NoRow
        BY <1>7, <3>3 DEF ShownAt, Visible
      <4> QED
        BY <1>5, <1>7, <3>1, <3>3, <4>1, <4>2 DEF ShownAt
    <3>4. CASE task[t].at = "join_leave_old"
      <4>1. Audience(t) = members[task[t].prior] /\ Announced(t) = NoRow
        BY <1>4, <3>4 DEF Audience
      <4>2. Visible(v, u) = IF v \in members[There(task[t])]
                            THEN task[t].row ELSE NoRow
        BY <1>3, <1>7, <3>4 DEF ShownAt, Visible, There
      <4>3. ~(v \in members[task[t].prior] /\ v \in members[There(task[t])])
        BY <1>3, <1>7, <3>4 DEF ShownAt
      <4> QED
        BY <1>5, <1>7, <3>1, <3>4, <4>1, <4>2, <4>3 DEF ShownAt
    <3> QED
      BY <1>1, <3>2, <3>3, <3>4
  <2> QED
    BY <1>2, <1>5, <1>6, <1>7, <2>2, <2>3, PanelFrame
<1> QED
  BY <1>8, <1>9
-----------------------------------------------------------------------------
(* All steps, while no query fails and a user's tasks come one at a time.  *)
LEMMA PStep == ASSUME Patient = TRUE, Reliable = TRUE, PInv, [PNext]_pvars
               PROVE  PInv'
<1>0. VInv
  BY DEF PInv, PTypeOK
<1>1. CASE UNCHANGED pvars
  <2>1. PTypeOK' /\ Narrow' = Narrow
    BY <1>1 DEF PInv, PTypeOK, VInv, VTypeOK, Carries, Narrow, pvars, vvars
  <2>2. ASSUME NEW v \in Narrow, NEW u \in User PROVE InStep(v, u)'
    <3>1. InStep(v, u)
      BY DEF PInv
    <3> QED
      BY <1>1, <3>1, ZenonT(30) DEF InStep, InFlight, ShownAt, Visible, There, pvars, vvars
  <2> QED
    BY <2>1, <2>2 DEF PInv
<1>2. ASSUME NEW t \in Req, ReqAnnounce(t), Announce(t) PROVE PInv'
  <2>1. VInv' /\ t \in Task /\ UNCHANGED <<members, voice>>
    BY <1>0, <1>2, ReqAnnounceOK
       DEF Task, ReqAnnounce, JoinAnnounce, JoinLeaveOld, LeaveAnnounce, UpdateAnnounce
  <2> QED
    BY <1>2, <2>1, PanelAnnounces
<1>3. ASSUME NEW c \in Conn, CleanAnnounce(c), Announce(c) PROVE PInv'
  <2>1. VInv' /\ c \in Task /\ UNCHANGED <<members, voice>>
    BY <1>0, <1>3, CleanOK DEF Task, CleanAnnounce
  <2> QED
    BY <1>3, <2>1, PanelAnnounces
<1>4. ASSUME NEW t \in Req, ReqQuiet(t), UNCHANGED panel PROVE PInv'
  BY <1>4, PanelJoinPrior, PanelJoinUpsert, PanelLeaveDelete, PanelUpdateWrite
     DEF ReqQuiet, Drop
<1>5. ASSUME NEW c \in Conn, CleanQuiet(c), UNCHANGED panel PROVE PInv'
  BY <1>5, PanelCleanSelect, PanelCleanDelete DEF CleanQuiet
<1> QED
  BY <1>1, <1>2, <1>3, <1>4, <1>5, PanelStarts DEF PNext

LEMMA PBegin == PInit => PInv
<1> SUFFICES ASSUME PInit PROVE PInv
  OBVIOUS
<1>1. PTypeOK
  BY TypeInit DEF PInit, PTypeOK
<1>2. ASSUME NEW v \in Narrow, NEW u \in User PROVE InStep(v, u)
  BY DEF PInit, VInit, InStep, InFlight, Visible, Narrow
<1> QED
  BY <1>1, <1>2 DEF PInv

(* While no query fails and each user's tasks come one at a time, the      *)
(* clients of all who belong to one server show everyone exactly where the *)
(* table says: each event goes to the members who show the old place or    *)
(* have to show the new one.                                               *)
THEOREM PanelsCorrect ==
    ASSUME Patient = TRUE, Reliable = TRUE
    PROVE  PSpec => []PanelAgrees
<1>1. PInv => PanelAgrees
  <2> SUFFICES ASSUME PInv, NEW u \in User, InFlight(u) = {}, NEW v \in Narrow
               PROVE  panel[v][u] = Visible(v, u)
    BY DEF PanelAgrees, ShownTo, Narrow
  <2> QED
    BY DEF PInv, InStep
<1>2. PInv /\ [PNext]_pvars => PInv'
  BY PStep
<1> QED
  BY <1>1, <1>2, PBegin, PTL DEF PSpec

-----------------------------------------------------------------------------
(* Gateway. *)

Phases == {"new", "refused", "greeted", "online_write", "online_announce", "live",
           "closing", "cleaning", "offline_write", "offline_announce", "gone"}
Statuses == {"online", "away", "offline"}
Changes == [at : {"idle", "write", "announce", "late"}, st : Statuses]
Opening == {"greeted", "online_write", "online_announce"}
Ending == {"offline_write", "offline_announce"}

GTypeOK ==
    /\ VInv
    /\ conn \in [User -> Conn \cup {NoConn}]
    /\ sess \in [Conn -> Phases]
    /\ pres \in [Conn -> Changes]
    /\ status \in [User -> Statuses] /\ seen \in [User -> Statuses]
    /\ upset \in SUBSET User

(* What is true of every session, whatever has happened to its user: only  *)
(* a session that is cleaning has a task, about its own user; only an open *)
(* one handles a change of presence; a new one has made no choice.         *)
SessionOK(c) ==
    /\ task[c] # Idle => task[c].user = UserOf[c] /\ sess[c] = "cleaning"
    /\ sess[c] # "live" => pres[c].at \in {"idle", "late"}
    /\ sess[c] \in Opening \cup {"new"} => pres[c].at = "idle" /\ pres[c].st = "online"

(* A user in no voice channel and with no task under way, except for one   *)
(* who asked for voice when no clean-up was to come.                       *)
Clear(u) == /\ InFlight(u) \cap Conn = {}
            /\ voice[u] # NoRow \/ InFlight(u) # {} => u \in adrift

(* A user none of whose sessions is under way.                             *)
AllOver(u) == /\ \A c \in Sessions(u) : ~Active(c)
              /\ Clear(u) /\ seen[u] = status[u]

(* A user whose session c is under way, and no other: where the table of   *)
(* voice states and the status stand at each step of handle_socket.        *)
Under(u, c) ==
    /\ c \in Sessions(u) /\ Active(c) /\ \A d \in Sessions(u) \ {c} : ~Active(d)
    /\ sess[c] \in Opening \cup {"live", "closing"} => InFlight(u) \cap Conn = {}
    /\ sess[c] \in Ending => Clear(u)
    /\ sess[c] = "cleaning" =>
          /\ InFlight(u) = {c}
          /\ task[c].at \in {"clean_select", "clean_delete", "clean_announce"}
          /\ task[c].at = "clean_delete" => voice[u] = task[c].row
          /\ task[c].at = "clean_announce" => voice[u] = NoRow
    /\ sess[c] \in {"greeted", "online_write"} => seen[u] = status[u]
    /\ sess[c] = "online_announce" => status[u] = "online"
    /\ sess[c] = "live" /\ pres[c].at \in {"idle", "announce"} => status[u] = pres[c].st
    /\ sess[c] = "live" /\ pres[c].at = "idle" => seen[u] = status[u]
    /\ sess[c] = "offline_announce" => status[u] = "offline"

Settles(u) == AllOver(u) \/ \E c \in Conn : Under(u, c)

GInv == GTypeOK /\ (\A c \in Conn : SessionOK(c)) /\ \A u \in User \ upset : Settles(u)
-----------------------------------------------------------------------------
LEMMA StaysClear ==
    ASSUME NEW u \in User, Clear(u), InFlight(u)' = InFlight(u),
           voice'[u] = voice[u], u \in adrift => u \in adrift'
    PROVE  Clear(u)'
  BY DEF Clear

(* What a step leaves alone about a user it is not about.                  *)
Apart(w) ==
    /\ voice'[w] = voice[w] /\ status'[w] = status[w] /\ seen'[w] = seen[w]
    /\ w \in adrift => w \in adrift'
    /\ \A c \in Sessions(w) : sess'[c] = sess[c] /\ pres'[c] = pres[c]
    /\ \A t \in Task : \/ task'[t] = task[t]
                       \/ /\ task[t] = Idle \/ task[t].user # w
                          /\ task'[t] = Idle \/ task'[t].user # w

LEMMA StillSettles ==
    ASSUME NEW w \in User, Settles(w), Apart(w)
    PROVE  Settles(w)'
<1>1. InFlight(w)' = InFlight(w) /\ \A t \in InFlight(w) : task'[t] = task[t]
  BY DEF Apart, InFlight
<1>2. \A c \in Sessions(w) : (Active(c)' <=> Active(c)) /\ c \in Conn
  BY DEF Apart, Active, Sessions
<1>3. CASE AllOver(w)
  <2>1. Clear(w)'
    BY <1>1, <1>3, StaysClear DEF AllOver, Apart
  <2>2. AllOver(w)'
    BY <1>2, <1>3, <2>1 DEF AllOver, Apart, Sessions
  <2> QED
    BY <2>2 DEF Settles
<1>4. ASSUME NEW c \in Conn, Under(w, c) PROVE Settles(w)'
  <2>1. sess'[c] = sess[c] /\ pres'[c] = pres[c]
    BY <1>4 DEF Under, Apart
  <2>2. sess[c] = "cleaning" => task'[c] = task[c]
    BY <1>1, <1>4 DEF Under
  <2>3. Clear(w) => Clear(w)'
    BY <1>1, StaysClear DEF Apart
  <2>4. Under(w, c)'
    BY <1>1, <1>2, <1>4, <2>1, <2>2, <2>3 DEF Under, Apart, Sessions
  <2> QED
    BY <2>4 DEF Settles
<1> QED
  BY <1>3, <1>4 DEF Settles

(* A step of one session keeps the account of all users if it keeps that   *)
(* of its own.                                                             *)
LEMMA OneSession ==
    ASSUME GInv, NEW c \in Conn, NEW u \in User, u = UserOf[c],
           \A d \in Conn \ {c} : sess'[d] = sess[d] /\ pres'[d] = pres[d],
           \A t \in Task \ {c} : task'[t] = task[t],
           task'[c] = Idle \/ task'[c].user = u,
           \A w \in User \ {u} : /\ voice'[w] = voice[w] /\ status'[w] = status[w]
                                 /\ seen'[w] = seen[w]
                                 /\ w \in adrift => w \in adrift',
           upset \subseteq upset', GTypeOK', SessionOK(c)',
           u \notin upset' => Settles(u)'
    PROVE  GInv'
<1>1. task[c] = Idle \/ task[c].user = u
  BY DEF GInv, SessionOK
<1>2. ASSUME NEW w \in User, w \notin upset' PROVE Settles(w)'
  <2>1. CASE w = u
    BY <1>2, <2>1
  <2>2. CASE w # u
    <3>1. Apart(w)
      BY <1>1, <2>2 DEF Apart, Sessions
    <3> QED
      BY <1>2, <3>1, StillSettles DEF GInv
  <2> QED
    BY <2>1, <2>2
<1>3. ASSUME NEW d \in Conn PROVE SessionOK(d)'
  <2>1. CASE d # c
    <3>1. task'[d] = task[d] /\ sess'[d] = sess[d] /\ pres'[d] = pres[d] /\ SessionOK(d)
      BY <2>1 DEF GInv, Task
    <3> QED
      BY <3>1 DEF SessionOK
  <2> QED
    BY <2>1
<1> QED
  BY <1>2, <1>3 DEF GInv

(* A user's session that is under way is the only one.                     *)
LEMMA OnlySession ==
    ASSUME GInv, NEW c \in Conn, NEW u \in User, u = UserOf[c], u \notin upset,
           Active(c)
    PROVE  Under(u, c)
<1>1. c \in Sessions(u) /\ Settles(u)
  BY DEF Sessions, GInv
<1> QED
  BY <1>1 DEF Settles, AllOver, Under

LEMMA TheUser ==
    ASSUME NEW c \in Conn
    PROVE  UserOf[c] \in User /\ c \in Task /\ c \in Sessions(UserOf[c])
  BY VoiceAssumption DEF Task, Sessions

-----------------------------------------------------------------------------
(* Users remain adrift, but for one that is upset by the step.             *)
StayAdrift(u) == \A w \in User : w \in adrift =>
                                   w \in adrift' \/ (w = u /\ u \in upset')

(* READY is sent; nothing else is under way about the user, or the user is *)
(* upset.                                                                  *)
LEMMA GreetOK ==
    ASSUME GInv, NEW c \in Conn, Greet(c)
    PROVE  GInv'
<1>1. PICK u \in User : u = UserOf[c] /\ c \in Task /\ c \in Sessions(u)
  BY TheUser
<1>2. /\ sess[c] = "new" /\ UNCHANGED <<vvars, conn, pres, status, seen>>
      /\ \E to \in {"greeted", "refused"} : sess' = [sess EXCEPT ![c] = to]
      /\ upset \subseteq upset' /\ upset' \in SUBSET User /\ StayAdrift(u)
      /\ u \notin upset' => \A d \in Sessions(u) : ~Active(d)
  BY <1>1 DEF Greet, Phase, UpsetIf, Upset, StayAdrift, GInv, GTypeOK
<1>3. /\ sess'[c] \in {"greeted", "refused"}
      /\ \A d \in Conn \ {c} : sess'[d] = sess[d]
      /\ sess' \in [Conn -> Phases]
  BY <1>2 DEF GInv, GTypeOK, Phases
<1>4. GTypeOK'
  BY <1>2, <1>3 DEF GInv, GTypeOK, VInv, VTypeOK, Carries, vvars
<1>5. SessionOK(c)'
  BY <1>2, <1>3 DEF GInv, SessionOK, Opening, vvars
<1>6. ASSUME u \notin upset' PROVE Settles(u)'
  <2>1. AllOver(u)
    BY <1>1, <1>2, <1>6 DEF GInv, Settles, Under
  <2>2. Clear(u)' /\ InFlight(u)' \cap Conn = {} /\ seen'[u] = status'[u]
    <3>1. InFlight(u)' = InFlight(u) /\ voice'[u] = voice[u]
      BY <1>2 DEF InFlight, vvars
    <3>2. Clear(u)'
      BY <1>2, <1>6, <2>1, <3>1, StaysClear DEF AllOver, StayAdrift
    <3> QED
      BY <1>2, <2>1, <3>1, <3>2 DEF AllOver, Clear
  <2>3. \A d \in Sessions(u) \ {c} : ~Active(d)'
    BY <1>3, <2>1 DEF AllOver, Active, Sessions
  <2>4. CASE sess'[c] = "refused"
    <3>1. AllOver(u)'
      BY <2>2, <2>3, <2>4 DEF AllOver, Active, Sessions
    <3> QED
      BY <3>1 DEF Settles
  <2>5. CASE sess'[c] = "greeted"
    <3>1. Under(u, c)'
      BY <1>1, <2>2, <2>3, <2>5 DEF Under, Active, Sessions, Opening, Ending
    <3> QED
      BY <3>1 DEF Settles
  <2> QED
    BY <1>3, <2>4, <2>5
<1>7. task'[c] = Idle \/ task'[c].user = u
  BY <1>1, <1>2 DEF GInv, SessionOK, vvars
<1> QED
  BY <1>1, <1>2, <1>3, <1>4, <1>5, <1>6, <1>7, OneSession DEF vvars, StayAdrift

-----------------------------------------------------------------------------
(* The halves of set_presence: the value is stored, or announced, unless   *)
(* the user is upset from now on.                                          *)
LEMMA PersistIs ==
    ASSUME GTypeOK, NEW u \in User, NEW s \in Statuses, Persist(u, s)
    PROVE  /\ \E v \in Statuses : status' = [status EXCEPT ![u] = v]
           /\ u \notin upset' => status'[u] = s
           /\ upset \subseteq upset' /\ upset' \in SUBSET User /\ StayAdrift(u)
<1>1. CASE status' = [status EXCEPT ![u] = s] /\ UNCHANGED <<upset, adrift>>
  BY <1>1 DEF GTypeOK, StayAdrift
<1>2. CASE UNCHANGED status /\ Upset(u)
  <2>1. status[u] \in Statuses /\ status' = [status EXCEPT ![u] = status[u]]
    BY <1>2 DEF GTypeOK
  <2> QED
    BY <1>2, <2>1 DEF Upset, GTypeOK, StayAdrift
<1> QED
  BY <1>1, <1>2 DEF Persist

LEMMA PublishIs ==
    ASSUME GTypeOK, NEW u \in User, NEW s \in Statuses, Publish(u, s)
    PROVE  /\ \E v \in Statuses : seen' = [seen EXCEPT ![u] = v]
           /\ u \notin upset' => seen'[u] = s
           /\ upset \subseteq upset' /\ upset' \in SUBSET User /\ StayAdrift(u)
<1>1. CASE seen' = [seen EXCEPT ![u] = s] /\ UNCHANGED <<upset, adrift>>
  BY <1>1 DEF GTypeOK, StayAdrift
<1>2. CASE UNCHANGED seen /\ Upset(u)
  <2>1. seen[u] \in Statuses /\ seen' = [seen EXCEPT ![u] = seen[u]]
    BY <1>2 DEF GTypeOK
  <2> QED
    BY <1>2, <2>1 DEF Upset, GTypeOK, StayAdrift
<1> QED
  BY <1>1, <1>2 DEF Publish

(* A step of a session that leaves the voice states alone: it goes to      *)
(* phase p, its change of presence to r, and the status and what was       *)
(* announced of it to s and a.                                             *)
Moves(c, p, r, s, a) ==
    /\ UNCHANGED vvars
    /\ conn' \in [User -> Conn \cup {NoConn}]
    /\ upset \subseteq upset' /\ upset' \in SUBSET User /\ StayAdrift(UserOf[c])
    /\ sess' = [sess EXCEPT ![c] = p] /\ pres' = [pres EXCEPT ![c] = r]
    /\ status' = [status EXCEPT ![UserOf[c]] = s]
    /\ seen' = [seen EXCEPT ![UserOf[c]] = a]

LEMMA QuietStep ==
    ASSUME GInv, NEW c \in Conn, NEW u \in User, u = UserOf[c],
           NEW p \in Phases, NEW r \in Changes,
           NEW s \in Statuses, NEW a \in Statuses, Moves(c, p, r, s, a),
           p = sess[c] \/ sess[c] # "cleaning",
           p # "live" => r.at \in {"idle", "late"},
           p \in Opening \cup {"new"} => r.at = "idle" /\ r.st = "online",
           u \notin upset' => Settles(u)'
    PROVE  GInv'
<1>1. /\ VInv' /\ conn' \in [User -> Conn \cup {NoConn}]
      /\ upset \subseteq upset' /\ upset' \in SUBSET User
  BY DEF GInv, GTypeOK, VInv, VTypeOK, Carries, Moves, vvars
<1>2. /\ sess' \in [Conn -> Phases] /\ pres' \in [Conn -> Changes]
      /\ sess'[c] = p /\ pres'[c] = r
      /\ \A d \in Conn \ {c} : sess'[d] = sess[d] /\ pres'[d] = pres[d]
  BY DEF GInv, GTypeOK, Moves, Changes
<1>3. /\ status' \in [User -> Statuses] /\ seen' \in [User -> Statuses]
      /\ \A w \in User \ {u} : status'[w] = status[w] /\ seen'[w] = seen[w]
  BY DEF GInv, GTypeOK, Moves
<1>4. GTypeOK'
  BY <1>1, <1>2, <1>3 DEF GTypeOK, Changes
<1>5. task'[c] # Idle => task'[c].user = u /\ p = "cleaning"
  BY DEF GInv, SessionOK, Moves, vvars
<1>6. SessionOK(c)'
  BY <1>2, <1>5 DEF SessionOK
<1>7. /\ \A t \in Task \ {c} : task'[t] = task[t]
      /\ \A w \in User \ {u} : /\ voice'[w] = voice[w]
                               /\ w \in adrift => w \in adrift'
  BY DEF Moves, StayAdrift, vvars
<1> QED
  BY <1>1, <1>2, <1>3, <1>4, <1>5, <1>6, <1>7, OneSession

(* If the user was not upset, the session was the only one under way and   *)
(* remains it; what is left to show is where things stand after the step.  *)
LEMMA StillUnder ==
    ASSUME GInv, NEW c \in Conn, NEW u \in User, u = UserOf[c],
           u \notin upset', Active(c),
           NEW p \in Phases, NEW r \in Changes,
           NEW s \in Statuses, NEW a \in Statuses, Moves(c, p, r, s, a)
    PROVE  /\ Under(u, c)
           /\ Clear(u) => Clear(u)'
           /\ InFlight(u)' = InFlight(u) /\ voice'[u] = voice[u] /\ task' = task
           /\ sess'[c] = p /\ pres'[c] = r /\ status'[u] = s /\ seen'[u] = a
           /\ \A d \in Sessions(u) \ {c} : ~Active(d)'
<1>1. Under(u, c)
  BY OnlySession DEF Moves
<1>2. InFlight(u)' = InFlight(u) /\ voice'[u] = voice[u] /\ task' = task
  BY DEF Moves, vvars, InFlight
<1>3. sess'[c] = p /\ pres'[c] = r /\ status'[u] = s /\ seen'[u] = a
  BY DEF Moves, GInv, GTypeOK, Changes
<1>4. \A d \in Sessions(u) \ {c} : sess'[d] = sess[d]
  BY DEF Moves, GInv, GTypeOK, Sessions
<1>5. \A d \in Sessions(u) \ {c} : ~Active(d)'
  BY <1>1, <1>4 DEF Under, Active
<1>6. Clear(u) => Clear(u)'
  BY <1>2, StaysClear DEF Moves, StayAdrift
<1> QED
  BY <1>1, <1>2, <1>3, <1>5, <1>6

(* connections.add. *)
LEMMA RegisterOK ==
    ASSUME GInv, NEW c \in Conn, Register(c)
    PROVE  GInv'
<1>1. PICK u \in User : u = UserOf[c] /\ c \in Task /\ c \in Sessions(u)
  BY TheUser
<1>2. PICK r \in Changes, s \in Statuses, a \in Statuses :
         r = pres[c] /\ s = status[u] /\ a = seen[u]
  BY <1>1 DEF GInv, GTypeOK, Changes
<1>3. sess[c] = "greeted" /\ UNCHANGED upset
  BY DEF Register, Phase
<1>4. Moves(c, "online_write", r, s, a)
  BY <1>1, <1>2 DEF Register, Phase, Moves, StayAdrift, GInv, GTypeOK
<1>5. r.at = "idle" /\ r.st = "online" /\ Active(c)
  BY <1>2, <1>3 DEF GInv, SessionOK, Opening, Active
<1>6. "online_write" \in Phases
  BY DEF Phases
<1>7. ASSUME u \notin upset' PROVE Settles(u)'
  <2>1. Under(u, c)'
    BY <1>1, <1>2, <1>3, <1>4, <1>5, <1>6, <1>7, StillUnder
       DEF Under, Active, Opening, Ending, Sessions
  <2> QED
    BY <2>1 DEF Settles
<1> QED
  BY <1>1, <1>2, <1>3, <1>4, <1>5, <1>6, <1>7, QuietStep

(* set_presence(online). *)
LEMMA OnlineWriteOK ==
    ASSUME GInv, NEW c \in Conn, OnlineWrite(c)
    PROVE  GInv'
<1>1. PICK u \in User : u = UserOf[c] /\ c \in Task /\ c \in Sessions(u)
  BY TheUser
<1>2. PICK r \in Changes, a \in Statuses : r = pres[c] /\ a = seen[u]
  BY <1>1 DEF GInv, GTypeOK, Changes
<1>3. sess[c] = "online_write"
  BY DEF OnlineWrite, Phase
<1>4. GTypeOK /\ Persist(u, "online") /\ "online" \in Statuses
  BY <1>1 DEF OnlineWrite, GInv, Statuses
<1>5. PICK s \in Statuses : status' = [status EXCEPT ![u] = s]
  BY <1>4, PersistIs
<1>6. /\ upset \subseteq upset' /\ upset' \in SUBSET User /\ StayAdrift(u)
      /\ u \notin upset' => status'[u] = "online"
  BY <1>4, PersistIs
<1>7. Moves(c, "online_announce", r, s, a)
  BY <1>1, <1>2, <1>5, <1>6 DEF OnlineWrite, Phase, Moves, GInv, GTypeOK
<1>8. r.at = "idle" /\ r.st = "online" /\ Active(c)
  BY <1>2, <1>3 DEF GInv, SessionOK, Opening, Active
<1>9. "online_announce" \in Phases
  BY DEF Phases
<1>10. ASSUME u \notin upset' PROVE Settles(u)'
  <2>1. Under(u, c)'
    BY <1>1, <1>2, <1>3, <1>5, <1>6, <1>7, <1>8, <1>9, <1>10, StillUnder
       DEF Under, Active, Opening, Ending, Sessions
  <2> QED
    BY <2>1 DEF Settles
<1> QED
  BY <1>1, <1>2, <1>3, <1>7, <1>8, <1>9, <1>10, QuietStep

LEMMA OnlineAnnounceOK ==
    ASSUME GInv, NEW c \in Conn, OnlineAnnounce(c)
    PROVE  GInv'
<1>1. PICK u \in User : u = UserOf[c] /\ c \in Task /\ c \in Sessions(u)
  BY TheUser
<1>2. PICK r \in Changes, s \in Statuses : r = pres[c] /\ s = status[u]
  BY <1>1 DEF GInv, GTypeOK, Changes
<1>3. sess[c] = "online_announce"
  BY DEF OnlineAnnounce, Phase
<1>4. GTypeOK /\ Publish(u, "online") /\ "online" \in Statuses
  BY <1>1 DEF OnlineAnnounce, GInv, Statuses
<1>5. PICK a \in Statuses : seen' = [seen EXCEPT ![u] = a]
  BY <1>4, PublishIs
<1>6. /\ upset \subseteq upset' /\ upset' \in SUBSET User /\ StayAdrift(u)
      /\ u \notin upset' => seen'[u] = "online"
  BY <1>4, PublishIs
<1>7. Moves(c, "live", r, s, a)
  BY <1>1, <1>2, <1>5, <1>6 DEF OnlineAnnounce, Phase, Moves, GInv, GTypeOK
<1>8. r.at = "idle" /\ r.st = "online" /\ Active(c)
  BY <1>2, <1>3 DEF GInv, SessionOK, Opening, Active
<1>9. "live" \in Phases /\ "live" \notin Opening \cup {"new"}
  BY DEF Phases, Opening
<1>10. ASSUME u \notin upset' PROVE Settles(u)'
  <2>1. Under(u, c)'
    BY <1>1, <1>2, <1>3, <1>5, <1>6, <1>7, <1>8, <1>9, <1>10, StillUnder
       DEF Under, Active, Opening, Ending, Sessions
  <2> QED
    BY <2>1 DEF Settles
<1> QED
  BY <1>1, <1>2, <1>3, <1>7, <1>8, <1>9, <1>10, QuietStep

-----------------------------------------------------------------------------
(* A change of presence that a client asks for.                            *)
LEMMA PresenceUpdateOK ==
    ASSUME GInv, NEW c \in Conn, NEW st \in Choices, PresenceUpdate(c, st)
    PROVE  GInv'
<1>1. PICK u \in User : u = UserOf[c] /\ c \in Task /\ c \in Sessions(u)
  BY TheUser
<1>2. PICK p \in Phases, s \in Statuses, a \in Statuses :
         p = sess[c] /\ s = status[u] /\ a = seen[u]
  BY <1>1 DEF GInv, GTypeOK
<1>3. PICK r \in Changes : r = [at |-> "write", st |-> st]
  BY GatewayAssumption DEF Changes, Statuses
<1>4. sess[c] = "live" /\ UNCHANGED upset /\ Active(c)
  BY DEF PresenceUpdate, Active
<1>5. Moves(c, p, r, s, a)
  BY <1>1, <1>2, <1>3 DEF PresenceUpdate, Moves, StayAdrift, GInv, GTypeOK
<1>6. p \notin Opening \cup {"new"}
  BY <1>2, <1>4 DEF Opening
<1>7. ASSUME u \notin upset' PROVE Settles(u)'
  <2>1. r.at = "write"
    BY <1>3
  <2>2. Under(u, c)'
    BY <1>1, <1>2, <1>4, <1>5, <1>7, <2>1, StillUnder
       DEF Under, Active, Opening, Ending, Sessions
  <2> QED
    BY <2>2 DEF Settles
<1> QED
  BY <1>1, <1>2, <1>4, <1>5, <1>6, <1>7, QuietStep

LEMMA PresenceWriteOK ==
    ASSUME GInv, NEW c \in Conn, PresenceWrite(c)
    PROVE  GInv'
<1>1. PICK u \in User : u = UserOf[c] /\ c \in Task /\ c \in Sessions(u)
  BY TheUser
<1>2. PICK p \in Phases, st \in Statuses, a \in Statuses :
         p = sess[c] /\ st = pres[c].st /\ a = seen[u]
  BY <1>1 DEF GInv, GTypeOK, Changes
<1>3. PICK r \in Changes : r = [pres[c] EXCEPT !.at = "announce"]
  BY DEF Changes, GInv, GTypeOK
<1>4. sess[c] = "live" /\ Active(c)
  BY DEF PresenceWrite, GInv, SessionOK, Active
<1>5. GTypeOK /\ Persist(u, st)
  BY <1>1, <1>2 DEF PresenceWrite, GInv
<1>6. PICK s \in Statuses : status' = [status EXCEPT ![u] = s]
  BY <1>5, PersistIs
<1>7. /\ upset \subseteq upset' /\ upset' \in SUBSET User /\ StayAdrift(u)
      /\ u \notin upset' => status'[u] = st
  BY <1>5, PersistIs
<1>8. Moves(c, p, r, s, a)
  BY <1>1, <1>2, <1>3, <1>6, <1>7 DEF PresenceWrite, Moves, GInv, GTypeOK
<1>9. p \notin Opening \cup {"new"}
  BY <1>2, <1>4 DEF Opening
<1>10. ASSUME u \notin upset' PROVE Settles(u)'
  <2>1. r.at = "announce" /\ r.st = st
    BY <1>2, <1>3 DEF GInv, GTypeOK
  <2>2. Under(u, c)'
    BY <1>1, <1>2, <1>4, <1>7, <1>8, <1>10, <2>1, StillUnder
       DEF Under, Active, Opening, Ending, Sessions
  <2> QED
    BY <2>2 DEF Settles
<1> QED
  BY <1>1, <1>2, <1>4, <1>8, <1>9, <1>10, QuietStep

LEMMA PresenceAnnounceOK ==
    ASSUME GInv, NEW c \in Conn, PresenceAnnounce(c)
    PROVE  GInv'
<1>1. PICK u \in User : u = UserOf[c] /\ c \in Task /\ c \in Sessions(u)
  BY TheUser
<1>2. PICK p \in Phases, st \in Statuses, s \in Statuses :
         p = sess[c] /\ st = pres[c].st /\ s = status[u]
  BY <1>1 DEF GInv, GTypeOK, Changes
<1>3. PICK r \in Changes : r = [pres[c] EXCEPT !.at = "idle"]
  BY DEF Changes, GInv, GTypeOK
<1>4. sess[c] = "live" /\ Active(c) /\ pres[c].at = "announce"
  BY DEF PresenceAnnounce, GInv, SessionOK, Active
<1>5. GTypeOK /\ Publish(u, st)
  BY <1>1, <1>2 DEF PresenceAnnounce, GInv
<1>6. PICK a \in Statuses : seen' = [seen EXCEPT ![u] = a]
  BY <1>5, PublishIs
<1>7. /\ upset \subseteq upset' /\ upset' \in SUBSET User /\ StayAdrift(u)
      /\ u \notin upset' => seen'[u] = st
  BY <1>5, PublishIs
<1>8. Moves(c, p, r, s, a)
  BY <1>1, <1>2, <1>3, <1>6, <1>7 DEF PresenceAnnounce, Moves, GInv, GTypeOK
<1>9. p \notin Opening \cup {"new"}
  BY <1>2, <1>4 DEF Opening
<1>10. ASSUME u \notin upset' PROVE Settles(u)'
  <2>1. r.at = "idle" /\ r.st = st
    BY <1>2, <1>3 DEF GInv, GTypeOK
  <2>2. Under(u, c)'
    BY <1>1, <1>2, <1>4, <1>7, <1>8, <1>10, <2>1, StillUnder
       DEF Under, Active, Opening, Ending, Sessions
  <2> QED
    BY <2>2 DEF Settles
<1> QED
  BY <1>1, <1>2, <1>4, <1>8, <1>9, <1>10, QuietStep

(* The statement of an aborted task: from now on the user is upset.        *)
LEMMA PresenceLateOK ==
    ASSUME GInv, NEW c \in Conn, PresenceLate(c)
    PROVE  GInv'
<1>1. PICK u \in User : u = UserOf[c] /\ c \in Task /\ c \in Sessions(u)
  BY TheUser
<1>2. PICK p \in Phases, s \in Statuses, a \in Statuses :
         p = sess[c] /\ s = pres[c].st /\ a = seen[u]
  BY <1>1 DEF GInv, GTypeOK, Changes
<1>3. PICK r \in Changes : r = NoChange
  BY DEF Changes, NoChange, Statuses
<1>4. upset' = upset \cup {u} /\ StayAdrift(u)
  BY <1>1 DEF PresenceLate, Upset, StayAdrift
<1>5. Moves(c, p, r, s, a)
  BY <1>1, <1>2, <1>3, <1>4 DEF PresenceLate, Moves, GInv, GTypeOK
<1>6. p \notin Opening \cup {"new"}
  BY <1>2 DEF PresenceLate, GInv, SessionOK
<1>7. r.at = "idle"
  BY <1>3 DEF NoChange
<1> QED
  BY <1>1, <1>2, <1>4, <1>5, <1>6, <1>7, QuietStep

(* The tasks of a session end, a statement of theirs possibly not.         *)
LEMMA DisconnectOK ==
    ASSUME GInv, NEW c \in Conn, Disconnect(c)
    PROVE  GInv'
<1>1. PICK u \in User : u = UserOf[c] /\ c \in Task /\ c \in Sessions(u)
  BY TheUser
<1>2. PICK s \in Statuses, a \in Statuses : s = status[u] /\ a = seen[u]
  BY <1>1 DEF GInv, GTypeOK
<1>3. PICK r \in Changes : pres' = [pres EXCEPT ![c] = r] /\ r.at \in {"idle", "late"}
  <2>1. NoChange \in Changes /\ NoChange.at = "idle"
    BY DEF NoChange, Changes, Statuses
  <2>2. [pres[c] EXCEPT !.at = "late"] \in Changes
    BY DEF Changes, GInv, GTypeOK
  <2>3. [pres[c] EXCEPT !.at = "late"].at = "late"
    BY DEF Changes, GInv, GTypeOK
  <2>4. pres' = [pres EXCEPT ![c] = NoChange]
           \/ pres' = [pres EXCEPT ![c] = [pres[c] EXCEPT !.at = "late"]]
    BY DEF Disconnect, GInv, GTypeOK
  <2> QED
    BY <2>1, <2>2, <2>3, <2>4
<1>4. sess[c] = "live" /\ Active(c) /\ UNCHANGED upset
  BY DEF Disconnect, Phase, Active
<1>5. Moves(c, "closing", r, s, a)
  BY <1>1, <1>2, <1>3 DEF Disconnect, Phase, Moves, StayAdrift, GInv, GTypeOK
<1>6. /\ "closing" \in Phases /\ "closing" \notin Opening \cup {"new"}
  BY DEF Phases, Opening
<1>7. ASSUME u \notin upset' PROVE Settles(u)'
  <2>1. Under(u, c)'
    BY <1>1, <1>4, <1>5, <1>6, <1>7, StillUnder
       DEF Under, Active, Opening, Ending, Sessions
  <2> QED
    BY <2>1 DEF Settles
<1> QED
  BY <1>1, <1>3, <1>4, <1>5, <1>6, <1>7, QuietStep

(* set_presence(offline), the last thing a session does.                   *)
LEMMA OfflineWriteOK ==
    ASSUME GInv, NEW c \in Conn, OfflineWrite(c)
    PROVE  GInv'
<1>1. PICK u \in User : u = UserOf[c] /\ c \in Task /\ c \in Sessions(u)
  BY TheUser
<1>2. PICK r \in Changes, a \in Statuses : r = pres[c] /\ a = seen[u]
  BY <1>1 DEF GInv, GTypeOK, Changes
<1>3. sess[c] = "offline_write" /\ Active(c) /\ r.at \in {"idle", "late"}
  BY <1>2 DEF OfflineWrite, Phase, Active, GInv, SessionOK
<1>4. GTypeOK /\ Persist(u, "offline") /\ "offline" \in Statuses
  BY <1>1 DEF OfflineWrite, GInv, Statuses
<1>5. PICK s \in Statuses : status' = [status EXCEPT ![u] = s]
  BY <1>4, PersistIs
<1>6. /\ upset \subseteq upset' /\ upset' \in SUBSET User /\ StayAdrift(u)
      /\ u \notin upset' => status'[u] = "offline"
  BY <1>4, PersistIs
<1>7. Moves(c, "offline_announce", r, s, a)
  BY <1>1, <1>2, <1>5, <1>6 DEF OfflineWrite, Phase, Moves, GInv, GTypeOK
<1>8. /\ "offline_announce" \in Phases
      /\ "offline_announce" \notin Opening \cup {"new"}
  BY DEF Phases, Opening
<1>9. ASSUME u \notin upset' PROVE Settles(u)'
  <2>1. Under(u, c)'
    BY <1>1, <1>2, <1>3, <1>6, <1>7, <1>8, <1>9, StillUnder
       DEF Under, Active, Opening, Ending, Sessions
  <2> QED
    BY <2>1 DEF Settles
<1> QED
  BY <1>1, <1>3, <1>7, <1>8, <1>9, QuietStep

LEMMA OfflineAnnounceOK ==
    ASSUME GInv, NEW c \in Conn, OfflineAnnounce(c)
    PROVE  GInv'
<1>1. PICK u \in User : u = UserOf[c] /\ c \in Task /\ c \in Sessions(u)
  BY TheUser
<1>2. PICK r \in Changes, s \in Statuses : r = pres[c] /\ s = status[u]
  BY <1>1 DEF GInv, GTypeOK, Changes
<1>3. sess[c] = "offline_announce" /\ Active(c) /\ r.at \in {"idle", "late"}
  BY <1>2 DEF OfflineAnnounce, Phase, Active, GInv, SessionOK
<1>4. GTypeOK /\ Publish(u, "offline") /\ "offline" \in Statuses
  BY <1>1 DEF OfflineAnnounce, GInv, Statuses
<1>5. PICK a \in Statuses : seen' = [seen EXCEPT ![u] = a]
  BY <1>4, PublishIs
<1>6. /\ upset \subseteq upset' /\ upset' \in SUBSET User /\ StayAdrift(u)
      /\ u \notin upset' => seen'[u] = "offline"
  BY <1>4, PublishIs
<1>7. Moves(c, "gone", r, s, a)
  BY <1>1, <1>2, <1>5, <1>6 DEF OfflineAnnounce, Phase, Moves, GInv, GTypeOK
<1>8. "gone" \in Phases /\ "gone" \notin Opening \cup {"new"}
  BY DEF Phases, Opening
<1>9. ASSUME u \notin upset' PROVE Settles(u)'
  <2>1. /\ Under(u, c)
        /\ Clear(u) => Clear(u)'
        /\ sess'[c] = "gone" /\ status'[u] = s /\ seen'[u] = a
        /\ \A d \in Sessions(u) \ {c} : ~Active(d)'
    BY <1>1, <1>3, <1>6, <1>7, <1>8, <1>9, StillUnder
  <2>2. /\ Clear(u)' /\ seen'[u] = status'[u]
        /\ ~Active(c)'
    BY <1>2, <1>3, <1>6, <1>9, <2>1 DEF Under, Ending, Active
  <2>3. AllOver(u)'
    BY <2>1, <2>2 DEF AllOver, Sessions
  <2> QED
    BY <2>3 DEF Settles
<1> QED
  BY <1>1, <1>3, <1>7, <1>8, <1>9, QuietStep

-----------------------------------------------------------------------------
(* The tasks of a user when task t, which is about that user, has moved.   *)
LEMMA InFlightMoves ==
    ASSUME NEW t \in Task, NEW u \in User,
           task[t] = Idle \/ task[t].user = u,
           task'[t] = Idle \/ task'[t].user = u,
           \A x \in Task \ {t} : task'[x] = task[x]
    PROVE  InFlight(u)' = (InFlight(u) \ {t}) \cup {x \in {t} : task'[x] # Idle}
  BY DEF InFlight

(* connections.remove and the start of the clean-up.  A user one of whose  *)
(* requests is still under way is upset by it.                             *)
LEMMA RemoveOK ==
    ASSUME GInv, NEW c \in Conn, Remove(c)
    PROVE  GInv'
<1>1. PICK u \in User : u = UserOf[c] /\ c \in Task /\ c \in Sessions(u)
  BY TheUser
<1>2. /\ sess[c] = "closing" /\ sess' = [sess EXCEPT ![c] = "cleaning"]
      /\ conn' = [conn EXCEPT ![u] = IF @ = c THEN NoConn ELSE @]
      /\ CleanStart(c) /\ UNCHANGED <<members, voice, pres, status, seen>>
  BY <1>1 DEF Remove, Phase, CleanStart
<1>3. /\ upset \subseteq upset' /\ upset' \in SUBSET User /\ StayAdrift(u)
      /\ u \notin upset' => InFlight(u) = {}
  BY <1>1 DEF Remove, UpsetIf, Upset, StayAdrift, GInv, GTypeOK
<1>4. VInv'
  BY <1>2, CleanOK DEF GInv, GTypeOK
<1>5. /\ sess'[c] = "cleaning" /\ sess' \in [Conn -> Phases]
      /\ \A d \in Conn \ {c} : sess'[d] = sess[d]
      /\ conn' \in [User -> Conn \cup {NoConn}]
  BY <1>2 DEF GInv, GTypeOK, Phases
<1>6. GTypeOK'
  BY <1>2, <1>3, <1>4, <1>5 DEF GInv, GTypeOK
<1>7. /\ task'[c] # Idle /\ task'[c].user = u /\ task'[c].at = "clean_select"
      /\ \A t \in Task \ {c} : task'[t] = task[t]
  BY <1>1, <1>2 DEF CleanStart, Idle, GInv, GTypeOK, VInv, VTypeOK
<1>8. SessionOK(c)'
  BY <1>1, <1>2, <1>5, <1>7 DEF GInv, SessionOK, Opening
<1>9. ASSUME u \notin upset' PROVE Settles(u)'
  <2>1. Under(u, c) /\ InFlight(u) = {}
    BY <1>1, <1>2, <1>3, <1>9, OnlySession DEF Active
  <2>2. InFlight(u)' = {c}
    BY <1>1, <1>7, <2>1, InFlightMoves DEF InFlight
  <2>3. \A d \in Sessions(u) \ {c} : ~Active(d)'
    BY <1>5, <2>1 DEF Under, Active, Sessions
  <2>4. Under(u, c)'
    BY <1>1, <1>5, <1>7, <2>2, <2>3 DEF Under, Active, Opening, Ending, Sessions
  <2> QED
    BY <2>4 DEF Settles
<1> QED
  BY <1>1, <1>2, <1>3, <1>5, <1>6, <1>7, <1>8, <1>9, OneSession DEF StayAdrift

(* The clean-up goes on, or ends with the session's last two steps ahead.  *)
LEMMA CleanStepOK ==
    ASSUME GInv, NEW c \in Conn, Clean(c)
    PROVE  GInv'
<1>1. PICK u \in User : u = UserOf[c] /\ c \in Task /\ c \in Sessions(u)
  BY TheUser
<1>2. /\ CleanSelect(c) \/ CleanDelete(c) \/ CleanAnnounce(c)
      /\ UNCHANGED <<members, conn, pres, status, seen>>
  BY DEF Clean, CleanQuiet, CleanSelect, CleanDelete, CleanAnnounce
<1>3. /\ VInv /\ task[c].at \in {"clean_select", "clean_delete", "clean_announce"}
      /\ task[c].at \in Steps
  BY <1>2 DEF GInv, GTypeOK, CleanSelect, CleanDelete, CleanAnnounce, Steps
<1>4. task[c] # Idle /\ task[c] \in Busy /\ sess[c] = "cleaning" /\ task[c].user = u
  BY <1>1, <1>3, TaskHas DEF GInv, SessionOK
<1>5. /\ upset \subseteq upset' /\ upset' \in SUBSET User
      /\ \A w \in User \ {u} : w \in adrift => w \in adrift'
      /\ u \notin upset' => ~CleanFails(c)
  BY <1>1 DEF Clean, GInv, GTypeOK
<1>6. VInv'
  BY <1>3, CleanOK DEF Clean
<1>7. /\ sess'[c] = IF task'[c] = Idle THEN "offline_write" ELSE "cleaning"
      /\ sess' \in [Conn -> Phases]
      /\ \A d \in Conn \ {c} : sess'[d] = sess[d] /\ pres'[d] = pres[d]
  BY <1>2, <1>4 DEF Clean, GInv, GTypeOK, Phases
<1>8. GTypeOK'
  BY <1>2, <1>5, <1>6, <1>7 DEF GInv, GTypeOK
<1>9. CASE CleanSelect(c) /\ task'[c] # Idle
  <2>1. /\ voice[u] # NoRow /\ UNCHANGED voice
        /\ task' = [task EXCEPT ![c].at = "clean_delete", ![c].row = voice[u]]
    BY <1>1, <1>3, <1>4, <1>9, EndsAt DEF CleanSelect
  <2>2. /\ task'[c].user = u /\ task'[c].at = "clean_delete" /\ task'[c].row = voice[u]
        /\ \A t \in Task \ {c} : task'[t] = task[t]
    BY <1>1, <1>3, <1>4, <2>1 DEF VInv, VTypeOK, Busy
  <2>3. SessionOK(c)'
    BY <1>1, <1>2, <1>4, <1>7, <1>9, <2>2 DEF GInv, SessionOK, Opening
  <2>4. ASSUME u \notin upset' PROVE Settles(u)'
    <3>1. Under(u, c)
      BY <1>1, <1>4, <1>5, <2>4, OnlySession DEF Active
    <3>2. InFlight(u)' = {c}
      BY <1>1, <1>4, <1>9, <2>2, <3>1, InFlightMoves DEF Under
    <3>3. \A d \in Sessions(u) \ {c} : ~Active(d)'
      BY <1>7, <3>1 DEF Under, Active, Sessions
    <3>4. Under(u, c)'
      BY <1>1, <1>7, <1>9, <2>1, <2>2, <3>2, <3>3
         DEF Under, Active, Opening, Ending, Sessions
    <3> QED
      BY <3>4 DEF Settles
  <2>5. \A w \in User \ {u} : /\ voice'[w] = voice[w] /\ status'[w] = status[w]
                              /\ seen'[w] = seen[w]
                              /\ w \in adrift => w \in adrift'
    BY <1>2, <1>5, <2>1
  <2> QED
    BY <1>1, <1>5, <1>7, <1>8, <2>2, <2>3, <2>4, <2>5, OneSession
<1>10. CASE task'[c] = Idle
  <2>1. ~CleanDelete(c)
    BY <1>1, <1>3, <1>10, GoesTo DEF CleanDelete, Steps
  <2>2. ASSUME CleanSelect(c), ~End(c) PROVE FALSE
    <3>1. task' = [task EXCEPT ![c].at = "clean_delete", ![c].row = voice[u]]
      BY <1>4, <2>2 DEF CleanSelect
    <3>2. task'[c].at = "clean_delete"
      BY <1>1, <1>3, <1>4, <3>1 DEF VInv, VTypeOK, Busy
    <3> QED
      BY <1>10, <3>2 DEF Idle
  <2>3. /\ UNCHANGED voice /\ task[c].at \in {"clean_select", "clean_announce"}
        /\ \A t \in Task \ {c} : task'[t] = task[t]
    <3>1. End(c) /\ (CleanSelect(c) \/ CleanAnnounce(c))
      BY <1>2, <2>1, <2>2 DEF CleanAnnounce
    <3>2. \A t \in Task \ {c} : task'[t] = task[t]
      BY <1>1, <1>3, <3>1, EndsAt
    <3> QED
      BY <3>1, <3>2 DEF CleanSelect, CleanAnnounce
  <2>4. SessionOK(c)'
    BY <1>1, <1>2, <1>4, <1>7, <1>10 DEF GInv, SessionOK, Opening
  <2>5. ASSUME u \notin upset' PROVE Settles(u)'
    <3>1. Under(u, c)
      BY <1>1, <1>4, <1>5, <2>5, OnlySession DEF Active
    <3>2. InFlight(u)' = {}
      BY <1>1, <1>4, <1>10, <2>3, <3>1, InFlightMoves DEF Under
    <3>3. \A d \in Sessions(u) \ {c} : ~Active(d)'
      BY <1>7, <3>1 DEF Under, Active, Sessions
    <3>4. voice'[u] = NoRow
      BY <1>1, <1>4, <1>5, <1>10, <2>3, <2>5, <3>1 DEF Under, CleanFails
    <3>5. Clear(u)'
      BY <3>2, <3>4 DEF Clear
    <3>6. Under(u, c)'
      BY <1>1, <1>7, <1>10, <3>3, <3>5 DEF Under, Active, Opening, Ending, Sessions
    <3> QED
      BY <3>6 DEF Settles
  <2>6. \A w \in User \ {u} : /\ voice'[w] = voice[w] /\ status'[w] = status[w]
                              /\ seen'[w] = seen[w]
                              /\ w \in adrift => w \in adrift'
    BY <1>2, <1>5, <2>3
  <2> QED
    BY <1>1, <1>5, <1>7, <1>8, <1>10, <2>3, <2>4, <2>5, <2>6, OneSession
<1>11. CASE CleanDelete(c) /\ task'[c] # Idle
  <2>1. /\ task[c].at = "clean_delete"
        /\ voice' = [voice EXCEPT ![u] = NoRow] \/ UNCHANGED voice
        /\ ~InChannel(u, task[c].row.ch) => UNCHANGED voice
        /\ Goto(c, "clean_announce")
    BY <1>4, <1>11 DEF CleanDelete
  <2>2. /\ task'[c].user = u /\ task'[c].at = "clean_announce"
        /\ \A t \in Task \ {c} : task'[t] = task[t]
    BY <1>1, <1>3, <1>4, <2>1, GoesTo DEF Steps
  <2>3. SessionOK(c)'
    BY <1>1, <1>2, <1>4, <1>7, <1>11, <2>2 DEF GInv, SessionOK, Opening
  <2>4. ASSUME u \notin upset' PROVE Settles(u)'
    <3>1. Under(u, c)
      BY <1>1, <1>4, <1>5, <2>4, OnlySession DEF Active
    <3>2. InFlight(u)' = {c}
      BY <1>1, <1>4, <1>11, <2>2, <3>1, InFlightMoves DEF Under
    <3>3. \A d \in Sessions(u) \ {c} : ~Active(d)'
      BY <1>7, <3>1 DEF Under, Active, Sessions
    <3>4. voice[u] = task[c].row /\ task[c].row # NoRow
      BY <1>1, <1>3, <1>4, <2>1, <3>1, TaskHas DEF Under, Carrying, Steps
    <3>5. voice'[u] = NoRow
      BY <1>1, <1>3, <1>4, <1>5, <2>1, <2>4, <3>4
         DEF CleanFails, InChannel, VInv, VTypeOK
    <3>6. Under(u, c)'
      BY <1>1, <1>7, <1>11, <2>2, <3>2, <3>3, <3>5
         DEF Under, Active, Opening, Ending, Sessions
    <3> QED
      BY <3>6 DEF Settles
  <2>5. \A w \in User \ {u} : /\ voice'[w] = voice[w] /\ status'[w] = status[w]
                              /\ seen'[w] = seen[w]
                              /\ w \in adrift => w \in adrift'
    BY <1>2, <1>3, <1>5, <2>1 DEF VInv, VTypeOK
  <2> QED
    BY <1>1, <1>5, <1>7, <1>8, <2>2, <2>3, <2>4, <2>5, OneSession
<1>12. CleanAnnounce(c) => task'[c] = Idle
  BY <1>1, <1>3, EndsAt DEF CleanAnnounce
<1> QED
  BY <1>2, <1>9, <1>10, <1>11, <1>12

-----------------------------------------------------------------------------
(* A request's step is about one user, and remains about it.               *)
LEMMA RequestSteps ==
    ASSUME VInv, NEW t \in Req, ReqQuiet(t) \/ ReqAnnounce(t)
    PROVE  /\ task[t] # Idle /\ task[t].user \in User /\ UNCHANGED members
           /\ task'[t] = Idle \/ task'[t].user = task[t].user
           /\ \A x \in Task \ {t} : task'[x] = task[x]
           /\ \A w \in User \ {task[t].user} : voice'[w] = voice[w]
<1>0. t \in Task
  BY DEF Task
<1>1. CASE Drop(t)
  <2>1. task[t] # Idle /\ End(t) /\ UNCHANGED <<members, voice>>
    BY <1>1 DEF Drop
  <2> QED
    BY <1>0, <2>1, EndsAt DEF VInv, VTypeOK, Busy
<1>2. CASE JoinPrior(t)
  <2>1. /\ task[t].at = "join_prior" /\ UNCHANGED <<members, voice>>
        /\ \E p : task' = [task EXCEPT ![t].at = "join_upsert", ![t].prior = p]
    BY <1>2 DEF JoinPrior
  <2>2. task[t] # Idle /\ task[t].user \in User /\ task[t] \in Busy
    BY <1>0, <2>1, TaskHas DEF Steps
  <2>3. /\ task'[t].user = task[t].user
        /\ \A x \in Task \ {t} : task'[x] = task[x]
    BY <1>0, <2>1, <2>2 DEF VInv, VTypeOK, Busy
  <2> QED
    BY <2>1, <2>2, <2>3
<1>3. CASE ~Drop(t) /\ ~JoinPrior(t)
  <2>1. task[t].at \in Steps
    BY <1>3 DEF ReqQuiet, ReqAnnounce, JoinUpsert, LeaveDelete, UpdateWrite,
       JoinAnnounce, JoinLeaveOld, LeaveAnnounce, UpdateAnnounce, Steps
  <2>2. task[t] # Idle /\ task[t].user \in User
    BY <1>0, <2>1, TaskHas
  <2>3. /\ UNCHANGED members
        /\ voice' = voice \/ \E row : voice' = [voice EXCEPT ![task[t].user] = row]
    BY <1>3 DEF ReqQuiet, ReqAnnounce, JoinUpsert, LeaveDelete, UpdateWrite,
       JoinAnnounce, JoinLeaveOld, LeaveAnnounce, UpdateAnnounce
  <2>4. End(t) \/ \E step \in Steps : Goto(t, step)
    BY <1>3 DEF ReqQuiet, ReqAnnounce, JoinUpsert, LeaveDelete, UpdateWrite,
       JoinAnnounce, JoinLeaveOld, LeaveAnnounce, UpdateAnnounce, Steps
  <2>5. /\ task'[t] = Idle \/ task'[t].user = task[t].user
        /\ \A x \in Task \ {t} : task'[x] = task[x]
    BY <1>0, <2>1, <2>4, EndsAt, GoesTo
  <2>6. \A w \in User \ {task[t].user} : voice'[w] = voice[w]
    BY <2>3 DEF VInv, VTypeOK
  <2> QED
    BY <2>2, <2>3, <2>5, <2>6
<1> QED
  BY <1>1, <1>2, <1>3

(* Whatever its sessions, what can be said of a user one of whose requests *)
(* has moved, and which nothing has upset.                                 *)
Unattended(w) == \/ \A c \in Sessions(w) : ~Active(c)
                 \/ \E c \in Sessions(w) : sess[c] \in Ending

LEMMA OneRequest ==
    ASSUME GInv, NEW t \in Req, NEW w \in User, VInv',
           task[t] = Idle \/ task[t].user = w,
           task'[t] = Idle \/ task'[t].user = w,
           \A x \in Task \ {t} : task'[x] = task[x],
           \A v \in User \ {w} : voice'[v] = voice[v] /\ (v \in adrift => v \in adrift'),
           UNCHANGED <<conn, sess, pres, status, seen>>,
           upset \subseteq upset', upset' \in SUBSET User,
           w \notin upset' => InFlight(w) \cap Conn = {},
           w \notin upset' /\ Unattended(w) => w \in adrift'
    PROVE  GInv'
<1>0. t \in Task /\ t \notin Conn
  BY VoiceAssumption DEF Task
<1>1. GTypeOK'
  BY DEF GInv, GTypeOK
<1>2. ASSUME NEW c \in Conn PROVE SessionOK(c)'
  <2>1. SessionOK(c) /\ task'[c] = task[c]
    BY <1>0, <1>2 DEF GInv, Task
  <2> QED
    BY <2>1 DEF SessionOK
<1>3. ASSUME NEW v \in User, v \notin upset', v # w PROVE Settles(v)'
  <2>1. Apart(v)
    BY <1>3 DEF Apart, Sessions
  <2> QED
    BY <1>3, <2>1, StillSettles DEF GInv
<1>4. ASSUME w \notin upset' PROVE Settles(w)'
  <2>1. (InFlight(w) \cap Conn)' = {}
    BY <1>0, <1>4, InFlightMoves
  <2>2. \A d \in Sessions(w) : Active(d)' <=> Active(d)
    BY DEF Active
  <2>3. Unattended(w) => Clear(w)'
    BY <1>4, <2>1 DEF Clear
  <2>4. CASE AllOver(w)
    <3>1. AllOver(w)'
      BY <2>2, <2>3, <2>4 DEF AllOver, Unattended, Sessions
    <3> QED
      BY <3>1 DEF Settles
  <2>5. ASSUME NEW c \in Conn, Under(w, c) PROVE Settles(w)'
    <3>1. sess[c] # "cleaning"
      BY <1>4, <2>5 DEF Under
    <3>2. sess[c] \in Ending => Clear(w)'
      BY <2>3, <2>5 DEF Unattended, Under
    <3>3. Under(w, c)'
      BY <2>1, <2>2, <2>5, <3>1, <3>2 DEF Under, Sessions, Opening, Ending
    <3> QED
      BY <3>3 DEF Settles
  <2> QED
    BY <1>4, <2>4, <2>5 DEF GInv, Settles
<1> QED
  BY <1>1, <1>2, <1>3, <1>4 DEF GInv

LEMMA RequestOK ==
    ASSUME GInv, NEW t \in Req, Request(t)
    PROVE  GInv'
<1>0. VInv /\ t \in Task /\ t \notin Conn /\ UNCHANGED <<conn, sess, pres, status, seen>>
  BY VoiceAssumption DEF GInv, GTypeOK, Task, Request
<1>1. ASSUME NEW u \in User, ReqStart(t, u),
             IF InFlight(u) # {} THEN Upset(u)
             ELSE /\ UNCHANGED upset
                  /\ adrift' = IF Attended(u) \/ u \in upset
                               THEN adrift ELSE adrift \cup {u}
      PROVE  GInv'
  <2>1. VInv'
    BY <1>0, <1>1, ReqStartOK
  <2>2. PICK ch \in Channel : \/ JoinStart(t, u, ch) \/ LeaveStart(t, u, ch)
                              \/ \E m \in BOOLEAN : UpdateStart(t, u, ch, m)
    BY <1>1 DEF ReqStart
  <2>3. /\ UNCHANGED voice /\ task[t] = Idle
        /\ \E step, row : task' = [task EXCEPT ![t] =
              [at |-> step, user |-> u, row |-> row, prior |-> NoServer]]
    BY <2>2 DEF JoinStart, LeaveStart, UpdateStart, Begin
  <2>4. task'[t].user = u /\ \A x \in Task \ {t} : task'[x] = task[x]
    BY <1>0, <2>3 DEF VInv, VTypeOK
  <2>5. upset \subseteq upset' /\ upset' \in SUBSET User
    BY <1>1 DEF Upset, GInv, GTypeOK
  <2>6. \A v \in User \ {u} : voice'[v] = voice[v] /\ (v \in adrift => v \in adrift')
    BY <1>1, <2>3 DEF Upset
  <2>7. ASSUME u \notin upset', Unattended(u) PROVE u \in adrift'
    <3>1. InFlight(u) = {} /\ u \notin upset
      BY <1>1, <2>5, <2>7 DEF Upset
    <3>2. ~Attended(u)
      <4>1. CASE \A c \in Sessions(u) : ~Active(c)
        BY <4>1 DEF Attended, Active
      <4>2. ASSUME NEW c \in Sessions(u), sess[c] \in Ending PROVE ~Attended(u)
        <5>1. Under(u, c)
          BY <3>1, <4>2, OnlySession DEF Sessions, Active, Ending
        <5> QED
          BY <4>2, <5>1 DEF Under, Attended, Active, Ending
      <4> QED
        BY <2>7, <4>1, <4>2 DEF Unattended
    <3> QED
      BY <1>1, <3>1, <3>2
  <2>8. u \notin upset' => InFlight(u) \cap Conn = {}
    BY <1>1 DEF Upset
  <2> QED
    BY <1>0, <2>1, <2>3, <2>4, <2>5, <2>6, <2>7, <2>8, OneRequest
<1>2. CASE (ReqQuiet(t) \/ ReqAnnounce(t)) /\ UNCHANGED <<upset, adrift>>
  <2>1. VInv'
    BY <1>0, <1>2, ReqQuietOK, ReqAnnounceOK
  <2>2. PICK w \in User : w = task[t].user
    BY <1>0, <1>2, RequestSteps
  <2>3. t \in InFlight(w)
    BY <1>0, <1>2, <2>2, RequestSteps DEF InFlight
  <2>4. ASSUME w \notin upset'
        PROVE  InFlight(w) \cap Conn = {} /\ (Unattended(w) => w \in adrift')
    <3>1. CASE AllOver(w)
      BY <1>2, <2>3, <3>1 DEF AllOver, Clear
    <3>2. ASSUME NEW c \in Conn, Under(w, c)
          PROVE  InFlight(w) \cap Conn = {} /\ (Unattended(w) => w \in adrift')
      <4>1. sess[c] \in Opening \cup Ending \cup {"live", "closing"}
        <5>1. sess[c] \in Phases /\ sess[c] \notin {"new", "refused", "gone", "cleaning"}
          BY <1>0, <2>3, <3>2 DEF GInv, GTypeOK, Under, Active
        <5> QED
          BY <5>1 DEF Phases, Opening, Ending
      <4>2. CASE sess[c] \in Ending
        BY <1>2, <2>3, <3>2, <4>2 DEF Under, Clear
      <4>3. CASE sess[c] \notin Ending
        BY <3>2, <4>1, <4>3 DEF Under, Unattended, Active, Ending
      <4> QED
        BY <4>2, <4>3
    <3> QED
      BY <1>2, <2>4, <3>1, <3>2 DEF GInv, Settles
  <2> QED
    BY <1>0, <1>2, <2>1, <2>2, <2>4, RequestSteps, OneRequest DEF GInv, GTypeOK
<1> QED
  BY <1>1, <1>2 DEF Request

(* A status written over REST, which nobody is told of.                    *)
LEMMA RestOK ==
    ASSUME GInv, NEW u \in User, NEW s \in Statuses, Upset(u),
           status' = [status EXCEPT ![u] = s],
           UNCHANGED <<vvars, conn, sess, pres, seen>>
    PROVE  GInv'
<1>1. GTypeOK'
  BY DEF GInv, GTypeOK, VInv, VTypeOK, Carries, vvars, Upset
<1>2. \A c \in Conn : SessionOK(c)'
  BY DEF GInv, SessionOK, vvars
<1>3. ASSUME NEW w \in User, w \notin upset' PROVE Settles(w)'
  <2>1. Settles(w) /\ w # u
    BY <1>3 DEF Upset, GInv
  <2>2. Apart(w)
    BY <2>1 DEF Apart, Upset, vvars, GInv, GTypeOK
  <2> QED
    BY <2>1, <2>2, StillSettles
<1> QED
  BY <1>1, <1>2, <1>3 DEF GInv

(* After a restart every user is upset, and no task is left.               *)
LEMMA RestartOK == ASSUME GInv, Restart PROVE GInv'
<1>1. VInv'
  <2>1. VTypeOK'
    BY DEF GInv, GTypeOK, VInv, VTypeOK, Restart
  <2>2. \A t \in Task : task'[t].at = "idle"
    BY DEF Restart, Idle
  <2> QED
    BY <2>1, <2>2 DEF VInv, Carries, Carrying, Steps
<1>2. pres' \in [Conn -> Changes] /\ \A c \in Conn : pres'[c] = NoChange
  BY DEF Restart, NoChange, Changes, Statuses
<1>3. sess' \in [Conn -> Phases] /\ conn' \in [User -> Conn \cup {NoConn}]
  BY DEF Restart, GInv, GTypeOK, Phases
<1>4. GTypeOK'
  BY <1>1, <1>2, <1>3 DEF Restart, GInv, GTypeOK, Changes
<1>5. ASSUME NEW c \in Conn PROVE SessionOK(c)'
  <2>1. task'[c] = Idle
    BY DEF Restart, Task
  <2> QED
    BY <1>2, <2>1 DEF SessionOK, NoChange
<1> QED
  BY <1>4, <1>5 DEF GInv, Restart

LEMMA GBegin == GInit => GInv
<1> SUFFICES ASSUME GInit PROVE GInv
  OBVIOUS
<1>1. GTypeOK
  BY TypeInit DEF GInit, GTypeOK, Phases, Statuses, Changes, NoChange
<1>2. \A c \in Conn : SessionOK(c)
  BY DEF GInit, VInit, SessionOK, Task, NoChange
<1>3. \A u \in User : AllOver(u)
  BY DEF GInit, VInit, AllOver, Clear, Sessions, Active, InFlight
<1> QED
  BY <1>1, <1>2, <1>3 DEF GInv, Settles

LEMMA GStep == ASSUME GInv, [GNext]_gvars PROVE GInv'
<1>1. CASE UNCHANGED gvars
  <2>1. GTypeOK' /\ (\A c \in Conn : SessionOK(c)') /\ upset' = upset
    BY <1>1 DEF GInv, GTypeOK, VInv, VTypeOK, Carries, SessionOK, gvars, vvars
  <2>2. ASSUME NEW u \in User, u \notin upset PROVE Settles(u)'
    <3>1. Apart(u)
      BY <1>1 DEF Apart, gvars, vvars
    <3> QED
      BY <2>2, <3>1, StillSettles DEF GInv
  <2> QED
    BY <2>1, <2>2 DEF GInv
<1>2. ASSUME NEW c \in Conn,
             Greet(c) \/ Disconnect(c) \/ \E s \in Choices : PresenceUpdate(c, s)
      PROVE  GInv'
  BY <1>2, GreetOK, DisconnectOK, PresenceUpdateOK
<1>3. ASSUME NEW c \in Conn, Handle(c) PROVE GInv'
  BY <1>3, RegisterOK, OnlineWriteOK, OnlineAnnounceOK, RemoveOK, CleanStepOK,
     OfflineWriteOK, OfflineAnnounceOK DEF Handle
<1>4. ASSUME NEW c \in Conn, Receive(c) PROVE GInv'
  BY <1>4, PresenceWriteOK, PresenceAnnounceOK, PresenceLateOK DEF Receive
<1>5. ASSUME NEW u \in User, Login(u) \/ \E s \in Choices : PatchStatus(u, s)
      PROVE  GInv'
  <2>1. PICK s \in Statuses : status' = [status EXCEPT ![u] = s]
    BY <1>5, GatewayAssumption DEF Login, PatchStatus, Statuses
  <2>2. Upset(u) /\ UNCHANGED <<vvars, conn, sess, pres, seen>>
    BY <1>5 DEF Login, PatchStatus
  <2> QED
    BY <2>1, <2>2, RestOK
<1> QED
  BY <1>1, <1>2, <1>3, <1>4, <1>5, RequestOK, RestartOK DEF GNext

-----------------------------------------------------------------------------
(* The status a client has chosen stays the one in the table while it is   *)
(* connected, unless its user met a fault or an overlap.                   *)
THEOREM ChoiceStays == GSpec => []PresencePersists
<1>1. GInv => PresencePersists
  <2> SUFFICES ASSUME GInv, NEW c \in Conn, UserOf[c] \notin upset, sess[c] = "live",
                      PresenceSettled(UserOf[c])
               PROVE  status[UserOf[c]] = pres[c].st
    BY DEF PresencePersists, Persists
  <2>1. Under(UserOf[c], c) /\ pres[c].at = "idle"
    BY TheUser, OnlySession DEF Active, PresenceSettled, Sessions
  <2> QED
    BY <2>1 DEF Under
<1> QED
  BY <1>1, GBegin, GStep, PTL DEF GSpec

(* Between two changes of presence, the co-members of such a user were     *)
(* last told the status in the table.                                      *)
THEOREM PeersAreTold == GSpec => []PeersAgree
<1>1. GInv => PeersAgree
  <2> SUFFICES ASSUME GInv, NEW u \in User, u \notin upset, PresenceSettled(u)
               PROVE  seen[u] = status[u]
    BY DEF PeersAgree
  <2>1. CASE AllOver(u)
    BY <2>1 DEF AllOver
  <2>2. ASSUME NEW c \in Conn, Under(u, c) PROVE seen[u] = status[u]
    BY <2>2 DEF Under, PresenceSettled
  <2> QED
    BY <2>1, <2>2 DEF GInv, Settles
<1> QED
  BY <1>1, GBegin, GStep, PTL DEF GSpec

(* A user whose sessions have all been cleaned up, and who has no request  *)
(* under way, is in no voice channel, unless it asked for one when no      *)
(* session of it was up and has had none cleaned up since.                 *)
THEOREM NoGhosts == GSpec => []NoGhostParticipant
<1>1. GInv => NoGhostParticipant
  BY DEF GInv, Settles, Under, AllOver, Clear, NoGhostParticipant, AllClosed
<1> QED
  BY <1>1, GBegin, GStep, PTL DEF GSpec
=============================================================================
