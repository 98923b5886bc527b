# Together: TLA+ specifications

Together is a self-hosted chat platform: a Rust server (`src/server`, axum,
PostgreSQL, a WebSocket gateway) and a web client (`src/clients/web`, React,
wrapped by Tauri on the desktop). This directory holds TLA+ modules for the
parts of it in which several things happen at once, TLC configurations that
check them on small instances, and proofs that TLAPS checks for instances of
any size.

    tlc -config MCGateway.cfg MCGateway        # one run
    tlapm ConnectionManager_proofs.tla         # one module of proofs

## 1. The system

| Component | State | Operations | What is hard |
|---|---|---|---|
| Connection registry (`websocket/connection_manager.rs`, `mod.rs`) | map user -> (session id, sender) behind a read-write lock; one unbounded channel per session | `add`, `remove`, `send_to_user`, `broadcast_to_users` | a second session of a user replaces the entry of the first; the clean-up of the first comes later; broadcasts share the lock |
| Gateway sessions and presence (`websocket/handler.rs`) | one task per socket with a send and a receive task, `users.status` | READY, register, `set_presence`, PRESENCE_UPDATE, abort, clean-up | clean-ups race the next session; each write and its broadcast are two steps; tasks are aborted mid-statement; nothing is reset at start-up |
| Voice states (`handlers/voice.rs`, the clean-up in `handler.rs`) | `voice_states`, one row per user | join, leave, update, clean-up on disconnect | every handler is a sequence of statements and broadcasts; the earlier location is read before it is overwritten |
| Participant list (`VoiceChannel.tsx`) | list per mounted channel | handler of VOICE_STATE_UPDATE, fetches | depends on which events are sent, to whom and in what order; a fetch may answer late |
| Voice call of the client (`useWebRTC.ts`, `voiceStore.ts`, `usePushToTalk.ts`, `useGoLive.ts`) | switches, captured tracks, one peer connection per participant | join, leave, mute, camera, screen, device, key; offer, answer, renegotiate, close | the browser grants devices when it likes; calls to the server fail; offers, answers, joins and leaves of two clients cross on the relay |
| Membership (`servers.rs`, `invites.rs`, `moderation.rs`, `automod.rs`) | `server_members`, `server_bans`, `server_invites` | join, accept, leave, kick, ban, unban, auto-moderation, end of an invite | check-then-insert; two tables that must exclude each other; voice state that outlives membership |
| Go Live (`go_live.rs`, `state.rs`, `useGoLive.ts`) | map channel -> broadcaster in memory | start, stop | the map is locked, the broadcast comes after the lock |
| Webhooks (`webhooks.rs`, `webhook_delivery.rs`) | `webhooks`, a bounded channel, a worker, a task per job | create, patch, delete, ping, dispatch, deliver, retry, count | two-statement handlers; a full queue; retries; loss at a restart |
| Sessions (`auth.rs`, `auth/mod.rs`; `api/client.ts`, `api/websocket.ts`, `authStore.ts`) | `sessions`, tokens in memory and in localStorage, socket, timers | sign in and out, restore, call, refresh, connect, reconnect | several calls refresh at once; a lost answer leaves the server a token ahead; socket and session must follow each other |
| Lists of the client (the other stores and panels, `useWebSocket.ts`) | rows of the selected server, channel or page; open forms | fetch, create, change, delete, optimistic change, event, reconnection | answers come late, twice (own event and answer), for another selection, or not at all |
| Permissions (`roles.rs`, `channel_overrides.rs`, `shared.rs`) | roles, overrides | compute, edit | an algorithm over bit sets; hierarchy checks |
| Messages, direct messages, polls, administration on the server | rows and counters | send, edit, delete, open, vote, demote | moderation before and after the insert; check-then-act |

The components meet in these places. Handlers broadcast through the registry,
so everything a client shows depends on its order and its gaps. The end of a
socket writes three things that requests write too: the registry, the voice
state and the status. Kick and ban reach into the voice states. Go Live reads
the voice states once and remembers the result. In the client every store and
panel calls through one `ApiClient`, which may refresh the tokens under them,
and hears the events of one socket, which is opened and closed with the session.

`PROJECT.json` lists every component with what is modelled of it, and every
hazard with its source line and the properties that guard against it.

What makes each part correct:

- registry: a clean-up never evicts a newer session; events arrive in an order
  that respects time; a replaced session ends;
- gateway: a status lasts as long as its connection; table and co-members
  agree; a user whose sessions were cleaned up is in no voice channel; clean-ups
  end;
- voice: only a deletion aimed at the user's channel removes a row; clients
  show the table;
- voice call: nothing is captured that is not wanted; the switches shown are
  those the others are told; the push-to-talk key cannot stick; whoever joins
  is connected to everybody;
- membership: ban and membership exclude each other; an invite admits no more
  than it may; who is in voice is a member;
- Go Live: one broadcaster per channel, never taken over, and a banner that
  tells the truth;
- webhooks: accepted jobs are neither lost nor doubled in the queue and are
  settled; the counter counts jobs; requests that race exceed the limit by no
  more than themselves and undo nothing but each other;
- sessions: a refresh token buys one pair of tokens; the socket follows the
  session; stored tokens are dropped only when they are of no use; a lost
  connection comes back;
- lists: at rest they show what the server has, each row once, and nothing of
  another selection; no form stays greyed out.

## 2. The modules

| Module | Models | Builds on |
|---|---|---|
| `Mailbox` | abstract specification: what the registry promises of delivery | |
| `ConnectionManager` | the registry, its lock, the channels, the session tasks | implements `Mailbox` |
| `VoiceStates` | the table and every statement and broadcast of its writers | |
| `VoicePanel` | the participant lists of the clients | `VoiceStates` |
| `Gateway` | the life of a session, presence, the clean-up, restarts | `VoiceStates` |
| `Membership` | members, bans, the invite, kick and ban with voice | `VoiceStates` |
| `GoLive` | the map and the banner | `VoiceStates` |
| `Webhooks` | the table and its REST handlers | |
| `WebhookDelivery` | dispatch, queue, worker, jobs, process death | `Webhooks` |
| `Api` | the methods of the `ApiClient`: do they write, what do they answer, does a 401 refresh | |
| `Session` | tokens, calls and refreshes, the auth store, the socket and its timers, the server's rotation | `Api` |
| `Stores`, `Panels` | every list of the client, one record each | `Api` |
| `Views` | the course of one list, whichever it is | `Stores`, `Panels` |
| `Media` | what one client captures in a voice channel | |
| `Peers` | who offers to whom over the relay | |
| `MC...` | the constants of the runs; `MCVoiceCall` also composes `Media` and `Peers` | |
| `ConnectionManager_proofs`, `VoiceStates_proofs`, `Membership_proofs`, `WebhookDelivery_proofs`, `Session_proofs`, `Views_proofs` | theorems and their proofs | the module they are named after |
| `Voice_proofs` | the same | `GoLive`, `VoicePanel`, `Gateway`, `VoiceStates_proofs` |
| `VoiceCall_proofs` | the same | `Media`, `Peers` |

**Granularity.** On the server one step is one critical section, one SQL
statement or transaction, or one broadcast. A handler is a task that carries
what it has read from step to step; between its steps any other task may run. A
refused request leaves no trace and is not modelled as one, except where
something was done before the refusal. In the client one step is what
JavaScript runs without giving up the thread: up to an `await`, or one callback,
timer or event. React's effects are run together with the change that makes
them run; no other callback is admitted between them.

**`ConnectionManager`.** `connections` is the map; `queue[c]` the channel of
session `c` and `wire[c]` what its send task has forwarded; `session[c]` where
`handle_socket` stands; `bcast[e]` and the set of recipients still to be served
the progress of a broadcast. `broadcast_to_users` holds the read lock from its
first to its last send, so `add` and `remove` wait for it and other broadcasts
do not. Replacing an entry drops the only long-lived sender of the older
session, which is why that session ends (`ChannelClosed`). `Mailbox` knows
nothing of locks, channels or tasks: per user there is one active connection,
and it accepts messages.

**`VoiceStates`.** `voice` is the table, `task` the requests and clean-ups in
flight. `muted` stands for the four `self_*` flags, which all handlers treat
alike. `join` reads the earlier channel, UPSERTs, announces and, coming from
another server, announces the leave there; the clean-up reads, deletes if the
channel is still the same, and announces whatever the DELETE did. `VoicePanel`
says who receives each announcement and what the handler in `VoiceChannel.tsx`
does with it: on an event for another channel every list drops the user.

**`Gateway`.** `sess` is the position of `handle_socket`, `pres` that of the
`set_presence` its receive task is in, `status` the column `users.status`,
`seen` what the co-members were last told. The registry is the abstract one:
register and remove are single steps, as `ConnectionManager` shows they may be.
Sessions may overlap, statements and broadcasts fail, tasks be aborted with a
statement on its way, the process die and REST write the status. A voice request
needs no session: the handlers check a token and a membership, and the Join
button is there while the socket is down. `upset` is a ghost: the users who have
met such a fault or an overlap of their sessions. `adrift` is another: users who
asked for voice when no clean-up of theirs was to come, until one has been done.

**`Membership`.** `mreq` are the requests. Joining and accepting look for a ban,
then for a membership, then insert (an invite is counted in the same
transaction, and only if a row was inserted). Kick and ban delete the voice
state, announce it, and remove the member; the ban does so in one transaction
with the insertion of the ban, auto-moderation in two statements. MEMBER_KICK
and MEMBER_BAN broadcasts change no modelled state and are left out. Permission
checks beyond "the owner is spared" are left out: whoever may, does. `loose` is
a ghost: the users about whom two requests overlapped or one broke off, before
its end or because it could not read what was there before (`Broken`), and those
who left while they were in voice. `missed` is another: the users whose voice
state a kick or ban deleted in a server it did not come from. The voice state is
deleted wherever it is, and the leave is announced in the server of the kick
alone, so that the members of the other one go on being shown the user. Kinds of
request come with their server, so that a run can have a server do some things
and not others.

**`GoLive`.** The check for a row in `voice_states` is one step, the change
under the write lock the next, the broadcast the last. Starts and stops overlap
as they like. `torn` is a ghost: channels on which a stop overlapped another
request, until somebody starts or stops there with no other request under way.
Quality and start time are left out.

**`Webhooks`, `WebhookDelivery`.** `enabled` stands for `enabled` and
`event_types`: does this webhook get the event? Creating and patching take two
statements each, and any number of such requests race; a PATCH that another one
overtook between its statements carries `met`, which only a property reads. A
firing is one dispatch of an event or a test ping; it makes at most one job per
webhook, so a job is a pair. Payload, signature, URL validation and the pauses
between attempts are left out.

**`Session`.** Tokens come in generations: the access and the refresh token of
one answer carry one number, `issued[g]` says what `g` was exchanged for. `call`
is what is in flight, in slots: a method of `Api`, where it is, the access token
it was sent with, and whether it is the repetition after a refresh. The server
answers, refuses with 401, or (`Faulty`) a request or an answer is lost. A
refresh reads the session's row and swaps it in two steps, as `refresh_token`
does. `ws`, `timer`, `beat` and `gtok` are the fields of `WebSocketClient`;
`launched`, `loading`, `authed` and `url` decide which screen is shown and so
what can be started. `raced` is a ghost: refreshes overlapped with each other, a
sign-in or a logout, or one broke off while the session was restored.

**`Stores`, `Panels`, `Views`.** A list is a record: the call that fetches it;
whether it depends on a selection, keeps rows for every key, is cached, cleared
on a change, guarded against late answers, fetched again; what events it hears;
and per operation what its answer does, what is greyed out meanwhile, whether it
is applied at once and rolled back, whether it is sent from a form. `Views`
gives such a record its course: `rows` are shown, `truth` is what the server
has, `call` and `inbox` are answers and events under way. A call may be lost
before the server has acted or after (`AnswerLost`): to the client both are a
failure, and what was done early is undone. Some answers change the list as it
is, others the list as it was at the click, which `ReactionBar` captures and
writes back whole (`whole`, `AtClick`): there the rows of a list act on each
other. When the socket comes back, the server reads what READY will bring
(nothing, if a query fails), sends it, and only then registers the connection;
what changes in between is announced to nobody (`Reconnect`, `Register`,
`Ready`). Other users change rows too. Records that come to the same are checked
once. `Consistent` is what all records but those with `twice` have in common,
and what the theorem about rows needs of them: whoever hears of new rows hears
of removed ones, what an answer adds blindly comes by no event as well, only
updates are applied before their answer. TLC evaluates it on every record
(`ListsAssumption`). `stale` is a ghost: rows whose change the client was not
told of, heard in the wrong order, or undid itself, by putting back what was
there before a failed call or at a click, until the next fetch or READY sets
them right.

**`Media`.** `flag` are the switches of the voice store, `row` what the server
has of them, `call` the updates under way and `undo` the switches about to be
turned back. `ask` are requests to the browser: the one that counts and
abandoned ones, whose answer is thrown away; `cap` is what is captured. `Parts`
are studied one at a time, since microphone, camera, screen and broadcast do not
read each other's state.

**`Peers`.** Every client has the channel on screen. Joining, listing the
participants and offering are steps with other clients' in between; `inbox` are
the events on their way to a client, in the order the registry keeps. An offer
and its answer carry a number and `link` is the number both ends agreed on, so
that two half-made connections are told from one whole; the code's descriptions
carry no such number, and no guard compares it. Whoever offers to, is connected
to or still has a signal under way from somebody it finds in the channel has met
that client before (`Again`). Creating a description and sending it is one step;
ICE candidates and media are the browser's.

### Parameters that switch an environment

| Constant | TRUE means | Why it exists |
|---|---|---|
| `Patient` | a user has at most one task in flight | separates what holds for overlapping requests of one user from what holds only without overlap |
| `Reliable` | no query fails, no request is dropped | the same for failures |
| `Settled` | an aborted task has no statement left that the database still executes | dropping a future does not cancel a statement that was sent |
| `Restarts`, `Crashes` | the process may die | memory is lost, tables stay |
| `OverRest` | login and PATCH `/users/@me` write the status | they announce nothing |
| `Faulty` | requests and answers of the client may be lost | `Session` |
| `Kinds`, `Public`, `MaxUses` | requests that occur and in which server, open servers, uses of the invite | `Membership` |
| `Choices` | statuses that clients ask for | `Gateway` |
| `Plain`, `Parts`, `Studied` | methods called while signed in, captures and lists studied | the client |
| `Limit`, `Capacity`, `MaxAttempts` | 10, 10 000 and 3 in the code | webhooks |
| `MaxGen`, `MaxRows`, `MaxCalls`, `MaxInbox`, `MaxOffers`, `MaxBehind`, `MaxDead` | bounds of the models, not of the code | keep the runs finite |

A **ghost** (`upset`, `adrift`, `loose`, `missed`, `torn`, `met`, `raced`,
`stale`, `crossed`, `swapped`) is a variable that no guard reads, except to keep
a run small by admitting a fault once; it records that something happened for
which the code has no answer. A property then speaks of those to whom it has not
happened, while it keeps happening around them. Section 6 says what goes wrong
in the other case.

## 3. The runs

Nine runs pass and three end in a violation that is a finding. Deadlock is not
checked: every model may come to rest, when its users have nothing to do or its
sessions, tokens, offers and firings have been used up.

| Run | Instance | Shows |
|---|---|---|
| `MCConnectionManager` | 2 users, 2 sessions of one user, 2 broadcasts | the registry implements `Mailbox`; no eviction; order; a replaced session ends; what is queued is forwarded |
| `MCVoicePanel` | 2 users, 3 channels on 2 servers, any membership, one request, one session | lists follow the table; a participant who left disappears |
| `MCGateway` | 1 user, 2 sessions that may overlap, one voice request at a time to one of 2 channels, with or without a session, failures, aborts, restarts, REST writes | who met none of that keeps the chosen status, is shown with it and leaves no voice row, unless it joined while no session was up; a clean-up that read one channel spares the row of the other, and clean-ups end whatever happens |
| `MCMembership` | owner and user, two servers (from the second one joins and kicks, from the first all else), two membership requests and one voice request, failures, an invite of one use | ban excludes membership; voice needs membership; announcements; the invite is never overspent |
| `MCMembershipBanRace` (violation) | a join and a ban that overlap | a banned member |
| `MCGoLive` | 2 users, 2 channels, 2 Go Live requests that overlap in any way, one voice request | no take-over; the banner tells the truth, after a stop that overlapped as soon as somebody starts or stops alone |
| `MCWebhookDelivery` | before anything is fired, 3 ids, 2 URLs, a limit of 1 and 2 requests that race to create, PATCH and delete; from then on 2 ids, one URL and one such request, an event and a ping, queue of 1, 2 attempts, crashes | queue, counter, settlement; two creations at once exceed the limit by one at most; a PATCH undoes nothing but another PATCH |
| `MCSession` | 2 calls in flight, 3 generations of tokens, one session on the server, losses | the socket follows the session; one exchange per token; tokens are kept while they are good; the connection returns |
| `MCSessionDropped` (violation) | the same | a session being restored is dropped by a network error |
| `MCVoiceCall` | one client and its browser, one part at a time, 2 updates under way, one abandoned request; two clients, 3 offers, two events behind | what is captured is wanted; switches agree; the key does not stick; calls connect; lists agree |
| `MCVoiceCallMic` (violation) | the same | a microphone that is granted late is open although the user is muted |
| `MCViews` | every list, 2 keys, a row under one of them (two rows where a list is written back whole), 2 calls that may be lost either way, 2 events under way, reconnections | lists show what is, but for rows they were not told of or undid; nothing of another key; no form stays greyed out |

**Why the bounds are enough.** The interesting interleavings are between two
actors of a kind: a session and the one that replaces it, a request and a
clean-up, two starts, two accepts of the last use, two refreshes of one token, a
call and the one sent before its answer, an answer and an event about the same
row, two clients that join. Each run has exactly the second one. Two broadcasts
are needed for an order, two servers for a move or for a kick from one while in
voice in the other, two channels for a stale deletion, two creations for one too
many, two PATCHes and two URLs for one to undo the other, two events for one to
overtake, two keys for a change of selection; a third adds interleavings but no
new relation. In `MCViews` the rows of a list act on each other only where it is
written back whole, so those lists have two rows and the others one (`MCRows`),
and another key without rows is enough to leave it. `MCWebhookDelivery` has its
two requests only until something is fired: delivery reads a row when it is
selected and counts in it, and both meet an edit under way in the second part.
Its `MCStep` keeps only edits and the begin of a firing from happening; what
fairness is assumed of is never kept from it. In `MCSession` a third generation
lets a token be exchanged for one that is exchanged again. The third offer of
`MCVoiceCall` is a renegotiation after two crossing ones. Requests, calls and
clean-ups can begin again when they have ended, so that the runs cover
sequences; a socket of the gateway and a firing occur once, because each of them
has an identity of its own in the code. Where the code has no bound the model
names one (table above). The users of `MCVoiceCall` are symmetric: nothing in
`Peers` prefers one, and the run checks invariants only. So are the requests of
`MCMembership`, and users, channels and requests of `MCGoLive`, which have no
order; their action properties are about no particular one.

**Fairness.** Weak fairness is assumed of what the runtime polls: session
tasks (`Handle`, `Receive`, `Replaced`, send tasks), tasks in flight, the
webhook worker and its jobs. tokio polls a woken task, queries return or fail,
and a POST has a timeout of ten seconds. In `Session` it is weak fairness of
`Reconnect` (a timer that is set fires) and strong fairness of `WsOpens` (a
server that can be reached again and again is reached at last; the code tries
for ever). Nothing is assumed of users: they need not connect, close or ask for
anything. A database that never answers is outside that assumption.

## 4. What is proved

Every invariant and every action property that a passing run checks is also a
theorem, and so is the refinement. They hold for every value of the constants
that satisfies the named assumptions (finite or not), with or without fairness.

| Theorem | States | Argument |
|---|---|---|
| `ConnectionManager_proofs!TypeCorrect` | `TypeOK` | inductive |
| `EntryOwned` | `EntryHasOwner` | inductive with the types: an entry belongs to a session that has registered and has yet to remove itself; the guard in `remove` is what keeps it so |
| `EvictionGuarded` | `NoEviction` | per action, from the types |
| `DeliveryOrder` | `InOrder` | inductive strengthening: whatever a connection accepted before a broadcast began stays in front of it, and only running broadcasts append |
| `Implementation` | the refinement of `Mailbox` | from `EntryOwned`: an append to the channel of a registered session is `Accept`, replacing and removing are the two changes of the active connection, all else stutters |
| `VoiceStates_proofs!VTypeCorrect` | `VTypeOK` | needs `Carries`: a task that will write or announce carries a row, and a join that announces a leave knows the server |
| `AimedRemoval` | `RemovalIsAimed` | from the same invariant, whether or not tasks overlap or fail; the WHERE clauses of the two DELETEs are the only removals |
| `Voice_proofs!LTypeCorrect` | `LTypeOK` | inductive |
| `NoTakeOver` | `NeverTakenOver` | per action; no assumption on how requests overlap |
| `BannerCorrect` | `BannerAgrees`, however requests overlap | `BInv`, of each channel outside `torn`: who has started is live until announced; who has stopped is alone on its channel; otherwise banner and map agree. A start or stop that is alone makes all three true again |
| `PanelsCorrect` | `PanelAgrees`, if `Patient` and `Reliable` | `PInv`: for a member of one server and any user, what the panel shows at each step of the user's task (`ShownAt`): the old place until the event that reaches this member, then the new one |
| `ChoiceStays`, `PeersAreTold`, `NoGhosts` | `PresencePersists`, `PeersAgree`, `NoGhostParticipant` | one invariant, `GInv`: a user outside `upset` either has no session that is not cleaned up, is offline and out of voice, or in it and `adrift` (`AllOver`), or has exactly one such, and where that one stands says what status, announcements and voice row are (`Under`); a step about one user changes nothing of another's account |
| `Membership_proofs!BanHolds`, `VoiceOfMembers`, `ToldTheTruth` | `BannedNotMember`, `VoiceNeedsMembership`, `ShownAgrees` | one invariant, `MInv`: a user outside `loose` is `Accounted` for, at rest, at one membership request or at one voice request, and each step of a request says what has been read, written and announced so far |
| `InviteCounted` | `InviteSpent` | per action: the transaction counts exactly when it inserts; no assumption on overlap |
| `WebhookDelivery_proofs!DTypeCorrect` | `DTypeOK`, with it at most `MaxAttempts` attempts | inductive |
| `QueueCorrect` | `QueueHoldsWaiting` for every capacity | needs `TodoIsFresh`: what a handler has selected has become no job yet and was selected once, so that enqueueing never meets an existing job |
| `FailuresCorrect` | `FailuresCountJobs` | `CountInv`: the counter of a row never exceeds the number of its jobs that are exhausted and counted; a new row starts at nought |
| `LimitHolds`, `PatchIsPartial` | `WithinLimit`, `UndoesOnlyPatches`, for any number of requests that race | `EditInv`: rows and insertions still to come exceed the limit by no more than the other requests (`Counted`), since whoever counted found a row less than the limit and only the others can have passed since; what a PATCH read holds until another PATCH writes the row (`ReadHolds`), whatever is delivered, counted or lost meanwhile |
| `Session_proofs!NoDoubleRotation` | `RotatedOnce` for any number of calls, sessions and tokens | `RotInv`: what a row may be refreshed with has been exchanged for nothing yet and stands in no other row, so that a swap that finds it there exchanges it for the first time |
| `SocketCorrect` | `SocketFollowsSession` | `SockInv`: answers under way that will connect hold a token, and restoring a session overlaps with no other call, so that nothing drops the token it will connect with |
| `LiveSessionKept` | `KeepsLiveSession` | `LiveInv`: unless `raced`, at most one refresh is under way and it is for the stored token; once it is refused no row holds that token; a call that is repeated has an access token that is still valid, so that it is not refused again |
| `Views_proofs!FormsComeBack` | `NeverStuck` for every set of lists, any keys, rows and calls | `StuckInv`: the answer a form waits for has not been thrown away, since the selection does not change while a form is open |
| `NothingOfAnotherKey` | `NoStrangers` | `StrangerInv`: in a list that is guarded and cleared, answers that may still be shown were asked for the selected key, and hold nothing else |
| `RowsComeRight` | `ShowsWhatIs` for every set of consistent lists | `ShowInv`: each row outside `stale` is shown as it is, or an answer, an event, a fetch or a READY that is still to come will set it right (`Good`), and none that comes after that undoes it; a list captured at a click agrees with such a row, or the write-back makes it stale |
| `VoiceCall_proofs!KeyLetGo` | `KeyNotStuck` | inductive: every way out of the focus or the binding lets go of the key |
| `NothingUnwanted` | `CapturesWanted` | needs `RequestsWanted`: a request to the browser that counts is one for a switch that is on |
| `SwitchesCorrect` | `SwitchesAgree` | `CallsAlone`: unless `crossed`, each switch has at most one call under way, and its target tells in what store and row differ |
| `ListsRight` | `ListsAgree` | `TInv`: a list and the events that are still under way to its client come to the members of the channel (`Told`, by way of the last event about each user), and there are connections to nobody else |
| `CallsGetConnected` | `CallsConnect` | `CInv`, for each pair outside `upset`: while one of them has yet to list the others, one of the two will offer; afterwards an offer or its answer is under way, two offers cross and one will be answered, or both ends hold one number |

`Patient` and `Reliable` are explained above. Without them `PanelsCorrect` would
be false, and the run of `PanelAgrees` makes the same choice. `LiveSessionKept`
and `RowsComeRight` rest on `SessionAssumption` and `ListsAssumption`, which say
what the tables of `Api`, `Stores` and `Panels` hold and which TLC evaluates.
`ViewsAssumption` adds what READY and lists written back whole have in common:
neither keyed list without a map nor guarded list is in READY, and only guarded
ones are written back. `LimitHolds` takes the limit for positive and the
requests for finitely many. All others need no assumption but the types of the
constants: nothing is assumed of what is lost, how calls overlap or how far
events are behind.

Proofs of three modules that extend `VoiceStates` are in `Voice_proofs`, those
of `Media` and `Peers` in `VoiceCall_proofs`. Each inductive invariant was
checked as an invariant of the component's run before it was proved. The
proofs have one shape: a lemma for each action or group of actions that says
the invariant survives it, one lemma that a step about one user, pair or row
leaves the account of all others alone, and a theorem that puts them together.

Only model-checked: the six liveness properties (`ReplacedSessionEnds`,
`QueuedIsForwarded`, `LeftIsHidden`, `ClosingEnds`, `AcceptedIsSettled`,
`ConnectionReturns`), for the prover handles neither fairness nor ENABLED. What
a recursive definition computes for every input is beyond the prover as well;
no module uses one.

## 5. Where the code disagrees with what is said of it

The three runs with a violation are listed under `findings` in `PROJECT.json`.

- `MCMembershipBanRace`: a ban between the look for a ban and the insertion of
  the member leaves a banned member.
- `MCSessionDropped`: the comments in `client.ts` promise that a network or
  server error during a refresh keeps the session; while a session is being
  restored, `authStore.ts:131` takes it for a refusal and drops the tokens.
- `MCVoiceCallMic`: the effect that mutes the microphone ran before the browser
  granted it, and nothing runs it again.

The other disagreements and defects that were met are in the next section, next
to the property that shows them.

## 6. Known limits of the code

Each of these shows in the named module when a constant of a run, or the
exception a property makes, is changed.

Server:

- The clean-up of a replaced session sets a user offline who is connected
  (`handler.rs:238`): `PresenceAlwaysPersists`.
- A restart leaves users online and in voice (`main.rs:92` resets neither).
- A join whose UPSERT follows the clean-up of the session leaves a participant
  without a session (`voice.rs:206`; the comment at `handler.rs:312-316`
  promises the opposite). So does a join while the socket is down, with no fault
  and no overlap (`voice.rs:161-236`, `VoiceChannel.tsx:233-249` ask for a token
  only): the row stays until the user leaves or a later session is cleaned up
  (`NoGhostParticipant` without `adrift`).
- What is announced between the reading of READY and the registration of the
  connection reaches nobody (`handler.rs:137-155`), and a query that fails for
  READY shows as an empty list (`handler.rs:560-569`): `ShowsWhatIs` without
  `stale`.
- Status changes over REST are not announced (`users.rs:121`, `auth.rs:292`),
  and overlapping presence changes may be announced in another order than they
  were written.
- A move between servers makes the user vanish for whoever is in both
  (`voice.rs:231`): `PanelAgreesForAll`.
- Auto-moderation removes the owner (`automod.rs:660`), whom
  `servers.rs:538-541` and `docs/member-moderation.md:17` protect. It bans in
  two statements; when the second fails, a member is banned.
- Leaving a server, or being removed by auto-moderation, does not touch the
  voice state.
- Kick and ban end a user's voice state wherever it is, and announce the leave
  to their own server alone (`moderation.rs:74-91`, against
  `docs/websocket-protocol.md:251`): members of the server where the user was in
  voice go on being shown the user. `LeaveIsTold` in `Membership` states what
  the document promises, and TLC refutes it on `MCMembership`.
- The banner of a broadcast is dropped by a late stop of the one before it
  (`go_live.rs:189`, `useGoLive.ts:222`), and stays so until somebody starts or
  stops again: `BannerAlwaysAgrees`.
- Leaving voice does not end a broadcast, as `docs/screen-sharing.md` says it
  does: `LiveIsInVoice`.
- `go_live.rs:146` lets "(or a server admin)" stop a broadcast; the check at
  176 admits the broadcaster only.
- Concurrent creations exceed the limit of webhooks, by one less than there are
  (`webhooks.rs:190-217` against `docs/webhooks.md:14`): `WithinLimit` without
  its second term. Of two concurrent PATCHes the later one puts back fields it
  was not given (`webhooks.rs:340-396` against `docs/webhooks.md:179`):
  `UndoesOnlyPatches` without `met`.
- A webhook that was disabled still gets what was queued
  (`docs/webhooks.md:385`): `DisabledGetsNothing`.
- `delivery_failures` counts jobs, where the migration (`webhooks.sql:8-9`)
  speaks of attempts: `FailedAttemptCounts`.
- `webhook_delivery.rs:5` calls the channel unbounded; line 81 bounds it.
- Tokens issued to a user within one second are the same string
  (`auth/mod.rs:40`), so that two sign-ins at once share them. Generations in
  `Session` are distinct.

Session of the client:

- Of two calls that refresh at once the loser is refused, and signs the user out
  although the winner's tokens are good; a refresh that ends after a logout
  stores tokens again (`KeepsLiveSession` without `raced`).
- The socket reconnects with the access token of its first connection; when that
  has expired, it tries in vain until the page is loaded again.
- Nothing that was missed while the socket was down is fetched again except the
  lists with `resync`; the user's own status is offline after a reconnection;
  a presence chosen meanwhile is lost.

Voice call of the client:

- A camera that is turned off while its device is changed stays captured
  (`swapped`); a new microphone never reaches the connections that exist.
- Overlapping updates of one switch are not ordered (`crossed`).
- Two clients that offer to each other at once, or a client that leaves and
  comes back without a remount, may end up without a connection (`upset`);
  `docs/screen-sharing.md:133` says that leaving and rejoining re-establishes
  all connections.
- A list of participants that an event overtook stays wrong
  (`VoiceChannel.tsx:166`).
- `useWebRTC.ts` takes signals of a Go Live stream too; the viewer's connection
  is never stored or closed and the broadcaster's candidates are dropped; a
  double start leaks a capture; deafening does not reach audio elements that are
  added later.

Lists of the client:

- Late answers are not guarded against in the message store
  (`messageStore.ts:86`), the GIF picker, the filters of the administrators'
  and audit logs, the bot logs and the member list; a query that became too
  short does not abort the one before it (`SearchModal.tsx`).
- A role is added twice, by its answer and its event (`roleStore.ts:100-108`,
  `308-315`: the records with `twice`); so is the count of replies of a thread.
- `createChannel` answered after a change of server adds to the other server's
  list; a success that comes late closes a form that was opened since for
  another row; composers can be sent twice; the state before an optimistic vote
  is put back over newer ones, and when only the answer to the vote was lost, so
  that the server has it (`PollCard.tsx:32-33`).
- `ReactionBar.tsx:58-81` writes back the reactions it had at the click: of two
  quick clicks on different emojis the answer that comes last undoes what the
  other had put there, until the reactions are fetched again.
- Search results are not cleared when the query changes, so that results of the
  one before are shown until the new ones come. `PinnedMessages`,
  `InviteManager`, `WebhookManager` and the reactions of `MessageItem` have no
  flag against late answers: they count as guarded because they are unmounted
  when their key changes, and `NoStrangers` holds of them only as long as they
  are.
- Removing a member, setting a timeout and presence ignore which server the
  event is about.
- `AutomodSettings.tsx:24-40` goes on loading for ever if the word filters fail.
- The handlers of REACTION_ADD and REACTION_REMOVE do nothing; MESSAGE_PIN and
  MESSAGE_UNPIN are never subscribed to, as `messageStore.ts:68` says they are.
- Permissions are computed before the member's roles change
  (`useWebSocket.ts:240`, `roleStore.ts:181`): they are one event old.

## 7. What is not modelled

- Permission bits, overrides and the role hierarchy: whoever may, does. They
  are a pure function of rows; no interleaving is lost by leaving them out.
- On the server: moderation and storage of messages, mentions, read states,
  pins, reactions, direct messages (an advisory lock keeps a channel unique),
  polls, events, administration (two demotions at once can leave no
  administrator), registration invites, password reset beyond its removal of
  sessions. Their handlers change single rows; the clients' side of most of them
  is in `Views`.
- Typing indicators and heartbeats towards the server: they keep no state there.
  Of READY the lists are modelled; the user and the unread counts are not.
- Proxies, link previews, health, attachments, export, schema, start-up wiring.
- In the client: the layout, drafts, autocompletion, markdown, paging beyond one
  page, unread counts, several tabs (they share localStorage, and so rotate
  tokens under each other), ICE candidates, playback, speaking detection,
  the connections of a Go Live broadcast. `AutoModModal` is never mounted.

Abstractions that a reader should keep in mind: a list of the client shows one
page, and its events are about the selected server; READY brings all rows of a
list or none; effects of React run with the change that causes them.
