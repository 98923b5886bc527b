----------------------------- MODULE Membership -----------------------------
(***************************************************************************)
(* Who belongs to a server: joining a public server and leaving it         *)
(* (handlers/servers.rs), accepting an invite (handlers/invites.rs), kick  *)
(* and ban (handlers/moderation.rs), unban and what auto-moderation does   *)
(* to an author (handlers/automod.rs), together with the voice states that *)
(* kick and ban clean up (VoiceStates.tla).                                *)
(*                                                                         *)
(* A request is a task; every SQL statement outside a transaction, every   *)
(* transaction and every broadcast is one step.                            *)
(***************************************************************************)
EXTENDS VoiceStates

CONSTANTS MReq,     \* membership requests that may be in flight
          Kinds,    \* which kinds of them may occur in which server: a bound
          Subject,  \* users whom the requests concern: a bound
          Owner,    \* server -> its owner
          Public,   \* servers that may be joined without an invite
          MaxUses   \* max_uses of the server's invite

AllKinds == {"join", "accept", "leave", "kick", "ban", "auto_kick", "auto_ban"}

ASSUME MembershipAssumption ==
    /\ Kinds \subseteq AllKinds \X Server
    /\ Subject \subseteq User
    /\ Owner \in [Server -> User]
    /\ Public \subseteq Server
    /\ MaxUses \in Nat

VARIABLES
    bans,    \* server_bans: server -> banned users
    invite,  \* server_invites: server -> its invite
    shown,   \* server -> users its members were last told to be in voice
    mreq,    \* request -> where it stands
    loose,   \* users about whom two requests overlapped or one broke off, or
             \* who left while in voice
    missed   \* users whose voice state in another server a kick or ban
             \* deleted (both for the properties only)

ghosts == <<loose, missed>>
mvars == <<vvars, bans, invite, shown, mreq, ghosts>>

-----------------------------------------------------------------------------
(* No request that concerns the user is under way.                         *)
Undisturbed(u) == /\ InFlight(u) = {}
                  /\ {q \in MReq : mreq[q] # Idle /\ mreq[q].user = u} = {}

MInit == /\ VInit
         /\ \A s \in Server : members[s] = {Owner[s]}
         /\ bans = [s \in Server |-> {}]
         /\ invite = [s \in Server |-> [uses |-> 0, valid |-> TRUE]]
         /\ shown = [s \in Server |-> {}]
         /\ mreq = [q \in MReq |-> Idle]
         /\ loose = {} /\ missed = {}

LooseIf(u, really) == /\ loose' = IF really THEN loose \cup {u} ELSE loose
                      /\ UNCHANGED missed

Open(q, kind, step, u, s) ==
    /\ <<kind, s>> \in Kinds
    /\ mreq[q] = Idle
    /\ LooseIf(u, ~Undisturbed(u))
    /\ mreq' = [mreq EXCEPT ![q] = [at |-> step, kind |-> kind, user |-> u,
                                    server |-> s]]
    /\ UNCHANGED <<vvars, bans, invite, shown>>

At(q, step) == mreq[q] # Idle /\ mreq[q].at = step
Goes(q, step) == mreq' = [mreq EXCEPT ![q].at = step]
Close(q) == mreq' = [mreq EXCEPT ![q] = Idle]

-----------------------------------------------------------------------------
(* POST /servers/:id/join: only public servers. *)
JoinServer(q, u, s) == s \in Public /\ Open(q, "join", "check_ban", u, s)

(* POST /invites/:code/accept: the invite must be valid and have uses left *)
(* when it is read.                                                        *)
AcceptInvite(q, u, s) == /\ invite[s].valid /\ invite[s].uses < MaxUses
                         /\ Open(q, "accept", "check_ban", u, s)

(* Both then look for a ban ... *)
CheckBan(q) ==
    LET r == mreq[q]
    IN /\ At(q, "check_ban")
       /\ IF r.user \in bans[r.server] THEN Close(q) ELSE Goes(q, "check_member")
       /\ UNCHANGED <<vvars, bans, invite, shown, ghosts>>

(* ... and for an earlier membership, and then insert the member.  The     *)
(* invite is counted in the same transaction, if it is still good; if not, *)
(* or if the member exists by now, nothing is inserted.                    *)
CheckMember(q) ==
    LET r == mreq[q]
    IN /\ At(q, "check_member")
       /\ IF r.user \in members[r.server] THEN Close(q) ELSE Goes(q, "admit")
       /\ UNCHANGED <<vvars, bans, invite, shown, ghosts>>

Usable(s) == invite[s].valid /\ invite[s].uses < MaxUses

(* Mutant of Admit: the invite is not looked at again. *)
AdmitUnchecked(q) ==
    LET s == mreq[q].server  u == mreq[q].user
    IN /\ At(q, "admit")
       /\ members' = [members EXCEPT ![s] = @ \cup {u}]
       /\ invite' = IF u \notin members[s] /\ Usable(s)
                    THEN [invite EXCEPT ![s].uses = @ + 1] ELSE invite
       /\ Close(q)
       /\ UNCHANGED <<voice, task, bans, shown, ghosts>>

(* The row of a member that exists is left alone, and then not counted.    *)
Admit(q) ==
    LET r == mreq[q]
        inserts == /\ r.user \notin members[r.server]
                   /\ r.kind = "accept" => Usable(r.server)
    IN /\ At(q, "admit")
       /\ members' = IF inserts
                     THEN [members EXCEPT ![r.server] = @ \cup {r.user}]
                     ELSE members
       /\ invite' = IF inserts /\ r.kind = "accept"
                    THEN [invite EXCEPT ![r.server].uses = @ + 1] ELSE invite
       /\ Close(q)
       /\ UNCHANGED <<voice, task, bans, shown, ghosts>>

(* DELETE /invites/:id, or the invite expires; only of invites that may be *)
(* accepted, which is a bound.                                             *)
InviteEnds(s) == /\ <<"accept", s>> \in Kinds /\ invite[s].valid
                 /\ invite' = [invite EXCEPT ![s].valid = FALSE]
                 /\ UNCHANGED <<vvars, bans, shown, mreq, ghosts>>

-----------------------------------------------------------------------------
(* DELETE /servers/:id/leave: not for the owner. *)
LeaveServer(q, u, s) == /\ u \in members[s] /\ u # Owner[s]
                        /\ Open(q, "leave", "remove", u, s)

(* Kick and ban begin with the voice state, wherever the user is in voice. *)
(* Kick needs a member, ban does not; neither may target the owner.        *)
Kick(q, u, s) == /\ u \in members[s] /\ u # Owner[s]
                 /\ Open(q, "kick", "voice", u, s)

Ban(q, u, s) == u # Owner[s] /\ Open(q, "ban", "voice", u, s)

Removal(q) == IF mreq[q].kind = "ban" THEN "ban_and_remove" ELSE "remove"

(* Mutants of DropVoice: the row stays, and it goes without a word.        *)
DropNothing(q) == /\ At(q, "voice")
                  /\ Goes(q, Removal(q))
                  /\ UNCHANGED <<vvars, bans, invite, shown, ghosts>>
DropSilently(q) == /\ At(q, "voice")
                   /\ voice' = [voice EXCEPT ![mreq[q].user] = NoRow]
                   /\ Goes(q, Removal(q))
                   /\ UNCHANGED <<members, task, bans, invite, shown, ghosts>>

(* DELETE ... RETURNING channel_id: one statement.                         *)
DropVoice(q) ==
    LET r == mreq[q]
    IN /\ At(q, "voice")
       /\ voice' = [voice EXCEPT ![r.user] = NoRow]
       /\ Goes(q, IF voice[r.user] # NoRow THEN "announce" ELSE Removal(q))
       /\ missed' = IF /\ voice[r.user] # NoRow
                        /\ ServerOf[voice[r.user].ch] # r.server
                     THEN missed \cup {r.user} ELSE missed
       /\ UNCHANGED <<members, task, bans, invite, shown, loose>>

(* The leave is announced to the server of the kick.                       *)
AnnounceDrop(q) ==
    LET r == mreq[q]
    IN /\ At(q, "announce")
       /\ shown' = [shown EXCEPT ![r.server] = @ \ {r.user}]
       /\ Goes(q, Removal(q))
       /\ UNCHANGED <<vvars, bans, invite, ghosts>>

Remove(q) ==
    LET r == mreq[q]
    IN /\ At(q, "remove")
       /\ members' = [members EXCEPT ![r.server] = @ \ {r.user}]
       /\ LooseIf(r.user, voice[r.user] # NoRow)
       /\ Close(q)
       /\ UNCHANGED <<voice, task, bans, invite, shown>>

(* Mutant of BanAndRemove: the membership survives the ban.                *)
BanOnly(q) == /\ At(q, "ban_and_remove")
              /\ bans' = [bans EXCEPT ![mreq[q].server] = @ \cup {mreq[q].user}]
              /\ Close(q)
              /\ UNCHANGED <<vvars, invite, shown, ghosts>>

(* One transaction for both tables. *)
BanAndRemove(q) ==
    LET r == mreq[q]
    IN /\ At(q, "ban_and_remove")
       /\ bans' = [bans EXCEPT ![r.server] = @ \cup {r.user}]
       /\ members' = [members EXCEPT ![r.server] = @ \ {r.user}]
       /\ Close(q)
       /\ UNCHANGED <<voice, task, invite, shown, ghosts>>

(* DELETE /servers/:id/bans/:user_id. *)
Unban(u, s) == /\ u \in bans[s]
               /\ bans' = [bans EXCEPT ![s] = @ \ {u}]
               /\ UNCHANGED <<vvars, invite, shown, mreq, ghosts>>

(* A message trips auto-moderation: its author, whoever it is, is removed, *)
(* or banned first; two statements, and the voice state is left alone.     *)
AutoModerate(q, u, s) ==
    /\ u \in members[s]
    /\ \/ Open(q, "auto_kick", "remove", u, s)
       \/ Open(q, "auto_ban", "ban", u, s)

AutoBan(q) ==
    LET r == mreq[q]
    IN /\ At(q, "ban")
       /\ bans' = [bans EXCEPT ![r.server] = @ \cup {r.user}]
       /\ Goes(q, "remove")
       /\ UNCHANGED <<vvars, invite, shown, ghosts>>

(* A statement fails and the request ends with an error.                   *)
Fail(q) == /\ ~Reliable /\ mreq[q] # Idle
           /\ LooseIf(mreq[q].user, TRUE)
           /\ Close(q)
           /\ UNCHANGED <<vvars, bans, invite, shown>>

-----------------------------------------------------------------------------
(* The voice requests, with what the members of the servers are told.      *)
AnnounceVoice(t) ==
    LET s == IF task[t].at = "join_leave_old" THEN task[t].prior
             ELSE ServerOf[task[t].row.ch]
        u == task[t].user
    IN shown' = [shown EXCEPT ![s] = IF Announced(t) = NoRow
                                     THEN @ \ {u} ELSE @ \cup {u}]

(* Something went wrong: the request ends early, or join takes the failed  *)
(* query for the user's earlier channel as "nowhere".                      *)
Broken(t) == /\ ~Reliable
             /\ \/ task'[t] = Idle
                \/ /\ task[t].at = "join_prior" /\ voice[task[t].user] # NoRow
                   /\ task'[t].prior = NoServer

Voice(t) ==
    /\ \/ /\ \E u \in Subject : /\ LooseIf(u, ~Undisturbed(u))
                             /\ ReqStart(t, u)
          /\ UNCHANGED shown
       \/ /\ ReqQuiet(t) /\ UNCHANGED shown
          /\ LooseIf(task[t].user, Broken(t))
       \/ ReqAnnounce(t) /\ AnnounceVoice(t) /\ UNCHANGED ghosts
    /\ UNCHANGED <<bans, invite, mreq>>

Begins(q, u, s) == \/ JoinServer(q, u, s) \/ AcceptInvite(q, u, s)
                   \/ LeaveServer(q, u, s) \/ Kick(q, u, s) \/ Ban(q, u, s)
                   \/ AutoModerate(q, u, s)

Proceeds(q) == \/ CheckBan(q) \/ CheckMember(q) \/ Admit(q)
               \/ DropVoice(q) \/ AnnounceDrop(q) \/ Remove(q)
               \/ BanAndRemove(q) \/ AutoBan(q) \/ Fail(q)

MNext == \/ \E q \in MReq : \/ \E u \in Subject, s \in Server : Begins(q, u, s)
                            \/ Proceeds(q)
         \/ \E u \in Subject, s \in Server : Unban(u, s)
         \/ \E s \in Server : InviteEnds(s)
         \/ \E t \in Req : Voice(t)

MSpec == MInit /\ [][MNext]_mvars

-----------------------------------------------------------------------------
(* An invite never admits more users than max_uses: it was last used while *)
(* it was valid, and every user it admitted is counted.                    *)
InviteSpent ==
    [][\A q \in MReq : At(q, "admit") /\ mreq[q].kind = "accept" =>
          LET s == mreq[q].server
          IN members'[s] # members[s] /\ mreq'[q] = Idle =>
                /\ invite[s].valid
                /\ invite'[s].uses = invite[s].uses + 1
                /\ invite'[s].uses <= MaxUses]_mvars

(* Users about whom requests came one at a time and ran to their ends.     *)
Orderly == {u \in User \ loose : Undisturbed(u)}

(* A banned user is no member once every request about the user has ended. *)
BannedNotMember == \A s \in Server, u \in Orderly :
    ~(u \in bans[s] /\ u \in members[s])

(* The same however requests overlap, as docs/member-moderation.md has it. *)
BannedNeverMember == \A s \in Server, u \in User :
    Undisturbed(u) => ~(u \in bans[s] /\ u \in members[s])

(* Nobody is in voice in a server without being its member.                *)
VoiceNeedsMembership == \A u \in Orderly :
    voice[u] # NoRow => u \in members[ServerOf[voice[u].ch]]

(* Where the user is in voice, and where it was last told to be.           *)
Where(u) == IF voice[u] = NoRow THEN {} ELSE {ServerOf[voice[u].ch]}
ToldWhere(u) == {s \in Server : u \in shown[s]}

(* The members of a server were last told the truth about who is in voice, *)
(* but for users removed from voice in another server.                     *)
ShownAgrees == \A u \in Orderly \ missed : ToldWhere(u) = Where(u)

(* ... and of all users: VOICE_STATE_UPDATE is sent to all members of a    *)
(* server when a user leaves, as docs/websocket-protocol.md has it.        *)
LeaveIsTold == \A u \in Orderly : ToldWhere(u) \subseteq Where(u)
=============================================================================
