------------------------- MODULE Membership_proofs -------------------------
(***************************************************************************)
(* Proofs about Membership, for any users, servers, channels and requests, *)
(* however these overlap and fail.                                         *)
(*                                                                         *)
(* The safety properties speak of users about whom requests came one at a  *)
(* time.  What they rest on is an account of such a user at every step of  *)
(* the one request, or the one voice request, that may be under way:       *)
(* AtRequest and AtTask say what has been done already and what has not.   *)
(***************************************************************************)
EXTENDS Membership, VoiceStates_proofs

MSteps == {"check_ban", "check_member", "admit", "voice", "announce", "remove",
           "ban", "ban_and_remove"}
MBusy == [at : MSteps, kind : AllKinds, user : User, server : Server]

MTypeOK ==
    /\ VInv
    /\ \A c \in Conn : task[c] = Idle
    /\ bans \in [Server -> SUBSET User]
    /\ invite \in [Server -> [uses : Nat, valid : BOOLEAN]]
    /\ shown \in [Server -> SUBSET User]
    /\ mreq \in [MReq -> MBusy \cup {Idle}]
    /\ loose \in SUBSET User /\ missed \in SUBSET User

Mine(u) == {q \in MReq : mreq[q] # Idle /\ mreq[q].user = u}

NotBoth(u) == \A s \in Server : ~(u \in bans[s] /\ u \in members[s])
VoiceOK(u) == voice[u] # NoRow => u \in members[ServerOf[voice[u].ch]]

(* A user about whom nothing is under way.                                 *)
AtRest(u) == /\ NotBoth(u) /\ VoiceOK(u)
             /\ u \notin missed => ToldWhere(u) = Where(u)

(* A user about whom one membership request is under way, at record r: a   *)
(* ban and a membership exclude each other but for the gap in which        *)
(* auto-moderation has banned and not yet removed; who is about to be      *)
(* admitted is not banned; who is about to be announced or banned is not   *)
(* in voice any more.                                                      *)
AtRequest(u, r) ==
    /\ \A s \in Server : u \in bans[s] /\ u \in members[s] =>
          r.at = "remove" /\ r.server = s
    /\ VoiceOK(u)
    /\ r.at \in {"check_member", "admit"} => u \notin bans[r.server]
    /\ r.at \in {"announce", "ban_and_remove"} => voice[u] = NoRow
    /\ u \notin missed =>
          ToldWhere(u) = IF r.at = "announce" THEN {r.server} ELSE Where(u)

(* The server a join has to tell of the leave, as it was read.             *)
Earlier(k) == IF k.prior = NoServer THEN {} ELSE {k.prior}

(* A user one of whose voice requests is under way, at record k.           *)
AtTask(u, k) ==
    /\ NotBoth(u) /\ VoiceOK(u)
    /\ k.at \in {"join_prior", "join_upsert"} => u \in members[ServerOf[k.row.ch]]
    /\ k.at \in {"join_announce", "join_leave_old", "update_announce"} => voice[u] = k.row
    /\ k.at = "leave_announce" => voice[u] = NoRow
    /\ u \notin missed =>
          /\ k.at \in {"join_prior", "leave_delete", "update_write", "update_announce"} =>
                ToldWhere(u) = Where(u)
          /\ k.at = "join_upsert" => ToldWhere(u) = Where(u) /\ ToldWhere(u) = Earlier(k)
          /\ k.at = "join_announce" => ToldWhere(u) = Earlier(k)
          /\ k.at = "join_leave_old" =>
                /\ ToldWhere(u) = {ServerOf[k.row.ch], k.prior}
                /\ k.prior # ServerOf[k.row.ch]
          /\ k.at = "leave_announce" => ToldWhere(u) = {ServerOf[k.row.ch]}

Accounted(u) ==
    \/ InFlight(u) = {} /\ Mine(u) = {} /\ AtRest(u)
    \/ \E q \in MReq : InFlight(u) = {} /\ Mine(u) = {q} /\ AtRequest(u, mreq[q])
    \/ \E t \in Req : InFlight(u) = {t} /\ Mine(u) = {} /\ AtTask(u, task[t])

MInv == MTypeOK /\ \A u \in User \ loose : Accounted(u)

-----------------------------------------------------------------------------
(* A request under way is well typed.                                      *)
LEMMA RequestType ==
    ASSUME MTypeOK, NEW q \in MReq, mreq[q] # Idle
    PROVE  /\ mreq[q] \in MBusy /\ q \in Mine(mreq[q].user)
  BY DEF MTypeOK, Mine

LEMMA AtType ==
    ASSUME MTypeOK, NEW q \in MReq, NEW step, At(q, step)
    PROVE  mreq[q] # Idle /\ mreq[q] \in MBusy /\ mreq[q].at = step
  BY RequestType DEF At

(* A request goes on at another step, about the same user, or it ends.     *)
LEMMA GoesOK ==
    ASSUME MTypeOK, NEW q \in MReq, mreq[q] # Idle,
           NEW step \in MSteps, Goes(q, step)
    PROVE  /\ mreq' \in [MReq -> MBusy \cup {Idle}]
           /\ mreq'[q].at = step /\ mreq'[q] # Idle
           /\ mreq'[q].user = mreq[q].user /\ mreq'[q].server = mreq[q].server
           /\ \A p \in MReq \ {q} : mreq'[p] = mreq[p]
<1>1. mreq[q] \in MBusy
  BY RequestType
<1> DEFINE b == [mreq[q] EXCEPT !.at = step]
<1>2. b \in MBusy /\ b.at = step /\ b.user = mreq[q].user /\ b.server = mreq[q].server
  BY <1>1 DEF MBusy
<1>3. mreq' = [mreq EXCEPT ![q] = b]
  BY DEF Goes
<1>4. b # Idle
  BY <1>2 DEF Idle, MSteps
<1> HIDE DEF b
<1> QED
  BY <1>2, <1>3, <1>4 DEF MTypeOK

LEMMA CloseOK ==
    ASSUME MTypeOK, NEW q \in MReq, Close(q)
    PROVE  /\ mreq' \in [MReq -> MBusy \cup {Idle}]
           /\ mreq'[q] = Idle
           /\ \A p \in MReq \ {q} : mreq'[p] = mreq[p]
  BY DEF MTypeOK, Close

-----------------------------------------------------------------------------
(* Where a user was last told to be, after an announcement or none.        *)
LEMMA ToldSame ==
    ASSUME NEW u, UNCHANGED shown
    PROVE  ToldWhere(u)' = ToldWhere(u)
  BY DEF ToldWhere

LEMMA ToldGone ==
    ASSUME MTypeOK, NEW u \in User, NEW s \in Server,
           shown' = [shown EXCEPT ![s] = @ \ {u}]
    PROVE  /\ ToldWhere(u)' = ToldWhere(u) \ {s}
           /\ \A v \in User \ {u}, z \in Server : v \in shown'[z] <=> v \in shown[z]
           /\ shown' \in [Server -> SUBSET User]
  BY DEF ToldWhere, MTypeOK

LEMMA ToldThere ==
    ASSUME MTypeOK, NEW u \in User, NEW s \in Server,
           shown' = [shown EXCEPT ![s] = @ \cup {u}]
    PROVE  /\ ToldWhere(u)' = ToldWhere(u) \cup {s}
           /\ \A v \in User \ {u}, z \in Server : v \in shown'[z] <=> v \in shown[z]
           /\ shown' \in [Server -> SUBSET User]
  BY DEF ToldWhere, MTypeOK

-----------------------------------------------------------------------------
(* What a step leaves alone about a user it is not about: everything but   *)
(* perhaps a ban that is lifted.                                           *)
Untouched(v) ==
    /\ voice'[v] = voice[v]
    /\ \A s \in Server : /\ v \in members'[s] <=> v \in members[s]
                         /\ v \in bans'[s] => v \in bans[s]
                         /\ v \in shown'[s] <=> v \in shown[s]
    /\ v \in missed => v \in missed'
    /\ \A t \in Task : \/ task'[t] = task[t]
                       \/ /\ task[t] = Idle \/ task[t].user # v
                          /\ task'[t] = Idle \/ task'[t].user # v
    /\ \A q \in MReq : \/ mreq'[q] = mreq[q]
                       \/ /\ mreq[q] = Idle \/ mreq[q].user # v
                          /\ mreq'[q] = Idle \/ mreq'[q].user # v

(* The account of a user stays true when a step leaves the user alone.     *)
LEMMA StillAccounted ==
    ASSUME MTypeOK, NEW v \in User, Accounted(v), Untouched(v)
    PROVE  Accounted(v)'
<1>1. InFlight(v)' = InFlight(v) /\ \A t \in InFlight(v) : task'[t] = task[t]
  BY DEF Untouched, InFlight
<1>2. Mine(v)' = Mine(v) /\ \A q \in Mine(v) : mreq'[q] = mreq[q]
  BY DEF Untouched, Mine
<1>3. Where(v)' = Where(v) /\ ToldWhere(v)' = ToldWhere(v)
  BY DEF Untouched, Where, ToldWhere
<1>4. NotBoth(v) => NotBoth(v)'
  BY DEF Untouched, NotBoth
<1>5. VoiceOK(v) => VoiceOK(v)'
  <2>1. voice[v] # NoRow => ServerOf[voice[v].ch] \in Server
    BY VoiceAssumption DEF MTypeOK, VInv, VTypeOK, Row
  <2> QED
    BY <2>1 DEF Untouched, VoiceOK
<1>6. ASSUME NEW t \in Req, t \in InFlight(v), AtTask(v, task[t])
      PROVE  AtTask(v, task[t])'
  <2>1. task'[t] = task[t]
    BY <1>1, <1>6
  <2>2. task[t].at \in {"join_prior", "join_upsert"} =>
           ServerOf[task[t].row.ch] \in Server
    BY <1>6, VoiceAssumption DEF MTypeOK, VInv, Carries, Carrying, Steps, Row, InFlight
  <2>3. NotBoth(v)' /\ VoiceOK(v)'
    BY <1>4, <1>5, <1>6 DEF AtTask
  <2>4. Earlier(task[t])' = Earlier(task[t])
    BY <2>1 DEF Earlier
  <2> QED
    BY <1>3, <1>6, <2>1, <2>2, <2>3, <2>4 DEF Untouched, AtTask
<1>7. ASSUME NEW q \in MReq, q \in Mine(v), AtRequest(v, mreq[q])
      PROVE  AtRequest(v, mreq[q])'
  <2>1. mreq'[q] = mreq[q] /\ mreq[q].server \in Server
    BY <1>2, <1>7 DEF Mine, MTypeOK, MBusy
  <2>2. VoiceOK(v)'
    BY <1>5, <1>7 DEF AtRequest
  <2> QED
    BY <1>3, <1>7, <2>1, <2>2 DEF Untouched, AtRequest
<1>8. AtRest(v) => AtRest(v)'
  BY <1>3, <1>4, <1>5 DEF Untouched, AtRest
<1> QED
  BY <1>1, <1>2, <1>6, <1>7, <1>8 DEF Accounted
-----------------------------------------------------------------------------
(* So a step about one user leaves every account true if it leaves that    *)
(* user's true.                                                            *)
LEMMA OneUser ==
    ASSUME MInv, MTypeOK', NEW u \in User, loose \subseteq loose',
           \A v \in User \ {u} : Untouched(v),
           u \notin loose' => Accounted(u)'
    PROVE  MInv'
<1>1. ASSUME NEW v \in User, v \notin loose' PROVE Accounted(v)'
  <2>1. CASE v = u
    BY <1>1, <2>1
  <2>2. CASE v # u
    BY <1>1, <2>2, StillAccounted DEF MInv
  <2> QED
    BY <2>1, <2>2
<1> QED
  BY <1>1 DEF MInv

(* The one request about a user, and the account of that user.             *)
LEMMA OnlyRequest ==
    ASSUME MInv, NEW q \in MReq, mreq[q] # Idle, mreq[q].user \notin loose
    PROVE  /\ InFlight(mreq[q].user) = {} /\ Mine(mreq[q].user) = {q}
           /\ AtRequest(mreq[q].user, mreq[q])
<1> DEFINE u == mreq[q].user
<1>1. u \in User /\ q \in Mine(u)
  BY RequestType DEF MInv, MBusy
<1>2. Accounted(u)
  BY <1>1 DEF MInv
<1> QED
  BY <1>1, <1>2 DEF Accounted

(* A request about a user of whom nothing else is under way goes on.       *)
LEMMA RequestGoesOn ==
    ASSUME NEW u \in User, NEW q \in MReq,
           InFlight(u) = {}, Mine(u) \subseteq {q}, UNCHANGED task,
           \A p \in MReq \ {q} : mreq'[p] = mreq[p],
           \/ mreq'[q] = Idle /\ AtRest(u)'
           \/ mreq'[q] # Idle /\ mreq'[q].user = u /\ AtRequest(u, mreq[q])'
    PROVE  Accounted(u)'
<1>1. InFlight(u)' = {}
  BY DEF InFlight
<1>2. CASE mreq'[q] = Idle
  <2>1. Mine(u)' = {}
    BY <1>2 DEF Mine
  <2> QED
    BY <1>1, <1>2, <2>1 DEF Accounted
<1>3. CASE mreq'[q] # Idle
  <2>1. Mine(u)' = {q}
    BY <1>3 DEF Mine
  <2> QED
    BY <1>1, <1>3, <2>1 DEF Accounted
<1> QED
  BY <1>2, <1>3

(* A user of whom nothing is under way is accounted for at rest.           *)
LEMMA RestsNow ==
    ASSUME NEW u \in User, Accounted(u), Undisturbed(u)
    PROVE  InFlight(u) = {} /\ Mine(u) = {} /\ AtRest(u)
  BY DEF Accounted, Undisturbed, Mine

-----------------------------------------------------------------------------
(* Every request begins with a user at rest, or the user is loose.         *)
LEMMA OpenOK ==
    ASSUME MInv, NEW q \in MReq, NEW u \in Subject, NEW s \in Server,
           NEW kind \in AllKinds, NEW step \in {"check_ban", "remove", "voice", "ban"},
           Open(q, kind, step, u, s)
    PROVE  MInv'
<1> USE DEF MInv
<1>0. u \in User
  BY MembershipAssumption
<1> DEFINE b == [at |-> step, kind |-> kind, user |-> u, server |-> s]
<1>1. b \in MBusy /\ b # Idle
  BY <1>0 DEF MBusy, MSteps, Idle
<1>2. /\ mreq' \in [MReq -> MBusy \cup {Idle}] /\ mreq'[q] = b
      /\ \A p \in MReq \ {q} : mreq'[p] = mreq[p]
  BY <1>1 DEF Open, MTypeOK
<1>3. /\ UNCHANGED <<vvars, bans, invite, shown, missed>> /\ mreq[q] = Idle
      /\ loose \subseteq loose' /\ loose' \in SUBSET User
      /\ u \notin loose' => Undisturbed(u) /\ u \notin loose
  BY <1>0 DEF Open, LooseIf, MTypeOK
<1>4. MTypeOK'
  BY <1>2, <1>3 DEF MTypeOK, VInv, VTypeOK, Carries, vvars
<1>5. \A v \in User \ {u} : Untouched(v)
  BY <1>1, <1>2, <1>3 DEF Untouched, vvars
<1>6. ASSUME u \notin loose' PROVE Accounted(u)'
  <2>1. InFlight(u) = {} /\ Mine(u) = {} /\ AtRest(u)
    BY <1>0, <1>3, <1>6, RestsNow
  <2>2. AtRequest(u, mreq[q])'
    BY <1>2, <1>3, <2>1
       DEF AtRequest, AtRest, NotBoth, VoiceOK, Where, ToldWhere, vvars
  <2> QED
    BY <1>0, <1>1, <1>2, <1>3, <2>1, <2>2, RequestGoesOn DEF vvars
<1> QED
  BY <1>0, <1>3, <1>4, <1>5, <1>6, OneUser

LEMMA BeginsOK ==
    ASSUME MInv, NEW q \in MReq, NEW u \in Subject, NEW s \in Server,
           Begins(q, u, s)
    PROVE  MInv'
<1>1. \E kind \in AllKinds, step \in {"check_ban", "remove", "voice", "ban"} :
         Open(q, kind, step, u, s)
  BY DEF Begins, JoinServer, AcceptInvite, LeaveServer, Kick, Ban, AutoModerate,
         AllKinds
<1> QED
  BY <1>1, OpenOK

-----------------------------------------------------------------------------
(* A step of a request that touches one user leaves the others alone.      *)
LEMMA OthersUntouched ==
    ASSUME MTypeOK, NEW q \in MReq, mreq[q] # Idle, UNCHANGED task,
           \A p \in MReq \ {q} : mreq'[p] = mreq[p],
           mreq'[q] = Idle \/ mreq'[q].user = mreq[q].user,
           missed \subseteq missed',
           \A v \in User \ {mreq[q].user} :
              /\ voice'[v] = voice[v]
              /\ \A s \in Server : /\ v \in members'[s] <=> v \in members[s]
                                   /\ v \in bans'[s] <=> v \in bans[s]
                                   /\ v \in shown'[s] <=> v \in shown[s]
    PROVE  \A v \in User \ {mreq[q].user} : Untouched(v)
  BY DEF Untouched

(* The two checks before a member is admitted change nothing.              *)
LEMMA CheckOK ==
    ASSUME MInv, NEW q \in MReq, CheckBan(q) \/ CheckMember(q)
    PROVE  MInv'
<1>0. MTypeOK
  BY DEF MInv
<1>1. PICK u \in User : u = mreq[q].user /\ mreq[q] # Idle /\ mreq[q] \in MBusy
  BY <1>0, AtType DEF CheckBan, CheckMember, MBusy
<1>2. UNCHANGED <<vvars, bans, invite, shown, ghosts>>
  BY DEF CheckBan, CheckMember
<1>3. /\ mreq' \in [MReq -> MBusy \cup {Idle}]
      /\ \A p \in MReq \ {q} : mreq'[p] = mreq[p]
      /\ mreq'[q] = Idle \/ /\ mreq'[q] # Idle /\ mreq'[q].user = u
                            /\ mreq'[q].server = mreq[q].server
                            /\ mreq'[q].at \in {"check_member", "admit"}
                            /\ mreq'[q].at = "check_member" => u \notin bans[mreq[q].server]
                            /\ mreq'[q].at = "admit" => mreq[q].at = "check_member"
  BY <1>0, <1>1, GoesOK, CloseOK DEF CheckBan, CheckMember, MSteps, At
<1>4. MTypeOK'
  BY <1>0, <1>2, <1>3 DEF MTypeOK, VInv, VTypeOK, Carries, vvars, ghosts
<1>5. \A v \in User \ {u} : Untouched(v)
  BY <1>1, <1>2, <1>3, <1>0, OthersUntouched DEF vvars, ghosts
<1>6. ASSUME u \notin loose' PROVE Accounted(u)'
  <2>1. InFlight(u) = {} /\ Mine(u) = {q} /\ AtRequest(u, mreq[q])
    BY <1>1, <1>2, <1>6, OnlyRequest DEF ghosts
  <2>2. mreq[q].at \in {"check_ban", "check_member"}
    BY <1>1 DEF CheckBan, CheckMember, At
  <2>3. CASE mreq'[q] = Idle
    <3>1. AtRest(u)'
      BY <1>2, <2>1, <2>2
         DEF AtRequest, AtRest, NotBoth, VoiceOK, Where, ToldWhere, vvars, ghosts
    <3> QED
      BY <1>1, <1>2, <1>3, <2>1, <2>3, <3>1, RequestGoesOn DEF vvars
  <2>4. CASE mreq'[q] # Idle
    <3>1. AtRequest(u, mreq[q])'
      BY <1>2, <1>3, <2>1, <2>2, <2>4
         DEF AtRequest, VoiceOK, Where, ToldWhere, vvars, ghosts
    <3> QED
      BY <1>1, <1>2, <1>3, <2>1, <2>4, <3>1, RequestGoesOn DEF vvars
  <2> QED
    BY <2>3, <2>4
<1> QED
  BY <1>1, <1>2, <1>4, <1>5, <1>6, OneUser DEF ghosts
(* Who is admitted is not banned: nothing else was under way since the     *)
(* look-up.                                                                *)
LEMMA AdmitOK ==
    ASSUME MInv, NEW q \in MReq, Admit(q)
    PROVE  MInv'
<1>0. MTypeOK
  BY DEF MInv
<1>1. PICK u \in User : u = mreq[q].user /\ mreq[q] # Idle /\ mreq[q] \in MBusy
  BY <1>0, AtType DEF Admit, MBusy
<1>2. PICK s \in Server : s = mreq[q].server
  BY <1>1 DEF MBusy
<1>3. UNCHANGED <<voice, task, bans, shown, ghosts>> /\ mreq[q].at = "admit"
  BY DEF Admit, At
<1>4. /\ mreq' \in [MReq -> MBusy \cup {Idle}] /\ mreq'[q] = Idle
      /\ \A p \in MReq \ {q} : mreq'[p] = mreq[p]
  BY <1>0, CloseOK DEF Admit
<1>5. \/ UNCHANGED members
      \/ members' = [members EXCEPT ![s] = @ \cup {u}]
  BY <1>1, <1>2 DEF Admit
<1>6. invite' \in [Server -> [uses : Nat, valid : BOOLEAN]]
  BY <1>0, <1>2 DEF Admit, MTypeOK
<1>7. MTypeOK'
  BY <1>0, <1>3, <1>4, <1>5, <1>6, SMTT(30) DEF MTypeOK, VInv, VTypeOK, Carries, ghosts
<1>8. \A v \in User \ {u} : Untouched(v)
  <2>1. \A v \in User \ {u}, z \in Server : v \in members'[z] <=> v \in members[z]
    BY <1>0, <1>5 DEF MTypeOK, VInv, VTypeOK
  <2> QED
    BY <1>0, <1>1, <1>3, <1>4, <2>1, OthersUntouched DEF ghosts
<1>9. ASSUME u \notin loose' PROVE Accounted(u)'
  <2>1. InFlight(u) = {} /\ Mine(u) = {q} /\ AtRequest(u, mreq[q])
    BY <1>1, <1>3, <1>9, OnlyRequest DEF ghosts
  <2>2. voice[u] # NoRow => ServerOf[voice[u].ch] \in Server
    BY <1>0, VoiceAssumption DEF MTypeOK, VInv, VTypeOK, Row
  <2>3. NotBoth(u)' /\ VoiceOK(u)'
    BY <1>0, <1>2, <1>3, <1>5, <2>1, <2>2
       DEF AtRequest, NotBoth, VoiceOK, MTypeOK, VInv, VTypeOK
  <2>4. AtRest(u)'
    BY <1>3, <2>1, <2>3 DEF AtRequest, AtRest, Where, ToldWhere, ghosts
  <2> QED
    BY <1>3, <1>4, <2>1, <2>4, RequestGoesOn
<1> QED
  BY <1>3, <1>7, <1>8, <1>9, OneUser DEF ghosts

(* Kick and ban first delete the user's voice state, then tell the server  *)
(* of the kick, which was the user's unless the user is missed.            *)
LEMMA DropVoiceOK ==
    ASSUME MInv, NEW q \in MReq, DropVoice(q)
    PROVE  MInv'
<1>0. MTypeOK
  BY DEF MInv
<1>1. PICK u \in User : u = mreq[q].user /\ mreq[q] # Idle /\ mreq[q] \in MBusy
  BY <1>0, AtType DEF DropVoice, MBusy
<1>3. /\ UNCHANGED <<members, task, bans, invite, shown, loose>>
      /\ mreq[q].at = "voice"
      /\ voice' = [voice EXCEPT ![u] = NoRow]
      /\ missed' \in SUBSET User /\ missed \subseteq missed'
      /\ \/ u \in missed' \/ voice[u] = NoRow
         \/ ServerOf[voice[u].ch] = mreq[q].server
  BY <1>0, <1>1 DEF DropVoice, At, MTypeOK
<1>4. /\ mreq' \in [MReq -> MBusy \cup {Idle}] /\ mreq'[q] # Idle
      /\ mreq'[q].user = u /\ mreq'[q].server = mreq[q].server
      /\ mreq'[q].at \in {"announce", "remove", "ban_and_remove"}
      /\ mreq'[q].at = "announce" <=> voice[u] # NoRow
      /\ \A p \in MReq \ {q} : mreq'[p] = mreq[p]
  BY <1>0, <1>1, GoesOK DEF DropVoice, Removal, MSteps
<1>7. MTypeOK'
  BY <1>0, <1>3, <1>4 DEF MTypeOK, VInv, VTypeOK, Carries
<1>8. \A v \in User \ {u} : Untouched(v)
  BY <1>0, <1>1, <1>3, <1>4, OthersUntouched DEF MTypeOK, VInv, VTypeOK
<1>9. ASSUME u \notin loose' PROVE Accounted(u)'
  <2>1. InFlight(u) = {} /\ Mine(u) = {q} /\ AtRequest(u, mreq[q])
    BY <1>1, <1>3, <1>9, OnlyRequest
  <2>2. voice'[u] = NoRow
    BY <1>0, <1>3 DEF MTypeOK, VInv, VTypeOK
  <2>3. ToldWhere(u)' = ToldWhere(u)
    BY <1>3, ToldSame
  <2>4. AtRequest(u, mreq[q])'
    BY <1>3, <1>4, <2>1, <2>2, <2>3 DEF AtRequest, VoiceOK, Where
  <2> QED
    BY <1>3, <1>4, <2>1, <2>4, RequestGoesOn
<1> QED
  BY <1>3, <1>7, <1>8, <1>9, OneUser

LEMMA AnnounceDropOK ==
    ASSUME MInv, NEW q \in MReq, AnnounceDrop(q)
    PROVE  MInv'
<1>0. MTypeOK
  BY DEF MInv
<1>1. PICK u \in User : u = mreq[q].user /\ mreq[q] # Idle /\ mreq[q] \in MBusy
  BY <1>0, AtType DEF AnnounceDrop, MBusy
<1>2. PICK s \in Server : s = mreq[q].server
  BY <1>1 DEF MBusy
<1>3. /\ UNCHANGED <<vvars, bans, invite, ghosts>>
      /\ mreq[q].at = "announce"
      /\ shown' = [shown EXCEPT ![s] = @ \ {u}]
  BY <1>1, <1>2 DEF AnnounceDrop, At
<1>4. /\ mreq' \in [MReq -> MBusy \cup {Idle}] /\ mreq'[q] # Idle
      /\ mreq'[q].user = u /\ mreq'[q].server = s
      /\ mreq'[q].at \in {"remove", "ban_and_remove"}
      /\ \A p \in MReq \ {q} : mreq'[p] = mreq[p]
  BY <1>0, <1>1, <1>2, GoesOK DEF AnnounceDrop, Removal, MSteps
<1>5. /\ ToldWhere(u)' = ToldWhere(u) \ {s}
      /\ \A v \in User \ {u}, z \in Server : v \in shown'[z] <=> v \in shown[z]
      /\ shown' \in [Server -> SUBSET User]
  BY <1>0, <1>3, ToldGone
<1>7. MTypeOK'
  BY <1>0, <1>3, <1>4, <1>5 DEF MTypeOK, VInv, VTypeOK, Carries, vvars, ghosts
<1>8. \A v \in User \ {u} : Untouched(v)
  BY <1>0, <1>1, <1>3, <1>4, <1>5, OthersUntouched DEF vvars, ghosts
<1>9. ASSUME u \notin loose' PROVE Accounted(u)'
  <2>1. InFlight(u) = {} /\ Mine(u) = {q} /\ AtRequest(u, mreq[q])
    BY <1>1, <1>3, <1>9, OnlyRequest DEF ghosts
  <2>2. voice'[u] = NoRow /\ Where(u)' = {}
    BY <1>3, <2>1 DEF AtRequest, Where, vvars
  <2>3. u \notin missed => ToldWhere(u)' = {}
    BY <1>2, <1>3, <1>5, <2>1 DEF AtRequest
  <2>4. AtRequest(u, mreq[q])'
    BY <1>3, <1>4, <2>1, <2>2, <2>3 DEF AtRequest, VoiceOK, vvars, ghosts
  <2> QED
    BY <1>3, <1>4, <2>1, <2>4, RequestGoesOn DEF vvars
<1> QED
  BY <1>3, <1>7, <1>8, <1>9, OneUser DEF ghosts

-----------------------------------------------------------------------------
(* The membership goes; a user who is in voice then is loose.              *)
LEMMA RemoveOK ==
    ASSUME MInv, NEW q \in MReq, Remove(q)
    PROVE  MInv'
<1>0. MTypeOK
  BY DEF MInv
<1>1. PICK u \in User : u = mreq[q].user /\ mreq[q] # Idle /\ mreq[q] \in MBusy
  BY <1>0, AtType DEF Remove, MBusy
<1>2. PICK s \in Server : s = mreq[q].server
  BY <1>1 DEF MBusy
<1>3. /\ UNCHANGED <<voice, task, bans, invite, shown, missed>>
      /\ mreq[q].at = "remove"
      /\ members' = [members EXCEPT ![s] = @ \ {u}]
      /\ loose \subseteq loose' /\ loose' \in SUBSET User
      /\ u \notin loose' => voice[u] = NoRow
  BY <1>0, <1>1, <1>2 DEF Remove, At, LooseIf, MTypeOK
<1>4. /\ mreq' \in [MReq -> MBusy \cup {Idle}] /\ mreq'[q] = Idle
      /\ \A p \in MReq \ {q} : mreq'[p] = mreq[p]
  BY <1>0, CloseOK DEF Remove
<1>7. MTypeOK'
  BY <1>0, <1>3, <1>4 DEF MTypeOK, VInv, VTypeOK, Carries
<1>8. \A v \in User \ {u} : Untouched(v)
  BY <1>0, <1>1, <1>3, <1>4, OthersUntouched DEF MTypeOK, VInv, VTypeOK
<1>9. ASSUME u \notin loose' PROVE Accounted(u)'
  <2>1. InFlight(u) = {} /\ Mine(u) = {q} /\ AtRequest(u, mreq[q])
    BY <1>1, <1>3, <1>9, OnlyRequest
  <2>2. NotBoth(u)' /\ VoiceOK(u)'
    BY <1>0, <1>2, <1>3, <1>9, <2>1
       DEF AtRequest, NotBoth, VoiceOK, MTypeOK, VInv, VTypeOK
  <2>3. AtRest(u)'
    BY <1>3, <2>1, <2>2 DEF AtRequest, AtRest, Where, ToldWhere
  <2> QED
    BY <1>3, <1>4, <2>1, <2>3, RequestGoesOn
<1> QED
  BY <1>3, <1>7, <1>8, <1>9, OneUser

(* A ban and a membership change places in one transaction.                *)
LEMMA BanAndRemoveOK ==
    ASSUME MInv, NEW q \in MReq, BanAndRemove(q)
    PROVE  MInv'
<1>0. MTypeOK
  BY DEF MInv
<1>1. PICK u \in User : u = mreq[q].user /\ mreq[q] # Idle /\ mreq[q] \in MBusy
  BY <1>0, AtType DEF BanAndRemove, MBusy
<1>2. PICK s \in Server : s = mreq[q].server
  BY <1>1 DEF MBusy
<1>3. /\ UNCHANGED <<voice, task, invite, shown, ghosts>>
      /\ mreq[q].at = "ban_and_remove"
      /\ bans' = [bans EXCEPT ![s] = @ \cup {u}]
      /\ members' = [members EXCEPT ![s] = @ \ {u}]
  BY <1>1, <1>2 DEF BanAndRemove, At
<1>4. /\ mreq' \in [MReq -> MBusy \cup {Idle}] /\ mreq'[q] = Idle
      /\ \A p \in MReq \ {q} : mreq'[p] = mreq[p]
  BY <1>0, CloseOK DEF BanAndRemove
<1>7. MTypeOK'
  BY <1>0, <1>3, <1>4 DEF MTypeOK, VInv, VTypeOK, Carries, ghosts
<1>8. \A v \in User \ {u} : Untouched(v)
  BY <1>0, <1>1, <1>3, <1>4, OthersUntouched DEF MTypeOK, VInv, VTypeOK, ghosts
<1>9. ASSUME u \notin loose' PROVE Accounted(u)'
  <2>1. InFlight(u) = {} /\ Mine(u) = {q} /\ AtRequest(u, mreq[q])
    BY <1>1, <1>3, <1>9, OnlyRequest DEF ghosts
  <2>2. NotBoth(u)' /\ VoiceOK(u)'
    BY <1>0, <1>2, <1>3, <2>1
       DEF AtRequest, NotBoth, VoiceOK, MTypeOK, VInv, VTypeOK
  <2>3. AtRest(u)'
    BY <1>3, <2>1, <2>2 DEF AtRequest, AtRest, Where, ToldWhere, ghosts
  <2> QED
    BY <1>3, <1>4, <2>1, <2>3, RequestGoesOn
<1> QED
  BY <1>3, <1>7, <1>8, <1>9, OneUser DEF ghosts

(* Auto-moderation bans first: the one gap in which a member is banned.    *)
LEMMA AutoBanOK ==
    ASSUME MInv, NEW q \in MReq, AutoBan(q)
    PROVE  MInv'
<1>0. MTypeOK
  BY DEF MInv
<1>1. PICK u \in User : u = mreq[q].user /\ mreq[q] # Idle /\ mreq[q] \in MBusy
  BY <1>0, AtType DEF AutoBan, MBusy
<1>2. PICK s \in Server : s = mreq[q].server
  BY <1>1 DEF MBusy
<1>3. /\ UNCHANGED <<vvars, invite, shown, ghosts>>
      /\ mreq[q].at = "ban"
      /\ bans' = [bans EXCEPT ![s] = @ \cup {u}]
  BY <1>1, <1>2 DEF AutoBan, At
<1>4. /\ mreq' \in [MReq -> MBusy \cup {Idle}] /\ mreq'[q] # Idle
      /\ mreq'[q].user = u /\ mreq'[q].server = s /\ mreq'[q].at = "remove"
      /\ \A p \in MReq \ {q} : mreq'[p] = mreq[p]
  BY <1>0, <1>1, <1>2, GoesOK DEF AutoBan, MSteps
<1>7. MTypeOK'
  BY <1>0, <1>3, <1>4 DEF MTypeOK, VInv, VTypeOK, Carries, vvars, ghosts
<1>8. \A v \in User \ {u} : Untouched(v)
  BY <1>0, <1>1, <1>3, <1>4, OthersUntouched DEF MTypeOK, vvars, ghosts
<1>9. ASSUME u \notin loose' PROVE Accounted(u)'
  <2>1. InFlight(u) = {} /\ Mine(u) = {q} /\ AtRequest(u, mreq[q])
    BY <1>1, <1>3, <1>9, OnlyRequest DEF ghosts
  <2>2. \A z \in Server : u \in bans'[z] /\ u \in members'[z] => z = s
    BY <1>0, <1>3, <2>1 DEF AtRequest, MTypeOK, vvars
  <2>3. AtRequest(u, mreq[q])'
    BY <1>3, <1>4, <2>1, <2>2
       DEF AtRequest, VoiceOK, Where, ToldWhere, vvars, ghosts
  <2> QED
    BY <1>3, <1>4, <2>1, <2>3, RequestGoesOn DEF vvars
<1> QED
  BY <1>3, <1>7, <1>8, <1>9, OneUser DEF ghosts

(* A request that ends with an error leaves its user loose.                *)
LEMMA FailOK ==
    ASSUME MInv, NEW q \in MReq, Fail(q)
    PROVE  MInv'
<1>0. MTypeOK
  BY DEF MInv
<1>1. PICK u \in User : u = mreq[q].user /\ mreq[q] # Idle /\ mreq[q] \in MBusy
  BY <1>0, RequestType DEF Fail, MBusy
<1>2. /\ UNCHANGED <<vvars, bans, invite, shown, missed>>
      /\ loose' = loose \cup {u}
  BY <1>1 DEF Fail, LooseIf
<1>3. /\ mreq' \in [MReq -> MBusy \cup {Idle}] /\ mreq'[q] = Idle
      /\ \A p \in MReq \ {q} : mreq'[p] = mreq[p]
  BY <1>0, CloseOK DEF Fail
<1>4. MTypeOK'
  BY <1>0, <1>2, <1>3 DEF MTypeOK, VInv, VTypeOK, Carries, vvars
<1>5. \A v \in User \ {u} : Untouched(v)
  BY <1>0, <1>1, <1>2, <1>3, OthersUntouched DEF vvars
<1> QED
  BY <1>2, <1>4, <1>5, OneUser

(* Outside any request a ban may be lifted and an invite may end.          *)
LEMMA AdminOK ==
    ASSUME MInv, NEW s \in Server,
           InviteEnds(s) \/ \E u \in Subject : Unban(u, s)
    PROVE  MInv'
<1>0. MTypeOK
  BY DEF MInv
<1>1. /\ UNCHANGED <<vvars, shown, mreq, ghosts>>
      /\ bans' \in [Server -> SUBSET User]
      /\ invite' \in [Server -> [uses : Nat, valid : BOOLEAN]]
      /\ \A z \in Server : bans'[z] \subseteq bans[z]
  <2>1. CASE InviteEnds(s)
    BY <1>0, <2>1 DEF InviteEnds, MTypeOK
  <2>2. CASE \E u \in Subject : Unban(u, s)
    <3>1. PICK u \in Subject : Unban(u, s)
      BY <2>2
    <3> QED
      BY <1>0, <3>1 DEF Unban, MTypeOK
  <2> QED
    BY <2>1, <2>2
<1>2. MTypeOK'
  BY <1>0, <1>1 DEF MTypeOK, VInv, VTypeOK, Carries, vvars, ghosts
<1>3. \A v \in User : Untouched(v)
  BY <1>1 DEF Untouched, vvars, ghosts
<1> QED
  BY <1>0, <1>1, <1>2, <1>3, StillAccounted DEF MInv, ghosts
-----------------------------------------------------------------------------
(* The one voice request about a user, and the account of that user.       *)
LEMMA OnlyTask ==
    ASSUME MInv, NEW t \in Req, task[t] # Idle, task[t].user \notin loose
    PROVE  /\ InFlight(task[t].user) = {t} /\ Mine(task[t].user) = {}
           /\ AtTask(task[t].user, task[t])
<1>1. t \in Task /\ task[t] \in Busy
  BY DEF MInv, MTypeOK, VInv, VTypeOK, Task
<1>2. PICK u \in User : u = task[t].user
  BY <1>1 DEF Busy
<1>3. t \in InFlight(u) /\ Accounted(u)
  BY <1>1, <1>2 DEF MInv, InFlight
<1> QED
  BY <1>2, <1>3 DEF Accounted

(* A voice request of a user of whom nothing else is under way goes on.    *)
LEMMA TaskGoesOn ==
    ASSUME NEW u \in User, NEW t \in Req,
           InFlight(u) \subseteq {t}, Mine(u) = {}, UNCHANGED mreq,
           \A x \in Task \ {t} : task'[x] = task[x],
           \/ task'[t] = Idle /\ AtRest(u)'
           \/ task'[t] # Idle /\ task'[t].user = u /\ AtTask(u, task[t])'
    PROVE  Accounted(u)'
<1>1. Mine(u)' = {} /\ t \in Task
  BY DEF Mine, Task
<1>2. CASE task'[t] = Idle
  <2>1. InFlight(u)' = {}
    BY <1>2 DEF InFlight
  <2> QED
    BY <1>1, <1>2, <2>1 DEF Accounted
<1>3. CASE task'[t] # Idle
  <2>1. InFlight(u)' = {t}
    BY <1>1, <1>3 DEF InFlight
  <2> QED
    BY <1>1, <1>3, <2>1 DEF Accounted
<1> QED
  BY <1>2, <1>3

(* What a step of a voice request does to its own record: it goes on, with *)
(* its user and its row, or it ends.                                       *)
LEMMA TaskMoves ==
    ASSUME VInv, NEW t \in Req, NEW step \in Steps, task[t] # Idle,
           Goto(t, step)
    PROVE  /\ task'[t] # Idle /\ task'[t].at = step
           /\ task'[t].user = task[t].user /\ task'[t].row = task[t].row
           /\ task'[t].prior = task[t].prior
           /\ \A x \in Task \ {t} : task'[x] = task[x]
<1>1. t \in Task /\ task[t] \in Busy
  BY DEF VInv, VTypeOK, Task
<1> DEFINE b == [task[t] EXCEPT !.at = step]
<1>2. b.at = step /\ b.user = task[t].user /\ b.row = task[t].row /\ b.prior = task[t].prior
  BY <1>1 DEF Busy
<1>3. b # Idle
  BY <1>2 DEF Idle, Steps
<1>4. task' = [task EXCEPT ![t] = b]
  BY DEF Goto
<1> HIDE DEF b
<1> QED
  BY <1>1, <1>2, <1>3, <1>4 DEF VInv, VTypeOK

LEMMA TaskEnds ==
    ASSUME VInv, NEW t \in Req, End(t)
    PROVE  task'[t] = Idle /\ \A x \in Task \ {t} : task'[x] = task[x]
  BY DEF VInv, VTypeOK, Task, End

(* The types after a step of a voice request.                              *)
LEMMA VoiceTypes ==
    ASSUME MTypeOK, VInv', NEW t \in Req,
           \A x \in Task \ {t} : task'[x] = task[x],
           UNCHANGED <<bans, invite, mreq>>,
           shown' \in [Server -> SUBSET User],
           loose' \in SUBSET User, missed' \in SUBSET User
    PROVE  MTypeOK'
  BY VoiceAssumption DEF MTypeOK, Task

(* A step of a voice request leaves other users alone.                     *)
LEMMA OthersUnheard ==
    ASSUME NEW u \in User, NEW t \in Req,
           task[t] = Idle \/ task[t].user = u,
           task'[t] = Idle \/ task'[t].user = u,
           \A x \in Task \ {t} : task'[x] = task[x],
           UNCHANGED <<members, bans, mreq, missed>>,
           \A v \in User \ {u} :
              /\ voice'[v] = voice[v]
              /\ \A s \in Server : v \in shown'[s] <=> v \in shown[s]
    PROVE  \A v \in User \ {u} : Untouched(v)
  BY DEF Untouched

-----------------------------------------------------------------------------
(* A voice request begins, of a member and at rest, or the user is loose.  *)
LEMMA VoiceStarts ==
    ASSUME MInv, NEW t \in Req, NEW u \in Subject, ReqStart(t, u),
           LooseIf(u, ~Undisturbed(u)), UNCHANGED <<shown, bans, invite, mreq>>
    PROVE  MInv'
<1>0. MTypeOK /\ VInv /\ u \in User /\ t \in Task
  BY MembershipAssumption DEF MInv, MTypeOK, Task
<1>1. PICK ch \in Channel, step \in {"join_prior", "leave_delete", "update_write"},
           row \in Row :
         /\ Begin(t, step, u, row) /\ row.ch = ch
         /\ u \in members[ServerOf[ch]] /\ UNCHANGED <<members, voice>>
  <2>1. PICK ch \in Channel : \/ JoinStart(t, u, ch) \/ LeaveStart(t, u, ch)
                             \/ \E m \in BOOLEAN : UpdateStart(t, u, ch, m)
    BY DEF ReqStart
  <2>2. \A m \in BOOLEAN : [ch |-> ch, muted |-> m] \in Row
    BY DEF Row
  <2> QED
    BY <2>1, <2>2 DEF JoinStart, LeaveStart, UpdateStart, JoinRow
<1> DEFINE b == [at |-> step, user |-> u, row |-> row, prior |-> NoServer]
<1>2. b # Idle
  BY DEF Idle
<1>3. /\ task[t] = Idle /\ task'[t] = b
      /\ \A x \in Task \ {t} : task'[x] = task[x]
  BY <1>0, <1>1 DEF Begin, VInv, VTypeOK
<1>4. /\ UNCHANGED missed /\ loose \subseteq loose' /\ loose' \in SUBSET User
      /\ u \notin loose' => Undisturbed(u) /\ u \notin loose
  BY <1>0 DEF LooseIf, MTypeOK
<1>5. MTypeOK'
  BY <1>0, <1>3, <1>4, ReqStartOK, VoiceTypes DEF MTypeOK
<1>6. \A v \in User \ {u} : Untouched(v)
  BY <1>0, <1>1, <1>3, <1>4, OthersUnheard
<1>7. ASSUME u \notin loose' PROVE Accounted(u)'
  <2>1. InFlight(u) = {} /\ Mine(u) = {} /\ AtRest(u)
    BY <1>0, <1>4, <1>7, RestsNow DEF MInv
  <2>2. AtTask(u, task[t])'
    BY <1>1, <1>3, <1>4, <2>1
       DEF AtTask, AtRest, NotBoth, VoiceOK, Where, ToldWhere
  <2> QED
    BY <1>0, <1>2, <1>3, <2>1, <2>2, TaskGoesOn
<1> QED
  BY <1>0, <1>4, <1>5, <1>6, <1>7, OneUser

-----------------------------------------------------------------------------
(* The quiet steps: nothing is announced, but a row may be written.        *)
LEMMA QuietFrame ==
    ASSUME MInv, NEW t \in Req, ReqQuiet(t), NEW u \in User,
           task[t] # Idle, u = task[t].user,
           LooseIf(u, Broken(t)), UNCHANGED <<shown, bans, invite, mreq>>,
           task'[t] = Idle \/ task'[t].user = u,
           \A x \in Task \ {t} : task'[x] = task[x],
           UNCHANGED members, \A v \in User \ {u} : voice'[v] = voice[v],
           u \notin loose /\ ~Broken(t) =>
              \/ task'[t] = Idle /\ AtRest(u)'
              \/ task'[t] # Idle /\ AtTask(u, task[t])'
    PROVE  MInv'
<1>0. MTypeOK /\ VInv
  BY DEF MInv, MTypeOK
<1>1. /\ UNCHANGED missed /\ loose \subseteq loose' /\ loose' \in SUBSET User
      /\ u \notin loose' => u \notin loose /\ ~Broken(t)
  BY <1>0 DEF LooseIf, MTypeOK
<1>2. MTypeOK'
  BY <1>0, <1>1, ReqQuietOK, VoiceTypes DEF MTypeOK
<1>3. \A v \in User \ {u} : Untouched(v)
  BY <1>1, OthersUnheard
<1>4. ASSUME u \notin loose' PROVE Accounted(u)'
  <2>1. InFlight(u) = {t} /\ Mine(u) = {}
    BY <1>1, <1>4, OnlyTask
  <2> QED
    BY <1>1, <1>4, <2>1, TaskGoesOn
<1> QED
  BY <1>1, <1>2, <1>3, <1>4, OneUser

LEMMA TaskType ==
    ASSUME MInv, NEW t \in Req, task[t].at \in Carrying
    PROVE  /\ task[t] # Idle /\ task[t] \in Busy /\ task[t].row \in Row
           /\ task[t].user \in User /\ ServerOf[task[t].row.ch] \in Server
           /\ t \in Task /\ VInv /\ task[t].row # NoRow
           /\ voice[task[t].user] \in Row \cup {NoRow}
           /\ voice[task[t].user] # NoRow => ServerOf[voice[task[t].user].ch] \in Server
<1>1. VInv /\ t \in Task
  BY DEF MInv, MTypeOK, Task
<1>2. task[t] # Idle /\ task[t] \in Busy /\ task[t].row \in Row
  BY <1>1, BusyAt DEF VInv, Carries, Carrying
<1>3. task[t].user \in User /\ voice[task[t].user] \in Row \cup {NoRow}
  BY <1>1, <1>2 DEF Busy, VInv, VTypeOK
<1> QED
  BY <1>1, <1>2, <1>3, VoiceAssumption, NoRowAssumption DEF Row

LEMMA JoinPriorOK ==
    ASSUME MInv, NEW t \in Req, JoinPrior(t),
           LooseIf(task[t].user, Broken(t)), UNCHANGED <<shown, bans, invite, mreq>>
    PROVE  MInv'
<1>1. PICK u \in User : u = task[t].user
  BY TaskType DEF JoinPrior, Carrying, Steps
<1>2. /\ task[t] # Idle /\ task[t] \in Busy /\ task[t].row \in Row /\ VInv /\ t \in Task
      /\ ServerOf[task[t].row.ch] \in Server /\ task[t].at = "join_prior"
      /\ voice[u] # NoRow => ServerOf[voice[u].ch] \in Server
  BY <1>1, TaskType DEF JoinPrior, Carrying, Steps
<1> DEFINE found == IF voice[u] = NoRow THEN NoServer ELSE ServerOf[voice[u].ch]
<1>3. PICK p \in (IF Reliable THEN {found} ELSE {found, NoServer}) :
         task' = [task EXCEPT ![t].at = "join_upsert", ![t].prior = p]
  BY <1>1 DEF JoinPrior
<1> DEFINE a == [task[t] EXCEPT !.at = "join_upsert"]
           b == [a EXCEPT !.prior = p]
<1>4. task' = [task EXCEPT ![t] = b]
  BY <1>2, <1>3, Zenon DEF VInv, VTypeOK
<1>5. DOMAIN a = {"at", "user", "row", "prior"} /\ a.at = "join_upsert"
      /\ a.user = u /\ a.row = task[t].row /\ a \in Busy
  BY <1>1, <1>2 DEF Busy, Steps
<1> HIDE DEF a
<1>6. b.at = "join_upsert" /\ b.user = u /\ b.row = task[t].row /\ b.prior = p
  BY <1>5 DEF Busy
<1> HIDE DEF b
<1>7. /\ task'[t].at = "join_upsert" /\ task'[t].user = u
      /\ task'[t].row = task[t].row /\ task'[t].prior = p
      /\ \A x \in Task \ {t} : task'[x] = task[x]
  BY <1>2, <1>4, <1>6 DEF VInv, VTypeOK
<1>8. task'[t] # Idle /\ UNCHANGED <<members, voice>> /\ UNCHANGED missed
  <2>1. task'[t] # Idle
    BY <1>7 DEF Idle
  <2>2. UNCHANGED <<members, voice>>
    BY DEF JoinPrior
  <2> QED
    BY <2>1, <2>2 DEF LooseIf
<1>9. ASSUME u \notin loose, ~Broken(t) PROVE AtTask(u, task[t])'
  <2>1. AtTask(u, task[t])
    BY <1>1, <1>2, <1>9, OnlyTask
  <2>2. p = found
    BY <1>1, <1>2, <1>3, <1>7, <1>9 DEF Broken
  <2>3. Earlier(task[t])' = Where(u)
    BY <1>2, <1>7, <2>2, VoiceAssumption DEF Earlier, Where
  <2>4. Where(u)' = Where(u) /\ ToldWhere(u)' = ToldWhere(u)
    BY <1>8 DEF Where, ToldWhere
  <2> QED
    BY <1>2, <1>7, <1>8, <2>1, <2>3, <2>4 DEF AtTask, NotBoth, VoiceOK
<1> QED
  BY <1>1, <1>2, <1>7, <1>8, <1>9, QuietFrame DEF ReqQuiet

LEMMA JoinUpsertOK ==
    ASSUME MInv, NEW t \in Req, JoinUpsert(t),
           LooseIf(task[t].user, Broken(t)), UNCHANGED <<shown, bans, invite, mreq>>
    PROVE  MInv'
<1>1. PICK u \in User : u = task[t].user
  BY TaskType DEF JoinUpsert, Carrying, Steps
<1>2. /\ task[t] # Idle /\ task[t].row \in Row /\ VInv /\ task[t].row # NoRow
      /\ ServerOf[task[t].row.ch] \in Server /\ task[t].at = "join_upsert"
  BY <1>1, TaskType DEF JoinUpsert, Carrying, Steps
<1>3. /\ task'[t] # Idle /\ task'[t].at = "join_announce" /\ task'[t].user = u
      /\ task'[t].row = task[t].row /\ task'[t].prior = task[t].prior
      /\ \A x \in Task \ {t} : task'[x] = task[x]
  BY <1>1, <1>2, TaskMoves DEF JoinUpsert, Steps
<1>4. /\ UNCHANGED <<members, missed>> /\ voice'[u] = task[t].row
      /\ \A v \in User \ {u} : voice'[v] = voice[v]
  BY <1>1, <1>2 DEF JoinUpsert, LooseIf, VInv, VTypeOK
<1>5. ASSUME u \notin loose PROVE AtTask(u, task[t])'
  <2>1. AtTask(u, task[t])
    BY <1>1, <1>2, <1>5, OnlyTask
  <2>2. Earlier(task[t])' = Earlier(task[t]) /\ ToldWhere(u)' = ToldWhere(u)
    BY <1>3 DEF Earlier, ToldWhere
  <2> QED
    BY <1>2, <1>3, <1>4, <2>1, <2>2 DEF AtTask, NotBoth, VoiceOK
<1> QED
  BY <1>1, <1>2, <1>3, <1>4, <1>5, QuietFrame DEF ReqQuiet

LEMMA LeaveDeleteOK ==
    ASSUME MInv, NEW t \in Req, LeaveDelete(t),
           LooseIf(task[t].user, Broken(t)), UNCHANGED <<shown, bans, invite, mreq>>
    PROVE  MInv'
<1>1. PICK u \in User : u = task[t].user
  BY TaskType DEF LeaveDelete, Carrying, Steps
<1>2. /\ task[t] # Idle /\ task[t].row \in Row /\ VInv
      /\ ServerOf[task[t].row.ch] \in Server /\ task[t].at = "leave_delete"
  BY <1>1, TaskType DEF LeaveDelete, Carrying, Steps
<1>3. UNCHANGED <<members, missed>>
  BY DEF LeaveDelete, LooseIf
<1>4. CASE InChannel(u, task[t].row.ch)
  <2>1. Goto(t, "leave_announce") /\ voice' = [voice EXCEPT ![u] = NoRow]
    BY <1>1, <1>4 DEF LeaveDelete
  <2>2. /\ task'[t] # Idle /\ task'[t].at = "leave_announce" /\ task'[t].user = u
        /\ task'[t].row = task[t].row
        /\ \A x \in Task \ {t} : task'[x] = task[x]
    BY <1>1, <1>2, <2>1, TaskMoves DEF Steps
  <2>3. voice'[u] = NoRow /\ \A v \in User \ {u} : voice'[v] = voice[v]
    BY <1>2, <2>1 DEF VInv, VTypeOK
  <2>4. ASSUME u \notin loose PROVE AtTask(u, task[t])'
    <3>1. AtTask(u, task[t])
      BY <1>1, <1>2, <2>4, OnlyTask
    <3>2. Where(u) = {ServerOf[task[t].row.ch]} /\ ToldWhere(u)' = ToldWhere(u)
      BY <1>4 DEF InChannel, Where, ToldWhere
    <3> QED
      BY <1>2, <1>3, <2>2, <2>3, <3>1, <3>2 DEF AtTask, NotBoth, VoiceOK
  <2> QED
    BY <1>1, <1>2, <1>3, <2>2, <2>3, <2>4, QuietFrame DEF ReqQuiet
<1>5. CASE ~InChannel(u, task[t].row.ch)
  <2>1. UNCHANGED voice /\ task'[t] = Idle /\ \A x \in Task \ {t} : task'[x] = task[x]
    BY <1>1, <1>2, <1>5, TaskEnds DEF LeaveDelete
  <2>2. ASSUME u \notin loose PROVE AtRest(u)'
    <3>1. AtTask(u, task[t])
      BY <1>1, <1>2, <2>2, OnlyTask
    <3> QED
      BY <1>2, <1>3, <2>1, <3>1
         DEF AtTask, AtRest, NotBoth, VoiceOK, Where, ToldWhere
  <2> QED
    BY <1>1, <1>2, <1>3, <2>1, <2>2, QuietFrame DEF ReqQuiet
<1> QED
  BY <1>4, <1>5

LEMMA UpdateWriteOK ==
    ASSUME MInv, NEW t \in Req, UpdateWrite(t),
           LooseIf(task[t].user, Broken(t)), UNCHANGED <<shown, bans, invite, mreq>>
    PROVE  MInv'
<1>1. PICK u \in User : u = task[t].user
  BY TaskType DEF UpdateWrite, Carrying, Steps
<1>2. /\ task[t] # Idle /\ task[t].row \in Row /\ VInv /\ task[t].row # NoRow
      /\ ServerOf[task[t].row.ch] \in Server /\ task[t].at = "update_write"
  BY <1>1, TaskType DEF UpdateWrite, Carrying, Steps
<1>3. UNCHANGED <<members, missed>>
  BY DEF UpdateWrite, LooseIf
<1>4. CASE InChannel(u, task[t].row.ch)
  <2>1. Goto(t, "update_announce") /\ voice' = [voice EXCEPT ![u] = task[t].row]
    BY <1>1, <1>4 DEF UpdateWrite
  <2>2. /\ task'[t] # Idle /\ task'[t].at = "update_announce" /\ task'[t].user = u
        /\ task'[t].row = task[t].row
        /\ \A x \in Task \ {t} : task'[x] = task[x]
    BY <1>1, <1>2, <2>1, TaskMoves DEF Steps
  <2>3. voice'[u] = task[t].row /\ \A v \in User \ {u} : voice'[v] = voice[v]
    BY <1>2, <2>1 DEF VInv, VTypeOK
  <2>4. ASSUME u \notin loose PROVE AtTask(u, task[t])'
    <3>1. AtTask(u, task[t])
      BY <1>1, <1>2, <2>4, OnlyTask
    <3>2. Where(u)' = Where(u) /\ ToldWhere(u)' = ToldWhere(u)
      BY <1>2, <1>4, <2>3 DEF InChannel, Where, ToldWhere
    <3>3. VoiceOK(u)'
      BY <1>3, <1>4, <2>3, <3>1 DEF AtTask, VoiceOK, InChannel
    <3> QED
      BY <1>2, <1>3, <2>2, <2>3, <3>1, <3>2, <3>3 DEF AtTask, NotBoth
  <2> QED
    BY <1>1, <1>2, <1>3, <2>2, <2>3, <2>4, QuietFrame DEF ReqQuiet
<1>5. CASE ~InChannel(u, task[t].row.ch)
  <2>1. UNCHANGED voice /\ task'[t] = Idle /\ \A x \in Task \ {t} : task'[x] = task[x]
    BY <1>1, <1>2, <1>5, TaskEnds DEF UpdateWrite
  <2>2. ASSUME u \notin loose PROVE AtRest(u)'
    <3>1. AtTask(u, task[t])
      BY <1>1, <1>2, <2>2, OnlyTask
    <3> QED
      BY <1>2, <1>3, <2>1, <3>1
         DEF AtTask, AtRest, NotBoth, VoiceOK, Where, ToldWhere
  <2> QED
    BY <1>1, <1>2, <1>3, <2>1, <2>2, QuietFrame DEF ReqQuiet
<1> QED
  BY <1>4, <1>5

LEMMA DropOK ==
    ASSUME MInv, NEW t \in Req, Drop(t),
           LooseIf(task[t].user, Broken(t)), UNCHANGED <<shown, bans, invite, mreq>>
    PROVE  MInv'
<1>1. VInv /\ task[t] \in Busy /\ task[t] # Idle
  BY DEF MInv, MTypeOK, VInv, VTypeOK, Drop, Task
<1>2. PICK u \in User : u = task[t].user
  BY <1>1 DEF Busy
<1>3. task'[t] = Idle /\ \A x \in Task \ {t} : task'[x] = task[x]
  BY <1>1, TaskEnds DEF Drop
<1>4. Broken(t) /\ UNCHANGED <<members, voice>>
  BY <1>3 DEF Broken, Drop
<1> QED
  BY <1>1, <1>2, <1>3, <1>4, QuietFrame DEF ReqQuiet
-----------------------------------------------------------------------------
(* The announcing steps: the tables stay, one server learns of one user.   *)
LEMMA AnnounceFrame ==
    ASSUME MInv, NEW t \in Req, ReqAnnounce(t), NEW u \in User, NEW s \in Server,
           task[t] # Idle, u = task[t].user,
           \/ shown' = [shown EXCEPT ![s] = @ \cup {u}]
           \/ shown' = [shown EXCEPT ![s] = @ \ {u}],
           UNCHANGED <<members, voice, bans, invite, mreq, ghosts>>,
           task'[t] = Idle \/ task'[t].user = u,
           \A x \in Task \ {t} : task'[x] = task[x],
           u \notin loose => \/ task'[t] = Idle /\ AtRest(u)'
                             \/ task'[t] # Idle /\ AtTask(u, task[t])'
    PROVE  MInv'
<1>0. MTypeOK /\ VInv
  BY DEF MInv, MTypeOK
<1>1. /\ \A v \in User \ {u}, z \in Server : v \in shown'[z] <=> v \in shown[z]
      /\ shown' \in [Server -> SUBSET User]
  BY <1>0, ToldGone, ToldThere
<1>2. MTypeOK'
  BY <1>0, <1>1, ReqAnnounceOK, VoiceTypes DEF MTypeOK, ghosts
<1>3. \A v \in User \ {u} : Untouched(v)
  BY <1>1, OthersUnheard DEF ghosts
<1>4. ASSUME u \notin loose' PROVE Accounted(u)'
  <2>1. InFlight(u) = {t} /\ Mine(u) = {}
    BY <1>4, OnlyTask DEF ghosts
  <2> QED
    BY <1>4, <2>1, TaskGoesOn DEF ghosts
<1> QED
  BY <1>2, <1>3, <1>4, OneUser DEF ghosts

(* A join is announced where the user is now, and then where the user was. *)
LEMMA JoinAnnounceOK ==
    ASSUME MInv, NEW t \in Req, JoinAnnounce(t), AnnounceVoice(t),
           UNCHANGED <<bans, invite, mreq, ghosts>>
    PROVE  MInv'
<1>1. PICK u \in User : u = task[t].user
  BY TaskType DEF JoinAnnounce, Carrying, Steps
<1>2. PICK s \in Server : s = ServerOf[task[t].row.ch]
  BY TaskType DEF JoinAnnounce, Carrying, Steps
<1>3. /\ task[t] # Idle /\ task[t] \in Busy /\ task[t].row \in Row /\ VInv
      /\ task[t].row # NoRow /\ task[t].at = "join_announce"
  BY <1>1, TaskType DEF JoinAnnounce, Carrying, Steps
<1>4. shown' = [shown EXCEPT ![s] = @ \cup {u}]
  BY <1>1, <1>2, <1>3 DEF AnnounceVoice, Announced
<1>5. ToldWhere(u)' = ToldWhere(u) \cup {s}
  BY <1>4, ToldThere DEF MInv
<1>6. UNCHANGED <<members, voice>>
  BY DEF JoinAnnounce
<1>7. CASE task[t].prior \in {NoServer, s}
  <2>1. task'[t] = Idle /\ \A x \in Task \ {t} : task'[x] = task[x]
    BY <1>2, <1>3, <1>7, TaskEnds DEF JoinAnnounce
  <2>2. ASSUME u \notin loose PROVE AtRest(u)'
    <3>1. AtTask(u, task[t])
      BY <1>1, <1>3, <2>2, OnlyTask
    <3>2. Where(u)' = {s}
      BY <1>2, <1>3, <1>6, <3>1 DEF AtTask, Where
    <3>3. u \notin missed => ToldWhere(u)' = {s}
      BY <1>3, <1>5, <1>7, <3>1 DEF AtTask, Earlier
    <3> QED
      BY <1>6, <3>1, <3>2, <3>3 DEF AtTask, AtRest, NotBoth, VoiceOK, ghosts
  <2> QED
    BY <1>1, <1>3, <1>4, <1>6, <2>1, <2>2, AnnounceFrame DEF ReqAnnounce
<1>8. CASE task[t].prior \notin {NoServer, s}
  <2>1. Goto(t, "join_leave_old")
    BY <1>2, <1>8 DEF JoinAnnounce
  <2>2. /\ task'[t] # Idle /\ task'[t].at = "join_leave_old" /\ task'[t].user = u
        /\ task'[t].row = task[t].row /\ task'[t].prior = task[t].prior
        /\ \A x \in Task \ {t} : task'[x] = task[x]
    BY <1>1, <1>3, <2>1, TaskMoves DEF Steps
  <2>3. ASSUME u \notin loose PROVE AtTask(u, task[t])'
    <3>1. AtTask(u, task[t])
      BY <1>1, <1>3, <2>3, OnlyTask
    <3>2. u \notin missed => ToldWhere(u)' = {s, task[t].prior}
      BY <1>3, <1>5, <1>8, <3>1 DEF AtTask, Earlier
    <3> QED
      BY <1>2, <1>3, <1>6, <1>8, <2>2, <3>1, <3>2
         DEF AtTask, NotBoth, VoiceOK, ghosts
  <2> QED
    BY <1>1, <1>3, <1>4, <1>6, <2>2, <2>3, AnnounceFrame DEF ReqAnnounce
<1> QED
  BY <1>7, <1>8

LEMMA JoinLeaveOldOK ==
    ASSUME MInv, NEW t \in Req, JoinLeaveOld(t), AnnounceVoice(t),
           UNCHANGED <<bans, invite, mreq, ghosts>>
    PROVE  MInv'
<1>1. PICK u \in User : u = task[t].user
  BY TaskType DEF JoinLeaveOld, Carrying, Steps
<1>2. /\ task[t] # Idle /\ task[t] \in Busy /\ task[t].row \in Row /\ VInv /\ t \in Task
      /\ task[t].row # NoRow /\ task[t].at = "join_leave_old"
  BY <1>1, TaskType DEF JoinLeaveOld, Carrying, Steps
<1>3. PICK s \in Server : s = task[t].prior
  BY <1>2 DEF VInv, Carries
<1>4. shown' = [shown EXCEPT ![s] = @ \ {u}]
  BY <1>1, <1>2, <1>3 DEF AnnounceVoice, Announced
<1>5. ToldWhere(u)' = ToldWhere(u) \ {s}
  BY <1>4, ToldGone DEF MInv
<1>6. UNCHANGED <<members, voice>>
  BY DEF JoinLeaveOld
<1>7. task'[t] = Idle /\ \A x \in Task \ {t} : task'[x] = task[x]
  BY <1>2, TaskEnds DEF JoinLeaveOld
<1>8. ASSUME u \notin loose PROVE AtRest(u)'
  <2>1. AtTask(u, task[t])
    BY <1>1, <1>2, <1>8, OnlyTask
  <2>2. Where(u)' = {ServerOf[task[t].row.ch]}
    BY <1>2, <1>6, <2>1 DEF AtTask, Where
  <2>3. u \notin missed => ToldWhere(u)' = {ServerOf[task[t].row.ch]}
    BY <1>2, <1>3, <1>5, <2>1 DEF AtTask
  <2> QED
    BY <1>6, <2>1, <2>2, <2>3 DEF AtTask, AtRest, NotBoth, VoiceOK, ghosts
<1> QED
  BY <1>1, <1>2, <1>4, <1>6, <1>7, <1>8, AnnounceFrame DEF ReqAnnounce

LEMMA LeaveAnnounceOK ==
    ASSUME MInv, NEW t \in Req, LeaveAnnounce(t), AnnounceVoice(t),
           UNCHANGED <<bans, invite, mreq, ghosts>>
    PROVE  MInv'
<1>1. PICK u \in User : u = task[t].user
  BY TaskType DEF LeaveAnnounce, Carrying, Steps
<1>2. /\ task[t] # Idle /\ VInv /\ task[t].at = "leave_announce"
  BY <1>1, TaskType DEF LeaveAnnounce, Carrying, Steps
<1>3. PICK s \in Server : s = ServerOf[task[t].row.ch]
  BY TaskType DEF LeaveAnnounce, Carrying, Steps
<1>4. shown' = [shown EXCEPT ![s] = @ \ {u}]
  BY <1>1, <1>2, <1>3 DEF AnnounceVoice, Announced
<1>5. ToldWhere(u)' = ToldWhere(u) \ {s}
  BY <1>4, ToldGone DEF MInv
<1>6. UNCHANGED <<members, voice>>
  BY DEF LeaveAnnounce
<1>7. task'[t] = Idle /\ \A x \in Task \ {t} : task'[x] = task[x]
  BY <1>2, TaskEnds DEF LeaveAnnounce
<1>8. ASSUME u \notin loose PROVE AtRest(u)'
  <2>1. AtTask(u, task[t])
    BY <1>1, <1>2, <1>8, OnlyTask
  <2>2. Where(u)' = {}
    BY <1>2, <1>6, <2>1 DEF AtTask, Where
  <2>3. u \notin missed => ToldWhere(u)' = {}
    BY <1>2, <1>3, <1>5, <2>1 DEF AtTask
  <2> QED
    BY <1>6, <2>1, <2>2, <2>3 DEF AtTask, AtRest, NotBoth, VoiceOK, ghosts
<1> QED
  BY <1>1, <1>2, <1>4, <1>6, <1>7, <1>8, AnnounceFrame DEF ReqAnnounce

LEMMA UpdateAnnounceOK ==
    ASSUME MInv, NEW t \in Req, UpdateAnnounce(t), AnnounceVoice(t),
           UNCHANGED <<bans, invite, mreq, ghosts>>
    PROVE  MInv'
<1>1. PICK u \in User : u = task[t].user
  BY TaskType DEF UpdateAnnounce, Carrying, Steps
<1>2. /\ task[t] # Idle /\ VInv /\ task[t].row # NoRow
      /\ task[t].at = "update_announce"
  BY <1>1, TaskType DEF UpdateAnnounce, Carrying, Steps
<1>3. PICK s \in Server : s = ServerOf[task[t].row.ch]
  BY TaskType DEF UpdateAnnounce, Carrying, Steps
<1>4. shown' = [shown EXCEPT ![s] = @ \cup {u}]
  BY <1>1, <1>2, <1>3 DEF AnnounceVoice, Announced
<1>5. ToldWhere(u)' = ToldWhere(u) \cup {s}
  BY <1>4, ToldThere DEF MInv
<1>6. UNCHANGED <<members, voice>>
  BY DEF UpdateAnnounce
<1>7. task'[t] = Idle /\ \A x \in Task \ {t} : task'[x] = task[x]
  BY <1>2, TaskEnds DEF UpdateAnnounce
<1>8. ASSUME u \notin loose PROVE AtRest(u)'
  <2>1. AtTask(u, task[t])
    BY <1>1, <1>2, <1>8, OnlyTask
  <2>2. Where(u) = {s} /\ Where(u)' = {s}
    BY <1>2, <1>3, <1>6, <2>1 DEF AtTask, Where
  <2>3. u \notin missed => ToldWhere(u)' = {s}
    BY <1>2, <1>5, <2>1, <2>2 DEF AtTask
  <2> QED
    BY <1>6, <2>1, <2>2, <2>3 DEF AtTask, AtRest, NotBoth, VoiceOK, ghosts
<1> QED
  BY <1>1, <1>2, <1>4, <1>6, <1>7, <1>8, AnnounceFrame DEF ReqAnnounce

-----------------------------------------------------------------------------
(* Every step of a voice request, of a membership request and of neither.  *)
LEMMA VoiceOKs ==
    ASSUME MInv, NEW t \in Req, Voice(t)
    PROVE  MInv'
<1>1. CASE \E u \in Subject : LooseIf(u, ~Undisturbed(u)) /\ ReqStart(t, u)
           /\ UNCHANGED shown
  BY <1>1, VoiceStarts DEF Voice
<1>2. CASE ReqQuiet(t) /\ UNCHANGED shown /\ LooseIf(task[t].user, Broken(t))
  <2>1. UNCHANGED <<shown, bans, invite, mreq>>
    BY <1>2 DEF Voice
  <2> QED
    BY <1>2, <2>1, JoinPriorOK, JoinUpsertOK, LeaveDeleteOK, UpdateWriteOK, DropOK
       DEF ReqQuiet
<1>3. CASE ReqAnnounce(t) /\ AnnounceVoice(t) /\ UNCHANGED ghosts
  <2>1. UNCHANGED <<bans, invite, mreq, ghosts>>
    BY <1>3 DEF Voice
  <2> QED
    BY <1>3, <2>1, JoinAnnounceOK, JoinLeaveOldOK, LeaveAnnounceOK, UpdateAnnounceOK
       DEF ReqAnnounce
<1> QED
  BY <1>1, <1>2, <1>3 DEF Voice

LEMMA ProceedsOK ==
    ASSUME MInv, NEW q \in MReq, Proceeds(q)
    PROVE  MInv'
  BY CheckOK, AdmitOK, DropVoiceOK, AnnounceDropOK, RemoveOK, BanAndRemoveOK,
     AutoBanOK, FailOK DEF Proceeds

LEMMA MStep == MInv /\ [MNext]_mvars => MInv'
<1> SUFFICES ASSUME MInv, [MNext]_mvars PROVE MInv'
  OBVIOUS
<1>1. CASE UNCHANGED mvars
  <2>1. MTypeOK'
    BY <1>1 DEF MInv, MTypeOK, VInv, VTypeOK, Carries, mvars, vvars, ghosts
  <2>2. \A v \in User : Untouched(v)
    BY <1>1 DEF Untouched, mvars, vvars, ghosts
  <2> QED
    BY <1>1, <2>1, <2>2, StillAccounted DEF MInv, mvars, ghosts
<1>2. CASE MNext
  BY <1>2, BeginsOK, ProceedsOK, AdminOK, VoiceOKs DEF MNext
<1> QED
  BY <1>1, <1>2

LEMMA MStart == MInit => MInv
<1> SUFFICES ASSUME MInit PROVE MInv
  OBVIOUS
<1>1. MTypeOK
  BY TypeInit DEF MInit, MTypeOK, VInit, Task
<1>2. ASSUME NEW u \in User PROVE Accounted(u)
  <2>1. InFlight(u) = {} /\ Mine(u) = {}
    BY DEF MInit, VInit, InFlight, Mine
  <2>2. AtRest(u)
    BY <1>2 DEF MInit, VInit, AtRest, NotBoth, VoiceOK, Where, ToldWhere
  <2> QED
    BY <2>1, <2>2 DEF Accounted
<1> QED
  BY <1>1, <1>2 DEF MInv

LEMMA MAlways == MSpec => []MInv
  BY MStart, MStep, PTL DEF MSpec

(* What the account says of a user about whom nothing is under way.        *)
LEMMA OrderlyRest ==
    ASSUME MInv, NEW u \in Orderly
    PROVE  AtRest(u)
<1>1. u \in User \ loose /\ Undisturbed(u)
  BY DEF Orderly
<1> QED
  BY <1>1, RestsNow DEF MInv

-----------------------------------------------------------------------------
(* A banned user is no member once the requests about the user have ended, *)
(* if they came one at a time: joins look for a ban first, bans remove the *)
(* membership, and auto-moderation removes the member it has banned.       *)
THEOREM BanHolds == MSpec => []BannedNotMember
<1>1. MInv => BannedNotMember
  BY OrderlyRest DEF BannedNotMember, AtRest, NotBoth, Orderly
<1> QED
  BY <1>1, MAlways, PTL

(* Nobody is in voice in a server without being its member: kick and ban   *)
(* delete the voice state before the membership.                           *)
THEOREM VoiceOfMembers == MSpec => []VoiceNeedsMembership
<1>1. MInv => VoiceNeedsMembership
  BY OrderlyRest DEF VoiceNeedsMembership, AtRest, VoiceOK, Orderly
<1> QED
  BY <1>1, MAlways, PTL

(* The members of every server were last told the truth about who is in    *)
(* voice, but for users removed from voice by a kick or ban elsewhere.     *)
THEOREM ToldTheTruth == MSpec => []ShownAgrees
<1>1. MInv => ShownAgrees
  BY OrderlyRest DEF ShownAgrees, AtRest
<1> QED
  BY <1>1, MAlways, PTL
-----------------------------------------------------------------------------
(* Only the transaction of the request itself both changes the members and *)
(* ends a request that stands before it.                                   *)
LEMMA WhoAdmits ==
    ASSUME MInv, [MNext]_mvars, NEW q \in MReq, At(q, "admit"), mreq'[q] = Idle
    PROVE  Admit(q) \/ UNCHANGED members
<1>0. MTypeOK /\ mreq[q] # Idle /\ mreq[q].at = "admit"
  BY AtType DEF MInv, At
<1>1. CASE UNCHANGED mvars \/ \E s \in Server : InviteEnds(s)
  BY <1>1 DEF mvars, vvars, InviteEnds
<1>2. CASE \E u \in Subject, s \in Server : Unban(u, s)
  BY <1>2 DEF Unban, vvars
<1>3. CASE \E t \in Req : Voice(t)
  BY <1>0, <1>3 DEF Voice
<1>4. CASE \E p \in MReq, u \in Subject, s \in Server : Begins(p, u, s)
  BY <1>4 DEF Begins, JoinServer, AcceptInvite, LeaveServer, Kick, Ban,
              AutoModerate, Open, vvars
<1>5. ASSUME NEW p \in MReq, Proceeds(p) PROVE Admit(q) \/ UNCHANGED members
  <2>1. CASE p = q
    BY <1>0, <1>5, <2>1
       DEF Proceeds, CheckBan, CheckMember, DropVoice, AnnounceDrop, Remove,
           BanAndRemove, AutoBan, Fail, At, vvars
  <2>2. CASE p # q
    <3>1. mreq'[q] = mreq[q]
      BY <1>0, <1>5, <2>2
         DEF Proceeds, CheckBan, CheckMember, Admit, DropVoice, AnnounceDrop,
             Remove, BanAndRemove, AutoBan, Fail, Goes, Close, MTypeOK
    <3> QED
      BY <1>0, <3>1
  <2> QED
    BY <2>1, <2>2
<1> QED
  BY <1>1, <1>2, <1>3, <1>4, <1>5 DEF MNext

(* An invite admits a user only while it is good and has a use left, and   *)
(* counts the user: however many requests accept it at once, it never      *)
(* admits more than max_uses.                                              *)
THEOREM InviteCounted == MSpec => InviteSpent
<1>1. ASSUME MInv, [MNext]_mvars, NEW q \in MReq, At(q, "admit"),
             mreq[q].kind = "accept", mreq'[q] = Idle,
             members'[mreq[q].server] # members[mreq[q].server]
      PROVE  /\ invite[mreq[q].server].valid
             /\ invite'[mreq[q].server].uses = invite[mreq[q].server].uses + 1
             /\ invite'[mreq[q].server].uses <= MaxUses
  <2>0. MTypeOK
    BY <1>1 DEF MInv
  <2>1. PICK s \in Server : s = mreq[q].server
    BY <1>1, <2>0, AtType DEF MBusy
  <2>2. Admit(q)
    BY <1>1, WhoAdmits
  <2>3. /\ Usable(s) /\ invite' = [invite EXCEPT ![s].uses = @ + 1]
    BY <1>1, <2>1, <2>2 DEF Admit
  <2>4. invite[s] \in [uses : Nat, valid : BOOLEAN]
    BY <2>0 DEF MTypeOK
  <2>5. invite'[s].uses = invite[s].uses + 1
    BY <2>0, <2>3, <2>4 DEF MTypeOK
  <2> QED
    BY <2>1, <2>3, <2>4, <2>5, MembershipAssumption DEF Usable
<1>2. MInv /\ [MNext]_mvars =>
        [\A q \in MReq : At(q, "admit") /\ mreq[q].kind = "accept" =>
          LET s == mreq[q].server
          IN members'[s] # members[s] /\ mreq'[q] = Idle =>
                /\ invite[s].valid
                /\ invite'[s].uses = invite[s].uses + 1
                /\ invite'[s].uses <= MaxUses]_mvars
  BY <1>1
<1> QED
  BY <1>2, MAlways, PTL DEF MSpec, InviteSpent
=============================================================================
