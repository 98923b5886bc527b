------------------------- MODULE VoiceStates_proofs -------------------------
(***************************************************************************)
(* Proofs about VoiceStates, for any users, channels, servers, requests    *)
(* and sessions, whether or not tasks of a user overlap and queries fail.  *)
(*                                                                         *)
(* VTypeOK alone is not inductive enough: a task writes the row it         *)
(* carries, so one has to know which tasks carry a row at all.             *)
(***************************************************************************)
EXTENDS VoiceStates, TLAPS

(* The steps at which a task carries a row, not NoRow.                     *)
Carrying == Steps \ {"clean_select"}

(* A task carries a row wherever it is going to use one, and a join that   *)
(* still has to announce a leave knows the server to announce it to.       *)
Carries == \A t \in Task :
    /\ task[t].at \in Carrying => task[t].row \in Row
    /\ task[t].at = "join_leave_old" => task[t].prior \in Server

VInv == VTypeOK /\ Carries

-----------------------------------------------------------------------------
(* A task that stands at a step is busy.                                   *)
LEMMA BusyAt ==
    ASSUME VTypeOK, NEW t \in Task, task[t].at \in Steps
    PROVE  task[t] \in Busy /\ task[t] # Idle /\ t \in InFlight(task[t].user)
<1>1. Idle.at = "idle" /\ "idle" \notin Steps
  BY DEF Idle, Steps
<1>2. task[t] \in Busy \cup {Idle}
  BY DEF VTypeOK
<1> QED
  BY <1>1, <1>2 DEF InFlight

(* The tables are well typed at first and no task is busy.                 *)
LEMMA TypeInit == VInit => VInv
<1> SUFFICES ASSUME VInit PROVE VInv
  OBVIOUS
<1>1. VTypeOK
  BY DEF VInit, VTypeOK
<1>2. Carries
  BY DEF VInit, Carries, Carrying, Idle, Steps
<1> QED
  BY <1>1, <1>2 DEF VInv

(* The form that all steps of a request and of a clean-up take: one task   *)
(* changes, and it ends or stands at a step with what it needs.            *)
LEMMA OneTask ==
    ASSUME VInv, NEW t \in Task, NEW b,
           task' = [task EXCEPT ![t] = b],
           b \in Busy \cup {Idle},
           b.at \in Carrying => b.row \in Row,
           b.at = "join_leave_old" => b.prior \in Server
    PROVE  /\ task' \in [Task -> Busy \cup {Idle}]
           /\ Carries'
  BY DEF VInv, VTypeOK, Carries

(* Beginning, going on and ending keep the tasks well typed.               *)
LEMMA BeginOK ==
    ASSUME VInv, NEW t \in Task, NEW u \in User, NEW step \in Steps,
           NEW row \in Row, step # "join_leave_old", Begin(t, step, u, row)
    PROVE  task' \in [Task -> Busy \cup {Idle}] /\ Carries'
<1> DEFINE b == [at |-> step, user |-> u, row |-> row, prior |-> NoServer]
<1>1. b \in Busy /\ b.row \in Row /\ b.at # "join_leave_old"
  BY DEF Busy
<1>2. task' = [task EXCEPT ![t] = b]
  BY DEF Begin
<1> HIDE DEF b
<1> QED
  BY <1>1, <1>2, OneTask

(* A task that carries a row carries it on.                                *)
LEMMA GotoOK ==
    ASSUME VInv, NEW t \in Task, NEW step \in Carrying,
           task[t].at \in Carrying,
           step = "join_leave_old" => task[t].prior \in Server,
           Goto(t, step)
    PROVE  task' \in [Task -> Busy \cup {Idle}] /\ Carries'
<1> DEFINE b == [task[t] EXCEPT !.at = step]
<1>1. task[t] \in Busy /\ task[t].row \in Row
  BY BusyAt DEF VInv, Carries, Carrying
<1>2. b \in Busy /\ b.at = step /\ b.row = task[t].row /\ b.prior = task[t].prior
  BY <1>1 DEF Busy, Carrying
<1>3. task' = [task EXCEPT ![t] = b]
  BY DEF Goto
<1> HIDE DEF b
<1> QED
  BY <1>1, <1>2, <1>3, OneTask

(* A task that ends carries nothing.                                       *)
LEMMA EndOK ==
    ASSUME VInv, NEW t \in Task, End(t)
    PROVE  task' \in [Task -> Busy \cup {Idle}] /\ Carries'
<1>1. Idle.at \notin Carrying /\ Idle.at # "join_leave_old"
  BY DEF Idle, Carrying, Steps
<1>2. task' = [task EXCEPT ![t] = Idle]
  BY DEF End
<1> QED
  BY <1>1, <1>2, OneTask

-----------------------------------------------------------------------------
(* A step changes voice, if at all, at one user: the row that a task       *)
(* carries is written, or the user's row is removed.                       *)
LEMMA VoiceStep ==
    ASSUME VInv, NEW u \in User, NEW row \in Row \cup {NoRow},
           voice' = [voice EXCEPT ![u] = row] \/ UNCHANGED voice
    PROVE  voice' \in [User -> Row \cup {NoRow}]
  BY DEF VInv, VTypeOK

(* Requests and clean-ups, the announcing steps included, preserve VInv.   *)
LEMMA ReqStartOK ==
    ASSUME VInv, NEW t \in Req, NEW u \in User, ReqStart(t, u)
    PROVE  VInv'
<1>1. PICK ch \in Channel : \/ JoinStart(t, u, ch)
                            \/ LeaveStart(t, u, ch)
                            \/ \E m \in BOOLEAN : UpdateStart(t, u, ch, m)
  BY DEF ReqStart
<1>2. /\ \E step \in {"join_prior", "leave_delete", "update_write"}, row \in Row :
            Begin(t, step, u, row)
      /\ UNCHANGED <<members, voice>>
  BY <1>1 DEF JoinStart, LeaveStart, UpdateStart, JoinRow, Row
<1>3. task' \in [Task -> Busy \cup {Idle}] /\ Carries'
  BY <1>2, BeginOK DEF Task, Steps
<1> QED
  BY <1>2, <1>3 DEF VInv, VTypeOK

LEMMA ReqQuietOK ==
    ASSUME VInv, NEW t \in Req, ReqQuiet(t)
    PROVE  VInv'
<1>0. t \in Task
  BY DEF Task
<1>1. CASE JoinPrior(t)
  <2>1. task[t] \in Busy /\ task[t].row \in Row
    BY <1>0, <1>1, BusyAt DEF JoinPrior, VInv, Carries, Carrying, Steps
  <2>2. voice[task[t].user] = NoRow \/ ServerOf[voice[task[t].user].ch] \in Server
    BY <2>1, VoiceAssumption DEF VInv, VTypeOK, Busy, Row
  <2>3. PICK p \in Server \cup {NoServer} :
           task' = [task EXCEPT ![t].at = "join_upsert", ![t].prior = p]
    BY <1>1, <2>2 DEF JoinPrior
  <2> DEFINE a == [task[t] EXCEPT !.at = "join_upsert"]
             b == [a EXCEPT !.prior = p]
  <2>4. a \in Busy /\ a.row \in Row /\ a.at = "join_upsert"
    BY <2>1 DEF Busy, Steps
  <2>5. task' = [task EXCEPT ![t] = b]
    BY <1>0, <2>3, Zenon DEF VInv, VTypeOK
  <2> HIDE DEF a
  <2>6. b \in Busy /\ b.row \in Row /\ b.at = "join_upsert"
    BY <2>4 DEF Busy
  <2> HIDE DEF b
  <2>7. task' \in [Task -> Busy \cup {Idle}] /\ Carries'
    BY <1>0, <2>5, <2>6, OneTask
  <2> QED
    BY <1>1, <2>7 DEF JoinPrior, VInv, VTypeOK
<1>2. CASE JoinUpsert(t)
  <2>1. task[t] \in Busy /\ task[t].row \in Row
    BY <1>0, <1>2, BusyAt DEF JoinUpsert, VInv, Carries, Carrying, Steps
  <2>2. task' \in [Task -> Busy \cup {Idle}] /\ Carries'
    BY <1>0, <1>2, GotoOK DEF JoinUpsert, Carrying, Steps
  <2>3. voice' \in [User -> Row \cup {NoRow}]
    BY <1>2, <2>1, VoiceStep DEF JoinUpsert, Busy
  <2> QED
    BY <1>2, <2>2, <2>3 DEF JoinUpsert, VInv, VTypeOK
<1>3. CASE LeaveDelete(t)
  <2>1. task[t] \in Busy
    BY <1>0, <1>3, BusyAt DEF LeaveDelete, VInv, Steps
  <2>2. task' \in [Task -> Busy \cup {Idle}] /\ Carries'
    BY <1>0, <1>3, GotoOK, EndOK DEF LeaveDelete, Carrying, Steps
  <2>3. voice' \in [User -> Row \cup {NoRow}]
    BY <1>3, <2>1, VoiceStep DEF LeaveDelete, Busy
  <2> QED
    BY <1>3, <2>2, <2>3 DEF LeaveDelete, VInv, VTypeOK
<1>4. CASE UpdateWrite(t)
  <2>1. task[t] \in Busy /\ task[t].row \in Row
    BY <1>0, <1>4, BusyAt DEF UpdateWrite, VInv, Carries, Carrying, Steps
  <2>2. task' \in [Task -> Busy \cup {Idle}] /\ Carries'
    BY <1>0, <1>4, GotoOK, EndOK DEF UpdateWrite, Carrying, Steps
  <2>3. voice' \in [User -> Row \cup {NoRow}]
    BY <1>4, <2>1, VoiceStep DEF UpdateWrite, Busy
  <2> QED
    BY <1>4, <2>2, <2>3 DEF UpdateWrite, VInv, VTypeOK
<1>5. CASE Drop(t)
  BY <1>0, <1>5, EndOK DEF Drop, VInv, VTypeOK
<1> QED
  BY <1>1, <1>2, <1>3, <1>4, <1>5 DEF ReqQuiet

LEMMA ReqAnnounceOK ==
    ASSUME VInv, NEW t \in Req, ReqAnnounce(t)
    PROVE  VInv'
<1>0. t \in Task
  BY DEF Task
<1>1. CASE JoinAnnounce(t)
  <2>1. task[t] \in Busy
    BY <1>0, <1>1, BusyAt DEF JoinAnnounce, VInv, Steps
  <2>2. task[t].prior = NoServer \/ task[t].prior \in Server
    BY <2>1 DEF Busy
  <2>3. task' \in [Task -> Busy \cup {Idle}] /\ Carries'
    BY <1>0, <1>1, <2>2, GotoOK, EndOK DEF JoinAnnounce, Carrying, Steps
  <2> QED
    BY <1>1, <2>3 DEF JoinAnnounce, VInv, VTypeOK
<1>2. CASE JoinLeaveOld(t) \/ LeaveAnnounce(t) \/ UpdateAnnounce(t)
  <2>1. End(t) /\ UNCHANGED <<members, voice>>
    BY <1>2 DEF JoinLeaveOld, LeaveAnnounce, UpdateAnnounce
  <2> QED
    BY <1>0, <2>1, EndOK DEF VInv, VTypeOK
<1> QED
  BY <1>1, <1>2 DEF ReqAnnounce

LEMMA CleanOK ==
    ASSUME VInv, NEW c \in Conn, CleanStart(c) \/ CleanQuiet(c) \/ CleanAnnounce(c)
    PROVE  VInv'
<1>0. c \in Task
  BY DEF Task
<1>1. CASE CleanStart(c)
  <2> DEFINE b == [at |-> "clean_select", user |-> UserOf[c],
                   row |-> NoRow, prior |-> NoServer]
  <2>1. b \in Busy /\ b.at \notin Carrying /\ b.at # "join_leave_old"
    BY VoiceAssumption DEF Busy, Steps, Carrying
  <2>2. task' = [task EXCEPT ![c] = b]
    BY <1>1 DEF CleanStart
  <2> HIDE DEF b
  <2>3. task' \in [Task -> Busy \cup {Idle}] /\ Carries'
    BY <1>0, <2>1, <2>2, OneTask
  <2> QED
    BY <1>1, <2>3 DEF CleanStart, VInv, VTypeOK
<1>2. CASE CleanSelect(c)
  <2>1. task[c] \in Busy
    BY <1>0, <1>2, BusyAt DEF CleanSelect, VInv, Steps
  <2>2. CASE End(c)
    BY <1>0, <1>2, <2>2, EndOK DEF CleanSelect, VInv, VTypeOK
  <2>3. CASE ~End(c)
    <3> DEFINE b == [at |-> "clean_delete", user |-> task[c].user,
                     row |-> voice[task[c].user], prior |-> task[c].prior]
    <3>1. voice[task[c].user] \in Row
      BY <1>2, <2>1, <2>3 DEF CleanSelect, VInv, VTypeOK, Busy
    <3>2. b \in Busy /\ b.row \in Row /\ b.at = "clean_delete"
      BY <2>1, <3>1 DEF Busy, Steps
    <3>3. task' = [task EXCEPT ![c] = b]
      BY <1>2, <2>1, <2>3 DEF CleanSelect, Busy
    <3> HIDE DEF b
    <3>4. task' \in [Task -> Busy \cup {Idle}] /\ Carries'
      BY <1>0, <3>2, <3>3, OneTask
    <3> QED
      BY <1>2, <3>4 DEF CleanSelect, VInv, VTypeOK
  <2> QED
    BY <2>2, <2>3
<1>3. CASE CleanDelete(c)
  <2>1. task[c] \in Busy
    BY <1>0, <1>3, BusyAt DEF CleanDelete, VInv, Steps
  <2>2. task' \in [Task -> Busy \cup {Idle}] /\ Carries'
    BY <1>0, <1>3, GotoOK DEF CleanDelete, Carrying, Steps
  <2>3. voice' \in [User -> Row \cup {NoRow}]
    BY <1>3, <2>1, VoiceStep DEF CleanDelete, Busy
  <2> QED
    BY <1>3, <2>2, <2>3 DEF CleanDelete, VInv, VTypeOK
<1>4. CASE CleanAnnounce(c)
  BY <1>0, <1>4, EndOK DEF CleanAnnounce, VInv, VTypeOK
<1> QED
  BY <1>1, <1>2, <1>3, <1>4 DEF CleanQuiet

(* Every step preserves VInv, stuttering steps included.                   *)
LEMMA StepKeeps == VInv /\ [VNext]_vvars => VInv'
<1>1. CASE UNCHANGED vvars
  BY <1>1 DEF vvars, VInv, VTypeOK, Carries
<1>2. CASE VNext
  BY <1>2, ReqStartOK, ReqQuietOK, ReqAnnounceOK, CleanOK DEF VNext
<1> QED
  BY <1>1, <1>2

(* The tables and the tasks are well typed in every reachable state.       *)
THEOREM VTypeCorrect == VSpec => []VTypeOK
<1>1. VInv => VTypeOK
  BY DEF VInv
<1> QED
  BY <1>1, TypeInit, StepKeeps, PTL DEF VSpec

-----------------------------------------------------------------------------
(* A row disappears only by a DELETE that named the channel it was in: no  *)
(* join, no update and no announcement removes one, and neither DELETE     *)
(* touches a row of another channel.                                       *)
LEMMA RemovalStep ==
    ASSUME VInv, [VNext]_vvars, NEW u \in User,
           voice[u] # NoRow, voice'[u] = NoRow
    PROVE  \E t \in InFlight(u) : /\ task[t].at \in {"leave_delete", "clean_delete"}
                                  /\ task[t].row.ch = voice[u].ch
<1>1. voice' # voice
  OBVIOUS
<1>2. ASSUME NEW t \in Task, task[t].at \in Steps,
             voice' = [voice EXCEPT ![task[t].user] = task[t].row],
             task[t].row \in Row
      PROVE  FALSE
  BY <1>2, NoRowAssumption DEF VInv, VTypeOK
<1>3. ASSUME NEW t \in Task, task[t].at \in {"leave_delete", "clean_delete"},
             InChannel(task[t].user, task[t].row.ch),
             voice' = [voice EXCEPT ![task[t].user] = NoRow]
      PROVE  t \in InFlight(u) /\ task[t].row.ch = voice[u].ch
  <2>1. t \in InFlight(task[t].user)
    BY <1>3, BusyAt DEF VInv, Steps
  <2>2. task[t].user = u
    BY <1>3 DEF VInv, VTypeOK
  <2> QED
    BY <1>3, <2>1, <2>2 DEF InChannel
<1>4. PICK t \in Task : \/ JoinUpsert(t) \/ UpdateWrite(t)
                        \/ LeaveDelete(t) \/ CleanDelete(t)
  <2>1. CASE \E t \in Req : JoinUpsert(t) \/ UpdateWrite(t) \/ LeaveDelete(t)
    BY <2>1 DEF Task
  <2>2. CASE \E c \in Conn : CleanDelete(c)
    BY <2>2 DEF Task
  <2> QED
    BY <1>1, <2>1, <2>2
       DEF VNext, vvars, ReqStart, ReqQuiet, ReqAnnounce, CleanQuiet,
           JoinStart, LeaveStart, UpdateStart, JoinPrior, Drop, JoinAnnounce,
           JoinLeaveOld, LeaveAnnounce, UpdateAnnounce, CleanStart,
           CleanSelect, CleanAnnounce
<1>5. CASE JoinUpsert(t)
  BY <1>2, <1>5 DEF JoinUpsert, VInv, Carries, Carrying, Steps
<1>6. CASE UpdateWrite(t)
  BY <1>1, <1>2, <1>6 DEF UpdateWrite, VInv, Carries, Carrying, Steps
<1>7. CASE LeaveDelete(t)
  BY <1>1, <1>3, <1>7 DEF LeaveDelete
<1>8. CASE CleanDelete(t)
  BY <1>1, <1>3, <1>8 DEF CleanDelete
<1> QED
  BY <1>4, <1>5, <1>6, <1>7, <1>8

(* Both DELETE statements are aimed: a voice state disappears only by a    *)
(* request or a clean-up that named its channel, however tasks overlap.    *)
THEOREM AimedRemoval == VSpec => RemovalIsAimed
<1>1. VInv /\ [VNext]_vvars =>
         [\A u \in User : voice[u] # NoRow /\ voice'[u] = NoRow =>
            \E t \in InFlight(u) : /\ task[t].at \in {"leave_delete", "clean_delete"}
                                   /\ task[t].row.ch = voice[u].ch]_vvars
  BY RemovalStep
<1> QED
  BY <1>1, TypeInit, StepKeeps, PTL DEF VSpec, RemovalIsAimed
=============================================================================
