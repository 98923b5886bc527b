----------------------- MODULE WebhookDelivery_proofs -----------------------
(***************************************************************************)
(* Proofs about WebhookDelivery, for any webhooks, events, pings, capacity *)
(* and number of attempts, with and without crashes: the types, and that   *)
(* the channel holds exactly the jobs that wait.                           *)
(***************************************************************************)
EXTENDS WebhookDelivery, FiniteSetTheorems, TLAPS

JobRec == [at : JobStates, url : Url \cup {NoUrl}, n : 0..MaxAttempts]

(* What a dispatching handler has selected has become no job yet, and it   *)
(* has selected a webhook once: enqueueing never meets an existing job.    *)
TodoIsFresh == \A f \in Firing :
    /\ fired[f] = "idle" => \A h \in Webhook : job[<<f, h>>].at = "none"
    /\ \A r \in todo[f] : job[<<f, r.hook>>].at = "none"
    /\ \A r, s \in todo[f] : r.hook = s.hook => r = s

DInv == DTypeOK /\ TodoIsFresh /\ QueueHoldsWaiting

-----------------------------------------------------------------------------
(* The table of webhooks keeps its type under every edit.                  *)
LEMMA EditType ==
    ASSUME HTypeOK, Edit
    PROVE  HTypeOK'
<1> USE DEF HTypeOK, Exists
<1>1. ASSUME NEW q \in Editor, CreateCount(q) PROVE HTypeOK'
  BY <1>1 DEF CreateCount
<1>2. ASSUME NEW q \in Editor, PatchWrite(q) PROVE HTypeOK'
  <2>1. edit[q] \in Write
    BY <1>2 DEF PatchWrite, Idle, Insert
  <2>2. edit' \in [Editor -> Write \cup {Idle, Insert}]
    <3>1. ASSUME NEW p \in Editor, edit[p].at = "write"
          PROVE  [edit[p] EXCEPT !.met = TRUE] \in Write
      <4>1. edit[p] \in Write
        BY <3>1 DEF Idle, Insert
      <4> QED
        BY <4>1 DEF Write
    <3> QED
      BY <1>2, <3>1 DEF PatchWrite
  <2>3. CASE ~Exists(edit[q].hook)
    BY <1>2, <2>2, <2>3 DEF PatchWrite
  <2>4. CASE Exists(edit[q].hook)
    <3> DEFINE h == edit[q].hook
               a == [hooks[h] EXCEPT !.url = edit[q].url]
               b == [a EXCEPT !.enabled = edit[q].enabled]
    <3>1. h \in Webhook /\ a \in Row
      BY <2>1, <2>4 DEF Write, Row
    <3>2. hooks' = [hooks EXCEPT ![h] = b]
      BY <1>2, <2>4, <3>1, Zenon DEF PatchWrite
    <3>3. edit[q].enabled \in BOOLEAN
      BY <2>1 DEF Write
    <3> HIDE DEF a
    <3>4. b \in Row
      BY <3>1, <3>3 DEF Row
    <3> HIDE DEF b, h
    <3> QED
      BY <2>2, <3>1, <3>2, <3>4
  <2> QED
    BY <2>3, <2>4
<1>3. ASSUME NEW q \in Editor, NEW h \in Webhook, NEW url \in Url,
             CreateInsert(q, h, url)
      PROVE  HTypeOK'
  BY <1>3 DEF CreateInsert, Row
<1>4. ASSUME NEW q \in Editor, NEW h \in Webhook, NEW url \in Url \cup {Keep},
             NEW on \in BOOLEAN \cup {Keep}, PatchRead(q, h, url, on)
      PROVE  HTypeOK'
  <2> DEFINE u == IF url = Keep THEN hooks[h].url ELSE url
             e == IF on = Keep THEN hooks[h].enabled ELSE on
             given == {x \in {"url", "enabled"} :
                         \/ x = "url" /\ url # Keep
                         \/ x = "enabled" /\ on # Keep}
             w == [at |-> "write", hook |-> h, url |-> u, enabled |-> e,
                   given |-> given, met |-> FALSE]
  <2>1. u \in Url /\ e \in BOOLEAN /\ given \in SUBSET {"url", "enabled"}
    BY <1>4 DEF PatchRead, Row
  <2>2. edit' = [edit EXCEPT ![q] = w]
    BY <1>4 DEF PatchRead
  <2> HIDE DEF u, e, given
  <2>3. w \in Write
    BY <2>1 DEF Write
  <2> HIDE DEF w
  <2> QED
    BY <1>4, <2>2, <2>3 DEF PatchRead
<1>5. ASSUME NEW h \in Webhook, Delete(h) PROVE HTypeOK'
  BY <1>5 DEF Delete
<1> QED
  BY <1>1, <1>2, <1>3, <1>4, <1>5 DEF Edit

(* An edit of one field of a job's record keeps its type.                  *)
LEMMA JobType ==
    ASSUME DTypeOK, NEW j \in Job
    PROVE  /\ job[j] \in JobRec
           /\ \A s \in JobStates : [job[j] EXCEPT !.at = s] \in JobRec
           /\ \A m \in 0..MaxAttempts : [job[j] EXCEPT !.n = m] \in JobRec
<1>1. job[j] \in JobRec
  BY DEF DTypeOK, JobRec
<1> QED
  BY <1>1 DEF JobRec

(* A job that goes on to another state. *)
LEMMA JobMoves ==
    ASSUME DTypeOK, NEW j \in Job, NEW s \in JobStates,
           job' = [job EXCEPT ![j].at = s]
    PROVE  \E b \in JobRec : job' = [job EXCEPT ![j] = b] /\ b.at = s
<1> DEFINE b == [job[j] EXCEPT !.at = s]
<1>1. b \in JobRec
  BY JobType
<1>2. b.at = s
  BY JobType DEF JobRec
<1>3. job' = [job EXCEPT ![j] = b]
  OBVIOUS
<1> QED
  BY <1>1, <1>2, <1>3

(* The job that the worker takes, as it is afterwards.                     *)
LEMMA TakeJob ==
    ASSUME DTypeOK, Take
    PROVE  /\ Head(queue) \in Job
           /\ \E b \in JobRec : /\ job' = [job EXCEPT ![Head(queue)] = b]
                                /\ b.at = "running"
<1>1. Head(queue) \in Job
  BY DEF DTypeOK, Take
<1> DEFINE j == Head(queue)
           a == [job[j] EXCEPT !.at = "running"]
           b == [a EXCEPT !.n = 1]
<1>2. a \in JobRec /\ a.at = "running"
  <2>1. job[j] \in JobRec
    BY <1>1, JobType
  <2> QED
    BY <2>1 DEF JobStates, JobRec
<1>3. job' = [job EXCEPT ![j] = b]
  <2>1. job \in [Job -> JobRec]
    BY DEF DTypeOK, JobRec
  <2>2. job' = [job EXCEPT ![j].at = "running", ![j].n = 1]
    BY DEF Take
  <2> HIDE DEF j
  <2> QED
    BY <1>1, <2>1, <2>2, Zenon
<1> HIDE DEF a
<1>4. b \in JobRec /\ b.at = "running"
  BY <1>2, DeliveryAssumption DEF JobRec
<1> QED
  BY <1>1, <1>3, <1>4

-----------------------------------------------------------------------------
LEMMA DInitOK == DInit => DInv
<1> SUFFICES ASSUME DInit PROVE DInv
  OBVIOUS
<1>1. HTypeOK
  BY DEF DInit, HInit, HTypeOK
<1>2. DTypeOK
  BY <1>1, DeliveryAssumption DEF DInit, DTypeOK, JobStates
<1>3. \A j \in Job : job[j].at = "none"
  BY DEF DInit
<1>4. TodoIsFresh
  BY <1>3 DEF DInit, TodoIsFresh, Job
<1>5. QueueHoldsWaiting
  BY <1>3, DeliveryAssumption DEF DInit, QueueHoldsWaiting
<1> QED
  BY <1>2, <1>4, <1>5 DEF DInv

(* Selecting makes no job; each webhook selected is selected once.         *)
LEMMA SelectedOK ==
    ASSUME DInv, NEW f \in Firing, NEW targets \in SUBSET Target,
           \A r, s \in targets : r.hook = s.hook => r = s,
           Selected(f, targets)
    PROVE  DInv'
<1>1. DTypeOK'
  BY DEF Selected, DInv, DTypeOK, HTypeOK, hvars
<1>2. TodoIsFresh'
  BY DEF Selected, DInv, DTypeOK, TodoIsFresh, Target
<1>3. QueueHoldsWaiting'
  BY DEF Selected, DInv, QueueHoldsWaiting
<1> QED
  BY <1>1, <1>2, <1>3 DEF DInv

(* Enqueueing turns a selected webhook into a job, queued at the end of    *)
(* the channel or dropped.                                                 *)
LEMMA SendOK ==
    ASSUME DInv, NEW f \in Firing, NEW r \in todo[f], Send(f, r)
    PROVE  DInv'
<1> DEFINE j == <<f, r.hook>>
           room == Len(queue) < Capacity
           b == [at |-> IF room THEN "queued" ELSE "dropped", url |-> r.url, n |-> 0]
<1>1. r \in Target /\ r.hook \in Webhook /\ j \in Job
  BY DEF DInv, DTypeOK, Target, Job
<1>2. b \in JobRec
  BY <1>1, DeliveryAssumption DEF JobRec, Target, JobStates
<1>3. /\ job' = [job EXCEPT ![j] = b]
      /\ queue' = IF room THEN Append(queue, j) ELSE queue
      /\ todo' = [todo EXCEPT ![f] = @ \ {r}]
      /\ UNCHANGED <<hvars, fired>>
  BY DEF Send, Enqueue
<1>4. job[j].at = "none" /\ fired[f] = "sending"
  BY DEF DInv, TodoIsFresh, Send
<1>5. /\ job'[j] = b
      /\ \A k \in Job : k # j => job'[k] = job[k]
  BY <1>1, <1>3 DEF DInv, DTypeOK
<1>6. b.at = IF room THEN "queued" ELSE "dropped"
  OBVIOUS
<1> HIDE DEF b
<1>7. DTypeOK'
  <2>1. queue' \in Seq(Job)
    BY <1>1, <1>3 DEF DInv, DTypeOK
  <2>2. job' \in [Job -> JobRec]
    BY <1>2, <1>3 DEF DInv, DTypeOK, JobRec
  <2>3. todo' \in [Firing -> SUBSET Target] /\ HTypeOK'
        /\ fired' \in [Firing -> {"idle", "sending", "done"}]
    BY <1>3 DEF DInv, DTypeOK, HTypeOK, hvars
  <2> QED
    BY <2>1, <2>2, <2>3 DEF DTypeOK, JobRec
<1>8. TodoIsFresh'
  <2> SUFFICES ASSUME NEW g \in Firing
               PROVE  /\ fired'[g] = "idle" => \A h \in Webhook : job'[<<g, h>>].at = "none"
                      /\ \A x \in todo'[g] : job'[<<g, x.hook>>].at = "none"
                      /\ \A x, y \in todo'[g] : x.hook = y.hook => x = y
    BY DEF TodoIsFresh
  <2>1. todo'[g] \subseteq todo[g] /\ (g = f => r \notin todo'[g])
    BY <1>3 DEF DInv, DTypeOK
  <2>2. fired'[g] = "idle" => \A h \in Webhook : job'[<<g, h>>].at = "none"
    BY <1>3, <1>4, <1>5 DEF DInv, TodoIsFresh, Job
  <2>3. ASSUME NEW x \in todo'[g] PROVE job'[<<g, x.hook>>].at = "none"
    <3>1. <<g, x.hook>> \in Job /\ job[<<g, x.hook>>].at = "none"
      BY <2>1 DEF DInv, DTypeOK, TodoIsFresh, Target, Job
    <3>2. g = f => x.hook # r.hook
      BY <2>1 DEF DInv, TodoIsFresh
    <3>3. <<g, x.hook>> # j
      BY <3>2
    <3> QED
      BY <1>5, <3>1, <3>3
  <2> QED
    BY <2>1, <2>2, <2>3 DEF DInv, TodoIsFresh
<1>9. QueueHoldsWaiting'
  <2> HIDE DEF j
  <2>1. \A i \in DOMAIN queue : queue[i] # j
    BY <1>1, <1>4 DEF DInv, QueueHoldsWaiting
  <2>2. CASE room
    <3> DEFINE m == Len(queue) + 1
    <3>1. /\ queue \in Seq(Job) /\ queue' = Append(queue, j)
          /\ DOMAIN queue = 1..Len(queue) /\ DOMAIN queue' = 1..m
          /\ Len(queue') = m /\ queue'[m] = j
          /\ \A i \in 1..Len(queue) : queue'[i] = queue[i]
      BY <1>1, <1>3, <2>2 DEF DInv, DTypeOK
    <3>2. Len(queue') <= Capacity
      BY <2>2, <3>1, DeliveryAssumption
    <3>3. \A i, k \in DOMAIN queue' : queue'[i] = queue'[k] => i = k
      BY <2>1, <3>1 DEF DInv, QueueHoldsWaiting
    <3>4. ASSUME NEW k \in Job
          PROVE  (job'[k].at = "queued") <=> \E i \in DOMAIN queue' : queue'[i] = k
      <4>1. CASE k = j
        BY <1>5, <1>6, <2>2, <3>1, <4>1
      <4>2. CASE k # j
        <5>1. (job'[k].at = "queued") <=> \E i \in DOMAIN queue : queue[i] = k
          BY <1>5, <4>2 DEF DInv, QueueHoldsWaiting
        <5> QED
          BY <3>1, <4>2, <5>1
      <4> QED
        BY <4>1, <4>2
    <3> QED
      BY <3>2, <3>3, <3>4 DEF QueueHoldsWaiting
  <2>3. CASE ~room
    BY <1>3, <1>5, <1>6, <2>1, <2>3 DEF DInv, QueueHoldsWaiting
  <2> QED
    BY <2>2, <2>3
<1> QED
  BY <1>7, <1>8, <1>9 DEF DInv

(* The worker takes the oldest job: it leaves the channel and runs.        *)
LEMMA TakeOK ==
    ASSUME DInv, Take
    PROVE  DInv'
<1> DEFINE j == Head(queue)
<1>0. queue \in Seq(Job) /\ queue # <<>>
  BY DEF DInv, DTypeOK, Take
<1>1. j \in Job
  BY TakeJob DEF DInv
<1>2. PICK b \in JobRec : job' = [job EXCEPT ![j] = b] /\ b.at = "running"
  BY TakeJob DEF DInv
<1>3. /\ job'[j].at = "running"
      /\ \A k \in Job : k # j => job'[k] = job[k]
  BY <1>1, <1>2 DEF DInv, DTypeOK
<1>4. /\ queue' = Tail(queue)
      /\ UNCHANGED <<hvars, fired, todo>>
  BY DEF Take
<1>5. /\ Len(queue) \in Nat /\ Len(queue) > 0
      /\ DOMAIN queue = 1..Len(queue)
      /\ queue' \in Seq(Job) /\ Len(queue') = Len(queue) - 1
      /\ DOMAIN queue' = 1..(Len(queue) - 1)
      /\ \A i \in DOMAIN queue' : queue'[i] = queue[i + 1]
      /\ j = queue[1]
  BY <1>0, <1>4
<1> HIDE DEF j
<1>6. DTypeOK'
  <2>1. job' \in [Job -> JobRec]
    BY <1>2 DEF DInv, DTypeOK, JobRec
  <2>2. HTypeOK'
    BY <1>4 DEF DInv, DTypeOK, HTypeOK, hvars
  <2> QED
    BY <1>4, <1>5, <2>1, <2>2 DEF DInv, DTypeOK, JobRec
<1>7. job[j].at = "queued"
  BY <1>1, <1>5 DEF DInv, QueueHoldsWaiting
<1>8. TodoIsFresh'
  <2>1. \A k \in Job : job[k].at = "none" => job'[k].at = "none"
    BY <1>3, <1>7
  <2>2. \A f \in Firing : /\ \A h \in Webhook : <<f, h>> \in Job
                          /\ \A r \in todo[f] : <<f, r.hook>> \in Job
    BY DEF DInv, DTypeOK, Target, Job
  <2> QED
    BY <1>4, <2>1, <2>2 DEF DInv, TodoIsFresh
<1>9. QueueHoldsWaiting'
  <2>1. Len(queue') <= Capacity
    BY <1>5, DeliveryAssumption DEF DInv, QueueHoldsWaiting
  <2>2. \A i, k \in DOMAIN queue' : queue'[i] = queue'[k] => i = k
    BY <1>5 DEF DInv, QueueHoldsWaiting
  <2>3. ASSUME NEW k \in Job
        PROVE  (job'[k].at = "queued") <=> \E i \in DOMAIN queue' : queue'[i] = k
    <3>1. CASE k = j
      <4>1. \A i \in DOMAIN queue' : queue'[i] # j
        BY <1>5 DEF DInv, QueueHoldsWaiting
      <4> QED
        BY <1>3, <3>1, <4>1
    <3>2. CASE k # j
      <4>1. (job'[k].at = "queued") <=> \E i \in DOMAIN queue : queue[i] = k
        BY <1>3, <3>2 DEF DInv, QueueHoldsWaiting
      <4>2. ASSUME NEW i \in DOMAIN queue, queue[i] = k
            PROVE  i - 1 \in DOMAIN queue' /\ queue'[i - 1] = k
        BY <1>5, <3>2, <4>2
      <4>3. ASSUME NEW i \in DOMAIN queue', queue'[i] = k
            PROVE  i + 1 \in DOMAIN queue /\ queue[i + 1] = k
        BY <1>5, <4>3
      <4> QED
        BY <4>1, <4>2, <4>3
    <3> QED
      BY <3>1, <3>2
  <2> QED
    BY <2>1, <2>2, <2>3 DEF QueueHoldsWaiting
<1> QED
  BY <1>6, <1>8, <1>9 DEF DInv

(* A job that runs, or waits for its outcome to be recorded, is out of the *)
(* channel and stays out of it.                                            *)
LEMMA RunOK ==
    ASSUME DInv, NEW j \in Job, RunJob(j)
    PROVE  DInv'
<1>1. \E b \in JobRec : /\ job' = [job EXCEPT ![j] = b]
                        /\ b.at \notin {"none", "queued"}
  <2>1. CASE AttemptSucceeds(j)
    <3>1. job' = [job EXCEPT ![j].at = "succeeded"] /\ "succeeded" \in JobStates
      BY <2>1 DEF AttemptSucceeds, JobStates
    <3>2. PICK b \in JobRec : job' = [job EXCEPT ![j] = b] /\ b.at = "succeeded"
      BY <3>1, JobMoves DEF DInv
    <3> QED
      BY <3>2
  <2>2. CASE AttemptFails(j)
    <3>1. job[j] \in JobRec
      BY JobType DEF DInv
    <3>2. CASE job[j].n < MaxAttempts
      <4>1. job[j].n + 1 \in 0..MaxAttempts
        BY <3>1, <3>2, DeliveryAssumption DEF JobRec
      <4>2. [job[j] EXCEPT !.n = @ + 1] \in JobRec
        BY <3>1, <4>1 DEF JobRec
      <4>3. [job[j] EXCEPT !.n = @ + 1].at = "running"
        BY <3>1, <2>2 DEF JobRec, AttemptFails
      <4>4. job' = [job EXCEPT ![j] = [job[j] EXCEPT !.n = @ + 1]]
        BY <2>2, <3>2 DEF AttemptFails
      <4> QED
        BY <4>2, <4>3, <4>4
    <3>3. CASE ~(job[j].n < MaxAttempts)
      <4>1. job' = [job EXCEPT ![j].at = "failed"] /\ "failed" \in JobStates
        BY <2>2, <3>3 DEF AttemptFails, JobStates
      <4>2. PICK b \in JobRec : job' = [job EXCEPT ![j] = b] /\ b.at = "failed"
        BY <4>1, JobMoves DEF DInv
      <4> QED
        BY <4>2
    <3> QED
      BY <3>2, <3>3
  <2>3. CASE RecordSuccess(j) \/ RecordFailure(j)
    <3>1. PICK s \in {"delivered", "exhausted"} : job' = [job EXCEPT ![j].at = s]
      BY <2>3 DEF RecordSuccess, RecordFailure, Record
    <3>2. s \in JobStates /\ s \notin {"none", "queued"}
      BY DEF JobStates
    <3>3. PICK b \in JobRec : job' = [job EXCEPT ![j] = b] /\ b.at = s
      BY <3>1, <3>2, JobMoves DEF DInv
    <3> QED
      BY <3>2, <3>3
  <2> QED
    BY <2>1, <2>2, <2>3 DEF RunJob
<1>2. PICK b \in JobRec : /\ job' = [job EXCEPT ![j] = b]
                          /\ b.at \notin {"none", "queued"}
  BY <1>1
<1>3. job[j].at \notin {"none", "queued"} /\ UNCHANGED <<fired, todo, queue>>
  BY DEF RunJob, AttemptSucceeds, AttemptFails, RecordSuccess, RecordFailure, Record
<1>4. \A k \in Job : job'[k].at \in {"none", "queued"} \/ job[k].at \in {"none", "queued"}
                        => job'[k] = job[k]
  BY <1>2, <1>3 DEF DInv, DTypeOK
<1>5. HTypeOK'
  <2>1. CASE UNCHANGED hvars
    BY <2>1 DEF DInv, DTypeOK, HTypeOK, hvars
  <2>2. CASE RecordSuccess(j) \/ RecordFailure(j)
    <3>1. j[2] \in Webhook /\ UNCHANGED edit
      BY <2>2 DEF Job, RecordSuccess, RecordFailure, Record
    <3>2. CASE ~Exists(j[2])
      BY <2>1, <2>2, <3>2 DEF RecordSuccess, RecordFailure, Record, hvars
    <3>3. CASE Exists(j[2])
      <4>1. \E count \in Nat : \/ hooks' = [hooks EXCEPT ![j[2]].failures = count]
                               \/ UNCHANGED hooks
        BY <2>2, <3>3 DEF RecordSuccess, RecordFailure, Record, Exists, Row
      <4>2. PICK count \in Nat : \/ hooks' = [hooks EXCEPT ![j[2]].failures = count]
                                 \/ UNCHANGED hooks
        BY <4>1
      <4>3. [hooks[j[2]] EXCEPT !.failures = count] \in Row
        BY <3>3 DEF Exists, Row
      <4> QED
        BY <3>1, <4>2, <4>3 DEF DInv, DTypeOK, HTypeOK
    <3> QED
      BY <3>2, <3>3
  <2> QED
    BY <2>1, <2>2 DEF RunJob, AttemptSucceeds, AttemptFails
<1>6. DTypeOK'
  BY <1>2, <1>3, <1>5 DEF DInv, DTypeOK, JobRec
<1>7. TodoIsFresh'
  <2>1. \A f \in Firing : /\ \A h \in Webhook : <<f, h>> \in Job
                          /\ \A r \in todo[f] : <<f, r.hook>> \in Job
    BY DEF DInv, DTypeOK, Target, Job
  <2> QED
    BY <1>3, <1>4, <2>1 DEF DInv, TodoIsFresh
<1>8. QueueHoldsWaiting'
  BY <1>3, <1>4 DEF DInv, QueueHoldsWaiting
<1> QED
  BY <1>6, <1>7, <1>8 DEF DInv

(* A crash empties the channel and leaves no job waiting.                  *)
LEMMA CrashOK ==
    ASSUME DInv, Crash
    PROVE  DInv'
<1>1. \A j \in Job : job'[j] \in JobRec /\ job'[j].at # "queued"
                     /\ (job[j].at = "none" => job'[j].at = "none")
  <2> SUFFICES ASSUME NEW j \in Job
               PROVE  job'[j] \in JobRec /\ job'[j].at # "queued"
                      /\ (job[j].at = "none" => job'[j].at = "none")
    OBVIOUS
  <2>1. job'[j] = IF job[j].at \in {"queued", "running", "succeeded", "failed"}
                  THEN [job[j] EXCEPT !.at = "lost"] ELSE job[j]
    BY DEF Crash
  <2>2. job[j] \in JobRec /\ [job[j] EXCEPT !.at = "lost"] \in JobRec
    BY JobType DEF DInv, JobStates
  <2>3. [job[j] EXCEPT !.at = "lost"].at = "lost"
    BY <2>2 DEF JobRec
  <2> QED
    BY <2>1, <2>2, <2>3
<1>2. job' \in [Job -> JobRec]
  BY <1>1 DEF Crash
<1>3. queue' = <<>> /\ queue' \in Seq(Job) /\ Len(queue') = 0 /\ DOMAIN queue' = {}
  BY DEF Crash
<1>4. DTypeOK'
  BY <1>2, <1>3 DEF Crash, DInv, DTypeOK, HTypeOK, JobRec
<1>5. TodoIsFresh'
  BY <1>1 DEF Crash, DInv, DTypeOK, TodoIsFresh, Job
<1>6. QueueHoldsWaiting'
  BY <1>1, <1>3, DeliveryAssumption DEF QueueHoldsWaiting
<1> QED
  BY <1>4, <1>5, <1>6 DEF DInv

LEMMA DStep == DInv /\ [DNext]_dvars => DInv'
<1> SUFFICES ASSUME DInv, [DNext]_dvars PROVE DInv'
  OBVIOUS
<1>1. CASE UNCHANGED dvars
  BY <1>1 DEF dvars, hvars, DInv, DTypeOK, HTypeOK, TodoIsFresh, QueueHoldsWaiting
<1>2. CASE Edit /\ UNCHANGED <<fired, todo, queue, job>>
  BY <1>2, EditType DEF DInv, DTypeOK, TodoIsFresh, QueueHoldsWaiting
<1>3. ASSUME NEW f \in Firing, Fire(f) PROVE DInv'
  <2>1. CASE FireSelect(f)
    <3> DEFINE targets == {[hook |-> h, url |-> hooks[h].url] :
                             h \in {x \in Webhook : Exists(x) /\ hooks[x].enabled}}
    <3>1. targets \in SUBSET Target
      BY DEF Exists, Row, Target
    <3>2. \A r, s \in targets : r.hook = s.hook => r = s
      OBVIOUS
    <3> QED
      BY <2>1, <3>1, <3>2, SelectedOK DEF FireSelect
  <2>2. ASSUME NEW h \in Webhook, PingSelect(f, h) PROVE DInv'
    <3>1. {[hook |-> h, url |-> hooks[h].url]} \in SUBSET Target
      BY <2>2 DEF PingSelect, Exists, Row, Target
    <3> QED
      BY <2>2, <3>1, SelectedOK DEF PingSelect
  <2>3. ASSUME NEW r \in todo[f], Send(f, r) PROVE DInv'
    BY <2>3, SendOK
  <2>4. CASE FireEnd(f)
    BY <2>4 DEF FireEnd, hvars, DInv, DTypeOK, HTypeOK, TodoIsFresh, QueueHoldsWaiting
  <2> QED
    BY <1>3, <2>1, <2>2, <2>3, <2>4 DEF Fire
<1> QED
  BY <1>1, <1>2, <1>3, TakeOK, RunOK, CrashOK DEF DNext

-----------------------------------------------------------------------------
(* Every value has its type; in particular no job is attempted more than   *)
(* MaxAttempts times.                                                      *)
THEOREM DTypeCorrect == DSpec => []DTypeOK
<1>1. DInv => DTypeOK
  BY DEF DInv
<1> QED
  BY <1>1, DInitOK, DStep, PTL DEF DSpec

(* The bounded channel neither loses nor doubles a job it has accepted,    *)
(* and never outgrows its capacity.                                        *)
THEOREM QueueCorrect == DSpec => []QueueHoldsWaiting
<1>1. DInv => QueueHoldsWaiting
  BY DEF DInv
<1> QED
  BY <1>1, DInitOK, DStep, PTL DEF DSpec
-----------------------------------------------------------------------------
(* The failures a webhook shows are jobs that gave up on it.               *)
Exhausted(h) == {f \in Firing : job[<<f, h>>].at = "exhausted"}

CountInv ==
    /\ DInv
    /\ \A h \in Webhook :
          /\ IsFiniteSet(Exhausted(h))
          /\ Exists(h) => hooks[h].failures <= Cardinality(Exhausted(h))

(* An exhausted job stays what it is, and only the recording of a failure  *)
(* exhausts one.                                                           *)
LEMMA JobExhausts ==
    ASSUME DInv, [DNext]_dvars, NEW j \in Job
    PROVE  \/ job'[j] = job[j]
           \/ /\ job[j].at # "exhausted"
              /\ job'[j].at = "exhausted" => RecordFailure(j)
<1>0. job \in [Job -> JobRec]
  BY DEF DInv, DTypeOK, JobRec
<1> DEFINE G == \/ job'[j] = job[j]
                \/ /\ job[j].at # "exhausted"
                   /\ job'[j].at = "exhausted" => RecordFailure(j)
<1>1. CASE \/ UNCHANGED dvars
           \/ Edit /\ UNCHANGED <<fired, todo, queue, job>>
           \/ \E f \in Firing : FireSelect(f) \/ FireEnd(f)
                                \/ \E h \in Webhook : PingSelect(f, h)
  BY <1>1 DEF dvars, FireSelect, FireEnd, PingSelect, Selected
<1>2. ASSUME NEW f \in Firing, NEW r \in todo[f], Send(f, r) PROVE G
  <2> DEFINE k == <<f, r.hook>>
             b == [at |-> IF Len(queue) < Capacity THEN "queued" ELSE "dropped",
                   url |-> r.url, n |-> 0]
  <2>1. k \in Job /\ job[k].at = "none"
    BY DEF DInv, DTypeOK, TodoIsFresh, Target, Job
  <2>2. job' = [job EXCEPT ![k] = b]
    BY <1>2 DEF Send, Enqueue
  <2>3. b.at # "exhausted"
    OBVIOUS
  <2> HIDE DEF k, b
  <2> QED
    BY <1>0, <2>1, <2>2, <2>3
<1>3. CASE Take
  <2>1. PICK b \in JobRec : job' = [job EXCEPT ![Head(queue)] = b] /\ b.at = "running"
    BY <1>3, TakeJob DEF DInv
  <2>2. Head(queue) \in Job
    BY <1>3, TakeJob DEF DInv
  <2>3. job[Head(queue)].at = "queued"
    <3>1. queue \in Seq(Job) /\ queue # <<>>
      BY <1>3 DEF DInv, DTypeOK, Take
    <3>2. 1 \in DOMAIN queue /\ Head(queue) = queue[1]
      BY <3>1
    <3> QED
      BY <2>2, <3>2 DEF DInv, QueueHoldsWaiting
  <2> QED
    BY <1>0, <2>1, <2>2, <2>3
<1>4. ASSUME NEW k \in Job, RunJob(k) PROVE G
  <2>1. job[k].at \in {"running", "succeeded", "failed"}
    BY <1>4 DEF RunJob, AttemptSucceeds, AttemptFails, RecordSuccess, RecordFailure, Record
  <2>2. CASE k # j
    BY <1>0, <1>4, <2>2 DEF RunJob, AttemptSucceeds, AttemptFails, RecordSuccess,
                            RecordFailure, Record
  <2>3. CASE k = j
    <3>1. CASE AttemptSucceeds(j)
      <4>1. job'[j].at = "succeeded"
        BY <1>0, <3>1 DEF AttemptSucceeds, JobRec
      <4> QED
        BY <2>1, <2>3, <4>1
    <3>2. CASE AttemptFails(j)
      <4>1. job'[j].at \in {"running", "failed"}
        BY <1>0, <3>2 DEF AttemptFails, JobRec
      <4> QED
        BY <2>1, <2>3, <4>1
    <3>3. CASE RecordSuccess(j)
      <4>1. job'[j].at = "delivered"
        BY <1>0, <3>3 DEF RecordSuccess, Record, JobRec
      <4> QED
        BY <2>1, <2>3, <4>1
    <3> QED
      BY <1>4, <2>1, <2>3, <3>1, <3>2, <3>3 DEF RunJob
  <2> QED
    BY <2>2, <2>3
<1>5. CASE Crash
  <2>1. job[j].at \in {"queued", "running", "succeeded", "failed"} => job'[j].at = "lost"
    BY <1>0, <1>5 DEF Crash, JobRec
  <2>2. job[j].at \notin {"queued", "running", "succeeded", "failed"} => job'[j] = job[j]
    BY <1>5 DEF Crash
  <2> QED
    BY <2>1, <2>2
<1> QED
  BY <1>1, <1>2, <1>3, <1>4, <1>5 DEF DNext, Fire

(* What a step does to the counter of a row that is there afterwards:      *)
(* nothing, a reset, or one more for a job that is exhausted by the step.  *)
LEMMA CounterStep ==
    ASSUME DInv, [DNext]_dvars, NEW h \in Webhook, hooks'[h] \in Row
    PROVE  \/ hooks'[h].failures = 0
           \/ Exists(h) /\ hooks'[h].failures = hooks[h].failures
           \/ /\ Exists(h) /\ hooks'[h].failures = hooks[h].failures + 1
              /\ \E f \in Firing : RecordFailure(<<f, h>>)
<1> DEFINE G == \/ hooks'[h].failures = 0
                \/ Exists(h) /\ hooks'[h].failures = hooks[h].failures
                \/ /\ Exists(h) /\ hooks'[h].failures = hooks[h].failures + 1
                   /\ \E f \in Firing : RecordFailure(<<f, h>>)
<1>0. hooks \in [Webhook -> Row \cup {NotYet, Deleted}]
  BY DEF DInv, DTypeOK, HTypeOK
<1>1. CASE UNCHANGED hooks
  BY <1>1 DEF Exists
<1>2. ASSUME NEW q \in Editor, NEW k \in Webhook, NEW url \in Url,
             CreateInsert(q, k, url)
      PROVE  G
  BY <1>0, <1>2 DEF CreateInsert, Exists
<1>3. ASSUME NEW q \in Editor, PatchWrite(q) PROVE G
  <2> DEFINE k == edit[q].hook
             a == [hooks[k] EXCEPT !.url = edit[q].url]
             b == [a EXCEPT !.enabled = edit[q].enabled]
  <2>1. k \in Webhook
    <3>1. edit[q].at = "write"
      BY <1>3 DEF PatchWrite
    <3>2. edit[q] \in Write \cup {Idle, Insert}
      BY DEF DInv, DTypeOK, HTypeOK
    <3> QED
      BY <3>1, <3>2 DEF Write, Idle, Insert
  <2>2. CASE Exists(k)
    <3>1. hooks' = [hooks EXCEPT ![k] = b]
      BY <1>0, <1>3, <2>1, <2>2, Zenon DEF PatchWrite
    <3>2. a.failures = hooks[k].failures /\ a \in [url : {edit[q].url}, enabled : BOOLEAN, failures : Nat]
      BY <2>2 DEF Exists, Row
    <3>3. b.failures = a.failures
      BY <3>2
    <3> HIDE DEF a, b, k
    <3> QED
      BY <1>0, <2>1, <2>2, <3>1, <3>2, <3>3 DEF Exists
  <2> QED
    BY <1>1, <1>3, <2>2 DEF PatchWrite
<1>4. ASSUME NEW k \in Webhook, Delete(k) PROVE G
  BY <1>0, <1>4, RowAssumption DEF Delete, Exists
<1>5. ASSUME NEW j \in Job, RecordSuccess(j) PROVE G
  <2>1. CASE Exists(j[2]) /\ hooks' = [hooks EXCEPT ![j[2]].failures = 0]
    BY <1>0, <2>1 DEF Exists, Row
  <2> QED
    BY <1>1, <1>5, <2>1 DEF RecordSuccess, Record
<1>6. ASSUME NEW j \in Job, RecordFailure(j) PROVE G
  <2>1. PICK f \in Firing, k \in Webhook : j = <<f, k>>
    BY DEF Job
  <2>2. CASE Exists(k) /\ hooks' = [hooks EXCEPT ![k].failures = hooks[k].failures + 1]
    <3>1. CASE k = h
      BY <1>0, <1>6, <2>1, <2>2, <3>1 DEF Exists, Row
    <3>2. CASE k # h
      BY <1>0, <2>2, <3>2 DEF Exists
    <3> QED
      BY <3>1, <3>2
  <2> QED
    BY <1>1, <1>6, <2>1, <2>2 DEF RecordFailure, Record
<1> QED
  BY <1>1, <1>2, <1>3, <1>4, <1>5, <1>6
     DEF DNext, Edit, CreateCount, PatchRead, Fire, FireSelect, FireEnd, PingSelect, Selected,
         Send, Take, RunJob, AttemptSucceeds, AttemptFails, Crash, dvars, hvars

LEMMA CountStep == CountInv /\ [DNext]_dvars => CountInv'
<1> SUFFICES ASSUME CountInv, [DNext]_dvars PROVE CountInv'
  OBVIOUS
<1>1. DInv /\ DInv'
  BY DStep DEF CountInv
<1> SUFFICES ASSUME NEW h \in Webhook
             PROVE  /\ IsFiniteSet(Exhausted(h)')
                    /\ hooks'[h] \in Row => hooks'[h].failures <= Cardinality(Exhausted(h)')
  BY <1>1 DEF CountInv, Exists
<1> DEFINE E == Exhausted(h)
<1>2. IsFiniteSet(E) /\ Cardinality(E) \in Nat
  BY FS_CardinalityType DEF CountInv
<1>3. \A f \in Firing : <<f, h>> \in Job
  BY DEF Job
<1>4. \A f \in Firing : job[<<f, h>>].at = "exhausted" => job'[<<f, h>>].at = "exhausted"
  BY <1>1, <1>3, JobExhausts
<1>5. CASE \E f \in Firing : RecordFailure(<<f, h>>)
  <2>1. PICK g \in Firing : RecordFailure(<<g, h>>)
    BY <1>5
  <2>2. job' = [job EXCEPT ![<<g, h>>].at = "exhausted"] /\ job[<<g, h>>].at = "failed"
    BY <2>1 DEF RecordFailure, Record
  <2>3. job'[<<g, h>>].at = "exhausted" /\ g \notin E
    BY <1>1, <1>3, <2>2 DEF DInv, DTypeOK, JobRec, Exhausted
  <2>4. \A f \in Firing : f # g => job'[<<f, h>>] = job[<<f, h>>]
    BY <1>1, <1>3, <2>2 DEF DInv, DTypeOK
  <2>5. E' = E \cup {g}
    BY <2>3, <2>4 DEF Exhausted
  <2>6. IsFiniteSet(E') /\ Cardinality(E') = Cardinality(E) + 1
    BY <1>2, <2>3, <2>5, FS_AddElement
  <2> HIDE DEF E
  <2>7. ASSUME hooks'[h] \in Row
        PROVE  hooks'[h].failures <= Cardinality(E) + 1
    <3>1. Exists(h) => hooks[h].failures <= Cardinality(E) /\ hooks[h].failures \in Nat
      BY DEF CountInv, E, Exists, Row
    <3>2. \/ hooks'[h].failures = 0
          \/ Exists(h) /\ hooks'[h].failures = hooks[h].failures
          \/ Exists(h) /\ hooks'[h].failures = hooks[h].failures + 1
      BY <1>1, <2>7, CounterStep
    <3> QED
      BY <1>2, <3>1, <3>2
  <2> QED
    BY <2>6, <2>7 DEF E
<1>6. CASE ~\E f \in Firing : RecordFailure(<<f, h>>)
  <2>1. \A f \in Firing : job'[<<f, h>>].at = "exhausted" => job[<<f, h>>].at = "exhausted"
    BY <1>1, <1>3, <1>6, JobExhausts
  <2>2. E' = E
    BY <1>4, <2>1 DEF Exhausted
  <2> HIDE DEF E
  <2>3. ASSUME hooks'[h] \in Row
        PROVE  hooks'[h].failures <= Cardinality(E)
    <3>1. Exists(h) => hooks[h].failures <= Cardinality(E)
      BY DEF CountInv, E
    <3>2. \/ hooks'[h].failures = 0
          \/ Exists(h) /\ hooks'[h].failures = hooks[h].failures
      BY <1>1, <1>6, <2>3, CounterStep
    <3> QED
      BY <1>2, <3>1, <3>2
  <2> QED
    BY <1>2, <2>2, <2>3 DEF E
<1> QED
  BY <1>5, <1>6

(* delivery_failures never exceeds the number of jobs that gave up on the  *)
(* webhook: attempts are not counted, and no job is counted twice.         *)
THEOREM FailuresCorrect == DSpec => []FailuresCountJobs
<1>1. DInit => CountInv
  <2> SUFFICES ASSUME DInit PROVE CountInv
    OBVIOUS
  <2>1. \A h \in Webhook : Exhausted(h) = {} /\ ~Exists(h)
    BY RowAssumption DEF DInit, HInit, Exhausted, Exists, Job
  <2> QED
    BY <2>1, DInitOK, FS_EmptySet DEF CountInv
<1>2. CountInv => FailuresCountJobs
  BY DEF CountInv, FailuresCountJobs, Exhausted
<1> QED
  BY <1>1, <1>2, CountStep, PTL DEF DSpec

-----------------------------------------------------------------------------
(* How requests that overlap disturb each other, and how far that goes.    *)
Rows == {h \in Webhook : Exists(h)}
Inserting == {q \in Editor : edit[q] = Insert}

(* A creation has counted fewer rows than the limit; those that have since *)
(* been inserted, and those still to come, belong to other requests.       *)
Counted == /\ IsFiniteSet(Rows)
           /\ Cardinality(Rows) + Cardinality(Inserting)
                 <= Limit + (Cardinality(Editor) - 1)

(* What a PATCH has read was there, and holds on until another PATCH       *)
(* writes the row.                                                         *)
WasThere(q) == edit[q].at = "write" => hooks[edit[q].hook] # NotYet

ReadHolds(q) ==
    edit[q].at = "write" /\ ~edit[q].met /\ Exists(edit[q].hook) =>
        /\ "url" \notin edit[q].given => edit[q].url = hooks[edit[q].hook].url
        /\ "enabled" \notin edit[q].given =>
              edit[q].enabled = hooks[edit[q].hook].enabled

EditInv == DInv /\ Counted /\ \A q \in Editor : WasThere(q) /\ ReadHolds(q)

(* The steps of the REST requests, apart from DELETE.                      *)
Request(q) == \/ CreateCount(q) \/ PatchWrite(q)
              \/ \E h \in Webhook, url \in Url : CreateInsert(q, h, url)
              \/ \E h \in Webhook, url \in Url \cup {Keep}, on \in BOOLEAN \cup {Keep} :
                    PatchRead(q, h, url, on)

(* Deliveries, DELETE and a crash leave the other columns of the rows      *)
(* alone and add none.                                                     *)
LEMMA OthersKeep ==
    ASSUME DInv, [DNext]_dvars, ~\E q \in Editor : Request(q)
    PROVE  /\ Rows' \subseteq Rows
           /\ \A h \in Webhook : hooks'[h] \in Row =>
                 /\ hooks'[h].url = hooks[h].url
                 /\ hooks'[h].enabled = hooks[h].enabled
           /\ \A h \in Webhook : hooks[h] # NotYet => hooks'[h] # NotYet
           /\ \A q \in Editor : edit'[q] = edit[q] \/ edit'[q] = Idle
           /\ UNCHANGED edit \/ UNCHANGED hooks
<1>0. hooks \in [Webhook -> Row \cup {NotYet, Deleted}]
  BY DEF DInv, DTypeOK, HTypeOK
<1>1. CASE UNCHANGED hvars
  BY <1>1 DEF hvars, Rows, Exists
<1>2. ASSUME NEW k \in Webhook, Delete(k)
      PROVE  /\ UNCHANGED edit
             /\ \A h \in Webhook : hooks'[h] \in Row => hooks'[h] = hooks[h]
             /\ \A h \in Webhook : hooks[h] # NotYet => hooks'[h] # NotYet
  BY <1>0, <1>2, RowAssumption DEF Delete
<1>3. ASSUME NEW j \in Job, RecordSuccess(j) \/ RecordFailure(j)
      PROVE  /\ UNCHANGED edit
             /\ \A h \in Webhook : hooks'[h] \in Row =>
                   /\ hooks[h] \in Row
                   /\ hooks'[h].url = hooks[h].url
                   /\ hooks'[h].enabled = hooks[h].enabled
             /\ \A h \in Webhook : hooks[h] # NotYet => hooks'[h] # NotYet
  <2>1. UNCHANGED edit
        /\ \/ UNCHANGED hooks
           \/ Exists(j[2]) /\ hooks' = [hooks EXCEPT ![j[2]].failures = 0]
           \/ /\ Exists(j[2])
              /\ hooks' = [hooks EXCEPT ![j[2]].failures = hooks[j[2]].failures + 1]
    BY <1>3 DEF RecordSuccess, RecordFailure, Record
  <2>2. ASSUME Exists(j[2]), NEW n \in Nat,
               hooks' = [hooks EXCEPT ![j[2]].failures = n], NEW h \in Webhook
        PROVE  /\ hooks'[h] \in Row => /\ hooks[h] \in Row
                                        /\ hooks'[h].url = hooks[h].url
                                        /\ hooks'[h].enabled = hooks[h].enabled
               /\ hooks[h] # NotYet => hooks'[h] # NotYet
    <3>1. CASE h # j[2]
      BY <1>0, <2>2, <3>1
    <3>2. CASE h = j[2]
      <4>1. hooks'[h] = [hooks[h] EXCEPT !.failures = n] /\ hooks[h] \in Row
        BY <1>0, <2>2, <3>2 DEF Exists
      <4>2. /\ hooks'[h] \in Row /\ hooks'[h].url = hooks[h].url
            /\ hooks'[h].enabled = hooks[h].enabled
        BY <2>2, <4>1 DEF Row
      <4> QED
        BY <4>1, <4>2, RowAssumption
    <3> QED
      BY <3>1, <3>2
  <2>3. Exists(j[2]) => hooks[j[2]].failures + 1 \in Nat
    BY DEF Exists, Row
  <2> QED
    BY <2>1, <2>2, <2>3
<1>4. CASE Crash
  BY <1>4 DEF Crash, Rows, Exists
<1> QED
  BY <1>1, <1>2, <1>3, <1>4
     DEF Request, DNext, Edit, Fire, FireSelect, FireEnd, PingSelect, Selected, Send, Take,
         RunJob, AttemptSucceeds, AttemptFails, dvars, hvars, Rows, Exists

(* What one step of a request does to the table and to the requests.       *)
LEMMA PatchIs ==
    ASSUME HTypeOK, NEW q \in Editor, PatchWrite(q)
    PROVE  /\ edit[q] \in Write /\ edit'[q] = Idle
           /\ \A p \in Editor \ {q} :
                 \/ edit'[p] = edit[p]
                    /\ (edit[p].at = "write" => edit[p].hook # edit[q].hook)
                 \/ edit[p] \in Write /\ edit'[p] \in Write /\ edit'[p].met
           /\ \A h \in Webhook : h # edit[q].hook \/ ~Exists(h) => hooks'[h] = hooks[h]
           /\ Exists(edit[q].hook) =>
                 /\ hooks'[edit[q].hook].url = edit[q].url
                 /\ hooks'[edit[q].hook].enabled = edit[q].enabled
                 /\ hooks'[edit[q].hook].failures = hooks[edit[q].hook].failures
           /\ Rows' = Rows
<1> DEFINE w == edit[q]
<1>0. HTypeOK'
  BY EditType DEF Edit
<1>1. w \in Write
  BY DEF HTypeOK, PatchWrite, Idle, Insert
<1>2. /\ edit' = [p \in Editor |->
            IF p = q THEN Idle
            ELSE IF edit[p].at = "write" /\ edit[p].hook = w.hook
                 THEN [edit[p] EXCEPT !.met = TRUE] ELSE edit[p]]
      /\ hooks' = IF Exists(w.hook)
                  THEN [hooks EXCEPT ![w.hook].url = w.url,
                                     ![w.hook].enabled = w.enabled]
                  ELSE hooks
  BY DEF PatchWrite
<1>3. ASSUME NEW p \in Editor \ {q}
      PROVE  \/ edit'[p] = edit[p]
                /\ (edit[p].at = "write" => edit[p].hook # edit[q].hook)
             \/ edit[p] \in Write /\ edit'[p] \in Write /\ edit'[p].met
  <2>1. CASE ~(edit[p].at = "write" /\ edit[p].hook = w.hook)
    BY <1>2, <2>1
  <2>2. CASE edit[p].at = "write" /\ edit[p].hook = w.hook
    <3>1. edit[p] \in Write
      BY <2>2 DEF HTypeOK, Idle, Insert
    <3>2. edit'[p] = [edit[p] EXCEPT !.met = TRUE]
      BY <1>2, <2>2
    <3> QED
      BY <3>1, <3>2 DEF Write
  <2> QED
    BY <2>1, <2>2
<1>4. edit'[q] = Idle
  BY <1>2
<1> HIDE DEF w
<1>5. CASE ~Exists(w.hook)
  BY <1>1, <1>2, <1>3, <1>4, <1>5 DEF Rows, Exists, w
<1>6. CASE Exists(w.hook)
  <2> DEFINE h == w.hook
             a == [hooks[h] EXCEPT !.url = w.url]
             b == [a EXCEPT !.enabled = w.enabled]
  <2>1. h \in Webhook /\ hooks[h] \in Row /\ w.url \in Url /\ w.enabled \in BOOLEAN
    BY <1>1, <1>6 DEF Write, Exists
  <2>2. hooks' = [hooks EXCEPT ![h] = b]
    BY <1>2, <1>6, <2>1, Zenon DEF HTypeOK
  <2>3. a \in Row /\ a.url = w.url /\ a.failures = hooks[h].failures
    BY <2>1 DEF Row
  <2> HIDE DEF a
  <2>4. b \in Row /\ b.url = w.url /\ b.enabled = w.enabled
        /\ b.failures = hooks[h].failures
    BY <2>1, <2>3 DEF Row
  <2> HIDE DEF b, h
  <2>5. hooks'[h] = b /\ \A k \in Webhook \ {h} : hooks'[k] = hooks[k]
    BY <2>1, <2>2 DEF HTypeOK
  <2>6. Rows' = Rows
    BY <2>1, <2>4, <2>5 DEF Rows, Exists
  <2> QED
    BY <1>1, <1>3, <1>4, <1>6, <2>4, <2>5, <2>6 DEF h, w
<1> QED
  BY <1>5, <1>6

-----------------------------------------------------------------------------
(* The sum of rows and pending inserts. *)
LEMMA CountedStep ==
    ASSUME EditInv, [DNext]_dvars
    PROVE  Counted'
<1>1. /\ DInv /\ DInv' /\ HTypeOK /\ Limit \in Nat \ {0} /\ IsFiniteSet(Editor)
      /\ IsFiniteSet(Rows)
  BY DStep, WebhooksAssumption DEF EditInv, DInv, DTypeOK, Counted
<1>2. hooks \in [Webhook -> Row \cup {NotYet, Deleted}]
      /\ edit \in [Editor -> Write \cup {Idle, Insert}]
  BY <1>1 DEF HTypeOK
<1>3. /\ IsFiniteSet(Inserting) /\ IsFiniteSet(Inserting')
      /\ Cardinality(Inserting) <= Cardinality(Editor)
      /\ Cardinality(Inserting') <= Cardinality(Editor)
  <2>1. Inserting \subseteq Editor /\ Inserting' \subseteq Editor
    BY DEF Inserting
  <2> QED
    BY <1>1, <2>1, FS_Subset
<1>4. /\ Cardinality(Rows) \in Nat /\ Cardinality(Inserting) \in Nat
      /\ Cardinality(Inserting') \in Nat /\ Cardinality(Editor) \in Nat
  BY <1>1, <1>3, FS_CardinalityType
<1>5. ASSUME Rows' \subseteq Rows, Inserting' \subseteq Inserting PROVE Counted'
  <2>1. IsFiniteSet(Rows') /\ Cardinality(Rows') <= Cardinality(Rows)
    BY <1>1, <1>5, FS_Subset
  <2>2. Cardinality(Inserting') <= Cardinality(Inserting)
    BY <1>3, <1>5, FS_Subset
  <2>3. Cardinality(Rows') \in Nat
    BY <2>1, FS_CardinalityType
  <2> QED
    BY <1>1, <1>4, <2>1, <2>2, <2>3 DEF EditInv, Counted
<1>6. ASSUME NEW q \in Editor, CreateCount(q) PROVE Counted'
  <2>1. Rows' = Rows /\ Cardinality(Rows) < Limit
    BY <1>6 DEF CreateCount, Rows, Exists
  <2> QED
    BY <1>1, <1>3, <1>4, <2>1 DEF Counted
<1>7. ASSUME NEW q \in Editor, NEW h \in Webhook, NEW url \in Url,
             CreateInsert(q, h, url)
      PROVE  Counted'
  <2>1. ~Exists(h) /\ edit[q] = Insert /\ edit' = [edit EXCEPT ![q] = Idle]
    BY <1>2, <1>7, RowAssumption DEF CreateInsert, Exists
  <2>2. Rows' = Rows \cup {h} /\ h \notin Rows
    <3>1. [url |-> url, enabled |-> TRUE, failures |-> 0] \in Row
      BY DEF Row
    <3> QED
      BY <1>2, <1>7, <2>1, <3>1 DEF CreateInsert, Rows, Exists
  <2>3. IsFiniteSet(Rows') /\ Cardinality(Rows') = Cardinality(Rows) + 1
    BY <1>1, <2>2, FS_AddElement
  <2>4. Inserting' = Inserting \ {q} /\ q \in Inserting
    BY <1>2, <2>1 DEF Inserting, Idle, Insert
  <2>5. Cardinality(Inserting') = Cardinality(Inserting) - 1
    BY <1>3, <2>4, FS_RemoveElement
  <2> QED
    BY <1>1, <1>4, <2>3, <2>5 DEF EditInv, Counted
<1>8. ASSUME NEW q \in Editor, NEW h \in Webhook, NEW url \in Url \cup {Keep},
             NEW on \in BOOLEAN \cup {Keep}, PatchRead(q, h, url, on)
      PROVE  Counted'
  <2> DEFINE u == IF url = Keep THEN hooks[h].url ELSE url
             e == IF on = Keep THEN hooks[h].enabled ELSE on
             given == {x \in {"url", "enabled"} :
                         \/ x = "url" /\ url # Keep
                         \/ x = "enabled" /\ on # Keep}
             w == [at |-> "write", hook |-> h, url |-> u, enabled |-> e,
                   given |-> given, met |-> FALSE]
  <2>1. UNCHANGED hooks /\ edit' = [edit EXCEPT ![q] = w]
    BY <1>8 DEF PatchRead
  <2>2. w.at = "write"
    OBVIOUS
  <2> HIDE DEF w
  <2>3. Rows' = Rows /\ Inserting' \subseteq Inserting
    BY <1>2, <2>1, <2>2 DEF Rows, Exists, Inserting, Insert
  <2> QED
    BY <1>5, <2>3
<1>9. ASSUME NEW q \in Editor, PatchWrite(q) PROVE Counted'
  <2>1. /\ Rows' = Rows /\ edit'[q] = Idle
        /\ \A p \in Editor \ {q} :
              edit'[p] = edit[p] \/ edit'[p] \in Write
    BY <1>1, <1>9, PatchIs
  <2>2. Inserting' \subseteq Inserting
    BY <2>1 DEF Inserting, Write, Idle, Insert
  <2> QED
    BY <1>5, <2>1, <2>2
<1>10. CASE ~\E q \in Editor : Request(q)
  <2>1. Rows' \subseteq Rows /\ \A q \in Editor : edit'[q] = edit[q] \/ edit'[q] = Idle
    BY <1>1, <1>10, OthersKeep
  <2>2. Inserting' \subseteq Inserting
    BY <2>1 DEF Inserting, Idle, Insert
  <2> QED
    BY <1>5, <2>1, <2>2
<1> QED
  BY <1>6, <1>7, <1>8, <1>9, <1>10 DEF Request

(* What a request has read is as it was while its row is left alone but    *)
(* for the counter, or is deleted.                                         *)
LEMMA ReadKept ==
    ASSUME NEW q \in Editor, WasThere(q), ReadHolds(q),
           edit'[q] = edit[q] \/ edit'[q] = Idle,
           edit[q].at = "write" =>
              LET h == edit[q].hook
              IN /\ hooks[h] # NotYet => hooks'[h] # NotYet
                 /\ hooks'[h] \in Row => /\ Exists(h)
                                         /\ hooks'[h].url = hooks[h].url
                                         /\ hooks'[h].enabled = hooks[h].enabled
    PROVE  WasThere(q)' /\ ReadHolds(q)'
  BY DEF WasThere, ReadHolds, Exists, Idle

LEMMA ReadStep ==
    ASSUME EditInv, [DNext]_dvars, NEW p \in Editor
    PROVE  WasThere(p)' /\ ReadHolds(p)'
<1>1. DInv /\ HTypeOK /\ WasThere(p) /\ ReadHolds(p)
  BY DEF EditInv, DInv, DTypeOK
<1>2. hooks \in [Webhook -> Row \cup {NotYet, Deleted}]
      /\ edit \in [Editor -> Write \cup {Idle, Insert}]
  BY <1>1 DEF HTypeOK
<1>3. edit[p].at = "write" => edit[p].hook \in Webhook
  BY <1>2 DEF Write, Idle, Insert
<1>4. ASSUME NEW q \in Editor, CreateCount(q) PROVE WasThere(p)' /\ ReadHolds(p)'
  <2>1. UNCHANGED hooks /\ (edit'[p] = Insert \/ edit'[p] = edit[p])
    BY <1>2, <1>4 DEF CreateCount
  <2> QED
    BY <1>1, <2>1 DEF WasThere, ReadHolds, Exists, Insert
<1>5. ASSUME NEW q \in Editor, NEW h \in Webhook, NEW url \in Url,
             CreateInsert(q, h, url)
      PROVE  WasThere(p)' /\ ReadHolds(p)'
  <2>1. /\ edit' = [edit EXCEPT ![q] = Idle] /\ hooks[h] = NotYet
        /\ \A k \in Webhook \ {h} : hooks'[k] = hooks[k]
    BY <1>2, <1>5 DEF CreateInsert
  <2>2. edit[p].at = "write" => edit[p].hook # h
    BY <1>1, <2>1 DEF WasThere
  <2>3. edit'[p] = edit[p] \/ edit'[p] = Idle
    BY <1>2, <2>1
  <2> QED
    BY <1>1, <1>3, <2>1, <2>2, <2>3, ReadKept DEF Exists
<1>6. ASSUME NEW q \in Editor, NEW h \in Webhook, NEW url \in Url \cup {Keep},
             NEW on \in BOOLEAN \cup {Keep}, PatchRead(q, h, url, on)
      PROVE  WasThere(p)' /\ ReadHolds(p)'
  <2> DEFINE u == IF url = Keep THEN hooks[h].url ELSE url
             e == IF on = Keep THEN hooks[h].enabled ELSE on
             given == {x \in {"url", "enabled"} :
                         \/ x = "url" /\ url # Keep
                         \/ x = "enabled" /\ on # Keep}
             w == [at |-> "write", hook |-> h, url |-> u, enabled |-> e,
                   given |-> given, met |-> FALSE]
  <2>1. UNCHANGED hooks /\ edit' = [edit EXCEPT ![q] = w] /\ hooks[h] # NotYet
    BY <1>6, RowAssumption DEF PatchRead, Exists
  <2>2. /\ "url" \notin given => u = hooks[h].url
        /\ "enabled" \notin given => e = hooks[h].enabled
    OBVIOUS
  <2> HIDE DEF u, e, given
  <2>3. w.hook = h /\ w.url = u /\ w.enabled = e /\ w.given = given
    OBVIOUS
  <2> HIDE DEF w
  <2>4. CASE p = q
    BY <1>2, <2>1, <2>2, <2>3, <2>4 DEF WasThere, ReadHolds
  <2>5. CASE p # q
    BY <1>1, <1>2, <2>1, <2>5 DEF WasThere, ReadHolds, Exists
  <2> QED
    BY <2>4, <2>5
<1>7. ASSUME NEW q \in Editor, PatchWrite(q) PROVE WasThere(p)' /\ ReadHolds(p)'
  <2>1. /\ edit'[q] = Idle /\ edit[q] \in Write
        /\ \A h \in Webhook : h # edit[q].hook \/ ~Exists(h) => hooks'[h] = hooks[h]
        /\ Rows' = Rows
    BY <1>1, <1>7, PatchIs
  <2>2. \A h \in Webhook : hooks[h] # NotYet => hooks'[h] # NotYet
    <3>1. ASSUME NEW h \in Webhook, hooks[h] # NotYet PROVE hooks'[h] # NotYet
      <4>1. CASE Exists(h)
        <5>1. h \in Rows'
          BY <2>1, <4>1 DEF Rows
        <5> QED
          BY <5>1, RowAssumption DEF Rows, Exists
      <4>2. CASE ~Exists(h)
        BY <2>1, <3>1, <4>2
      <4> QED
        BY <4>1, <4>2
    <3> QED
      BY <3>1
  <2>3. CASE p = q
    BY <2>1, <2>3 DEF WasThere, ReadHolds, Idle
  <2>4. CASE p # q /\ edit'[p] = edit[p]
                   /\ (edit[p].at = "write" => edit[p].hook # edit[q].hook)
    BY <1>1, <1>3, <2>1, <2>4, ReadKept DEF Exists
  <2>5. CASE p # q /\ edit[p] \in Write /\ edit'[p] \in Write /\ edit'[p].met
    <3>1. edit'[p].hook = edit[p].hook /\ edit[p].at = "write"
      BY <1>2, <1>7, <2>5 DEF PatchWrite, Write
    <3> QED
      BY <1>1, <1>3, <2>2, <2>5, <3>1 DEF WasThere, ReadHolds
  <2> QED
    BY <1>1, <1>7, <2>3, <2>4, <2>5, PatchIs
<1>8. CASE ~\E q \in Editor : Request(q)
  <2>1. /\ Rows' \subseteq Rows
        /\ \A h \in Webhook : hooks'[h] \in Row =>
              /\ hooks'[h].url = hooks[h].url
              /\ hooks'[h].enabled = hooks[h].enabled
        /\ \A h \in Webhook : hooks[h] # NotYet => hooks'[h] # NotYet
        /\ edit'[p] = edit[p] \/ edit'[p] = Idle
    BY <1>1, <1>8, OthersKeep
  <2>2. \A h \in Webhook : hooks'[h] \in Row => Exists(h)
    BY <2>1 DEF Rows, Exists
  <2> QED
    BY <1>1, <1>3, <2>1, <2>2, ReadKept
<1> QED
  BY <1>4, <1>5, <1>6, <1>7, <1>8 DEF Request

LEMMA EditInit == DInit => EditInv
<1> SUFFICES ASSUME DInit PROVE EditInv
  OBVIOUS
<1>1. Rows = {} /\ Inserting = {}
  BY RowAssumption DEF DInit, HInit, Rows, Exists, Inserting, Idle, Insert
<1>2. \A q \in Editor : WasThere(q) /\ ReadHolds(q)
  BY DEF DInit, HInit, WasThere, ReadHolds, Idle
<1>3. Cardinality(Editor) \in Nat /\ Limit \in Nat \ {0}
  BY FS_CardinalityType, WebhooksAssumption
<1>4. Counted
  BY <1>1, <1>3, FS_EmptySet DEF Counted
<1> QED
  BY <1>2, <1>4, DInitOK DEF EditInv

LEMMA EditStep == EditInv /\ [DNext]_dvars => EditInv'
<1> SUFFICES ASSUME EditInv, [DNext]_dvars PROVE EditInv'
  OBVIOUS
<1>1. DInv'
  BY DStep DEF EditInv
<1>2. \A q \in Editor : WasThere(q)' /\ ReadHolds(q)'
  BY ReadStep
<1> QED
  BY <1>1, <1>2, CountedStep DEF EditInv

(* However creations overlap, those under way exceed the limit by one less *)
(* than there may be requests in flight; deliveries, DELETE and a crash    *)
(* between the count and the INSERT of create_webhook do no harm.          *)
THEOREM LimitHolds == DSpec => []WithinLimit
<1>1. EditInv => WithinLimit
  <2> SUFFICES ASSUME EditInv PROVE WithinLimit
    OBVIOUS
  <2>1. IsFiniteSet(Rows) /\ IsFiniteSet(Inserting)
    <3>1. Inserting \subseteq Editor
      BY DEF Inserting
    <3> QED
      BY <3>1, FS_Subset, WebhooksAssumption DEF EditInv, Counted
  <2>2. /\ Cardinality(Rows) \in Nat /\ Cardinality(Inserting) \in Nat
        /\ Cardinality(Editor) \in Nat
    BY <2>1, FS_CardinalityType, WebhooksAssumption
  <2>3. Cardinality(Rows) <= Limit + (Cardinality(Editor) - 1)
    BY <2>2, WebhooksAssumption DEF EditInv, Counted
  <2> QED
    BY <2>3 DEF WithinLimit, Rows
<1> QED
  BY <1>1, EditInit, EditStep, PTL DEF DSpec

(* However requests overlap, update_webhook, which writes every column,    *)
(* undoes nothing but another PATCH of the same webhook that came between  *)
(* its two statements.                                                     *)
THEOREM PatchIsPartial == DSpec => UndoesOnlyPatches
<1> DEFINE Kept(q) ==
      edit[q].at = "write" /\ edit'[q] = Idle =>
          LET h == edit[q].hook
          IN hooks'[h] \in Row =>
               /\ Exists(h) /\ hooks'[h].failures = hooks[h].failures
               /\ ~edit[q].met =>
                     /\ "url" \notin edit[q].given => hooks'[h].url = hooks[h].url
                     /\ "enabled" \notin edit[q].given =>
                           hooks'[h].enabled = hooks[h].enabled
<1>1. ASSUME EditInv, [DNext]_dvars, NEW q \in Editor PROVE Kept(q)
  <2> SUFFICES ASSUME edit[q].at = "write", edit'[q] = Idle,
                      NEW h, h = edit[q].hook, hooks'[h] \in Row
               PROVE  /\ Exists(h) /\ hooks'[h].failures = hooks[h].failures
                      /\ ~edit[q].met =>
                            /\ "url" \notin edit[q].given => hooks'[h].url = hooks[h].url
                            /\ "enabled" \notin edit[q].given =>
                                  hooks'[h].enabled = hooks[h].enabled
    OBVIOUS
  <2>0. /\ HTypeOK /\ WasThere(q) /\ ReadHolds(q) /\ DInv
        /\ hooks \in [Webhook -> Row \cup {NotYet, Deleted}]
        /\ edit \in [Editor -> Write \cup {Idle, Insert}]
        /\ edit[q] # Idle /\ edit[q] # Insert /\ h \in Webhook
    BY <1>1 DEF EditInv, DInv, DTypeOK, HTypeOK, Write, Idle, Insert
  <2>1. CASE UNCHANGED hooks
    BY <2>1 DEF Exists
  <2>2. CASE PatchWrite(q)
    <3>1. Rows' = Rows
      BY <2>0, <2>2, PatchIs
    <3>2. Exists(h)
      BY <2>0, <3>1 DEF Rows, Exists
    <3> QED
      BY <2>0, <2>2, <3>2, PatchIs DEF ReadHolds
  <2>3. ASSUME NEW r \in Editor, Request(r), r # q
        PROVE  edit'[q] # Idle
    <3>1. CASE PatchWrite(r)
      BY <2>0, <2>3, <3>1, PatchIs DEF Write, Idle
    <3>2. CASE ~PatchWrite(r)
      BY <2>0, <2>3, <3>2 DEF Request, CreateCount, CreateInsert, PatchRead
    <3> QED
      BY <3>1, <3>2
  <2>4. CASE Request(q) /\ ~PatchWrite(q)
    BY <2>0, <2>4 DEF Request, CreateCount, CreateInsert, PatchRead
  <2>5. CASE ~\E r \in Editor : Request(r)
    <3>1. UNCHANGED edit \/ UNCHANGED hooks
      BY <1>1, <2>0, <2>5, OthersKeep
    <3> QED
      BY <2>0, <2>1, <3>1
  <2> QED
    BY <2>2, <2>3, <2>4, <2>5
<1>2. EditInv /\ [DNext]_dvars => [\A q \in Editor : Kept(q)]_hvars
  BY <1>1
<1> QED
  BY <1>2, EditInit, EditStep, PTL DEF DSpec, UndoesOnlyPatches
=============================================================================
