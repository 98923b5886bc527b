-------------------------- MODULE WebhookDelivery --------------------------
(***************************************************************************)
(* Webhook delivery (src/server/src/webhook_delivery.rs): an event or a    *)
(* test ping takes a snapshot of the webhooks concerned, enqueues one job  *)
(* per webhook into a bounded channel, a worker turns every job into a     *)
(* task of its own, and the task POSTs up to MaxAttempts times before it   *)
(* records the outcome in the webhook's row.  The table itself is that of  *)
(* Webhooks.tla.                                                           *)
(***************************************************************************)
EXTENDS Webhooks, Sequences

CONSTANTS
    Firing,       \* events and test pings
    Ping,         \* which of them are test pings
    Capacity,     \* of the channel (10 000 in the code)
    MaxAttempts,  \* POSTs per job (3 in the code)
    NoUrl,
    Crashes       \* TRUE: the process may die

ASSUME DeliveryAssumption ==
    /\ Ping \subseteq Firing
    /\ Capacity \in Nat \ {0} /\ MaxAttempts \in Nat \ {0}
    /\ NoUrl \notin Url
    /\ Crashes \in BOOLEAN

VARIABLES
    fired,  \* firing -> where the handler that dispatches it stands
    todo,   \* firing -> the rows it has selected and not enqueued yet
    queue,  \* the mpsc channel, oldest job first
    job     \* job -> where it stands, its URL, the number of its attempt

dvars == <<hvars, fired, todo, queue, job>>

-----------------------------------------------------------------------------
(* A firing makes at most one job per webhook. *)
Job == Firing \X Webhook

JobStates == {"none", "dropped", "queued", "running",
              "succeeded", "failed",        \* the outcome is to be recorded
              "delivered", "exhausted",     \* it has been recorded
              "lost"}                       \* the process died

Target == [hook : Webhook, url : Url]

DInit == /\ HInit
         /\ fired = [f \in Firing |-> "idle"]
         /\ todo = [f \in Firing |-> {}]
         /\ queue = <<>>
         /\ job = [j \in Job |-> [at |-> "none", url |-> NoUrl, n |-> 0]]

Selected(f, targets) == /\ fired[f] = "idle"
                        /\ fired' = [fired EXCEPT ![f] = "sending"]
                        /\ todo' = [todo EXCEPT ![f] = targets]
                        /\ UNCHANGED <<hvars, queue, job>>

(* fire_event: SELECT id, url of the enabled webhooks.                     *)
FireSelect(f) ==
    /\ f \notin Ping
    /\ Selected(f, {[hook |-> h, url |-> hooks[h].url] :
                       h \in {x \in Webhook : Exists(x) /\ hooks[x].enabled}})

(* test_webhook: the one webhook in the path, enabled or not.              *)
PingSelect(f, h) == /\ f \in Ping
                    /\ Exists(h)
                    /\ Selected(f, {[hook |-> h, url |-> hooks[h].url]})

(* Mutant of Enqueue: the result of try_send is ignored.                   *)
EnqueueUnchecked(f, r) ==
    /\ queue' = IF Len(queue) < Capacity THEN Append(queue, <<f, r.hook>>)
                ELSE queue
    /\ job' = [job EXCEPT ![<<f, r.hook>>] =
                  [at |-> "queued", url |-> r.url, n |-> 0]]

(* WebhookQueue::send: try_send; a job for which there is no room is       *)
(* dropped.                                                                *)
Enqueue(f, r) ==
    LET j == <<f, r.hook>>
        room == Len(queue) < Capacity
    IN /\ queue' = IF room THEN Append(queue, j) ELSE queue
       /\ job' = [job EXCEPT ![j] = [at |-> IF room THEN "queued" ELSE "dropped",
                                     url |-> r.url, n |-> 0]]

Send(f, r) == /\ fired[f] = "sending" /\ r \in todo[f]
              /\ Enqueue(f, r)
              /\ todo' = [todo EXCEPT ![f] = @ \ {r}]
              /\ UNCHANGED <<hvars, fired>>

FireEnd(f) == /\ fired[f] = "sending" /\ todo[f] = {}
              /\ fired' = [fired EXCEPT ![f] = "done"]
              /\ UNCHANGED <<hvars, todo, queue, job>>

-----------------------------------------------------------------------------
(* run_worker: the next job gets a task of its own.                        *)
Take == /\ queue # <<>>
        /\ queue' = Tail(queue)
        /\ job' = [job EXCEPT ![Head(queue)].at = "running",
                              ![Head(queue)].n = 1]
        /\ UNCHANGED <<hvars, fired, todo>>

(* run_job: a POST is answered with 2xx, or it is not and is repeated      *)
(* after a pause, or it was the last one.                                  *)
AttemptSucceeds(j) == /\ job[j].at = "running"
                      /\ job' = [job EXCEPT ![j].at = "succeeded"]
                      /\ UNCHANGED <<hvars, fired, todo, queue>>

(* Mutants of AttemptFails: one attempt too many, and after the last one   *)
(* they start over.                                                        *)
AttemptOnceMore(j) == /\ job[j].at = "running"
                      /\ job' = IF job[j].n <= MaxAttempts
                                THEN [job EXCEPT ![j].n = @ + 1]
                                ELSE [job EXCEPT ![j].at = "failed"]
                      /\ UNCHANGED <<hvars, fired, todo, queue>>
AttemptForever(j) == /\ job[j].at = "running"
                     /\ job' = [job EXCEPT ![j].n = 1 + (@ % MaxAttempts)]
                     /\ UNCHANGED <<hvars, fired, todo, queue>>

AttemptFails(j) == /\ job[j].at = "running"
                   /\ job' = IF job[j].n < MaxAttempts
                             THEN [job EXCEPT ![j].n = @ + 1]
                             ELSE [job EXCEPT ![j].at = "failed"]
                   /\ UNCHANGED <<hvars, fired, todo, queue>>

(* The counter of the row, if it is still there, is reset or incremented;  *)
(* that UPDATE may fail and is not repeated.                               *)
Record(j, from, to, count) ==
    LET h == j[2]
    IN /\ job[j].at = from
       /\ job' = [job EXCEPT ![j].at = to]
       /\ \/ hooks' = IF Exists(h)
                      THEN [hooks EXCEPT ![h].failures = count] ELSE hooks
          \/ UNCHANGED hooks
       /\ UNCHANGED <<edit, fired, todo, queue>>

RecordSuccess(j) == Record(j, "succeeded", "delivered", 0)
(* Mutant of RecordFailure: it counts the attempts. *)
RecordAttempts(j) == Record(j, "failed", "exhausted",
                            IF Exists(j[2]) THEN hooks[j[2]].failures + MaxAttempts
                            ELSE 0)

RecordFailure(j) == Record(j, "failed", "exhausted",
                           IF Exists(j[2]) THEN hooks[j[2]].failures + 1 ELSE 0)

-----------------------------------------------------------------------------
(* The process dies: the channel and all tasks are gone, the table stays.  *)
Crash ==
    /\ Crashes
    /\ fired' = [f \in Firing |-> IF fired[f] = "sending" THEN "done" ELSE fired[f]]
    /\ todo' = [f \in Firing |-> {}]
    /\ queue' = <<>>
    /\ job' = [j \in Job |->
          IF job[j].at \in {"queued", "running", "succeeded", "failed"}
          THEN [job[j] EXCEPT !.at = "lost"] ELSE job[j]]
    /\ edit' = [q \in Editor |-> Idle]
    /\ UNCHANGED hooks

Fire(f) == \/ FireSelect(f)
           \/ \E h \in Webhook : PingSelect(f, h)
           \/ \E r \in todo[f] : Send(f, r)
           \/ FireEnd(f)

RunJob(j) == \/ AttemptSucceeds(j) \/ AttemptFails(j)
             \/ RecordSuccess(j) \/ RecordFailure(j)

DNext == \/ Edit /\ UNCHANGED <<fired, todo, queue, job>>
         \/ \E f \in Firing : Fire(f)
         \/ Take
         \/ \E j \in Job : RunJob(j)
         \/ Crash

DSpec == DInit /\ [][DNext]_dvars

(* The worker and the job tasks are polled by the runtime, and every POST  *)
(* ends within its ten-second timeout.                                     *)
DFairSpec == DSpec /\ WF_dvars(Take) /\ \A j \in Job : WF_dvars(RunJob(j))

-----------------------------------------------------------------------------
(* Type correctness. *)
DTypeOK == /\ HTypeOK
           /\ fired \in [Firing -> {"idle", "sending", "done"}]
           /\ todo \in [Firing -> SUBSET Target]
           /\ queue \in Seq(Job)
           /\ job \in [Job -> [at : JobStates, url : Url \cup {NoUrl},
                               n : 0..MaxAttempts]]

(* The channel never outgrows its capacity, and it holds exactly the jobs  *)
(* that wait: none is there twice (it would be POSTed twice), none waits   *)
(* outside it (it would never be POSTed).                                  *)
QueueHoldsWaiting ==
    /\ Len(queue) <= Capacity
    /\ \A j \in Job : (job[j].at = "queued") <=> \E i \in DOMAIN queue : queue[i] = j
    /\ \A i, k \in DOMAIN queue : queue[i] = queue[k] => i = k

(* delivery_failures counts jobs that used up all their attempts, never    *)
(* single failed attempts, and never more than there were.                 *)
FailuresCountJobs ==
    \A h \in Webhook : Exists(h) =>
        hooks[h].failures <=
            Cardinality({f \in Firing : job[<<f, h>>].at = "exhausted"})

(* Every job that was accepted is settled in the end: delivered, given up  *)
(* after all its attempts, or lost with the process.                       *)
AcceptedIsSettled ==
    \A j \in Job : (job[j].at = "queued") ~>
                       (job[j].at \in {"delivered", "exhausted", "lost"})

(* A POST of an event goes to a webhook that is enabled at the time.       *)
DisabledGetsNothing ==
    [][\A j \in Job :
          /\ j[1] \notin Ping
          /\ job[j].at = "running" /\ job'[j] # job[j] /\ job'[j].at # "lost"
          => Exists(j[2]) /\ hooks[j[2]].enabled]_dvars

(* delivery_failures grows with every failed attempt.                      *)
FailedAttemptCounts ==
    [][\A j \in Job :
          /\ job[j].at = "running" /\ job'[j] # job[j]
          /\ job'[j].at \in {"running", "failed"}
          /\ Exists(j[2])
          => hooks'[j[2]].failures = hooks[j[2]].failures + 1]_dvars
=============================================================================
