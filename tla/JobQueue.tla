--------------------------------- MODULE JobQueue ---------------------------------
(***************************************************************************)
(* The durable job queue (calendar-db/src/jobs.rs), the worker of each       *)
(* server process (calendar-server/src/jobs.rs) and what depends on them:    *)
(* the chains of jobs that renew themselves, and the deliveries of webhooks  *)
(* (calendar-db/src/webhooks.rs).  Statements are autocommitted: a process   *)
(* may die, and another act, between any two.  A server runs one worker; a   *)
(* second process is one that overlaps with it, which the queue allows for.  *)
(***************************************************************************)
EXTENDS Integers, Sequences

CONSTANTS
    Processes,   \* server processes, each with its worker and its handlers
    Jobs,        \* ids: as many as there are rows at once
    Deliveries,  \* webhook deliveries
    Seeds,       \* the chains a worker seeds, in the order it looks at them
    Interval,    \* after how many ticks a chain runs again
    LeaseTicks, MaxAttempts,
    MaxFaults,   \* bound on crashes and lost answers
    NoJob, NoProcess, Nothing

Chains == {"alarm_scan", "notify_send", "retention_purge", "ics_sync"}

(* What a job is for: a chain's next pass, or a delivery (webhook_send).     *)
Tasks == Chains \cup Deliveries

(* A row of durable_jobs that is neither completed nor failed.  wait is how  *)
(* far run_at is ahead, lease how far locked_until is; priority is always 0, *)
(* locked_by is never read.  Finished rows are history.                      *)
JobRow == [task : Tasks, wait : Nat, attempts : Nat, lease : Nat]

(* What lease_next returned to a worker. *)
Leased == [id : Jobs, task : Tasks, attempts : Nat]

Stages == {"down", "check", "seed", "poll", "work", "spawn", "record", "complete", "fail"}

ASSUME QueueConstants ==
    /\ Chains \cap Deliveries = {} /\ NoProcess \notin Processes
    /\ NoJob \notin JobRow /\ Nothing \notin Leased
    /\ Seeds \in Seq(Chains \ {"notify_send"}) /\ Seeds # <<>>
    /\ Interval \in [Chains -> Nat] /\ LeaseTicks \in Nat \ {0}
    /\ MaxAttempts \in Nat \ {0} /\ MaxFaults \in Nat

VARIABLES
    job,      \* durable_jobs
    ahead,    \* which of its rows ORDER BY run_at puts before which
    stage,    \* where each worker is in its code
    taken,    \* the job it executes
    todo,     \* the chains it has yet to seed, or the successors to enqueue
    status,   \* webhook_deliveries.status
    firing,   \* the handler that has created a delivery but not its job yet
    faults,
    begun,    \* history: chains that have been started
    dead,     \* history: chains whose job failed for good
    excused   \* history: tasks that have met one of the mishaps named below

tables == <<job, ahead>>
worker == <<stage, taken, todo>>
hooks == <<status, firing>>
history == <<begun, dead, excused>>
queueVars == <<job, ahead, stage, taken, todo, status, firing, faults, begun, dead, excused>>

---------------------------------------------------------------------------
(* The queue *)

Present(j) == job[j] # NoJob
ForTask(t) == {j \in Jobs : Present(j) /\ job[j].task = t}
Holds(p, j) == taken[p] # Nothing /\ taken[p].id = j
FreshJobs == {j \in Jobs : ~Present(j) /\ \A p \in Processes : ~Holds(p, j)}

(* ORDER BY run_at: j goes behind all that are due no later than it.         *)
Behind(pairs, j, wait) ==
    LET Others == {i \in Jobs \ {j} : Present(i)}
    IN  pairs \cup {<<i, j>> : i \in {k \in Others : job[k].wait <= wait}}
              \cup {<<j, i>> : i \in {k \in Others : job[k].wait > wait}}
Without(j) == {pair \in ahead : j \notin {pair[1], pair[2]}}

(* enqueue: a fresh id, no key that would find a job that is there already.  *)
Enqueue(t, wait) ==
    /\ FreshJobs # {}
    /\ LET j == CHOOSE k \in FreshJobs : TRUE
       IN  /\ job' = [job EXCEPT ![j] = [task |-> t, wait |-> wait, attempts |-> 0, lease |-> 0]]
           /\ ahead' = Behind(ahead, j, wait)
    /\ begun' = begun \cup ({t} \cap Chains) /\ dead' = dead \ {t}

Remove(j) == job' = [job EXCEPT ![j] = NoJob] /\ ahead' = Without(j)

(* now() advances; run_at and locked_until do not. *)
Less(n) == IF n = 0 THEN 0 ELSE n - 1
PassTime ==
    /\ \E j \in Jobs : Present(j) /\ (job[j].wait > 0 \/ job[j].lease > 0)
    /\ job' = [j \in Jobs |-> IF Present(j)
                                THEN [job[j] EXCEPT !.wait = Less(@), !.lease = Less(@)]
                                ELSE NoJob]
    /\ UNCHANGED <<ahead, worker, hooks, faults, history>>

---------------------------------------------------------------------------
(* A worker *)

StageTo(p, s) == stage' = [stage EXCEPT ![p] = s]
Poll(p) ==
    /\ StageTo(p, "poll")
    /\ taken' = [taken EXCEPT ![p] = Nothing] /\ todo' = [todo EXCEPT ![p] = <<>>]

(* The next of what is left to do in todo is done. *)
Onward(p, again, done) ==
    /\ todo' = [todo EXCEPT ![p] = Tail(@)]
    /\ StageTo(p, IF Tail(todo[p]) = <<>> THEN done ELSE again)
    /\ UNCHANGED taken

(* After an exit, systemd starts the server again; run_worker begins by      *)
(* looking for each chain.                                                   *)
Boot(p) ==
    /\ stage[p] = "down"
    /\ StageTo(p, "check") /\ todo' = [todo EXCEPT ![p] = Seeds]
    /\ UNCHANGED <<tables, taken, hooks, faults, history>>

CheckSeed(p) ==
    /\ stage[p] = "check"
    /\ IF ForTask(Head(todo[p])) # {} THEN Onward(p, "check", "poll")
       ELSE StageTo(p, "seed") /\ UNCHANGED <<taken, todo>>
    /\ UNCHANGED <<tables, hooks, faults, history>>

(* unwrap_or(false): a query that fails finds nothing. *)
CheckFails(p) ==
    /\ stage[p] = "check" /\ ForTask(Head(todo[p])) # {} /\ faults < MaxFaults
    /\ StageTo(p, "seed") /\ faults' = faults + 1 /\ excused' = excused \cup {Head(todo[p])}
    /\ UNCHANGED <<tables, taken, todo, hooks, begun, dead>>

(* Two workers have both found no job of the chain. *)
SeedRaces(p) ==
    IF \E q \in Processes \ {p} : stage[q] = "seed" /\ Head(todo[q]) = Head(todo[p])
      THEN {Head(todo[p])} ELSE {}

Seed(p) ==
    /\ stage[p] = "seed"
    /\ \/ Enqueue(Head(todo[p]), 0) /\ excused' = excused \cup SeedRaces(p)
       \/ UNCHANGED <<tables, history>>
    /\ Onward(p, "check", "poll")
    /\ UNCHANGED <<hooks, faults>>

(* lease_next: the first row by run_at that is due and that no lease holds.  *)
Due(j) == Present(j) /\ job[j].wait = 0 /\ job[j].lease = 0
NextDue(j) == Due(j) /\ \A i \in Jobs : Due(i) => <<i, j>> \notin ahead

(* The lease of j ran out while a worker was still executing it.             *)
TakenOver(j) == IF \E q \in Processes : Holds(q, j) THEN {job[j].task} ELSE {}

Lease(p) ==
    /\ stage[p] = "poll"
    /\ \E j \in Jobs :
        /\ NextDue(j)
        /\ job' = [job EXCEPT ![j].lease = LeaseTicks]
        /\ taken' = [taken EXCEPT ![p] = [id |-> j, task |-> job[j].task,
                                         attempts |-> job[j].attempts]]
        /\ excused' = excused \cup TakenOver(j)
    /\ StageTo(p, "work")
    /\ UNCHANGED <<ahead, todo, hooks, faults, begun, dead>>

(* What a pass of t enqueues before it is complete; mistaken: twice itself.  *)
SuccessorsTwice(t) == <<t, t>>
Successors(t) == IF t = "alarm_scan" THEN <<t, "notify_send">> ELSE <<t>>

(* An attempt that ends without a word on its delivery, if it is the last.   *)
Unrecorded(p) ==
    IF taken[p].task \in Deliveries /\ taken[p].attempts + 1 >= MaxAttempts
      THEN {taken[p].task} ELSE {}

(* execute, up to its first write here: the pass itself, or the POST of a    *)
(* delivery, which a webhook that is disabled or gone stops.  Any database   *)
(* error makes it fail.                                                      *)
Perform(p) ==
    /\ stage[p] = "work"
    /\ \/ /\ taken[p].task \in Chains
          /\ StageTo(p, "spawn") /\ todo' = [todo EXCEPT ![p] = Successors(taken[p].task)]
          /\ UNCHANGED excused
       \/ /\ taken[p].task \in Deliveries
          /\ StageTo(p, "record") /\ UNCHANGED <<todo, excused>>
       \/ /\ StageTo(p, "fail") /\ excused' = excused \cup Unrecorded(p)
          /\ UNCHANGED todo
    /\ UNCHANGED <<tables, taken, hooks, faults, begun, dead>>

(* The next successor: its own pass after the interval, a notify_send at     *)
(* once.  If it cannot be enqueued the job fails, but alarm_scan ignores it  *)
(* of notify_send; mistaken: of both.                                        *)
EveryErrorIgnored(p) == TRUE
ErrorIgnored(p) == Head(todo[p]) # taken[p].task
SuccessorWait(p) == IF Head(todo[p]) = taken[p].task THEN Interval[taken[p].task] ELSE 0

Spawn(p) ==
    /\ stage[p] = "spawn"
    /\ \/ Enqueue(Head(todo[p]), SuccessorWait(p)) /\ Onward(p, "spawn", "complete")
       \/ ErrorIgnored(p) /\ Onward(p, "spawn", "complete") /\ UNCHANGED <<tables, begun, dead>>
       \/ /\ ~ErrorIgnored(p) /\ StageTo(p, "fail")
          /\ UNCHANGED <<tables, taken, todo, begun, dead>>
    /\ UNCHANGED <<hooks, faults, excused>>

(* The insert is committed, but its answer lost: the pass will be repeated.  *)
SpawnUnanswered(p) ==
    /\ stage[p] = "spawn" /\ ~ErrorIgnored(p) /\ faults < MaxFaults
    /\ Enqueue(Head(todo[p]), SuccessorWait(p))
    /\ StageTo(p, "fail") /\ faults' = faults + 1 /\ excused' = excused \cup {taken[p].task}
    /\ UNCHANGED <<taken, todo, hooks>>

(* What the server of the webhook has answered, or that none was asked, and  *)
(* record_delivery_result; the attempt is the one the lease has counted to.  *)
(* Mistaken: one attempt too late.                                           *)
ExhaustedLate(p) == taken[p].attempts >= MaxAttempts
Exhausted(p) == taken[p].attempts + 1 >= MaxAttempts
Outcome(p, answer) ==
    CASE answer = "delivered" -> "succeeded"
      [] answer = "stopped" -> "failed"
      [] OTHER -> IF Exhausted(p) THEN "exhausted" ELSE "pending"

Record(p) ==
    /\ stage[p] = "record"
    /\ \/ \E answer \in {"delivered", "refused", "stopped"} :
             /\ status' = [status EXCEPT ![taken[p].task] = Outcome(p, answer)]
             /\ StageTo(p, IF answer = "refused" THEN "fail" ELSE "complete")
             /\ UNCHANGED excused
       \/ /\ StageTo(p, "fail") /\ excused' = excused \cup Unrecorded(p)
          /\ UNCHANGED status
    /\ UNCHANGED <<tables, taken, todo, firing, faults, begun, dead>>

(* complete and fail go by id alone: they do nothing to a row that another   *)
(* worker has finished, and do not ask whose lease they end.                 *)
Complete(p) ==
    /\ stage[p] = "complete"
    /\ Remove(taken[p].id) /\ Poll(p)
    /\ UNCHANGED <<hooks, faults, history>>

Backoff(attempts) == 2 * (IF attempts < 10 THEN attempts ELSE 10)

(* Mistaken: the attempt is not counted. *)
NotCounted(n) == n
Counted(n) == n + 1

FailJob(p) ==
    /\ stage[p] = "fail"
    /\ LET j == taken[p].id
           n == Counted(job[j].attempts)
       IN  \/ ~Present(j) /\ UNCHANGED <<tables, dead>>
           \/ /\ Present(j) /\ n >= MaxAttempts /\ Remove(j)
              /\ dead' = dead \cup ({job[j].task} \cap Chains)
           \/ /\ Present(j) /\ n < MaxAttempts
              /\ job' = [job EXCEPT ![j] = [@ EXCEPT !.attempts = n, !.lease = 0,
                                                     !.wait = Backoff(n)]]
              /\ ahead' = Behind(Without(j), j, Backoff(n))
              /\ UNCHANGED dead
    /\ Poll(p)
    /\ UNCHANGED <<hooks, faults, begun, excused>>

(* Errors of both are ignored: the row stays as it is until its lease ends.  *)
GiveBack(p) ==
    /\ stage[p] \in {"complete", "fail"} /\ faults < MaxFaults
    /\ Poll(p) /\ faults' = faults + 1
    /\ excused' = excused \cup (IF stage[p] = "complete" THEN {taken[p].task} \cap Chains ELSE {})
    /\ UNCHANGED <<tables, hooks, begun, dead>>

---------------------------------------------------------------------------
(* Webhooks: a handler creates the delivery, then its job.                   *)

CreateDelivery(p, d) ==
    /\ stage[p] # "down" /\ status[d] = "none"
    /\ status' = [status EXCEPT ![d] = "pending"] /\ firing' = [firing EXCEPT ![d] = p]
    /\ UNCHANGED <<tables, worker, faults, history>>

EnqueueSend(p, d) ==
    /\ firing[d] = p
    /\ \/ Enqueue(d, 0) /\ UNCHANGED excused
       \/ excused' = excused \cup {d} /\ UNCHANGED <<tables, begun, dead>>
    /\ firing' = [firing EXCEPT ![d] = NoProcess]
    /\ UNCHANGED <<worker, status, faults>>

---------------------------------------------------------------------------
(* A process dies between any two statements.  The leases it holds stay; a   *)
(* pass that has enqueued its successor will be repeated.                    *)

Renewed(p) == /\ taken[p] # Nothing /\ taken[p].task \in Chains
              /\ \/ stage[p] = "complete"
                 \/ stage[p] = "spawn" /\ Head(todo[p]) # taken[p].task

Dies(p) ==
    /\ stage[p] # "down" /\ faults < MaxFaults
    /\ StageTo(p, "down") /\ faults' = faults + 1
    /\ taken' = [taken EXCEPT ![p] = Nothing] /\ todo' = [todo EXCEPT ![p] = <<>>]
    /\ firing' = [d \in Deliveries |-> IF firing[d] = p THEN NoProcess ELSE firing[d]]
    /\ excused' = excused \cup {d \in Deliveries : firing[d] = p}
                         \cup (IF Renewed(p) THEN {taken[p].task} ELSE {})
    /\ UNCHANGED <<tables, status, begun, dead>>

---------------------------------------------------------------------------
QueueInit ==
    /\ job = [j \in Jobs |-> NoJob] /\ ahead = {}
    /\ stage = [p \in Processes |-> "down"] /\ taken = [p \in Processes |-> Nothing]
    /\ todo = [p \in Processes |-> <<>>]
    /\ status = [d \in Deliveries |-> "none"] /\ firing = [d \in Deliveries |-> NoProcess]
    /\ faults = 0 /\ begun = {} /\ dead = {} /\ excused = {}

(* What a process does by itself, and what it does for requests. *)
Worker(p) ==
    \/ Boot(p) \/ CheckSeed(p) \/ Seed(p) \/ Lease(p) \/ Perform(p) \/ Spawn(p) \/ Record(p)
    \/ Complete(p) \/ FailJob(p)
Handlers == \E p \in Processes, d \in Deliveries : EnqueueSend(p, d)

QueueNext ==
    \/ PassTime \/ Handlers
    \/ \E p \in Processes :
        \/ Worker(p) \/ CheckFails(p) \/ SpawnUnanswered(p) \/ GiveBack(p) \/ Dies(p)
        \/ \E d \in Deliveries : CreateDelivery(p, d)

QueueSpec == QueueInit /\ [][QueueNext]_queueVars

(* Workers loop for ever, handlers run on, systemd restarts a server that    *)
(* exits, time passes.                                                       *)
FairQueueSpec ==
    /\ QueueSpec /\ WF_queueVars(PassTime) /\ WF_queueVars(Handlers)
    /\ \A p \in Processes : WF_queueVars(Worker(p))

---------------------------------------------------------------------------
(* Properties *)

QueueTypeOK ==
    /\ job \in [Jobs -> JobRow \cup {NoJob}] /\ ahead \subseteq Jobs \X Jobs
    /\ stage \in [Processes -> Stages] /\ taken \in [Processes -> Leased \cup {Nothing}]
    /\ todo \in [Processes -> Seq(Chains)]
    /\ status \in [Deliveries -> {"none", "pending", "succeeded", "failed", "exhausted"}]
    /\ firing \in [Deliveries -> Processes \cup {NoProcess}]
    /\ faults \in 0..MaxFaults /\ begun \subseteq Chains /\ dead \subseteq Chains
    /\ excused \subseteq Tasks

(* A chain that was started goes on: its job, or the next one, is in the     *)
(* queue, wherever processes die, answers are lost or leases run out, unless *)
(* its job has failed for good.                                              *)
ChainAlive == \A t \in begun \ dead : ForTask(t) # {}

(* A chain that the workers seed does not fork: of its jobs, all but one     *)
(* have enqueued their successor.  It does when a pass is repeated after     *)
(* that, or two workers seed it.                                             *)
Seeded == {Seeds[n] : n \in DOMAIN Seeds}
OpenJobs(t) == {j \in ForTask(t) : \A p \in Processes : ~(Holds(p, j) /\ Renewed(p))}
SingleChain ==
    \A t \in Seeded \ excused :
        \A i, j \in OpenJobs(t) : i = j

(* A delivery that stays pending has a handler or a job that works on it:    *)
(* with its last attempt it is succeeded, failed or exhausted.  Excused are  *)
(* a crash or error between its two inserts, an attempt taken over from a    *)
(* live worker, and a last attempt whose outcome could not be written.       *)
DeliveriesSettled ==
    \A d \in Deliveries \ excused :
        status[d] = "pending" => firing[d] # NoProcess \/ ForTask(d) # {}

(* No delivery is pending for ever, with chains and other workers in the     *)
(* queue, retries and leases that run out.                                   *)
DeliveriesEnd ==
    \A d \in Deliveries : status[d] = "pending" ~> status[d] # "pending" \/ d \in excused
==============================================================================
