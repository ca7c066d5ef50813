------------------------------ MODULE JobQueueProofs ------------------------------
(***************************************************************************)
(* Theorems of JobQueue, for any number of processes, jobs and deliveries:   *)
(* no chain of jobs is lost, none forks but where the mishaps named in       *)
(* excused happen, and no delivery is left pending.                          *)
(***************************************************************************)
EXTENDS JobQueue, TLAPS

(* Where a worker is in its code against what it has leased and has to do.   *)
Busy == {"work", "spawn", "record", "complete", "fail"}
HasSuccessors(p) ==
    /\ taken[p].task \in Chains
    /\ \/ todo[p] = Successors(taken[p].task)
       \/ taken[p].task = "alarm_scan" /\ todo[p] = <<"notify_send">>
Positions ==
    \A p \in Processes :
        /\ stage[p] \in Busy <=> taken[p] # Nothing
        /\ stage[p] \in {"check", "seed"} => todo[p] # <<>>
        /\ stage[p] = "spawn" => HasSuccessors(p)
        /\ stage[p] = "record" => taken[p].task \in Deliveries

(* A worker whose lease ran out may complete or fail a row that another has  *)
(* finished, but never one of another task: ids are not used again.          *)
SameTask ==
    \A p \in Processes :
        taken[p] # Nothing /\ Present(taken[p].id) => job[taken[p].id].task = taken[p].task

Base == QueueTypeOK /\ Positions /\ SameTask

---------------------------------------------------------------------------
(* What the actions do to the queue *)

Row(t, wait) == [task |-> t, wait |-> wait, attempts |-> 0, lease |-> 0]

LEMMA SeedsAreChains == Seeds \in Seq(Chains) /\ Seeds # <<>>
BY QueueConstants

LEMMA TailTyped == ASSUME NEW S, NEW s \in Seq(S), s # <<>>
                   PROVE Head(s) \in S /\ Tail(s) \in Seq(S)
OBVIOUS

LEMMA SuccessorsTyped == ASSUME NEW t \in Chains
                         PROVE /\ Successors(t) \in Seq(Chains) /\ Successors(t) # <<>>
                               /\ Head(Successors(t)) = t
                               /\ Tail(Successors(t)) = IF t = "alarm_scan" THEN <<"notify_send">>
                                                                          ELSE <<>>
<1>1. CASE t = "alarm_scan"
  <2>1. Successors(t) = <<t, "notify_send">>
    BY <1>1 DEF Successors
  <2>2. "notify_send" \in Chains
    BY DEF Chains
  <2>3. <<t, "notify_send">> \in Seq(Chains)
    BY <2>2
  <2>4. Head(<<t, "notify_send">>) = t /\ Tail(<<t, "notify_send">>) = <<"notify_send">>
       /\ <<t, "notify_send">> # <<>>
    OBVIOUS
  <2> QED
    BY <1>1, <2>1, <2>3, <2>4
<1>2. CASE t # "alarm_scan"
  <2>1. Successors(t) = <<t>>
    BY <1>2 DEF Successors
  <2> QED
    BY <1>2, <2>1
<1> QED
  BY <1>1, <1>2

LEMMA RowTyped == ASSUME NEW t \in Tasks, NEW wait \in Nat
                  PROVE Row(t, wait) \in JobRow /\ Row(t, wait) # NoJob
BY QueueConstants DEF Row, JobRow

LEMMA BehindTyped ==
    ASSUME NEW pairs \in SUBSET (Jobs \X Jobs), NEW j \in Jobs, NEW wait
    PROVE Behind(pairs, j, wait) \subseteq Jobs \X Jobs
<1> DEFINE Others == {i \in Jobs \ {j} : Present(i)}
           Earlier == {k \in Others : job[k].wait <= wait}
           Later == {k \in Others : job[k].wait > wait}
<1>1. Behind(pairs, j, wait) = pairs \cup {<<i, j>> : i \in Earlier}
                                     \cup {<<j, i>> : i \in Later}
  BY DEF Behind
<1>2. Earlier \subseteq Jobs /\ Later \subseteq Jobs
  OBVIOUS
<1>3. {<<i, j>> : i \in Earlier} \subseteq Jobs \X Jobs
  BY <1>2
<1>4. {<<j, i>> : i \in Later} \subseteq Jobs \X Jobs
  BY <1>2
<1> HIDE DEF Earlier, Later
<1> QED
  BY <1>1, <1>3, <1>4

(* An enqueued row has an id that is neither in the queue nor held.          *)
LEMMA EnqueueEffect ==
    ASSUME NEW t \in Tasks, NEW wait \in Nat, Enqueue(t, wait), QueueTypeOK
    PROVE \E j \in Jobs :
            /\ ~Present(j) /\ \A p \in Processes : ~Holds(p, j)
            /\ job' = [job EXCEPT ![j] = Row(t, wait)]
            /\ job' \in [Jobs -> JobRow \cup {NoJob}] /\ ahead' \subseteq Jobs \X Jobs
            /\ begun' = begun \cup ({t} \cap Chains) /\ dead' = dead \ {t}
<1> DEFINE j == CHOOSE k \in FreshJobs : TRUE
<1>1. j \in FreshJobs
  BY DEF Enqueue
<1>2. j \in Jobs /\ ~Present(j) /\ \A p \in Processes : ~Holds(p, j)
  BY <1>1 DEF FreshJobs
<1>3. job' = [job EXCEPT ![j] = Row(t, wait)]
  BY DEF Enqueue, Row
<1>4. ahead' \subseteq Jobs \X Jobs
  BY <1>2, BehindTyped DEF Enqueue, QueueTypeOK
<1>5. job' \in [Jobs -> JobRow \cup {NoJob}]
  BY <1>2, <1>3, RowTyped DEF QueueTypeOK
<1> QED
  BY <1>2, <1>3, <1>4, <1>5 DEF Enqueue

LEMMA HeldTyped ==
    ASSUME Base, NEW p \in Processes, stage[p] \in Busy
    PROVE /\ taken[p] \in Leased /\ taken[p] # Nothing
          /\ taken[p].id \in Jobs /\ taken[p].task \in Tasks /\ taken[p].attempts \in Nat
          /\ Present(taken[p].id) => job[taken[p].id] \in JobRow
BY DEF Base, Positions, QueueTypeOK, Leased, Present

(* Time and leases change neither the task of a row nor its attempts.        *)
Alike(i) == /\ Present(i) => /\ job'[i] # NoJob /\ job'[i].task = job[i].task
                             /\ job'[i].attempts = job[i].attempts
            /\ ~Present(i) => job'[i] = NoJob

LEMMA LessTyped == ASSUME NEW n \in Nat PROVE Less(n) \in Nat
BY DEF Less

LEMMA PassTimeEffect ==
    ASSUME Base, PassTime
    PROVE job' \in [Jobs -> JobRow \cup {NoJob}] /\ \A i \in Jobs : Alike(i)
<1>1. ASSUME NEW i \in Jobs, Present(i)
      PROVE /\ job'[i] \in JobRow /\ job'[i].task = job[i].task
            /\ job'[i].attempts = job[i].attempts
  <2>1. job[i] \in JobRow
    BY <1>1 DEF Base, Present, QueueTypeOK
  <2>2. job'[i] = [job[i] EXCEPT !.wait = Less(@), !.lease = Less(@)]
    BY <1>1 DEF PassTime
  <2>3. Less(job[i].wait) \in Nat /\ Less(job[i].lease) \in Nat
    BY <2>1, LessTyped DEF JobRow
  <2> QED
    BY <2>1, <2>2, <2>3 DEF JobRow
<1>2. ASSUME NEW i \in Jobs, ~Present(i) PROVE job'[i] = NoJob
  BY <1>2 DEF PassTime
<1>3. job' \in [Jobs -> JobRow \cup {NoJob}]
  BY <1>1, <1>2 DEF PassTime
<1> QED
  BY <1>1, <1>2, <1>3, QueueConstants DEF Alike

LEMMA LeaseEffect ==
    ASSUME Base, NEW p \in Processes, Lease(p)
    PROVE \E j \in Jobs :
            /\ Present(j)
            /\ taken' = [taken EXCEPT ![p] = [id |-> j, task |-> job[j].task,
                                             attempts |-> job[j].attempts]]
            /\ taken'[p] \in Leased /\ taken'[p] # Nothing
            /\ excused' = excused \cup TakenOver(j) /\ TakenOver(j) \subseteq Tasks
            /\ job' \in [Jobs -> JobRow \cup {NoJob}] /\ \A i \in Jobs : Alike(i)
<1>1. PICK j \in Jobs :
        /\ NextDue(j)
        /\ job' = [job EXCEPT ![j].lease = LeaseTicks]
        /\ taken' = [taken EXCEPT ![p] = [id |-> j, task |-> job[j].task,
                                         attempts |-> job[j].attempts]]
        /\ excused' = excused \cup TakenOver(j)
  BY DEF Lease
<1>2. Present(j) /\ job[j] \in JobRow
  BY <1>1 DEF NextDue, Due, Present, QueueTypeOK, Base
<1>3. taken'[p] \in Leased
  BY <1>1, <1>2 DEF Leased, JobRow, QueueTypeOK, Base
<1> DEFINE r == [job[j] EXCEPT !.lease = LeaseTicks]
<1>4. r \in JobRow /\ r.task = job[j].task /\ r.attempts = job[j].attempts
  BY <1>2, QueueConstants DEF JobRow
<1>5. job' = [job EXCEPT ![j] = r]
  BY <1>1 DEF Base, QueueTypeOK
<1>6. TakenOver(j) \subseteq Tasks
  BY <1>2 DEF TakenOver, JobRow
<1> HIDE DEF r
<1>7. job' \in [Jobs -> JobRow \cup {NoJob}] /\ \A i \in Jobs : Alike(i)
  BY <1>2, <1>4, <1>5, QueueConstants DEF Alike, Present, Base, QueueTypeOK
<1>8. taken'[p] # Nothing
  BY <1>3, QueueConstants
<1> QED
  BY <1>1, <1>2, <1>3, <1>6, <1>7, <1>8

(* The row of a failed job goes, or stays with one attempt more.             *)
LEMMA FailJobEffect ==
    ASSUME Base, NEW p \in Processes, FailJob(p), NEW j, j = taken[p].id
    PROVE /\ j \in Jobs
          /\ job' \in [Jobs -> JobRow \cup {NoJob}] /\ ahead' \subseteq Jobs \X Jobs
          /\ \A i \in Jobs \ {j} : job'[i] = job[i]
          /\ \/ job' = job /\ ~Present(j) /\ dead' = dead
             \/ /\ Present(j) /\ job[j].attempts + 1 >= MaxAttempts
                /\ job'[j] = NoJob /\ dead' = dead \cup ({job[j].task} \cap Chains)
             \/ /\ Present(j) /\ job'[j] # NoJob /\ job'[j].task = job[j].task /\ dead' = dead
<1> DEFINE n == Counted(job[j].attempts)
<1>0. j \in Jobs /\ (Present(j) => job[j] \in JobRow)
  BY HeldTyped DEF FailJob, Busy
<1>1. Without(j) \in SUBSET (Jobs \X Jobs)
  BY DEF Without, QueueTypeOK, Base
<1>2. CASE ~Present(j) /\ UNCHANGED <<tables, dead>>
  BY <1>0, <1>2 DEF QueueTypeOK, Base, tables
<1>3. CASE Present(j) /\ n >= MaxAttempts /\ Remove(j) /\ dead' = dead \cup ({job[j].task} \cap Chains)
  BY <1>0, <1>1, <1>3 DEF QueueTypeOK, Base, Remove, Counted
<1>4. CASE /\ Present(j)
           /\ job' = [job EXCEPT ![j] = [@ EXCEPT !.attempts = n, !.lease = 0, !.wait = Backoff(n)]]
           /\ ahead' = Behind(Without(j), j, Backoff(n))
           /\ UNCHANGED dead
  <2>1. n \in Nat
    BY <1>0, <1>4 DEF Counted, JobRow
  <2>2. Backoff(n) \in Nat
    BY <2>1 DEF Backoff
  <2> DEFINE r == [job[j] EXCEPT !.attempts = n, !.lease = 0, !.wait = Backoff(n)]
  <2>3. r \in JobRow /\ r.task = job[j].task
    BY <1>0, <1>4, <2>1, <2>2 DEF JobRow
  <2>4. job' = [job EXCEPT ![j] = r]
    BY <1>4
  <2>5. ahead' \subseteq Jobs \X Jobs
    BY <1>0, <1>1, <1>4, BehindTyped
  <2>6. r # NoJob
    BY <2>3, QueueConstants
  <2> HIDE DEF r
  <2> QED
    BY <1>0, <1>4, <2>3, <2>4, <2>5, <2>6 DEF QueueTypeOK, Base
<1> QED
  BY <1>2, <1>3, <1>4 DEF FailJob

---------------------------------------------------------------------------
(* The actions keep Base *)

USE DEF StageTo

LEMMA BaseInit == QueueInit => Base
<1> SUFFICES ASSUME QueueInit PROVE Base
  OBVIOUS
<1>1. QueueTypeOK
  BY QueueConstants DEF QueueInit, QueueTypeOK, Stages
<1>2. Positions /\ SameTask
  BY DEF QueueInit, Positions, SameTask, Busy
<1> QED
  BY <1>1, <1>2 DEF Base

LEMMA PassTimeBase == ASSUME Base, PassTime PROVE Base'
<1>1. QueueTypeOK'
  BY PassTimeEffect DEF Base, PassTime, tables, worker, hooks, history, QueueTypeOK
<1>2. Positions'
  BY DEF Base, PassTime, tables, worker, hooks, history, Positions, HasSuccessors
<1>3. SameTask'
  <2> SUFFICES ASSUME NEW p \in Processes, taken'[p] # Nothing, job'[taken'[p].id] # NoJob
               PROVE  job'[taken'[p].id].task = taken'[p].task
    BY DEF SameTask, Present
  <2>1. taken' = taken
    BY DEF PassTime, worker
  <2>2. taken[p].id \in Jobs
    BY <2>1 DEF Base, QueueTypeOK, Leased
  <2>3. Alike(taken[p].id)
    BY <2>2, PassTimeEffect
  <2>4. /\ Present(taken[p].id)
        /\ job'[taken[p].id].task = job[taken[p].id].task
    BY <2>1, <2>3 DEF Alike
  <2> QED
    BY <2>1, <2>4 DEF Base, SameTask
<1> QED
  BY <1>1, <1>2, <1>3 DEF Base

LEMMA OnwardEffect ==
    ASSUME Base, NEW p \in Processes, NEW again \in Stages, NEW done \in Stages,
           Onward(p, again, done), todo[p] # <<>>
    PROVE /\ taken' = taken
          /\ stage' \in [Processes -> Stages] /\ todo' \in [Processes -> Seq(Chains)]
          /\ todo'[p] = Tail(todo[p])
          /\ stage'[p] = IF Tail(todo[p]) = <<>> THEN done ELSE again
          /\ \A q \in Processes \ {p} : stage'[q] = stage[q] /\ todo'[q] = todo[q]
<1>1. Tail(todo[p]) \in Seq(Chains)
  BY TailTyped DEF Base, QueueTypeOK
<1> QED
  BY <1>1 DEF Onward, Base, QueueTypeOK

LEMMA BootBase == ASSUME Base, NEW p \in Processes, Boot(p) PROVE Base'
<1> USE DEF Base, Boot, tables, worker, hooks, history
<1>1. QueueTypeOK'
  BY SeedsAreChains DEF QueueTypeOK, Stages
<1>2. Positions'
  BY SeedsAreChains DEF Positions, HasSuccessors, QueueTypeOK, Busy
<1>3. SameTask'
  BY DEF SameTask, QueueTypeOK, Present
<1> QED
  BY <1>1, <1>2, <1>3

LEMMA CheckSeedBase == ASSUME Base, NEW p \in Processes, CheckSeed(p) PROVE Base'
<1> USE DEF Base, CheckSeed, tables, worker, hooks, history
<1>a. todo[p] # <<>> /\ "check" \in Stages /\ "poll" \in Stages
  BY DEF Positions, Stages
<1>0. ForTask(Head(todo[p])) # {} =>
        /\ taken' = taken /\ stage' \in [Processes -> Stages] /\ todo' \in [Processes -> Seq(Chains)]
        /\ todo'[p] = Tail(todo[p])
        /\ stage'[p] = IF Tail(todo[p]) = <<>> THEN "poll" ELSE "check"
        /\ \A q \in Processes \ {p} : stage'[q] = stage[q] /\ todo'[q] = todo[q]
  BY <1>a, OnwardEffect
<1>1. QueueTypeOK'
  BY <1>0 DEF QueueTypeOK, Stages
<1>2. Positions'
  BY <1>0 DEF Positions, HasSuccessors, QueueTypeOK, Busy
<1>3. SameTask'
  BY <1>0 DEF SameTask, QueueTypeOK, Present
<1> QED
  BY <1>1, <1>2, <1>3

LEMMA CheckFailsBase == ASSUME Base, NEW p \in Processes, CheckFails(p) PROVE Base'
<1> USE DEF Base, CheckFails, tables, worker, hooks, history
<1>1. QueueTypeOK'
  BY TailTyped, QueueConstants DEF QueueTypeOK, Stages, Positions, Tasks
<1>2. Positions'
  BY DEF Positions, HasSuccessors, QueueTypeOK, Busy
<1>3. SameTask'
  BY DEF SameTask, QueueTypeOK, Present
<1> QED
  BY <1>1, <1>2, <1>3

LEMMA LeaseBase == ASSUME Base, NEW p \in Processes, Lease(p) PROVE Base'
<1> USE DEF Base, Lease, tables, worker, hooks, history
<1>j. PICK j \in Jobs :
        /\ Present(j)
        /\ taken' = [taken EXCEPT ![p] = [id |-> j, task |-> job[j].task,
                                         attempts |-> job[j].attempts]]
        /\ taken'[p] \in Leased /\ taken'[p] # Nothing
        /\ excused' = excused \cup TakenOver(j) /\ TakenOver(j) \subseteq Tasks
        /\ job' \in [Jobs -> JobRow \cup {NoJob}] /\ \A i \in Jobs : Alike(i)
  BY LeaseEffect
<1>1. QueueTypeOK'
  BY <1>j DEF QueueTypeOK, Stages
<1>2. Positions'
  BY <1>j DEF Positions, HasSuccessors, QueueTypeOK, Busy
<1>3. SameTask'
  BY <1>j DEF SameTask, QueueTypeOK, Present, Leased, Alike
<1> QED
  BY <1>1, <1>2, <1>3

LEMMA PerformBase == ASSUME Base, NEW p \in Processes, Perform(p) PROVE Base'
<1> USE DEF Base, Perform, tables, worker, hooks, history
<1>0. /\ taken[p] \in Leased /\ taken[p].task \in Tasks /\ taken[p].id \in Jobs
      /\ taken[p].attempts \in Nat
      /\ Present(taken[p].id) => job[taken[p].id] \in JobRow
  BY HeldTyped DEF Busy
<1>1. QueueTypeOK'
  <2>1. Unrecorded(p) \subseteq Tasks
    BY <1>0 DEF Unrecorded, Tasks
  <2> QED
    BY <2>1, SuccessorsTyped DEF QueueTypeOK, Stages
<1>2. Positions'
  BY DEF Positions, HasSuccessors, QueueTypeOK, Busy
<1>3. SameTask'
  BY DEF SameTask, QueueTypeOK, Present
<1> QED
  BY <1>1, <1>2, <1>3

LEMMA RecordBase == ASSUME Base, NEW p \in Processes, Record(p) PROVE Base'
<1> USE DEF Base, Record, tables, worker, hooks, history
<1>0. /\ taken[p] \in Leased /\ taken[p].task \in Tasks /\ taken[p].id \in Jobs
      /\ taken[p].attempts \in Nat
      /\ Present(taken[p].id) => job[taken[p].id] \in JobRow
  BY HeldTyped DEF Busy
<1>1. QueueTypeOK'
  <2>1. Unrecorded(p) \subseteq Tasks
    BY <1>0 DEF Unrecorded, Tasks
  <2>2. taken[p].task \in Deliveries
    BY DEF Positions
  <2>3. \A answer : Outcome(p, answer) \in {"none", "pending", "succeeded", "failed", "exhausted"}
    BY DEF Outcome
  <2> QED
    BY <2>1, <2>2, <2>3 DEF QueueTypeOK, Stages
<1>2. Positions'
  BY DEF Positions, HasSuccessors, QueueTypeOK, Busy
<1>3. SameTask'
  BY DEF SameTask, QueueTypeOK, Present
<1> QED
  BY <1>1, <1>2, <1>3

LEMMA CompleteBase == ASSUME Base, NEW p \in Processes, Complete(p) PROVE Base'
<1> USE DEF Base, Complete, tables, worker, hooks, history, Poll, Remove
<1>0. /\ taken[p] \in Leased /\ taken[p].task \in Tasks /\ taken[p].id \in Jobs
      /\ taken[p].attempts \in Nat
      /\ Present(taken[p].id) => job[taken[p].id] \in JobRow
  BY HeldTyped DEF Busy
<1>1. QueueTypeOK'
  <2>1. <<>> \in Seq(Chains)
    OBVIOUS
  <2>2. ahead' \subseteq Jobs \X Jobs
    BY DEF Without, QueueTypeOK
  <2> QED
    BY <1>0, <2>1, <2>2 DEF QueueTypeOK, Stages
<1>2. Positions'
  BY DEF Positions, HasSuccessors, QueueTypeOK, Busy
<1>3. SameTask'
  BY <1>0 DEF SameTask, QueueTypeOK, Present
<1> QED
  BY <1>1, <1>2, <1>3

LEMMA FailJobBase == ASSUME Base, NEW p \in Processes, FailJob(p) PROVE Base'
<1> USE DEF Base, FailJob, Poll, tables, worker, hooks, history
<1> DEFINE j == taken[p].id
<1>1. QueueTypeOK'
  <2>1. <<>> \in Seq(Chains)
    OBVIOUS
  <2>2. /\ job' \in [Jobs -> JobRow \cup {NoJob}] /\ ahead' \subseteq Jobs \X Jobs
        /\ dead' \subseteq Chains
    BY FailJobEffect DEF QueueTypeOK
  <2> QED
    BY <2>1, <2>2 DEF QueueTypeOK, Stages
<1>2. Positions'
  BY DEF Positions, HasSuccessors, QueueTypeOK, Busy
<1>3. \A i \in Jobs : job'[i] # NoJob => Present(i) /\ job'[i].task = job[i].task
  BY FailJobEffect DEF Present
<1>4. SameTask'
  <2> SUFFICES ASSUME NEW q \in Processes, taken'[q] # Nothing, job'[taken'[q].id] # NoJob
               PROVE job'[taken'[q].id].task = taken'[q].task
    BY DEF SameTask, Present
  <2>1. taken'[q] = taken[q] /\ taken[q].id \in Jobs
    BY DEF QueueTypeOK, Leased
  <2> QED
    BY <1>3, <2>1 DEF SameTask, Present
<1> QED
  BY <1>1, <1>2, <1>4

LEMMA GiveBackBase == ASSUME Base, NEW p \in Processes, GiveBack(p) PROVE Base'
<1> USE DEF Base, GiveBack, tables, worker, hooks, history, Poll
<1>0. /\ taken[p] \in Leased /\ taken[p].task \in Tasks /\ taken[p].id \in Jobs
      /\ taken[p].attempts \in Nat
      /\ Present(taken[p].id) => job[taken[p].id] \in JobRow
  BY HeldTyped DEF Busy
<1>1. QueueTypeOK'
  BY <1>0, QueueConstants DEF QueueTypeOK, Stages
<1>2. Positions'
  BY DEF Positions, HasSuccessors, QueueTypeOK, Busy
<1>3. SameTask'
  BY DEF SameTask, QueueTypeOK, Present
<1> QED
  BY <1>1, <1>2, <1>3

LEMMA CreateDeliveryBase == ASSUME Base, NEW p \in Processes, NEW d \in Deliveries, CreateDelivery(p, d) PROVE Base'
<1> USE DEF Base, CreateDelivery, tables, worker, hooks, history
<1>1. QueueTypeOK'
  BY DEF QueueTypeOK, Stages
<1>2. Positions'
  BY DEF Positions, HasSuccessors, QueueTypeOK, Busy
<1>3. SameTask'
  BY DEF SameTask, QueueTypeOK, Present
<1> QED
  BY <1>1, <1>2, <1>3

LEMMA EnqueueSendBase == ASSUME Base, NEW p \in Processes, NEW d \in Deliveries, EnqueueSend(p, d) PROVE Base'
<1> USE DEF Base, EnqueueSend, tables, worker, hooks, history
<1>4. d \in Tasks
  BY DEF Tasks
<1>5. Enqueue(d, 0) =>
        /\ job' \in [Jobs -> JobRow \cup {NoJob}] /\ ahead' \subseteq Jobs \X Jobs
        /\ begun' \subseteq Chains /\ dead' \subseteq Chains
        /\ \A q \in Processes : job'[taken[q].id] # NoJob /\ taken[q] # Nothing =>
                Present(taken[q].id) /\ job'[taken[q].id] = job[taken[q].id]
  BY <1>4, EnqueueEffect DEF QueueTypeOK, Present, Holds, Leased
<1>1. QueueTypeOK'
  BY <1>5 DEF QueueTypeOK, Stages, Tasks
<1>2. Positions'
  BY DEF Positions, HasSuccessors, QueueTypeOK, Busy
<1>3. SameTask'
  BY <1>5 DEF SameTask, QueueTypeOK, Present
<1> QED
  BY <1>1, <1>2, <1>3

LEMMA DiesBase == ASSUME Base, NEW p \in Processes, Dies(p) PROVE Base'
<1> USE DEF Base, Dies, tables, worker, hooks, history
<1>1. QueueTypeOK'
  <2>1. (IF Renewed(p) THEN {taken[p].task} ELSE {}) \subseteq Tasks
    BY DEF Renewed, Tasks
  <2>2. <<>> \in Seq(Chains)
    OBVIOUS
  <2>3. {d \in Deliveries : firing[d] = p} \subseteq Tasks
    BY DEF Tasks
  <2> QED
    BY <2>1, <2>2, <2>3, QueueConstants DEF QueueTypeOK, Stages
<1>2. Positions'
  BY DEF Positions, HasSuccessors, QueueTypeOK, Busy
<1>3. SameTask'
  BY DEF SameTask, QueueTypeOK, Present
<1> QED
  BY <1>1, <1>2, <1>3

LEMMA EnqueueTyped ==
    ASSUME NEW t \in Tasks, NEW wait \in Nat, Enqueue(t, wait), QueueTypeOK
    PROVE /\ job' \in [Jobs -> JobRow \cup {NoJob}] /\ ahead' \subseteq Jobs \X Jobs
          /\ begun' \subseteq Chains /\ dead' \subseteq Chains
          /\ \A q \in Processes : job'[taken[q].id] # NoJob /\ taken[q] # Nothing =>
                  Present(taken[q].id) /\ job'[taken[q].id] = job[taken[q].id]
<1>1. PICK j \in Jobs :
        /\ ~Present(j) /\ \A p \in Processes : ~Holds(p, j)
        /\ job' = [job EXCEPT ![j] = Row(t, wait)]
        /\ job' \in [Jobs -> JobRow \cup {NoJob}] /\ ahead' \subseteq Jobs \X Jobs
        /\ begun' = begun \cup ({t} \cap Chains) /\ dead' = dead \ {t}
  BY EnqueueEffect
<1>2. \A q \in Processes : taken[q] # Nothing =>
        /\ taken[q].id # j /\ taken[q].id \in Jobs /\ job'[taken[q].id] = job[taken[q].id]
  BY <1>1 DEF Holds, QueueTypeOK, Leased
<1>3. begun' \subseteq Chains /\ dead' \subseteq Chains
  BY <1>1 DEF QueueTypeOK
<1> QED
  BY <1>1, <1>2, <1>3 DEF Present

(* A worker at a chain it has to seed, and one with a successor to enqueue.  *)
LEMMA SeedBase == ASSUME Base, NEW p \in Processes, Seed(p) PROVE Base'
<1> USE DEF Base, Seed, tables, worker, hooks, history
<1>3. todo[p] # <<>> /\ Head(todo[p]) \in Chains /\ "check" \in Stages /\ "poll" \in Stages
  BY TailTyped DEF Positions, QueueTypeOK, Stages
<1>4. PICK t \in Tasks : t = Head(todo[p])
  BY <1>3 DEF Tasks
<1>5. Enqueue(Head(todo[p]), 0) =>
        /\ job' \in [Jobs -> JobRow \cup {NoJob}] /\ ahead' \subseteq Jobs \X Jobs
        /\ begun' \subseteq Chains /\ dead' \subseteq Chains
        /\ \A q \in Processes : job'[taken[q].id] # NoJob /\ taken[q] # Nothing =>
                Present(taken[q].id) /\ job'[taken[q].id] = job[taken[q].id]
  <2> SUFFICES ASSUME Enqueue(Head(todo[p]), 0) PROVE Enqueue(t, 0)
    BY <1>4, EnqueueTyped
  <2> QED
    BY <1>4 DEF Enqueue
<1>6. /\ taken' = taken /\ stage' \in [Processes -> Stages] /\ todo' \in [Processes -> Seq(Chains)]
      /\ todo'[p] = Tail(todo[p])
      /\ stage'[p] = IF Tail(todo[p]) = <<>> THEN "poll" ELSE "check"
      /\ \A q \in Processes \ {p} : stage'[q] = stage[q] /\ todo'[q] = todo[q]
  BY <1>3, OnwardEffect
<1>7. SeedRaces(p) \subseteq Tasks
  BY <1>4 DEF SeedRaces
<1>1. QueueTypeOK'
  BY <1>5, <1>6, <1>7 DEF QueueTypeOK, SeedRaces
<1>2. Positions'
  BY <1>6 DEF Positions, HasSuccessors, Busy
<1>8. SameTask'
  BY <1>5, <1>6 DEF SameTask, QueueTypeOK, Present
<1> QED
  BY <1>1, <1>2, <1>8

(* What is left to do, when the next successor has been enqueued. *)
LEMMA NextSuccessor ==
    ASSUME NEW p \in Processes, HasSuccessors(p), todo[p] \in Seq(Chains)
    PROVE /\ todo[p] # <<>> /\ Head(todo[p]) \in Chains
          /\ Head(todo[p]) = taken[p].task => Tail(todo[p]) =
                IF taken[p].task = "alarm_scan" THEN <<"notify_send">> ELSE <<>>
          /\ Head(todo[p]) # taken[p].task =>
                /\ taken[p].task = "alarm_scan" /\ Tail(todo[p]) = <<>>
                /\ Head(todo[p]) = "notify_send"
<1>1. CASE todo[p] = Successors(taken[p].task)
  BY <1>1, SuccessorsTyped DEF HasSuccessors
<1>2. CASE taken[p].task = "alarm_scan" /\ todo[p] = <<"notify_send">>
  BY <1>2 DEF HasSuccessors, Chains
<1> QED
  BY <1>1, <1>2 DEF HasSuccessors

LEMMA SpawnBase == ASSUME Base, NEW p \in Processes, Spawn(p) PROVE Base'
<1> USE DEF Base, Spawn, tables, worker, hooks, history
<1>a. HasSuccessors(p)
  BY DEF Positions
<1>3. todo[p] # <<>> /\ Head(todo[p]) \in Chains /\ "spawn" \in Stages /\ "complete" \in Stages
  BY <1>a, NextSuccessor DEF QueueTypeOK, Stages
<1>4. PICK t \in Tasks, wait \in Nat : t = Head(todo[p]) /\ wait = SuccessorWait(p)
  BY <1>3, QueueConstants DEF Tasks, SuccessorWait
<1>5. Enqueue(Head(todo[p]), SuccessorWait(p)) =>
        /\ job' \in [Jobs -> JobRow \cup {NoJob}] /\ ahead' \subseteq Jobs \X Jobs
        /\ begun' \subseteq Chains /\ dead' \subseteq Chains
        /\ \A q \in Processes : job'[taken[q].id] # NoJob /\ taken[q] # Nothing =>
                Present(taken[q].id) /\ job'[taken[q].id] = job[taken[q].id]
  <2> SUFFICES ASSUME Enqueue(Head(todo[p]), SuccessorWait(p)) PROVE Enqueue(t, wait)
    BY <1>4, EnqueueTyped
  <2> QED
    BY <1>4 DEF Enqueue
<1>6. Onward(p, "spawn", "complete") =>
      /\ taken' = taken /\ stage' \in [Processes -> Stages] /\ todo' \in [Processes -> Seq(Chains)]
      /\ todo'[p] = Tail(todo[p])
      /\ stage'[p] = IF Tail(todo[p]) = <<>> THEN "complete" ELSE "spawn"
      /\ \A q \in Processes \ {p} : stage'[q] = stage[q] /\ todo'[q] = todo[q]
  BY <1>3, OnwardEffect
<1>7. Onward(p, "spawn", "complete") /\ Tail(todo[p]) # <<>> => HasSuccessors(p)'
  BY <1>a, <1>6, NextSuccessor DEF HasSuccessors, QueueTypeOK
<1>1. QueueTypeOK'
  BY <1>5, <1>6 DEF QueueTypeOK, Stages
<1>9. \A q \in Processes : taken[q] # Nothing /\ job'[taken[q].id] # NoJob =>
        Present(taken[q].id) /\ job'[taken[q].id] = job[taken[q].id]
  BY <1>5 DEF Present
<1>2. Positions'
  BY <1>6, <1>7 DEF Positions, HasSuccessors, Busy, QueueTypeOK
<1>8. SameTask'
  BY <1>6, <1>9 DEF SameTask, Present
<1> QED
  BY <1>1, <1>2, <1>8

LEMMA SpawnUnansweredBase == ASSUME Base, NEW p \in Processes, SpawnUnanswered(p) PROVE Base'
<1> USE DEF Base, SpawnUnanswered, tables, worker, hooks, history
<1>a. HasSuccessors(p)
  BY DEF Positions
<1>4. PICK t \in Tasks, wait \in Nat : t = Head(todo[p]) /\ wait = SuccessorWait(p)
  BY <1>a, NextSuccessor, QueueConstants DEF Tasks, SuccessorWait, QueueTypeOK, HasSuccessors
<1>5. Enqueue(Head(todo[p]), SuccessorWait(p)) =>
        /\ job' \in [Jobs -> JobRow \cup {NoJob}] /\ ahead' \subseteq Jobs \X Jobs
        /\ begun' \subseteq Chains /\ dead' \subseteq Chains
        /\ \A q \in Processes : job'[taken[q].id] # NoJob /\ taken[q] # Nothing =>
                Present(taken[q].id) /\ job'[taken[q].id] = job[taken[q].id]
  <2> SUFFICES ASSUME Enqueue(Head(todo[p]), SuccessorWait(p)) PROVE Enqueue(t, wait)
    BY <1>4, EnqueueTyped
  <2> QED
    BY <1>4 DEF Enqueue
<1>7. taken[p].task \in Tasks
  BY HeldTyped DEF Busy
<1>1. QueueTypeOK'
  BY <1>5, <1>7, QueueConstants DEF QueueTypeOK, Stages
<1>2. Positions'
  BY DEF Positions, HasSuccessors, Busy, QueueTypeOK
<1>8. SameTask'
  BY <1>5 DEF SameTask, QueueTypeOK, Present
<1> QED
  BY <1>1, <1>2, <1>8

LEMMA BaseStep == ASSUME Base, [QueueNext]_queueVars PROVE Base'
<1>1. CASE UNCHANGED queueVars
  BY <1>1 DEF queueVars, Base, QueueTypeOK, Positions, HasSuccessors, SameTask, Present
<1>2. CASE QueueNext
  BY <1>2, PassTimeBase, BootBase, CheckSeedBase, CheckFailsBase, SeedBase, LeaseBase,
     PerformBase, SpawnBase, SpawnUnansweredBase, RecordBase, CompleteBase, FailJobBase,
     GiveBackBase, CreateDeliveryBase, EnqueueSendBase, DiesBase
     DEF QueueNext, Worker, Handlers
<1> QED
  BY <1>1, <1>2

THEOREM QueueTypes == QueueSpec => []QueueTypeOK
<1>1. Base => QueueTypeOK
  BY DEF Base
<1> QED
  BY <1>1, BaseInit, BaseStep, PTL DEF QueueSpec

---------------------------------------------------------------------------
(* Chains go on: the queue holds an open job of each chain, one whose        *)
(* successor has not been enqueued yet.                                      *)

ChainsOpen == \A t \in begun \ dead : OpenJobs(t) # {}

(* A step that enqueues nothing keeps the open jobs of the chains that are   *)
(* not dead after it, and renews none.                                       *)
LEMMA OpenKept ==
    ASSUME Base, ChainsOpen, begun' = begun, dead \subseteq dead',
           \A j \in Jobs : /\ Present(j) /\ job[j].task \in begun \ dead'
                           /\ \A q \in Processes : ~(Holds(q, j) /\ Renewed(q))
                           => job'[j] # NoJob /\ job'[j].task = job[j].task,
           \A q \in Processes : Renewed(q)' => taken'[q] = taken[q] /\ Renewed(q)
    PROVE ChainsOpen'
<1> SUFFICES ASSUME NEW t \in begun' \ dead'
             PROVE OpenJobs(t)' # {}
  BY DEF ChainsOpen
<1>1. PICK j \in OpenJobs(t) : TRUE
  BY DEF ChainsOpen
<1>2. job'[j] # NoJob /\ job'[j].task = t
  BY <1>1 DEF OpenJobs, ForTask
<1>3. \A q \in Processes : ~(Holds(q, j)' /\ Renewed(q)')
  BY <1>1 DEF OpenJobs, Holds
<1> QED
  BY <1>1, <1>2, <1>3 DEF OpenJobs, ForTask, Present

(* A step that enqueues a job of t may renew the jobs that are held of t.    *)
LEMMA OpenEnqueued ==
    ASSUME Base, ChainsOpen, NEW t \in Tasks, NEW wait \in Nat, Enqueue(t, wait),
           \A q \in Processes : taken'[q] \in {taken[q], Nothing},
           \A q \in Processes : Renewed(q)' =>
                taken'[q] = taken[q] /\ (Renewed(q) \/ taken[q].task = t)
    PROVE ChainsOpen'
<1>1. PICK j \in Jobs :
        /\ ~Present(j) /\ \A q \in Processes : ~Holds(q, j)
        /\ job' = [job EXCEPT ![j] = Row(t, wait)]
        /\ begun' = begun \cup ({t} \cap Chains) /\ dead' = dead \ {t}
  BY EnqueueEffect DEF Base
<1> SUFFICES ASSUME NEW c \in begun' \ dead'
             PROVE OpenJobs(c)' # {}
  BY DEF ChainsOpen
<1>2. CASE c = t
  <2>1. job'[j] # NoJob /\ job'[j].task = t
    BY <1>1, RowTyped DEF Base, QueueTypeOK, Row
  <2>2. \A q \in Processes : ~Holds(q, j)'
    BY <1>1 DEF Holds
  <2> QED
    BY <1>2, <2>1, <2>2 DEF OpenJobs, ForTask, Present
<1>3. CASE c # t
  <2>1. PICK i \in OpenJobs(c) : TRUE
    BY <1>1, <1>3 DEF ChainsOpen
  <2>2. i \in Jobs /\ Present(i) /\ job[i].task = c /\ i # j
    BY <1>1, <2>1 DEF OpenJobs, ForTask
  <2>3. job'[i] = job[i]
    BY <1>1, <2>2 DEF Base, QueueTypeOK
  <2>4. ASSUME NEW q \in Processes, Holds(q, i)', Renewed(q)' PROVE FALSE
    <3>1. Holds(q, i) /\ taken[q].task = c
      BY <2>2, <2>4 DEF Holds, Base, SameTask
    <3> QED
      BY <1>3, <2>1, <2>4, <3>1 DEF OpenJobs
  <2> QED
    BY <2>2, <2>3, <2>4 DEF OpenJobs, ForTask, Present
<1> QED
  BY <1>2, <1>3

(* A step of p that leaves the queue alone and does not renew its job. *)
LEMMA IdleOpen ==
    ASSUME Base, ChainsOpen, UNCHANGED <<job, begun, dead>>,
           NEW p \in Processes, Renewed(p)' => taken'[p] = taken[p] /\ Renewed(p),
           \A q \in Processes \ {p} :
              stage'[q] = stage[q] /\ taken'[q] = taken[q] /\ todo'[q] = todo[q]
    PROVE ChainsOpen'
<1>1. \A q \in Processes : Renewed(q)' => taken'[q] = taken[q] /\ Renewed(q)
  BY DEF Renewed
<1>2. \A j \in Jobs : Present(j) => job'[j] # NoJob /\ job'[j].task = job[j].task
  BY DEF Present
<1> QED
  BY <1>1, <1>2, OpenKept

LEMMA RemoveOpen ==
    ASSUME Base, ChainsOpen, NEW p \in Processes, Complete(p) \/ FailJob(p)
    PROVE ChainsOpen'
<1> DEFINE j == taken[p].id
<1>1. /\ begun' = begun /\ dead \subseteq dead'
      /\ \A q \in Processes \ {p} :
            stage'[q] = stage[q] /\ taken'[q] = taken[q] /\ todo'[q] = todo[q]
      /\ taken'[p] = Nothing
  BY DEF Complete, FailJob, Poll, Remove, tables, history, Base, QueueTypeOK
<1>2. \A q \in Processes : Renewed(q)' => taken'[q] = taken[q] /\ Renewed(q)
  BY <1>1 DEF Renewed
<1>3. taken[p] # Nothing /\ j \in Jobs
  BY HeldTyped DEF Complete, FailJob, Busy
<1>4. \A i \in Jobs : i # j /\ Present(i) => job'[i] # NoJob /\ job'[i].task = job[i].task
  BY DEF Complete, FailJob, Remove, tables, Base, QueueTypeOK, Present
<1>5. ASSUME Present(j), job[j].task \in begun \ dead', ~(Holds(p, j) /\ Renewed(p))
      PROVE job'[j] # NoJob /\ job'[j].task = job[j].task
  <2>1. job[j].task = taken[p].task /\ taken[p].task \in Chains /\ Holds(p, j)
    BY <1>3, <1>5 DEF Base, SameTask, QueueTypeOK, Holds
  <2>2. FailJob(p)
    BY <1>3, <1>5, <2>1 DEF Complete, Renewed
  <2> QED
    BY <1>5, <2>1, <2>2, FailJobEffect DEF Base, QueueTypeOK
<1> HIDE DEF j
<1>6. \A i \in Jobs : /\ Present(i) /\ job[i].task \in begun \ dead'
                      /\ \A q \in Processes : ~(Holds(q, i) /\ Renewed(q))
                      => job'[i] # NoJob /\ job'[i].task = job[i].task
  BY <1>4, <1>5
<1> QED
  BY <1>1, <1>2, <1>6, OpenKept

LEMMA PassTimeOpen == ASSUME Base, ChainsOpen, PassTime PROVE ChainsOpen'
<1>1. \A q \in Processes : Renewed(q)' => taken'[q] = taken[q] /\ Renewed(q)
  BY DEF PassTime, Renewed, worker
<1> QED
  BY <1>1, PassTimeEffect, OpenKept DEF PassTime, history, Alike

LEMMA LeaseOpen == ASSUME Base, ChainsOpen, NEW p \in Processes, Lease(p) PROVE ChainsOpen'
<1>1. \A i \in Jobs : Alike(i)
  BY LeaseEffect
<1>2. \A q \in Processes : Renewed(q)' => taken'[q] = taken[q] /\ Renewed(q)
  BY DEF Lease, Renewed, Base, QueueTypeOK
<1> QED
  BY <1>1, <1>2, OpenKept DEF Lease, Alike

LEMMA SeedOpen == ASSUME Base, ChainsOpen, NEW p \in Processes, Seed(p) PROVE ChainsOpen'
<1> USE DEF Base, Seed, tables, hooks, history
<1>1. todo[p] # <<>> /\ Head(todo[p]) \in Chains
  BY TailTyped DEF Positions, QueueTypeOK
<1>2. /\ taken' = taken /\ ~Renewed(p)'
      /\ \A q \in Processes \ {p} : stage'[q] = stage[q] /\ todo'[q] = todo[q]
  BY DEF Onward, Renewed, QueueTypeOK
<1>3. CASE Enqueue(Head(todo[p]), 0)
  <2>1. PICK t \in Tasks : t = Head(todo[p])
    BY <1>1 DEF Tasks
  <2>2. Enqueue(t, 0)
    BY <1>3, <2>1 DEF Enqueue
  <2>3. \A q \in Processes : Renewed(q)' => Renewed(q)
    BY <1>2 DEF Renewed
  <2> QED
    BY <1>2, <2>2, <2>3, OpenEnqueued
<1>4. CASE UNCHANGED <<tables, history>>
  BY <1>2, <1>4, IdleOpen
<1> QED
  BY <1>3, <1>4

(* The successor of its own chain is there before a worker counts as renewed. *)
LEMMA SpawnOpen == ASSUME Base, ChainsOpen, NEW p \in Processes, Spawn(p) PROVE ChainsOpen'
<1> USE DEF Base, Spawn, tables, hooks, history
<1>1. HasSuccessors(p) /\ Head(todo[p]) \in Chains /\ todo[p] # <<>>
  BY NextSuccessor DEF Positions, QueueTypeOK
<1>2. /\ taken' = taken
      /\ \A q \in Processes \ {p} : stage'[q] = stage[q] /\ todo'[q] = todo[q]
  BY DEF Onward, QueueTypeOK
<1>3. ErrorIgnored(p) => Renewed(p)
  BY <1>1 DEF ErrorIgnored, Renewed, HasSuccessors, Positions, Busy
<1>4. CASE Enqueue(Head(todo[p]), SuccessorWait(p))
  <2>1. PICK t \in Tasks, wait \in Nat : t = Head(todo[p]) /\ wait = SuccessorWait(p)
    BY <1>1, QueueConstants DEF Tasks, SuccessorWait
  <2>2. Enqueue(t, wait)
    BY <1>4, <2>1 DEF Enqueue
  <2>3. \A q \in Processes : Renewed(q)' => Renewed(q) \/ taken[q].task = t
    BY <1>2, <1>3, <2>1 DEF Renewed, ErrorIgnored
  <2> QED
    BY <1>2, <2>2, <2>3, OpenEnqueued
<1>5. CASE ErrorIgnored(p) /\ UNCHANGED <<tables, begun, dead>>
  BY <1>2, <1>3, <1>5, IdleOpen
<1>6. CASE ~ErrorIgnored(p) /\ StageTo(p, "fail") /\ UNCHANGED <<tables, taken, todo, begun, dead>>
  <2>1. ~Renewed(p)'
    BY <1>6 DEF Renewed, QueueTypeOK
  <2> QED
    BY <1>2, <1>6, <2>1, IdleOpen
<1> QED
  BY <1>4, <1>5, <1>6

LEMMA SpawnUnansweredOpen ==
    ASSUME Base, ChainsOpen, NEW p \in Processes, SpawnUnanswered(p)
    PROVE ChainsOpen'
<1> USE DEF Base, SpawnUnanswered
<1>1. HasSuccessors(p) /\ Head(todo[p]) \in Chains
  BY NextSuccessor DEF Positions, QueueTypeOK
<1>2. PICK t \in Tasks, wait \in Nat : t = Head(todo[p]) /\ wait = SuccessorWait(p)
  BY <1>1, QueueConstants DEF Tasks, SuccessorWait
<1>3. Enqueue(t, wait)
  BY <1>2 DEF Enqueue
<1>4. taken' = taken /\ \A q \in Processes : Renewed(q)' => Renewed(q)
  BY DEF Renewed, QueueTypeOK
<1> QED
  BY <1>3, <1>4, OpenEnqueued

LEMMA EnqueueSendOpen ==
    ASSUME Base, ChainsOpen, NEW p \in Processes, NEW d \in Deliveries, EnqueueSend(p, d)
    PROVE ChainsOpen'
<1>1. taken' = taken /\ \A q \in Processes : Renewed(q)' => Renewed(q)
  BY DEF EnqueueSend, worker, Renewed
<1>2. CASE Enqueue(d, 0)
  <2>1. d \in Tasks /\ 0 \in Nat
    BY DEF Tasks
  <2> QED
    BY <1>1, <1>2, <2>1, OpenEnqueued
<1>3. CASE UNCHANGED <<tables, begun, dead>>
  BY <1>1, <1>3, OpenKept DEF tables, Present
<1> QED
  BY <1>2, <1>3 DEF EnqueueSend

LEMMA OpenStep == ASSUME Base, ChainsOpen, [QueueNext]_queueVars PROVE ChainsOpen'
<1> USE DEF Base, QueueTypeOK, tables, worker, hooks, history
<1>1. CASE UNCHANGED queueVars
  BY <1>1 DEF queueVars, ChainsOpen, OpenJobs, ForTask, Present, Holds, Renewed
<1>2. ASSUME NEW p \in Processes, Boot(p) PROVE ChainsOpen'
  BY <1>2, IdleOpen DEF Boot, Renewed
<1>3. ASSUME NEW p \in Processes, CheckSeed(p) PROVE ChainsOpen'
  <2>1. ~Renewed(p)'
    BY <1>3 DEF CheckSeed, Onward, Renewed
  <2>2. UNCHANGED <<job, begun, dead, taken>>
    BY <1>3 DEF CheckSeed, Onward
  <2>3. \A q \in Processes \ {p} : stage'[q] = stage[q] /\ todo'[q] = todo[q]
    BY <1>3 DEF CheckSeed, Onward
  <2> QED
    BY <2>1, <2>2, <2>3, IdleOpen
<1>4. ASSUME NEW p \in Processes, CheckFails(p) PROVE ChainsOpen'
  BY <1>4, IdleOpen DEF CheckFails, Renewed
<1>5. ASSUME NEW p \in Processes, Perform(p) PROVE ChainsOpen'
  <2>1. taken[p].task \in Chains => Head(Successors(taken[p].task)) = taken[p].task
    BY SuccessorsTyped
  <2>2. ~Renewed(p)'
    BY <1>5, <2>1 DEF Perform, Renewed
  <2> QED
    BY <1>5, <2>2, IdleOpen DEF Perform
<1>6. ASSUME NEW p \in Processes, Record(p) PROVE ChainsOpen'
  <2>1. ~Renewed(p)'
    BY <1>6, QueueConstants DEF Record, Renewed, Positions
  <2> QED
    BY <1>6, <2>1, IdleOpen DEF Record
<1>7. ASSUME NEW p \in Processes, GiveBack(p) PROVE ChainsOpen'
  BY <1>7, IdleOpen DEF GiveBack, Poll, Renewed
<1>8. ASSUME NEW p \in Processes, Dies(p) PROVE ChainsOpen'
  BY <1>8, IdleOpen DEF Dies, Renewed
<1>9. ASSUME NEW p \in Processes, NEW d \in Deliveries, CreateDelivery(p, d) PROVE ChainsOpen'
  BY <1>9, IdleOpen DEF CreateDelivery, Renewed
<1>10. CASE QueueNext
  BY <1>2, <1>3, <1>4, <1>5, <1>6, <1>7, <1>8, <1>9, <1>10, PassTimeOpen, SeedOpen, LeaseOpen,
     SpawnOpen, SpawnUnansweredOpen, RemoveOpen, EnqueueSendOpen DEF QueueNext, Worker, Handlers
<1> QED
  BY <1>1, <1>10

(* Of a chain that was started and whose job has not failed for good, a job  *)
(* is in the queue, whatever processes die and whatever leases run out.      *)
THEOREM ChainsLive == QueueSpec => []ChainAlive
<1>1. QueueInit => ChainsOpen
  BY DEF QueueInit, ChainsOpen
<1>2. Base /\ ChainsOpen => ChainAlive
  BY DEF ChainsOpen, ChainAlive, OpenJobs
<1> QED
  BY <1>1, <1>2, BaseInit, BaseStep, OpenStep, PTL DEF QueueSpec

---------------------------------------------------------------------------
(* As long as no mishap is named for a task, whoever holds a job of it is    *)
(* alone with it, and the row is as it was leased.                           *)

HeldOnce ==
    \A p \in Processes : taken[p] # Nothing /\ taken[p].task \notin excused =>
        /\ Present(taken[p].id) /\ job[taken[p].id].attempts = taken[p].attempts
        /\ \A q \in Processes : Holds(q, taken[p].id) => q = p

LEMMA HeldKept ==
    ASSUME Base, HeldOnce, excused \subseteq excused',
           \A q \in Processes : taken'[q] \in {taken[q], Nothing},
           \A q \in Processes : taken'[q] # Nothing /\ taken[q].task \notin excused' =>
                job'[taken[q].id] # NoJob /\ job'[taken[q].id].attempts = job[taken[q].id].attempts
    PROVE HeldOnce'
<1> SUFFICES ASSUME NEW p \in Processes, taken'[p] # Nothing, taken'[p].task \notin excused'
             PROVE /\ job'[taken'[p].id] # NoJob
                   /\ job'[taken'[p].id].attempts = taken'[p].attempts
                   /\ \A q \in Processes : taken'[q] # Nothing /\ taken'[q].id = taken'[p].id
                                              => q = p
  BY DEF HeldOnce, Present, Holds
<1>1. taken'[p] = taken[p] /\ taken[p].task \notin excused
  OBVIOUS
<1>2. \A q \in Processes : taken'[q] # Nothing => taken'[q] = taken[q]
  OBVIOUS
<1> QED
  BY <1>1, <1>2 DEF HeldOnce, Holds

LEMMA RowUnheld ==
    ASSUME Base, HeldOnce, NEW t \in Tasks, NEW wait \in Nat, Enqueue(t, wait)
    PROVE \A q \in Processes : taken[q] # Nothing /\ taken[q].task \notin excused =>
              job'[taken[q].id] # NoJob /\ job'[taken[q].id].attempts = job[taken[q].id].attempts
<1>1. PICK j \in Jobs :
        /\ \A q \in Processes : ~Holds(q, j)
        /\ job' = [job EXCEPT ![j] = Row(t, wait)]
  BY EnqueueEffect DEF Base
<1> QED
  BY <1>1 DEF HeldOnce, Present, Holds, Base, QueueTypeOK, Leased

LEMMA LeaseHeld == ASSUME Base, HeldOnce, NEW p \in Processes, Lease(p) PROVE HeldOnce'
<1>1. PICK j \in Jobs :
        /\ Present(j)
        /\ taken' = [taken EXCEPT ![p] = [id |-> j, task |-> job[j].task,
                                         attempts |-> job[j].attempts]]
        /\ excused' = excused \cup TakenOver(j)
        /\ \A i \in Jobs : Alike(i)
  BY LeaseEffect
<1>2. taken'[p].id = j /\ taken'[p].task = job[j].task /\ taken'[p].attempts = job[j].attempts
  BY <1>1 DEF Base, QueueTypeOK
<1>3. taken[p] = Nothing /\ \A q \in Processes \ {p} : taken'[q] = taken[q]
  BY <1>1 DEF Lease, Base, Positions, Busy
<1>4. job[j].task \notin excused' => \A q \in Processes : ~Holds(q, j)
  BY <1>1 DEF TakenOver
<1> SUFFICES ASSUME NEW q \in Processes, taken'[q] # Nothing, taken'[q].task \notin excused'
             PROVE /\ job'[taken'[q].id] # NoJob
                   /\ job'[taken'[q].id].attempts = taken'[q].attempts
                   /\ \A r \in Processes : taken'[r] # Nothing /\ taken'[r].id = taken'[q].id
                                              => r = q
  BY DEF HeldOnce, Present, Holds
<1>5. CASE q = p
  <2>1. job'[j] # NoJob /\ job'[j].attempts = job[j].attempts
    BY <1>1 DEF Alike
  <2>2. \A r \in Processes : taken'[r] # Nothing /\ taken'[r].id = j => r = p
    BY <1>2, <1>3, <1>4, <1>5 DEF Holds
  <2> QED
    BY <1>2, <1>5, <2>1, <2>2
<1>6. CASE q # p
  <2>1. /\ taken'[q] = taken[q] /\ taken[q].task \notin excused /\ taken[q].id \in Jobs
        /\ Present(taken[q].id) /\ job[taken[q].id].attempts = taken[q].attempts
        /\ job[taken[q].id].task = taken[q].task
    BY <1>1, <1>3, <1>6 DEF HeldOnce, Base, SameTask, QueueTypeOK, Leased
  <2>2. taken[q].id # j
    BY <1>1, <1>4, <1>6, <2>1 DEF Holds
  <2>3. \A r \in Processes : taken'[r] # Nothing /\ taken'[r].id = taken[q].id => r = q
    BY <1>2, <1>3, <2>1, <2>2 DEF HeldOnce, Holds
  <2> QED
    BY <1>1, <2>1, <2>3 DEF Alike
<1> QED
  BY <1>5, <1>6

LEMMA RemoveHeld ==
    ASSUME Base, HeldOnce, NEW p \in Processes, Complete(p) \/ FailJob(p)
    PROVE HeldOnce'
<1> DEFINE j == taken[p].id
<1>1. /\ excused' = excused /\ taken'[p] = Nothing
      /\ \A q \in Processes \ {p} : taken'[q] = taken[q]
  BY DEF Complete, FailJob, Poll, history, Base, QueueTypeOK
<1>2. Holds(p, j)
  BY HeldTyped DEF Complete, FailJob, Busy, Holds
<1>3. \A i \in Jobs \ {j} : job'[i] = job[i]
  <2>1. CASE Complete(p)
    BY <2>1 DEF Complete, Remove, Base, QueueTypeOK
  <2>2. CASE FailJob(p)
    BY <2>2, FailJobEffect
  <2> QED
    BY <2>1, <2>2
<1> HIDE DEF j
<1>4. ASSUME NEW q \in Processes, taken'[q] # Nothing, taken[q].task \notin excused'
      PROVE /\ job'[taken[q].id] # NoJob
            /\ job'[taken[q].id].attempts = job[taken[q].id].attempts
  <2>1. q # p /\ taken[q] # Nothing /\ taken[q].id \in Jobs
    BY <1>1, <1>4 DEF Base, QueueTypeOK, Leased
  <2>2. Present(taken[q].id) /\ taken[q].id # j
    BY <1>1, <1>2, <1>4, <2>1 DEF HeldOnce
  <2> QED
    BY <1>3, <2>1, <2>2 DEF Present
<1> QED
  BY <1>1, <1>4, HeldKept

LEMMA EnqueueHeld ==
    ASSUME Base, HeldOnce, NEW p \in Processes,
           \/ Seed(p) \/ Spawn(p) \/ SpawnUnanswered(p)
           \/ \E d \in Deliveries : EnqueueSend(p, d)
    PROVE HeldOnce'
<1> USE DEF tables, worker, history
<1>1. taken' = taken /\ excused \subseteq excused'
  BY DEF Seed, Spawn, SpawnUnanswered, EnqueueSend, Onward
<1>2. CASE job' = job
  BY <1>1, <1>2, HeldKept DEF HeldOnce, Present
<1>3. CASE \E t \in Tasks, wait \in Nat : Enqueue(t, wait)
  BY <1>1, <1>3, RowUnheld, HeldKept
<1>4. job' = job \/ \E t \in Tasks, wait \in Nat : Enqueue(t, wait)
  <2>1. ASSUME NEW d \in Deliveries, EnqueueSend(p, d) PROVE <1>4!1 \/ <1>4!2
    BY <2>1 DEF EnqueueSend, Tasks
  <2>2. CASE Seed(p)
    <3>1. PICK t \in Tasks : t = Head(todo[p])
      BY <2>2, TailTyped DEF Seed, Base, Positions, QueueTypeOK, Tasks
    <3>2. CASE Enqueue(Head(todo[p]), 0)
      <4>1. Enqueue(t, 0)
        BY <3>1, <3>2 DEF Enqueue
      <4> QED
        BY <4>1
    <3> QED
      BY <2>2, <3>2 DEF Seed
  <2>3. CASE Spawn(p) \/ SpawnUnanswered(p)
    <3>1. HasSuccessors(p)
      BY <2>3 DEF Spawn, SpawnUnanswered, Base, Positions
    <3>2. PICK t \in Tasks, wait \in Nat : t = Head(todo[p]) /\ wait = SuccessorWait(p)
      BY <3>1, NextSuccessor, QueueConstants DEF Tasks, SuccessorWait, QueueTypeOK, Base,
                                                 HasSuccessors
    <3>3. CASE Enqueue(Head(todo[p]), SuccessorWait(p))
      <4>1. Enqueue(t, wait)
        BY <3>2, <3>3 DEF Enqueue
      <4> QED
        BY <4>1
    <3> QED
      BY <2>3, <3>3 DEF Spawn, SpawnUnanswered
  <2> QED
    BY <2>1, <2>2, <2>3
<1> QED
  BY <1>2, <1>3, <1>4

LEMMA HeldStep == ASSUME Base, HeldOnce, [QueueNext]_queueVars PROVE HeldOnce'
<1> USE DEF tables, worker, hooks, history
<1>1. CASE UNCHANGED queueVars
  BY <1>1 DEF queueVars, HeldOnce, Present, Holds
<1>2. CASE PassTime
  <2>1. \A q \in Processes : taken[q] # Nothing /\ taken[q].task \notin excused =>
           job'[taken[q].id] # NoJob /\ job'[taken[q].id].attempts = job[taken[q].id].attempts
    BY <1>2, PassTimeEffect DEF HeldOnce, Alike, Base, QueueTypeOK, Leased
  <2> QED
    BY <1>2, <2>1, HeldKept DEF PassTime
<1>3. ASSUME NEW p \in Processes, job' = job, excused \subseteq excused',
             \A q \in Processes : taken'[q] \in {taken[q], Nothing}
      PROVE HeldOnce'
  BY <1>3, HeldKept DEF HeldOnce, Present
<1>4. ASSUME NEW p \in Processes,
             \/ Boot(p) \/ CheckSeed(p) \/ CheckFails(p) \/ Perform(p) \/ Record(p)
             \/ GiveBack(p) \/ Dies(p) \/ \E d \in Deliveries : CreateDelivery(p, d)
      PROVE HeldOnce'
  <2>1. job' = job /\ excused \subseteq excused'
    BY <1>4 DEF Boot, CheckSeed, CheckFails, Perform, Record, GiveBack, Dies, CreateDelivery
  <2>2. taken' = taken \/ taken' = [taken EXCEPT ![p] = Nothing]
    BY <1>4 DEF Boot, CheckSeed, CheckFails, Perform, Record, GiveBack, Dies, CreateDelivery,
                Onward, Poll
  <2>3. \A q \in Processes : taken'[q] \in {taken[q], Nothing}
    BY <2>2 DEF Base, QueueTypeOK
  <2> QED
    BY <1>3, <2>1, <2>3
<1> QED
  BY <1>1, <1>2, <1>4, LeaseHeld, RemoveHeld, EnqueueHeld DEF QueueNext, Worker, Handlers

---------------------------------------------------------------------------
(* A seeded chain does not fork: nobody seeds a chain that has a job, and    *)
(* the job that is open is the one whose successor is enqueued next.         *)

SingleFor(t) ==
    /\ \A i, j \in OpenJobs(t) : i = j
    /\ \A p \in Processes : stage[p] = "seed" /\ Head(todo[p]) = t => ForTask(t) = {}
Single == \A t \in Seeded \ excused : SingleFor(t)

LEMMA SeededAreChains == Seeded \subseteq Chains \ {"notify_send"}
<1>1. \A n \in DOMAIN Seeds : Seeds[n] \in Chains \ {"notify_send"}
  BY QueueConstants
<1> QED
  BY <1>1 DEF Seeded

LEMMA SingleKept ==
    ASSUME Base, NEW t \in Seeded, SingleFor(t),
           \A i \in Jobs : job'[i] # NoJob /\ job'[i].task = t => Present(i) /\ job[i].task = t,
           \A q \in Processes : Renewed(q) /\ taken[q].task = t /\ job'[taken[q].id] # NoJob
                                   => taken'[q] = taken[q] /\ Renewed(q)',
           \A q \in Processes : stage'[q] = "seed" /\ Head(todo'[q]) = t =>
                (stage[q] = "seed" /\ Head(todo[q]) = t) \/ ForTask(t) = {}
    PROVE SingleFor(t)'
<1>1. ForTask(t)' \subseteq ForTask(t)
  BY DEF ForTask, Present
<1>2. ASSUME NEW i \in OpenJobs(t)' PROVE i \in OpenJobs(t)
  <2>1. /\ i \in ForTask(t) /\ i \in Jobs /\ Present(i) /\ job[i].task = t /\ job'[i] # NoJob
        /\ \A q \in Processes : ~(Holds(q, i)' /\ Renewed(q)')
    BY <1>1, <1>2 DEF OpenJobs, ForTask, Present
  <2>2. ASSUME NEW q \in Processes, Holds(q, i), Renewed(q) PROVE FALSE
    <3>1. taken[q].id = i /\ taken[q].task = t
      BY <2>1, <2>2 DEF Holds, Base, SameTask
    <3>2. taken'[q] = taken[q] /\ Renewed(q)'
      BY <2>1, <2>2, <3>1
    <3> QED
      BY <2>1, <2>2, <3>1, <3>2 DEF Holds
  <2> QED
    BY <2>1, <2>2 DEF OpenJobs
<1>3. \A i, j \in OpenJobs(t)' : i = j
  BY <1>2 DEF SingleFor
<1>4. \A q \in Processes : stage'[q] = "seed" /\ Head(todo'[q]) = t => ForTask(t)' = {}
  BY <1>1 DEF SingleFor
<1> QED
  BY <1>3, <1>4 DEF SingleFor

(* Steps that enqueue nothing. *)
LEMMA QuietSingle ==
    ASSUME Base, Single, NEW p \in Processes,
           \/ Boot(p) \/ CheckSeed(p) \/ CheckFails(p) \/ Perform(p) \/ Record(p)
           \/ GiveBack(p) \/ Dies(p) \/ \E d \in Deliveries : CreateDelivery(p, d)
    PROVE Single'
<1> USE DEF tables, worker, hooks, history
<1> SUFFICES ASSUME NEW t \in Seeded, t \notin excused' PROVE SingleFor(t)'
  BY DEF Single
<1>1. job' = job /\ excused \subseteq excused'
  BY DEF Boot, CheckSeed, CheckFails, Perform, Record, GiveBack, Dies, CreateDelivery
<1>2. SingleFor(t) /\ t \in Chains
  BY <1>1, SeededAreChains DEF Single
<1>3. \A q \in Processes \ {p} : stage'[q] = stage[q] /\ taken'[q] = taken[q] /\ todo'[q] = todo[q]
  BY DEF Boot, CheckSeed, CheckFails, Perform, Record, GiveBack, Dies, CreateDelivery, Onward, Poll,
         Base, QueueTypeOK
<1>4. Renewed(p) /\ taken[p].task = t => taken'[p] = taken[p] /\ Renewed(p)'
  BY <1>2 DEF Boot, CheckSeed, CheckFails, Perform, Record, GiveBack, Dies, CreateDelivery, Onward,
         Poll, Renewed
<1>5. stage'[p] = "seed" /\ Head(todo'[p]) = t =>
         (stage[p] = "seed" /\ Head(todo[p]) = t) \/ ForTask(t) = {}
  BY DEF Boot, CheckSeed, CheckFails, Perform, Record, GiveBack, Dies, CreateDelivery, Onward, Poll,
         Base, QueueTypeOK
<1>6. \A q \in Processes : Renewed(q) /\ taken[q].task = t => taken'[q] = taken[q] /\ Renewed(q)'
  BY <1>3, <1>4 DEF Renewed
<1> QED
  BY <1>1, <1>2, <1>3, <1>5, <1>6, SingleKept DEF Present

LEMMA TableSingle ==
    ASSUME Base, Single, NEW p \in Processes, Lease(p) \/ Complete(p) \/ FailJob(p)
    PROVE Single'
<1> USE DEF tables, worker, hooks, history
<1> SUFFICES ASSUME NEW t \in Seeded, t \notin excused' PROVE SingleFor(t)'
  BY DEF Single
<1>1. excused \subseteq excused'
  BY DEF Lease, Complete, FailJob
<1>2. SingleFor(t)
  BY <1>1 DEF Single
<1>3. \A q \in Processes \ {p} : stage'[q] = stage[q] /\ taken'[q] = taken[q] /\ todo'[q] = todo[q]
  BY DEF Lease, Complete, FailJob, Poll, Base, QueueTypeOK
<1>4. \A i \in Jobs : job'[i] # NoJob => Present(i) /\ job'[i].task = job[i].task
  <2>1. CASE Lease(p)
    BY <2>1, LeaseEffect DEF Alike
  <2>2. CASE Complete(p)
    BY <2>2 DEF Complete, Remove, Base, QueueTypeOK, Present
  <2>3. CASE FailJob(p)
    BY <2>3, FailJobEffect DEF Present
  <2> QED
    BY <2>1, <2>2, <2>3
<1>5. ~(Renewed(p) /\ job'[taken[p].id] # NoJob)
  <2>1. CASE Lease(p)
    BY <2>1 DEF Lease, Renewed
  <2>2. CASE Complete(p)
    <3>1. taken[p].id \in Jobs
      BY <2>2, HeldTyped DEF Complete, Busy
    <3> QED
      BY <2>2, <3>1 DEF Complete, Remove, Base, QueueTypeOK
  <2>3. CASE FailJob(p)
    BY <2>3 DEF FailJob, Renewed
  <2> QED
    BY <2>1, <2>2, <2>3
<1>6. \A q \in Processes : Renewed(q) /\ taken[q].task = t /\ job'[taken[q].id] # NoJob
                              => taken'[q] = taken[q] /\ Renewed(q)'
  BY <1>3, <1>5 DEF Renewed
<1>7. stage'[p] # "seed"
  BY DEF Lease, Complete, FailJob, Poll, Base, QueueTypeOK
<1> QED
  BY <1>2, <1>3, <1>4, <1>6, <1>7, SingleKept

LEMMA PassTimeSingle == ASSUME Base, Single, PassTime PROVE Single'
<1> SUFFICES ASSUME NEW t \in Seeded, t \notin excused PROVE SingleFor(t)'
  BY DEF Single, PassTime, history
<1>1. UNCHANGED <<stage, taken, todo>> /\ \A i \in Jobs : Alike(i)
  BY PassTimeEffect DEF PassTime, worker
<1>2. \A i \in Jobs : job'[i] # NoJob => Present(i) /\ job'[i].task = job[i].task
  BY <1>1 DEF Alike
<1>3. \A q \in Processes : Renewed(q) => Renewed(q)'
  BY <1>1 DEF Renewed
<1>4. SingleFor(t)
  BY DEF Single
<1> QED
  BY <1>1, <1>2, <1>3, <1>4, SingleKept

(* A job of another task is enqueued. *)
LEMMA OtherEnqueued ==
    ASSUME Base, NEW t \in Seeded, SingleFor(t), NEW c \in Tasks \ {t}, NEW wait \in Nat,
           Enqueue(c, wait), taken' = taken,
           \A q \in Processes : Renewed(q) /\ taken[q].task = t => Renewed(q)',
           \A q \in Processes : stage'[q] = "seed" /\ Head(todo'[q]) = t =>
                stage[q] = "seed" /\ Head(todo[q]) = t
    PROVE SingleFor(t)'
<1>1. PICK j \in Jobs : job' = [job EXCEPT ![j] = Row(c, wait)]
  BY EnqueueEffect DEF Base
<1>2. \A i \in Jobs : job'[i] # NoJob /\ job'[i].task = t => Present(i) /\ job[i].task = t
  BY <1>1 DEF Row, Base, QueueTypeOK, Present
<1> QED
  BY <1>2, SingleKept

(* The only job of t is enqueued, or one beside a job that is renewed. *)
LEMMA OneEnqueued ==
    ASSUME Base, NEW t \in Tasks, NEW wait \in Nat, Enqueue(t, wait),
           \A i \in ForTask(t) : \E q \in Processes : Holds(q, i)' /\ Renewed(q)',
           \A q \in Processes : ~(stage'[q] = "seed" /\ Head(todo'[q]) = t)
    PROVE SingleFor(t)'
<1>1. PICK j \in Jobs : job' = [job EXCEPT ![j] = Row(t, wait)]
  BY EnqueueEffect DEF Base
<1>2. ASSUME NEW i \in OpenJobs(t)' PROVE i = j
  <2>1. i \in Jobs /\ job'[i] # NoJob /\ job'[i].task = t
    BY <1>2 DEF OpenJobs, ForTask, Present
  <2>2. i \notin ForTask(t)
    BY <1>2 DEF OpenJobs
  <2>3. job'[i] # job[i]
    BY <2>1, <2>2 DEF ForTask, Present
  <2> QED
    BY <1>1, <2>1, <2>3 DEF Base, QueueTypeOK
<1> QED
  BY <1>2 DEF SingleFor

LEMMA SeedSingle == ASSUME Base, Single, NEW p \in Processes, Seed(p) PROVE Single'
<1> USE DEF tables, worker, hooks, history
<1> SUFFICES ASSUME NEW t \in Seeded, t \notin excused' PROVE SingleFor(t)'
  BY DEF Single
<1>1. PICK c \in Chains : c = Head(todo[p])
  BY TailTyped DEF Seed, Base, Positions, QueueTypeOK
<1>2. /\ taken' = taken /\ excused \subseteq excused' /\ stage'[p] # "seed"
      /\ \A q \in Processes \ {p} : stage'[q] = stage[q] /\ todo'[q] = todo[q]
  BY DEF Seed, Onward, Base, QueueTypeOK
<1>3. SingleFor(t) /\ t \in Chains
  BY <1>2, SeededAreChains DEF Single
<1>4. \A q \in Processes : Renewed(q) => Renewed(q)'
  BY <1>2 DEF Seed, Renewed
<1>5. CASE Enqueue(Head(todo[p]), 0) /\ excused' = excused \cup SeedRaces(p)
  <2>1. Enqueue(c, 0) /\ c \in Tasks
    BY <1>1, <1>5 DEF Enqueue, Tasks
  <2>2. CASE c = t
    <3>1. ForTask(t) = {}
      BY <1>1, <1>3, <2>2 DEF SingleFor, Seed
    <3>2. \A q \in Processes : ~(stage'[q] = "seed" /\ Head(todo'[q]) = t)
      BY <1>1, <1>2, <1>5, <2>2 DEF SeedRaces, Seed
    <3> QED
      BY <2>1, <2>2, <3>1, <3>2, OneEnqueued
  <2>3. CASE c # t
    BY <1>2, <1>3, <1>4, <2>1, <2>3, OtherEnqueued
  <2> QED
    BY <2>2, <2>3
<1>6. CASE UNCHANGED <<tables, history>>
  BY <1>2, <1>3, <1>4, <1>6, SingleKept DEF Present
<1> QED
  BY <1>5, <1>6 DEF Seed

(* The worker is renewed with the row it enqueues, and alone with its own.   *)
LEMMA SpawnSingle ==
    ASSUME Base, HeldOnce, Single, NEW p \in Processes, Spawn(p)
    PROVE Single'
<1> USE DEF tables, worker, hooks, history
<1> SUFFICES ASSUME NEW t \in Seeded, t \notin excused' PROVE SingleFor(t)'
  BY DEF Single
<1>1. HasSuccessors(p) /\ Head(todo[p]) \in Chains /\ taken[p] # Nothing
  BY NextSuccessor DEF Spawn, Base, Positions, QueueTypeOK, Busy
<1>2. /\ taken' = taken /\ excused' = excused /\ stage'[p] # "seed"
      /\ \A q \in Processes \ {p} : stage'[q] = stage[q] /\ todo'[q] = todo[q]
  BY DEF Spawn, Onward, Base, QueueTypeOK
<1>3. SingleFor(t) /\ t \in Chains /\ t # "notify_send"
  BY <1>2, SeededAreChains DEF Single
<1>4. CASE /\ Onward(p, "spawn", "complete")
           /\ \/ Enqueue(Head(todo[p]), SuccessorWait(p))
              \/ ErrorIgnored(p) /\ UNCHANGED tables
  <2>1. todo'[p] = Tail(todo[p]) /\ stage'[p] = IF Tail(todo[p]) = <<>> THEN "complete" ELSE "spawn"
    BY <1>4 DEF Onward, Base, QueueTypeOK
  <2>2. Renewed(p)'
    <3>1. CASE Head(todo[p]) = taken[p].task /\ taken[p].task = "alarm_scan"
      <4>1. Tail(todo[p]) = <<"notify_send">>
        BY <1>1, <3>1, NextSuccessor DEF Base, QueueTypeOK
      <4>2. todo'[p] = <<"notify_send">> /\ stage'[p] = "spawn"
        BY <2>1, <4>1
      <4>3. Head(todo'[p]) # taken[p].task
        BY <3>1, <4>2
      <4> QED
        BY <1>1, <1>2, <4>2, <4>3 DEF Renewed, HasSuccessors
    <3>2. CASE Head(todo[p]) = taken[p].task /\ taken[p].task # "alarm_scan"
      BY <1>1, <1>2, <2>1, <3>2, NextSuccessor DEF Renewed, HasSuccessors, Base, QueueTypeOK
    <3>3. CASE Head(todo[p]) # taken[p].task
      BY <1>1, <1>2, <2>1, <3>3, NextSuccessor DEF Renewed, HasSuccessors, Base, QueueTypeOK
    <3> QED
      BY <3>1, <3>2, <3>3
  <2>3. \A q \in Processes : Renewed(q) => Renewed(q)'
    BY <1>2, <2>2 DEF Renewed
  <2>4. CASE UNCHANGED tables
    BY <1>2, <1>3, <2>3, <2>4, SingleKept DEF Present
  <2>5. CASE Enqueue(Head(todo[p]), SuccessorWait(p))
    <3>1. PICK c \in Tasks, wait \in Nat : c = Head(todo[p]) /\ wait = SuccessorWait(p)
      BY <1>1, QueueConstants DEF Tasks, SuccessorWait
    <3>2. Enqueue(c, wait)
      BY <2>5, <3>1 DEF Enqueue
    <3>3. CASE c # t
      BY <1>2, <1>3, <2>3, <3>2, <3>3, OtherEnqueued
    <3>4. CASE c = t
      <4>1. taken[p].task = t /\ ~Renewed(p)
        BY <1>1, <1>3, <3>1, <3>4, NextSuccessor DEF Renewed, Base, QueueTypeOK, Spawn
      <4> DEFINE own == taken[p].id
      <4>2. own \in OpenJobs(t)
        <5>1. own \in Jobs /\ Present(own) /\ job[own].task = t
          BY <1>1, <1>2, <4>1 DEF HeldOnce, Base, SameTask, QueueTypeOK, Leased
        <5>2. \A q \in Processes : Holds(q, own) => q = p
          BY <1>1, <1>2, <4>1 DEF HeldOnce
        <5> QED
          BY <4>1, <5>1, <5>2 DEF OpenJobs, ForTask
      <4>3. ASSUME NEW i \in ForTask(t)
            PROVE \E q \in Processes : Holds(q, i)' /\ Renewed(q)'
        <5>1. CASE i = own
          BY <1>1, <1>2, <2>2, <5>1 DEF Holds
        <5>2. CASE i # own
          <6>1. i \notin OpenJobs(t)
            BY <1>3, <4>2, <5>2 DEF SingleFor
          <6> QED
            BY <1>2, <2>3, <4>3, <6>1 DEF OpenJobs, Holds
        <5> QED
          BY <5>1, <5>2
      <4>4. \A q \in Processes : ~(stage'[q] = "seed" /\ Head(todo'[q]) = t)
        BY <1>2, <1>3, <4>2 DEF SingleFor, OpenJobs
      <4> QED
        BY <3>2, <3>4, <4>3, <4>4, OneEnqueued
    <3> QED
      BY <3>3, <3>4
  <2> QED
    BY <1>4, <2>4, <2>5
<1>5. CASE ~ErrorIgnored(p) /\ StageTo(p, "fail") /\ UNCHANGED <<tables, taken, todo>>
  <2>1. ~Renewed(p)
    BY <1>5 DEF ErrorIgnored, Renewed, Spawn
  <2>2. \A q \in Processes : Renewed(q) => Renewed(q)'
    BY <1>2, <2>1 DEF Renewed
  <2> QED
    BY <1>2, <1>3, <1>5, <2>2, SingleKept DEF Present
<1> QED
  BY <1>4, <1>5 DEF Spawn

LEMMA SpawnUnansweredSingle ==
    ASSUME Base, Single, NEW p \in Processes, SpawnUnanswered(p)
    PROVE Single'
<1> USE DEF tables, worker, hooks, history
<1> SUFFICES ASSUME NEW t \in Seeded, t \notin excused' PROVE SingleFor(t)'
  BY DEF Single
<1>1. HasSuccessors(p) /\ Head(todo[p]) \in Chains
  BY NextSuccessor DEF SpawnUnanswered, Base, Positions, QueueTypeOK
<1>2. PICK c \in Tasks, wait \in Nat : c = Head(todo[p]) /\ wait = SuccessorWait(p)
  BY <1>1, QueueConstants DEF Tasks, SuccessorWait
<1>3. Enqueue(c, wait)
  BY <1>2 DEF Enqueue, SpawnUnanswered
<1>4. c # t /\ excused \subseteq excused'
  BY <1>2 DEF SpawnUnanswered, ErrorIgnored
<1>5. SingleFor(t)
  BY <1>4 DEF Single
<1>6. \A q \in Processes : Renewed(q) => Renewed(q)'
  BY DEF SpawnUnanswered, Renewed, ErrorIgnored, Base, QueueTypeOK
<1>7. taken' = taken /\ \A q \in Processes : stage'[q] = "seed" => stage[q] = "seed" /\ todo'[q] = todo[q]
  BY DEF SpawnUnanswered, Base, QueueTypeOK
<1> QED
  BY <1>3, <1>4, <1>5, <1>6, <1>7, OtherEnqueued

LEMMA EnqueueSendSingle ==
    ASSUME Base, Single, NEW p \in Processes, NEW d \in Deliveries, EnqueueSend(p, d)
    PROVE Single'
<1> USE DEF tables, worker, hooks, history
<1> SUFFICES ASSUME NEW t \in Seeded, t \notin excused' PROVE SingleFor(t)'
  BY DEF Single
<1>1. UNCHANGED <<stage, taken, todo>> /\ excused \subseteq excused'
  BY DEF EnqueueSend
<1>2. SingleFor(t) /\ t # d /\ d \in Tasks /\ 0 \in Nat
  BY <1>1, SeededAreChains, QueueConstants DEF Single, Tasks
<1>3. \A q \in Processes : Renewed(q) => Renewed(q)'
  BY <1>1 DEF Renewed
<1>4. CASE Enqueue(d, 0)
  BY <1>1, <1>2, <1>3, <1>4, OtherEnqueued
<1>5. CASE UNCHANGED <<tables, begun, dead>>
  BY <1>1, <1>2, <1>3, <1>5, SingleKept DEF Present
<1> QED
  BY <1>4, <1>5 DEF EnqueueSend

LEMMA SingleStep == ASSUME Base, HeldOnce, Single, [QueueNext]_queueVars PROVE Single'
<1>1. CASE UNCHANGED queueVars
  BY <1>1 DEF queueVars, Single, SingleFor, OpenJobs, ForTask, Present, Holds, Renewed
<1> QED
  BY <1>1, PassTimeSingle, QuietSingle, TableSingle, SeedSingle, SpawnSingle,
     SpawnUnansweredSingle, EnqueueSendSingle DEF QueueNext, Worker, Handlers

(* A seeded chain has at most one job whose successor is still to come,      *)
(* unless a pass was repeated after that or two workers seeded it.           *)
THEOREM ChainsStaySingle == QueueSpec => []SingleChain
<1>1. QueueInit => HeldOnce /\ Single
  BY DEF QueueInit, HeldOnce, Single, SingleFor, OpenJobs, ForTask, Present
<1>2. Single => SingleChain
  BY DEF Single, SingleFor, SingleChain
<1> QED
  BY <1>1, <1>2, BaseInit, BaseStep, HeldStep, SingleStep, PTL DEF QueueSpec

---------------------------------------------------------------------------
(* A delivery has one job in its life, and its outcome is written before     *)
(* that job is finished.                                                     *)

Works(p, d) == taken[p] # Nothing /\ taken[p].task = d
Untouched(d) == ForTask(d) = {} /\ \A p \in Processes : ~Works(p, d)
Finished(d) ==
    \A p \in Processes : Works(p, d) =>
        /\ stage[p] = "complete" => status[d] # "pending"
        /\ stage[p] = "fail" /\ taken[p].attempts + 1 >= MaxAttempts => status[d] # "pending"
Attended(d) == status[d] = "pending" => firing[d] # NoProcess \/ ForTask(d) # {}
DeliveryFor(d) ==
    /\ status[d] = "none" => firing[d] = NoProcess
    /\ status[d] = "none" \/ firing[d] # NoProcess => Untouched(d)
    /\ \A i, j \in ForTask(d) : i = j
    /\ d \notin excused => Finished(d) /\ Attended(d)
Delivered == \A d \in Deliveries : DeliveryFor(d)

(* A step that leaves a delivery alone, and starts no job of it. *)
LEMMA DeliveryKept ==
    ASSUME Base, NEW d \in Deliveries, DeliveryFor(d), excused \subseteq excused',
           status'[d] = status[d], firing'[d] = firing[d],
           \A i \in Jobs : job'[i] # NoJob /\ job'[i].task = d => Present(i) /\ job[i].task = d,
           \A q \in Processes : Works(q, d)' => Works(q, d) \/ ForTask(d) # {},
           d \notin excused' => Finished(d)',
           d \notin excused' /\ status[d] = "pending" /\ ForTask(d) # {} => ForTask(d)' # {}
    PROVE DeliveryFor(d)'
<1>1. ForTask(d)' \subseteq ForTask(d)
  BY DEF ForTask, Present
<1>2. Untouched(d) => Untouched(d)'
  BY <1>1 DEF Untouched
<1>3. d \notin excused' => Attended(d)'
  BY DEF DeliveryFor, Attended
<1> QED
  BY <1>1, <1>2, <1>3 DEF DeliveryFor

(* What a row of another task does, and a worker of another task. *)
LEMMA OthersWork ==
    ASSUME Base, NEW d \in Deliveries, DeliveryFor(d), excused \subseteq excused',
           UNCHANGED <<status, firing>>,
           \/ UNCHANGED job
           \/ \E c \in Chains, wait \in Nat : Enqueue(c, wait),
           \A q \in Processes : Works(q, d)' => /\ taken'[q] = taken[q]
                                                /\ stage'[q] = stage[q]
    PROVE DeliveryFor(d)'
<1>1. \A i \in Jobs : job'[i] # NoJob /\ job'[i].task = d => Present(i) /\ job[i].task = d
  <2>1. CASE UNCHANGED job
    BY <2>1 DEF Present
  <2>2. ASSUME NEW c \in Chains, NEW wait \in Nat, Enqueue(c, wait)
        PROVE <1>1!:
    <3>1. c \in Tasks /\ c # d
      BY QueueConstants DEF Tasks
    <3>2. PICK j \in Jobs : job' = [job EXCEPT ![j] = Row(c, wait)]
      BY <2>2, <3>1, EnqueueEffect DEF Base
    <3> QED
      BY <3>1, <3>2 DEF Row, Base, QueueTypeOK, Present
  <2> QED
    BY <2>1, <2>2
<1>2. ForTask(d) \subseteq ForTask(d)'
  <2>1. CASE UNCHANGED job
    BY <2>1 DEF ForTask, Present
  <2>2. ASSUME NEW c \in Chains, NEW wait \in Nat, Enqueue(c, wait)
        PROVE <1>2!:
    <3>1. c \in Tasks
      BY DEF Tasks
    <3>2. PICK j \in Jobs : ~Present(j) /\ job' = [job EXCEPT ![j] = Row(c, wait)]
      BY <2>2, <3>1, EnqueueEffect DEF Base
    <3> QED
      BY <3>2 DEF ForTask, Base, QueueTypeOK, Present
  <2> QED
    BY <2>1, <2>2
<1>3. d \notin excused' => Finished(d)'
  BY DEF Finished, DeliveryFor, Works
<1> QED
  BY <1>1, <1>2, <1>3, DeliveryKept DEF Works

LEMMA QuietDelivery ==
    ASSUME Base, Delivered, NEW p \in Processes,
           Boot(p) \/ CheckSeed(p) \/ CheckFails(p) \/ Seed(p) \/ GiveBack(p)
    PROVE Delivered'
<1> USE DEF tables, worker, hooks, history
<1> SUFFICES ASSUME NEW d \in Deliveries PROVE DeliveryFor(d)'
  BY DEF Delivered
<1>1. excused \subseteq excused' /\ UNCHANGED <<status, firing>>
  BY DEF Boot, CheckSeed, CheckFails, Seed, GiveBack
<1>2. \A q \in Processes : Works(q, d)' => taken'[q] = taken[q] /\ stage'[q] = stage[q]
  <2>1. \A q \in Processes \ {p} : stage'[q] = stage[q] /\ taken'[q] = taken[q]
    BY DEF Boot, CheckSeed, CheckFails, Seed, GiveBack, Onward, Poll, Base, QueueTypeOK
  <2>2. taken'[p] = Nothing
    BY DEF Boot, CheckSeed, CheckFails, Seed, GiveBack, Onward, Poll, Base, QueueTypeOK, Positions,
           Busy
  <2> QED
    BY <2>1, <2>2 DEF Works
<1>3. UNCHANGED job \/ \E c \in Chains, wait \in Nat : Enqueue(c, wait)
  <2>1. CASE Seed(p)
    <3>1. PICK c \in Chains : c = Head(todo[p])
      BY <2>1, TailTyped DEF Seed, Base, Positions, QueueTypeOK
    <3>2. CASE Enqueue(Head(todo[p]), 0)
      <4>1. Enqueue(c, 0)
        BY <3>1, <3>2 DEF Enqueue
      <4> QED
        BY <4>1
    <3> QED
      BY <2>1, <3>2 DEF Seed
  <2> QED
    BY <2>1 DEF Boot, CheckSeed, CheckFails, GiveBack
<1>4. DeliveryFor(d)
  BY DEF Delivered
<1> QED
  BY <1>1, <1>2, <1>3, <1>4, OthersWork

LEMMA SpawnDelivery ==
    ASSUME Base, Delivered, NEW p \in Processes, Spawn(p) \/ SpawnUnanswered(p)
    PROVE Delivered'
<1> USE DEF tables, worker, hooks, history
<1> SUFFICES ASSUME NEW d \in Deliveries PROVE DeliveryFor(d)'
  BY DEF Delivered
<1>1. HasSuccessors(p) /\ Head(todo[p]) \in Chains /\ taken[p].task # d
  BY NextSuccessor, QueueConstants DEF Spawn, SpawnUnanswered, Base, Positions, QueueTypeOK,
                                       HasSuccessors
<1>2. excused \subseteq excused' /\ UNCHANGED <<status, firing, taken>>
  BY DEF Spawn, SpawnUnanswered, Onward
<1>3. \A q \in Processes \ {p} : stage'[q] = stage[q]
  BY DEF Spawn, SpawnUnanswered, Onward, Base, QueueTypeOK
<1>4. UNCHANGED job \/ \E c \in Chains, wait \in Nat : Enqueue(c, wait)
  <2>1. PICK c \in Chains, wait \in Nat : c = Head(todo[p]) /\ wait = SuccessorWait(p)
    BY <1>1, QueueConstants DEF SuccessorWait
  <2>2. CASE Enqueue(Head(todo[p]), SuccessorWait(p))
    <3>1. Enqueue(c, wait)
      BY <2>1, <2>2 DEF Enqueue
    <3> QED
      BY <3>1
  <2> QED
    BY <2>2 DEF Spawn, SpawnUnanswered
<1>5. DeliveryFor(d)
  BY DEF Delivered
<1> QED
  BY <1>1, <1>2, <1>3, <1>4, <1>5, OthersWork DEF Works

LEMMA PassTimeDelivery == ASSUME Base, Delivered, PassTime PROVE Delivered'
<1> USE DEF tables, worker, hooks, history
<1> SUFFICES ASSUME NEW d \in Deliveries PROVE DeliveryFor(d)'
  BY DEF Delivered
<1>1. DeliveryFor(d) /\ UNCHANGED <<stage, taken, status, firing, excused>>
  BY DEF Delivered, PassTime
<1>2. \A i \in Jobs : Alike(i)
  BY PassTimeEffect
<1>3. ForTask(d)' = ForTask(d)
  BY <1>2 DEF ForTask, Alike, Present
<1>4. d \notin excused' => Finished(d)'
  BY <1>1 DEF DeliveryFor, Finished, Works
<1>5. \A i \in Jobs : job'[i] # NoJob /\ job'[i].task = d => Present(i) /\ job[i].task = d
  BY <1>2 DEF Alike, Present
<1> QED
  BY <1>1, <1>3, <1>4, <1>5, DeliveryKept DEF Works

LEMMA LeaseDelivery == ASSUME Base, Delivered, NEW p \in Processes, Lease(p) PROVE Delivered'
<1> USE DEF tables, worker, hooks, history
<1> SUFFICES ASSUME NEW d \in Deliveries PROVE DeliveryFor(d)'
  BY DEF Delivered
<1>1. PICK j \in Jobs :
        /\ Present(j)
        /\ taken' = [taken EXCEPT ![p] = [id |-> j, task |-> job[j].task,
                                         attempts |-> job[j].attempts]]
        /\ excused \subseteq excused' /\ \A i \in Jobs : Alike(i)
  BY LeaseEffect
<1>2. DeliveryFor(d) /\ UNCHANGED <<status, firing>>
  BY DEF Delivered, Lease
<1>3. /\ stage'[p] = "work" /\ taken'[p].task = job[j].task
      /\ \A q \in Processes \ {p} : stage'[q] = stage[q] /\ taken'[q] = taken[q]
  BY <1>1 DEF Lease, Base, QueueTypeOK
<1>4. ForTask(d)' = ForTask(d)
  BY <1>1 DEF ForTask, Alike, Present
<1>5. \A i \in Jobs : job'[i] # NoJob /\ job'[i].task = d => Present(i) /\ job[i].task = d
  BY <1>1 DEF Alike, Present
<1>6. \A q \in Processes : Works(q, d)' => Works(q, d) \/ ForTask(d) # {}
  BY <1>1, <1>3 DEF Works, ForTask
<1>7. d \notin excused' => Finished(d)'
  <2>1. d \notin excused' => Finished(d)
    BY <1>1, <1>2 DEF DeliveryFor
  <2> QED
    BY <1>2, <1>3, <2>1 DEF Finished, Works
<1> QED
  BY <1>1, <1>2, <1>4, <1>5, <1>6, <1>7, DeliveryKept

LEMMA PerformDelivery == ASSUME Base, Delivered, NEW p \in Processes, Perform(p) PROVE Delivered'
<1> USE DEF tables, worker, hooks, history
<1> SUFFICES ASSUME NEW d \in Deliveries PROVE DeliveryFor(d)'
  BY DEF Delivered
<1>1. DeliveryFor(d) /\ UNCHANGED <<job, taken, status, firing>> /\ excused \subseteq excused'
  BY DEF Delivered, Perform
<1>2. \A q \in Processes \ {p} : stage'[q] = stage[q]
  BY DEF Perform, Base, QueueTypeOK
<1>3. /\ stage'[p] \in {"spawn", "record", "fail"}
      /\ stage'[p] = "fail" => excused' = excused \cup Unrecorded(p)
  BY DEF Perform, Base, QueueTypeOK
<1>4. d \notin excused' => Finished(d)'
  <2>1. d \notin excused' => Finished(d)
    BY <1>1 DEF DeliveryFor
  <2>2. ASSUME d \notin excused', Works(p, d), stage'[p] = "fail"
        PROVE ~(taken[p].attempts + 1 >= MaxAttempts)
    BY <1>3, <2>2 DEF Unrecorded, Works
  <2> QED
    BY <1>1, <1>2, <1>3, <2>1, <2>2 DEF Finished, Works
<1>5. ForTask(d)' = ForTask(d)
  BY <1>1 DEF ForTask, Present
<1> QED
  BY <1>1, <1>4, <1>5, DeliveryKept DEF Works, Present

(* As long as nothing has excused a delivery, one worker at most is on it.   *)
LEMMA AloneAtWork ==
    ASSUME Base, HeldOnce, NEW d \in Deliveries, DeliveryFor(d), d \notin excused,
           NEW p \in Processes, Works(p, d)
    PROVE /\ taken[p].id \in ForTask(d) /\ job[taken[p].id].attempts = taken[p].attempts
          /\ \A q \in Processes : Works(q, d) => q = p
<1>1. \A q \in Processes : Works(q, d) =>
         /\ taken[q].id \in ForTask(d) /\ job[taken[q].id].attempts = taken[q].attempts
         /\ \A r \in Processes : Holds(r, taken[q].id) => r = q
  BY DEF Works, HeldOnce, ForTask, Base, SameTask, QueueTypeOK, Leased
<1>2. \A q \in Processes : Works(q, d) => taken[q].id = taken[p].id
  BY <1>1 DEF DeliveryFor
<1> QED
  BY <1>1, <1>2 DEF Holds, Works

LEMMA RecordDelivery ==
    ASSUME Base, HeldOnce, Delivered, NEW p \in Processes, Record(p)
    PROVE Delivered'
<1> USE DEF tables, worker, hooks, history
<1> SUFFICES ASSUME NEW d \in Deliveries PROVE DeliveryFor(d)'
  BY DEF Delivered
<1>1. DeliveryFor(d) /\ UNCHANGED <<job, taken, firing>> /\ excused \subseteq excused'
  BY DEF Delivered, Record
<1>2. /\ taken[p] # Nothing /\ taken[p].task \in Deliveries
      /\ \A q \in Processes \ {p} : stage'[q] = stage[q]
  BY DEF Record, Base, Positions, Busy, QueueTypeOK
<1>3. ForTask(d)' = ForTask(d) /\ \A q \in Processes : Works(q, d)' = Works(q, d)
  BY <1>1 DEF ForTask, Present, Works
<1>4. CASE taken[p].task # d
  <2>1. status'[d] = status[d]
    BY <1>4 DEF Record, Base, QueueTypeOK
  <2>2. d \notin excused' => Finished(d)'
    BY <1>1, <1>2, <1>4, <2>1 DEF DeliveryFor, Finished, Works
  <2> QED
    BY <1>1, <1>3, <2>1, <2>2, DeliveryKept DEF Present
<1>5. CASE taken[p].task = d
  <2>1. Works(p, d) /\ ~Untouched(d)
    BY <1>2, <1>5 DEF Works, Untouched
  <2>2. firing[d] = NoProcess /\ status[d] # "none"
    BY <1>1, <2>1 DEF DeliveryFor
  <2>3. status'[d] # "none"
    <3>1. \A answer : Outcome(p, answer) # "none"
      BY DEF Outcome
    <3> QED
      BY <1>5, <2>2, <3>1 DEF Record, Base, QueueTypeOK
  <2>4. ASSUME d \notin excused' PROVE Finished(d)' /\ Attended(d)'
    <3>1. d \notin excused
      BY <1>1, <2>4
    <3>2. ForTask(d) # {} /\ \A q \in Processes : Works(q, d) => q = p
      BY <1>1, <2>1, <3>1, AloneAtWork
    <3>3. /\ stage'[p] = "complete" => status'[d] # "pending"
          /\ stage'[p] = "fail" /\ taken[p].attempts + 1 >= MaxAttempts
                => status'[d] # "pending"
      <4>1. ASSUME NEW answer \in {"delivered", "refused", "stopped"},
                   status' = [status EXCEPT ![taken[p].task] = Outcome(p, answer)],
                   StageTo(p, IF answer = "refused" THEN "fail" ELSE "complete")
            PROVE <3>3
        <5>1. status'[d] = Outcome(p, answer)
          BY <1>5, <4>1 DEF Base, QueueTypeOK
        <5>2. stage'[p] = IF answer = "refused" THEN "fail" ELSE "complete"
          BY <4>1 DEF Base, QueueTypeOK
        <5> QED
          BY <5>1, <5>2 DEF Outcome, Exhausted
      <4>2. CASE StageTo(p, "fail") /\ excused' = excused \cup Unrecorded(p)
        <5>1. ~(taken[p].attempts + 1 >= MaxAttempts)
          BY <1>5, <2>4, <4>2 DEF Unrecorded
        <5>2. stage'[p] = "fail"
          BY <4>2 DEF Base, QueueTypeOK
        <5> QED
          BY <5>1, <5>2
      <4> QED
        BY <4>1, <4>2 DEF Record
    <3>4. Finished(d)'
      BY <1>1, <1>3, <3>2, <3>3 DEF Finished
    <3>5. Attended(d)'
      BY <1>3, <3>2 DEF Attended
    <3> QED
      BY <3>4, <3>5
  <2> QED
    BY <1>1, <1>3, <2>2, <2>3, <2>4 DEF DeliveryFor
<1> QED
  BY <1>4, <1>5

LEMMA CompleteDelivery ==
    ASSUME Base, Delivered, NEW p \in Processes, Complete(p)
    PROVE Delivered'
<1> USE DEF tables, worker, hooks, history
<1> SUFFICES ASSUME NEW d \in Deliveries PROVE DeliveryFor(d)'
  BY DEF Delivered
<1> DEFINE j == taken[p].id
<1>1. DeliveryFor(d) /\ UNCHANGED <<status, firing, excused>>
  BY DEF Delivered, Complete
<1>2. /\ taken[p] # Nothing /\ j \in Jobs /\ job' = [job EXCEPT ![j] = NoJob]
      /\ taken'[p] = Nothing
      /\ \A q \in Processes \ {p} : taken'[q] = taken[q] /\ stage'[q] = stage[q]
  BY HeldTyped DEF Complete, Remove, Poll, Base, QueueTypeOK, Busy
<1> HIDE DEF j
<1>3. \A i \in Jobs : job'[i] = IF i = j THEN NoJob ELSE job[i]
  BY <1>2 DEF Base, QueueTypeOK
<1>4. d \notin excused' => Finished(d)'
  BY <1>1, <1>2 DEF DeliveryFor, Finished, Works
<1>5. ASSUME d \notin excused', status[d] = "pending", NEW i \in ForTask(d)
      PROVE i \in ForTask(d)'
  <2>1. CASE i = j
    <3>1. Works(p, d)
      BY <1>2, <2>1, <1>5 DEF Works, ForTask, Base, SameTask, j
    <3> QED
      BY <1>1, <1>5, <3>1 DEF DeliveryFor, Finished, Complete
  <2>2. CASE i # j
    BY <1>3, <1>5, <2>2 DEF ForTask, Present
  <2> QED
    BY <2>1, <2>2
<1>6. \A i \in Jobs : job'[i] # NoJob /\ job'[i].task = d => Present(i) /\ job[i].task = d
  BY <1>3 DEF Present
<1>7. \A q \in Processes : Works(q, d)' => Works(q, d)
  BY <1>2 DEF Works
<1> QED
  BY <1>1, <1>4, <1>5, <1>6, <1>7, DeliveryKept

LEMMA FailDelivery ==
    ASSUME Base, HeldOnce, Delivered, NEW p \in Processes, FailJob(p)
    PROVE Delivered'
<1> USE DEF tables, worker, hooks, history
<1> SUFFICES ASSUME NEW d \in Deliveries PROVE DeliveryFor(d)'
  BY DEF Delivered
<1> DEFINE j == taken[p].id
<1>1. DeliveryFor(d) /\ UNCHANGED <<status, firing, excused>>
  BY DEF Delivered, FailJob
<1>2. /\ taken[p] # Nothing /\ taken'[p] = Nothing
      /\ \A q \in Processes \ {p} : taken'[q] = taken[q] /\ stage'[q] = stage[q]
  BY HeldTyped DEF FailJob, Poll, Base, QueueTypeOK, Busy
<1>3. /\ j \in Jobs /\ \A i \in Jobs \ {j} : job'[i] = job[i]
      /\ \/ job' = job
         \/ Present(j) /\ job[j].attempts + 1 >= MaxAttempts /\ job'[j] = NoJob
         \/ Present(j) /\ job'[j] # NoJob /\ job'[j].task = job[j].task
  BY FailJobEffect
<1> HIDE DEF j
<1>4. d \notin excused' => Finished(d)'
  BY <1>1, <1>2 DEF DeliveryFor, Finished, Works
<1>5. ASSUME d \notin excused', status[d] = "pending", NEW i \in ForTask(d)
      PROVE i \in ForTask(d)'
  <2>1. CASE i = j /\ Present(j) /\ job[j].attempts + 1 >= MaxAttempts
    <3>1. Works(p, d)
      BY <1>2, <2>1, <1>5 DEF Works, ForTask, Base, SameTask, j
    <3>2. taken[p].attempts = job[j].attempts
      BY <1>1, <1>5, <3>1, AloneAtWork DEF j
    <3> QED
      BY <1>1, <1>5, <2>1, <3>1, <3>2 DEF DeliveryFor, Finished, FailJob
  <2>2. CASE i # j \/ job' = job \/ (job'[j] # NoJob /\ job'[j].task = job[j].task)
    BY <1>3, <1>5, <2>2 DEF ForTask, Present
  <2> QED
    BY <1>3, <2>1, <2>2
<1>6. \A i \in Jobs : job'[i] # NoJob /\ job'[i].task = d => Present(i) /\ job[i].task = d
  BY <1>3 DEF Present
<1>7. \A q \in Processes : Works(q, d)' => Works(q, d)
  BY <1>2 DEF Works
<1> QED
  BY <1>1, <1>4, <1>5, <1>6, <1>7, DeliveryKept

LEMMA CreateDelivered ==
    ASSUME Base, Delivered, NEW p \in Processes, NEW e \in Deliveries, CreateDelivery(p, e)
    PROVE Delivered'
<1> USE DEF tables, worker, hooks, history
<1> SUFFICES ASSUME NEW d \in Deliveries PROVE DeliveryFor(d)'
  BY DEF Delivered
<1>1. DeliveryFor(d) /\ UNCHANGED <<job, stage, taken, excused>>
  BY DEF Delivered, CreateDelivery
<1>2. ForTask(d)' = ForTask(d) /\ \A q \in Processes : Works(q, d)' = Works(q, d)
  BY <1>1 DEF ForTask, Present, Works
<1>3. CASE d # e
  <2>1. status'[d] = status[d] /\ firing'[d] = firing[d]
    BY <1>3 DEF CreateDelivery, Base, QueueTypeOK
  <2>2. d \notin excused' => Finished(d)'
    BY <1>1, <2>1 DEF DeliveryFor, Finished, Works
  <2> QED
    BY <1>1, <1>2, <2>1, <2>2, DeliveryKept DEF Present
<1>4. CASE d = e
  <2>1. status[d] = "none" /\ status'[d] = "pending" /\ firing'[d] = p /\ p # NoProcess
    BY <1>4, QueueConstants DEF CreateDelivery, Base, QueueTypeOK
  <2>2. Untouched(d)
    BY <1>1, <2>1 DEF DeliveryFor
  <2> QED
    BY <1>2, <2>1, <2>2 DEF DeliveryFor, Untouched, Finished, Attended
<1> QED
  BY <1>3, <1>4

LEMMA EnqueueSendDelivery ==
    ASSUME Base, Delivered, NEW p \in Processes, NEW e \in Deliveries, EnqueueSend(p, e)
    PROVE Delivered'
<1> USE DEF tables, worker, hooks, history
<1> SUFFICES ASSUME NEW d \in Deliveries PROVE DeliveryFor(d)'
  BY DEF Delivered
<1>1. /\ DeliveryFor(d) /\ UNCHANGED <<stage, taken, status>> /\ excused \subseteq excused'
      /\ e \in Tasks /\ 0 \in Nat
  BY DEF Delivered, EnqueueSend, Tasks
<1>2. \/ UNCHANGED job /\ e \in excused'
      \/ \E j \in Jobs : ~Present(j) /\ job' = [job EXCEPT ![j] = Row(e, 0)]
  BY <1>1, EnqueueEffect DEF EnqueueSend, Base
<1>3. \A q \in Processes : Works(q, d)' = Works(q, d)
  BY <1>1 DEF Works
<1>4. ForTask(d) # {} => ForTask(d)' # {}
  BY <1>2 DEF ForTask, Present, Base, QueueTypeOK
<1>5. CASE d # e
  <2>1. firing'[d] = firing[d] /\ status'[d] = status[d]
    BY <1>1, <1>5 DEF EnqueueSend, Base, QueueTypeOK
  <2>2. d \notin excused' => Finished(d)'
    BY <1>1 DEF DeliveryFor, Finished, Works
  <2>3. ASSUME NEW i \in Jobs, job'[i] # NoJob, job'[i].task = d
        PROVE Present(i) /\ job[i].task = d
    <3>1. Row(e, 0).task # d
      BY <1>5 DEF Row
    <3>2. job'[i] = job[i] \/ job'[i] = Row(e, 0)
      BY <1>2 DEF Base, QueueTypeOK
    <3> QED
      BY <2>3, <3>1, <3>2 DEF Present
  <2> QED
    BY <1>1, <1>3, <1>4, <2>1, <2>2, <2>3, DeliveryKept
<1>6. CASE d = e
  <2>1. firing[d] # NoProcess /\ firing'[d] = NoProcess
    BY <1>6, QueueConstants DEF EnqueueSend, Base, QueueTypeOK
  <2>2. Untouched(d) /\ status'[d] # "none"
    BY <1>1, <2>1 DEF DeliveryFor
  <2>3. Finished(d)'
    BY <1>3, <2>2 DEF Untouched, Finished
  <2>4. CASE UNCHANGED job /\ e \in excused'
    <3>1. ForTask(d)' = {}
      BY <2>2, <2>4 DEF Untouched, ForTask, Present
    <3> QED
      BY <1>6, <2>1, <2>2, <2>4, <3>1 DEF DeliveryFor
  <2>5. ASSUME NEW j \in Jobs, job' = [job EXCEPT ![j] = Row(e, 0)] PROVE DeliveryFor(d)'
    <3>1. job'[j] = Row(d, 0) /\ Row(d, 0) # NoJob /\ Row(d, 0).task = d
      BY <1>1, <1>6, <2>5, RowTyped DEF Base, QueueTypeOK, Row
    <3>2. \A i \in Jobs \ {j} : job'[i] = job[i]
      BY <2>5 DEF Base, QueueTypeOK
    <3>3. ForTask(d)' = {j}
      BY <2>2, <3>1, <3>2 DEF Untouched, ForTask, Present
    <3> QED
      BY <2>1, <2>2, <2>3, <3>3 DEF DeliveryFor, Attended
  <2> QED
    BY <1>2, <2>4, <2>5
<1> QED
  BY <1>5, <1>6

LEMMA DiesDelivery == ASSUME Base, Delivered, NEW p \in Processes, Dies(p) PROVE Delivered'
<1> USE DEF tables, worker, hooks, history
<1> SUFFICES ASSUME NEW d \in Deliveries PROVE DeliveryFor(d)'
  BY DEF Delivered
<1>1. DeliveryFor(d) /\ UNCHANGED <<job, status>> /\ excused \subseteq excused'
  BY DEF Delivered, Dies
<1>2. /\ taken'[p] = Nothing
      /\ \A q \in Processes \ {p} : taken'[q] = taken[q] /\ stage'[q] = stage[q]
  BY DEF Dies, Base, QueueTypeOK
<1>3. ForTask(d)' = ForTask(d) /\ \A q \in Processes : Works(q, d)' => Works(q, d)
  BY <1>1, <1>2 DEF ForTask, Present, Works
<1>4. CASE firing[d] # p
  <2>1. firing'[d] = firing[d]
    BY <1>4 DEF Dies
  <2>2. d \notin excused' => Finished(d)'
    BY <1>1, <1>2 DEF DeliveryFor, Finished, Works
  <2> QED
    BY <1>1, <1>3, <2>1, <2>2, DeliveryKept DEF Present
<1>5. CASE firing[d] = p
  <2>1. firing'[d] = NoProcess /\ d \in excused'
    BY <1>5 DEF Dies
  <2>2. Untouched(d)
    BY <1>1, <1>5, QueueConstants DEF DeliveryFor
  <2> QED
    BY <1>3, <2>1, <2>2 DEF DeliveryFor, Untouched
<1> QED
  BY <1>4, <1>5

LEMMA DeliveredStep ==
    ASSUME Base, HeldOnce, Delivered, [QueueNext]_queueVars
    PROVE Delivered'
<1>1. CASE UNCHANGED queueVars
  BY <1>1 DEF queueVars, Delivered, DeliveryFor, Untouched, Finished, Attended, Works, ForTask,
              Present
<1> QED
  BY <1>1, PassTimeDelivery, QuietDelivery, LeaseDelivery, PerformDelivery, SpawnDelivery,
     RecordDelivery, CompleteDelivery, FailDelivery, CreateDelivered, EnqueueSendDelivery,
     DiesDelivery DEF QueueNext, Worker, Handlers

(* No delivery is left pending with neither a handler nor a job that works   *)
(* on it, unless one of the mishaps named in excused befell it.              *)
THEOREM DeliveriesStaySettled == QueueSpec => []DeliveriesSettled
<1>1. QueueInit => HeldOnce /\ Delivered
  BY DEF QueueInit, HeldOnce, Delivered, DeliveryFor, Untouched, Finished, Attended, Works,
         ForTask, Present
<1>2. Delivered => DeliveriesSettled
  BY DEF Delivered, DeliveryFor, Attended, DeliveriesSettled
<1> QED
  BY <1>1, <1>2, BaseInit, BaseStep, HeldStep, DeliveredStep, PTL DEF QueueSpec
===================================================================================
