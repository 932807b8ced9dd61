---------------------------- MODULE CiFeedProofs ----------------------------
(***************************************************************************)
(* Safety of the CI feed for any number of requests, invocations, runs and *)
(* attempts.  The named invariants of CiFeed are not inductive: the proof  *)
(* adds what a worker and a handler know about the rows they point to      *)
(* (IInv), and on top of it, each in a layer of its own, what the          *)
(* invocations know of attempts and verdicts (Leases) and what the         *)
(* requests in flight owe a commit (Requests).                             *)
(***************************************************************************)
EXTENDS CiFeed, SequenceTheorems, FiniteSetTheorems, TLAPS

Busy(w) == worker[w].pc \notin {"idle", "locked"}

\* A worker points to a job row; once its lease is committed the job has left
\* READY for good.
WorkerKnows ==
  \A w \in Workers :
    /\ worker[w].pc # "idle" => worker[w].job \in DOMAIN jobs
    /\ Busy(w) => jobs[worker[w].job].status # "READY"

\* A handler carries a commit, and between its two inserts points to a run
\* that is QUEUED and that no other handler points to.
HandlerKnows ==
  /\ \A h \in Handlers : handler[h].pc # "free" => handler[h].sha \in Shas
  /\ \A h \in Handlers : handler[h].pc = "createJob" =>
       /\ handler[h].run \in DOMAIN runs
       /\ runs[handler[h].run].status = "QUEUED"
  /\ \A g, h \in Handlers :
       /\ handler[g].pc = "createJob"
       /\ handler[h].pc = "createJob"
       /\ handler[g].run = handler[h].run
       => g = h

IInv ==
  /\ TypeOK
  /\ OneJobPerRun
  /\ LockExclusive
  /\ AttemptsBounded
  /\ QueuedIffReady
  /\ WorkerKnows
  /\ HandlerKnows

-----------------------------------------------------------------------------
(***************************************************************************)
(* Tables                                                                  *)
(***************************************************************************)
\* UPDATE of one row of a table.
LEMMA UpdateRow ==
  ASSUME NEW S, NEW s \in Seq(S), NEW i \in DOMAIN s, NEW e \in S
  PROVE  /\ [s EXCEPT ![i] = e] \in Seq(S)
         /\ DOMAIN [s EXCEPT ![i] = e] = DOMAIN s
         /\ Len([s EXCEPT ![i] = e]) = Len(s)
         /\ [s EXCEPT ![i] = e][i] = e
         /\ \A k \in DOMAIN s : k # i => [s EXCEPT ![i] = e][k] = s[k]
  BY ExceptSeq

\* INSERT of one row into a table.
LEMMA AppendRow ==
  ASSUME NEW S, NEW s \in Seq(S), NEW e \in S
  PROVE  /\ Append(s, e) \in Seq(S)
         /\ DOMAIN s = 1..Len(s)
         /\ DOMAIN Append(s, e) = 1..(Len(s) + 1)
         /\ Append(s, e)[Len(s) + 1] = e
         /\ \A k \in DOMAIN s : Append(s, e)[k] = s[k]
  BY AppendProperties

\* What SetJobStatus does to the table, row by row.
LEMMA JobStatusWrite ==
  ASSUME jobs \in Seq(Job), NEW j \in DOMAIN jobs, NEW status \in JobStatus,
         SetJobStatus(j, status)
  PROVE  /\ jobs' \in Seq(Job)
         /\ DOMAIN jobs' = DOMAIN jobs
         /\ jobs'[j] = [jobs[j] EXCEPT !.status = status]
         /\ \A k \in DOMAIN jobs : k # j => jobs'[k] = jobs[k]
<1>1. jobs[j] \in Job
  BY ElementOfSeq
<1>2. [jobs[j] EXCEPT !.status = status] \in Job
  BY <1>1 DEF Job
<1>3. QED
  BY <1>2, UpdateRow DEF SetJobStatus

\* What SetRunStatus does to the table, row by row.
LEMMA RunStatusWrite ==
  ASSUME runs \in Seq(Run), NEW r \in DOMAIN runs, NEW status \in RunStatus,
         SetRunStatus(r, status)
  PROVE  /\ runs' \in Seq(Run)
         /\ DOMAIN runs' = DOMAIN runs
         /\ runs'[r] = [runs[r] EXCEPT !.status = status]
         /\ \A k \in DOMAIN runs : k # r => runs'[k] = runs[k]
<1>1. runs[r] \in Run
  BY ElementOfSeq
<1>2. [runs[r] EXCEPT !.status = status] \in Run
  BY <1>1 DEF Run
<1>3. QED
  BY <1>2, UpdateRow DEF SetRunStatus

-----------------------------------------------------------------------------
(***************************************************************************)
(* Steps                                                                   *)
(***************************************************************************)
LEMMA InitIInv == Init => IInv
<1>. SUFFICES ASSUME Init
              PROVE  IInv
  OBVIOUS
<1>1. TypeOK
  BY EmptySeq DEF Init, TypeOK, StoreInit, IntakeInit, WorkerInit, StoreTypeOK,
     HandlerTypeOK, WorkerTypeOK, HandlerState, WorkerState, Free, Resting
<1>2. DOMAIN jobs = {} /\ DOMAIN runs = {}
  BY DEF Init, StoreInit
<1>3. \A w \in Workers : worker[w].pc = "idle"
  BY DEF Init, WorkerInit, Resting
<1>4. \A h \in Handlers : handler[h].pc = "free"
  BY DEF Init, IntakeInit, Free
<1>5. QED
  BY <1>1, <1>2, <1>3, <1>4 DEF IInv, OneJobPerRun, LockExclusive, AttemptsBounded,
     QueuedIffReady, WorkerKnows, HandlerKnows, Busy

\* A step in which one worker goes on with the job it has, or rests, and
\* writes to no table.
LEMMA WorkerMoves ==
  ASSUME IInv, NEW w \in Workers, NEW to \in WorkerState,
         Goto(w, to),
         to.pc # "locked",
         to.pc # "idle" => to.job = worker[w].job /\ Busy(w),
         checkouts' \subseteq Nat,
         UNCHANGED <<storeVars, handler>>
  PROVE  IInv'
<1>. USE DEF IInv
<1>1. /\ worker' \in [Workers -> WorkerState]
      /\ worker'[w] = to
      /\ \A v \in Workers : v # w => worker'[v] = worker[v]
  BY DEF Goto, TypeOK, WorkerTypeOK
<1>2. TypeOK'
  BY <1>1 DEF TypeOK, WorkerTypeOK, StoreTypeOK, HandlerTypeOK, storeVars
<1>3. OneJobPerRun' /\ AttemptsBounded' /\ QueuedIffReady' /\ HandlerKnows'
  BY DEF OneJobPerRun, AttemptsBounded, QueuedIffReady, HandlerKnows, storeVars
<1>4. LockExclusive'
  BY <1>1 DEF LockExclusive, Eligible, storeVars
<1>5. WorkerKnows'
  BY <1>1 DEF WorkerKnows, Busy, storeVars
<1>6. QED
  BY <1>2, <1>3, <1>4, <1>5

\* A step of a request that writes no more than webhook_deliveries.
LEMMA HandlerMoves ==
  ASSUME IInv, NEW h \in Handlers, NEW to \in HandlerState,
         Advance(h, to),
         to.pc # "createJob",
         to.pc # "free" => to.sha \in Shas,
         deliveries' \subseteq Deliveries,
         UNCHANGED <<runs, jobs, workerVars>>
  PROVE  IInv'
<1>. USE DEF IInv
<1>1. /\ handler' \in [Handlers -> HandlerState]
      /\ handler'[h] = to
      /\ \A g \in Handlers : g # h => handler'[g] = handler[g]
  BY DEF Advance, TypeOK, HandlerTypeOK
<1>2. TypeOK'
  BY <1>1 DEF TypeOK, WorkerTypeOK, StoreTypeOK, HandlerTypeOK, workerVars
<1>3. OneJobPerRun'
  BY <1>1 DEF OneJobPerRun
<1>4. LockExclusive' /\ AttemptsBounded' /\ QueuedIffReady' /\ WorkerKnows'
  BY DEF LockExclusive, Eligible, AttemptsBounded, QueuedIffReady, WorkerKnows, Busy,
     workerVars
<1>5. HandlerKnows'
  BY <1>1 DEF HandlerKnows
<1>6. QED
  BY <1>2, <1>3, <1>4, <1>5

\* A worker locks the next job: the invariant is preserved.
LEMMA LockStep ==
  ASSUME IInv, NEW w \in Workers, LockNextJob(w), UNCHANGED handler
  PROVE  IInv'
<1>. USE DEF IInv
<1>1. PICK j \in DOMAIN jobs :
        /\ Candidate(j)
        /\ Goto(w, [Resting EXCEPT !.pc = "locked", !.job = j,
                                   !.attempts = jobs[j].attempts])
  BY DEF LockNextJob
<1>2. jobs[j] \in Job /\ j \in Nat
  BY ElementOfSeq, LenProperties DEF TypeOK, StoreTypeOK
<1>3. [Resting EXCEPT !.pc = "locked", !.job = j, !.attempts = jobs[j].attempts]
        \in WorkerState
  BY <1>2 DEF Resting, WorkerState, Job
<1>4. /\ worker' \in [Workers -> WorkerState]
      /\ worker'[w].pc = "locked"
      /\ worker'[w].job = j
      /\ worker'[w].attempts = jobs[j].attempts
      /\ \A v \in Workers : v # w => worker'[v] = worker[v]
  BY <1>1, <1>3 DEF Goto, TypeOK, WorkerTypeOK, Resting
<1>5. UNCHANGED <<storeVars, checkouts, handler>>
  BY DEF LockNextJob
<1>6. TypeOK'
  BY <1>4, <1>5 DEF TypeOK, WorkerTypeOK, StoreTypeOK, HandlerTypeOK, storeVars
<1>7. OneJobPerRun' /\ AttemptsBounded' /\ QueuedIffReady' /\ HandlerKnows'
  BY <1>5 DEF OneJobPerRun, AttemptsBounded, QueuedIffReady, HandlerKnows, storeVars
<1>8. LockExclusive'
  BY <1>1, <1>4, <1>5 DEF LockExclusive, Candidate, Locked, Eligible, storeVars
<1>9. WorkerKnows'
  BY <1>4, <1>5 DEF WorkerKnows, Busy, storeVars
<1>10. QED
  BY <1>6, <1>7, <1>8, <1>9

\* A worker that holds the lock on its job's row moves the job and the run.
LEMMA LockedWrite ==
  ASSUME IInv, NEW w \in Workers, worker[w].pc = "locked",
         NEW to \in WorkerState, Goto(w, to),
         to.pc # "locked", to.pc # "idle" => to.job = worker[w].job,
         NEW j, j = worker[w].job,
         NEW job \in Job, job.run = jobs[j].run, job.status # "READY",
         job.attempts <= MaxAttempts,
         jobs' = [jobs EXCEPT ![j] = job],
         NEW status \in RunStatus \ {"QUEUED"}, SetRunStatus(jobs[j].run, status),
         UNCHANGED <<deliveries, checkouts, handler>>
  PROVE  IInv'
<1>. USE DEF IInv
<1>1. /\ j \in DOMAIN jobs
      /\ jobs[j].run \in DOMAIN runs
  BY DEF WorkerKnows, OneJobPerRun
<1>2. /\ jobs' \in Seq(Job)
      /\ DOMAIN jobs' = DOMAIN jobs
      /\ jobs'[j] = job
      /\ \A k \in DOMAIN jobs : k # j => jobs'[k] = jobs[k]
  BY <1>1, UpdateRow DEF TypeOK, StoreTypeOK
<1>3. /\ runs' \in Seq(Run)
      /\ DOMAIN runs' = DOMAIN runs
      /\ runs'[jobs[j].run] = [runs[jobs[j].run] EXCEPT !.status = status]
      /\ \A k \in DOMAIN runs : k # jobs[j].run => runs'[k] = runs[k]
  BY <1>1, RunStatusWrite DEF TypeOK, StoreTypeOK
<1>4. runs[jobs[j].run] \in Run
  BY <1>1, ElementOfSeq, LenProperties DEF TypeOK, StoreTypeOK
<1>5. runs'[jobs[j].run].status = status
  BY <1>3, <1>4 DEF Run
<1>6. /\ worker' \in [Workers -> WorkerState]
      /\ worker'[w] = to
      /\ \A v \in Workers : v # w => worker'[v] = worker[v]
  BY DEF Goto, TypeOK, WorkerTypeOK
<1>7. TypeOK'
  BY <1>2, <1>3, <1>6 DEF TypeOK, WorkerTypeOK, StoreTypeOK, HandlerTypeOK
<1>8. \A k \in DOMAIN jobs : jobs'[k].run = jobs[k].run
  BY <1>2
<1>9. OneJobPerRun'
  BY <1>2, <1>3, <1>8 DEF OneJobPerRun
<1>10. LockExclusive'
  BY <1>2, <1>6 DEF LockExclusive, Eligible, WorkerKnows
<1>11. AttemptsBounded'
  BY <1>2 DEF AttemptsBounded
<1>12. QueuedIffReady'
  <2>. SUFFICES ASSUME NEW k \in DOMAIN jobs
                PROVE  jobs'[k].status = "READY" <=> runs'[jobs'[k].run].status = "QUEUED"
    BY <1>2 DEF QueuedIffReady
  <2>1. CASE k = j
    BY <2>1, <1>2, <1>5
  <2>2. CASE k # j
    BY <2>2, <1>1, <1>2, <1>3 DEF QueuedIffReady, OneJobPerRun
  <2>3. QED
    BY <2>1, <2>2
<1>13. WorkerKnows'
  BY <1>1, <1>2, <1>6 DEF WorkerKnows, Busy
<1>14. HandlerKnows'
  BY <1>1, <1>3 DEF HandlerKnows, OneJobPerRun
<1>15. QED
  BY <1>7, <1>9, <1>10, <1>11, <1>12, <1>13, <1>14

\* What a granted lease makes of the job's row.
LEMMA LeasedRow ==
  ASSUME NEW row \in Job
  PROVE  /\ Leased(row) \in Job
         /\ Leased(row).run = row.run
         /\ Leased(row).status = "LEASED"
         /\ Leased(row).attempts = row.attempts + 1
  BY DEF Leased, Job, JobStatus, LeaseState

\* The lease of the job locked is granted.
LEMMA GrantStep ==
  ASSUME IInv, NEW w \in Workers, GrantLease(w), UNCHANGED handler
  PROVE  IInv'
<1>. DEFINE j == worker[w].job
            job == Leased(jobs[j])
            to == [worker[w] EXCEPT !.pc = "granted"]
<1>1. /\ worker[w] \in WorkerState
      /\ j \in DOMAIN jobs
  BY DEF IInv, TypeOK, WorkerTypeOK, WorkerKnows, GrantLease
<1>2. jobs[j] \in Job
  BY <1>1, ElementOfSeq, LenProperties DEF IInv, TypeOK, StoreTypeOK
<1>3. /\ job \in Job
      /\ job.run = jobs[j].run
      /\ job.status = "LEASED"
      /\ job.attempts = jobs[j].attempts + 1
  BY <1>2, LeasedRow
<1>4. job.attempts <= MaxAttempts
  BY <1>1, <1>2, <1>3, MaxAttemptsAssumption
     DEF IInv, LockExclusive, GrantLease, WorkerState, Job
<1>5. /\ to \in WorkerState
      /\ to.pc = "granted"
      /\ to.job = j
  BY <1>1 DEF WorkerState
<1>6. /\ Goto(w, to)
      /\ jobs' = [jobs EXCEPT ![j] = job]
      /\ SetRunStatus(jobs[j].run, "RUNNING")
      /\ worker[w].pc = "locked"
      /\ UNCHANGED <<deliveries, checkouts>>
  BY DEF GrantLease, LeaseJob, Step
<1>. HIDE DEF job, to
<1>7. QED
  BY <1>3, <1>4, <1>5, <1>6, LockedWrite DEF RunStatus

\* The lease is refused: the job is dead.
LEMMA RefuseStep ==
  ASSUME IInv, NEW w \in Workers, RefuseLease(w), UNCHANGED handler
  PROVE  IInv'
<1>. DEFINE j == worker[w].job
            job == [jobs[j] EXCEPT !.status = "DEAD"]
<1>1. j \in DOMAIN jobs
  BY DEF IInv, WorkerKnows, RefuseLease
<1>2. jobs[j] \in Job
  BY <1>1, ElementOfSeq, LenProperties DEF IInv, TypeOK, StoreTypeOK
<1>3. /\ job \in Job
      /\ job.run = jobs[j].run
      /\ job.status = "DEAD"
      /\ job.attempts = jobs[j].attempts
  BY <1>2 DEF Job, JobStatus
<1>4. job.attempts <= MaxAttempts
  BY <1>1, <1>3 DEF IInv, AttemptsBounded
<1>5. Resting \in WorkerState /\ Resting.pc = "idle"
  BY DEF Resting, WorkerState
<1>6. /\ Goto(w, Resting)
      /\ jobs' = [jobs EXCEPT ![j] = job]
      /\ SetRunStatus(jobs[j].run, "FAILED")
      /\ worker[w].pc = "locked"
      /\ UNCHANGED <<deliveries, checkouts>>
  BY DEF RefuseLease, ExhaustJob, SetJobStatus
<1>. HIDE DEF job
<1>7. QED
  BY <1>3, <1>4, <1>5, <1>6, LockedWrite DEF RunStatus

\* A worker writes the verdict of a run whose job was leased, whoever holds the
\* lease by now.
LEMMA WriteRunStep ==
  ASSUME IInv, NEW w \in Workers, WriteRun(w), UNCHANGED handler
  PROVE  IInv'
<1>. USE DEF IInv
<1>. DEFINE j == worker[w].job
            r == jobs[j].run
            to == [worker[w] EXCEPT !.pc = "writeJob"]
<1>1. /\ worker[w] \in WorkerState
      /\ j \in DOMAIN jobs
      /\ jobs[j].status # "READY"
      /\ r \in DOMAIN runs
  BY DEF TypeOK, WorkerTypeOK, WorkerKnows, Busy, WriteRun, OneJobPerRun
<1>2. /\ worker[w].verdict \in RunStatus \ {"QUEUED"}
      /\ to \in WorkerState
      /\ to.pc = "writeJob"
      /\ to.job = j
  BY <1>1 DEF WorkerState, RunStatus
<1>3. /\ SetRunStatus(r, worker[w].verdict)
      /\ Goto(w, to)
      /\ worker[w].pc = "writeRun"
      /\ UNCHANGED <<deliveries, jobs, checkouts, handler>>
  BY DEF WriteRun, UpdateCiRun, RunOf, Step
<1>4. /\ runs' \in Seq(Run)
      /\ DOMAIN runs' = DOMAIN runs
      /\ runs'[r] = [runs[r] EXCEPT !.status = worker[w].verdict]
      /\ \A k \in DOMAIN runs : k # r => runs'[k] = runs[k]
  BY <1>1, <1>2, <1>3, RunStatusWrite DEF TypeOK, StoreTypeOK
<1>5. runs[r] \in Run
  BY <1>1, ElementOfSeq, LenProperties DEF TypeOK, StoreTypeOK
<1>6. runs'[r].status # "QUEUED"
  BY <1>2, <1>4, <1>5 DEF Run
<1>7. /\ worker' \in [Workers -> WorkerState]
      /\ worker'[w] = to
      /\ \A v \in Workers : v # w => worker'[v] = worker[v]
  BY <1>2, <1>3 DEF Goto, TypeOK, WorkerTypeOK
<1>. HIDE DEF to
<1>8. TypeOK'
  BY <1>3, <1>4, <1>7 DEF TypeOK, WorkerTypeOK, StoreTypeOK, HandlerTypeOK
<1>9. OneJobPerRun' /\ AttemptsBounded'
  BY <1>3, <1>4 DEF OneJobPerRun, AttemptsBounded
<1>10. LockExclusive'
  BY <1>2, <1>3, <1>7 DEF LockExclusive, Eligible
<1>11. QueuedIffReady'
  <2>. SUFFICES ASSUME NEW k \in DOMAIN jobs
                PROVE  jobs[k].status = "READY" <=> runs'[jobs[k].run].status = "QUEUED"
    BY <1>3 DEF QueuedIffReady
  <2>1. CASE k = j
    BY <2>1, <1>1, <1>6
  <2>2. CASE k # j
    BY <2>2, <1>1, <1>4 DEF QueuedIffReady, OneJobPerRun
  <2>3. QED
    BY <2>1, <2>2
<1>12. WorkerKnows'
  BY <1>1, <1>2, <1>3, <1>7 DEF WorkerKnows, Busy
<1>13. HandlerKnows'
  BY <1>1, <1>3, <1>4 DEF HandlerKnows, OneJobPerRun
<1>14. QED
  BY <1>8, <1>9, <1>10, <1>11, <1>12, <1>13

\* A worker writes the final status of a job nobody has locked.
LEMMA WriteJobStep ==
  ASSUME IInv, NEW w \in Workers, WriteJob(w), UNCHANGED handler
  PROVE  IInv'
<1>. USE DEF IInv
<1>. DEFINE j == worker[w].job
            to == IF worker[w].scope = "bare" THEN Resting
                  ELSE [Resting EXCEPT !.pc = "cleanup", !.job = j]
<1>1. /\ worker[w] \in WorkerState
      /\ j \in DOMAIN jobs
      /\ jobs[j].status # "READY"
  BY DEF TypeOK, WorkerTypeOK, WorkerKnows, Busy, WriteJob
<1>2. /\ worker[w].final \in JobStatus \ {"READY"}
      /\ to \in WorkerState
      /\ to.pc \in {"idle", "cleanup"}
      /\ to.pc # "idle" => to.job = j
  BY <1>1 DEF WorkerState, JobStatus, Resting
<1>3. /\ SetJobStatus(j, worker[w].final)
      /\ Goto(w, to)
      /\ ~Locked(j)
      /\ worker[w].pc = "writeJob"
      /\ UNCHANGED <<deliveries, runs, checkouts, handler>>
  BY DEF WriteJob, CompleteJob, GotoCleanup
<1>4. /\ jobs' \in Seq(Job)
      /\ DOMAIN jobs' = DOMAIN jobs
      /\ jobs'[j] = [jobs[j] EXCEPT !.status = worker[w].final]
      /\ \A k \in DOMAIN jobs : k # j => jobs'[k] = jobs[k]
  BY <1>1, <1>2, <1>3, JobStatusWrite DEF TypeOK, StoreTypeOK
<1>5. jobs[j] \in Job
  BY <1>1, ElementOfSeq, LenProperties DEF TypeOK, StoreTypeOK
<1>6. /\ jobs'[j].status # "READY"
      /\ jobs'[j].run = jobs[j].run
      /\ jobs'[j].attempts = jobs[j].attempts
  BY <1>2, <1>4, <1>5 DEF Job
<1>7. /\ worker' \in [Workers -> WorkerState]
      /\ worker'[w] = to
      /\ \A v \in Workers : v # w => worker'[v] = worker[v]
  BY <1>2, <1>3 DEF Goto, TypeOK, WorkerTypeOK
<1>. HIDE DEF to
<1>8. TypeOK'
  BY <1>3, <1>4, <1>7 DEF TypeOK, WorkerTypeOK, StoreTypeOK, HandlerTypeOK
<1>9. /\ \A k \in DOMAIN jobs : jobs'[k].run = jobs[k].run
      /\ \A k \in DOMAIN jobs : jobs'[k].attempts = jobs[k].attempts
      /\ \A k \in DOMAIN jobs : jobs'[k].status = "READY" <=> jobs[k].status = "READY"
  BY <1>1, <1>4, <1>6
<1>10. OneJobPerRun' /\ AttemptsBounded' /\ QueuedIffReady' /\ HandlerKnows'
  BY <1>3, <1>4, <1>9 DEF OneJobPerRun, AttemptsBounded, QueuedIffReady, HandlerKnows
<1>11. LockExclusive'
  BY <1>2, <1>3, <1>4, <1>7 DEF LockExclusive, Locked, Eligible, WorkerKnows
<1>12. WorkerKnows'
  BY <1>1, <1>2, <1>4, <1>7, <1>9 DEF WorkerKnows, Busy
<1>13. QED
  BY <1>8, <1>10, <1>11, <1>12

\* A request inserts its run and becomes the only one that will give it a job.
LEMMA InsertRunStep ==
  ASSUME IInv, NEW h \in Handlers, InsertRun(h), UNCHANGED workerVars
  PROVE  IInv'
<1>. USE DEF IInv
<1>. DEFINE new == [sha |-> handler[h].sha, status |-> "QUEUED", recent |-> TRUE]
            n == Len(runs) + 1
            to == [handler[h] EXCEPT !.pc = "createJob", !.run = n]
<1>1. /\ handler[h] \in HandlerState
      /\ handler[h].sha \in Shas
      /\ Len(runs) \in Nat
      /\ n \in Nat
  BY LenProperties DEF TypeOK, HandlerTypeOK, StoreTypeOK, HandlerKnows, InsertRun
<1>2. new \in Run
  BY <1>1 DEF Run, RunStatus
<1>3. /\ to \in HandlerState
      /\ to.pc = "createJob"
      /\ to.run = n
      /\ to.sha = handler[h].sha
  BY <1>1 DEF HandlerState
<1>4. /\ runs' = Append(runs, new)
      /\ Advance(h, to)
      /\ UNCHANGED <<deliveries, jobs, worker, checkouts>>
  BY DEF InsertRun, CreateCiRun, workerVars
<1>5. new.status = "QUEUED"
  OBVIOUS
<1>. HIDE DEF new, to
<1>6. /\ runs' \in Seq(Run)
      /\ DOMAIN runs = 1..Len(runs)
      /\ DOMAIN runs' = 1..n
      /\ runs'[n] = new
      /\ \A r \in DOMAIN runs : runs'[r] = runs[r]
  BY <1>2, <1>4, AppendRow DEF TypeOK, StoreTypeOK
<1>7. /\ handler' \in [Handlers -> HandlerState]
      /\ handler'[h] = to
      /\ \A g \in Handlers : g # h => handler'[g] = handler[g]
  BY <1>3, <1>4 DEF Advance, TypeOK, HandlerTypeOK
<1>8. /\ n \notin DOMAIN runs
      /\ n \in DOMAIN runs'
      /\ \A r \in DOMAIN runs : r \in DOMAIN runs'
  BY <1>1, <1>6
<1>9. TypeOK'
  BY <1>4, <1>6, <1>7 DEF TypeOK, WorkerTypeOK, StoreTypeOK, HandlerTypeOK
<1>10. OneJobPerRun'
  BY <1>3, <1>4, <1>7, <1>8 DEF OneJobPerRun
<1>11. LockExclusive' /\ AttemptsBounded' /\ WorkerKnows'
  BY <1>4 DEF LockExclusive, Eligible, AttemptsBounded, WorkerKnows, Busy
<1>12. QueuedIffReady'
  BY <1>4, <1>6 DEF QueuedIffReady, OneJobPerRun
<1>13. HandlerKnows'
  BY <1>1, <1>3, <1>5, <1>6, <1>7, <1>8 DEF HandlerKnows
<1>14. QED
  BY <1>9, <1>10, <1>11, <1>12, <1>13

\* A request gives the run it inserted its job.
LEMMA InsertJobStep ==
  ASSUME IInv, NEW h \in Handlers, InsertJob(h), UNCHANGED workerVars
  PROVE  IInv'
<1>. USE DEF IInv
<1>. DEFINE new == [run |-> handler[h].run, status |-> "READY", attempts |-> 0,
                    lease |-> "none"]
            n == Len(jobs) + 1
<1>1. /\ handler[h] \in HandlerState
      /\ handler[h].pc = "createJob"
      /\ handler[h].run \in DOMAIN runs
      /\ runs[handler[h].run].status = "QUEUED"
      /\ Len(jobs) \in Nat
  BY LenProperties DEF TypeOK, HandlerTypeOK, StoreTypeOK, HandlerKnows, InsertJob
<1>2. /\ new \in Job
      /\ new.run = handler[h].run
      /\ new.status = "READY"
      /\ new.attempts = 0
  BY <1>1 DEF Job, JobStatus, LeaseState, HandlerState
<1>3. /\ jobs' = Append(jobs, new)
      /\ Advance(h, Free)
      /\ UNCHANGED <<deliveries, runs, worker, checkouts>>
  BY DEF InsertJob, CreateCiJob, workerVars
<1>4. Free \in HandlerState /\ Free.pc = "free"
  BY DEF Free, HandlerState
<1>. HIDE DEF new
<1>5. /\ jobs' \in Seq(Job)
      /\ DOMAIN jobs = 1..Len(jobs)
      /\ DOMAIN jobs' = 1..n
      /\ jobs'[n] = new
      /\ \A j \in DOMAIN jobs : jobs'[j] = jobs[j]
  BY <1>2, <1>3, AppendRow DEF TypeOK, StoreTypeOK
<1>6. DOMAIN jobs' = DOMAIN jobs \cup {n}
  BY <1>1, <1>5
<1>7. /\ handler' \in [Handlers -> HandlerState]
      /\ handler'[h] = Free
      /\ \A g \in Handlers : g # h => handler'[g] = handler[g]
  BY <1>3, <1>4 DEF Advance, TypeOK, HandlerTypeOK
<1>8. TypeOK'
  BY <1>3, <1>5, <1>7 DEF TypeOK, WorkerTypeOK, StoreTypeOK, HandlerTypeOK
<1>9. OneJobPerRun'
  <2>1. \A j \in DOMAIN jobs' : jobs'[j].run \in DOMAIN runs'
    BY <1>1, <1>2, <1>3, <1>5, <1>6 DEF OneJobPerRun
  <2>2. \A j \in DOMAIN jobs : jobs'[j].run # jobs'[n].run
    BY <1>1, <1>2, <1>5 DEF OneJobPerRun
  <2>3. \A i, j \in DOMAIN jobs' : jobs'[i].run = jobs'[j].run => i = j
    BY <2>2, <1>5, <1>6 DEF OneJobPerRun
  <2>4. \A g \in Handlers : handler'[g].pc = "createJob" =>
          \A j \in DOMAIN jobs' : jobs'[j].run # handler'[g].run
    BY <1>1, <1>2, <1>4, <1>5, <1>6, <1>7 DEF OneJobPerRun, HandlerKnows
  <2>5. QED
    BY <2>1, <2>3, <2>4 DEF OneJobPerRun
<1>10. LockExclusive' /\ WorkerKnows'
  BY <1>3, <1>5, <1>6 DEF LockExclusive, Eligible, WorkerKnows, Busy
<1>11. AttemptsBounded'
  BY <1>2, <1>5, <1>6, MaxAttemptsAssumption DEF AttemptsBounded
<1>12. QueuedIffReady'
  BY <1>1, <1>2, <1>3, <1>5, <1>6 DEF QueuedIffReady
<1>13. HandlerKnows'
  BY <1>3, <1>4, <1>7 DEF HandlerKnows
<1>14. QED
  BY <1>8, <1>9, <1>10, <1>11, <1>12, <1>13

\* A lease runs out.
LEMMA ExpireStep ==
  ASSUME IInv, NEW j \in DOMAIN jobs, ExpireLease(j), UNCHANGED <<handler, workerVars>>
  PROVE  IInv'
<1>. USE DEF IInv
<1>. DEFINE row == [jobs[j] EXCEPT !.lease = "expired"]
<1>1. jobs[j] \in Job
  BY ElementOfSeq, LenProperties DEF TypeOK, StoreTypeOK
<1>2. /\ row \in Job
      /\ row.run = jobs[j].run
      /\ row.status = "LEASED"
      /\ jobs[j].status = "LEASED"
      /\ row.attempts = jobs[j].attempts
      /\ row.lease = "expired"
  BY <1>1 DEF Job, LeaseState, ExpireLease
<1>3. /\ deliveries' = deliveries /\ runs' = runs
      /\ handler' = handler /\ worker' = worker /\ checkouts' = checkouts
  BY DEF ExpireLease, workerVars
<1>4. /\ jobs' \in Seq(Job)
      /\ DOMAIN jobs' = DOMAIN jobs
      /\ jobs'[j] = row
      /\ \A k \in DOMAIN jobs : k # j => jobs'[k] = jobs[k]
  BY <1>2, UpdateRow DEF ExpireLease, row, TypeOK, StoreTypeOK
<1>. HIDE DEF row
<1>5. \A k \in DOMAIN jobs :
        /\ jobs'[k].run = jobs[k].run
        /\ jobs'[k].attempts = jobs[k].attempts
        /\ jobs'[k].status = jobs[k].status
        /\ jobs[k].lease = "expired" => jobs'[k].lease = "expired"
  BY <1>2, <1>4
<1>6. TypeOK'
  BY <1>3, <1>4 DEF TypeOK, WorkerTypeOK, StoreTypeOK, HandlerTypeOK
<1>7. OneJobPerRun' /\ AttemptsBounded' /\ QueuedIffReady' /\ HandlerKnows'
  BY <1>3, <1>4, <1>5 DEF OneJobPerRun, AttemptsBounded, QueuedIffReady, HandlerKnows
<1>8. LockExclusive' /\ WorkerKnows'
  BY <1>3, <1>4, <1>5 DEF LockExclusive, Eligible, WorkerKnows, Busy
<1>9. QED
  BY <1>6, <1>7, <1>8

\* A run leaves the six hours findExistingCiRun looks back.
LEMMA AgeStep ==
  ASSUME IInv, NEW r \in DOMAIN runs, AgeRun(r), UNCHANGED <<handler, workerVars>>
  PROVE  IInv'
<1>. USE DEF IInv
<1>. DEFINE row == [runs[r] EXCEPT !.recent = FALSE]
<1>1. runs[r] \in Run
  BY ElementOfSeq, LenProperties DEF TypeOK, StoreTypeOK
<1>2. row \in Run /\ row.status = runs[r].status
  BY <1>1 DEF Run
<1>3. /\ runs' = [runs EXCEPT ![r] = row]
      /\ UNCHANGED <<deliveries, jobs, handler, worker, checkouts>>
  BY DEF AgeRun, workerVars
<1>. HIDE DEF row
<1>4. /\ runs' \in Seq(Run)
      /\ DOMAIN runs' = DOMAIN runs
      /\ runs'[r] = row
      /\ \A k \in DOMAIN runs : k # r => runs'[k] = runs[k]
  BY <1>2, <1>3, UpdateRow DEF TypeOK, StoreTypeOK
<1>5. \A k \in DOMAIN runs : runs'[k].status = runs[k].status
  BY <1>2, <1>4
<1>6. TypeOK'
  BY <1>3, <1>4 DEF TypeOK, WorkerTypeOK, StoreTypeOK, HandlerTypeOK
<1>7. OneJobPerRun' /\ QueuedIffReady' /\ HandlerKnows'
  BY <1>3, <1>4, <1>5 DEF OneJobPerRun, QueuedIffReady, HandlerKnows
<1>8. LockExclusive' /\ AttemptsBounded' /\ WorkerKnows'
  BY <1>3 DEF LockExclusive, Eligible, AttemptsBounded, WorkerKnows, Busy
<1>9. QED
  BY <1>6, <1>7, <1>8

\* The process dies: the tables are all that is left.
LEMMA CrashStep ==
  ASSUME IInv, Crash
  PROVE  IInv'
<1>. USE DEF IInv
<1>1. /\ handler' = [h \in Handlers |-> Free]
      /\ worker' = [w \in Workers |-> Resting]
      /\ checkouts' \subseteq Nat
      /\ UNCHANGED <<deliveries, runs, jobs>>
  BY DEF Crash, storeVars, TypeOK, WorkerTypeOK
<1>2. Free \in HandlerState /\ Free.pc = "free"
  BY DEF Free, HandlerState
<1>3. Resting \in WorkerState /\ Resting.pc = "idle"
  BY DEF Resting, WorkerState
<1>4. TypeOK'
  BY <1>1, <1>2, <1>3 DEF TypeOK, StoreTypeOK, HandlerTypeOK, WorkerTypeOK
<1>5. /\ \A h \in Handlers : handler'[h].pc = "free"
      /\ \A w \in Workers : worker'[w].pc = "idle"
      /\ jobs' = jobs /\ runs' = runs
  BY <1>1, <1>2, <1>3
<1>6. OneJobPerRun' /\ AttemptsBounded' /\ QueuedIffReady' /\ HandlerKnows'
  BY <1>5 DEF OneJobPerRun, AttemptsBounded, QueuedIffReady, HandlerKnows
<1>7. LockExclusive' /\ WorkerKnows'
  BY <1>5 DEF LockExclusive, WorkerKnows, Busy
<1>8. QED
  BY <1>4, <1>6, <1>7

\* A worker decides what to write, having a lease.
LEMMA SettleMoves ==
  ASSUME IInv, NEW w \in Workers, Busy(w),
         NEW verdict \in {"SUCCEEDED", "FAILED"}, NEW final \in {"DONE", "DEAD"},
         NEW scope \in {"bare", "try", "catch"},
         Settle(w, verdict, final, scope),
         checkouts' \subseteq Nat,
         UNCHANGED <<storeVars, handler>>
  PROVE  IInv'
<1>. DEFINE to == [worker[w] EXCEPT !.pc = "writeRun", !.verdict = verdict,
                                    !.final = final, !.scope = scope]
<1>1. worker[w] \in WorkerState
  BY DEF IInv, TypeOK, WorkerTypeOK
<1>2. to \in WorkerState /\ to.pc = "writeRun" /\ to.job = worker[w].job
  BY <1>1 DEF WorkerState
<1>3. Goto(w, to)
  BY DEF Settle
<1>. HIDE DEF to
<1>4. QED
  BY <1>2, <1>3, WorkerMoves

\* The catch block, entered with a lease.
LEMMA CaughtMoves ==
  ASSUME IInv, NEW w \in Workers, Busy(w), Caught(w),
         checkouts' \subseteq Nat,
         UNCHANGED <<storeVars, handler>>
  PROVE  IInv'
<1>. DEFINE to == [worker[w] EXCEPT !.pc = "writeJob", !.final = "DEAD",
                                    !.scope = "catch"]
<1>1. worker[w] \in WorkerState
  BY DEF IInv, TypeOK, WorkerTypeOK
<1>2. to \in WorkerState /\ to.pc = "writeJob" /\ to.job = worker[w].job
  BY <1>1 DEF WorkerState
<1>3. CASE Settle(w, "FAILED", "DEAD", "catch")
  BY <1>3, SettleMoves
<1>4. CASE Goto(w, to)
  <2>. HIDE DEF to
  <2>. QED
    BY <1>2, <1>4, WorkerMoves
<1>5. QED
  BY <1>3, <1>4 DEF Caught

\* A worker with a lease goes to the next program point, or to the finally
\* block, or rests.
LEMMA GoesOn ==
  ASSUME IInv, NEW w \in Workers, worker[w].pc # "idle",
         \/ Goto(w, Resting)
         \/ Busy(w) /\ GotoCleanup(w)
         \/ Busy(w) /\ \E pc \in {"clone", "analyze"} : Step(w, pc),
         checkouts' \subseteq Nat,
         UNCHANGED <<storeVars, handler>>
  PROVE  IInv'
<1>1. worker[w] \in WorkerState
  BY DEF IInv, TypeOK, WorkerTypeOK
<1>2. CASE Goto(w, Resting)
  <2>1. Resting \in WorkerState /\ Resting.pc = "idle"
    BY DEF Resting, WorkerState
  <2>2. QED
    BY <1>2, <2>1, WorkerMoves
<1>3. CASE Busy(w) /\ GotoCleanup(w)
  <2>. DEFINE to == [Resting EXCEPT !.pc = "cleanup", !.job = worker[w].job]
  <2>1. to \in WorkerState /\ to.pc = "cleanup" /\ to.job = worker[w].job
    BY <1>1 DEF Resting, WorkerState
  <2>2. Goto(w, to)
    BY <1>3 DEF GotoCleanup
  <2>. HIDE DEF to
  <2>3. QED
    BY <1>3, <2>1, <2>2, WorkerMoves
<1>4. ASSUME Busy(w), NEW pc \in {"clone", "analyze"}, Step(w, pc)
      PROVE  IInv'
  <2>. DEFINE to == [worker[w] EXCEPT !.pc = pc]
  <2>1. to \in WorkerState /\ to.pc = pc /\ to.job = worker[w].job
    BY <1>1 DEF WorkerState
  <2>2. Goto(w, to)
    BY <1>4 DEF Step
  <2>. HIDE DEF to
  <2>3. QED
    BY <1>4, <2>1, <2>2, WorkerMoves
<1>5. QED
  BY <1>2, <1>3, <1>4

\* The worker reads the job it has leased.
LEMMA ReadLeaseStep ==
  ASSUME IInv, NEW w \in Workers, ReadLease(w), UNCHANGED handler
  PROVE  IInv'
<1>. DEFINE to == [worker[w] EXCEPT !.pc = "start",
                                    !.attempts = jobs[worker[w].job].attempts]
<1>1. worker[w] \in WorkerState /\ worker[w].job \in DOMAIN jobs /\ Busy(w)
  BY DEF IInv, TypeOK, WorkerTypeOK, WorkerKnows, Busy, ReadLease
<1>2. jobs[worker[w].job].attempts \in Nat
  <2>1. jobs[worker[w].job] \in Job
    BY <1>1, ElementOfSeq, LenProperties DEF IInv, TypeOK, StoreTypeOK
  <2>2. QED
    BY <2>1 DEF Job
<1>3. to \in WorkerState /\ to.pc = "start" /\ to.job = worker[w].job
  BY <1>1, <1>2 DEF WorkerState
<1>4. /\ Goto(w, to)
      /\ checkouts' \subseteq Nat
      /\ UNCHANGED <<storeVars, handler>>
  BY DEF ReadLease, IInv, TypeOK, WorkerTypeOK
<1>. HIDE DEF to
<1>5. QED
  BY <1>1, <1>3, <1>4, WorkerMoves

\* A step that changes nothing.
LEMMA Stutter ==
  ASSUME IInv, UNCHANGED vars
  PROVE  IInv'
BY DEF IInv, vars, storeVars, workerVars, TypeOK, StoreTypeOK, HandlerTypeOK,
   WorkerTypeOK, OneJobPerRun, LockExclusive, Eligible, AttemptsBounded, QueuedIffReady,
   WorkerKnows, Busy, HandlerKnows

\* A step of the lease preserves the inductive invariant.
LEMMA LeaseIInv ==
  ASSUME IInv, NEW w \in Workers, Lease(w), UNCHANGED handler
  PROVE  IInv'
<1>1. CASE LockNextJob(w)
  BY <1>1, LockStep
<1>2. CASE FindNoJob(w)
  BY <1>2, Stutter DEF FindNoJob, vars
<1>3. CASE GrantLease(w)
  BY <1>3, GrantStep
<1>4. CASE RefuseLease(w)
  BY <1>4, RefuseStep
<1>5. CASE FailLease(w)
  BY <1>5, GoesOn DEF FailLease, IInv, TypeOK, WorkerTypeOK
<1>6. CASE ReadLease(w)
  BY <1>6, ReadLeaseStep
<1>7. QED
  BY <1>1, <1>2, <1>3, <1>4, <1>5, <1>6 DEF Lease

\* The run of a job in work is a number.
LEMMA RunOfNat ==
  ASSUME IInv, NEW w \in Workers, worker[w].pc # "idle"
  PROVE  RunOf(w) \in Nat
<1>1. jobs[worker[w].job] \in Job
  BY ElementOfSeq, LenProperties DEF IInv, TypeOK, StoreTypeOK, WorkerKnows
<1>2. QED
  BY <1>1 DEF RunOf, Job

\* A step before the clone preserves the inductive invariant.
LEMMA PrepareIInv ==
  ASSUME IInv, NEW w \in Workers, Prepare(w), UNCHANGED handler
  PROVE  IInv'
<1>1. worker[w].pc = "start" /\ Busy(w) /\ UNCHANGED storeVars
  BY DEF Prepare, FailSetup, RejectLowDisk, RejectWorkdir, BeginClone, CloneRefused,
     Busy
<1>2. checkouts \subseteq Nat /\ RunOf(w) \in Nat
  BY <1>1, RunOfNat DEF IInv, TypeOK, WorkerTypeOK
<1>3. CASE RejectLowDisk(w)
  BY <1>1, <1>2, <1>3, SettleMoves DEF RejectLowDisk
<1>4. CASE RejectWorkdir(w)
  BY <1>1, <1>2, <1>4, SettleMoves DEF RejectWorkdir
<1>5. CASE BeginClone(w)
  BY <1>1, <1>2, <1>5, GoesOn DEF BeginClone
<1>6. CASE CloneRefused(w)
  BY <1>1, <1>2, <1>6, CaughtMoves DEF CloneRefused
<1>7. CASE FailSetup(w)
  BY <1>1, <1>2, <1>7, GoesOn DEF FailSetup
<1>8. QED
  BY <1>3, <1>4, <1>5, <1>6, <1>7 DEF Prepare

\* A step of the clone preserves the inductive invariant.
LEMMA CloneIInv ==
  ASSUME IInv, NEW w \in Workers, Clone(w), UNCHANGED handler
  PROVE  IInv'
<1>1. worker[w].pc = "clone" /\ Busy(w) /\ UNCHANGED storeVars
  BY DEF Clone, CloneFails, RejectRepo, CloneDone, Busy
<1>2. checkouts \subseteq Nat
  BY DEF IInv, TypeOK, WorkerTypeOK
<1>3. CASE CloneFails(w)
  BY <1>1, <1>2, <1>3, CaughtMoves DEF CloneFails
<1>4. CASE RejectRepo(w)
  BY <1>1, <1>2, <1>4, SettleMoves DEF RejectRepo
<1>5. CASE CloneDone(w)
  BY <1>1, <1>2, <1>5, GoesOn DEF CloneDone
<1>6. QED
  BY <1>3, <1>4, <1>5 DEF Clone

\* A step of the analyzer preserves the inductive invariant.
LEMMA AnalyzeIInv ==
  ASSUME IInv, NEW w \in Workers, Analyze(w), UNCHANGED handler
  PROVE  IInv'
<1>1. /\ Busy(w)
      /\ UNCHANGED <<storeVars, checkouts>>
      /\ Settle(w, "SUCCEEDED", "DONE", "try") \/ Settle(w, "FAILED", "DONE", "try")
  BY DEF Analyze, AnalyzerSucceeds, AnalyzerFails, Busy
<1>2. checkouts' \subseteq Nat
  BY <1>1 DEF IInv, TypeOK, WorkerTypeOK
<1>3. QED
  BY <1>1, <1>2, SettleMoves

\* A step that ends the job preserves the inductive invariant.
LEMMA FinishIInv ==
  ASSUME IInv, NEW w \in Workers, Finish(w), UNCHANGED handler
  PROVE  IInv'
<1>1. checkouts \subseteq Nat
  BY DEF IInv, TypeOK, WorkerTypeOK
<1>2. CASE WriteRun(w)
  BY <1>2, WriteRunStep
<1>3. CASE WriteJob(w)
  BY <1>3, WriteJobStep
<1>4. CASE WriteFails(w)
  <2>1. /\ Busy(w)
        /\ worker[w].pc # "idle"
        /\ Goto(w, Resting) \/ Caught(w) \/ GotoCleanup(w)
        /\ UNCHANGED <<storeVars, checkouts, handler>>
    BY <1>4 DEF WriteFails, Busy
  <2>2. QED
    BY <1>1, <2>1, CaughtMoves, GoesOn
<1>5. CASE Cleanup(w)
  BY <1>1, <1>5, GoesOn DEF Cleanup
<1>6. QED
  BY <1>2, <1>3, <1>4, <1>5 DEF Finish

\* A delivery that arrives preserves the inductive invariant.
LEMMA ArriveIInv ==
  ASSUME IInv, NEW h \in Handlers, Arrive(h), UNCHANGED workerVars
  PROVE  IInv'
<1>1. /\ handler \in [Handlers -> HandlerState]
      /\ deliveries \subseteq Deliveries
  BY DEF IInv, TypeOK, HandlerTypeOK, StoreTypeOK
<1>2. ASSUME NEW d \in Deliveries, AcceptDelivery(h, d)
      PROVE  IInv'
  <2>1. DeliverySha[d] \in Shas
    BY <1>2, DeliveryShaAssumption DEF AcceptDelivery
  <2>2. [pc |-> "find", sha |-> DeliverySha[d], run |-> 0] \in HandlerState
    BY <2>1 DEF HandlerState
  <2>3. QED
    BY <1>1, <1>2, <2>1, <2>2, HandlerMoves DEF AcceptDelivery
<1>3. ASSUME NEW d \in Deliveries, IgnoreDelivery(h, d)
      PROVE  IInv'
  <2>1. handler[h] \in HandlerState /\ handler[h].pc = "free"
    BY <1>1, <1>3 DEF IgnoreDelivery
  <2>2. Advance(h, handler[h])
    BY <1>1, <1>3 DEF IgnoreDelivery, Advance
  <2>3. QED
    BY <1>1, <1>3, <2>1, <2>2, HandlerMoves DEF IgnoreDelivery
<1>4. ASSUME NEW d \in Deliveries, ReplayDelivery(h, d)
      PROVE  IInv'
  BY <1>4, Stutter DEF ReplayDelivery, vars
<1>5. ASSUME NEW sha \in Shas, EnqueueRequest(h, sha)
      PROVE  IInv'
  <2>1. [pc |-> "find", sha |-> sha, run |-> 0] \in HandlerState
    BY DEF HandlerState
  <2>2. QED
    BY <1>1, <1>5, <2>1, HandlerMoves DEF EnqueueRequest, storeVars
<1>6. QED
  BY <1>2, <1>3, <1>4, <1>5 DEF Arrive

\* A step of a handler preserves the inductive invariant.
LEMMA HandleIInv ==
  ASSUME IInv, NEW h \in Handlers, Handle(h), UNCHANGED workerVars
  PROVE  IInv'
<1>1. /\ handler[h] \in HandlerState
      /\ deliveries \subseteq Deliveries
  BY DEF IInv, TypeOK, HandlerTypeOK, StoreTypeOK
<1>2. CASE DedupBySha(h)
  <2>1. Free \in HandlerState /\ Free.pc = "free"
    BY DEF Free, HandlerState
  <2>2. QED
    BY <1>1, <1>2, <2>1, HandlerMoves DEF DedupBySha, storeVars
<1>3. CASE FindNone(h)
  <2>. DEFINE to == [handler[h] EXCEPT !.pc = "createRun"]
  <2>1. to \in HandlerState /\ to.pc = "createRun" /\ to.sha = handler[h].sha
    BY <1>1 DEF HandlerState
  <2>2. Advance(h, to) /\ handler[h].pc = "find" /\ UNCHANGED storeVars
    BY <1>3 DEF FindNone
  <2>3. handler[h].sha \in Shas
    BY <2>2 DEF IInv, HandlerKnows
  <2>. HIDE DEF to
  <2>4. QED
    BY <1>1, <2>1, <2>2, <2>3, HandlerMoves DEF storeVars
<1>4. CASE InsertRun(h)
  BY <1>4, InsertRunStep
<1>5. CASE InsertJob(h)
  BY <1>5, InsertJobStep
<1>6. CASE RequestFails(h)
  <2>1. Free \in HandlerState /\ Free.pc = "free"
    BY DEF Free, HandlerState
  <2>2. QED
    BY <1>1, <1>6, <2>1, HandlerMoves DEF RequestFails, storeVars
<1>7. QED
  BY <1>2, <1>3, <1>4, <1>5, <1>6 DEF Handle

\* Every step preserves the inductive invariant.
LEMMA NextIInv == IInv /\ [Next]_vars => IInv'
<1>. SUFFICES ASSUME IInv, [Next]_vars
              PROVE  IInv'
  OBVIOUS
<1>1. ASSUME NEW h \in Handlers, Arrive(h), UNCHANGED workerVars
      PROVE  IInv'
  BY <1>1, ArriveIInv
<1>2. ASSUME NEW h \in Handlers, Handle(h), UNCHANGED workerVars
      PROVE  IInv'
  BY <1>2, HandleIInv
<1>3. ASSUME NEW w \in Workers, Work(w), UNCHANGED handler
      PROVE  IInv'
  BY <1>3, LeaseIInv, PrepareIInv, CloneIInv, AnalyzeIInv, FinishIInv DEF Work
<1>4. ASSUME NEW j \in DOMAIN jobs, ExpireLease(j), UNCHANGED <<handler, workerVars>>
      PROVE  IInv'
  BY <1>4, ExpireStep
<1>5. ASSUME NEW r \in DOMAIN runs, AgeRun(r), UNCHANGED <<handler, workerVars>>
      PROVE  IInv'
  BY <1>5, AgeStep
<1>6. CASE Crash
  BY <1>6, CrashStep
<1>7. CASE UNCHANGED vars
  BY <1>7, Stutter
<1>8. QED
  BY <1>1, <1>2, <1>3, <1>4, <1>5, <1>6, <1>7 DEF Next

-----------------------------------------------------------------------------
(***************************************************************************)
(* Theorems                                                                *)
(***************************************************************************)
LEMMA Inductive == Spec => []IInv
<1>1. Init => IInv
  BY InitIInv
<1>2. IInv /\ [Next]_vars => IInv'
  BY NextIInv
<1>3. QED
  BY <1>1, <1>2, PTL DEF Spec

\* Type correctness: the tables, the requests and the invocations hold what
\* CiStore, CiIntake and CiWorker say they hold.
THEOREM TypeCorrect == Spec => []TypeOK
<1>1. IInv => TypeOK
  BY DEF IInv
<1>2. QED
  BY <1>1, Inductive, PTL

\* The three statements with which routes.ts takes a commit in never give a
\* run a second job, and never a job a run that is not there, however many
\* requests interleave and whenever the process dies.
THEOREM OneJobPerRunHolds == Spec => []OneJobPerRun
<1>1. IInv => OneJobPerRun
  BY DEF IInv
<1>2. QED
  BY <1>1, Inductive, PTL

\* SELECT ... FOR UPDATE SKIP LOCKED keeps two lease transactions off one job,
\* and what the SELECT read of the row still holds when the UPDATEs follow:
\* no other write of processOneJob, and not the clock, comes between.
THEOREM LockExclusiveHolds == Spec => []LockExclusive
<1>1. IInv => LockExclusive
  BY DEF IInv
<1>2. QED
  BY <1>1, Inductive, PTL

\* No job is leased more than MaxAttempts times, for any number of invocations
\* that overlap, fail or die.
THEOREM AttemptsBoundedHolds == Spec => []AttemptsBounded
<1>1. IInv => AttemptsBounded
  BY DEF IInv
<1>2. QED
  BY <1>1, Inductive, PTL

\* ci_runs and ci_jobs agree on which work was never started.
THEOREM QueuedIffReadyHolds == Spec => []QueuedIffReady
<1>1. IInv => QueuedIffReady
  BY DEF IInv
<1>2. QED
  BY <1>1, Inductive, PTL

-----------------------------------------------------------------------------
(***************************************************************************)
(* The steps of CiFeed, seen from ci_jobs alone                            *)
(***************************************************************************)
\* What a worker, or the clock, can do to one row.
MoveJob(j) ==
  \/ /\ Eligible(j)
     /\ jobs[j].attempts < MaxAttempts
     /\ jobs' = [jobs EXCEPT ![j] = Leased(jobs[j])]
  \/ /\ Eligible(j)
     /\ jobs[j].attempts >= MaxAttempts
     /\ SetJobStatus(j, "DEAD")
  \/ /\ jobs[j].status # "READY"
     /\ \E status \in {"DONE", "DEAD"} : SetJobStatus(j, status)
  \/ /\ jobs[j].status = "LEASED"
     /\ jobs' = [jobs EXCEPT ![j] = [@ EXCEPT !.lease = "expired"]]

MoveJobs ==
  \/ UNCHANGED jobs
  \/ \E h \in Handlers :
       handler[h].pc = "createJob" /\ handler[h].run \in Nat /\ CreateCiJob(handler[h].run)
  \/ \E j \in DOMAIN jobs : MoveJob(j)

-----------------------------------------------------------------------------
(***************************************************************************)
(* Every step moves one job, or none                                       *)
(***************************************************************************)
LEMMA WorkMovesJobs ==
  ASSUME IInv, NEW w \in Workers, Work(w)
  PROVE  MoveJobs
<1>. DEFINE j == worker[w].job
<1>1. worker[w].pc # "idle" => j \in DOMAIN jobs
  BY DEF IInv, WorkerKnows
<1>2. worker[w].pc = "locked" => Eligible(j) /\ worker[w].attempts = jobs[j].attempts
  BY DEF IInv, LockExclusive
<1>3. CASE GrantLease(w)
  BY <1>1, <1>2, <1>3 DEF GrantLease, LeaseJob, MoveJobs, MoveJob
<1>4. CASE RefuseLease(w)
  BY <1>1, <1>2, <1>4 DEF RefuseLease, ExhaustJob, MoveJobs, MoveJob
<1>5. CASE WriteJob(w)
  <2>1. j \in DOMAIN jobs /\ jobs[j].status # "READY"
    BY <1>1, <1>5 DEF WriteJob, IInv, WorkerKnows, Busy
  <2>2. worker[w].final \in {"DONE", "DEAD"}
    BY DEF IInv, TypeOK, WorkerTypeOK, WorkerState
  <2>3. SetJobStatus(j, worker[w].final)
    BY <1>5 DEF WriteJob, CompleteJob
  <2>4. QED
    BY <2>1, <2>2, <2>3 DEF MoveJobs, MoveJob
<1>6. CASE Lease(w) /\ ~GrantLease(w) /\ ~RefuseLease(w)
  BY <1>6 DEF Lease, LockNextJob, FindNoJob, FailLease, ReadLease, storeVars, MoveJobs
<1>7. CASE Prepare(w) \/ Clone(w) \/ Analyze(w)
  BY <1>7 DEF Prepare, FailSetup, RejectLowDisk, RejectWorkdir, BeginClone, CloneRefused,
     Clone, CloneFails, RejectRepo, CloneDone, Analyze, AnalyzerSucceeds, AnalyzerFails,
     storeVars, MoveJobs
<1>8. CASE Finish(w) /\ ~WriteJob(w)
  BY <1>8 DEF Finish, WriteRun, WriteFails, Cleanup, storeVars, MoveJobs
<1>9. QED
  BY <1>3, <1>4, <1>5, <1>6, <1>7, <1>8 DEF Work

\* Every step moves each job as a worker may, or adds one.
LEMMA NextMovesJobs ==
  ASSUME IInv, [Next]_vars
  PROVE  MoveJobs
<1>1. ASSUME NEW h \in Handlers, Arrive(h)
      PROVE  MoveJobs
  BY <1>1 DEF Arrive, AcceptDelivery, IgnoreDelivery, ReplayDelivery, EnqueueRequest,
     storeVars, MoveJobs
<1>2. ASSUME NEW h \in Handlers, Handle(h)
      PROVE  MoveJobs
  <2>1. CASE InsertJob(h)
    <3>1. handler[h].run \in Nat
      BY DEF IInv, TypeOK, HandlerTypeOK, HandlerState
    <3>2. QED
      BY <2>1, <3>1 DEF InsertJob, MoveJobs
  <2>2. CASE ~InsertJob(h)
    BY <1>2, <2>2 DEF Handle, DedupBySha, FindNone, InsertRun, RequestFails, storeVars,
       MoveJobs
  <2>3. QED
    BY <2>1, <2>2
<1>3. ASSUME NEW w \in Workers, Work(w)
      PROVE  MoveJobs
  BY <1>3, WorkMovesJobs
<1>4. ASSUME NEW j \in DOMAIN jobs, ExpireLease(j)
      PROVE  MoveJobs
  BY <1>4 DEF ExpireLease, MoveJobs, MoveJob
<1>5. ASSUME NEW r \in DOMAIN runs, AgeRun(r)
      PROVE  MoveJobs
  BY <1>5 DEF AgeRun, MoveJobs
<1>6. CASE Crash
  BY <1>6 DEF Crash, storeVars, MoveJobs
<1>7. CASE UNCHANGED vars
  BY <1>7 DEF vars, storeVars, MoveJobs
<1>8. QED
  BY <1>1, <1>2, <1>3, <1>4, <1>5, <1>6, <1>7 DEF Next

-----------------------------------------------------------------------------
(***************************************************************************)
(* Leases counted: what an invocation knows of the attempts of its job     *)
(***************************************************************************)
\* A committed lease is one the row has counted, and two invocations that hold
\* leases of one job hold different ones.
LeasesCounted ==
  /\ \A w \in Workers : Busy(w) => jobs[worker[w].job].attempts >= 1
  /\ \A v, w \in Workers :
       /\ Busy(v)
       /\ Busy(w)
       /\ worker[v].job = worker[w].job
       /\ v # w
       => jobs[worker[w].job].attempts >= 2

\* An invocation about to write DONE has written the run, and only a later
\* lease can have moved the run since.
VerdictFirst ==
  \A w \in Workers :
    /\ worker[w].pc = "writeJob"
    /\ worker[w].final = "DONE"
    /\ jobs[worker[w].job].attempts = 1
    => Finished(RunOf(w))

Leases == LeasesCounted /\ VerdictFirst /\ DoneOnceMeansSettled /\ TreeLostOnlyToRelease

\* The row that a worker or the clock writes back.
LEMMA MovedRow ==
  ASSUME NEW k \in DOMAIN jobs, jobs[k] \in Job, MoveJob(k)
  PROVE  \E row \in Job : /\ jobs' = [jobs EXCEPT ![k] = row]
                         /\ row.run = jobs[k].run
                         /\ row.attempts \in {jobs[k].attempts, jobs[k].attempts + 1}
<1>1. CASE jobs' = [jobs EXCEPT ![k] = Leased(jobs[k])]
  BY <1>1, LeasedRow
<1>2. ASSUME NEW status \in JobStatus, SetJobStatus(k, status)
      PROVE  \E row \in Job : /\ jobs' = [jobs EXCEPT ![k] = row]
                             /\ row.run = jobs[k].run
                             /\ row.attempts = jobs[k].attempts
  <2>1. [jobs[k] EXCEPT !.status = status] \in Job
    BY DEF Job
  <2>2. QED
    BY <1>2, <2>1 DEF SetJobStatus, Job
<1>3. ASSUME jobs' = [jobs EXCEPT ![k] = [@ EXCEPT !.lease = "expired"]]
      PROVE  \E row \in Job : /\ jobs' = [jobs EXCEPT ![k] = row]
                             /\ row.run = jobs[k].run
                             /\ row.attempts = jobs[k].attempts
  <2>1. [jobs[k] EXCEPT !.lease = "expired"] \in Job
    BY DEF Job, LeaseState
  <2>2. QED
    BY <1>3, <2>1 DEF Job
<1>4. QED
  BY <1>1, <1>2, <1>3 DEF MoveJob, JobStatus

\* The rows of ci_jobs keep their run and never lose an attempt; a row is new
\* or was there before.
LEMMA JobsKept ==
  ASSUME IInv, [Next]_vars, NEW j \in DOMAIN jobs
  PROVE  /\ j \in DOMAIN jobs'
         /\ jobs[j].attempts \in Nat
         /\ jobs'[j].attempts \in Nat
         /\ jobs'[j].run = jobs[j].run
         /\ jobs'[j].attempts >= jobs[j].attempts
<1>1. jobs[j] \in Job /\ jobs \in Seq(Job)
  BY ElementOfSeq, LenProperties DEF IInv, TypeOK, StoreTypeOK
<1>2. CASE UNCHANGED jobs
  BY <1>1, <1>2 DEF Job
<1>3. ASSUME NEW r \in Nat, CreateCiJob(r)
      PROVE  j \in DOMAIN jobs' /\ jobs'[j] = jobs[j]
  <2>. DEFINE new == [run |-> r, status |-> "READY", attempts |-> 0, lease |-> "none"]
  <2>1. new \in Job
    BY DEF Job, JobStatus, LeaseState
  <2>2. jobs' = Append(jobs, new)
    BY <1>3 DEF CreateCiJob
  <2>. HIDE DEF new
  <2>3. QED
    BY <1>1, <2>1, <2>2, AppendProperties
<1>4. ASSUME NEW k \in DOMAIN jobs, MoveJob(k)
      PROVE  /\ DOMAIN jobs' = DOMAIN jobs
             /\ jobs'[j].run = jobs[j].run
             /\ jobs'[j].attempts \in {jobs[j].attempts, jobs[j].attempts + 1}
  <2>1. jobs[k] \in Job
    BY <1>1, <1>4, ElementOfSeq, LenProperties
  <2>2. PICK row \in Job : /\ jobs' = [jobs EXCEPT ![k] = row]
                           /\ row.run = jobs[k].run
                           /\ row.attempts \in {jobs[k].attempts, jobs[k].attempts + 1}
    BY <1>4, <2>1, MovedRow
  <2>3. QED
    BY <1>1, <1>4, <2>1, <2>2, UpdateRow
<1>5. QED
  <2>1. CASE \E r \in Nat : CreateCiJob(r)
    BY <1>1, <1>3, <2>1 DEF Job
  <2>2. CASE \E k \in DOMAIN jobs : MoveJob(k)
    BY <1>1, <1>4, <2>2 DEF Job
  <2>3. QED
    BY <1>2, <2>1, <2>2, NextMovesJobs DEF MoveJobs

\* A step of one invocation is no other's.
LEMMA OneTurn ==
  ASSUME IInv, NEW w \in Workers, Work(w)
  PROVE  /\ UNCHANGED worker \/ \E to : Goto(w, to)
         /\ \A v \in Workers : v # w => worker'[v] = worker[v]
<1>1. UNCHANGED worker \/ \E to : Goto(w, to)
  BY DEF Work, Lease, LockNextJob, FindNoJob, GrantLease, RefuseLease, FailLease,
     ReadLease, Prepare, FailSetup, RejectLowDisk, RejectWorkdir, BeginClone,
     CloneRefused, Clone, CloneFails, RejectRepo, CloneDone, Analyze, AnalyzerSucceeds,
     AnalyzerFails, Finish, WriteRun, WriteJob, WriteFails, Cleanup, Caught, Settle,
     GotoCleanup, Step, workerVars
<1>2. QED
  BY <1>1 DEF Goto, IInv, TypeOK, WorkerTypeOK

\* A worker that goes to a state is in it.
LEMMA GotoValue ==
  ASSUME IInv, NEW w \in Workers, NEW to, Goto(w, to)
  PROVE  worker'[w] = to
BY DEF IInv, TypeOK, WorkerTypeOK, Goto

\* The worker that has settled on a verdict.
LEMMA SettledState ==
  ASSUME IInv, NEW w \in Workers,
         NEW verdict, NEW final, NEW scope, Settle(w, verdict, final, scope)
  PROVE  worker'[w].pc = "writeRun" /\ worker'[w].job = worker[w].job
<1>1. worker[w] \in WorkerState
  BY DEF IInv, TypeOK, WorkerTypeOK
<1>. DEFINE to == [worker[w] EXCEPT !.pc = "writeRun", !.verdict = verdict,
                                    !.final = final, !.scope = scope]
<1>2. to.pc = "writeRun" /\ to.job = worker[w].job
  BY <1>1 DEF WorkerState
<1>3. worker'[w] = to
  BY GotoValue DEF Settle
<1>4. QED
  BY <1>2, <1>3

\* The catch block never decides on DONE.
LEMMA CaughtState ==
  ASSUME IInv, NEW w \in Workers, Caught(w)
  PROVE  /\ worker'[w].pc \in {"writeRun", "writeJob"}
         /\ worker'[w].pc = "writeJob" => worker'[w].final = "DEAD"
         /\ worker'[w].job = worker[w].job
<1>1. worker[w] \in WorkerState
  BY DEF IInv, TypeOK, WorkerTypeOK
<1>2. CASE Settle(w, "FAILED", "DEAD", "catch")
  BY <1>2, SettledState
<1>3. CASE Goto(w, [worker[w] EXCEPT !.pc = "writeJob", !.final = "DEAD", !.scope = "catch"])
  <2>. DEFINE to == [worker[w] EXCEPT !.pc = "writeJob", !.final = "DEAD",
                                      !.scope = "catch"]
  <2>1. to.pc = "writeJob" /\ to.job = worker[w].job /\ to.final = "DEAD"
    BY <1>1 DEF WorkerState
  <2>2. worker'[w] = to
    BY <1>3, GotoValue
  <2>3. QED
    BY <2>1, <2>2
<1>4. QED
  BY <1>2, <1>3 DEF Caught

\* A step that changes the program point alone.
LEMMA SteppedState ==
  ASSUME IInv, NEW w \in Workers, NEW pc, Step(w, pc)
  PROVE  worker'[w].pc = pc /\ worker'[w].job = worker[w].job
<1>1. worker[w] \in WorkerState
  BY DEF IInv, TypeOK, WorkerTypeOK
<1>. DEFINE to == [worker[w] EXCEPT !.pc = pc]
<1>2. to.pc = pc /\ to.job = worker[w].job
  BY <1>1 DEF WorkerState
<1>3. worker'[w] = to
  BY GotoValue DEF Step
<1>4. QED
  BY <1>2, <1>3

\* The worker at rest and the one in the finally block.
LEMMA RestingState ==
  ASSUME IInv, NEW w \in Workers
  PROVE  /\ Goto(w, Resting) => worker'[w].pc = "idle"
         /\ GotoCleanup(w) => /\ worker'[w].pc = "cleanup"
                              /\ worker'[w].job = worker[w].job
<1>1. /\ Resting.pc = "idle"
      /\ [Resting EXCEPT !.pc = "cleanup", !.job = worker[w].job].pc = "cleanup"
      /\ [Resting EXCEPT !.pc = "cleanup", !.job = worker[w].job].job = worker[w].job
  BY DEF Resting
<1>2. QED
  BY <1>1, GotoValue DEF GotoCleanup

\* What a step of one invocation does to it.
Turn(w) ==
  /\ worker'[w].pc # "idle" /\ worker[w].pc # "idle" => worker'[w].job = worker[w].job
  /\ worker'[w].pc \notin {"idle", "locked"} => Busy(w) \/ GrantLease(w)
  /\ worker'[w].pc = "writeJob" /\ worker'[w].final = "DONE" => WriteRun(w)
  /\ worker'[w].pc \in {"clone", "analyze"}
       => BeginClone(w) \/ (worker[w].pc = "clone" /\ UNCHANGED checkouts)

\* Every step of an invocation is such a turn.
LEMMA WorkerTurn ==
  ASSUME IInv, NEW w \in Workers, Work(w)
  PROVE  Turn(w)
<1>1. worker[w] \in WorkerState
  BY DEF IInv, TypeOK, WorkerTypeOK
<1>2. CASE LockNextJob(w)
  <2>1. PICK j \in DOMAIN jobs :
          Goto(w, [Resting EXCEPT !.pc = "locked", !.job = j,
                                  !.attempts = jobs[j].attempts])
    BY <1>2 DEF LockNextJob
  <2>2. worker'[w].pc = "locked"
    BY <2>1, GotoValue DEF Resting
  <2>3. QED
    BY <1>2, <2>2 DEF Turn, LockNextJob
<1>3. CASE FindNoJob(w)
  BY <1>3 DEF Turn, FindNoJob, workerVars
<1>4. CASE GrantLease(w)
  BY <1>4, SteppedState DEF Turn, GrantLease
<1>5. CASE RefuseLease(w) \/ FailLease(w) \/ FailSetup(w)
  BY <1>5, RestingState DEF Turn, RefuseLease, FailLease, FailSetup
<1>6. CASE ReadLease(w)
  <2>1. worker'[w].pc = "start" /\ worker'[w].job = worker[w].job
    BY <1>1, <1>6, GotoValue DEF ReadLease, WorkerState
  <2>2. QED
    BY <1>6, <2>1 DEF Turn, ReadLease, Busy
<1>7. CASE RejectLowDisk(w) \/ RejectWorkdir(w) \/ RejectRepo(w) \/ Analyze(w)
  BY <1>7, SettledState DEF Turn, RejectLowDisk, RejectWorkdir, RejectRepo, Analyze,
     AnalyzerSucceeds, AnalyzerFails, Busy
<1>8. CASE CloneRefused(w) \/ CloneFails(w)
  BY <1>8, CaughtState DEF Turn, CloneRefused, CloneFails, Busy
<1>9. CASE BeginClone(w)
  BY <1>9, SteppedState DEF Turn, BeginClone, Busy
<1>10. CASE CloneDone(w)
  BY <1>10, SteppedState DEF Turn, CloneDone, Busy
<1>11. CASE WriteRun(w)
  BY <1>11, SteppedState DEF Turn, WriteRun, Busy
<1>12. CASE WriteJob(w)
  BY <1>12, RestingState DEF Turn, WriteJob, Busy
<1>13. CASE WriteFails(w)
  BY <1>13, RestingState, CaughtState DEF Turn, WriteFails, Busy
<1>14. CASE Cleanup(w)
  BY <1>14, RestingState DEF Turn, Cleanup
<1>15. QED
  BY <1>2, <1>3, <1>4, <1>5, <1>6, <1>7, <1>8, <1>9, <1>10, <1>11, <1>12, <1>13, <1>14
     DEF Work, Lease, Prepare, Clone, Finish

\* What a step can do to a row of ci_runs.
MoveRun(r, row) ==
  /\ runs' = [runs EXCEPT ![r] = row]
  /\ row.sha = runs[r].sha
  /\ row.recent => runs[r].recent
  /\ \/ row.status = runs[r].status
     \/ row.status \in {"SUCCEEDED", "FAILED"}
     \/ \E w \in Workers : GrantLease(w) /\ RunOf(w) = r

MoveRuns ==
  \/ UNCHANGED runs
  \/ \E h \in Handlers : InsertRun(h)
  \/ \E r \in DOMAIN runs : \E row \in Run : MoveRun(r, row)

\* An UPDATE of a run's status.
LEMMA StatusMovesRun ==
  ASSUME IInv, NEW r \in DOMAIN runs, NEW status \in RunStatus, SetRunStatus(r, status),
         \/ status \in {"SUCCEEDED", "FAILED"}
         \/ \E w \in Workers : GrantLease(w) /\ RunOf(w) = r
  PROVE  MoveRuns
<1>. DEFINE row == [runs[r] EXCEPT !.status = status]
<1>1. runs[r] \in Run
  BY ElementOfSeq, LenProperties DEF IInv, TypeOK, StoreTypeOK
<1>2. /\ row \in Run
      /\ row.sha = runs[r].sha
      /\ row.recent = runs[r].recent
      /\ row.status = status
  BY <1>1 DEF Run
<1>3. runs' = [runs EXCEPT ![r] = row]
  BY DEF SetRunStatus
<1>. HIDE DEF row
<1>4. QED
  BY <1>2, <1>3 DEF MoveRuns, MoveRun

\* Every step changes one row of ci_runs, inserts one, or none.
LEMMA NextMovesRuns ==
  ASSUME IInv, [Next]_vars
  PROVE  MoveRuns
<1>1. ASSUME NEW w \in Workers, GrantLease(w) \/ RefuseLease(w) \/ WriteRun(w)
      PROVE  MoveRuns
  <2>1. RunOf(w) \in DOMAIN runs
    BY <1>1 DEF IInv, WorkerKnows, OneJobPerRun, GrantLease, RefuseLease, WriteRun, RunOf
  <2>2. worker[w].verdict \in {"SUCCEEDED", "FAILED"}
    BY DEF IInv, TypeOK, WorkerTypeOK, WorkerState
  <2>3. CASE GrantLease(w)
    BY <2>1, <2>3, StatusMovesRun DEF GrantLease, LeaseJob, RunOf, RunStatus
  <2>4. CASE RefuseLease(w)
    BY <2>1, <2>4, StatusMovesRun DEF RefuseLease, ExhaustJob, RunOf, RunStatus
  <2>5. CASE WriteRun(w)
    BY <2>1, <2>2, <2>5, StatusMovesRun DEF WriteRun, UpdateCiRun, RunStatus
  <2>6. QED
    BY <1>1, <2>3, <2>4, <2>5
<1>2. ASSUME NEW w \in Workers, Work(w),
             ~(GrantLease(w) \/ RefuseLease(w) \/ WriteRun(w))
      PROVE  MoveRuns
  BY <1>2 DEF Work, Lease, LockNextJob, FindNoJob, FailLease, ReadLease, Prepare,
     FailSetup, RejectLowDisk, RejectWorkdir, BeginClone, CloneRefused, Clone,
     CloneFails, RejectRepo, CloneDone, Analyze, AnalyzerSucceeds, AnalyzerFails,
     Finish, WriteJob, WriteFails, Cleanup, storeVars, MoveRuns
<1>3. ASSUME NEW h \in Handlers, Arrive(h) \/ Handle(h)
      PROVE  MoveRuns
  BY <1>3 DEF Arrive, AcceptDelivery, IgnoreDelivery, ReplayDelivery, EnqueueRequest,
     Handle, DedupBySha, FindNone, InsertJob, RequestFails, storeVars, MoveRuns
<1>4. ASSUME NEW r \in DOMAIN runs, AgeRun(r)
      PROVE  MoveRuns
  <2>. DEFINE row == [runs[r] EXCEPT !.recent = FALSE]
  <2>1. runs[r] \in Run
    BY ElementOfSeq, LenProperties DEF IInv, TypeOK, StoreTypeOK
  <2>2. row \in Run /\ row.sha = runs[r].sha /\ ~row.recent /\ row.status = runs[r].status
    BY <2>1 DEF Run
  <2>3. runs' = [runs EXCEPT ![r] = row]
    BY <1>4 DEF AgeRun
  <2>. HIDE DEF row
  <2>4. QED
    BY <2>2, <2>3 DEF MoveRuns, MoveRun
<1>5. CASE Crash \/ UNCHANGED vars
  BY <1>5 DEF Crash, vars, storeVars, MoveRuns
<1>6. ASSUME NEW j \in DOMAIN jobs, ExpireLease(j)
      PROVE  MoveRuns
  BY <1>6 DEF ExpireLease, MoveRuns
<1>7. QED
  BY <1>1, <1>2, <1>3, <1>4, <1>5, <1>6 DEF Next

\* The rows of ci_runs keep their commit, and only a lease reopens a run that
\* has its verdict.
LEMMA RunsKept ==
  ASSUME IInv, [Next]_vars, NEW r \in DOMAIN runs
  PROVE  /\ r \in DOMAIN runs'
         /\ runs'[r].sha = runs[r].sha
         /\ runs'[r].recent => runs[r].recent
         /\ Finished(r) => \/ runs'[r].status \in {"SUCCEEDED", "FAILED"}
                           \/ \E w \in Workers : GrantLease(w) /\ RunOf(w) = r
<1>1. runs[r] \in Run /\ runs \in Seq(Run)
  BY ElementOfSeq, LenProperties DEF IInv, TypeOK, StoreTypeOK
<1>2. CASE UNCHANGED runs
  BY <1>2 DEF Finished
<1>3. ASSUME NEW h \in Handlers, InsertRun(h)
      PROVE  r \in DOMAIN runs' /\ runs'[r] = runs[r]
  <2>. DEFINE new == [sha |-> handler[h].sha, status |-> "QUEUED", recent |-> TRUE]
  <2>1. new \in Run
    BY <1>3 DEF Run, RunStatus, IInv, HandlerKnows, InsertRun
  <2>2. runs' = Append(runs, new)
    BY <1>3 DEF InsertRun, CreateCiRun
  <2>. HIDE DEF new
  <2>3. QED
    BY <1>1, <2>1, <2>2, AppendProperties
<1>4. ASSUME NEW q \in DOMAIN runs, NEW row \in Run, MoveRun(q, row)
      PROVE  /\ DOMAIN runs' = DOMAIN runs
             /\ runs'[q] = row
             /\ q # r => runs'[r] = runs[r]
  BY <1>1, <1>4, UpdateRow DEF MoveRun
<1>5. CASE \E q \in DOMAIN runs : \E row \in Run : MoveRun(q, row)
  BY <1>4, <1>5 DEF MoveRun, Finished
<1>6. QED
  BY <1>2, <1>3, <1>5, NextMovesRuns DEF MoveRuns, Finished

\* A granted lease is counted in the row that it was granted for.
LEMMA GrantCounts ==
  ASSUME IInv, NEW w \in Workers, GrantLease(w)
  PROVE  /\ worker[w].job \in DOMAIN jobs
         /\ Eligible(worker[w].job)
         /\ jobs'[worker[w].job].attempts = jobs[worker[w].job].attempts + 1
         /\ jobs'[worker[w].job].status = "LEASED"
<1>1. /\ worker[w].job \in DOMAIN jobs
      /\ Eligible(worker[w].job)
  BY DEF IInv, WorkerKnows, LockExclusive, GrantLease
<1>2. jobs[worker[w].job] \in Job
  BY <1>1, ElementOfSeq, LenProperties DEF IInv, TypeOK, StoreTypeOK
<1>3. jobs'[worker[w].job] = Leased(jobs[worker[w].job])
  BY <1>1 DEF GrantLease, LeaseJob
<1>4. QED
  BY <1>1, <1>2, <1>3, LeasedRow

\* A job that shows DONE did so before, or an invocation that had decided on it
\* writes it now.
LEMMA DoneWritten ==
  ASSUME IInv, [Next]_vars, NEW j \in DOMAIN jobs', jobs'[j].status = "DONE"
  PROVE  /\ j \in DOMAIN jobs
         /\ jobs'[j].attempts = jobs[j].attempts
         /\ \/ jobs[j].status = "DONE"
            \/ \E w \in Workers : WriteJob(w) /\ worker[w].job = j /\ worker[w].final = "DONE"
<1>. DEFINE Told == \/ jobs[j].status = "DONE"
                    \/ \E w \in Workers : /\ WriteJob(w)
                                          /\ worker[w].job = j
                                          /\ worker[w].final = "DONE"
<1>1. jobs \in Seq(Job)
  BY DEF IInv, TypeOK, StoreTypeOK
<1>2. ASSUME NEW r, CreateCiJob(r), r \in Nat
      PROVE  j \in DOMAIN jobs /\ jobs'[j] = jobs[j]
  <2>. DEFINE new == [run |-> r, status |-> "READY", attempts |-> 0, lease |-> "none"]
  <2>1. new \in Job /\ new.status = "READY"
    BY <1>2 DEF Job, JobStatus, LeaseState
  <2>2. jobs' = Append(jobs, new)
    BY <1>2 DEF CreateCiJob
  <2>. HIDE DEF new
  <2>3. /\ DOMAIN jobs = 1..Len(jobs)
        /\ DOMAIN jobs' = 1..(Len(jobs) + 1)
        /\ jobs'[Len(jobs) + 1] = new
        /\ \A k \in DOMAIN jobs : jobs'[k] = jobs[k]
    BY <1>1, <2>1, <2>2, AppendRow
  <2>4. Len(jobs) \in Nat
    BY <1>1, LenProperties
  <2>5. QED
    BY <2>1, <2>3, <2>4
<1>3. ASSUME NEW k \in DOMAIN jobs, NEW row \in Job, jobs' = [jobs EXCEPT ![k] = row]
      PROVE  /\ j \in DOMAIN jobs
             /\ j = k => jobs'[j] = row
             /\ j # k => jobs'[j] = jobs[j]
  BY <1>1, <1>3, UpdateRow
<1>4. ASSUME NEW w \in Workers, GrantLease(w)
      PROVE  j \in DOMAIN jobs /\ jobs'[j] = jobs[j]
  <2>1. /\ worker[w].job \in DOMAIN jobs
        /\ jobs'[worker[w].job].status = "LEASED"
    BY <1>4, GrantCounts
  <2>2. QED
    BY <1>1, <1>4, <2>1 DEF GrantLease, LeaseJob
<1>5. ASSUME NEW w \in Workers, RefuseLease(w)
      PROVE  j \in DOMAIN jobs /\ jobs'[j] = jobs[j]
  <2>1. worker[w].job \in DOMAIN jobs
    BY <1>5 DEF IInv, WorkerKnows, RefuseLease
  <2>2. /\ DOMAIN jobs' = DOMAIN jobs
        /\ jobs'[worker[w].job] = [jobs[worker[w].job] EXCEPT !.status = "DEAD"]
        /\ \A k \in DOMAIN jobs : k # worker[w].job => jobs'[k] = jobs[k]
    BY <1>1, <1>5, <2>1, JobStatusWrite DEF RefuseLease, ExhaustJob, JobStatus
  <2>3. jobs[worker[w].job] \in Job
    BY <1>1, <2>1, ElementOfSeq, LenProperties
  <2>4. QED
    BY <2>2, <2>3 DEF Job
<1>6. ASSUME NEW w \in Workers, WriteJob(w)
      PROVE  j \in DOMAIN jobs /\ jobs'[j].attempts = jobs[j].attempts /\ Told
  <2>1. worker[w].job \in DOMAIN jobs /\ worker[w].final \in JobStatus
    BY <1>6 DEF IInv, WorkerKnows, WriteJob, TypeOK, WorkerTypeOK, WorkerState, JobStatus
  <2>2. /\ DOMAIN jobs' = DOMAIN jobs
        /\ jobs'[worker[w].job] = [jobs[worker[w].job] EXCEPT !.status = worker[w].final]
        /\ \A k \in DOMAIN jobs : k # worker[w].job => jobs'[k] = jobs[k]
    BY <1>1, <1>6, <2>1, JobStatusWrite DEF WriteJob, CompleteJob
  <2>3. jobs[worker[w].job] \in Job
    BY <1>1, <2>1, ElementOfSeq, LenProperties
  <2>4. QED
    BY <1>6, <2>2, <2>3 DEF Job
<1>7. ASSUME NEW w \in Workers, Work(w), ~(GrantLease(w) \/ RefuseLease(w) \/ WriteJob(w))
      PROVE  jobs' = jobs
  BY <1>7 DEF Work, Lease, LockNextJob, FindNoJob, FailLease, ReadLease, Prepare,
     FailSetup, RejectLowDisk, RejectWorkdir, BeginClone, CloneRefused, Clone,
     CloneFails, RejectRepo, CloneDone, Analyze, AnalyzerSucceeds, AnalyzerFails,
     Finish, WriteRun, WriteFails, Cleanup, storeVars
<1>8. ASSUME NEW h \in Handlers, Arrive(h) \/ Handle(h)
      PROVE  j \in DOMAIN jobs /\ jobs'[j] = jobs[j]
  <2>1. handler[h].run \in Nat
    BY DEF IInv, TypeOK, HandlerTypeOK, HandlerState
  <2>2. CASE InsertJob(h)
    BY <1>2, <2>1, <2>2 DEF InsertJob
  <2>3. CASE ~InsertJob(h)
    BY <1>8, <2>3 DEF Arrive, AcceptDelivery, IgnoreDelivery, ReplayDelivery,
       EnqueueRequest, Handle, DedupBySha, FindNone, InsertRun, RequestFails, storeVars
  <2>4. QED
    BY <2>2, <2>3
<1>9. ASSUME NEW k \in DOMAIN jobs, ExpireLease(k)
      PROVE  j \in DOMAIN jobs /\ jobs'[j] = jobs[j]
  <2>1. jobs[k] \in Job
    BY <1>1, ElementOfSeq, LenProperties
  <2>2. jobs' = [jobs EXCEPT ![k] = [jobs[k] EXCEPT !.lease = "expired"]]
    BY <1>9 DEF ExpireLease
  <2>3. [jobs[k] EXCEPT !.lease = "expired"].status = "LEASED"
    BY <1>9, <2>1 DEF ExpireLease, Job
  <2>4. QED
    BY <1>1, <2>2, <2>3
<1>10. ASSUME jobs' = jobs
       PROVE  j \in DOMAIN jobs /\ jobs'[j] = jobs[j]
  BY <1>10
<1>11. QED
  BY <1>4, <1>5, <1>6, <1>7, <1>8, <1>9, <1>10
     DEF Next, AgeRun, Crash, vars, storeVars

\* Only a granted lease makes an invocation busy, and it is counted on the row.
LEMMA CountedStep ==
  ASSUME IInv, Leases, [Next]_vars
  PROVE  LeasesCounted'
<1>1. IInv'
  BY NextIInv
<1>2. CASE UNCHANGED worker
  BY <1>2, JobsKept DEF LeasesCounted, Leases, Busy, IInv, WorkerKnows
<1>3. CASE Crash
  BY <1>3 DEF Crash, LeasesCounted, Busy, Resting
<1>4. ASSUME NEW w \in Workers, Work(w)
      PROVE  LeasesCounted'
  <2>1. \A v \in Workers : v # w => worker'[v] = worker[v]
    BY <1>4, OneTurn
  <2>2. worker'[w].pc \notin {"idle", "locked"} =>
          /\ worker'[w].job = worker[w].job
          /\ worker[w].pc # "idle"
          /\ Busy(w) \/ GrantLease(w)
    BY <1>4, WorkerTurn DEF Turn, Busy, GrantLease
  <2>3. \A v \in Workers : worker[v].pc # "idle" =>
          /\ worker[v].job \in DOMAIN jobs
          /\ jobs[worker[v].job].attempts \in Nat
          /\ jobs'[worker[v].job].attempts \in Nat
          /\ jobs'[worker[v].job].attempts >= jobs[worker[v].job].attempts
    BY JobsKept DEF IInv, WorkerKnows
  <2>4. GrantLease(w) =>
          jobs'[worker[w].job].attempts = jobs[worker[w].job].attempts + 1
    BY GrantCounts
  <2>5. \A v \in Workers : Busy(v)' =>
          /\ worker'[v].job = worker[v].job
          /\ worker[v].pc # "idle"
          /\ v # w => Busy(v)
          /\ v = w => Busy(v) \/ GrantLease(w)
    BY <2>1, <2>2 DEF Busy
  <2>6. \A v \in Workers : Busy(v)' => jobs'[worker'[v].job].attempts >= 1
    BY <2>3, <2>4, <2>5 DEF Leases, LeasesCounted
  <2>7. \A u, v \in Workers :
          Busy(u)' /\ Busy(v)' /\ worker'[u].job = worker'[v].job /\ u # v
          => jobs'[worker'[v].job].attempts >= 2
    BY <2>3, <2>4, <2>5 DEF Leases, LeasesCounted
  <2>8. QED
    BY <2>6, <2>7 DEF LeasesCounted
<1>5. QED
  BY <1>2, <1>3, <1>4 DEF Next, vars, workerVars

\* A run that has its verdict keeps it unless a lease of its own job reopens it.
LEMMA VerdictKept ==
  ASSUME IInv, [Next]_vars, NEW j \in DOMAIN jobs, Finished(jobs[j].run)
  PROVE  \/ runs'[jobs[j].run].status \in {"SUCCEEDED", "FAILED"}
         \/ \E w \in Workers : GrantLease(w) /\ worker[w].job = j
<1>1. jobs[j].run \in DOMAIN runs
  BY DEF IInv, OneJobPerRun
<1>2. ASSUME NEW w \in Workers, GrantLease(w), RunOf(w) = jobs[j].run
      PROVE  worker[w].job = j
  <2>1. worker[w].job \in DOMAIN jobs
    BY <1>2, GrantCounts
  <2>2. QED
    BY <1>2, <2>1 DEF RunOf, IInv, OneJobPerRun
<1>3. QED
  BY <1>1, <1>2, RunsKept

\* DONE is decided by the analyzer's end and written after the run's verdict.
LEMMA VerdictFirstStep ==
  ASSUME IInv, Leases, [Next]_vars
  PROVE  VerdictFirst'
<1>. SUFFICES ASSUME NEW w \in Workers,
                     worker'[w].pc = "writeJob",
                     worker'[w].final = "DONE",
                     jobs'[worker'[w].job].attempts = 1
              PROVE  runs'[jobs'[worker'[w].job].run].status \in {"SUCCEEDED", "FAILED"}
  BY DEF VerdictFirst, Finished, RunOf
<1>1. ASSUME worker'[w] = worker[w]
      PROVE  runs'[jobs'[worker'[w].job].run].status \in {"SUCCEEDED", "FAILED"}
  <2>. DEFINE j == worker[w].job
  <2>1. Busy(w) /\ j \in DOMAIN jobs
    BY <1>1 DEF Busy, IInv, WorkerKnows
  <2>2. /\ jobs[j].attempts \in Nat
        /\ jobs'[j].run = jobs[j].run
        /\ jobs'[j].attempts >= jobs[j].attempts
    BY <2>1, JobsKept
  <2>3. jobs[j].attempts = 1
    BY <1>1, <2>1, <2>2 DEF Leases, LeasesCounted
  <2>4. Finished(jobs[j].run)
    BY <1>1, <2>3 DEF Leases, VerdictFirst, RunOf
  <2>5. ~\E v \in Workers : GrantLease(v) /\ worker[v].job = j
    BY <1>1, <2>3, GrantCounts
  <2>6. QED
    BY <1>1, <2>1, <2>2, <2>4, <2>5, VerdictKept
<1>2. ASSUME Work(w)
      PROVE  runs'[jobs'[worker'[w].job].run].status \in {"SUCCEEDED", "FAILED"}
  <2>1. WriteRun(w)
    BY <1>2, WorkerTurn DEF Turn
  <2>2. worker'[w].job = worker[w].job
    BY <2>1, SteppedState DEF WriteRun
  <2>3. /\ worker[w].job \in DOMAIN jobs
        /\ RunOf(w) \in DOMAIN runs
        /\ worker[w].verdict \in {"SUCCEEDED", "FAILED"}
    BY <2>1 DEF WriteRun, IInv, WorkerKnows, OneJobPerRun, RunOf, TypeOK, WorkerTypeOK,
       WorkerState
  <2>4. runs'[RunOf(w)] = [runs[RunOf(w)] EXCEPT !.status = worker[w].verdict]
    BY <2>1, <2>3 DEF WriteRun, UpdateCiRun, SetRunStatus
  <2>5. runs[RunOf(w)] \in Run
    BY <2>3, ElementOfSeq, LenProperties DEF IInv, TypeOK, StoreTypeOK
  <2>6. jobs' = jobs
    BY <2>1 DEF WriteRun
  <2>7. QED
    BY <2>2, <2>3, <2>4, <2>5, <2>6 DEF RunOf, Run
<1>3. ASSUME NEW v \in Workers, v # w, Work(v)
      PROVE  worker'[w] = worker[w]
  BY <1>3, OneTurn
<1>4. ASSUME Crash
      PROVE  FALSE
  BY <1>4 DEF Crash, Resting
<1>5. QED
  BY <1>1, <1>2, <1>3, <1>4 DEF Next, vars, workerVars

\* A job becomes DONE by an invocation that has written the verdict.
LEMMA DoneOnceStep ==
  ASSUME IInv, Leases, [Next]_vars
  PROVE  DoneOnceMeansSettled'
<1>. SUFFICES ASSUME NEW j \in DOMAIN jobs',
                     jobs'[j].status = "DONE",
                     jobs'[j].attempts = 1
              PROVE  runs'[jobs'[j].run].status \in {"SUCCEEDED", "FAILED"}
  BY DEF DoneOnceMeansSettled, Finished
<1>1. /\ j \in DOMAIN jobs
      /\ jobs'[j].attempts = jobs[j].attempts
      /\ \/ jobs[j].status = "DONE"
         \/ \E w \in Workers : WriteJob(w) /\ worker[w].job = j /\ worker[w].final = "DONE"
  BY DoneWritten
<1>2. Finished(jobs[j].run)
  BY <1>1 DEF Leases, DoneOnceMeansSettled, VerdictFirst, WriteJob, RunOf
<1>3. ~\E v \in Workers : GrantLease(v) /\ worker[v].job = j
  BY <1>1, GrantCounts, JobsKept
<1>4. jobs'[j].run = jobs[j].run
  BY <1>1, JobsKept
<1>5. QED
  BY <1>1, <1>2, <1>3, <1>4, VerdictKept

\* A workspace is emptied by an invocation that holds a lease of its run, or it
\* goes with the process.
LEMMA TreeEmptied ==
  ASSUME [Next]_vars, NEW r \in checkouts, r \notin checkouts'
  PROVE  \/ Crash
         \/ \E v \in Workers : (CloneFails(v) \/ Cleanup(v)) /\ RunOf(v) = r
<1>1. ASSUME NEW v \in Workers, Work(v)
      PROVE  (CloneFails(v) \/ Cleanup(v)) /\ RunOf(v) = r
  <2>1. CASE CloneFails(v)
    BY <2>1 DEF CloneFails
  <2>2. CASE Cleanup(v)
    BY <2>2 DEF Cleanup
  <2>3. CASE ~CloneFails(v) /\ ~Cleanup(v)
    BY <1>1, <2>3 DEF Work, Lease, LockNextJob, FindNoJob, GrantLease, RefuseLease,
       FailLease, ReadLease, Prepare, FailSetup, RejectLowDisk, RejectWorkdir,
       BeginClone, CloneRefused, Clone, RejectRepo, CloneDone, Analyze,
       AnalyzerSucceeds, AnalyzerFails, Finish, WriteRun, WriteJob, WriteFails, workerVars
  <2>4. QED
    BY <2>1, <2>2, <2>3
<1>2. QED
  BY <1>1 DEF Next, vars, workerVars

\* Who empties a workspace holds a lease of its job.
LEMMA TreeStep ==
  ASSUME IInv, Leases, [Next]_vars
  PROVE  TreeLostOnlyToRelease'
<1>. SUFFICES ASSUME NEW w \in Workers,
                     worker'[w].pc \in {"clone", "analyze"},
                     jobs'[worker'[w].job].run \notin checkouts'
              PROVE  jobs'[worker'[w].job].attempts >= 2
  BY DEF TreeLostOnlyToRelease, RunOf
<1>. DEFINE j == worker[w].job
<1>1. ASSUME worker'[w].job = j,
             worker[w].pc \in {"clone", "analyze"},
             \/ worker'[w] = worker[w]
             \/ UNCHANGED checkouts
      PROVE  jobs'[worker'[w].job].attempts >= 2
  <2>1. Busy(w) /\ j \in DOMAIN jobs
    BY <1>1 DEF Busy, IInv, WorkerKnows
  <2>2. /\ jobs[j].attempts \in Nat
        /\ jobs'[j].attempts \in Nat
        /\ jobs'[j].run = jobs[j].run
        /\ jobs'[j].attempts >= jobs[j].attempts
    BY <2>1, JobsKept
  <2>3. CASE RunOf(w) \notin checkouts
    BY <1>1, <2>2, <2>3 DEF Leases, TreeLostOnlyToRelease
  <2>4. ASSUME RunOf(w) \in checkouts
        PROVE  jobs[j].attempts >= 2
    <3>1. RunOf(w) \notin checkouts'
      BY <1>1, <2>2 DEF RunOf
    <3>2. ~Crash
      BY DEF Crash, Resting
    <3>3. PICK v \in Workers : (CloneFails(v) \/ Cleanup(v)) /\ RunOf(v) = RunOf(w)
      BY <2>4, <3>1, <3>2, TreeEmptied
    <3>4. worker'[w] = worker[w]
      BY <1>1, <2>4, <3>1
    <3>5. v # w
      <4>1. CASE CloneFails(v)
        BY <4>1, <3>4, CaughtState DEF CloneFails
      <4>2. CASE Cleanup(v)
        BY <1>1, <4>2 DEF Cleanup
      <4>3. QED
        BY <3>3, <4>1, <4>2
    <3>6. Busy(v) /\ worker[v].job \in DOMAIN jobs
      BY <3>3 DEF CloneFails, Cleanup, Busy, IInv, WorkerKnows
    <3>7. worker[v].job = j
      BY <2>1, <3>3, <3>6 DEF RunOf, IInv, OneJobPerRun
    <3>8. QED
      BY <2>1, <3>5, <3>6, <3>7 DEF Leases, LeasesCounted
  <2>5. QED
    BY <1>1, <2>2, <2>3, <2>4
<1>2. ASSUME Work(w)
      PROVE  jobs'[worker'[w].job].attempts >= 2
  <2>1. ~BeginClone(w)
    <3>1. ASSUME BeginClone(w)
          PROVE  worker'[w].job = j /\ jobs' = jobs /\ RunOf(w) \in checkouts'
      BY <3>1, SteppedState DEF BeginClone, storeVars
    <3>2. QED
      BY <3>1 DEF RunOf
  <2>2. worker[w].pc = "clone" /\ UNCHANGED checkouts
    BY <1>2, <2>1, WorkerTurn DEF Turn
  <2>3. worker'[w].job = j
    BY <1>2, <2>2, WorkerTurn DEF Turn
  <2>4. QED
    BY <1>1, <2>2, <2>3
<1>3. ASSUME NEW v \in Workers, v # w, Work(v)
      PROVE  worker'[w] = worker[w]
  BY <1>3, OneTurn
<1>4. ASSUME Crash
      PROVE  FALSE
  BY <1>4 DEF Crash, Resting
<1>5. QED
  BY <1>1, <1>2, <1>3, <1>4 DEF Next, vars, workerVars

\* What the invocations know of attempts, verdicts and workspaces always holds.
LEMMA LeasesHold == Spec => []Leases
<1>1. Init => Leases
  <2>. SUFFICES ASSUME Init
                PROVE  Leases
    OBVIOUS
  <2>1. DOMAIN jobs = {}
    BY DEF Init, StoreInit
  <2>2. \A w \in Workers : worker[w].pc = "idle"
    BY DEF Init, WorkerInit, Resting
  <2>3. QED
    BY <2>1, <2>2 DEF Leases, LeasesCounted, VerdictFirst, DoneOnceMeansSettled,
       TreeLostOnlyToRelease, Busy
<1>2. IInv /\ Leases /\ [Next]_vars => Leases'
  BY CountedStep, VerdictFirstStep, DoneOnceStep, TreeStep DEF Leases
<1>3. QED
  BY <1>1, <1>2, Inductive, PTL DEF Spec

\* A job that is DONE after one lease has its run's verdict on record, whatever
\* the other invocations do and wherever the process dies: processOneJob writes
\* the run first, and only a second lease could reopen it.
THEOREM DoneOnceMeansSettledHolds == Spec => []DoneOnceMeansSettled
<1>1. Leases => DoneOnceMeansSettled
  BY DEF Leases
<1>2. QED
  BY <1>1, LeasesHold, PTL

\* The directory ${CI_TMP_DIR}/run-<run id> that invocations share is deleted
\* under a clone or an analyzer only by a holder of another lease of its job.
THEOREM TreeLostOnlyToReleaseHolds == Spec => []TreeLostOnlyToRelease
<1>1. Leases => TreeLostOnlyToRelease
  BY DEF Leases
<1>2. QED
  BY <1>1, LeasesHold, PTL

-----------------------------------------------------------------------------
(***************************************************************************)
(* Requests in flight: what the intake owes a commit                       *)
(***************************************************************************)
Recent(sha) == {r \in DOMAIN runs : runs[r].sha = sha /\ runs[r].recent}
Inserting(sha) == {h \in Handlers : handler[h].pc = "createRun" /\ handler[h].sha = sha}

\* The recent runs of a commit and the requests about to insert one more.
RaceBounded ==
  \A sha \in Shas :
    Cardinality(Recent(sha)) + Cardinality(Inserting(sha)) <= Cardinality(Handlers)

\* A request between its two inserts points to a run of its own commit.
OwnCommit ==
  \A h \in Handlers : handler[h].pc = "createJob" => runs[handler[h].run].sha = handler[h].sha

\* What a step of one request does to it and to no other.
LEMMA HandlerTurn ==
  ASSUME IInv, NEW h \in Handlers, Arrive(h) \/ Handle(h)
  PROVE  /\ \A g \in Handlers : g # h => handler'[g] = handler[g]
         /\ handler'[h].pc = "createRun" => FindNone(h) /\ handler'[h].sha = handler[h].sha
         /\ handler'[h].pc = "createJob" =>
              /\ InsertRun(h)
              /\ handler'[h].sha = handler[h].sha
              /\ handler'[h].run = Len(runs) + 1
         /\ handler[h].pc # "free" =>
              handler'[h] = Free \/ handler'[h].sha = handler[h].sha
<1>1. handler \in [Handlers -> HandlerState] /\ handler[h] \in HandlerState
  BY DEF IInv, TypeOK, HandlerTypeOK
<1>2. CASE Arrive(h)
  BY <1>1, <1>2 DEF Arrive, AcceptDelivery, IgnoreDelivery, ReplayDelivery,
     EnqueueRequest, Advance, HandlerState
<1>3. CASE DedupBySha(h) \/ InsertJob(h) \/ RequestFails(h)
  BY <1>1, <1>3 DEF DedupBySha, InsertJob, RequestFails, Advance, Free
<1>4. CASE FindNone(h)
  BY <1>1, <1>4 DEF FindNone, Advance, HandlerState
<1>5. CASE InsertRun(h)
  BY <1>1, <1>5 DEF InsertRun, Advance, HandlerState
<1>6. QED
  BY <1>2, <1>3, <1>4, <1>5 DEF Handle

\* What an INSERT into ci_runs does to the table.
LEMMA InsertedRun ==
  ASSUME IInv, NEW h \in Handlers, InsertRun(h)
  PROVE  /\ DOMAIN runs = 1..Len(runs)
         /\ DOMAIN runs' = 1..(Len(runs) + 1)
         /\ runs'[Len(runs) + 1].sha = handler[h].sha
         /\ \A r \in DOMAIN runs : runs'[r] = runs[r]
<1>. DEFINE new == [sha |-> handler[h].sha, status |-> "QUEUED", recent |-> TRUE]
<1>1. new \in Run /\ new.sha = handler[h].sha
  BY DEF Run, RunStatus, IInv, HandlerKnows, InsertRun
<1>2. runs' = Append(runs, new) /\ runs \in Seq(Run)
  BY DEF InsertRun, CreateCiRun, IInv, TypeOK, StoreTypeOK
<1>. HIDE DEF new
<1>3. QED
  BY <1>1, <1>2, AppendRow

\* A row of ci_runs was there before, or a request inserts it now.
LEMMA RunInserted ==
  ASSUME IInv, [Next]_vars, NEW r \in DOMAIN runs', r \notin DOMAIN runs
  PROVE  \E h \in Handlers : InsertRun(h) /\ r = Len(runs) + 1
<1>1. runs \in Seq(Run)
  BY DEF IInv, TypeOK, StoreTypeOK
<1>2. CASE UNCHANGED runs
  BY <1>2
<1>3. ASSUME NEW q \in DOMAIN runs, NEW row \in Run, MoveRun(q, row)
      PROVE  FALSE
  BY <1>1, <1>3, UpdateRow DEF MoveRun
<1>4. ASSUME NEW h \in Handlers, InsertRun(h)
      PROVE  r = Len(runs) + 1
  <2>1. DOMAIN runs = 1..Len(runs) /\ DOMAIN runs' = 1..(Len(runs) + 1) /\ Len(runs) \in Nat
    BY <1>1, <1>4, InsertedRun, LenProperties
  <2>2. QED
    BY <2>1
<1>5. QED
  BY <1>2, <1>3, <1>4, NextMovesRuns DEF MoveRuns

\* The recent runs and the inserting requests of a commit are finitely many,
\* the requests no more than there are.
LEMMA RaceFinite ==
  ASSUME IInv, NEW sha
  PROVE  /\ IsFiniteSet(Recent(sha))
         /\ IsFiniteSet(Inserting(sha))
         /\ IsFiniteSet(Handlers)
         /\ Cardinality(Recent(sha)) \in Nat
         /\ Cardinality(Inserting(sha)) \in Nat
         /\ Cardinality(Handlers) \in Nat
         /\ Cardinality(Inserting(sha)) <= Cardinality(Handlers)
<1>1. Len(runs) \in Nat /\ DOMAIN runs = 1..Len(runs)
  BY LenProperties DEF IInv, TypeOK, StoreTypeOK
<1>2. IsFiniteSet(1..Len(runs))
  BY <1>1, FS_Interval
<1>3. IsFiniteSet(Recent(sha))
  BY <1>1, <1>2, FS_Subset DEF Recent
<1>4. IsFiniteSet(Inserting(sha)) /\ Cardinality(Inserting(sha)) <= Cardinality(Handlers)
  BY HandlersAssumption, FS_Subset DEF Inserting
<1>5. QED
  BY <1>3, <1>4, HandlersAssumption, FS_CardinalityType

\* A step that gives a commit no new recent run and no new request about to
\* insert one.
LEMMA RaceShrinks ==
  ASSUME IInv, IInv', RaceBounded, NEW sha \in Shas,
         Recent(sha)' \subseteq Recent(sha),
         Inserting(sha)' \subseteq Inserting(sha)
  PROVE  Cardinality(Recent(sha)') + Cardinality(Inserting(sha)') <= Cardinality(Handlers)
<1>1. /\ Cardinality(Recent(sha)') <= Cardinality(Recent(sha))
      /\ Cardinality(Recent(sha)') \in Nat
  BY RaceFinite, FS_Subset, FS_CardinalityType
<1>2. /\ Cardinality(Inserting(sha)') <= Cardinality(Inserting(sha))
      /\ Cardinality(Inserting(sha)') \in Nat
  BY RaceFinite, FS_Subset, FS_CardinalityType
<1>3. QED
  BY <1>1, <1>2, RaceFinite DEF RaceBounded

\* An INSERT moves its request on.
LEMMA OtherRequest ==
  ASSUME IInv, NEW g \in Handlers, InsertRun(g)
  PROVE  handler'[g].pc # handler[g].pc
<1>1. handler[g] \in HandlerState /\ handler \in [Handlers -> HandlerState]
  BY DEF IInv, TypeOK, HandlerTypeOK
<1>2. QED
  BY <1>1 DEF InsertRun, Advance, HandlerState

\* A crash inserts nothing, nor does a step that leaves the requests alone.
LEMMA NoRequest ==
  ASSUME IInv, UNCHANGED handler \/ Crash, NEW g \in Handlers, InsertRun(g)
  PROVE  FALSE
<1>1. handler'[g].pc = "createJob"
  BY OtherRequest, HandlerTurn
     DEF InsertRun, Advance, IInv, TypeOK, HandlerTypeOK, HandlerState
<1>2. QED
  BY <1>1, OtherRequest DEF Crash, Free

\* Searching moves a request to the inserting ones when there is no recent run,
\* and inserting moves it from them to the recent runs.
LEMMA RaceStep ==
  ASSUME IInv, RaceBounded, [Next]_vars
  PROVE  RaceBounded'
<1>. SUFFICES ASSUME NEW sha \in Shas
              PROVE  Cardinality(Recent(sha)') + Cardinality(Inserting(sha)')
                       <= Cardinality(Handlers)
  BY DEF RaceBounded
<1>1. IInv'
  BY NextIInv
<1>2. ASSUME ~\E h \in Handlers : InsertRun(h) /\ handler[h].sha = sha
      PROVE  Recent(sha)' \subseteq Recent(sha)
  BY <1>2, RunsKept, RunInserted, InsertedRun DEF Recent
<1>3. ASSUME NEW h \in Handlers, Arrive(h) \/ Handle(h),
             ~(InsertRun(h) /\ handler[h].sha = sha),
             ~(FindNone(h) /\ handler[h].sha = sha)
      PROVE  Cardinality(Recent(sha)') + Cardinality(Inserting(sha)') <= Cardinality(Handlers)
  <2>1. Inserting(sha)' \subseteq Inserting(sha)
    BY <1>3, HandlerTurn DEF Inserting
  <2>2. \A g \in Handlers : InsertRun(g) => g = h
    BY <1>3, HandlerTurn, OtherRequest
  <2>3. QED
    BY <1>1, <1>2, <1>3, <2>1, <2>2, RaceShrinks
<1>4. ASSUME NEW h \in Handlers, FindNone(h), handler[h].sha = sha
      PROVE  Cardinality(Recent(sha)') + Cardinality(Inserting(sha)') <= Cardinality(Handlers)
  <2>1. Recent(sha)' = {}
    BY <1>4 DEF FindNone, ExistingCiRun, Recent, storeVars
  <2>2. Cardinality(Recent(sha)') = 0
    BY <2>1, FS_EmptySet
  <2>3. IsFiniteSet(Handlers) /\ Inserting(sha)' \subseteq Handlers
    BY HandlersAssumption DEF Inserting
  <2>4. /\ Cardinality(Inserting(sha)') \in Nat
        /\ Cardinality(Handlers) \in Nat
        /\ Cardinality(Inserting(sha)') <= Cardinality(Handlers)
    BY <2>3, FS_Subset, FS_CardinalityType
  <2>5. QED
    BY <2>2, <2>4
<1>5. ASSUME NEW h \in Handlers, InsertRun(h), handler[h].sha = sha
      PROVE  Cardinality(Recent(sha)') + Cardinality(Inserting(sha)') <= Cardinality(Handlers)
  <2>1. Recent(sha)' \subseteq Recent(sha) \cup {Len(runs) + 1}
    BY <1>5, RunsKept, RunInserted DEF Recent
  <2>2. h \in Inserting(sha)
    BY <1>5 DEF Inserting, InsertRun
  <2>3. Inserting(sha)' \subseteq Inserting(sha) \ {h}
    <3>1. handler'[h].pc # "createRun"
      BY <1>5, HandlerTurn DEF Handle, InsertRun, FindNone
    <3>2. \A g \in Handlers : g # h => handler'[g] = handler[g]
      BY <1>5, HandlerTurn DEF Handle
    <3>3. QED
      BY <3>1, <3>2 DEF Inserting
  <2>4. /\ IsFiniteSet(Recent(sha) \cup {Len(runs) + 1})
        /\ Cardinality(Recent(sha) \cup {Len(runs) + 1}) \in
             {Cardinality(Recent(sha)), Cardinality(Recent(sha)) + 1}
    BY RaceFinite, FS_AddElement
  <2>5. /\ Cardinality(Recent(sha)') \in Nat
        /\ Cardinality(Recent(sha)') <= Cardinality(Recent(sha)) + 1
    BY <2>1, <2>4, RaceFinite, FS_Subset, FS_CardinalityType
  <2>6. /\ IsFiniteSet(Inserting(sha) \ {h})
        /\ Cardinality(Inserting(sha) \ {h}) = Cardinality(Inserting(sha)) - 1
    BY <2>2, RaceFinite, FS_RemoveElement
  <2>7. /\ Cardinality(Inserting(sha)') \in Nat
        /\ Cardinality(Inserting(sha)') <= Cardinality(Inserting(sha)) - 1
    BY <2>3, <2>6, FS_Subset, FS_CardinalityType
  <2>8. QED
    BY <2>5, <2>7, RaceFinite DEF RaceBounded
<1>6. ASSUME UNCHANGED handler \/ Crash, ~\E h \in Handlers : InsertRun(h)
      PROVE  Cardinality(Recent(sha)') + Cardinality(Inserting(sha)') <= Cardinality(Handlers)
  <2>1. Inserting(sha)' \subseteq Inserting(sha)
    BY <1>6 DEF Inserting, Crash, Free
  <2>2. QED
    BY <1>1, <1>2, <1>6, <2>1, RaceShrinks
<1>7. QED
  BY <1>3, <1>4, <1>5, <1>6, NoRequest DEF Next, vars

\* The row that a request points to keeps its commit.
LEMMA OwnCommitStep ==
  ASSUME IInv, OwnCommit, [Next]_vars
  PROVE  OwnCommit'
<1>. SUFFICES ASSUME NEW g \in Handlers, handler'[g].pc = "createJob"
              PROVE  runs'[handler'[g].run].sha = handler'[g].sha
  BY DEF OwnCommit
<1>1. ASSUME handler'[g] = handler[g]
      PROVE  runs'[handler'[g].run].sha = handler'[g].sha
  BY <1>1, RunsKept DEF OwnCommit, IInv, HandlerKnows
<1>2. ASSUME Arrive(g) \/ Handle(g)
      PROVE  runs'[handler'[g].run].sha = handler'[g].sha
  BY <1>2, HandlerTurn, InsertedRun
<1>3. ASSUME NEW h \in Handlers, h # g, Arrive(h) \/ Handle(h)
      PROVE  handler'[g] = handler[g]
  BY <1>3, HandlerTurn
<1>4. ~Crash
  BY DEF Crash, Free
<1>5. QED
  BY <1>1, <1>2, <1>3, <1>4 DEF Next, vars

Requests == RaceBounded /\ OwnCommit

\* What the intake owes a commit always holds.
LEMMA RequestsHold == Spec => []Requests
<1>1. Init => Requests
  <2>. SUFFICES ASSUME Init
                PROVE  Requests
    OBVIOUS
  <2>1. DOMAIN runs = {}
    BY DEF Init, StoreInit
  <2>2. \A h \in Handlers : handler[h].pc = "free"
    BY DEF Init, IntakeInit, Free
  <2>3. Cardinality(Handlers) \in Nat
    BY FS_CardinalityType, HandlersAssumption
  <2>4. ASSUME NEW sha \in Shas
        PROVE  Cardinality(Recent(sha)) + Cardinality(Inserting(sha)) <= Cardinality(Handlers)
    <3>1. Recent(sha) = {} /\ Inserting(sha) = {}
      BY <2>1, <2>2 DEF Recent, Inserting
    <3>2. Cardinality(Recent(sha)) = 0 /\ Cardinality(Inserting(sha)) = 0
      BY <3>1, FS_EmptySet
    <3>3. QED
      BY <2>3, <3>2
  <2>5. RaceBounded
    BY <2>4 DEF RaceBounded
  <2>6. OwnCommit
    BY <2>2 DEF OwnCommit
  <2>7. QED
    BY <2>5, <2>6 DEF Requests
<1>2. IInv /\ Requests /\ [Next]_vars => Requests'
  BY RaceStep, OwnCommitStep DEF Requests
<1>3. QED
  BY <1>1, <1>2, Inductive, PTL DEF Spec

\* findExistingCiRun and createCiRun race, but never to more runs of a commit
\* within the six hours than there are requests in flight: each of these runs
\* was inserted by a request that had searched before any of them was there.
THEOREM DuplicatesBoundedHolds == Spec => []DuplicatesBounded
<1>1. IInv /\ Requests => DuplicatesBounded
  <2>. SUFFICES ASSUME IInv, Requests, NEW sha \in Shas
                PROVE  Cardinality(Recent(sha)) <= Cardinality(Handlers)
    BY DEF DuplicatesBounded, Recent
  <2>1. QED
    BY RaceFinite DEF Requests, RaceBounded
<1>2. QED
  BY <1>1, Inductive, RequestsHold, PTL

-----------------------------------------------------------------------------
(***************************************************************************)
(* Work is lost only in a failure                                          *)
(***************************************************************************)
\* A row of ci_jobs was there before, or a request inserts it for its run now.
LEMMA JobInserted ==
  ASSUME IInv, [Next]_vars, NEW j \in DOMAIN jobs', j \notin DOMAIN jobs
  PROVE  \E h \in Handlers : handler[h].pc = "createJob" /\ handler[h].run = jobs'[j].run
<1>1. jobs \in Seq(Job)
  BY DEF IInv, TypeOK, StoreTypeOK
<1>2. ASSUME NEW h \in Handlers, handler[h].run \in Nat, CreateCiJob(handler[h].run)
      PROVE  jobs'[j].run = handler[h].run
  <2>. DEFINE new == [run |-> handler[h].run, status |-> "READY", attempts |-> 0,
                      lease |-> "none"]
  <2>1. new \in Job /\ new.run = handler[h].run
    BY <1>2 DEF Job, JobStatus, LeaseState
  <2>2. jobs' = Append(jobs, new)
    BY <1>2 DEF CreateCiJob
  <2>. HIDE DEF new
  <2>3. /\ DOMAIN jobs = 1..Len(jobs)
        /\ DOMAIN jobs' = 1..(Len(jobs) + 1)
        /\ jobs'[Len(jobs) + 1] = new
        /\ Len(jobs) \in Nat
    BY <1>1, <2>1, <2>2, AppendRow, LenProperties
  <2>4. j = Len(jobs) + 1
    BY <2>3
  <2>5. QED
    BY <2>1, <2>3, <2>4
<1>3. ASSUME NEW k \in DOMAIN jobs, MoveJob(k)
      PROVE  FALSE
  <2>1. jobs[k] \in Job
    BY <1>1, ElementOfSeq, LenProperties
  <2>2. PICK row \in Job : jobs' = [jobs EXCEPT ![k] = row]
    BY <1>3, <2>1, MovedRow
  <2>3. QED
    BY <2>2
<1>4. QED
  BY <1>2, <1>3, NextMovesJobs DEF MoveJobs

\* What a step makes of a request: it moves by itself, ends with the process,
\* or stays.
LEMMA RequestStep ==
  ASSUME [Next]_vars, IInv, NEW h \in Handlers, ~(Arrive(h) \/ Handle(h))
  PROVE  handler'[h] = handler[h] \/ (Crash /\ handler'[h] = Free)
<1>1. ASSUME NEW g \in Handlers, g # h, Arrive(g) \/ Handle(g)
      PROVE  handler'[h] = handler[h]
  BY <1>1, HandlerTurn
<1>2. CASE Crash
  BY <1>2 DEF Crash
<1>3. QED
  BY <1>1, <1>2 DEF Next, vars

\* A request that is not cut off stays in flight, or is answered after a run of
\* its commit is there and its own run has a job.
LEMMA RequestAnswered ==
  ASSUME IInv, OwnCommit, [Next]_vars,
         NEW h \in Handlers, handler[h].pc # "free", ~CutOff(h)
  PROVE  /\ \/ handler'[h].pc # "free" /\ handler'[h].sha = handler[h].sha
            \/ \E r \in DOMAIN runs : runs[r].sha = handler[h].sha
         /\ handler[h].pc = "createJob" => handler'[h] = handler[h] \/ InsertJob(h)
<1>1. handler[h] \in HandlerState /\ handler \in [Handlers -> HandlerState]
  BY DEF IInv, TypeOK, HandlerTypeOK
<1>2. ~Arrive(h)
  BY DEF Arrive, AcceptDelivery, IgnoreDelivery, ReplayDelivery, EnqueueRequest
<1>3. ~RequestFails(h) /\ ~Crash
  BY DEF CutOff
<1>4. CASE DedupBySha(h)
  BY <1>4 DEF DedupBySha, ExistingCiRun
<1>5. CASE FindNone(h)
  BY <1>1, <1>5 DEF FindNone, Advance, HandlerState
<1>6. CASE InsertRun(h)
  BY <1>1, <1>6 DEF InsertRun, Advance, HandlerState
<1>7. CASE InsertJob(h)
  BY <1>7 DEF InsertJob, OwnCommit, IInv, HandlerKnows
<1>8. CASE ~Handle(h)
  BY <1>2, <1>3, <1>8, RequestStep
<1>9. QED
  BY <1>3, <1>4, <1>5, <1>6, <1>7, <1>8 DEF Handle

\* A run is cared for from its INSERT on until its request is cut off, and then
\* never again.
LEMMA CareOfRuns ==
  ASSUME IInv, OwnCommit, [Next]_vars
  PROVE  /\ \A r \in DOMAIN runs' \ DOMAIN runs : RunCaredFor(r)'
         /\ \A r \in DOMAIN runs : RunCaredFor(r)' # RunCaredFor(r) =>
              \E h \in Handlers : CutOff(h) /\ handler[h].pc = "createJob" /\ handler[h].run = r
<1>1. ASSUME NEW r \in DOMAIN runs, NEW j \in DOMAIN jobs, jobs[j].run = r
      PROVE  \E k \in DOMAIN jobs' : jobs'[k].run = r
  BY <1>1, JobsKept
<1>2. ASSUME NEW r \in DOMAIN runs, NEW h \in Handlers, InsertJob(h), handler[h].run = r
      PROVE  \E k \in DOMAIN jobs' : jobs'[k].run = r
  <2>. DEFINE new == [run |-> r, status |-> "READY", attempts |-> 0, lease |-> "none"]
  <2>1. r \in Nat
    BY <1>2 DEF IInv, TypeOK, HandlerTypeOK, HandlerState
  <2>2. new \in Job /\ new.run = r
    BY <2>1 DEF Job, JobStatus, LeaseState
  <2>3. jobs' = Append(jobs, new) /\ jobs \in Seq(Job)
    BY <1>2 DEF InsertJob, CreateCiJob, IInv, TypeOK, StoreTypeOK
  <2>. HIDE DEF new
  <2>4. /\ Len(jobs) \in Nat
        /\ DOMAIN jobs' = 1..(Len(jobs) + 1)
        /\ jobs'[Len(jobs) + 1] = new
    BY <2>2, <2>3, AppendRow, LenProperties
  <2>5. Len(jobs) + 1 \in DOMAIN jobs'
    BY <2>4
  <2>6. QED
    BY <2>2, <2>4, <2>5
<1>3. ASSUME NEW r \in DOMAIN runs, NEW h \in Handlers,
             handler[h].pc = "createJob", handler[h].run = r, ~CutOff(h)
      PROVE  RunCaredFor(r)'
  <2>1. handler'[h] = handler[h] \/ InsertJob(h)
    BY <1>3, RequestAnswered
  <2>2. QED
    BY <1>2, <1>3, <2>1 DEF RunCaredFor
<1>4. ASSUME NEW r \in DOMAIN runs', r \notin DOMAIN runs
      PROVE  RunCaredFor(r)'
  <2>1. PICK h \in Handlers : InsertRun(h) /\ r = Len(runs) + 1
    BY <1>4, RunInserted
  <2>2. handler'[h].pc = "createJob" /\ handler'[h].run = r
    BY <2>1 DEF InsertRun, Advance, IInv, TypeOK, HandlerTypeOK, HandlerState
  <2>3. QED
    BY <2>2 DEF RunCaredFor
<1>5. ASSUME NEW r \in DOMAIN runs, RunCaredFor(r)'
      PROVE  RunCaredFor(r)
  <2>1. ASSUME NEW j \in DOMAIN jobs', jobs'[j].run = r
        PROVE  RunCaredFor(r)
    <3>1. CASE j \in DOMAIN jobs
      BY <2>1, <3>1, JobsKept DEF RunCaredFor
    <3>2. CASE j \notin DOMAIN jobs
      BY <2>1, <3>2, JobInserted DEF RunCaredFor
    <3>3. QED
      BY <3>1, <3>2
  <2>2. ASSUME NEW h \in Handlers, handler'[h].pc = "createJob", handler'[h].run = r
        PROVE  RunCaredFor(r)
    <3>1. CASE Arrive(h) \/ Handle(h)
      <4>1. InsertRun(h) /\ r = Len(runs) + 1
        BY <2>2, <3>1, HandlerTurn
      <4>2. DOMAIN runs = 1..Len(runs) /\ Len(runs) \in Nat
        BY LenProperties DEF IInv, TypeOK, StoreTypeOK
      <4>3. QED
        BY <4>1, <4>2
    <3>2. CASE ~(Arrive(h) \/ Handle(h))
      BY <2>2, <3>2, RequestStep DEF Free, RunCaredFor
    <3>3. QED
      BY <3>1, <3>2
  <2>3. QED
    BY <1>5, <2>1, <2>2 DEF RunCaredFor
<1>6. ASSUME NEW r \in DOMAIN runs, RunCaredFor(r), ~RunCaredFor(r)'
      PROVE  \E h \in Handlers : CutOff(h) /\ handler[h].pc = "createJob" /\ handler[h].run = r
  <2>1. ~\E k \in DOMAIN jobs' : jobs'[k].run = r
    BY <1>6 DEF RunCaredFor
  <2>2. QED
    BY <1>1, <1>3, <1>6, <2>1 DEF RunCaredFor
<1>7. \A r : RunCaredFor(r) \in BOOLEAN /\ RunCaredFor(r)' \in BOOLEAN
  BY DEF RunCaredFor
<1>8. QED
  BY <1>4, <1>5, <1>6, <1>7

\* A delivery is recorded by the request that takes up its commit.
LEMMA DeliveryTaken ==
  ASSUME IInv, [Next]_vars, NEW d \in deliveries', d \notin deliveries
  PROVE  DeliverySha[d] # NoSha => CommitCaredFor(DeliverySha[d])'
<1>1. PICK h \in Handlers : Arrive(h)
  BY DEF Next, vars, Handle, DedupBySha, FindNone, InsertRun, InsertJob,
     RequestFails, Work, Lease, LockNextJob, FindNoJob, GrantLease, RefuseLease,
     FailLease, ReadLease, Prepare, FailSetup, RejectLowDisk, RejectWorkdir,
     BeginClone, CloneRefused, Clone, CloneFails, RejectRepo, CloneDone, Analyze,
     AnalyzerSucceeds, AnalyzerFails, Finish, WriteRun, WriteJob, WriteFails, Cleanup,
     ExpireLease, AgeRun, Crash, storeVars
<1>2. ASSUME NEW e \in Deliveries, AcceptDelivery(h, e)
      PROVE  CommitCaredFor(DeliverySha[d])'
  <2>1. d = e
    BY <1>2 DEF AcceptDelivery
  <2>2. handler'[h].pc = "find" /\ handler'[h].sha = DeliverySha[d]
    BY <1>2, <2>1 DEF AcceptDelivery, Advance, IInv, TypeOK, HandlerTypeOK
  <2>3. QED
    BY <2>2 DEF CommitCaredFor
<1>3. ASSUME NEW e \in Deliveries, IgnoreDelivery(h, e)
      PROVE  DeliverySha[d] = NoSha
  BY <1>3 DEF IgnoreDelivery
<1>4. QED
  BY <1>1, <1>2, <1>3 DEF Arrive, ReplayDelivery, EnqueueRequest, storeVars

\* A commit is cared for from its request on until that is cut off before a run
\* of the commit is there, and then until it is requested anew.
LEMMA CareOfCommits ==
  ASSUME IInv, OwnCommit, [Next]_vars, NEW sha \in Shas
  PROVE  /\ CommitCaredFor(sha) /\ ~CommitCaredFor(sha)' =>
              \E h \in Handlers : CutOff(h) /\ handler[h].sha = sha
         /\ ~CommitCaredFor(sha) /\ CommitCaredFor(sha)' => Requested(sha)
<1>1. ASSUME NEW r \in DOMAIN runs, runs[r].sha = sha
      PROVE  CommitCaredFor(sha)'
  BY <1>1, RunsKept DEF CommitCaredFor
<1>2. ASSUME NEW h \in Handlers, handler[h].pc # "free", handler[h].sha = sha, ~CutOff(h)
      PROVE  CommitCaredFor(sha)'
  <2>1. CASE handler'[h].pc # "free" /\ handler'[h].sha = handler[h].sha
    BY <1>2, <2>1 DEF CommitCaredFor
  <2>2. CASE \E r \in DOMAIN runs : runs[r].sha = handler[h].sha
    BY <1>1, <1>2, <2>2
  <2>3. QED
    BY <1>2, <2>1, <2>2, RequestAnswered
<1>3. ASSUME NEW r \in DOMAIN runs', runs'[r].sha = sha
      PROVE  CommitCaredFor(sha)
  <2>1. CASE r \in DOMAIN runs
    BY <1>3, <2>1, RunsKept DEF CommitCaredFor
  <2>2. CASE r \notin DOMAIN runs
    <3>1. PICK h \in Handlers : InsertRun(h) /\ r = Len(runs) + 1
      BY <1>3, <2>2, RunInserted
    <3>2. handler[h].pc # "free" /\ handler[h].sha = sha
      BY <1>3, <3>1, InsertedRun DEF InsertRun
    <3>3. QED
      BY <3>2 DEF CommitCaredFor
  <2>3. QED
    BY <2>1, <2>2
<1>4. ASSUME NEW h \in Handlers, handler'[h].pc # "free", handler'[h].sha = sha
      PROVE  CommitCaredFor(sha) \/ Requested(sha)
  <2>1. CASE Arrive(h)
    <3>1. ASSUME NEW d \in Deliveries, AcceptDelivery(h, d)
          PROVE  Requested(sha)
      <4>1. handler'[h].sha = DeliverySha[d]
        BY <3>1 DEF AcceptDelivery, Advance, IInv, TypeOK, HandlerTypeOK
      <4>2. QED
        BY <1>4, <3>1, <4>1 DEF Requested
    <3>2. ASSUME NEW c \in Shas, EnqueueRequest(h, c)
          PROVE  Requested(sha)
      <4>1. handler'[h].sha = c
        BY <3>2 DEF EnqueueRequest, Advance, IInv, TypeOK, HandlerTypeOK
      <4>2. QED
        BY <1>4, <3>2, <4>1 DEF Requested
    <3>3. ~\E d \in Deliveries : IgnoreDelivery(h, d) \/ ReplayDelivery(h, d)
      BY <1>4 DEF IgnoreDelivery, ReplayDelivery
    <3>4. QED
      BY <2>1, <3>1, <3>2, <3>3 DEF Arrive
  <2>2. CASE Handle(h)
    <3>1. handler[h].pc # "free"
      BY <2>2 DEF Handle, DedupBySha, FindNone, InsertRun, InsertJob, RequestFails
    <3>2. handler'[h].sha = handler[h].sha
      BY <1>4, <2>2, <3>1, HandlerTurn DEF Free
    <3>3. QED
      BY <1>4, <3>1, <3>2 DEF CommitCaredFor
  <2>3. CASE ~(Arrive(h) \/ Handle(h))
    BY <1>4, <2>3, RequestStep DEF Free, CommitCaredFor
  <2>4. QED
    BY <2>1, <2>2, <2>3
<1>5. QED
  BY <1>1, <1>2, <1>3, <1>4 DEF CommitCaredFor

\* The three statements of the intake are no transaction, yet only the end of
\* a request that has it, by the death of the process or a statement that
\* fails, leaves a run without a job, or a commit that was delivered without a
\* run: no interleaving of requests does.  And nothing makes up for it but a
\* request, or a delivery, of its own.
THEOREM WorkLostOnlyInFailureHolds == Spec => WorkLostOnlyInFailure
<1>. DEFINE Kept ==
       /\ \A r \in DOMAIN runs' \ DOMAIN runs : RunCaredFor(r)'
       /\ \A d \in deliveries' \ deliveries :
            DeliverySha[d] # NoSha => CommitCaredFor(DeliverySha[d])'
       /\ \A r \in DOMAIN runs : RunCaredFor(r)' # RunCaredFor(r) =>
            \E h \in Handlers : CutOff(h) /\ handler[h].pc = "createJob" /\ handler[h].run = r
       /\ \A sha \in Shas : CommitCaredFor(sha)' # CommitCaredFor(sha) =>
            IF CommitCaredFor(sha)
            THEN \E h \in Handlers : CutOff(h) /\ handler[h].sha = sha
            ELSE Requested(sha)
<1>1. IInv /\ Requests /\ [Next]_vars => [Kept]_vars
  <2>. SUFFICES ASSUME IInv, Requests, [Next]_vars
                PROVE  Kept
    OBVIOUS
  <2>1. OwnCommit
    BY DEF Requests
  <2>2. \A sha : CommitCaredFor(sha) \in BOOLEAN /\ CommitCaredFor(sha)' \in BOOLEAN
    BY DEF CommitCaredFor
  <2>3. QED
    BY <2>1, <2>2, CareOfRuns, DeliveryTaken, CareOfCommits
<1>2. WorkLostOnlyInFailure <=> [][Kept]_vars
  BY DEF WorkLostOnlyInFailure
<1>. HIDE DEF Kept
<1>3. QED
  BY <1>1, <1>2, Inductive, RequestsHold, PTL DEF Spec
=============================================================================
