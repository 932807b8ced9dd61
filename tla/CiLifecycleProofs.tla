------------------------- MODULE CiLifecycleProofs -------------------------
(***************************************************************************)
(* The table ci_jobs implements JobLifecycle, for any number of jobs,      *)
(* invocations and attempts: every step of CiFeed is, on the jobs, a step  *)
(* of the abstract queue or none.                                          *)
(***************************************************************************)
EXTENDS CiFeedProofs

-----------------------------------------------------------------------------
(***************************************************************************)
(* Jobs that have ended                                                    *)
(***************************************************************************)
LEMMA MoveKeepsEnded ==
  ASSUME jobs \in Seq(Job), MoveJobs,
         NEW k \in DOMAIN jobs, Ended(k)
  PROVE  Ended(k)'
<1>1. jobs[k] \in Job
  BY ElementOfSeq, LenProperties
<1>2. CASE UNCHANGED jobs
  BY <1>2 DEF Ended
<1>3. ASSUME NEW r \in Nat, CreateCiJob(r)
      PROVE  Ended(k)'
  <2>. DEFINE new == [run |-> r, status |-> "READY", attempts |-> 0, lease |-> "none"]
  <2>1. new \in Job
    BY DEF Job, JobStatus, LeaseState
  <2>2. jobs' = Append(jobs, new)
    BY <1>3 DEF CreateCiJob
  <2>. HIDE DEF new
  <2>3. jobs'[k] = jobs[k]
    BY <2>1, <2>2, AppendRow
  <2>4. QED
    BY <2>3 DEF Ended
<1>4. ASSUME NEW j \in DOMAIN jobs, MoveJob(j), j # k
      PROVE  Ended(k)'
  BY <1>4 DEF MoveJob, SetJobStatus, Ended
<1>5. ASSUME MoveJob(k)
      PROVE  Ended(k)'
  <2>1. ~Eligible(k) /\ jobs[k].status # "LEASED"
    BY DEF Ended, Eligible
  <2>2. PICK status \in {"DONE", "DEAD"} : SetJobStatus(k, status)
    BY <1>5, <2>1 DEF MoveJob
  <2>3. jobs'[k] = [jobs[k] EXCEPT !.status = status]
    BY <2>2, JobStatusWrite DEF JobStatus
  <2>4. QED
    BY <1>1, <2>3 DEF Ended, Job
<1>6. QED
  BY <1>2, <1>3, <1>4, <1>5 DEF MoveJobs

\* A job that has ended stays ended, whatever late completions arrive from
\* invocations whose lease was taken over.
THEOREM EndedStaysEndedHolds == Spec => EndedStaysEnded
<1>1. IInv /\ [Next]_vars => [\A j \in DOMAIN jobs : Ended(j) => Ended(j)']_vars
  <2>. SUFFICES ASSUME IInv, [Next]_vars, NEW j \in DOMAIN jobs, Ended(j)
                PROVE  Ended(j)'
    OBVIOUS
  <2>1. jobs \in Seq(Job) /\ MoveJobs
    BY NextMovesJobs DEF IInv, TypeOK, StoreTypeOK
  <2>2. QED
    BY <2>1, MoveKeepsEnded
<1>2. QED
  BY <1>1, Inductive, PTL DEF Spec, EndedStaysEnded

-----------------------------------------------------------------------------
(***************************************************************************)
(* Refinement                                                              *)
(***************************************************************************)
Row == [status: JobStatus, attempts: Nat, lease: LeaseState]

RowOf(row) == [status |-> row.status, attempts |-> row.attempts, lease |-> row.lease]

\* The abstract jobs are a sequence as long as the table.
LEMMA ViewIsSeq ==
  ASSUME jobs \in Seq(Job)
  PROVE  /\ JobView \in Seq(Row)
         /\ DOMAIN JobView = DOMAIN jobs
         /\ Len(JobView) = Len(jobs)
         /\ \A j \in DOMAIN jobs : JobView[j] = RowOf(jobs[j])
<1>1. /\ Len(jobs) \in Nat
      /\ DOMAIN jobs = 1..Len(jobs)
  BY LenProperties
<1>2. \A j \in DOMAIN jobs : jobs[j] \in Job
  BY ElementOfSeq
<1>3. JobView \in [1..Len(jobs) -> Row]
  BY <1>1, <1>2 DEF JobView, Row, Job
<1>4. JobView \in Seq(Row) /\ Len(JobView) = Len(jobs)
  BY <1>1, <1>3, SeqDef, LenProperties
<1>5. QED
  BY <1>4 DEF JobView, RowOf

\* A write to one row is a write to one row of the view.
LEMMA ViewOfUpdate ==
  ASSUME jobs \in Seq(Job), NEW j \in DOMAIN jobs, NEW row \in Job,
         jobs' = [jobs EXCEPT ![j] = row]
  PROVE  JobView' = [JobView EXCEPT ![j] = RowOf(row)]
<1>1. /\ DOMAIN jobs' = DOMAIN jobs
      /\ jobs'[j] = row
      /\ \A k \in DOMAIN jobs : k # j => jobs'[k] = jobs[k]
  BY UpdateRow
<1>2. JobView' = [k \in DOMAIN jobs |-> RowOf(jobs'[k])]
  BY <1>1 DEF JobView, RowOf
<1>3. JobView = [k \in DOMAIN jobs |-> RowOf(jobs[k])]
  BY DEF JobView, RowOf
<1>4. QED
  BY <1>1, <1>2, <1>3

\* A row inserted is an abstract job queued.
LEMMA ViewOfInsert ==
  ASSUME jobs \in Seq(Job), NEW row \in Job, jobs' = Append(jobs, row)
  PROVE  JobView' = Append(JobView, RowOf(row))
<1>1. /\ Len(jobs) \in Nat
      /\ jobs' \in Seq(Job)
      /\ DOMAIN jobs = 1..Len(jobs)
      /\ DOMAIN jobs' = 1..(Len(jobs) + 1)
      /\ jobs'[Len(jobs) + 1] = row
      /\ \A k \in DOMAIN jobs : jobs'[k] = jobs[k]
  BY AppendRow, LenProperties
<1>2. /\ JobView \in Seq(Row)
      /\ Len(JobView) = Len(jobs)
      /\ \A k \in DOMAIN jobs : JobView[k] = RowOf(jobs[k])
  BY ViewIsSeq
<1>3. RowOf(row) \in Row
  BY DEF RowOf, Row, Job
<1>4. /\ DOMAIN Append(JobView, RowOf(row)) = 1..(Len(jobs) + 1)
      /\ Append(JobView, RowOf(row)) \in Seq(Row)
      /\ Append(JobView, RowOf(row))[Len(jobs) + 1] = RowOf(row)
      /\ \A k \in 1..Len(jobs) : Append(JobView, RowOf(row))[k] = JobView[k]
  BY <1>1, <1>2, <1>3, AppendRow
<1>5. JobView' = [k \in 1..(Len(jobs) + 1) |-> RowOf(jobs'[k])]
  BY <1>1 DEF JobView, RowOf
<1>6. \A k \in 1..(Len(jobs) + 1) : RowOf(jobs'[k]) = Append(JobView, RowOf(row))[k]
  BY <1>1, <1>2, <1>4
<1>7. Append(JobView, RowOf(row))
        = [k \in 1..(Len(jobs) + 1) |-> Append(JobView, RowOf(row))[k]]
  <2>. DEFINE longer == Append(JobView, RowOf(row))
  <2>1. longer \in [1..Len(longer) -> Row] /\ DOMAIN longer = 1..(Len(jobs) + 1)
    BY <1>4, LenProperties
  <2>. HIDE DEF longer
  <2>2. longer = [k \in DOMAIN longer |-> longer[k]]
    BY <2>1
  <2>3. QED
    BY <2>1, <2>2 DEF longer
<1>8. QED
  BY <1>5, <1>6, <1>7

\* What happens to one job is a step of the abstract queue.
LEMMA MoveIsLifecycleStep ==
  ASSUME jobs \in Seq(Job), NEW j \in DOMAIN jobs, MoveJob(j)
  PROVE  Lifecycle!Next
<1>1. jobs[j] \in Job
  BY ElementOfSeq, LenProperties
<1>2. /\ j \in DOMAIN JobView
      /\ JobView[j].status = jobs[j].status
      /\ JobView[j].attempts = jobs[j].attempts
      /\ JobView[j].lease = jobs[j].lease
      /\ JobView[j] = RowOf(jobs[j])
  BY ViewIsSeq DEF RowOf
<1>3. Eligible(j) => Lifecycle!Leasable(j)
  BY <1>2 DEF Eligible, Lifecycle!Leasable
<1>4. CASE /\ Eligible(j)
           /\ jobs[j].attempts < MaxAttempts
           /\ jobs' = [jobs EXCEPT ![j] = Leased(jobs[j])]
  <2>1. JobView' = [JobView EXCEPT ![j] = RowOf(Leased(jobs[j]))]
    BY <1>1, <1>4, LeasedRow, ViewOfUpdate
  <2>2. RowOf(Leased(jobs[j])) = [status |-> "LEASED", attempts |-> JobView[j].attempts + 1,
                                  lease |-> "running"]
    BY <1>2 DEF RowOf, Leased
  <2>3. Lifecycle!Grant(j)
    BY <1>2, <1>3, <1>4, <2>1, <2>2 DEF Lifecycle!Grant
  <2>4. QED
    BY <1>2, <2>3 DEF Lifecycle!Next
<1>5. ASSUME NEW status \in {"DONE", "DEAD"}, SetJobStatus(j, status)
      PROVE  JobView' = [JobView EXCEPT ![j] = [@ EXCEPT !.status = status]]
  <2>. DEFINE row == [jobs[j] EXCEPT !.status = status]
  <2>1. /\ row \in Job
        /\ row.status = status
        /\ row.attempts = jobs[j].attempts
        /\ row.lease = jobs[j].lease
    BY <1>1 DEF Job, JobStatus
  <2>2. jobs' = [jobs EXCEPT ![j] = row]
    BY <1>5 DEF SetJobStatus
  <2>. HIDE DEF row
  <2>3. JobView' = [JobView EXCEPT ![j] = RowOf(row)]
    BY <2>1, <2>2, ViewOfUpdate
  <2>4. RowOf(row) = [RowOf(jobs[j]) EXCEPT !.status = status]
    BY <2>1 DEF RowOf
  <2>5. QED
    BY <1>2, <2>3, <2>4
<1>6. CASE /\ Eligible(j)
           /\ jobs[j].attempts >= MaxAttempts
           /\ SetJobStatus(j, "DEAD")
  BY <1>2, <1>3, <1>5, <1>6 DEF Lifecycle!Exhaust, Lifecycle!Next
<1>7. CASE /\ jobs[j].status # "READY"
           /\ \E status \in {"DONE", "DEAD"} : SetJobStatus(j, status)
  BY <1>2, <1>5, <1>7 DEF Lifecycle!End, Lifecycle!Next
<1>8. CASE /\ jobs[j].status = "LEASED"
           /\ jobs' = [jobs EXCEPT ![j] = [@ EXCEPT !.lease = "expired"]]
  <2>. DEFINE row == [jobs[j] EXCEPT !.lease = "expired"]
  <2>1. /\ row \in Job
        /\ row.status = jobs[j].status
        /\ row.attempts = jobs[j].attempts
        /\ row.lease = "expired"
    BY <1>1 DEF Job, LeaseState
  <2>2. jobs' = [jobs EXCEPT ![j] = row]
    BY <1>8
  <2>. HIDE DEF row
  <2>3. JobView' = [JobView EXCEPT ![j] = RowOf(row)]
    BY <2>1, <2>2, ViewOfUpdate
  <2>4. RowOf(row) = [RowOf(jobs[j]) EXCEPT !.lease = "expired"]
    BY <2>1 DEF RowOf
  <2>5. Lifecycle!Expire(j)
    BY <1>2, <1>8, <2>3, <2>4 DEF Lifecycle!Expire
  <2>6. QED
    BY <1>2, <2>5 DEF Lifecycle!Next
<1>9. QED
  BY <1>4, <1>6, <1>7, <1>8 DEF MoveJob

\* A new job is a submission to the abstract queue.
LEMMA InsertIsLifecycleStep ==
  ASSUME jobs \in Seq(Job), NEW r \in Nat, CreateCiJob(r)
  PROVE  Lifecycle!Next
<1>. DEFINE new == [run |-> r, status |-> "READY", attempts |-> 0, lease |-> "none"]
<1>1. new \in Job
  BY DEF Job, JobStatus, LeaseState
<1>2. jobs' = Append(jobs, new)
  BY DEF CreateCiJob
<1>3. RowOf(new) = Lifecycle!New
  BY DEF RowOf, Lifecycle!New
<1>. HIDE DEF new
<1>4. Lifecycle!Submit
  BY <1>1, <1>2, <1>3, ViewOfInsert DEF Lifecycle!Submit
<1>5. QED
  BY <1>4 DEF Lifecycle!Next

\* ci_jobs, with every invocation, request and crash of the feed at work on it,
\* is the queue that docs/ARCHITECTURE.md describes: leased when new or run
\* out, at most MaxAttempts times, and never again once ended.
THEOREM ImplementsLifecycleHolds == Spec => ImplementsLifecycle
<1>1. Init => Lifecycle!Init
  <2>1. ASSUME jobs = <<>>
        PROVE  JobView = <<>>
    <3>1. jobs \in Seq(Job) /\ Len(jobs) = 0
      BY <2>1, EmptySeq
    <3>2. JobView \in Seq(Row) /\ Len(JobView) = 0
      BY <3>1, ViewIsSeq
    <3>3. QED
      BY <3>2, EmptySeq
  <2>2. QED
    BY <2>1 DEF Init, StoreInit, Lifecycle!Init
<1>2. IInv /\ [Next]_vars => [Lifecycle!Next]_JobView
  <2>. SUFFICES ASSUME IInv, [Next]_vars
                PROVE  [Lifecycle!Next]_JobView
    OBVIOUS
  <2>1. jobs \in Seq(Job) /\ MoveJobs
    BY NextMovesJobs DEF IInv, TypeOK, StoreTypeOK
  <2>2. CASE UNCHANGED jobs
    BY <2>2 DEF JobView
  <2>3. QED
    BY <2>1, <2>2, MoveIsLifecycleStep, InsertIsLifecycleStep DEF MoveJobs
<1>3. QED
  BY <1>1, <1>2, Inductive, PTL DEF Spec, ImplementsLifecycle, Lifecycle!Spec
=============================================================================
