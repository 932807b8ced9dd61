------------------------------- MODULE CiFeed -------------------------------
(***************************************************************************)
(* The CI feed as one server process runs it: the requests of CiIntake and *)
(* the worker invocations of CiWorker over the tables of CiStore, with the *)
(* process dying at any point, as it does in a deployment or, by the       *)
(* handlers server/index.ts installs, on an uncaught exception.            *)
(***************************************************************************)
EXTENDS CiIntake, CiWorker

vars == <<storeVars, handler, workerVars>>

Init == StoreInit /\ IntakeInit /\ WorkerInit

InFlight ==
  \/ \E h \in Handlers : handler[h].pc # "free"
  \/ \E w \in Workers : worker[w].pc # "idle"

\* Everything in memory goes, and a row lock goes with its connection.  The
\* workspaces stay, unless the restart comes with a fresh file system.
Crash ==
  /\ InFlight
  /\ handler' = [h \in Handlers |-> Free]
  /\ worker' = [w \in Workers |-> Resting]
  /\ checkouts' \in {checkouts, {}}
  /\ UNCHANGED storeVars

Next ==
  \/ \E h \in Handlers : Arrive(h) /\ UNCHANGED workerVars
  \/ \E h \in Handlers : Handle(h) /\ UNCHANGED workerVars
  \/ \E w \in Workers : Work(w) /\ UNCHANGED handler
  \/ \E j \in DOMAIN jobs : ExpireLease(j) /\ UNCHANGED <<handler, workerVars>>
  \/ \E r \in DOMAIN runs : AgeRun(r) /\ UNCHANGED <<handler, workerVars>>
  \/ Crash

Spec == Init /\ [][Next]_vars

(***************************************************************************)
(* Fairness.  A process that is up performs its database statements, kills *)
(* an analyzer that outstays its timeout and polls for jobs every five     *)
(* seconds; time passes; and a lease transaction does not fail every time. *)
(* Nothing is assumed of git, which runs without a timeout, of new         *)
(* requests, or of how often the process dies.                             *)
(***************************************************************************)
Fairness ==
  /\ \A w \in Workers :
       /\ WF_vars(Finish(w) /\ UNCHANGED handler)
       /\ WF_vars(Analyze(w) /\ UNCHANGED handler)
       /\ WF_vars(Lease(w) /\ UNCHANGED handler)
  /\ SF_vars(\E w \in Workers : (GrantLease(w) \/ RefuseLease(w)) /\ UNCHANGED handler)
  /\ \A j \in 1..MaxRuns :
       WF_vars(j \in DOMAIN jobs /\ ExpireLease(j) /\ UNCHANGED <<handler, workerVars>>)

FairSpec == Spec /\ Fairness

(***************************************************************************)
(* Invariants                                                              *)
(***************************************************************************)
\* The type invariant of the tables, the requests and the workers.
TypeOK == StoreTypeOK /\ HandlerTypeOK /\ WorkerTypeOK

Ended(j) == jobs[j].status \in {"DONE", "DEAD"}
Finished(r) == runs[r].status \in {"SUCCEEDED", "FAILED"}

\* Every job belongs to a run that exists and no two jobs to the same one,
\* and a run whose job a handler is still about to insert has none: the
\* three-statement intake of routes.ts never gives a run a second job.
OneJobPerRun ==
  /\ \A j \in DOMAIN jobs : jobs[j].run \in DOMAIN runs
  /\ \A i, j \in DOMAIN jobs : jobs[i].run = jobs[j].run => i = j
  /\ \A h \in Handlers : handler[h].pc = "createJob" =>
       \A j \in DOMAIN jobs : jobs[j].run # handler[h].run

\* Find-then-insert is a race, but one no wider than the number of requests
\* in flight together: the recent runs of one commit never outnumber them.
DuplicatesBounded ==
  \A sha \in Shas :
    Cardinality({r \in DOMAIN runs : runs[r].sha = sha /\ runs[r].recent})
      <= Cardinality(Handlers)

\* Two lease transactions never hold the same job's row, and the row stays
\* as the SELECT of leaseNextJob saw it until they commit.
LockExclusive ==
  /\ \A v, w \in Workers :
       /\ worker[v].pc = "locked"
       /\ worker[w].pc = "locked"
       /\ worker[v].job = worker[w].job
       => v = w
  /\ \A w \in Workers : worker[w].pc = "locked" =>
       /\ Eligible(worker[w].job)
       /\ worker[w].attempts = jobs[worker[w].job].attempts

\* However leases expire, crash or race, no job is granted more than
\* MaxAttempts of them.
AttemptsBounded == \A j \in DOMAIN jobs : jobs[j].attempts <= MaxAttempts

\* A run shows QUEUED exactly as long as its job was never leased: the lease
\* transaction moves both rows at once and nothing ever moves one back.
QueuedIffReady ==
  \A j \in DOMAIN jobs : jobs[j].status = "READY" <=> runs[jobs[j].run].status = "QUEUED"

\* A job that needed one lease and is DONE has its run's verdict on record:
\* processOneJob writes the run before the job, so a crash between the two
\* cannot leave a DONE job with a run that still shows RUNNING.  (A second
\* lease can: see the README.)
DoneOnceMeansSettled ==
  \A j \in DOMAIN jobs :
    jobs[j].status = "DONE" /\ jobs[j].attempts = 1 => Finished(jobs[j].run)

\* The working tree is deleted under a running clone or analyzer only by an
\* invocation that holds a later lease of the same job: without a re-lease
\* the shared workspace is safe.
TreeLostOnlyToRelease ==
  \A w \in Workers :
    /\ worker[w].pc \in {"clone", "analyze"}
    /\ RunOf(w) \notin checkouts
    => jobs[worker[w].job].attempts >= 2

(***************************************************************************)
(* Action properties and refinement                                        *)
(***************************************************************************)
\* completeJob is unconditional and comes from workers whose lease may be
\* long gone; still a job that has ended never becomes leasable again.
EndedStaysEnded ==
  [][\A j \in DOMAIN jobs : Ended(j) => Ended(j)']_vars

\* A run is cared for while it has a job or a request about to insert one; a
\* commit, while a request is on its way with it or it has a run.
RunCaredFor(r) ==
  \/ \E j \in DOMAIN jobs : jobs[j].run = r
  \/ \E h \in Handlers : handler[h].pc = "createJob" /\ handler[h].run = r
CommitCaredFor(sha) ==
  \/ \E h \in Handlers : handler[h].pc # "free" /\ handler[h].sha = sha
  \/ \E r \in DOMAIN runs : runs[r].sha = sha

\* The process dies, or a statement fails, under a request in flight.
CutOff(h) == handler[h].pc # "free" /\ (Crash \/ RequestFails(h))

\* The request whose commit it is comes, or a delivery not recorded before.
Requested(sha) ==
  \E h \in Handlers :
    \/ EnqueueRequest(h, sha)
    \/ \E d \in Deliveries : AcceptDelivery(h, d) /\ DeliverySha[d] = sha

\* The delivery is recorded before its run exists and the run before its job,
\* without a transaction.  No interleaving of requests loses a commit or leaves
\* a run without a job: only the end of a request that had it does, on
\* its way or between its run and its job.  And what is lost so stays lost: no
\* request, replay or worker gives the run a job, and nothing takes up the
\* commit but a request or a delivery of its own.
WorkLostOnlyInFailure ==
  [][/\ \A r \in DOMAIN runs' \ DOMAIN runs : RunCaredFor(r)'
     /\ \A d \in deliveries' \ deliveries :
          DeliverySha[d] # NoSha => CommitCaredFor(DeliverySha[d])'
     /\ \A r \in DOMAIN runs : RunCaredFor(r)' # RunCaredFor(r) =>
          \E h \in Handlers : CutOff(h) /\ handler[h].pc = "createJob" /\ handler[h].run = r
     /\ \A sha \in Shas : CommitCaredFor(sha)' # CommitCaredFor(sha) =>
          IF CommitCaredFor(sha)
          THEN \E h \in Handlers : CutOff(h) /\ handler[h].sha = sha
          ELSE Requested(sha)]_vars

\* What JobLifecycle sees of ci_jobs.
JobView == [j \in DOMAIN jobs |-> [status |-> jobs[j].status,
                                   attempts |-> jobs[j].attempts,
                                   lease |-> jobs[j].lease]]

Lifecycle == INSTANCE JobLifecycle WITH job <- JobView

\* The table ci_jobs, worked on by all those invocations, is a queue of
\* jobs as JobLifecycle describes it.
ImplementsLifecycle == Lifecycle!Spec

(***************************************************************************)
(* Liveness                                                                *)
(***************************************************************************)
\* A job that is in the table ends, DONE or DEAD, even if every git clone
\* hangs for good: expired leases are granted to other invocations until the
\* attempts are used up.
JobsEnd ==
  \A j \in 1..MaxRuns :
    (j \in DOMAIN jobs) ~> (j \in DOMAIN jobs /\ Ended(j))

(***************************************************************************)
(* What the documentation says and the code does not do                    *)
(***************************************************************************)
\* "Max attempts: 3. After 3 failures, the job is marked DEAD and the
\* corresponding run is marked FAILED" (docs/ARCHITECTURE.md): a job that is
\* DEAD, with nobody working on it any more, has a FAILED run.
DeadMeansRunFailed ==
  \A j \in DOMAIN jobs :
    /\ jobs[j].status = "DEAD"
    /\ \A w \in Workers : worker[w].pc # "idle" => worker[w].job # j
    => runs[jobs[j].run].status = "FAILED"

\* "If a worker crashes mid-job, the lease expires and another worker can
\* pick it up" (docs/ARCHITECTURE.md): an invocation that picks a job up finds
\* a workspace it can clone into, unless another one is working there.
RetryStartsClean ==
  \A w \in Workers :
    /\ worker[w].pc = "start"
    /\ \A v \in Workers \ {w} :
         worker[v].pc \notin {"idle", "locked"} => worker[v].job # worker[w].job
    => RunOf(w) \notin checkouts

\* "SHA-based deduplication: If the same (owner, repo, SHA) was processed
\* within 6 hours, returns the existing run" (docs/ARCHITECTURE.md): two
\* runs of the last six hours are of different commits.
OneRecentRunPerSha ==
  \A q, r \in DOMAIN runs :
    runs[q].recent /\ runs[r].recent /\ runs[q].sha = runs[r].sha => q = r
=============================================================================
