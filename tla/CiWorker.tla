------------------------------ MODULE CiWorker ------------------------------
(***************************************************************************)
(* processOneJob of server/ci-worker.ts with leaseNextJob of               *)
(* server/storage.ts.  A worker is one invocation in progress: the loop    *)
(* starts one every five seconds without waiting for the last to end, and  *)
(* POST /api/ci/worker/tick starts more, so several run at once in one     *)
(* process and share the workspace ${CI_TMP_DIR}/run-<run id>.             *)
(*                                                                         *)
(* leaseNextJob is two steps, the SELECT ... FOR UPDATE SKIP LOCKED that   *)
(* locks a row and the UPDATEs with COMMIT, because other invocations act  *)
(* between them; the job is then read again outside the transaction.       *)
(***************************************************************************)
EXTENDS CiStore

CONSTANTS
  Workers,          \* invocations of processOneJob that can overlap
  PreserveWorkdir   \* CI_PRESERVE_WORKDIR

ASSUME PreserveAssumption == PreserveWorkdir \in BOOLEAN

VARIABLES
  worker,     \* [pc, job, attempts, verdict, final, scope] of every invocation
  checkouts   \* runs whose workspace holds files

workerVars == <<worker, checkouts>>

Resting == [pc |-> "idle", job |-> 0, attempts |-> 0,
            verdict |-> "FAILED", final |-> "DEAD", scope |-> "bare"]

\* scope is where an exception of the step would be caught: "bare" in the
\* caller (before the try block), "try" in the catch block, "catch" nowhere
\* but the finally block.
WorkerState ==
  [pc: {"idle", "locked", "granted", "start", "clone", "analyze",
        "writeRun", "writeJob", "cleanup"},
   job: Nat, attempts: Nat, verdict: {"SUCCEEDED", "FAILED"},
   final: {"DONE", "DEAD"}, scope: {"bare", "try", "catch"}]

WorkerTypeOK ==
  /\ worker \in [Workers -> WorkerState]
  /\ checkouts \subseteq Nat

WorkerInit ==
  /\ worker = [w \in Workers |-> Resting]
  /\ checkouts = {}

RunOf(w) == jobs[worker[w].job].run

Goto(w, to) == worker' = [worker EXCEPT ![w] = to]
Step(w, pc) == Goto(w, [worker[w] EXCEPT !.pc = pc])

\* The finally block needs no local but the job.
GotoCleanup(w) == Goto(w, [Resting EXCEPT !.pc = "cleanup", !.job = worker[w].job])

\* Settle: the run's verdict and the job's final status, to be written one
\* after the other by two separate UPDATEs.
\* Mutant: the job is ended and the run forgotten.
SettleJobOnly(w, verdict, final, scope) ==
  Goto(w, [worker[w] EXCEPT !.pc = "writeJob", !.verdict = verdict,
                            !.final = final, !.scope = scope])

Settle(w, verdict, final, scope) ==
  Goto(w, [worker[w] EXCEPT !.pc = "writeRun", !.verdict = verdict,
                            !.final = final, !.scope = scope])

(***************************************************************************)
(* leaseNextJob                                                            *)
(***************************************************************************)
Locked(j) == \E w \in Workers : worker[w].pc = "locked" /\ worker[w].job = j

\* Mutant: the SELECT takes no row lock.
CandidateUnlocked(j) == j \in DOMAIN jobs /\ Eligible(j)

Candidate(j) == j \in DOMAIN jobs /\ Eligible(j) /\ ~Locked(j)

LockNextJob(w) ==
  /\ worker[w].pc = "idle"
  /\ \E j \in DOMAIN jobs :
       /\ Candidate(j)
       /\ \A i \in 1..(j - 1) : ~Candidate(i)
       /\ Goto(w, [Resting EXCEPT !.pc = "locked", !.job = j,
                                  !.attempts = jobs[j].attempts])
  /\ UNCHANGED <<storeVars, checkouts>>

FindNoJob(w) ==
  /\ worker[w].pc = "idle"
  /\ ~\E j \in DOMAIN jobs : Candidate(j)
  /\ UNCHANGED <<storeVars, workerVars>>

\* Mutant: one lease too many.
GrantOneMore(w) ==
  /\ worker[w].pc = "locked"
  /\ worker[w].attempts <= MaxAttempts
  /\ LeaseJob(worker[w].job)
  /\ Step(w, "granted")
  /\ UNCHANGED <<deliveries, checkouts>>

GrantLease(w) ==
  /\ worker[w].pc = "locked"
  /\ worker[w].attempts < MaxAttempts
  /\ LeaseJob(worker[w].job)
  /\ Step(w, "granted")
  /\ UNCHANGED <<deliveries, checkouts>>

RefuseLease(w) ==
  /\ worker[w].pc = "locked"
  /\ worker[w].attempts >= MaxAttempts
  /\ ExhaustJob(worker[w].job)
  /\ Goto(w, Resting)
  /\ UNCHANGED <<deliveries, checkouts>>

\* A database error: ROLLBACK, and the exception leaves processOneJob.  Once
\* the lease is committed ("granted") the job stays leased to nobody.
FailLease(w) ==
  /\ worker[w].pc \in {"locked", "granted"}
  /\ Goto(w, Resting)
  /\ UNCHANGED <<storeVars, checkouts>>

ReadLease(w) ==
  /\ worker[w].pc = "granted"
  /\ Goto(w, [worker[w] EXCEPT !.pc = "start",
                               !.attempts = jobs[worker[w].job].attempts])
  /\ UNCHANGED <<storeVars, checkouts>>

(***************************************************************************)
(* processOneJob                                                           *)
(***************************************************************************)
\* mkdirSync fails before the try block: the caller logs it, the job stays
\* leased.
FailSetup(w) ==
  /\ worker[w].pc = "start"
  /\ Goto(w, Resting)
  /\ UNCHANGED <<storeVars, checkouts>>

RejectLowDisk(w) ==
  /\ worker[w].pc = "start"
  /\ Settle(w, "FAILED", "DEAD", "bare")
  /\ UNCHANGED <<storeVars, checkouts>>

RejectWorkdir(w) ==
  /\ worker[w].pc = "start"
  /\ Settle(w, "FAILED", "DEAD", "try")
  /\ UNCHANGED <<storeVars, checkouts>>

\* The catch block.  Only an exception in the last attempt fails the run.
Caught(w) ==
  IF worker[w].attempts >= MaxAttempts
  THEN Settle(w, "FAILED", "DEAD", "catch")
  ELSE Goto(w, [worker[w] EXCEPT !.pc = "writeJob", !.final = "DEAD",
                                 !.scope = "catch"])

\* git clone refuses a destination directory that is not empty.
BeginClone(w) ==
  /\ worker[w].pc = "start"
  /\ RunOf(w) \notin checkouts
  /\ checkouts' = checkouts \cup {RunOf(w)}
  /\ Step(w, "clone")
  /\ UNCHANGED storeVars

CloneRefused(w) ==
  /\ worker[w].pc = "start"
  /\ RunOf(w) \in checkouts
  /\ Caught(w)
  /\ UNCHANGED <<storeVars, checkouts>>

\* A failed clone empties its destination; a failed fetch or checkout of the
\* commit leaves the files behind.
CloneFails(w) ==
  /\ worker[w].pc = "clone"
  /\ Caught(w)
  /\ checkouts' \in {checkouts, checkouts \ {RunOf(w)}}
  /\ UNCHANGED storeVars

RejectRepo(w) ==
  /\ worker[w].pc = "clone"
  /\ Settle(w, "FAILED", "DEAD", "try")
  /\ UNCHANGED <<storeVars, checkouts>>

CloneDone(w) ==
  /\ worker[w].pc = "clone"
  /\ Step(w, "analyze")
  /\ UNCHANGED <<storeVars, checkouts>>

AnalyzerSucceeds(w) ==
  /\ worker[w].pc = "analyze"
  /\ Settle(w, "SUCCEEDED", "DONE", "try")
  /\ UNCHANGED <<storeVars, checkouts>>

\* Non-zero exit, spawn error or the analyzer timeout: final, never retried.
AnalyzerFails(w) ==
  /\ worker[w].pc = "analyze"
  /\ Settle(w, "FAILED", "DONE", "try")
  /\ UNCHANGED <<storeVars, checkouts>>

WriteRun(w) ==
  /\ worker[w].pc = "writeRun"
  /\ UpdateCiRun(RunOf(w), worker[w].verdict)
  /\ Step(w, "writeJob")
  /\ UNCHANGED <<deliveries, jobs, checkouts>>

\* Mutant: the UPDATE slips in under another transaction's row lock.
WriteJobUnderLock(w) ==
  /\ worker[w].pc = "writeJob"
  /\ CompleteJob(worker[w].job, worker[w].final)
  /\ IF worker[w].scope = "bare" THEN Goto(w, Resting) ELSE GotoCleanup(w)
  /\ UNCHANGED <<deliveries, runs, checkouts>>

\* The UPDATE waits for a transaction that holds the job's row lock.
WriteJob(w) ==
  /\ worker[w].pc = "writeJob"
  /\ ~Locked(worker[w].job)
  /\ CompleteJob(worker[w].job, worker[w].final)
  /\ IF worker[w].scope = "bare" THEN Goto(w, Resting) ELSE GotoCleanup(w)
  /\ UNCHANGED <<deliveries, runs, checkouts>>

\* A database error in either write.
WriteFails(w) ==
  /\ worker[w].pc \in {"writeRun", "writeJob"}
  /\ \/ worker[w].scope = "bare" /\ Goto(w, Resting)
     \/ worker[w].scope = "try" /\ Caught(w)
     \/ worker[w].scope = "catch" /\ GotoCleanup(w)
  /\ UNCHANGED <<storeVars, checkouts>>

\* Mutant: rm -rf of ${CI_TMP_DIR} instead of the run's directory.
CleanupEverything(w) ==
  /\ worker[w].pc = "cleanup"
  /\ checkouts' = IF PreserveWorkdir THEN checkouts ELSE {}
  /\ Goto(w, Resting)
  /\ UNCHANGED storeVars

Cleanup(w) ==
  /\ worker[w].pc = "cleanup"
  /\ checkouts' = IF PreserveWorkdir THEN checkouts ELSE checkouts \ {RunOf(w)}
  /\ Goto(w, Resting)
  /\ UNCHANGED storeVars

Lease(w) ==
  \/ LockNextJob(w) \/ FindNoJob(w)
  \/ GrantLease(w) \/ RefuseLease(w) \/ FailLease(w) \/ ReadLease(w)

Prepare(w) ==
  \/ FailSetup(w) \/ RejectLowDisk(w) \/ RejectWorkdir(w)
  \/ BeginClone(w) \/ CloneRefused(w)

Clone(w) == CloneFails(w) \/ RejectRepo(w) \/ CloneDone(w)
Analyze(w) == AnalyzerSucceeds(w) \/ AnalyzerFails(w)
Finish(w) == WriteRun(w) \/ WriteJob(w) \/ WriteFails(w) \/ Cleanup(w)

Work(w) == Lease(w) \/ Prepare(w) \/ Clone(w) \/ Analyze(w) \/ Finish(w)
=============================================================================
