------------------------------ MODULE CiStore ------------------------------
(***************************************************************************)
(* The three PostgreSQL tables of the CI feed and the operations that      *)
(* server/storage.ts performs on them: webhook_deliveries, ci_runs and     *)
(* ci_jobs.  A table is a sequence of rows in the order of created_at, so  *)
(* a row is named by its position and an INSERT appends.                   *)
(*                                                                         *)
(* Two timestamps are abstracted to what the queries ask of them:          *)
(*   - ci_jobs.leased_until is "none", "running" or "expired", the result  *)
(*     of comparing it with now;                                           *)
(*   - ci_runs.created_at is `recent' while it lies inside the six hours   *)
(*     findExistingCiRun looks back.                                       *)
(* Error texts, timings and artefact paths are not kept.                   *)
(***************************************************************************)
EXTENDS Naturals, Sequences

CONSTANTS
  Shas,         \* commits, each standing for one (owner, repo, sha)
  Deliveries,   \* X-GitHub-Delivery ids
  MaxAttempts   \* leases a job may be granted (3 in the code)

ASSUME MaxAttemptsAssumption == MaxAttempts \in Nat \ {0}

VARIABLES
  deliveries,   \* webhook_deliveries: the ids recorded so far
  runs,         \* ci_runs
  jobs          \* ci_jobs

storeVars == <<deliveries, runs, jobs>>

RunStatus == {"QUEUED", "RUNNING", "SUCCEEDED", "FAILED"}
JobStatus == {"READY", "LEASED", "DONE", "DEAD"}
LeaseState == {"none", "running", "expired"}

Run == [sha: Shas, status: RunStatus, recent: BOOLEAN]
Job == [run: Nat, status: JobStatus, attempts: Nat, lease: LeaseState]

StoreTypeOK ==
  /\ deliveries \subseteq Deliveries
  /\ runs \in Seq(Run)
  /\ jobs \in Seq(Job)

StoreInit ==
  /\ deliveries = {}
  /\ runs = <<>>
  /\ jobs = <<>>

(***************************************************************************)
(* Intake: findExistingCiRun, createCiRun and createCiJob are three        *)
(* separate statements, none of them inside a transaction.                 *)
(***************************************************************************)
ExistingCiRun(sha) ==
  \E r \in DOMAIN runs : runs[r].sha = sha /\ runs[r].recent

CreateCiRun(sha) ==
  runs' = Append(runs, [sha |-> sha, status |-> "QUEUED", recent |-> TRUE])

\* Mutant: the job is given the run's initial status.
CreateCiJobQueued(r) ==
  jobs' = Append(jobs, [run |-> r, status |-> "QUEUED", attempts |-> 0,
                        lease |-> "none"])

CreateCiJob(r) ==
  jobs' = Append(jobs, [run |-> r, status |-> "READY", attempts |-> 0,
                        lease |-> "none"])

(***************************************************************************)
(* Leasing.  The WHERE clause of leaseNextJob, and the two outcomes of its *)
(* transaction.                                                            *)
(***************************************************************************)
\* Mutant: a lease can be taken over while it runs.
EligibleWhenLeased(j) == jobs[j].status \in {"READY", "LEASED"}

\* Mutant: an expired lease is never reclaimed.
EligibleWhenReady(j) == jobs[j].status = "READY"

Eligible(j) ==
  \/ jobs[j].status = "READY"
  \/ jobs[j].status = "LEASED" /\ jobs[j].lease = "expired"

SetRunStatus(r, status) == runs' = [runs EXCEPT ![r] = [@ EXCEPT !.status = status]]
SetJobStatus(j, status) == jobs' = [jobs EXCEPT ![j] = [@ EXCEPT !.status = status]]

Leased(row) == [run |-> row.run, status |-> "LEASED", attempts |-> row.attempts + 1,
                lease |-> "running"]

\* Mutant: the run is not told.
LeaseJobOnly(j) ==
  /\ jobs' = [jobs EXCEPT ![j] = Leased(jobs[j])]
  /\ UNCHANGED runs

LeaseJob(j) ==
  /\ jobs' = [jobs EXCEPT ![j] = Leased(jobs[j])]
  /\ SetRunStatus(jobs[j].run, "RUNNING")

ExhaustJob(j) ==
  /\ SetJobStatus(j, "DEAD")
  /\ SetRunStatus(jobs[j].run, "FAILED")

\* completeJob and updateCiRun address the row by id alone: neither looks at
\* the row's present status, its lease or its attempt count.
CompleteJob(j, status) == SetJobStatus(j, status)
UpdateCiRun(r, status) == SetRunStatus(r, status)

(***************************************************************************)
(* The clock, as far as the tables can see it.                             *)
(***************************************************************************)
ExpireLease(j) ==
  /\ jobs[j].status = "LEASED"
  /\ jobs[j].lease = "running"
  /\ jobs' = [jobs EXCEPT ![j] = [@ EXCEPT !.lease = "expired"]]
  /\ UNCHANGED <<deliveries, runs>>

AgeRun(r) ==
  /\ runs[r].recent
  /\ \A q \in 1..(r - 1) : ~runs[q].recent
  /\ runs' = [runs EXCEPT ![r] = [@ EXCEPT !.recent = FALSE]]
  /\ UNCHANGED <<deliveries, jobs>>
=============================================================================
