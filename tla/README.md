# A TLA+ development for Asset-Analyzer (Debrief)

Asset-Analyzer is a TypeScript server (Express, PostgreSQL, optionally BullMQ
on Redis) around a Python analyzer. It analyses repositories and issues
evidence dossiers, keeps a signed chain of receipts per monitored target, runs
a CI feed that analyses commits as GitHub reports them, and charges credits for
all of this. This directory holds TLA+ modules for the parts of it whose
correctness depends on the order in which things happen, the TLC
configurations that check them and TLAPS proofs about them.

    tlc -config CiFeed_workers.cfg MCCiFeed     one check
    tlapm CiFeedProofs.tla                      one module's proofs

Section 1 is the inventory, sections 2 to 6 are the five parts modelled, section 7
says what is left out and section 8 what comes next.

## 1. The system

| Component | State | Operations | What makes it correct |
|---|---|---|---|
| CI intake (`routes.ts` 878–1027) | `webhook_deliveries`, `ci_runs`, `ci_jobs` | webhook, manual enqueue | one run per commit and six hours; every accepted commit has a run, every run one job |
| CI queue and worker (`ci-worker.ts`, `storage.ts` 108–210) | the same tables, the workspaces `${CI_TMP_DIR}/run-<id>` | lease, clone, analyse, settle, clean up | exclusive leases, bounded attempts, ended jobs stay ended, run and job agree, every job ends |
| Receipt chain, analyzer side (`receipt_chain.py`, `analyzer.py` 1438–1506) | `chain_state/<target>/receipts/NNNNNN.json`, `latest_receipt.json` | append an analysis or a gap receipt, verify | consecutive numbers, each receipt names its predecessor's hash, signatures verify |
| Receipt chain, server side (`receiptChainFinalize.ts`, `chain/`) | `receipt_chain`, summary columns of `scheduled_targets` | record a receipt, verify the rows | the rows are the chain; the summary is that of the last row |
| Scheduler (`scheduler.ts`) | cron tasks in memory | tick: gap receipt, then enqueue; catch-up at start | a gap on the chain is a gap; no silence is passed over |
| Analyzer queue and worker (`queue/`) | BullMQ jobs, three attempts, two at a time | process, retry, refund | a job that fails for good is refunded; one that succeeds is not |
| Project analysis (`runProjectAnalysis.ts`) | project status, the project's output directory | spawn, time out, close | one verdict, and the status follows it; a report is the run's own; nothing is left running |
| Credits and billing (`billing/`, `routes/api-v1.ts`) | `users.credits_remaining`, `credit_transactions` | charge, refund, purchase | no update of the balance is lost, it is never negative, the log explains it; a purchase is credited |
| Caches, ingestion, keys, API keys, diffs, evidence bundles, education chain, clients | mostly none, or one row | – | functions of their input |

The parts meet in the database and the file system, never by shared memory:
the webhook handler and the worker through `ci_jobs`; the scheduler and the
target routes with the analyzer worker through BullMQ; the analyzer process
with the server through the run directory and the chain directory; the
verifiers with the writers through the receipts. What is hard in all of them
is the same: statements that belong together run without a transaction,
several invocations of one function overlap in a process that may die between
any two of them, and a later invocation acts on what the earlier one read.
`PROJECT.json` lists these hazards with their lines.

## 2. The CI feed

### How the modules correspond to the code

| Module | What it models |
|---|---|
| `CiStore` | the three tables and the operations `storage.ts` performs on them |
| `CiIntake` | the two routes that put work in; `handler[h]` is a request in flight |
| `CiWorker` | `processOneJob` and `leaseNextJob`; `worker[w]` is one invocation |
| `CiFeed` | all of them together in one process that can die; the properties |
| `JobLifecycle` | the abstract queue of jobs that `ci_jobs` implements |
| `MCCiFeed` | constants and symmetry for TLC |
| `CiFeedProofs`, `CiLifecycleProofs` | the proofs |

Every `await` on the database ends a step, since other requests and
invocations run there; what happens between two awaits is one action.
`leaseNextJob` is two steps, the locking SELECT and the UPDATEs up to COMMIT.
The row lock is modelled: `SKIP LOCKED` passes a locked row over, and the
unfenced `completeJob` of a late worker waits for it. Every statement may fail
(`RequestFails`, `FailLease`, `FailSetup`, `WriteFails`), and where the error
is caught decides what happens next: `scope` in `worker` says whether an
exception would reach the caller, the catch block or only the finally block.
`Crash` ends the whole process; the tables stay and the workspaces may.

Abstracted: a timestamp is what the queries ask of it (is the lease over, is
the run younger than six hours); a commit stands for (owner, repo, sha); the
analyzer, git, the disk and the limits on the repository are free choices of
verdict. The verdict of a run keeps only SUCCEEDED or FAILED. A worker's clone
directory is in `checkouts` while it holds files. Left out because they change
no state: rate limit, signature and header checks that come before the first
statement. One server process is modelled; two processes would differ in that
a crash takes only one of them and the workspaces may not be shared.

### The runs

| Run | Instance | Shows |
|---|---|---|
| `intake` | 3 requests, 2 commits, 3 deliveries (two of one commit, one ignored), ≤ 4 runs, no worker | a run has one job; the recent runs of one commit never outnumber the requests in flight; a commit is lost, or a run left without a job, only by the end of the request that had it, and then for good |
| `workers` | 2 invocations, 2 jobs, 2 attempts | row locks are exclusive and what was read under them is current; attempts are bounded; a run is QUEUED exactly while its job is READY; a job DONE in one lease has a settled run; a tree vanishes only under a job leased twice; ended jobs stay ended; `ci_jobs` implements `JobLifecycle` |
| `liveness` | 3 invocations, 1 job, 2 attempts | every job ends although every clone may hang for good |
| `dead_run`, `retry`, `duplicate` | one or two actors | three places where docs/ARCHITECTURE.md promises what the code does not do |

Bounds. `MaxRuns` closes the intake, counting the requests in flight, so that
no request is cut off half way. Three requests are one more than the race of
two needs; four runs let every request insert one and leave a run to dedup
against. Two invocations and two attempts give every conflict a lease can
have (a lease in force against a locking transaction, a stale worker against
the holder of the second lease, a stale worker against the exhausting
transaction); a second job makes `SKIP LOCKED` and the order by `created_at`
matter. The proofs below hold for all values.

Fairness (`Fairness` in `CiFeed`). The server polls every five seconds and its
statements return, so the steps of leasing and of finishing are weakly fair;
the analyzer is killed by its timeout, so its end is too; time passes, so leases
expire. A lease transaction may fail but not for ever, hence strong fairness of
GRANT-or-REFUSE: without it, rolled-back transactions alternate with retries
for good. Nothing is assumed of git, of requests or of crashes. The number of
invocations that can overlap is bounded in the model and not in the code, so
the run has one more of them than a job has attempts: with fewer, each may
be stuck in a clone and nobody is left to end the job.

Two properties need a comment. `DoneOnceMeansSettled` is limited to jobs
leased once because a second lease can break it: the second invocation
sets the run RUNNING again after the first has written its verdict, and the
first then marks the job DONE; until the second settles it, and for good if it
dies or fails below the last attempt, a DONE job has a RUNNING run.
`WorkLostOnlyInFailure` is an action property: it compares the commits and runs
that are looked after before and after each step, failures included. That a failed
statement or a crash between two inserts loses a commit, or leaves a run without a
job, is what the code does. The property says to whom: only what the request that was
cut off alone had in hand. A crash loses nothing that rests in the tables, and no
failure of one request loses the commit of another. It also says that the loss is final: a run
without a job is given one by nobody, neither replay nor worker, and a lost commit comes back
only with a request, or an unrecorded delivery, of its own.

### What the code does and the documentation does not say

- *dead_run*: the catch block marks the job DEAD at the first exception and
  leaves the run RUNNING below three attempts; ARCHITECTURE.md:122 and :209
  promise three attempts and a FAILED run.
- *retry*: a crash leaves the clone behind, and the next lease fails on
  it; ARCHITECTURE.md:121 and :212 promise that another worker picks the job up.
- *duplicate*: two concurrent deliveries of one commit create two runs;
  ARCHITECTURE.md:91 and :214 promise one.

### What is proved

For all constants with `MaxAttempts > 0`, `DeliverySha` a function from
deliveries to commits or `NoSha`, `NoSha` not a commit, `MaxRuns` a natural
number, `PreserveWorkdir` a Boolean and `Handlers` finite:

- `TypeCorrect`, `OneJobPerRunHolds`, `LockExclusiveHolds`,
  `AttemptsBoundedHolds`, `QueuedIffReadyHolds` (`CiFeedProofs`);
- `DoneOnceMeansSettledHolds`, `TreeLostOnlyToReleaseHolds`, `DuplicatesBoundedHolds`,
  `WorkLostOnlyInFailureHolds` (`CiFeedProofs`);
- `EndedStaysEndedHolds` and `ImplementsLifecycleHolds` (`CiLifecycleProofs`).

None of the first five invariants is inductive alone; their conjunction with two
more, `IInv`, is. `WorkerKnows` says what an invocation past the locking step
knows: its job exists and is no longer READY, which is what keeps an
unconditional `completeJob` from ending a job that was never leased, and so
keeps `QueuedIffReady`. `HandlerKnows` says that the run a handler is about to
give a job exists, is QUEUED and has none. `LockExclusive` carries
that the row under a lock is as the SELECT saw it, from which `AttemptsBounded`
follows at the granting step, since the decision there is made on the value
read. `NextIInv` has a lemma per action. For the lifecycle, `MoveJob`
collects the ways in which a step can change one row; `NextMovesJobs` shows
that every step makes at most one such move, and both theorems follow from
it, the refinement by mapping each move to a step of `JobLifecycle`.

The other four properties rest on two layers above `IInv`, each inductive given it.
`Leases` counts: whoever holds a committed lease finds at least one attempt in the row,
and two who hold leases of one job find at least two (`LeasesCounted`); hence a job of one
attempt has one worker, which wrote the run before it writes DONE (`VerdictFirst`), and
nobody else removes its tree. `Requests` is about the intake. The recent runs of a commit
and the requests about to insert one are together no more than the requests there can
be (`RaceBounded`): a request passes the look-up only when there is no recent run, and an
insert turns a request into a run. `Handlers` has to be finite for this to be a number. `OwnCommit` ties a request
about to create a job to the commit of its run. With that, `WorkLostOnlyInFailure` is read
off each step: `NextMovesRuns` and `NextMovesJobs` say that rows are only added or
moved on, `CareOfRuns` and `CareOfCommits` that care of them changes only with the step
of a request that had them, and a request that ends without a failure leaves its commit with a run.

Only model-checked: `JobsEnd`, as the prover has neither ENABLED nor liveness under fairness.

## 3. The evidence chain of a target

### How the modules correspond to the code

| Module | What it models |
|---|---|
| `ReceiptChain` | the writers of one target's chain: analyses and gap receipts, from the analyzer process to the target's row |
| `ReceiptVerify` | the loop of `verify_chain_for_target` and `verifyChainRowsOrdered` |
| `MCReceiptChain` | symmetry for TLC |
| `ReceiptChainProofs` | the proofs |
| `SnapshotDiff` | the artifacts an analysis leaves, the diff of two runs and the anomaly rules: operators, no state |
| `SnapshotDiffProofs` | theorems about them |
| `EducationPage` | the row a run's page takes for its receipt and the state of each node, with a theorem |

`writer[w]` is one run: the analyzer process and then the server's handling of
what it wrote. The analyzer worker runs two jobs at a time, the scheduler
records gaps from another process, and no lock keeps them apart, so writers
interleave freely. A writer loads `latest_receipt.json` (`LoadLatest`), drafts
and signs its receipt, and writes `receipts/NNNNNN.json` and
`latest_receipt.json`, each in two steps (`OpenNumbered`, `FillNumbered`,
`OpenLatest`, `FillLatest`), as `write_text` truncates before it writes and
another process can read in between. The server then inserts the row
(`InsertRow`) and updates the target (`UpdateTarget`), without a transaction.
`Fail` may end a writer between any two steps: the analyzer is killed by its
timeout or crashes, the server dies, the receipt is not found, an insert violates
the unique hash. A retry by the queue is a run of its own.

Two details of the server matter. An analysis takes its receipt from the run
directory of the project that sorts last (`Found`), which may be that of another
run; and it starts by removing all of the project's run directories
(`StartAnalysis`), which makes another run that is about to write its receipt fail.

Abstracted: a receipt and its hash are both named by the receipt's position in
`issued`; a receipt keeps its number, its link, its kind and the set of fields its
signature covers. That the Python and the Node canonical forms agree is taken as
given. Left out: what is in an analysis, alerts, and the key (signing is on or off for the whole run of
the system). There is one file system, and it keeps what is written.

`SnapshotDiff` translates both sides of one interface: what the analyzer writes into
`dependency_graph.json` and `api_surface.json` (`RunDir`), and what the server reads out of
them (`packageKeys`, `cveList`, `endpoints`), compares and flags. An artifact is a record of the
fields it has, since that is what the interface is about. `EducationPage` does the same for
the join of `runs` with `receipt_chain` behind a run's page. Neither has state, so
there is no run of TLC for them; their theorems hold of all inputs.

### The runs

| Run | Instance | Shows |
|---|---|---|
| `chain` | 2 writers, unsigned; 5 receipts, or 3 once two runs have overlapped | files are a chain unless the chain forked; the head shown has its row; both verifiers accept exactly the lines of descent; while no two runs overlap, and whatever is killed, files are a chain, receipts with a row are kept and the length grows, unless the chain was restarted |
| `chain_signed` | 1 writer, signed | a chain that links up does not verify |

What the properties say is weaker than "the files are a chain", because that
is false: two writers that load the same latest receipt issue the same number on
top of it, and a writer killed between truncating and filling
`latest_receipt.json` makes the next one start again from 0. No document promises
otherwise, so these are no findings. The properties say that nothing else goes wrong:
`FilesLinkedUnlessForked` reduces every harm overlap, death and torn files can do
to two receipts on top of one (or of none). `RowsKeptUnlessRestarted` and
`LengthNeverShrinks` are about runs that do not overlap: an overlapping one may finish
late, with the receipt of another, and lower the length. `overlapped` is a history variable that
remembers whether two runs were ever in progress at once.

`VerifierExact` says which of this damage verification reports. What is on disk, or in
the table, is reported intact exactly if it is a line of descent: every receipt with its predecessor, back to one without, and no
two after the same. So the verifiers report a fork of which both sides are left, and a receipt missing below another,
whatever numbers overlapping and dying writers gave. They do *not* report a fork of which
one side was overwritten (two writers issue number 5 on receipt 4, the second overwrites `000005.json`, and
what is left is a line of descent), nor a chain of receipt 0 alone that began anew over it, nor that the last receipts or the last rows are missing. There is
no property that says a fork is found, because it need not be.

Bounds. Two overlapping writers are the least that fork, and three receipts give a
fork, a link to the overwritten receipt and one of each kind (`MaxOverlap`). Without an overlap it takes
five (`MaxReceipts`): a chain of two, a run killed after its numbered file, the run that
reuses its number, and one more on top. A third writer adds a third text
in one file (`Torn`); the proofs hold for any number. `CHECK_DEADLOCK FALSE`
because no run starts at the bound; nothing waits in this component.

### What the code does and the documentation does not say

- *chain_signed*: a receipt is signed before `signed` (and, for an analysis,
  `signing_key_fingerprint`) is added to it, and verified with them. With a key
  configured, `verify-chain` reports a broken signature at receipt 0 of every
  chain; DEMO_SCRIPT.md:14 lists clean output as a check.
- `dependency_graph.json` has a field `dependencies` (`dependency_graph.py`:450), and the diff
  reads `packages` (`diffSummarizer.ts`:32). No diff ever has a dependency or a vulnerability
  in it, and the first and third anomaly rules cannot fire, although `buildKeyStatuses.ts`:63 names
  "new CVEs" first among the anomalies (`DependenciesUnseen`, `AlarmExactlyOnOpening`). The
  test (`receipt-chain.test.ts`:148) gives `detectAnomalies` a diff of its own making.
- The directory compared with is gone as a rule (`BaseIsGone` in section 4), and without it nothing
  is flagged and every route is new (`NoBaseNoAlarm`).
- A run's page looks for a row whose `runId` is the number of the run
  (`educationChainModel.ts`:75), while rows hold the analyzer's name of it
  (`receiptChainFinalize.ts`:93). It never finds one, and never shows "anomaly", "gap" or a
  stored receipt (`NothingTold`), which `evidenceChainModel.ts`:536 promises in words. The test uses "12" for both.

For the last three there are theorems in place of a counterexample: the behaviour is that of
every input, not of a trace.

### What is proved

For all constants with `Signing` a Boolean (`ReceiptChainProofs`):

- for any number of overlapping writers, `TypeCorrect`, `FilesStayLinked`,
  `HeadAlwaysHasRow` and `VerifierExactHolds`;
- as long as no two of them have overlapped, `FilesLinkedAlone`, `RowsKeptAlone` and
  `LengthNeverShrinksAlone`.

`FilesLinkedUnlessForked` is far
from inductive: it speaks of files, and a link goes to whatever a writer read
earlier. The inductive invariant `IInv` adds what connects them. `Known` are the
receipts a link goes to or may still go to: the latest, those a writer has loaded,
those linked to, and those about to become the latest. `KnownInFile` says that
each is in the file of its number unless the chain forked. It survives a
truncation because in an unforked chain all numbers are distinct
(`NumbersDistinct`, which follows for a new receipt from the distinctness of links,
by `NumbersFollowLinks`), so the number a writer opens is no other receipt's.
`HeldUnknown` says that nobody knows a receipt before its writer fills
`latest_receipt.json`, and `OpenIsEmpty` that in an unforked chain no second text is
in the file a writer has open. There is one lemma per action; `Quiet` covers those
that leave receipts and files alone.

For the operators beside the chain, `SnapshotDiffProofs` and `EducationPage` prove the four theorems
named above, for all artifacts in `RunDir` and all pages in `View`. The map of endpoints keeps the
last entry of a route; that there is a last one (`Highest`) follows from the
pigeonhole theorem of the library, in place of an induction. `NothingTold` assumes that the numbers
of runs and the names in receipts are disjoint, which their formats make them.

The last three are theorems of `Spec` like the others, with `~overlapped` in the property; once two
runs have overlapped each of the three can fail. Their invariant is `Solo`: until then, one
run at most is in progress and `SInv` holds, which is inductive on top of `IInv`: unless the chain was restarted, what `Serial` says holds. The ground of a chain is the receipts
with a row and those that others link to; each stays in its file (`GroundInFile`), below the
latest and below any number that is being written (`GroundBelow`), so that a
reused number is never one of the ground. `Knows` is what a writer alone may conclude from its position, and `LatestLost` says
that a latest receipt that is missing once there are rows leads to a restart.

The verifiers sort. `InOrder` is some ascending order of the receipts and leaves that
of equal numbers open, as nothing in the source tells which file of equal numbers comes first. That there is such an order
(`SortExists`) needs an induction over finite sets. The induction theorems of the library cannot be
used here, as they take an operator; but a statement about every subset of a set is a *set* of subsets, and that a
nonempty set of finite sets has a smallest member follows from the well-foundedness of strict inclusion
(`SubsetInduction`). `IntactMeansLinked` is the rest: if all checks pass, numbers and
places agree, so that links do; and if the receipts are a chain, the one in place `k` has number `k - 1`, for below the first
that had not there would be another. `LineIsLinked` goes from `Linked`, which speaks of numbers, to the line of
descent, which does not: numbers follow links, so a line has each of them once.
`Unsigned` disposes of the signatures.
No safety property of this section is left to TLC alone; there is no liveness in it.

## 4. The analysis of a project

### How the modules correspond to the code

| Module | What it models |
|---|---|
| `ProjectAnalysis` | `runProjectAnalysis`, `applyAnalyzerCacheHit` and the processor of the analyzer worker around them, for one project |
| `MCProjectAnalysis` | constants for TLC |
| `ProjectAnalysisProofs` | the proofs |

An invocation `r` is a thread of control, `pc[r]`, with two helpers: the child
process (`child[r]`) and the timer (`timer[r]`), which act between any two steps of
it. Each `await` ends a step, and each step has its failure: an error may leave
the function before the try block (`"early"`), be logged and passed over (a cache
hit inside the function), go to `finishOnce("failed")` (`SaveError`), or be lost with the write of
the verdict (`"unwritten"`). The handlers of `error` and `close` are one step up to
their first `await`, so `Close` sets the flag of `finishOnce` (`verdict[r] # "none"`) and `Decide`
writes the status. What invocations share is as in the code: the status of the
project, the table `runs`, and `out/<id>/runs`, which every start deletes and in which the
directory that sorts last is taken for the run's own.

`Queued` invocations are those of the analyzer worker: they ingest first,
look into the cache before they call the function, and await progress
reports. The others run in the API process. A crash takes one of the two
processes; a child outlives it.

Abstracted: a run directory is absent, partial or complete; a row of `runs` keeps its
run, its directory and whether all artifacts were read, 0 standing for the
directory of a cached run. The metrics, the contents of reports and the cache's
expiry are left out, and storing into the cache, whose errors are caught, is part of `SaveRun`.

### The run

| Run | Instance | Shows |
|---|---|---|
| `analysis` | one invocation of each kind | a report is the run's own unless another overlapped it; rows and status follow the verdict; verdicts are final; what an invocation leaves running; every child is decided and every invocation ends |

Two overlapping invocations are enough for each hazard of the shared directory, and of
a late write or a surviving child under the next start. `apart` names the
invocations that nothing overlapped, a child or a write left behind by an ended one
included, so `ReportsOwnUnlessOverlapped` and `LastRunTells` say of a quiet
project what no interleaving within one invocation may break. `CHECK_DEADLOCK FALSE`: two
invocations, and then nothing.

Each property states the exceptions the code really has, and no others:

- `StatusSettles`: the project stays "analyzing" only if an invocation
  failed between its status write and its try block, lost the write of its
  verdict (`finishOnce` raises its flag first, so no later path repairs it), or died.
- `CheckoutFollowsChild`: the checkout vanishes under a live child only when the first
  progress report fails or a half-applied cache hit has released it.
- `RowsFollowVerdict`: a failed run may have a row only through a half-applied cache hit;
  a completed one has exactly one of its own.
- `EveryRunEnds`: an invocation hangs only if its child's exit came before the listeners,
  or if a half-applied hit had decided it, since the timer then does nothing and the child may run for ever.

Fairness: one weak fairness condition on all the code's steps. The event loops run,
statements return or fail, timers fire. Every invocation has finitely many steps,
so none can starve another and a single condition is enough. Nothing is
assumed of the child or of crashes. `Uncaught` is in it: an error event that
finds no listener is thrown at once.

### What the code does and the documentation does not say

- The listeners of the child are attached after the first progress report has
  been awaited (`runProjectAnalysis.ts`:257). A child that exits within that report is
  never heard: the invocation waits for ever, although the timer decides it as failed.
- The run a receipt is compared with (`receiptChainFinalize.ts`:81) has lost its
  directory to the start of the run it is compared with, unless the row came from the
  cache and points elsewhere. `diffs` records what is there, and `BaseIsGone` says that of
  every run that nothing overlapped. Section 3 says what comes of comparing with nothing.
- An ingest that fails after making its directory leaves it behind (`IngestFails`), and so does a
  queued job that fails before `runProjectAnalysis`: only the end of the process, if it is orderly, sweeps them.
- `readFile(...).catch(() => "")` reads a deleted artifact as an empty one; the row is
  inserted, the run completes, and the cache repeats it for a day.

No document promises otherwise, so none of these is a finding.

One handler is left out: on SIGTERM, `cleanup-registry.ts`:15 deletes the checkouts of all
invocations and exits, while the entry point of the worker waits for its jobs. The model has the crash
that this amounts to, and not the child that runs on over a deleted checkout.

### What is proved

From `RunsAssumption` (the invocations are finitely many, the queued ones among them,
and `"earlier"`, which names the run of a row that was there before, is none of them): `TypeCorrect`,
`VerdictFinalHolds`, `CheckoutFollowsChildHolds`, `StatusSettlesHolds`, `RowsFollowVerdictHolds`,
`LastRunTellsHolds`, `ReportsOwnHolds` and `BaseIsGoneHolds` (`ProjectAnalysisProofs`).

`Core` is inductive by itself. It says, for each position of an invocation, what its
verdict, timer, child, saved rows and checkout can be (`Place`, `Holds`), and it is enough for the verdicts and
the checkouts. Two lemmas share the work: `OwnHolds` shows that an invocation, its
child and its timer respect it, and `OthersStay` that they touch nothing of another. The other properties relate
several invocations, and each has a layer:

| Layer | What it says | Property |
|---|---|---|
| `Owed` | while the status is "analyzing", somebody has yet to write it, or has failed to | `StatusSettles` |
| `RowsKept` | the rows of an invocation against its position and verdict | `RowsFollowVerdict` |
| `ApartAlone`, `LatestTells` | an invocation that nothing has overlapped is alone while it is busy, and the status is its own | `LastRunTells` |
| `DirsKnown` | a cleared `out` holds no directory but one's own | `ReportsOwnUnlessOverlapped` |
| `Made`, `NewestRow`, `BaseKnown` | who made each directory that is seen, taken or recorded; that the newest row is the run's own; hence whose the base is | `BaseIsGone` |

The attempt to prove `BaseIsGone` found it misstated. It used to say that a base that is still there was
made by the invocation that the row names. With three invocations this is false: two that overlap may
leave a row of one with the directory of the other. TLC confirmed it in a trace of 46 states, and no
run with two invocations could have shown it. The property now says what the code has: the directory has the name
of the run's own, and a run other than it made one of that name.

Only model-checked: `EverySpawnDecided` and `EveryRunEnds`, which are liveness.

## 5. Credits

### How the modules correspond to the code

| Module | What it models |
|---|---|
| `Billing` | `checkCredits`, `refundCredits`, `handleStripeWebhook`, the route and the worker events that call them |
| `Ledger` | the abstract ledger: every charge, refund and purchase one indivisible change of the balance |
| `MCBilling` | prices and the pack for TLC |
| `BillingProofs` | the proofs |

One user's balance, and the sum of the log. `request[r]` is a call of POST
/api/v1/analyze: the conditional UPDATE (`Charge` or `Refuse`), the INSERT
(`LogUse`), and the job (`Enqueue`), any of which may fail after the charge (`Drop`),
as does the request when there is no queue. `job[r]` is its BullMQ job: it waits, is active, is retried
after a failure, and waits again once if its worker died on it. Every failed attempt raises
the event, and every event is a refund (`owed`, then `unlogged` between its two
statements). `event[p]` is Stripe's event for a purchase, which is delivered
until it is acknowledged, and perhaps again after that. API and worker die separately, and what they had in
hand is gone. BullMQ and Stripe are external and modelled from how the code uses them.

`active` is BILLING_ACTIVE, which may be switched on by a deployment between a request
that was not charged and the failure of its job; the job is refunded all the same.

### The run

| Run | Instance | Shows |
|---|---|---|
| `credits` | requests of 1 and 5 credits, a balance of 5, a pack of 10, 2 attempts, 2 deliveries | no update of the balance is lost and it is never negative; the log explains it but for rows lost to errors; purchases are credited; what must happen in the end |
| `refund_retry` | the same | a job that succeeds on its second attempt has been refunded |

The balance covers either request and not both, until a refund or the pack
arrives, so that charges compete. `ImplementsLedger` is the refinement: the statements of all
requests, refunds and deliveries, interleaved and cut off anywhere, change the balance as the ledger does. Two attempts (three in the code) are enough for
a job to be refunded and then succeed, and to be refunded twice; two deliveries
for an event to be credited twice, and to be credited after a failed lookup. `CHECK_DEADLOCK FALSE`:
everything here ends.

Fairness: one weak condition on what the code, the queue and Stripe will do if
left alone. Ending a job, sending a request and dying are not in it. All of it
is finite, so that nothing in the union can starve the rest.

What the properties permit, because the code does it: `PurchaseAccounted` allows an event to be credited once per delivery, as
there is no record of the events handled; the ledger allows a refund per failed attempt, charged or not; and
`LogExplainsBalance` excuses a row whose INSERT was lost, saying only that balance and log differ in no other way.

### What the code does and the documentation does not say

- *refund_retry*: docs/CONTEXT.md:106 says "Deduct on enqueue, refund on hard failure". The worker's failed event comes after each
  attempt, and its handler (`analyzer-worker.ts`:143) refunds the whole cost each time. A job that
  fails and then succeeds is refunded although its result was delivered; one that fails for good is
  refunded once per attempt; one that was queued while BILLING_ACTIVE was off is refunded a charge it never had once it is on.
- The charge precedes the check that a queue exists (`api-v1.ts`:66): an answer of 503 keeps it. No document says otherwise.

### What is proved

From `BillingAssumption` (requests and purchases are finitely many, prices and packs positive, the balance,
the deliveries and at least one attempt natural numbers): `TypeCorrect`,
`PurchaseAccountedHolds`, `ImplementsLedgerHolds`, `BalanceExactHolds` and
`LogExplainsBalanceHolds` (`BillingProofs`). The inductive invariant is `TypeOK` and three others.
`JobKnows` ties a job's state to the attempts that failed, `RefundKnows` says
that a refund is due or done only for those, and `EventKnows` what a delivery in
progress implies of the deliveries before it. The refinement needs them for the bounds: a
refund of the code is a step of the ledger because fewer than `Attempts` refunds came before it, which is a
fact about the job and not about the balance.

`BalanceExact` and `LogExplainsBalance` speak of sums over all requests and purchases. The
first half of that proof is about sums: `SumsExist` shows by an induction over a set of subsets, as in section 3,
that the fold the community modules define sums by exists on every finite set, whence a sum splits
(`SumSplits`) and changes by what one summand changes (`SumChanges`). The second half is `Books`, both equations in
these terms, which is inductive given `IInv`: each step moves one summand and the balance or the log by
the same amount, and a death that empties `unlogged` or drops a row records it in `lost`.

Only model-checked: `FailureRefunded` and `PurchaseSettles`, which are liveness.

## 6. The schedule of a target

### How the modules correspond to the code

| Module | What it models |
|---|---|
| `Schedule` | `scheduler.ts`, the routes that write `scheduled_targets`, and the times that the finalizers record |
| `MCSchedule` | intervals and symmetry for TLC |
| `ScheduleProofs` | the proofs |

`ReceiptChain` says what a receipt does to the chain, whenever a run starts;
`Schedule` says when runs start and what time their receipts cover. The clock is discrete, one
tick for each time at which a cron may fire, and statements take no time, while a
record-gap child, a queue and an analysis may take any. A server process has
crons for the interval the target had when it started (`cron[p]`); the callback reads
the row again, finds a silence of more than 1.5 intervals since `lastRunAt`, records it
(`RecordGap`, `InsertGap`, `UpdateGap`) and queues an analysis. Processes start, stop and
overlap; `Patch` and `Delete` change the row under all of them.

### The run

| Run | Instance | Shows |
|---|---|---|
| `schedule` | 2 processes, 2 callbacks, 1 job, a period of 1 and one of 2, 4 times, 3 receipts | a gap and another receipt, each made alone, do not overlap; a tick passes over no silence |

Four times let a silence of both periods arise, be recorded, and a second one begin;
three receipts are an analysis, a gap and another gap. Two processes are the
least that tick at once. "Weekly" is a period of 2, which differs from 1 in when it
fires and in what it calls silence, and nothing else matters. Deadlock is checked: processes can always
start and stop.

`GapsAreSilent` is about the receipts in `sound`: those that met no other in the making, from the tick that
computed the gap or the writing of the analysis to their `lastRunAt` (`solo`). Two receipts in the making at once
may cover each other, since a gap is taken from a `lastRunAt` that the other is about to change; the code
does not prevent it, and the property does not say that it does. It says that the harm stays with them: whatever overlapped, failed or
was cut off before or between them leaves two sound receipts apart, as a late finalizer never sets `lastRunAt` back
behind a sound one. `SilenceAccounted` excludes a failed record-gap, after which the tick goes on.

### What the code does and the documentation does not say

- A catch-up at start (`scheduler.ts`:178) queues an analysis over a silence without
  recording it; RUNBOOK.md:44-52 lists gap receipts and catch-up beside each other.
- A target that is resumed after a pause gets a gap receipt for the pause.
- A target created or activated while the server runs has no cron until a restart.

### What is proved

From `ScheduleAssumption`, for any number of processes, ticks and jobs and any
horizon: `TypeCorrect`, `GapsAreSilentHolds` and `SilenceAccountedHolds`
(`ScheduleProofs`). All three are conjuncts of one inductive invariant, with three more.
`Sane` bounds every time held anywhere by the clock. `RowKnows` ties `lastRunAt` to the rows:
it is the time of one of them. `Silence` carries the argument. While `solo` holds at most one receipt is in the making
(`Alone`). Behind every sound receipt, `lastRunAt` is not before its end, and whatever is in the
making, alone or not, begins no earlier (`Behind`): a gap begins at `lastRunAt`, an analysis at the time it is
written, and either sets `lastRunAt` to its own end. `FinishedSilence` has the one case that counts, a receipt that reaches
`lastRunAt`; `QuietOrder` covers all steps that finish nothing.

## 7. What is not modelled and why

- *Two machines*: `render.yaml` runs server and worker as separate services without a
  shared disk. Each then has a chain directory of its own; the model has one.
- *BullMQ, Stripe, Express, node-cron, the database*: external; what the code relies
  on is in the actions marked so in `PROJECT.json`.
- *Caches*: what a hit contains, its expiry, and the hashing, a function of the input.
- *Analyzer core, what ingestion fetches, evidence bundles, the diffs of dossiers and packs, drift,
  coverage, redaction*: functions of files or documents, without
  interleaving. They are most of the repository's lines, and a state machine of them
  would have one step. Of the analyzer, `SnapshotDiff` has the two artifacts that the
  server compares.
- *API keys, accounts, rate limiters, target and project routes that read*: single-row
  reads and writes, or one counter in one process.
- *Progress broadcast, alerts, web client, desktop shell, extension, scripts*: output
  that nothing reads back.

## 8. Plan

Done: the five parts above, with the diff and the page beside the chain. Every invariant and every
action property that a passing run checks is a theorem, and so are the two refinements. The liveness
properties (`JobsEnd`, `EverySpawnDecided`, `EveryRunEnds`, `FailureRefunded`, `PurchaseSettles`) stay
with TLC: the prover has neither ENABLED nor liveness under fairness. What is left:

1. An abstract specification of the receipt chain, an append-only list that may fork or restart, and the
   proof that `ReceiptChain` implements it.
2. An abstract specification of an analysis, one start and one verdict per invocation, implemented by `ProjectAnalysis`.
3. The weekly and the daily schedule with a queued catch-up over a silence, for which no property is stated.
