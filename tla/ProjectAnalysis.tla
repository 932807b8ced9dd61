-------------------------- MODULE ProjectAnalysis --------------------------
(***************************************************************************)
(* runProjectAnalysis of server/runProjectAnalysis.ts, for one project.    *)
(* Several invocations can be in flight at once: routes.ts starts one per  *)
(* request and waits for none, the analyzer worker of queue/ runs two jobs *)
(* at a time and retries a failed one, and the target routes add theirs.   *)
(* They share the project's status, its rows and the directory out/<id>,   *)
(* which every start deletes; each has a child process, a ten-minute timer *)
(* and a checkout of its own.                                              *)
(*                                                                         *)
(* An invocation is one thread of control (pc) with two helpers that run   *)
(* beside it, the child and the timer.  Every await ends a step; what the  *)
(* handlers of the child's events do before their first await is part of   *)
(* the event.                                                              *)
(***************************************************************************)
EXTENDS Naturals, Sequences, FiniteSets

CONSTANTS
  Runs,     \* invocations for the project, retries of a job included
  Queued    \* those the analyzer worker makes, with their ingest and their
            \* progress reports; the others run inside the API process

ASSUME RunsAssumption ==
  /\ IsFiniteSet(Runs)
  /\ Queued \subseteq Runs
  /\ "earlier" \notin Runs

VARIABLES
  status,   \* projects.status
  out,      \* out/<id>/runs: the state of every run directory, by its name
  table,    \* rows of runs, oldest first
  diffs,    \* the comparisons receiptChainFinalize.ts has made
  pc,       \* where each invocation stands
  verdict,  \* what finishOnce was called with; "none" while finished is false
  timer,    \* the timeout, and the status write it or the error event began
  child,    \* the analyzer process
  own,      \* the run directory the child made, 0 before that
  found,    \* the run directory the invocation took for its own
  saved,    \* rows of analyses it inserted
  temp,     \* its checkout
  apart,    \* history: invocations no other one has overlapped
  latest    \* history: the one begun last

shared == <<status, out, table, diffs>>
local == <<pc, verdict, timer, child, own, found, saved, temp>>
history == <<apart, latest>>
vars == <<shared, local, history>>

\* Directories are numbered in the order of their names.  The first is that
\* of the analysis before all of these, whose receipt is on the chain.
Names == 1..(1 + Cardinality(Runs))
Content == {"absent", "partial", "complete"}

\* The ways an invocation ends: with a result, with an error after a verdict,
\* with an error because the write of the verdict failed, before the try
\* block, because its first progress report failed, and with its process.
Ended == {"returned", "failed", "unwritten", "early", "unreported", "dead"}
Steps ==
  {"ingest", "lookup", "mark", "clear", "applyRow", "applyRun", "applyStatus",
   "applyVerdict", "launch", "noPython", "report20", "wait", "collect", "read",
   "saveRow", "saveRun", "decide", "report95", "reportHit", "finalize"}

TypeOK ==
  /\ status \in {"analyzing", "completed", "failed"}
  /\ out \in [Names -> Content]
  /\ table \in Seq([run: Runs \cup {"earlier"}, dir: {0} \cup Names, whole: BOOLEAN])
  /\ diffs \subseteq [run: Runs, with: Runs \cup {"earlier"}, base: Content \cup {"elsewhere"}]
  /\ pc \in [Runs -> {"idle"} \cup Steps \cup Ended]
  /\ verdict \in [Runs -> {"none", "completed", "failed"}]
  /\ timer \in [Runs -> {"off", "armed", "writing", "wrote"}]
  /\ child \in [Runs -> {"none", "unspawned", "running", "wrote", "done", "bad", "closed"}]
  /\ own \in [Runs -> {0} \cup Names]
  /\ found \in [Runs -> [dir: {0} \cup Names, whole: BOOLEAN]]
  /\ saved \in [Runs -> 0..2]
  /\ temp \in [Runs -> {"none", "held", "released"}]
  /\ apart \subseteq Runs
  /\ latest \in Runs \cup {"none"}

Init ==
  /\ status = "completed"
  /\ out = [n \in Names |-> IF n = 1 THEN "complete" ELSE "absent"]
  /\ table = <<[run |-> "earlier", dir |-> 1, whole |-> TRUE]>>
  /\ diffs = {}
  /\ pc = [r \in Runs |-> "idle"]
  /\ verdict = [r \in Runs |-> "none"]
  /\ timer = [r \in Runs |-> "off"]
  /\ child = [r \in Runs |-> "none"]
  /\ own = [r \in Runs |-> 0]
  /\ found = [r \in Runs |-> [dir |-> 0, whole |-> FALSE]]
  /\ saved = [r \in Runs |-> 0]
  /\ temp = [r \in Runs |-> "none"]
  /\ apart = Runs
  /\ latest = "none"

Alive(r) == child[r] \in {"running", "wrote"}
InFlight(r) == pc[r] \in Steps
Pending(r) == InFlight(r) \/ timer[r] \in {"armed", "writing"}
Busy(r) == Pending(r) \/ Alive(r)

At(r, from, to) == pc[r] = from /\ pc' = [pc EXCEPT ![r] = to]
Hold(r) == temp' = [temp EXCEPT ![r] = "held"]
Release(r) == temp' = [temp EXCEPT ![r] = "released"]

(***************************************************************************)
(* The worker's processor before runProjectAnalysis, and the start         *)
(***************************************************************************)
\* A request has ingested the source already; a queued job does it first.
\* What an earlier invocation left behind (a child, an armed timer, a write
\* nobody awaits) overlaps this one as much as one in flight.
Begin(r) ==
  /\ pc[r] = "idle"
  /\ IF r \in Queued
     THEN At(r, "idle", "ingest") /\ UNCHANGED temp
     ELSE At(r, "idle", "mark") /\ Hold(r)
  /\ latest' = r
  /\ LET busy == {q \in Runs : Busy(q)}
     IN  apart' = IF busy = {} THEN apart ELSE apart \ ({r} \cup busy)
  /\ UNCHANGED <<shared, verdict, timer, child, own, found, saved>>

Ingest(r) ==
  /\ At(r, "ingest", "lookup") /\ Hold(r)
  /\ UNCHANGED <<shared, verdict, timer, child, own, found, saved>>

\* ingest makes its directory first; when what goes into it cannot be cloned,
\* unpacked or written, nobody disposes of it.
IngestFails(r) ==
  /\ At(r, "ingest", "early")
  /\ Hold(r) \/ UNCHANGED temp
  /\ UNCHANGED <<shared, verdict, timer, child, own, found, saved>>

\* The content hash is looked up; an error here leaves the checkout behind.
Lookup(r) ==
  /\ \E to \in {"applyRow", "mark", "early"} : At(r, "lookup", to)
  /\ UNCHANGED <<shared, verdict, timer, child, own, found, saved, temp>>

Mark(r) ==
  /\ \/ At(r, "mark", "clear") /\ status' = "analyzing"
     \/ At(r, "mark", "early") /\ UNCHANGED status
  /\ UNCHANGED <<out, table, diffs, verdict, timer, child, own, found, saved, temp>>

\* fs.rm of the whole output directory; a file the other child makes at the
\* wrong moment lets it fail half-way.  An inline invocation then looks into
\* the cache.
Clear(r) ==
  /\ \/ /\ \E to \in {"launch"} \cup (IF r \in Queued THEN {} ELSE {"applyRow"}) :
             At(r, "clear", to)
        /\ out' = [n \in Names |-> "absent"]
     \/ /\ At(r, "clear", "early")
        /\ out' \in {out, [n \in Names |-> "absent"]}
  /\ UNCHANGED <<status, table, diffs, verdict, timer, child, own, found, saved, temp>>

(***************************************************************************)
(* applyAnalyzerCacheHit.  Inside an inline invocation its errors are      *)
(* logged and the analysis goes on as if there had been no hit.            *)
(***************************************************************************)
\* Mutant: an inline hit is tried again.
HitRetried(r, step) ==
  /\ At(r, step, IF r \in Queued THEN "early" ELSE "applyRow")
  /\ UNCHANGED <<shared, verdict, timer, child, own, found, saved, temp>>

HitFails(r, step) ==
  /\ At(r, step, IF r \in Queued THEN "early" ELSE "launch")
  /\ UNCHANGED <<shared, verdict, timer, child, own, found, saved, temp>>

ApplyRow(r) ==
  \/ /\ At(r, "applyRow", "applyRun")
     /\ saved' = [saved EXCEPT ![r] = @ + 1]
     /\ UNCHANGED <<shared, verdict, timer, child, own, found, temp>>
  \/ HitFails(r, "applyRow")

\* A hit's report is what the analysis that filled the cache had read, and its
\* run directory that analysis's: 0 here, as it may be of another project.
ApplyRun(r) ==
  \/ /\ At(r, "applyRun", "applyStatus")
     /\ table' = Append(table, [run |-> r, dir |-> 0, whole |-> FALSE])
     /\ UNCHANGED <<status, out, diffs, verdict, timer, child, own, found, saved, temp>>
  \/ HitFails(r, "applyRun")

ApplyStatus(r) ==
  \/ /\ status' = "completed"
     /\ Release(r)
     /\ IF r \in Queued
        THEN At(r, "applyStatus", "reportHit") /\ UNCHANGED verdict
        ELSE /\ At(r, "applyStatus", "applyVerdict")
             /\ verdict' = [verdict EXCEPT ![r] = "completed"]
     /\ UNCHANGED <<out, table, diffs, timer, child, own, found, saved>>
  \/ HitFails(r, "applyStatus")

\* finishOnce after a hit: the flag is up before the write can fail.
ApplyVerdict(r) ==
  /\ \/ At(r, "applyVerdict", "returned") /\ status' = "completed"
     \/ At(r, "applyVerdict", "launch") /\ UNCHANGED status
  /\ UNCHANGED <<out, table, diffs, verdict, timer, child, own, found, saved, temp>>

ReportHit(r) ==
  /\ \E to \in {"returned", "failed"} : At(r, "reportHit", to)
  /\ UNCHANGED <<shared, verdict, timer, child, own, found, saved, temp>>

(***************************************************************************)
(* The child and the timer                                                 *)
(***************************************************************************)
\* finishOnce("failed", "python_not_found"), or the child and its timer.
Launch(r) ==
  \/ /\ IF verdict[r] = "none"
        THEN /\ At(r, "launch", "noPython")
             /\ verdict' = [verdict EXCEPT ![r] = "failed"]
             /\ UNCHANGED temp
        ELSE At(r, "launch", "failed") /\ Release(r) /\ UNCHANGED verdict
     /\ UNCHANGED <<shared, timer, child, own, found, saved>>
  \/ /\ At(r, "launch", IF r \in Queued THEN "report20" ELSE "wait")
     /\ \E c \in {"running", "unspawned"} : child' = [child EXCEPT ![r] = c]
     /\ timer' = [timer EXCEPT ![r] = "armed"]
     /\ UNCHANGED <<shared, verdict, own, found, saved, temp>>

NoPython(r) ==
  /\ \/ At(r, "noPython", "failed") /\ status' = "failed" /\ Release(r)
     \/ At(r, "noPython", "early") /\ UNCHANGED <<status, temp>>
  /\ UNCHANGED <<out, table, diffs, verdict, timer, child, own, found, saved>>

\* analyzer.py names the directory by the second and the commit, so two
\* children started within a second share one.
MakeDirectory(r) ==
  /\ child[r] = "running" /\ own[r] = 0
  /\ LET made == {own[q] : q \in Runs} \cup {1}
     IN  \E n \in Names \ {1} :
           /\ \A m \in made : m <= n
           /\ n \in made \/ n - 1 \in made
           /\ own' = [own EXCEPT ![r] = n]
           /\ out' = [out EXCEPT ![n] = IF @ = "absent" THEN "partial" ELSE @]
  /\ UNCHANGED <<status, table, diffs, pc, verdict, timer, child, found, saved, temp>>

\* Nothing is written into a directory that has been deleted.
WriteArtifacts(r) ==
  /\ child[r] = "running" /\ own[r] # 0
  /\ out[own[r]] # "absent"
  /\ out' = [out EXCEPT ![own[r]] = "complete"]
  /\ child' = [child EXCEPT ![r] = "wrote"]
  /\ UNCHANGED <<status, table, diffs, pc, verdict, timer, own, found, saved, temp>>

Exit(r) ==
  /\ \/ child[r] = "wrote" /\ child' = [child EXCEPT ![r] = "done"]
     \/ Alive(r) /\ child' = [child EXCEPT ![r] = "bad"]
  /\ UNCHANGED <<shared, pc, verdict, timer, own, found, saved, temp>>

\* Mutant: the timeout does not kill the child.
TimeOutSparing(r) ==
  /\ timer[r] = "armed"
  /\ IF verdict[r] = "none"
     THEN /\ verdict' = [verdict EXCEPT ![r] = "failed"]
          /\ timer' = [timer EXCEPT ![r] = "writing"]
     ELSE timer' = [timer EXCEPT ![r] = "off"] /\ UNCHANGED verdict
  /\ UNCHANGED <<shared, pc, child, own, found, saved, temp>>

\* Mutant: the timeout raises the flag and writes no status.
TimeOutSilent(r) ==
  /\ timer[r] = "armed"
  /\ timer' = [timer EXCEPT ![r] = "off"]
  /\ IF verdict[r] = "none"
     THEN /\ verdict' = [verdict EXCEPT ![r] = "failed"]
          /\ child' = [child EXCEPT ![r] = IF Alive(r) THEN "bad" ELSE @]
     ELSE UNCHANGED <<verdict, child>>
  /\ UNCHANGED <<shared, pc, own, found, saved, temp>>

\* The timeout kills the child and begins a status write nobody awaits.
TimeOut(r) ==
  /\ timer[r] = "armed"
  /\ IF verdict[r] = "none"
     THEN /\ verdict' = [verdict EXCEPT ![r] = "failed"]
          /\ timer' = [timer EXCEPT ![r] = "writing"]
          /\ child' = [child EXCEPT ![r] = IF Alive(r) THEN "bad" ELSE @]
     ELSE timer' = [timer EXCEPT ![r] = "off"] /\ UNCHANGED <<verdict, child>>
  /\ UNCHANGED <<shared, pc, own, found, saved, temp>>

\* Its failure, an unhandled rejection, ends the process: Crash.
LateWrite(r) ==
  /\ timer[r] = "writing"
  /\ timer' = [timer EXCEPT ![r] = "wrote"]
  /\ status' = "failed"
  /\ UNCHANGED <<out, table, diffs, pc, verdict, child, own, found, saved, temp>>

\* clearTimeout, which does not recall a write already begun.
Disarm(r) == timer' = [timer EXCEPT ![r] = IF @ = "armed" THEN "off" ELSE @]

\* The error event: finishOnce and a write nobody awaits; close follows.
SpawnError(r) ==
  /\ pc[r] = "wait" /\ child[r] = "unspawned"
  /\ child' = [child EXCEPT ![r] = "bad"]
  /\ IF verdict[r] = "none"
     THEN /\ verdict' = [verdict EXCEPT ![r] = "failed"]
          /\ timer' = [timer EXCEPT ![r] = "writing"]
     ELSE Disarm(r) /\ UNCHANGED verdict
  /\ UNCHANGED <<shared, pc, own, found, saved, temp>>

(***************************************************************************)
(* The try block                                                           *)
(***************************************************************************)
\* Mutant: a failed report disarms the timer and leaves the child to itself.
Report20Disarming(r) ==
  /\ child[r] # "unspawned"
  /\ \/ At(r, "report20", "wait") /\ UNCHANGED <<temp, timer>>
     \/ At(r, "report20", "unreported") /\ Release(r) /\ Disarm(r)
  /\ UNCHANGED <<shared, verdict, child, own, found, saved>>

\* The first report of a queued run is awaited before the listeners are
\* attached.  If it fails the invocation is over and child and timer are not.
Report20(r) ==
  /\ child[r] # "unspawned"
  /\ \/ At(r, "report20", "wait") /\ UNCHANGED temp
     \/ At(r, "report20", "unreported") /\ Release(r)
  /\ UNCHANGED <<shared, verdict, timer, child, own, found, saved>>

\* The child ends with nobody listening.
Unheard(r) ==
  /\ pc[r] # "wait"
  /\ child[r] \in {"done", "bad"}
  /\ child' = [child EXCEPT ![r] = "closed"]
  /\ UNCHANGED <<shared, pc, verdict, timer, own, found, saved, temp>>

\* Mutant: the close handler does not look whether the timer came first.
CloseUnchecked(r) ==
  /\ child[r] \in {"done", "bad"}
  /\ child' = [child EXCEPT ![r] = "closed"]
  /\ Disarm(r)
  /\ IF child[r] = "bad"
     THEN /\ verdict' = [verdict EXCEPT ![r] = "failed"]
          /\ At(r, "wait", "decide")
     ELSE At(r, "wait", "collect") /\ UNCHANGED verdict
  /\ UNCHANGED <<shared, own, found, saved, temp>>

\* The close event, up to the first await of its handler.
Close(r) ==
  /\ child[r] \in {"done", "bad"}
  /\ child' = [child EXCEPT ![r] = "closed"]
  /\ Disarm(r)
  /\ CASE verdict[r] # "none" ->
             At(r, "wait", "failed") /\ Release(r) /\ UNCHANGED verdict
       [] verdict[r] = "none" /\ child[r] = "bad" ->
             /\ At(r, "wait", "decide") /\ UNCHANGED temp
             /\ verdict' = [verdict EXCEPT ![r] = "failed"]
       [] OTHER -> At(r, "wait", "collect") /\ UNCHANGED <<verdict, temp>>
  /\ UNCHANGED <<shared, own, found, saved>>

\* Any error from here on: finishOnce("failed", "save_error").
SaveError(r, step) ==
  /\ At(r, step, "decide")
  /\ verdict' = [verdict EXCEPT ![r] = "failed"]
  /\ UNCHANGED <<shared, timer, child, own, found, saved, temp>>

\* getLatestAnalyzerRunDir: the name that sorts last, whoever made it.
LatestRunDir ==
  LET there == {n \in Names : out[n] # "absent"}
  IN  IF there = {} THEN 0 ELSE CHOOSE n \in there : \A m \in there : m <= n

ArtifactsThere == LatestRunDir \in Names /\ out[LatestRunDir] = "complete"

\* Mutant: a failed child's output is taken as well, whatever is there.
CollectAnything(r) ==
  \/ /\ At(r, "wait", "read")
     /\ child[r] = "bad" /\ verdict[r] = "none" /\ LatestRunDir \in Names
     /\ found' = [found EXCEPT ![r] = [dir |-> LatestRunDir, whole |-> FALSE]]
     /\ UNCHANGED <<shared, verdict, timer, child, own, saved, temp>>
  \/ /\ SaveError(r, "collect")
     /\ r \in Queued \/ ~ArtifactsThere

\* Report 70, the directory and the check that its artifacts are there.
Collect(r) ==
  \/ /\ At(r, "collect", "read")
     /\ ArtifactsThere
     /\ found' = [found EXCEPT ![r] = [dir |-> LatestRunDir, whole |-> FALSE]]
     /\ UNCHANGED <<shared, verdict, timer, child, own, saved, temp>>
  \/ /\ SaveError(r, "collect")
     /\ r \in Queued \/ ~ArtifactsThere

\* An artifact that has gone since the check reads as an empty one.
Read(r) ==
  \/ /\ At(r, "read", "saveRow")
     /\ found' = [found EXCEPT ![r] =
                    [dir |-> found[r].dir, whole |-> out[found[r].dir] = "complete"]]
     /\ UNCHANGED <<shared, verdict, timer, child, own, saved, temp>>
  \/ r \in Queued /\ SaveError(r, "read")

SaveRow(r) ==
  \/ /\ At(r, "saveRow", "saveRun")
     /\ saved' = [saved EXCEPT ![r] = @ + 1]
     /\ UNCHANGED <<shared, verdict, timer, child, own, found, temp>>
  \/ SaveError(r, "saveRow")

\* Mutant: an error of the cache, after the row, fails the run.
SaveRunStrict(r) ==
  \/ /\ At(r, "saveRun", "decide")
     /\ table' = Append(table, [run |-> r, dir |-> found[r].dir, whole |-> found[r].whole])
     /\ \E v \in {"completed", "failed"} : verdict' = [verdict EXCEPT ![r] = v]
     /\ UNCHANGED <<status, out, diffs, timer, child, own, found, saved, temp>>
  \/ SaveError(r, "saveRun")

\* insertRun, then finishOnce("completed") up to its write.
SaveRun(r) ==
  \/ /\ At(r, "saveRun", "decide")
     /\ table' = Append(table, [run |-> r, dir |-> found[r].dir, whole |-> found[r].whole])
     /\ verdict' = [verdict EXCEPT ![r] = "completed"]
     /\ UNCHANGED <<status, out, diffs, timer, child, own, found, saved, temp>>
  \/ SaveError(r, "saveRun")

\* Mutant: a failed write is not followed by a release.
DecideHolding(r) ==
  /\ \/ /\ status' = verdict[r]
        /\ At(r, "decide", IF verdict[r] = "completed" THEN "report95" ELSE "failed")
        /\ Release(r)
     \/ At(r, "decide", "unwritten") /\ UNCHANGED <<status, temp>>
  /\ UNCHANGED <<out, table, diffs, verdict, timer, child, own, found, saved>>

\* The write of finishOnce.  The flag is up, so no error is written after it.
Decide(r) ==
  /\ \/ /\ status' = verdict[r]
        /\ At(r, "decide", IF verdict[r] = "completed" THEN "report95" ELSE "failed")
     \/ At(r, "decide", "unwritten") /\ UNCHANGED status
  /\ Release(r)
  /\ UNCHANGED <<out, table, diffs, verdict, timer, child, own, found, saved>>

\* The worker goes on to finalize the receipt.
Report95(r) ==
  /\ \E to \in IF r \in Queued THEN {"finalize", "failed"} ELSE {"returned"} :
       At(r, "report95", to)
  /\ UNCHANGED <<shared, verdict, timer, child, own, found, saved, temp>>

\* Mutant: against the newest row.
ComparisonNewest(r) ==
  LET base == table[Len(table)]
  IN  [run |-> r, with |-> base.run,
       base |-> IF base.dir = 0 THEN "elsewhere" ELSE out[base.dir]]

\* The comparison finalizeAnalysisReceiptChain makes: against the run directory
\* of the second newest row of runs, which this run's own start has deleted.
Comparison(r) ==
  LET base == table[Len(table) - 1]
  IN  [run |-> r, with |-> base.run,
       base |-> IF base.dir = 0 THEN "elsewhere" ELSE out[base.dir]]

Finalize(r) ==
  \/ /\ \E to \in {"returned", "failed"} : At(r, "finalize", to)
     /\ diffs' = diffs \cup {Comparison(r)}
     /\ out[found[r].dir] = "complete"
     /\ UNCHANGED <<status, out, table, verdict, timer, child, own, found, saved, temp>>
  \/ /\ \E to \in {"returned", "failed"} : At(r, "finalize", to)
     /\ UNCHANGED <<shared, verdict, timer, child, own, found, saved, temp>>

(***************************************************************************)
(* The API and the worker are two processes.  A child outlives either.     *)
(***************************************************************************)
Process(r) == IF r \in Queued THEN Queued ELSE Runs \ Queued

Crash(r) ==
  /\ Pending(r)
  /\ pc' = [q \in Runs |-> IF q \in Process(r) /\ Pending(q) THEN "dead" ELSE pc[q]]
  /\ timer' = [q \in Runs |-> IF q \in Process(r) /\ timer[q] # "wrote" THEN "off" ELSE timer[q]]
  /\ UNCHANGED <<shared, verdict, child, own, found, saved, temp>>

\* An error event without a listener is an uncaught exception.
Uncaught(r) == pc[r] = "report20" /\ child[r] = "unspawned" /\ Crash(r)

Before(r) == Ingest(r) \/ IngestFails(r) \/ Lookup(r) \/ Mark(r) \/ Clear(r)
CacheHit(r) ==
  ApplyRow(r) \/ ApplyRun(r) \/ ApplyStatus(r) \/ ApplyVerdict(r) \/ ReportHit(r)
Start(r) == Launch(r) \/ NoPython(r) \/ Report20(r)
Handle(r) ==
  \/ SpawnError(r) \/ Close(r) \/ Unheard(r)
  \/ Collect(r) \/ Read(r) \/ SaveRow(r) \/ SaveRun(r)
  \/ Decide(r) \/ Report95(r) \/ Finalize(r)
Child(r) == MakeDirectory(r) \/ WriteArtifacts(r) \/ Exit(r)
Timer(r) == TimeOut(r) \/ LateWrite(r)

Code(r) == Before(r) \/ CacheHit(r) \/ Start(r) \/ Handle(r)

Next ==
  \/ \E r \in Runs : Begin(r)
  \/ \E r \in Runs : Code(r) /\ UNCHANGED history
  \/ \E r \in Runs : Child(r) /\ UNCHANGED history
  \/ \E r \in Runs : Timer(r) /\ UNCHANGED history
  \/ \E r \in Runs : Crash(r) /\ UNCHANGED history

Spec == Init /\ [][Next]_vars

\* The event loops run while there is anything to do, statements and reports
\* return or fail, and the timer fires.  Nothing is assumed of the child, which
\* may run for ever.  Every invocation is finite, so none can starve another.
Fairness ==
  WF_vars(\E r \in Runs : (Code(r) \/ Timer(r) \/ Uncaught(r)) /\ UNCHANGED history)

FairSpec == Spec /\ Fairness

(***************************************************************************)
(* Properties                                                              *)
(***************************************************************************)
\* A report read from the disk is the run's own, with all its artifacts, unless
\* another invocation of the project overlapped it: then the other's start
\* has deleted its files between the check and the read, or its directory
\* was taken for the run's own.
ReportsOwnUnlessOverlapped ==
  \A i \in DOMAIN table :
    LET row == table[i]
    IN  row.run \in apart /\ row.dir # 0 => row.whole /\ row.dir = own[row.run]

\* An invocation that finishOnce has decided keeps its verdict and inserts
\* nothing any more, whichever of the timer, the error event and the close
\* event came first.
VerdictFinal ==
  [][\A r \in Runs : verdict[r] # "none" =>
       /\ verdict'[r] = verdict[r]
       /\ saved'[r] = saved[r]
       /\ \A i \in (DOMAIN table') \ DOMAIN table : table'[i].run # r]_vars

\* A run that failed has no row of runs to show for it, except after a cache
\* hit that was half applied; one that completes has its row, and only one.
Rows(r) == {i \in DOMAIN table : table[i].run = r}
FullRows(r) == {i \in Rows(r) : table[i].dir # 0}
RowsFollowVerdict ==
  \A r \in Runs :
    /\ Cardinality(FullRows(r)) <= 1
    /\ FullRows(r) # {} => verdict[r] = "completed"
    /\ pc[r] = "returned" => Rows(r) # {}
    /\ Cardinality(Rows(r)) <= saved[r]

\* Nothing runs, and no status write or timer is outstanding.
Quiet == \A r \in Runs : ~Pending(r)

\* The page of a project stops saying "analyzing" when the last analysis ends,
\* unless one of them failed before its try block, lost the write of its
\* verdict, or died.
StatusSettles ==
  Quiet /\ status = "analyzing" =>
    \E r \in Runs : pc[r] \in {"early", "unwritten", "dead"}

\* When the last invocation had the project for itself and returned, the
\* project shows completed: no write an earlier one left behind comes later.
LastRunTells ==
  Quiet /\ latest # "none" =>
    (latest \in apart /\ pc[latest] = "returned" => status = "completed")

\* The checkout goes with the invocation, unless it failed before the try
\* block; it stays until the child is gone, unless the first progress report
\* failed or a half-applied cache hit had released it already; and an
\* invocation that ended after its close event leaves neither behind.
CheckoutFollowsChild ==
  \A r \in Runs :
    /\ pc[r] \in {"returned", "failed", "unwritten", "unreported"} => temp[r] = "released"
    /\ temp[r] = "released" /\ Alive(r) =>
         pc[r] \in {"unreported", "dead"} \/ (saved[r] > 0 /\ verdict[r] = "completed")
    /\ pc[r] \in {"returned", "failed", "unwritten"} => ~Alive(r) /\ timer[r] # "armed"

\* A run that nothing overlapped is not compared with itself, and the directory
\* it is compared with has been deleted by its own start, unless it is that of
\* a cached run, or another run has made one within the same second, and then
\* it is its own.
BaseIsGone ==
  \A d \in diffs : d.run \in apart =>
    /\ d.with # d.run
    /\ \/ d.base \in {"absent", "elsewhere"}
       \/ d.with \in Runs /\ \E q \in Runs \ {d.run} : own[q] = own[d.run]

\* Every child is decided in the end, even one whose exit nobody heard.
EverySpawnDecided ==
  <>[](\A r \in Runs : child[r] # "none" => verdict[r] # "none" \/ pc[r] = "dead")

\* Every invocation ends, unless the child's exit was not heard or the child
\* is out of the timer's reach because a cache hit had decided it.
EveryRunEnds ==
  <>[](\A r \in Runs : InFlight(r) =>
         pc[r] = "wait" /\ (child[r] = "closed" \/ verdict[r] = "completed"))
=============================================================================
