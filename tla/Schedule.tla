------------------------------ MODULE Schedule ------------------------------
(***************************************************************************)
(* server/scheduler.ts for one scheduled target, with the routes that      *)
(* create, change and delete it (server/routes/targets-chain.ts) and the   *)
(* two finalizers that advance its lastRunAt (receiptChainFinalize.ts).    *)
(* A server process captures the crons of a target once, at its start; a   *)
(* tick reads the row again, fills a silence with a gap receipt and queues *)
(* an analysis.  Several processes tick at once during a rolling           *)
(* deployment, and a record-gap child that hangs leaves its tick behind.   *)
(*                                                                         *)
(* The clock counts the times at which a cron may fire; 0 is the null      *)
(* lastRunAt.  Statements take no time; the queue, the analyses and        *)
(* record-gap take any.                                                    *)
(***************************************************************************)
EXTENDS Naturals, FiniteSets

CONSTANTS
  Procs,     \* server processes
  Ticks,     \* bound: cron callbacks in progress at once
  Jobs,      \* bound: jobs of the target in the queue at once
  MaxTime,   \* bound: the clock stops here
  MaxRows,   \* bound: receipts of the target
  Period     \* interval -> its length, for all but "manual"

ASSUME ScheduleAssumption ==
  /\ MaxTime \in Nat \ {0} /\ MaxRows \in Nat
  /\ Period \in [DOMAIN Period -> Nat \ {0}] /\ "manual" \notin DOMAIN Period

VARIABLES
  now,
  target,    \* the row of scheduled_targets
  cron,      \* the interval each process has crons for, "none" or "down"
  tick,      \* cron callbacks in progress
  job,       \* jobs for the target
  rows,      \* receipt_chain: what each receipt covers, [kind, from, at]
  solo,      \* history: none was in the making when the last receipt was begun
  sound      \* history: the receipts that met no other in the making, from the
             \* tick or the analysis that began them to their lastRunAt

vars == <<now, target, cron, tick, job, rows, solo, sound>>

Intervals == DOMAIN Period \cup {"manual"}
Times == 0..MaxTime

\* What the row lacks of 1.5 intervals since its last run is silence.
Overdue(interval, last) == 2 * (now - last) > 3 * Period[interval]
Due(interval) == now % Period[interval] = 0

Idle == [pc |-> "idle", by |-> "none", interval |-> "manual", from |-> 0, at |-> 0, told |-> TRUE]
Free == [pc |-> "free", at |-> 0]

TickState ==
  [pc: {"idle", "gap", "insert", "update", "enqueue"}, by: Procs \cup {"none"},
   interval: Intervals, from: Times, at: Times, told: BOOLEAN]

TypeOK ==
  /\ now \in 1..MaxTime
  /\ target \in [exists: BOOLEAN, active: BOOLEAN, interval: Intervals, last: 0..now]
  /\ cron \in [Procs -> {"down", "none"} \cup DOMAIN Period]
  /\ tick \in [Ticks -> TickState]
  /\ job \in [Jobs -> [pc: {"free", "waiting", "written", "inserted"}, at: 0..now]]
  /\ rows \subseteq [kind: {"analysis", "gap"}, from: 0..now, at: 1..now]
  /\ solo \in BOOLEAN
  /\ sound \subseteq rows

Init ==
  /\ now = 1
  /\ target = [exists |-> FALSE, active |-> TRUE, interval |-> "manual", last |-> 0]
  /\ cron = [p \in Procs |-> "down"]
  /\ tick = [t \in Ticks |-> Idle]
  /\ job = [j \in Jobs |-> Free]
  /\ rows = {}
  /\ solo = TRUE
  /\ sound = {}

\* Whoever is between reading what lastRunAt depends on and writing it.
Finalizing ==
  {t \in Ticks : tick[t].pc \in {"gap", "insert", "update"}}
    \cup {j \in Jobs : job[j].pc \in {"written", "inserted"}}

\* Bound: what is being finalized may still become a row.
HasRoom == Cardinality(rows) + Cardinality(Finalizing) < MaxRows

Advance ==
  /\ now < MaxTime
  /\ \A t \in Ticks : tick[t].pc \in {"idle", "gap"}
  /\ now' = now + 1
  /\ UNCHANGED <<target, cron, tick, job, rows, solo, sound>>

(***************************************************************************)
(* The routes.  Only a restart changes what a process has crons for.       *)
(***************************************************************************)
Enqueue(j) == job[j].pc = "free" /\ job' = [job EXCEPT ![j] = [pc |-> "waiting", at |-> 0]]

\* POST /api/targets: the row, then the genesis job if it can be queued.
Create(j) ==
  /\ ~target.exists
  /\ \E i \in Intervals :
       target' = [exists |-> TRUE, active |-> TRUE, interval |-> i, last |-> 0]
  /\ Enqueue(j) \/ UNCHANGED job
  /\ UNCHANGED <<now, cron, tick, rows, solo, sound>>

Patch ==
  /\ target.exists
  /\ \E i \in Intervals, a \in BOOLEAN :
       /\ <<i, a>> # <<target.interval, target.active>>
       /\ target' = [exists |-> TRUE, active |-> a, interval |-> i, last |-> target.last]
  /\ UNCHANGED <<now, cron, tick, job, rows, solo, sound>>

\* DELETE keeps the row.
Delete ==
  /\ target.exists /\ target.active
  /\ target' = [target EXCEPT !.active = FALSE]
  /\ UNCHANGED <<now, cron, tick, job, rows, solo, sound>>

(***************************************************************************)
(* startScheduler and the end of a process                                 *)
(***************************************************************************)
Scheduled == target.exists /\ target.active /\ target.interval # "manual"

\* An error of the SELECT is logged: a process up without crons.  A catch-up
\* is queued from the row just read, with no receipt for the silence.
Boot(p, j) ==
  /\ cron[p] = "down"
  /\ \/ /\ Scheduled
        /\ cron' = [cron EXCEPT ![p] = target.interval]
        /\ \/ UNCHANGED job
           \/ (target.last = 0 \/ Overdue(target.interval, target.last)) /\ Enqueue(j)
     \/ cron' = [cron EXCEPT ![p] = "none"] /\ UNCHANGED job
  /\ UNCHANGED <<now, target, tick, rows, solo, sound>>

\* A crash or a deployment; an error of a tick's SELECT and a record-gap that
\* cannot be spawned are not caught and end the process too.
Stop(p) ==
  /\ cron[p] # "down"
  /\ cron' = [cron EXCEPT ![p] = "down"]
  /\ tick' = [t \in Ticks |-> IF tick[t].by = p THEN Idle ELSE tick[t]]
  /\ UNCHANGED <<now, target, job, rows, solo, sound>>

(***************************************************************************)
(* A tick                                                                  *)
(***************************************************************************)
Begin(t, p, interval) ==
  LET gap == target.last > 0 /\ Overdue(interval, target.last)
  IN  /\ tick' = [tick EXCEPT ![t] =
           [pc |-> IF gap THEN "gap" ELSE "enqueue", by |-> p,
            interval |-> target.interval, from |-> target.last, at |-> now, told |-> TRUE]]
      /\ solo' = IF gap THEN Finalizing = {} ELSE solo

\* Mutant: the interval the cron was registered with decides.
TickRegistered(t, p) ==
  /\ cron[p] \in DOMAIN Period /\ Due(cron[p])
  /\ tick[t].pc = "idle"
  /\ Scheduled
  /\ Begin(t, p, cron[p])
  /\ UNCHANGED <<now, target, cron, job, rows, sound>>

\* The callback up to the first await after its SELECT: the gap, if any, is
\* from lastRunAt to now.  A tick that finds nothing to do changes nothing.
Tick(t, p) ==
  /\ cron[p] \in DOMAIN Period /\ Due(cron[p])
  /\ tick[t].pc = "idle"
  /\ Scheduled
  /\ Begin(t, p, target.interval)
  /\ UNCHANGED <<now, target, cron, job, rows, sound>>

Goto(t, pc) == tick' = [tick EXCEPT ![t].pc = pc]

\* record-gap exits; on a failure the tick goes on without the receipt.
RecordGap(t) ==
  /\ tick[t].pc = "gap"
  /\ \/ Cardinality(rows) < MaxRows /\ Goto(t, "insert")
     \/ tick' = [tick EXCEPT ![t] = [tick[t] EXCEPT !.pc = "enqueue", !.told = FALSE]]
  /\ UNCHANGED <<now, target, cron, job, rows, solo, sound>>

GapRow(t) == [kind |-> "gap", from |-> tick[t].from, at |-> tick[t].at]
Finished(row) == sound' = IF solo THEN sound \cup {row} ELSE sound

\* finalizeGapReceipt.  An error ends the tick, with nothing queued.
InsertGap(t) ==
  /\ tick[t].pc = "insert"
  /\ \/ /\ rows' = rows \cup {GapRow(t)}
        /\ Goto(t, "update")
     \/ tick' = [tick EXCEPT ![t] = Idle] /\ UNCHANGED rows
  /\ UNCHANGED <<now, target, cron, job, solo, sound>>

\* Mutants: lastRunAt is left as it was, or set to the run that is to come.
UpdateGapHeadOnly(t) ==
  /\ tick[t].pc = "update"
  /\ Goto(t, "enqueue")
  /\ Finished(GapRow(t))
  /\ UNCHANGED <<now, target, cron, job, rows, solo>>
UpdateGapAhead(t) ==
  /\ tick[t].pc = "update"
  /\ target' = [target EXCEPT !.last = tick[t].at + 1]
  /\ Goto(t, "enqueue")
  /\ Finished(GapRow(t))
  /\ UNCHANGED <<now, cron, job, rows, solo>>

UpdateGap(t) ==
  /\ tick[t].pc = "update"
  /\ \/ /\ target' = [target EXCEPT !.last = tick[t].at]
        /\ Goto(t, "enqueue")
        /\ Finished(GapRow(t))
     \/ tick' = [tick EXCEPT ![t] = Idle] /\ UNCHANGED <<target, sound>>
  /\ UNCHANGED <<now, cron, job, rows, solo>>

EnqueueTick(t, j) ==
  /\ tick[t].pc = "enqueue"
  /\ tick' = [tick EXCEPT ![t] = Idle]
  /\ Enqueue(j) \/ UNCHANGED job
  /\ UNCHANGED <<now, target, cron, rows, solo, sound>>

(***************************************************************************)
(* A job, as far as its receipt goes.  A failed one is tried again.        *)
(***************************************************************************)
WriteReceipt(j) ==
  /\ HasRoom
  /\ job[j].pc = "waiting"
  /\ job' = [job EXCEPT ![j] = [pc |-> "written", at |-> now]]
  /\ solo' = (Finalizing = {})
  /\ UNCHANGED <<now, target, cron, tick, rows, sound>>

AnalysisRow(j) == [kind |-> "analysis", from |-> job[j].at, at |-> job[j].at]

\* finalizeAnalysisReceiptChain.
InsertAnalysis(j) ==
  /\ job[j].pc = "written"
  /\ job' = [job EXCEPT ![j].pc = "inserted"]
  /\ rows' = rows \cup {AnalysisRow(j)}
  /\ UNCHANGED <<now, target, cron, tick, solo, sound>>

UpdateTarget(j) ==
  /\ job[j].pc = "inserted"
  /\ target' = [target EXCEPT !.last = job[j].at]
  /\ job' = [job EXCEPT ![j] = Free]
  /\ Finished(AnalysisRow(j))
  /\ UNCHANGED <<now, cron, tick, rows, solo>>

JobFails(j) ==
  /\ job[j].pc # "free"
  /\ \E state \in {Free, [pc |-> "waiting", at |-> 0]} : job' = [job EXCEPT ![j] = state]
  /\ UNCHANGED <<now, target, cron, tick, rows, solo, sound>>

Routes == Patch \/ Delete \/ \E j \in Jobs : Create(j)
Process(p) == Stop(p) \/ \E j \in Jobs : Boot(p, j)
Callback(t) ==
  \/ \E p \in Procs : Tick(t, p)
  \/ RecordGap(t) \/ InsertGap(t) \/ UpdateGap(t)
  \/ \E j \in Jobs : EnqueueTick(t, j)
Work(j) == WriteReceipt(j) \/ InsertAnalysis(j) \/ UpdateTarget(j) \/ JobFails(j)

Next ==
  \/ Advance \/ Routes
  \/ \E p \in Procs : Process(p)
  \/ \E t \in Ticks : Callback(t)
  \/ \E j \in Jobs : Work(j)

Spec == Init /\ [][Next]_vars

(***************************************************************************)
(* Properties                                                              *)
(***************************************************************************)
Gaps == {r \in rows : r.kind = "gap"}

\* A gap receipt tells the truth: if it met no other receipt in the making and
\* reached lastRunAt, nothing of which that is true as well lies within it,
\* neither an analysis nor another gap.  What overlapped or was cut off, before
\* or since, harms these no more than a restart, a failed record-gap, a change
\* of the interval or a pause: lastRunAt is not set back behind them.
GapsAreSilent ==
  \A g \in Gaps \cap sound : \A r \in sound \ {g} : r.at <= g.from \/ r.from >= g.at

\* A tick queues an analysis only over a chain whose last entry is at most 1.5
\* intervals old, the gap it has just recorded included, unless record-gap
\* failed or the target has never been finalized.
SilenceAccounted ==
  \A t \in Ticks : tick[t].pc = "enqueue" /\ tick[t].told /\ tick[t].from > 0 =>
    \E r \in rows : 2 * (tick[t].at - r.at) <= 3 * Period[tick[t].interval]
=============================================================================
