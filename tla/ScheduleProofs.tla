--------------------------- MODULE ScheduleProofs ---------------------------
(***************************************************************************)
(* Proofs about Schedule, for any processes, callbacks, jobs, intervals    *)
(* and bounds.                                                             *)
(***************************************************************************)
EXTENDS Schedule, TLAPS

\* Callbacks, jobs and a lastRunAt belong to a target that exists, and their
\* times lie in the past.
Sane ==
  /\ target.last > 0 => target.exists
  /\ \A t \in Ticks :
       /\ tick[t].from <= tick[t].at /\ tick[t].at <= now
       /\ tick[t].pc # "idle" =>
            /\ target.exists /\ tick[t].at > 0
            /\ tick[t].interval \in DOMAIN Period
  /\ \A j \in Jobs :
       /\ job[j].pc # "free" => target.exists
       /\ job[j].pc \in {"written", "inserted"} => job[j].at > 0

\* Whatever lastRunAt is, or is about to become, is the end of a receipt.
RowKnows ==
  /\ target.last > 0 => \E r \in rows : r.at = target.last
  /\ \A t \in Ticks : tick[t].pc = "update" => GapRow(t) \in rows
  /\ \A j \in Jobs : job[j].pc = "inserted" => AnalysisRow(j) \in rows

Gapping(t) == tick[t].pc \in {"gap", "insert", "update"}
Receipting(j) == job[j].pc \in {"written", "inserted"}

\* A receipt that met no other in the making is the only one.
Alone ==
  /\ \A t, u \in Ticks : Gapping(t) /\ Gapping(u) => t = u
  /\ \A i, j \in Jobs : Receipting(i) /\ Receipting(j) => i = j
  /\ \A t \in Ticks, j \in Jobs : ~(Gapping(t) /\ Receipting(j))

\* Whatever is in the making, alone or not, begins where r has ended, and
\* lastRunAt is not set back behind r.
Behind(r) ==
  /\ r.at <= target.last
  /\ \A t \in Ticks : Gapping(t) => r.at <= tick[t].from
  /\ \A j \in Jobs : Receipting(j) => r.at <= job[j].at

Silence ==
  /\ solo => Alone
  /\ \A r \in sound : Behind(r)
  /\ GapsAreSilent

IInv == TypeOK /\ Sane /\ RowKnows /\ SilenceAccounted /\ Silence

\* No target, no callback, no job and no receipt.
LEMMA InitIInv == ASSUME Init PROVE IInv
<1> USE ScheduleAssumption DEF Init, Idle, Free
<1>1. TypeOK
  BY DEF TypeOK, TickState, Times, Intervals
<1>2. Sane /\ RowKnows /\ SilenceAccounted
  BY DEF Sane, RowKnows, SilenceAccounted
<1>3. Silence
  BY DEF Silence, Alone, Gapping, Receipting, GapsAreSilent
<1>4. QED
  BY <1>1, <1>2, <1>3 DEF IInv

(***************************************************************************)
(* Steps that leave lastRunAt and what is finished alone                   *)
(***************************************************************************)
\* What is in the making stays so with its times, or is given up: nothing that
\* is sound is disturbed by it, nor by the rows it may have left.
LEMMA QuietOrder ==
  ASSUME IInv, rows \subseteq rows', sound' = sound, solo' => solo,
         target'.last = target.last,
         \A t \in Ticks : Gapping(t)' => Gapping(t) /\ tick'[t].from = tick[t].from,
         \A j \in Jobs : Receipting(j)' => Receipting(j) /\ job'[j].at = job[j].at
  PROVE  Silence'
<1>1. GapsAreSilent'
  BY DEF IInv, TypeOK, Silence, GapsAreSilent, Gaps
<1>2. solo' => Alone'
  BY DEF IInv, Silence, Alone
<1>3. \A r \in sound' : Behind(r)'
  BY DEF IInv, Silence, Behind
<1>4. QED
  BY <1>1, <1>2, <1>3 DEF Silence

\* A receipt reaches lastRunAt: it lies behind all that is sound, and it is
\* sound itself when nothing else is in the making.
LEMMA FinishedSilence ==
  ASSUME IInv, NEW row \in rows, Finished(row), rows' = rows, solo' = solo,
         row.from \in Nat, row.at \in Nat, row.from <= row.at,
         target'.last = row.at,
         \A r \in sound : r.at <= row.from,
         \A t \in Ticks : Gapping(t)' => Gapping(t) /\ tick'[t].from = tick[t].from,
         \A j \in Jobs : Receipting(j)' => Receipting(j) /\ job'[j].at = job[j].at,
         solo => /\ \A t \in Ticks : ~Gapping(t)'
                 /\ \A j \in Jobs : ~Receipting(j)'
  PROVE  Silence'
<1>1. solo' => Alone'
  BY DEF Alone
<1>2. \A r \in sound : r.at \in Nat /\ r \in rows
  BY ScheduleAssumption DEF IInv, TypeOK
<1>3. \A r \in sound : r.at <= row.at
  BY <1>2
<1>4. CASE ~solo
  <2>1. sound' = sound
    BY <1>4 DEF Finished
  <2>2. \A r \in sound' : Behind(r)'
    BY <1>3, <2>1 DEF IInv, Silence, Behind
  <2>3. GapsAreSilent'
    BY <2>1 DEF IInv, Silence, GapsAreSilent, Gaps
  <2>4. QED
    BY <1>1, <2>2, <2>3 DEF Silence
<1>5. CASE solo
  <2>1. sound' = sound \cup {row}
    BY <1>5 DEF Finished
  <2>2. \A r \in sound' : Behind(r)'
    BY <1>3, <1>5, <2>1 DEF Behind
  <2>3. ASSUME NEW g \in Gaps' \cap sound', NEW r \in sound' \ {g}
        PROVE  r.at <= g.from \/ r.from >= g.at
    <3>1. CASE g = row
      BY <2>1, <2>3, <3>1
    <3>2. CASE g # row /\ r = row
      BY <1>2, <2>1, <2>3, <3>2
    <3>3. CASE g # row /\ r # row
      BY <2>1, <2>3, <3>3 DEF IInv, Silence, GapsAreSilent, Gaps
    <3>4. QED
      BY <3>1, <3>2, <3>3
  <2>4. GapsAreSilent'
    BY <2>3 DEF GapsAreSilent
  <2>5. QED
    BY <1>1, <2>2, <2>4 DEF Silence
<1>6. QED
  BY <1>4, <1>5

\* The clock only moves away from what has been recorded.
LEMMA AdvanceIInv == ASSUME IInv, Advance PROVE IInv'
<1> USE ScheduleAssumption
<1>1. now' \in 1..MaxTime /\ now' = now + 1 /\ now \in Nat
  BY DEF Advance, IInv, TypeOK
<1>2. TypeOK'
  BY <1>1 DEF Advance, IInv, TypeOK, TickState
<1>3. Sane' /\ RowKnows' /\ SilenceAccounted'
  BY <1>1 DEF Advance, IInv, TypeOK, TickState, Sane, RowKnows, SilenceAccounted, GapRow,
              AnalysisRow, Times
<1>4. Silence'
  BY QuietOrder DEF Advance, Gapping, Receipting
<1>5. QED
  BY <1>2, <1>3, <1>4 DEF IInv

\* A job that is queued is neither written nor inserted.
LEMMA EnqueueJob ==
  ASSUME IInv, NEW j \in Jobs, Enqueue(j) \/ job' = job
  PROVE  /\ job' \in [Jobs -> [pc: {"free", "waiting", "written", "inserted"}, at: 0..now]]
         /\ \A i \in Jobs :
              /\ Receipting(i)' <=> Receipting(i)
              /\ job'[i].pc = "inserted" <=> job[i].pc = "inserted"
              /\ Receipting(i) => job'[i] = job[i]
  BY DEF Enqueue, IInv, TypeOK, Receipting

\* A new target has no lastRunAt, and its first job is only queued.
LEMMA CreateIInv == ASSUME IInv, NEW j \in Jobs, Create(j) PROVE IInv'
<1> USE ScheduleAssumption
<1>1. /\ ~target.exists /\ target.last = 0
      /\ \A t \in Ticks : tick[t].pc = "idle"
      /\ \A i \in Jobs : job[i].pc = "free"
  BY DEF Create, IInv, TypeOK, Sane
<1>2. /\ target' \in [exists: BOOLEAN, active: BOOLEAN, interval: Intervals, last: 0..now]
      /\ target'.exists /\ target'.last = 0
      /\ Enqueue(j) \/ job' = job
      /\ UNCHANGED <<now, cron, tick, rows, solo, sound>>
  BY DEF Create, IInv, TypeOK
<1>3. TypeOK'
  BY <1>2, EnqueueJob DEF IInv, TypeOK
<1>4. Sane' /\ RowKnows' /\ SilenceAccounted'
  BY <1>1, <1>2, EnqueueJob
  DEF IInv, Sane, RowKnows, SilenceAccounted, Receipting, GapRow, AnalysisRow
<1>5. Silence'
  BY <1>1, <1>2, EnqueueJob, QuietOrder DEF Gapping, Receipting
<1>6. QED
  BY <1>3, <1>4, <1>5 DEF IInv

\* PATCH and DELETE change neither lastRunAt nor that the row is there.
LEMMA RoutesIInv == ASSUME IInv, Patch \/ Delete PROVE IInv'
<1>1. /\ target' \in [exists: BOOLEAN, active: BOOLEAN, interval: Intervals, last: 0..now]
      /\ target'.exists /\ target'.last = target.last /\ target.exists
      /\ UNCHANGED <<now, cron, tick, job, rows, solo, sound>>
  <2>1. target \in [exists: BOOLEAN, active: BOOLEAN, interval: Intervals, last: 0..now]
    BY DEF IInv, TypeOK
  <2>2. CASE Patch
    BY <2>1, <2>2 DEF Patch
  <2>3. CASE Delete
    BY <2>1, <2>3 DEF Delete
  <2>4. QED
    BY <2>2, <2>3
<1>2. TypeOK' /\ Sane' /\ RowKnows' /\ SilenceAccounted'
  BY <1>1 DEF IInv, TypeOK, Sane, RowKnows, SilenceAccounted, GapRow, AnalysisRow
<1>3. Silence'
  BY <1>1, QuietOrder DEF Gapping, Receipting
<1>4. QED
  BY <1>2, <1>3 DEF IInv

\* A start captures the crons; the job of the catch-up is only queued.
LEMMA BootIInv == ASSUME IInv, NEW p \in Procs, NEW j \in Jobs, Boot(p, j) PROVE IInv'
<1>1. /\ cron' \in [Procs -> {"down", "none"} \cup DOMAIN Period]
      /\ Enqueue(j) \/ job' = job
      /\ job' # job => target.exists
      /\ UNCHANGED <<now, target, tick, rows, solo, sound>>
  BY DEF Boot, Scheduled, IInv, TypeOK, Intervals
<1>2. TypeOK'
  BY <1>1, EnqueueJob DEF IInv, TypeOK
<1>3. Sane' /\ RowKnows' /\ SilenceAccounted'
  BY <1>1, EnqueueJob
  DEF IInv, TypeOK, Sane, RowKnows, SilenceAccounted, Enqueue, Receipting, GapRow, AnalysisRow
<1>4. Silence'
  BY <1>1, EnqueueJob, QuietOrder DEF Gapping
<1>5. QED
  BY <1>2, <1>3, <1>4 DEF IInv

\* The callbacks of the process are gone, with or without a row left behind.
LEMMA StopIInv == ASSUME IInv, NEW p \in Procs, Stop(p) PROVE IInv'
<1> USE ScheduleAssumption
<1>1. /\ cron' \in [Procs -> {"down", "none"} \cup DOMAIN Period]
      /\ tick' \in [Ticks -> TickState]
      /\ \A t \in Ticks : tick'[t] = tick[t] \/ tick'[t] = Idle
      /\ UNCHANGED <<now, target, job, rows, solo, sound>>
  <2>1. Idle \in TickState
    BY DEF Idle, TickState, Intervals, Times
  <2>2. tick \in [Ticks -> TickState]
    BY DEF IInv, TypeOK
  <2>3. tick' = [t \in Ticks |-> IF tick[t].by = p THEN Idle ELSE tick[t]]
    BY DEF Stop
  <2>4. cron' \in [Procs -> {"down", "none"} \cup DOMAIN Period]
    BY DEF Stop, IInv, TypeOK
  <2>5. QED
    BY <2>1, <2>2, <2>3, <2>4 DEF Stop
<1>2. TypeOK'
  BY <1>1 DEF IInv, TypeOK
<1>3. Sane' /\ RowKnows' /\ SilenceAccounted'
  BY <1>1
  DEF IInv, TypeOK, Sane, RowKnows, SilenceAccounted, GapRow, AnalysisRow, Idle
<1>4. Silence'
  BY <1>1, QuietOrder DEF Gapping, Receipting, Idle
<1>5. QED
  BY <1>2, <1>3, <1>4 DEF IInv

(***************************************************************************)
(* A tick                                                                  *)
(***************************************************************************)
\* No gap: lastRunAt is at most 1.5 intervals old, and a receipt ends there.
\* A gap: it begins at lastRunAt, and is alone if nothing else is in the making.
LEMMA TickIInv == ASSUME IInv, NEW t \in Ticks, NEW p \in Procs, Tick(t, p) PROVE IInv'
<1> USE ScheduleAssumption
<1> DEFINE gap == target.last > 0 /\ Overdue(target.interval, target.last)
           new == [pc |-> IF gap THEN "gap" ELSE "enqueue", by |-> p,
                   interval |-> target.interval, from |-> target.last, at |-> now,
                   told |-> TRUE]
<1>1. /\ target.exists /\ target.interval \in DOMAIN Period
      /\ target.last \in 0..now /\ now \in 1..MaxTime /\ tick[t].pc = "idle"
      /\ target.interval \in Intervals
      /\ Period[target.interval] \in Nat
      /\ tick' = [tick EXCEPT ![t] = new]
      /\ solo' = IF gap THEN Finalizing = {} ELSE solo
      /\ UNCHANGED <<now, target, cron, job, rows, sound>>
  BY DEF Tick, Begin, Scheduled, IInv, TypeOK, Intervals
<1>2. new \in TickState
  BY <1>1 DEF TickState, Times
<1>3. \A u \in Ticks : tick'[u] = IF u = t THEN new ELSE tick[u]
  BY <1>1 DEF IInv, TypeOK
<1>4. TypeOK'
  BY <1>1, <1>2 DEF IInv, TypeOK
<1>5. Sane'
  BY <1>1, <1>3 DEF IInv, Sane
<1>6. RowKnows'
  BY <1>1, <1>3 DEF IInv, RowKnows, GapRow, AnalysisRow
<1>7. SilenceAccounted'
  <2>1. ASSUME ~gap, target.last > 0
        PROVE  \E r \in rows : 2 * (now - r.at) <= 3 * Period[target.interval]
    <3>1. PICK r \in rows : r.at = target.last
      BY <2>1 DEF IInv, RowKnows
    <3>2. 2 * (now - target.last) <= 3 * Period[target.interval]
      BY <1>1, <2>1 DEF Overdue
    <3>3. QED
      BY <3>1, <3>2
  <2> HIDE DEF gap
  <2>2. ASSUME NEW u \in Ticks, tick'[u].pc = "enqueue", tick'[u].told, tick'[u].from > 0
        PROVE  \E r \in rows' : 2 * (tick'[u].at - r.at) <= 3 * Period[tick'[u].interval]
    <3>1. CASE u = t
      BY <1>1, <1>3, <2>1, <2>2, <3>1
    <3>2. CASE u # t
      BY <1>1, <1>3, <2>2, <3>2 DEF IInv, SilenceAccounted
    <3>3. QED
      BY <3>1, <3>2
  <2>3. QED
    BY <2>2 DEF SilenceAccounted
<1>8. CASE ~gap
  <2>1. /\ \A u \in Ticks : Gapping(u)' => Gapping(u) /\ tick'[u] = tick[u]
        /\ \A u \in Ticks : tick[u].pc = "update" => tick'[u] = tick[u]
    <3>1. new.pc = "enqueue"
      BY <1>8
    <3> HIDE DEF new
    <3>2. QED
      BY <1>1, <1>3, <3>1 DEF Gapping
  <2>2. Silence'
    BY <1>1, <1>8, <2>1, QuietOrder DEF Receipting
  <2>3. QED
    BY <1>4, <1>5, <1>6, <1>7, <2>2 DEF IInv
<1>9. CASE gap
  <2>1. GapsAreSilent'
    BY <1>1 DEF IInv, Silence, GapsAreSilent, Gaps
  <2>2. new.from = target.last
    OBVIOUS
  <2> HIDE DEF new
  <2>3. \A r \in sound' : Behind(r)'
    BY <1>1, <1>3, <2>2 DEF IInv, Silence, Behind, Gapping, Receipting
  <2>4. ASSUME solo' PROVE Alone'
    <3>1. /\ \A u \in Ticks : ~Gapping(u)
          /\ \A j \in Jobs : ~Receipting(j)
      BY <1>1, <1>9, <2>4 DEF Finalizing, Gapping, Receipting
    <3>2. QED
      BY <1>1, <1>3, <3>1 DEF Alone, Gapping, Receipting
  <2>5. QED
    BY <1>4, <1>5, <1>6, <1>7, <2>1, <2>3, <2>4 DEF IInv, Silence
<1>10. QED
  BY <1>8, <1>9

\* A callback that moves on without a row: what it knows of its times stays.
LEMMA MoveTick ==
  ASSUME IInv, NEW t \in Ticks, NEW new \in TickState,
         tick[t].pc # "idle", tick' = [tick EXCEPT ![t] = new],
         \/ new = Idle
         \/ /\ new.interval = tick[t].interval
            /\ new.from = tick[t].from /\ new.at = tick[t].at,
         UNCHANGED <<now, target, rows>>
  PROVE  /\ tick' \in [Ticks -> TickState]
         /\ \A u \in Ticks : tick'[u] = IF u = t THEN new ELSE tick[u]
         /\ \A u \in Ticks :
              /\ tick'[u].from <= tick'[u].at /\ tick'[u].at <= now
              /\ tick'[u].pc # "idle" =>
                   /\ target.exists /\ tick'[u].at > 0
                   /\ tick'[u].interval \in DOMAIN Period
<1>1. /\ tick' \in [Ticks -> TickState]
      /\ \A u \in Ticks : tick'[u] = IF u = t THEN new ELSE tick[u]
  BY DEF IInv, TypeOK
<1>2. now \in Nat
  BY ScheduleAssumption DEF IInv, TypeOK
<1>3. QED
  BY <1>1, <1>2 DEF IInv, Sane, Idle

\* The callback gives the gap up, or goes on to its row.
LEMMA RecordGapIInv == ASSUME IInv, NEW t \in Ticks, RecordGap(t) PROVE IInv'
<1>1. /\ tick[t].pc = "gap" /\ tick[t] \in TickState
      /\ UNCHANGED <<now, target, cron, job, rows, solo, sound>>
  BY DEF RecordGap, IInv, TypeOK
<1>2. PICK new \in TickState :
        /\ tick' = [tick EXCEPT ![t] = new]
        /\ new.interval = tick[t].interval
        /\ new.from = tick[t].from /\ new.at = tick[t].at
        /\ new.pc = "insert" \/ (new.pc = "enqueue" /\ ~new.told)
  <2>1. CASE Goto(t, "insert")
    <3> DEFINE new == [tick[t] EXCEPT !.pc = "insert"]
    <3>1. /\ new \in TickState /\ new.interval = tick[t].interval /\ new.pc = "insert"
          /\ new.from = tick[t].from /\ new.at = tick[t].at
      BY <1>1 DEF TickState
    <3>2. tick' = [tick EXCEPT ![t] = new]
      BY <2>1 DEF Goto
    <3> HIDE DEF new
    <3>3. QED
      BY <3>1, <3>2
  <2>2. CASE tick' = [tick EXCEPT ![t] = [tick[t] EXCEPT !.pc = "enqueue", !.told = FALSE]]
    <3> DEFINE new == [tick[t] EXCEPT !.pc = "enqueue", !.told = FALSE]
    <3>1. new = [[tick[t] EXCEPT !.pc = "enqueue"] EXCEPT !.told = FALSE]
      BY <1>1 DEF TickState
    <3>2. /\ new \in TickState /\ new.interval = tick[t].interval /\ new.pc = "enqueue"
          /\ new.from = tick[t].from /\ new.at = tick[t].at /\ ~new.told
      BY <1>1, <3>1 DEF TickState
    <3>3. tick' = [tick EXCEPT ![t] = new]
      BY <2>2
    <3> HIDE DEF new
    <3>4. QED
      BY <3>2, <3>3
  <2>3. QED
    BY <2>1, <2>2 DEF RecordGap
<1>3. /\ tick' \in [Ticks -> TickState]
      /\ \A u \in Ticks : tick'[u] = IF u = t THEN new ELSE tick[u]
      /\ \A u \in Ticks :
           /\ tick'[u].from <= tick'[u].at /\ tick'[u].at <= now
           /\ tick'[u].pc # "idle" =>
                /\ target.exists /\ tick'[u].at > 0
                /\ tick'[u].interval \in DOMAIN Period
  BY <1>1, <1>2, MoveTick
<1>4. TypeOK' /\ Sane' /\ RowKnows' /\ SilenceAccounted'
  BY <1>1, <1>2, <1>3
  DEF IInv, TypeOK, Sane, RowKnows, SilenceAccounted, GapRow, AnalysisRow
<1>5. Silence'
  BY <1>1, <1>2, <1>3, QuietOrder DEF Gapping, Receipting
<1>6. QED
  BY <1>4, <1>5 DEF IInv

\* The row is there, with lastRunAt still to come, or the callback ends.
LEMMA InsertGapIInv == ASSUME IInv, NEW t \in Ticks, InsertGap(t) PROVE IInv'
<1>1. /\ tick[t].pc = "insert" /\ tick[t] \in TickState
      /\ tick[t].from \in Nat /\ tick[t].at \in Nat
      /\ tick[t].from <= tick[t].at /\ tick[t].at <= now /\ tick[t].at > 0
      /\ now \in Nat /\ target.last \in Nat
      /\ rows \subseteq [kind: {"analysis", "gap"}, from: 0..now, at: 1..now]
      /\ UNCHANGED <<now, target, cron, job, solo, sound>>
  BY ScheduleAssumption DEF InsertGap, IInv, TypeOK, Sane, TickState, Times
<1>2. CASE tick' = [tick EXCEPT ![t] = Idle] /\ rows' = rows
  <2>1. Idle \in TickState
    BY ScheduleAssumption DEF Idle, TickState, Intervals, Times
  <2>2. /\ tick' \in [Ticks -> TickState]
        /\ \A u \in Ticks : tick'[u] = IF u = t THEN Idle ELSE tick[u]
        /\ \A u \in Ticks :
             /\ tick'[u].from <= tick'[u].at /\ tick'[u].at <= now
             /\ tick'[u].pc # "idle" =>
                  /\ target.exists /\ tick'[u].at > 0
                  /\ tick'[u].interval \in DOMAIN Period
    BY <1>1, <1>2, <2>1, MoveTick
  <2>3. TypeOK' /\ Sane' /\ RowKnows' /\ SilenceAccounted'
    BY <1>1, <1>2, <2>2
    DEF IInv, TypeOK, Sane, RowKnows, SilenceAccounted, GapRow, AnalysisRow, Idle
  <2>4. Silence'
    BY <1>1, <1>2, <2>2, QuietOrder DEF Gapping, Receipting, Idle
  <2>5. QED
    BY <2>3, <2>4 DEF IInv
<1>3. CASE rows' = rows \cup {GapRow(t)} /\ Goto(t, "update")
  <2> DEFINE new == [tick[t] EXCEPT !.pc = "update"]
             g == GapRow(t)
  <2>1. /\ new \in TickState /\ new.interval = tick[t].interval /\ new.pc = "update"
        /\ new.from = tick[t].from /\ new.at = tick[t].at
    BY <1>1 DEF TickState
  <2>2. tick' = [tick EXCEPT ![t] = new]
    BY <1>3 DEF Goto
  <2>3. g.from = tick[t].from /\ g.at = tick[t].at /\ g.kind = "gap"
    BY DEF GapRow
  <2>4. g \in [kind: {"analysis", "gap"}, from: 0..now, at: 1..now]
    BY <1>1 DEF GapRow
  <2> HIDE DEF new
  <2>5. /\ tick' \in [Ticks -> TickState]
        /\ \A u \in Ticks : tick'[u] = IF u = t THEN new ELSE tick[u]
    BY <1>1, <2>1, <2>2 DEF IInv, TypeOK
  <2>6. \A u \in Ticks : GapRow(u)' = GapRow(u)
    BY <2>1, <2>5 DEF GapRow
  <2>7. \A j \in Jobs : AnalysisRow(j)' = AnalysisRow(j)
    BY <1>1 DEF AnalysisRow
  <2>8. TypeOK'
    BY <1>1, <1>3, <2>4, <2>5 DEF IInv, TypeOK
  <2>9. Sane'
    BY <1>1, <2>1, <2>5 DEF IInv, Sane
  <2>10. RowKnows'
    BY <1>1, <1>3, <2>1, <2>5, <2>6, <2>7 DEF IInv, RowKnows
  <2>11. SilenceAccounted'
    BY <1>1, <1>3, <2>1, <2>5 DEF IInv, SilenceAccounted
  <2>12. Silence'
    BY <1>1, <1>3, <2>1, <2>5, QuietOrder DEF Gapping, Receipting
  <2>13. QED
    BY <2>8, <2>9, <2>10, <2>11, <2>12 DEF IInv
<1>4. QED
  BY <1>2, <1>3 DEF InsertGap

\* lastRunAt moves on to the end of the gap, which begins after all that is sound.
LEMMA UpdateGapIInv == ASSUME IInv, NEW t \in Ticks, UpdateGap(t) PROVE IInv'
<1>1. /\ tick[t].pc = "update" /\ tick[t] \in TickState
      /\ tick[t].from \in Nat /\ tick[t].at \in Nat
      /\ tick[t].from <= tick[t].at /\ tick[t].at <= now /\ tick[t].at > 0
      /\ now \in Nat /\ target.last \in Nat /\ target.exists
      /\ target \in [exists: BOOLEAN, active: BOOLEAN, interval: Intervals, last: 0..now]
      /\ rows \subseteq [kind: {"analysis", "gap"}, from: 0..now, at: 1..now]
      /\ UNCHANGED <<now, cron, job, rows, solo>>
  BY ScheduleAssumption DEF UpdateGap, IInv, TypeOK, Sane, TickState, Times
<1>2. tick[t].interval \in DOMAIN Period /\ Period[tick[t].interval] \in Nat
  BY <1>1, ScheduleAssumption DEF IInv, Sane
<1>3. GapRow(t) \in rows /\ GapRow(t).at = tick[t].at
  BY <1>1 DEF IInv, RowKnows, GapRow
<1>4. CASE tick' = [tick EXCEPT ![t] = Idle] /\ UNCHANGED <<target, sound>>
  <2>1. Idle \in TickState
    BY ScheduleAssumption DEF Idle, TickState, Intervals, Times
  <2>2. /\ tick' \in [Ticks -> TickState]
        /\ \A u \in Ticks : tick'[u] = IF u = t THEN Idle ELSE tick[u]
        /\ \A u \in Ticks :
             /\ tick'[u].from <= tick'[u].at /\ tick'[u].at <= now
             /\ tick'[u].pc # "idle" =>
                  /\ target.exists /\ tick'[u].at > 0
                  /\ tick'[u].interval \in DOMAIN Period
    BY <1>1, <1>4, <2>1, MoveTick
  <2>3. TypeOK' /\ Sane' /\ RowKnows' /\ SilenceAccounted'
    BY <1>1, <1>4, <2>2
    DEF IInv, TypeOK, Sane, RowKnows, SilenceAccounted, GapRow, AnalysisRow, Idle
  <2>4. Silence'
    BY <1>1, <1>4, <2>2, QuietOrder DEF Gapping, Receipting, Idle
  <2>5. QED
    BY <2>3, <2>4 DEF IInv
<1>5. CASE /\ target' = [target EXCEPT !.last = tick[t].at]
           /\ Goto(t, "enqueue") /\ Finished(GapRow(t))
  <2> DEFINE new == [tick[t] EXCEPT !.pc = "enqueue"]
  <2>1. /\ new \in TickState /\ new.interval = tick[t].interval /\ new.pc = "enqueue"
        /\ new.from = tick[t].from /\ new.at = tick[t].at
    BY <1>1 DEF TickState
  <2>2. tick' = [tick EXCEPT ![t] = new]
    BY <1>5 DEF Goto
  <2> HIDE DEF new
  <2>3. /\ tick' \in [Ticks -> TickState]
        /\ \A u \in Ticks : tick'[u] = IF u = t THEN new ELSE tick[u]
    BY <1>1, <2>1, <2>2 DEF IInv, TypeOK
  <2>4. /\ target' \in [exists: BOOLEAN, active: BOOLEAN, interval: Intervals, last: 0..now]
        /\ target'.last = tick[t].at /\ target'.exists
    BY <1>1, <1>5
  <2>5. TypeOK'
    BY <1>1, <1>3, <1>5, <2>3, <2>4 DEF IInv, TypeOK, Finished
  <2>6. Sane'
    BY <1>1, <2>1, <2>3, <2>4 DEF IInv, Sane
  <2>7. RowKnows'
    BY <1>1, <1>3, <2>1, <2>3, <2>4 DEF IInv, RowKnows, GapRow, AnalysisRow
  <2>8. SilenceAccounted'
    <3>1. 2 * (tick[t].at - GapRow(t).at) <= 3 * Period[tick[t].interval]
      BY <1>1, <1>2, <1>3
    <3>2. QED
      BY <1>1, <1>3, <2>1, <2>3, <3>1 DEF IInv, SilenceAccounted
  <2>9. Silence'
    <3>1. /\ GapRow(t).from = tick[t].from
          /\ \A r \in sound : r.at <= tick[t].from
      BY <1>1 DEF IInv, Silence, Behind, Gapping, GapRow
    <3>2. /\ \A u \in Ticks : Gapping(u)' => Gapping(u) /\ u # t /\ tick'[u].from = tick[u].from
          /\ \A j \in Jobs : Receipting(j)' => Receipting(j) /\ job'[j].at = job[j].at
      BY <1>1, <2>1, <2>3 DEF Gapping, Receipting
    <3>3. solo => /\ \A u \in Ticks : ~Gapping(u)'
                  /\ \A j \in Jobs : ~Receipting(j)'
      BY <1>1, <3>2 DEF IInv, Silence, Alone, Gapping
    <3>4. QED
      BY <1>1, <1>3, <1>5, <2>4, <3>1, <3>2, <3>3, FinishedSilence
  <2>10. QED
    BY <2>5, <2>6, <2>7, <2>8, <2>9 DEF IInv
<1>6. QED
  BY <1>4, <1>5 DEF UpdateGap

\* The callback ends; the job it queues has no receipt yet.
LEMMA EnqueueTickIInv ==
  ASSUME IInv, NEW t \in Ticks, NEW j \in Jobs, EnqueueTick(t, j) PROVE IInv'
<1>1. /\ tick[t].pc = "enqueue" /\ tick' = [tick EXCEPT ![t] = Idle]
      /\ Enqueue(j) \/ job' = job
      /\ target.exists
      /\ UNCHANGED <<now, target, cron, rows, solo, sound>>
  BY DEF EnqueueTick, IInv, Sane
<1>2. Idle \in TickState
  BY ScheduleAssumption DEF Idle, TickState, Intervals, Times
<1>3. /\ tick' \in [Ticks -> TickState]
      /\ \A u \in Ticks : tick'[u] = IF u = t THEN Idle ELSE tick[u]
      /\ \A u \in Ticks :
           /\ tick'[u].from <= tick'[u].at /\ tick'[u].at <= now
           /\ tick'[u].pc # "idle" =>
                /\ target.exists /\ tick'[u].at > 0
                /\ tick'[u].interval \in DOMAIN Period
  BY <1>1, <1>2, MoveTick
<1>4. TypeOK' /\ Sane' /\ RowKnows' /\ SilenceAccounted'
  BY <1>1, <1>3, EnqueueJob
  DEF IInv, TypeOK, Sane, RowKnows, SilenceAccounted, GapRow, AnalysisRow, Idle, Receipting
<1>5. Silence'
  BY <1>1, <1>3, EnqueueJob, QuietOrder DEF Gapping, Idle
<1>6. QED
  BY <1>4, <1>5 DEF IInv

(***************************************************************************)
(* A job                                                                   *)
(***************************************************************************)
\* The receipt is written now, so after lastRunAt.
LEMMA WriteReceiptIInv == ASSUME IInv, NEW j \in Jobs, WriteReceipt(j) PROVE IInv'
<1> DEFINE new == [pc |-> "written", at |-> now]
<1>1. /\ job[j].pc = "waiting" /\ job' = [job EXCEPT ![j] = new]
      /\ now \in Nat /\ now > 0 /\ target.last \in 0..now /\ target.exists
      /\ solo' = (Finalizing = {})
      /\ UNCHANGED <<now, target, cron, tick, rows, sound>>
  BY ScheduleAssumption DEF WriteReceipt, IInv, TypeOK, Sane
<1>2. /\ job' \in [Jobs -> [pc: {"free", "waiting", "written", "inserted"}, at: 0..now]]
      /\ \A i \in Jobs : job'[i] = IF i = j THEN new ELSE job[i]
  BY <1>1 DEF IInv, TypeOK
<1>3. TypeOK'
  BY <1>1, <1>2 DEF IInv, TypeOK
<1>4. Sane' /\ RowKnows' /\ SilenceAccounted'
  BY <1>1, <1>2 DEF IInv, Sane, RowKnows, SilenceAccounted, GapRow, AnalysisRow
<1>5. GapsAreSilent'
  BY <1>1 DEF IInv, Silence, GapsAreSilent, Gaps
<1>6. \A r \in sound' : Behind(r)'
  <2>1. \A r \in sound : r.at <= now
    BY <1>1 DEF IInv, TypeOK
  <2>2. QED
    BY <1>1, <1>2, <2>1 DEF IInv, Silence, Behind, Gapping, Receipting
<1>7. ASSUME solo' PROVE Alone'
  <2>1. /\ \A t \in Ticks : ~Gapping(t)
        /\ \A i \in Jobs : ~Receipting(i)
    BY <1>1, <1>7 DEF Finalizing, Gapping, Receipting
  <2>2. QED
    BY <1>1, <1>2, <2>1 DEF Alone, Gapping, Receipting
<1>8. QED
  BY <1>3, <1>4, <1>5, <1>6, <1>7 DEF IInv, Silence

\* The row is there, with lastRunAt still to come.
LEMMA InsertAnalysisIInv == ASSUME IInv, NEW j \in Jobs, InsertAnalysis(j) PROVE IInv'
<1> DEFINE new == [job[j] EXCEPT !.pc = "inserted"]
           a == AnalysisRow(j)
<1>1. /\ job[j].pc = "written" /\ job' = [job EXCEPT ![j] = new]
      /\ job[j] \in [pc: {"free", "waiting", "written", "inserted"}, at: 0..now]
      /\ job[j].at \in Nat /\ job[j].at > 0 /\ job[j].at <= now
      /\ now \in Nat /\ target.last \in Nat
      /\ rows \subseteq [kind: {"analysis", "gap"}, from: 0..now, at: 1..now]
      /\ rows' = rows \cup {a}
      /\ UNCHANGED <<now, target, cron, tick, solo, sound>>
  BY ScheduleAssumption DEF InsertAnalysis, IInv, TypeOK, Sane, AnalysisRow
<1>2. /\ new \in [pc: {"free", "waiting", "written", "inserted"}, at: 0..now]
      /\ new.pc = "inserted" /\ new.at = job[j].at
  BY <1>1
<1>3. /\ a.kind = "analysis" /\ a.from = job[j].at /\ a.at = job[j].at
      /\ a \in [kind: {"analysis", "gap"}, from: 0..now, at: 1..now]
  BY <1>1 DEF AnalysisRow
<1> HIDE DEF new
<1>4. /\ job' \in [Jobs -> [pc: {"free", "waiting", "written", "inserted"}, at: 0..now]]
      /\ \A i \in Jobs : job'[i] = IF i = j THEN new ELSE job[i]
  BY <1>1, <1>2 DEF IInv, TypeOK
<1>5. /\ \A i \in Jobs : AnalysisRow(i)' = AnalysisRow(i)
      /\ \A t \in Ticks : GapRow(t)' = GapRow(t)
  BY <1>1, <1>2, <1>4 DEF AnalysisRow, GapRow
<1>6. TypeOK'
  BY <1>1, <1>3, <1>4 DEF IInv, TypeOK
<1>7. Sane'
  BY <1>1, <1>2, <1>4 DEF IInv, Sane
<1>8. RowKnows' /\ SilenceAccounted'
  BY <1>1, <1>2, <1>4, <1>5 DEF IInv, RowKnows, SilenceAccounted
<1>9. Silence'
  BY <1>1, <1>2, <1>4, QuietOrder DEF Gapping, Receipting
<1>10. QED
  BY <1>6, <1>7, <1>8, <1>9 DEF IInv

\* A job that is over, or starts again, without a row of its own left behind.
LEMMA MoveJob ==
  ASSUME IInv, NEW j \in Jobs, NEW new \in {Free, [pc |-> "waiting", at |-> 0]},
         job[j].pc # "free", job' = [job EXCEPT ![j] = new]
  PROVE  /\ job' \in [Jobs -> [pc: {"free", "waiting", "written", "inserted"}, at: 0..now]]
         /\ \A i \in Jobs : job'[i] = IF i = j THEN new ELSE job[i]
         /\ target.exists
         /\ new.pc \in {"free", "waiting"}
  BY ScheduleAssumption DEF Free, IInv, TypeOK, Sane

\* lastRunAt goes to the time of the row inserted just before.
LEMMA UpdateTargetIInv == ASSUME IInv, NEW j \in Jobs, UpdateTarget(j) PROVE IInv'
<1>1. /\ job[j].pc = "inserted" /\ job' = [job EXCEPT ![j] = Free]
      /\ target' = [target EXCEPT !.last = job[j].at]
      /\ target \in [exists: BOOLEAN, active: BOOLEAN, interval: Intervals, last: 0..now]
      /\ job[j].at \in 0..now /\ now \in Nat /\ target.last \in Nat
      /\ rows \subseteq [kind: {"analysis", "gap"}, from: 0..now, at: 1..now]
      /\ Finished(AnalysisRow(j))
      /\ UNCHANGED <<now, cron, tick, rows, solo>>
  BY ScheduleAssumption DEF UpdateTarget, IInv, TypeOK
<1>2. /\ job' \in [Jobs -> [pc: {"free", "waiting", "written", "inserted"}, at: 0..now]]
      /\ \A i \in Jobs : job'[i] = IF i = j THEN Free ELSE job[i]
      /\ target.exists
  BY <1>1, MoveJob
<1>3. /\ target' \in [exists: BOOLEAN, active: BOOLEAN, interval: Intervals, last: 0..now]
      /\ target'.last = job[j].at /\ target'.exists
  BY <1>1, <1>2
<1>4. /\ AnalysisRow(j) \in rows
      /\ AnalysisRow(j).at = job[j].at /\ AnalysisRow(j).from = job[j].at
  BY <1>1 DEF IInv, RowKnows, AnalysisRow
<1>5. TypeOK'
  BY <1>1, <1>2, <1>3, <1>4 DEF IInv, TypeOK, Finished
<1>6. Sane' /\ RowKnows' /\ SilenceAccounted'
  BY <1>1, <1>2, <1>3, <1>4
  DEF IInv, Sane, RowKnows, SilenceAccounted, GapRow, AnalysisRow, Free
<1>7. Silence'
  <2>1. \A r \in sound : r.at <= job[j].at
    BY <1>1 DEF IInv, Silence, Behind, Receipting
  <2>2. /\ \A t \in Ticks : Gapping(t)' => Gapping(t) /\ tick'[t].from = tick[t].from
        /\ \A i \in Jobs : Receipting(i)' => Receipting(i) /\ i # j /\ job'[i].at = job[i].at
    BY <1>1, <1>2 DEF Gapping, Receipting, Free
  <2>3. solo => /\ \A t \in Ticks : ~Gapping(t)'
                /\ \A i \in Jobs : ~Receipting(i)'
    BY <1>1, <2>2 DEF IInv, Silence, Alone, Receipting
  <2>4. QED
    BY <1>1, <1>3, <1>4, <2>1, <2>2, <2>3, FinishedSilence
<1>8. QED
  BY <1>5, <1>6, <1>7 DEF IInv

\* A job that fails gives up its receipt, or leaves its row without an update.
LEMMA JobFailsIInv == ASSUME IInv, NEW j \in Jobs, JobFails(j) PROVE IInv'
<1>1. PICK new \in {Free, [pc |-> "waiting", at |-> 0]} : job' = [job EXCEPT ![j] = new]
  BY DEF JobFails
<1>2. /\ job[j].pc # "free"
      /\ UNCHANGED <<now, target, cron, tick, rows, solo, sound>>
  BY DEF JobFails
<1>3. /\ job' \in [Jobs -> [pc: {"free", "waiting", "written", "inserted"}, at: 0..now]]
      /\ \A i \in Jobs : job'[i] = IF i = j THEN new ELSE job[i]
      /\ target.exists
      /\ new.pc \in {"free", "waiting"}
  BY <1>1, <1>2, MoveJob
<1>4. TypeOK' /\ Sane' /\ RowKnows' /\ SilenceAccounted'
  BY <1>2, <1>3
  DEF IInv, TypeOK, Sane, RowKnows, SilenceAccounted, GapRow, AnalysisRow
<1>5. Silence'
  BY <1>2, <1>3, QuietOrder DEF Gapping, Receipting
<1>6. QED
  BY <1>4, <1>5 DEF IInv

(***************************************************************************)
(* The theorems                                                            *)
(***************************************************************************)
\* Every step preserves the inductive invariant.
LEMMA NextIInv == IInv /\ [Next]_vars => IInv'
<1> SUFFICES ASSUME IInv, [Next]_vars PROVE IInv'
  OBVIOUS
<1>1. CASE Advance \/ Routes
  BY <1>1, AdvanceIInv, RoutesIInv, CreateIInv DEF Routes
<1>2. ASSUME NEW p \in Procs, Process(p) PROVE IInv'
  BY <1>2, StopIInv, BootIInv DEF Process
<1>3. ASSUME NEW t \in Ticks, Callback(t) PROVE IInv'
  BY <1>3, TickIInv, RecordGapIInv, InsertGapIInv, UpdateGapIInv, EnqueueTickIInv
  DEF Callback
<1>4. ASSUME NEW j \in Jobs, Work(j) PROVE IInv'
  BY <1>4, WriteReceiptIInv, InsertAnalysisIInv, UpdateTargetIInv, JobFailsIInv DEF Work
<1>5. CASE UNCHANGED vars
  <2>1. TypeOK' /\ Sane' /\ RowKnows' /\ SilenceAccounted'
    BY <1>5
    DEF vars, IInv, TypeOK, Sane, RowKnows, SilenceAccounted, GapRow, AnalysisRow
  <2>2. Silence'
    BY <1>5, QuietOrder DEF vars, Gapping, Receipting
  <2>3. QED
    BY <2>1, <2>2 DEF IInv
<1>6. QED
  BY <1>1, <1>2, <1>3, <1>4, <1>5 DEF Next

\* The inductive invariant holds in every reachable state.
LEMMA IInvHolds == Spec => []IInv
<1>1. Init => IInv
  BY InitIInv
<1>2. QED
  BY <1>1, NextIInv, PTL DEF Spec

\* Type correctness: no receipt lies in the future, and lastRunAt neither.
THEOREM TypeCorrect == Spec => []TypeOK
<1>1. IInv => TypeOK
  BY DEF IInv
<1>2. QED
  BY <1>1, IInvHolds, PTL

\* However many processes tick, and whatever receipts overlap, are cut off or
\* fail before or since: a gap and another receipt, each made without another
\* in the making and finished with its lastRunAt, do not overlap.
THEOREM GapsAreSilentHolds == Spec => []GapsAreSilent
<1>1. IInv => GapsAreSilent
  BY DEF IInv, Silence
<1>2. QED
  BY <1>1, IInvHolds, PTL

\* No tick queues an analysis over a silence of more than 1.5 intervals, unless
\* record-gap failed or nothing has been finalized yet.
THEOREM SilenceAccountedHolds == Spec => []SilenceAccounted
<1>1. IInv => SilenceAccounted
  BY DEF IInv
<1>2. QED
  BY <1>1, IInvHolds, PTL
=============================================================================
