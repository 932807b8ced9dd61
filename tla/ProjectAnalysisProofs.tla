----------------------- MODULE ProjectAnalysisProofs -----------------------
(***************************************************************************)
(* Safety of ProjectAnalysis for any number of invocations, queued or not. *)
(* Core is what the position of an invocation says of its verdict, timer,  *)
(* child and checkout, with the types; it is inductive by itself, and each *)
(* property adds the few facts it needs:                                   *)
(*   RowsKept      the rows of runs against the position and the verdict   *)
(*   Owed          who will yet write the status while it is "analyzing"   *)
(*   ApartAlone    what the histories say about who is busy                *)
(*   LatestTells   whose verdict the status shows when nothing overlapped  *)
(*   DirsKnown     who made the directories an invocation can see          *)
(*   Made, NewestRow, BaseKnown                                            *)
(*                 which rows there are when one picks the base to compare *)
(*                 with, and whose directory the base is                   *)
(***************************************************************************)
EXTENDS ProjectAnalysis, FiniteSetTheorems, SequenceTheorems, TLAPS

-----------------------------------------------------------------------------
(***************************************************************************)
(* The invariants                                                          *)
(***************************************************************************)
Unstarted ==
  {"idle", "ingest", "lookup", "mark", "clear", "applyRow", "applyRun",
   "applyStatus", "applyVerdict", "reportHit", "launch", "noPython", "early"}
Undecided ==
  {"idle", "ingest", "lookup", "mark", "clear", "applyRow", "applyRun",
   "applyStatus", "reportHit", "collect", "read", "saveRow", "saveRun"}
AfterClose ==
  {"collect", "read", "saveRow", "saveRun", "decide", "report95", "finalize",
   "unwritten"}

\* No child yet, then a child whose exit nobody has handled, then none any
\* more; and the timer and the verdict that go with each.
Place(r) ==
  /\ pc[r] \in Unstarted => child[r] = "none"
  /\ child[r] = "none" => timer[r] = "off" /\ own[r] = 0
  /\ pc[r] \in AfterClose => child[r] = "closed" /\ timer[r] = "off"
  /\ pc[r] \in {"returned", "failed"} =>
       child[r] \in {"none", "closed"} /\ timer[r] # "armed"
  /\ pc[r] = "returned" => timer[r] = "off"
  /\ pc[r] \in {"report20", "wait", "unreported"} =>
       child[r] # "none" /\ (verdict[r] = "none" => timer[r] = "armed")
  /\ pc[r] = "dead" => timer[r] \in {"off", "wrote"}
  /\ timer[r] \in {"writing", "wrote"} => verdict[r] = "failed"
  /\ pc[r] \in Undecided => verdict[r] = "none"
  /\ pc[r] = "noPython" => verdict[r] = "failed"
  /\ pc[r] = "decide" => verdict[r] # "none"
  /\ pc[r] \in {"applyVerdict", "report95", "finalize"} => verdict[r] = "completed"
  /\ pc[r] \in {"ingest", "lookup", "reportHit", "report20", "unreported", "finalize"} =>
       r \in Queued
  /\ pc[r] = "applyVerdict" => r \notin Queued
  /\ own[r] # 1

\* The analyses an invocation has inserted, and its checkout.
Holds(r) ==
  /\ pc[r] \in {"idle", "ingest", "lookup", "mark", "clear", "applyRow"} => saved[r] = 0
  /\ pc[r] \in {"applyRun", "applyStatus"} => saved[r] = 1
  /\ pc[r] \in {"applyVerdict", "launch", "report20", "wait", "collect", "read",
                "saveRow"} => saved[r] <= 1
  /\ pc[r] = "saveRun" => saved[r] > 0
  /\ verdict[r] = "completed" => saved[r] > 0
  /\ pc[r] \in {"idle", "ingest", "lookup", "mark", "clear", "applyRow", "applyRun",
                "applyStatus"} => temp[r] # "released"
  /\ pc[r] \in {"launch", "report20", "wait"} =>
       (temp[r] = "released" => verdict[r] = "completed")
  /\ pc[r] \in {"applyVerdict", "reportHit", "report95", "finalize", "returned",
                "failed", "unwritten", "unreported"} => temp[r] = "released"

\* The invocation has its row of runs from the analysis of this start.
HasRow(r) ==
  pc[r] \in {"report95", "finalize"} \/ (pc[r] = "decide" /\ verdict[r] = "completed")

TableGrows ==
  /\ Len(table) >= 1
  /\ table[1] = [run |-> "earlier", dir |-> 1, whole |-> TRUE]
  /\ \A i \in DOMAIN table : i # 1 => table[i].run \in Runs
  /\ \A r \in Runs : HasRow(r) => Len(table) >= 2

Core ==
  /\ TypeOK
  /\ \A r \in Runs : Place(r) /\ Holds(r)
  /\ TableGrows

\* A row of runs is inserted after the row of analyses, and a full one only by
\* the verdict that goes with it.
RowsOf(r) ==
  /\ Cardinality(FullRows(r)) <= 1
  /\ FullRows(r) # {} => verdict[r] = "completed"
  /\ Cardinality(Rows(r)) <= saved[r]
  /\ pc[r] \in {"applyRun", "saveRun"} => Cardinality(Rows(r)) + 1 <= saved[r]
  /\ HasRow(r) \/ pc[r] \in {"applyStatus", "applyVerdict", "reportHit", "returned"} =>
       Rows(r) # {}
RowsKept == \A r \in Runs : RowsOf(r)

\* The invocation set the status to "analyzing" and has its own write to come.
Owes(r) ==
  \/ timer[r] = "writing"
  \/ pc[r] \in {"clear", "noPython", "decide"}
  \/ pc[r] \in {"applyRow", "applyRun", "applyStatus"} /\ r \notin Queued
  \/ /\ pc[r] \in {"launch", "report20", "wait", "unreported", "collect", "read",
                   "saveRow", "saveRun"}
     /\ verdict[r] = "none"

Owed ==
  status = "analyzing" =>
    \E r \in Runs : Owes(r) \/ pc[r] \in {"early", "unwritten", "dead"}

\* An invocation that nothing has overlapped is the only busy one while it is
\* busy, and nobody else is as long as no other has begun.
ApartAlone ==
  \A r \in apart : r = latest \/ Busy(r) => \A q \in Runs : Busy(q) => q = r

LatestTells ==
  latest \in apart /\ pc[latest] \in {"reportHit", "report95", "finalize", "returned"} =>
    status = "completed"

\* The invocation has deleted out/<id> and is still at work.
Cleared(r) ==
  \/ pc[r] \in {"launch", "noPython", "report20", "wait", "collect", "read",
                "saveRow", "saveRun", "decide", "report95", "finalize"}
  \/ pc[r] \in {"applyRow", "applyRun", "applyStatus", "applyVerdict"} /\ r \notin Queued

\* An invocation that nothing overlaps sees no directory but its own.
Sole == \A r \in apart : Cleared(r) =>
          \A n \in Names : out[n] # "absent" => n = own[r]

FoundOwn ==
  \A r \in apart :
    /\ pc[r] = "read" =>
         /\ found[r].dir = own[r]
         /\ found[r].dir \in Names
         /\ out[found[r].dir] = "complete"
    /\ pc[r] \in {"saveRow", "saveRun"} => found[r].dir = own[r] /\ found[r].whole

DirsKnown == Sole /\ FoundOwn /\ ReportsOwnUnlessOverlapped

\* The directory before all of these is gone after the first start, and what
\* one invocation sees, takes or records was not made by another one that
\* nothing overlapped.
MadeBy(n, r) == \E x \in Runs \ {r} : own[x] = n
Made ==
  /\ \A p \in Runs : Cleared(p) => out[1] = "absent"
  /\ \A p \in Runs : \A r \in apart \ {p} :
       /\ Cleared(p) => \A n \in Names : out[n] # "absent" => MadeBy(n, r)
       /\ found[p].dir # 0 => MadeBy(found[p].dir, r)
  /\ \A i \in DOMAIN table : \A r \in apart :
       table[i].run \in Runs \ {r} /\ table[i].dir # 0 => MadeBy(table[i].dir, r)

\* A queued invocation that nothing overlaps has one row of runs, the newest,
\* when it comes to finalize its receipt.
NewestRow ==
  \A r \in Queued :
    /\ pc[r] \in {"idle", "ingest", "lookup", "applyRow", "applyRun", "mark", "clear",
                  "launch", "report20", "wait", "collect", "read", "saveRow", "saveRun"} =>
         Rows(r) = {}
    /\ r \in apart /\ HasRow(r) => Rows(r) = {Len(table)}

BaseKnown ==
  \A d \in diffs : d.run \in apart =>
    /\ d.with # d.run
    /\ \/ d.base \in {"absent", "elsewhere"}
       \/ /\ d.with \in Runs
          /\ own[d.run] # 0
          /\ MadeBy(own[d.run], d.run)

-----------------------------------------------------------------------------
(***************************************************************************)
(* Steps                                                                   *)
(***************************************************************************)
Move(r) == (Code(r) \/ Child(r) \/ Timer(r)) /\ UNCHANGED history

\* The types of what belongs to one invocation.
LocalTypes ==
  /\ pc \in [Runs -> {"idle"} \cup Steps \cup Ended]
  /\ verdict \in [Runs -> {"none", "completed", "failed"}]
  /\ timer \in [Runs -> {"off", "armed", "writing", "wrote"}]
  /\ child \in [Runs -> {"none", "unspawned", "running", "wrote", "done", "bad", "closed"}]
  /\ own \in [Runs -> {0} \cup Names]
  /\ found \in [Runs -> [dir: {0} \cup Names, whole: BOOLEAN]]
  /\ saved \in [Runs -> 0..2]
  /\ temp \in [Runs -> {"none", "held", "released"}]

\* Directory names are numbers from 1 on.
LEMMA NamesAreNumbers ==
  Names \subseteq Nat /\ 1 \in Names /\ 0 \notin Names
<1>1. Cardinality(Runs) \in Nat
  BY RunsAssumption, FS_CardinalityType
<1>2. QED
  BY <1>1 DEF Names

\* An invocation, its child and its timer touch nothing of another invocation.
LEMMA OthersStay ==
  ASSUME LocalTypes, NEW r \in Runs, Move(r) \/ Begin(r), NEW q \in Runs, q # r
  PROVE  /\ pc'[q] = pc[q]
         /\ verdict'[q] = verdict[q]
         /\ timer'[q] = timer[q]
         /\ child'[q] = child[q]
         /\ own'[q] = own[q]
         /\ found'[q] = found[q]
         /\ saved'[q] = saved[q]
         /\ temp'[q] = temp[q]
<1>. USE DEF LocalTypes, At, Hold, Release, Disarm, shared
<1>1. CASE Begin(r)
  BY <1>1 DEF Begin
<1>2. CASE Before(r)
  BY <1>2 DEF Before, Ingest, IngestFails, Lookup, Mark, Clear
<1>3. CASE CacheHit(r)
  BY <1>3 DEF CacheHit, HitFails, ApplyRow, ApplyRun, ApplyStatus, ApplyVerdict, ReportHit
<1>4. CASE Start(r)
  BY <1>4 DEF Start, Launch, NoPython, Report20
<1>5. CASE SpawnError(r) \/ Close(r) \/ Unheard(r)
  BY <1>5 DEF SpawnError, Close, Unheard
<1>6. CASE Collect(r) \/ Read(r) \/ SaveRow(r) \/ SaveRun(r)
  BY <1>6 DEF Collect, Read, SaveRow, SaveRun, SaveError
<1>7. CASE Decide(r) \/ Report95(r) \/ Finalize(r)
  BY <1>7 DEF Decide, Report95, Finalize
<1>8. CASE Child(r)
  BY <1>8 DEF Child, MakeDirectory, WriteArtifacts, Exit
<1>9. CASE Timer(r)
  BY <1>9 DEF Timer, TimeOut, LateWrite
<1>10. QED
  BY <1>1, <1>2, <1>3, <1>4, <1>5, <1>6, <1>7, <1>8, <1>9 DEF Move, Code, Handle

\* What an invocation, its child and its timer do to what is their own: types,
LEMMA OwnTypes ==
  ASSUME LocalTypes, NEW r \in Runs, Place(r), Holds(r), Move(r) \/ Begin(r)
  PROVE  LocalTypes'
<1>. USE DEF Move, Code, Before, CacheHit, Start, Handle, Child, Timer, At, Hold, Release,
     Disarm, shared, Begin, Ingest, IngestFails, Lookup, Mark, Clear, HitFails, ApplyRow,
     ApplyRun, ApplyStatus, ApplyVerdict, ReportHit, Launch, NoPython, Report20,
     SpawnError, Close, Unheard, Collect, Read, SaveRow, SaveRun, SaveError, Decide,
     Report95, Finalize, MakeDirectory, WriteArtifacts, Exit, TimeOut, LateWrite
<1>1. pc' \in [Runs -> {"idle"} \cup Steps \cup Ended]
  <2>1. pc' = pc \/ \E to \in Steps \cup Ended : pc' = [pc EXCEPT ![r] = to]
    BY DEF Steps, Ended
  <2>2. QED
    BY <2>1 DEF LocalTypes
<1>2. verdict' \in [Runs -> {"none", "completed", "failed"}]
  <2>1. \/ verdict' = verdict
        \/ \E v \in {"completed", "failed"} : verdict' = [verdict EXCEPT ![r] = v]
    OBVIOUS
  <2>2. QED
    BY <2>1 DEF LocalTypes
<1>3. timer' \in [Runs -> {"off", "armed", "writing", "wrote"}]
  <2>1. \/ timer' = timer
        \/ \E t \in {"off", "armed", "writing", "wrote"} : timer' = [timer EXCEPT ![r] = t]
    BY DEF LocalTypes
  <2>2. QED
    BY <2>1 DEF LocalTypes
<1>4. child' \in [Runs -> {"none", "unspawned", "running", "wrote", "done", "bad", "closed"}]
  <2>1. \/ child' = child
        \/ \E c \in {"none", "unspawned", "running", "wrote", "done", "bad", "closed"} :
             child' = [child EXCEPT ![r] = c]
    BY DEF LocalTypes
  <2>2. QED
    BY <2>1 DEF LocalTypes
<1>5. own' \in [Runs -> {0} \cup Names]
  <2>1. own' = own \/ \E n \in Names : own' = [own EXCEPT ![r] = n]
    OBVIOUS
  <2>2. QED
    BY <2>1 DEF LocalTypes
<1>6. found' \in [Runs -> [dir: {0} \cup Names, whole: BOOLEAN]]
  <2>1. found' = found \/ \E d \in {0} \cup Names, w \in BOOLEAN :
                           found' = [found EXCEPT ![r] = [dir |-> d, whole |-> w]]
    BY DEF LocalTypes, ArtifactsThere
  <2>2. QED
    BY <2>1 DEF LocalTypes
<1>7. saved' \in [Runs -> 0..2]
  <2>1. saved' = saved \/ (saved[r] <= 1 /\ saved' = [saved EXCEPT ![r] = saved[r] + 1])
    BY DEF Holds
  <2>2. QED
    BY <2>1 DEF LocalTypes
<1>8. temp' \in [Runs -> {"none", "held", "released"}]
  <2>1. temp' = temp \/ \E t \in {"held", "released"} : temp' = [temp EXCEPT ![r] = t]
    OBVIOUS
  <2>2. QED
    BY <2>1 DEF LocalTypes
<1>9. QED
  BY <1>1, <1>2, <1>3, <1>4, <1>5, <1>6, <1>7, <1>8 DEF LocalTypes

\* place,
LEMMA OwnPlace ==
  ASSUME LocalTypes, NEW r \in Runs, Place(r), Move(r) \/ Begin(r)
  PROVE  Place(r)'
<1>. USE NamesAreNumbers
     DEF LocalTypes, Place, Unstarted, Undecided, AfterClose, At, Disarm, shared
<1>1. CASE Begin(r)
  BY <1>1 DEF Begin
<1>2. CASE Before(r)
  BY <1>2 DEF Before, Ingest, IngestFails, Lookup, Mark, Clear
<1>3. CASE CacheHit(r)
  BY <1>3 DEF CacheHit, HitFails, ApplyRow, ApplyRun, ApplyStatus, ApplyVerdict, ReportHit
<1>4. CASE Start(r)
  BY <1>4 DEF Start, Launch, NoPython, Report20
<1>5. CASE SpawnError(r) \/ Close(r) \/ Unheard(r)
  BY <1>5 DEF SpawnError, Close, Unheard
<1>6. CASE Collect(r) \/ Read(r) \/ SaveRow(r) \/ SaveRun(r)
  BY <1>6 DEF Collect, Read, SaveRow, SaveRun, SaveError, ArtifactsThere
<1>7. CASE Decide(r) \/ Report95(r) \/ Finalize(r)
  BY <1>7 DEF Decide, Report95, Finalize
<1>8. CASE Child(r)
  BY <1>8 DEF Child, MakeDirectory, WriteArtifacts, Exit, Alive
<1>9. CASE Timer(r)
  BY <1>9 DEF Timer, TimeOut, LateWrite, Alive
<1>10. QED
  BY <1>1, <1>2, <1>3, <1>4, <1>5, <1>6, <1>7, <1>8, <1>9 DEF Move, Code, Handle

\* rows and checkout.
LEMMA OwnHolds ==
  ASSUME LocalTypes, NEW r \in Runs, Place(r), Holds(r), Move(r) \/ Begin(r)
  PROVE  Holds(r)'
<1>. USE DEF LocalTypes, Holds, At, Hold, Release, shared, Place, Undecided
<1>1. CASE Begin(r)
  BY <1>1 DEF Begin
<1>2. CASE Before(r)
  BY <1>2 DEF Before, Ingest, IngestFails, Lookup, Mark, Clear
<1>3. CASE CacheHit(r)
  BY <1>3 DEF CacheHit, HitFails, ApplyRow, ApplyRun, ApplyStatus, ApplyVerdict, ReportHit
<1>4. CASE Start(r)
  BY <1>4 DEF Start, Launch, NoPython, Report20
<1>5. CASE SpawnError(r) \/ Close(r) \/ Unheard(r)
  BY <1>5 DEF SpawnError, Close, Unheard
<1>6. CASE Collect(r) \/ Read(r) \/ SaveRow(r) \/ SaveRun(r)
  BY <1>6 DEF Collect, Read, SaveRow, SaveRun, SaveError, ArtifactsThere
<1>7. CASE Decide(r) \/ Report95(r) \/ Finalize(r)
  BY <1>7 DEF Decide, Report95, Finalize
<1>8. CASE Child(r)
  BY <1>8 DEF Child, MakeDirectory, WriteArtifacts, Exit, Alive
<1>9. CASE Timer(r)
  BY <1>9 DEF Timer, TimeOut, LateWrite, Alive
<1>10. QED
  BY <1>1, <1>2, <1>3, <1>4, <1>5, <1>6, <1>7, <1>8, <1>9 DEF Move, Code, Handle

Row(r, d, w) == [run |-> r, dir |-> d, whole |-> w]

\* What a step does to the rows of runs.
LEMMA TableStep ==
  ASSUME LocalTypes, NEW r \in Runs, Move(r) \/ Begin(r)
  PROVE  \/ table' = table
         \/ /\ pc[r] = "applyRun" /\ pc'[r] = "applyStatus"
            /\ UNCHANGED <<saved, verdict, own, out, apart>>
            /\ table' = Append(table, Row(r, 0, FALSE))
         \/ /\ pc[r] = "saveRun" /\ pc'[r] = "decide"
            /\ verdict'[r] = "completed"
            /\ UNCHANGED <<saved, own, out, apart>>
            /\ table' = Append(table, Row(r, found[r].dir, found[r].whole))
  BY DEF Row, LocalTypes, history, Move, Code, Before, CacheHit, Start, Handle, Child,
     Timer, At, Hold, Release, Disarm, shared, Begin, Ingest, IngestFails, Lookup, Mark,
     Clear, HitFails, ApplyRow, ApplyRun, ApplyStatus, ApplyVerdict, ReportHit, Launch,
     NoPython, Report20, SpawnError, Close, Unheard, Collect, Read, SaveRow, SaveRun,
     SaveError, Decide, Report95, Finalize, MakeDirectory, WriteArtifacts, Exit, TimeOut,
     LateWrite

\* What a step does to the status.
LEMMA StatusStep ==
  ASSUME LocalTypes, NEW r \in Runs, Place(r), Move(r) \/ Begin(r)
  PROVE  \/ status' = status
         \/ pc[r] = "mark" /\ pc'[r] = "clear" /\ status' = "analyzing"
         \/ /\ pc[r] \in {"applyStatus", "applyVerdict"}
            /\ status' = "completed"
         \/ pc[r] = "noPython" /\ pc'[r] = "failed" /\ status' = "failed"
         \/ /\ pc[r] = "decide"
            /\ status' = verdict[r]
            /\ pc'[r] = IF verdict[r] = "completed" THEN "report95" ELSE "failed"
         \/ timer[r] = "writing" /\ status' = "failed"
  BY DEF Place, LocalTypes, history, Move, Code, Before, CacheHit, Start, Handle, Child,
     Timer, At, Hold, Release, Disarm, shared, Begin, Ingest, IngestFails, Lookup, Mark,
     Clear, HitFails, ApplyRow, ApplyRun, ApplyStatus, ApplyVerdict, ReportHit, Launch,
     NoPython, Report20, SpawnError, Close, Unheard, Collect, Read, SaveRow, SaveRun,
     SaveError, Decide, Report95, Finalize, MakeDirectory, WriteArtifacts, Exit, TimeOut,
     LateWrite

\* What a step does to out/<id>/runs.
LEMMA OutStep ==
  ASSUME LocalTypes, NEW r \in Runs, Place(r), Move(r) \/ Begin(r)
  PROVE  \/ UNCHANGED <<out, own>>
         \/ /\ pc[r] = "clear" /\ UNCHANGED own
            /\ \/ out' = [n \in Names |-> "absent"]
               \/ out' = out /\ pc'[r] = "early"
         \/ /\ child[r] = "running" /\ own[r] = 0
            /\ \E n \in Names \ {1} :
                 /\ own' = [own EXCEPT ![r] = n]
                 /\ out' = [out EXCEPT ![n] = IF @ = "absent" THEN "partial" ELSE @]
            /\ UNCHANGED <<pc, table, found, diffs, apart, child>>
         \/ /\ child[r] = "running" /\ own[r] # 0
            /\ out[own[r]] # "absent"
            /\ out' = [out EXCEPT ![own[r]] = "complete"]
            /\ UNCHANGED <<pc, own, table, found, diffs, apart>>
  BY DEF Place, LocalTypes, history, Move, Code, Before, CacheHit, Start, Handle, Child,
     Timer, At, Hold, Release, Disarm, shared, Begin, Ingest, IngestFails, Lookup, Mark,
     Clear, HitFails, ApplyRow, ApplyRun, ApplyStatus, ApplyVerdict, ReportHit, Launch,
     NoPython, Report20, SpawnError, Close, Unheard, Collect, Read, SaveRow, SaveRun,
     SaveError, Decide, Report95, Finalize, MakeDirectory, WriteArtifacts, Exit, TimeOut,
     LateWrite

\* What a step does to the comparisons.
LEMMA DiffsStep ==
  ASSUME NEW r \in Runs, Move(r) \/ Begin(r)
  PROVE  \/ diffs' = diffs
         \/ /\ pc[r] = "finalize"
            /\ diffs' = diffs \cup {Comparison(r)}
            /\ UNCHANGED <<own, apart>>
  BY DEF history, Move, Code, Before, CacheHit, Start, Handle, Child,
     Timer, At, Hold, Release, Disarm, shared, Begin, Ingest, IngestFails, Lookup, Mark,
     Clear, HitFails, ApplyRow, ApplyRun, ApplyStatus, ApplyVerdict, ReportHit, Launch,
     NoPython, Report20, SpawnError, Close, Unheard, Collect, Read, SaveRow, SaveRun,
     SaveError, Decide, Report95, Finalize, MakeDirectory, WriteArtifacts, Exit, TimeOut,
     LateWrite

\* A death takes invocations of one process and nothing but their position and
\* their timers.
LEMMA CrashStep ==
  ASSUME LocalTypes, NEW r \in Runs, Crash(r), UNCHANGED history,
         \A q \in Runs : Place(q) /\ Holds(q)
  PROVE  /\ LocalTypes'
         /\ UNCHANGED <<shared, verdict, child, own, found, saved, temp, history>>
         /\ \A q \in Runs : \/ pc'[q] = pc[q] /\ timer'[q] = timer[q]
                            \/ /\ pc'[q] = "dead"
                               /\ timer'[q] = "off" \/ (timer'[q] = "wrote" /\ timer[q] = "wrote")
         /\ \A q \in Runs : Place(q)' /\ Holds(q)'
<1>1. UNCHANGED <<shared, verdict, child, own, found, saved, temp, history>>
  BY DEF Crash
<1>2. \A q \in Runs :
        \/ pc'[q] = pc[q] /\ timer'[q] = timer[q]
        \/ /\ pc'[q] = "dead"
           /\ timer'[q] = "off" \/ (timer'[q] = "wrote" /\ timer[q] = "wrote")
  <2>. SUFFICES ASSUME NEW q \in Runs
                PROVE  \/ pc'[q] = pc[q] /\ timer'[q] = timer[q]
                       \/ /\ pc'[q] = "dead"
                          /\ timer'[q] = "off" \/ (timer'[q] = "wrote" /\ timer[q] = "wrote")
    OBVIOUS
  <2>1. timer[q] \in {"off", "armed", "writing", "wrote"}
    BY DEF LocalTypes
  <2>2. pc'[q] = IF q \in Process(r) /\ Pending(q) THEN "dead" ELSE pc[q]
    BY DEF Crash
  <2>3. timer'[q] = IF q \in Process(r) /\ timer[q] # "wrote" THEN "off" ELSE timer[q]
    BY DEF Crash
  <2>4. CASE q \notin Process(r)
    BY <2>2, <2>3, <2>4
  <2>5. CASE q \in Process(r) /\ Pending(q)
    BY <2>2, <2>3, <2>5
  <2>6. CASE q \in Process(r) /\ ~Pending(q)
    BY <2>1, <2>2, <2>3, <2>6 DEF Pending
  <2>7. QED
    BY <2>4, <2>5, <2>6
<1>3. LocalTypes'
  BY <1>1 DEF Crash, LocalTypes, Ended
<1>4. \A q \in Runs : Place(q)' /\ Holds(q)'
  <2>. SUFFICES ASSUME NEW q \in Runs
                PROVE  Place(q)' /\ Holds(q)'
    OBVIOUS
  <2>1. CASE pc'[q] = pc[q] /\ timer'[q] = timer[q]
    BY <2>1, <1>1 DEF Place, Holds
  <2>2. CASE /\ pc'[q] = "dead"
             /\ timer'[q] = "off" \/ (timer'[q] = "wrote" /\ timer[q] = "wrote")
    BY <2>2, <1>1 DEF Place, Holds, Unstarted, Undecided, AfterClose
  <2>3. QED
    BY <2>1, <2>2, <1>2
<1>5. QED
  BY <1>1, <1>2, <1>3, <1>4

\* The two lemmas above, for the types and places of all invocations.
LEMMA LocalStep ==
  ASSUME LocalTypes, \A q \in Runs : Place(q) /\ Holds(q), [Next]_vars
  PROVE  LocalTypes' /\ \A q \in Runs : Place(q)' /\ Holds(q)'
<1>1. ASSUME NEW r \in Runs, Move(r) \/ Begin(r)
      PROVE  LocalTypes' /\ \A q \in Runs : Place(q)' /\ Holds(q)'
  <2>1. LocalTypes' /\ Place(r)' /\ Holds(r)'
    BY <1>1, OwnTypes, OwnPlace, OwnHolds
  <2>2. ASSUME NEW q \in Runs, q # r
        PROVE  Place(q)' /\ Holds(q)'
    BY <1>1, <2>2, OthersStay DEF Place, Holds
  <2>3. QED
    BY <2>1, <2>2
<1>2. ASSUME NEW r \in Runs, Crash(r), UNCHANGED history
      PROVE  LocalTypes' /\ \A q \in Runs : Place(q)' /\ Holds(q)'
  BY <1>2, CrashStep
<1>3. CASE UNCHANGED vars
  BY <1>3 DEF vars, local, LocalTypes, Place, Holds
<1>4. QED
  BY <1>1, <1>2, <1>3 DEF Next, Move

TableTypes == table \in Seq([run: Runs \cup {"earlier"}, dir: {0} \cup Names, whole: BOOLEAN])

\* Rows are only added, at the end, and each is of an invocation.
LEMMA RowsGrow ==
  ASSUME LocalTypes, TableTypes, \A q \in Runs : Place(q) /\ Holds(q), [Next]_vars
  PROVE  \/ table' = table
         \/ \E r \in Runs, d \in {0} \cup Names, w \in BOOLEAN :
              table' = Append(table, Row(r, d, w))
<1>1. ASSUME NEW r \in Runs, Move(r) \/ Begin(r)
      PROVE  \/ table' = table
             \/ \E d \in {0} \cup Names, w \in BOOLEAN : table' = Append(table, Row(r, d, w))
  <2>1. found[r].dir \in {0} \cup Names /\ found[r].whole \in BOOLEAN
    BY DEF LocalTypes
  <2>2. QED
    BY <1>1, <2>1, TableStep
<1>2. ASSUME NEW r \in Runs, Crash(r)
      PROVE  table' = table
  BY <1>2 DEF Crash, shared
<1>3. CASE UNCHANGED vars
  BY <1>3 DEF vars, shared
<1>4. QED
  BY <1>1, <1>2, <1>3 DEF Next, Move

\* An appended row leaves the rest of the table as it was.
LEMMA AppendRow ==
  ASSUME TableTypes, NEW r \in Runs, NEW d \in {0} \cup Names, NEW w \in BOOLEAN,
         table' = Append(table, Row(r, d, w))
  PROVE  /\ TableTypes'
         /\ Len(table') = Len(table) + 1
         /\ Len(table) \in Nat
         /\ DOMAIN table = 1..Len(table)
         /\ DOMAIN table' = 1..(Len(table) + 1)
         /\ table'[Len(table) + 1] = Row(r, d, w)
         /\ \A i \in 1..Len(table) : table'[i] = table[i]
<1>1. Row(r, d, w) \in [run: Runs \cup {"earlier"}, dir: {0} \cup Names, whole: BOOLEAN]
  BY DEF Row
<1>2. QED
  BY <1>1, AppendProperties, LenProperties DEF TableTypes

\* What a row is.
LEMMA RowTyped ==
  ASSUME TableTypes, NEW i \in DOMAIN table
  PROVE  /\ i \in 1..Len(table) /\ Len(table) \in Nat
         /\ table[i] \in [run: Runs \cup {"earlier"}, dir: {0} \cup Names, whole: BOOLEAN]
<1>1. table \in Seq([run: Runs \cup {"earlier"}, dir: {0} \cup Names, whole: BOOLEAN])
  BY DEF TableTypes
<1>2. i \in 1..Len(table) /\ Len(table) \in Nat
  BY <1>1, LenProperties
<1>3. table[i] \in [run: Runs \cup {"earlier"}, dir: {0} \cup Names, whole: BOOLEAN]
  BY ONLY <1>1, <1>2, ElementOfSeq
<1>4. QED
  BY <1>2, <1>3

\* The invocation that comes to have its row has just added it.
LEMMA RowAdded ==
  ASSUME LocalTypes, NEW r \in Runs, Place(r), Move(r) \/ Begin(r),
         HasRow(r)', ~HasRow(r)
  PROVE  /\ pc[r] = "saveRun"
         /\ table' = Append(table, Row(r, found[r].dir, found[r].whole))
  BY DEF HasRow, Row, Place, LocalTypes, history, Move, Code, Before, CacheHit, Start,
         Handle, Child,
     Timer, At, Hold, Release, Disarm, shared, Begin, Ingest, IngestFails, Lookup, Mark,
     Clear, HitFails, ApplyRow, ApplyRun, ApplyStatus, ApplyVerdict, ReportHit, Launch,
     NoPython, Report20, SpawnError, Close, Unheard, Collect, Read, SaveRow, SaveRun,
     SaveError, Decide, Report95, Finalize, MakeDirectory, WriteArtifacts, Exit, TimeOut,
     LateWrite

\* The table begins with the row that was there, and every row has its maker.
LEMMA TableGrowsStep ==
  ASSUME TypeOK, TableGrows, \A q \in Runs : Place(q) /\ Holds(q), [Next]_vars
  PROVE  TableTypes' /\ TableGrows'
<1>1. LocalTypes /\ TableTypes
  BY DEF TypeOK, LocalTypes, TableTypes
<1>2. CASE table' = table
  <2>1. TableTypes'
    BY <1>1, <1>2 DEF TableTypes
  <2>2. ASSUME NEW q \in Runs, HasRow(q)'
        PROVE  HasRow(q)
    <3>1. ASSUME NEW r \in Runs, Move(r) \/ Begin(r)
          PROVE  HasRow(q)
      <4>1. CASE q = r
        <5>1. ASSUME NEW d \in {0} \cup Names, NEW w \in BOOLEAN
              PROVE  table' # Append(table, Row(r, d, w))
          BY <1>1, <1>2, AppendRow, LenProperties DEF TableTypes
        <5>2. found[r].dir \in {0} \cup Names /\ found[r].whole \in BOOLEAN
          BY <1>1 DEF LocalTypes
        <5>3. QED
          BY <1>1, <2>2, <3>1, <4>1, <5>1, <5>2, RowAdded
      <4>2. CASE q # r
        BY <1>1, <2>2, <3>1, <4>2, OthersStay DEF HasRow
      <4>3. QED
        BY <4>1, <4>2
    <3>2. ASSUME NEW r \in Runs, Crash(r), UNCHANGED history
          PROVE  HasRow(q)
      BY <1>1, <2>2, <3>2, CrashStep DEF HasRow
    <3>3. CASE UNCHANGED vars
      BY <2>2, <3>3 DEF vars, local, HasRow
    <3>4. QED
      BY <3>1, <3>2, <3>3 DEF Next, Move
  <2>3. QED
    BY <1>2, <2>1, <2>2 DEF TableGrows
<1>3. ASSUME NEW r \in Runs, NEW d \in {0} \cup Names, NEW w \in BOOLEAN,
             table' = Append(table, Row(r, d, w))
      PROVE  TableTypes' /\ TableGrows'
  BY <1>1, <1>3, AppendRow DEF TableGrows, Row
<1>4. QED
  BY <1>1, <1>2, <1>3, RowsGrow

\* The comparison names a row that exists.
LEMMA ComparisonTyped ==
  ASSUME TypeOK, TableGrows, NEW r \in Runs, pc[r] = "finalize"
  PROVE  /\ Len(table) - 1 \in DOMAIN table
         /\ Comparison(r) \in [run: Runs, with: Runs \cup {"earlier"},
                               base: Content \cup {"elsewhere"}]
<1>1. Len(table) \in Nat /\ Len(table) >= 2 /\ DOMAIN table = 1..Len(table)
  BY LenProperties DEF TypeOK, TableGrows, HasRow
<1>2. table[Len(table) - 1] \in [run: Runs \cup {"earlier"}, dir: {0} \cup Names, whole: BOOLEAN]
  <2>1. table \in Seq([run: Runs \cup {"earlier"}, dir: {0} \cup Names, whole: BOOLEAN])
    BY DEF TypeOK
  <2>2. Len(table) - 1 \in 1..Len(table)
    BY <1>1
  <2>. HIDE DEF TypeOK
  <2>3. QED
    BY ONLY <2>1, <2>2, ElementOfSeq
<1>3. table[Len(table) - 1].dir # 0 => out[table[Len(table) - 1].dir] \in Content
  BY <1>2 DEF TypeOK
<1>4. QED
  BY <1>1, <1>2, <1>3 DEF Comparison

\* Every step preserves Core.
LEMMA CoreStep == Core /\ [Next]_vars => Core'
<1>. SUFFICES ASSUME Core, [Next]_vars
              PROVE  Core'
  OBVIOUS
<1>1. LocalTypes /\ TypeOK /\ TableGrows /\ \A q \in Runs : Place(q) /\ Holds(q)
  BY DEF Core, LocalTypes, TypeOK
<1>2. LocalTypes' /\ \A q \in Runs : Place(q)' /\ Holds(q)'
  BY <1>1, LocalStep
<1>3. TableTypes' /\ TableGrows'
  BY <1>1, TableGrowsStep
<1>4. /\ status' \in {"analyzing", "completed", "failed"}
      /\ out' \in [Names -> Content]
      /\ diffs' \subseteq [run: Runs, with: Runs \cup {"earlier"},
                           base: Content \cup {"elsewhere"}]
      /\ apart' \subseteq Runs
      /\ latest' \in Runs \cup {"none"}
  <2>1. ASSUME NEW r \in Runs, Move(r) \/ Begin(r)
        PROVE  /\ status' \in {"analyzing", "completed", "failed"}
               /\ out' \in [Names -> Content]
               /\ diffs' \subseteq [run: Runs, with: Runs \cup {"earlier"},
                                    base: Content \cup {"elsewhere"}]
               /\ apart' \subseteq Runs
               /\ latest' \in Runs \cup {"none"}
    <3>1. status' \in {"analyzing", "completed", "failed"}
      <4>1. /\ status \in {"analyzing", "completed", "failed"}
            /\ pc[r] = "decide" => verdict[r] \in {"completed", "failed"}
        BY <1>1 DEF TypeOK, LocalTypes, Place
      <4>2. QED
        BY <1>1, <2>1, <4>1, StatusStep
    <3>2. out' \in [Names -> Content]
      <4>1. out \in [Names -> Content]
        BY <1>1 DEF TypeOK
      <4>2. QED
        BY <1>1, <2>1, <4>1, OutStep DEF Content
    <3>3. diffs' \subseteq [run: Runs, with: Runs \cup {"earlier"},
                           base: Content \cup {"elsewhere"}]
      <4>1. diffs \subseteq [run: Runs, with: Runs \cup {"earlier"},
                            base: Content \cup {"elsewhere"}]
        BY <1>1 DEF TypeOK
      <4>2. QED
        BY <1>1, <2>1, <4>1, DiffsStep, ComparisonTyped
    <3>4. apart' \subseteq Runs /\ latest' \in Runs \cup {"none"}
      BY <1>1, <2>1 DEF TypeOK, Move, Begin, history
    <3>5. QED
      BY <3>1, <3>2, <3>3, <3>4
  <2>2. ASSUME NEW r \in Runs, Crash(r), UNCHANGED history
        PROVE  UNCHANGED <<status, out, diffs, apart, latest>>
    BY <2>2 DEF Crash, shared, history
  <2>3. CASE UNCHANGED vars
    BY <1>1, <2>3 DEF vars, shared, history, TypeOK
  <2>4. QED
    BY <1>1, <2>1, <2>2, <2>3 DEF Next, Move, TypeOK
<1>5. TypeOK'
  BY <1>2, <1>3, <1>4 DEF TypeOK, LocalTypes, TableTypes
<1>6. QED
  BY <1>2, <1>3, <1>5 DEF Core

\* At first nothing has happened to any run.
LEMMA CoreInit == Init => Core
<1>. SUFFICES ASSUME Init
              PROVE  Core
  OBVIOUS
<1>1. TypeOK
  BY NamesAreNumbers DEF Init, TypeOK, Content
<1>2. ASSUME NEW r \in Runs
      PROVE  Place(r) /\ Holds(r)
  BY <1>2 DEF Init, Place, Holds, AfterClose
<1>3. TableGrows
  BY DEF Init, TableGrows, HasRow
<1>4. QED
  BY <1>1, <1>2, <1>3 DEF Core

-----------------------------------------------------------------------------
(***************************************************************************)
(* Theorems                                                                *)
(***************************************************************************)
\* Core is an invariant: every invocation has the verdict, the timer, the child
\* and the checkout that its position says, whatever the others do and however
\* often a process dies.
THEOREM CoreHolds == Spec => []Core
  BY CoreInit, CoreStep, PTL DEF Spec

\* The type invariant: rows, directories, comparisons and the state of every
\* invocation stay what they are said to be.
THEOREM TypeCorrect == Spec => []TypeOK
<1>1. Core => TypeOK
  BY DEF Core
<1>2. QED
  BY <1>1, CoreHolds, PTL

\* An invocation that finishOnce has decided keeps its verdict and inserts
\* nothing any more, whichever of the timer, the error event and the close
\* event came first, and whatever other invocations do.
THEOREM VerdictFinalHolds == Spec => VerdictFinal
<1>1. Core /\ [Next]_vars =>
        [\A r \in Runs : verdict[r] # "none" =>
           /\ verdict'[r] = verdict[r]
           /\ saved'[r] = saved[r]
           /\ \A i \in (DOMAIN table') \ DOMAIN table : table'[i].run # r]_vars
  <2>. SUFFICES ASSUME Core, Next, NEW r \in Runs, verdict[r] # "none"
                PROVE  /\ verdict'[r] = verdict[r]
                       /\ saved'[r] = saved[r]
                       /\ \A i \in (DOMAIN table') \ DOMAIN table : table'[i].run # r
    OBVIOUS
  <2>1. LocalTypes /\ TableTypes /\ \A q \in Runs : Place(q) /\ Holds(q)
    BY DEF Core, LocalTypes, TypeOK, TableTypes
  <2>2. ASSUME NEW q \in Runs, Move(q) \/ Begin(q)
        PROVE  /\ verdict'[r] = verdict[r]
               /\ saved'[r] = saved[r]
               /\ \A i \in (DOMAIN table') \ DOMAIN table : table'[i].run # r
    <3>1. verdict'[r] = verdict[r] /\ saved'[r] = saved[r]
      <4>1. CASE q # r
        BY <2>1, <2>2, <4>1, OthersStay
      <4>2. CASE q = r
        <5>1. pc[r] \notin Undecided /\ LocalTypes
          BY <2>1 DEF Place
        <5>2. QED
          BY <2>2, <4>2, <5>1
             DEF Undecided, LocalTypes, Move, Code, Before, CacheHit, Start, Handle,
                 Child, Timer, At, Hold, Release, Disarm, shared, Begin, Ingest,
                 IngestFails, Lookup, Mark, Clear, HitFails, ApplyRow, ApplyRun,
                 ApplyStatus, ApplyVerdict, ReportHit, Launch, NoPython, Report20,
                 SpawnError, Close, Unheard, Collect, Read, SaveRow, SaveRun, SaveError,
                 Decide, Report95, Finalize, MakeDirectory, WriteArtifacts, Exit,
                 TimeOut, LateWrite
      <4>3. QED
        BY <4>1, <4>2
    <3>2. ASSUME NEW i \in (DOMAIN table') \ DOMAIN table
          PROVE  table'[i].run # r
      <4>1. \E d \in {0} \cup Names, w \in BOOLEAN :
              table' = Append(table, Row(q, d, w)) /\ pc[q] \in {"applyRun", "saveRun"}
        <5>1. found[q].dir \in {0} \cup Names /\ found[q].whole \in BOOLEAN
          BY <2>1 DEF LocalTypes
        <5>2. table' # table
          BY <3>2
        <5>3. QED
          BY <2>1, <2>2, <5>1, <5>2, TableStep
      <4>2. q # r
        BY <2>1, <4>1 DEF Place, Undecided
      <4>3. table'[i].run = q
        BY <2>1, <3>2, <4>1, AppendRow DEF Row
      <4>4. QED
        BY <4>2, <4>3
    <3>3. QED
      BY <3>1, <3>2
  <2>3. ASSUME NEW q \in Runs, Crash(q), UNCHANGED history
        PROVE  UNCHANGED <<verdict, saved, table>>
    BY <2>3 DEF Crash, shared
  <2>4. QED
    BY <2>2, <2>3 DEF Next, Move
<1>2. QED
  BY <1>1, CoreHolds, PTL DEF Spec, VerdictFinal

-----------------------------------------------------------------------------
(***************************************************************************)
(* The checkout                                                            *)
(***************************************************************************)
\* The checkout goes with the invocation unless it failed before the try
\* block, and stays until its child is gone, but for the two ways the code has
\* of releasing it under a running child.
THEOREM CheckoutFollowsChildHolds == Spec => []CheckoutFollowsChild
<1>1. Core => CheckoutFollowsChild
  BY DEF Core, CheckoutFollowsChild, Place, Holds, Alive, Unstarted, AfterClose,
         TypeOK, Steps, Ended
<1>2. QED
  BY <1>1, CoreHolds, PTL

-----------------------------------------------------------------------------
(***************************************************************************)
(* The status                                                              *)
(***************************************************************************)
Excused(r) == pc[r] \in {"early", "unwritten", "dead"}

\* An invocation that owes the status goes on owing it until it has written it
\* or ended in one of the three ways that leave it as it is.
LEMMA OwesOn ==
  ASSUME LocalTypes, NEW r \in Runs, Place(r), Move(r) \/ Begin(r),
         Owes(r) \/ Excused(r)
  PROVE  Owes(r)' \/ Excused(r)' \/ status' \in {"completed", "failed"}
<1>. USE DEF LocalTypes, Place, Undecided, Unstarted, AfterClose, Owes, Excused, At, Disarm,
             shared
<1>1. CASE Begin(r)
  BY <1>1 DEF Begin
<1>2. CASE Before(r)
  BY <1>2 DEF Before, Ingest, IngestFails, Lookup, Mark, Clear
<1>3. CASE CacheHit(r)
  BY <1>3 DEF CacheHit, HitFails, ApplyRow, ApplyRun, ApplyStatus, ApplyVerdict, ReportHit
<1>4. CASE Start(r)
  BY <1>4 DEF Start, Launch, NoPython, Report20
<1>5. CASE SpawnError(r) \/ Close(r) \/ Unheard(r)
  BY <1>5 DEF SpawnError, Close, Unheard
<1>6. CASE Collect(r) \/ Read(r) \/ SaveRow(r) \/ SaveRun(r)
  BY <1>6 DEF Collect, Read, SaveRow, SaveRun, SaveError, ArtifactsThere
<1>7. CASE Decide(r) \/ Report95(r) \/ Finalize(r)
  BY <1>7 DEF Decide, Report95, Finalize
<1>8. CASE Child(r)
  BY <1>8 DEF Child, MakeDirectory, WriteArtifacts, Exit, Alive
<1>9. CASE Timer(r)
  BY <1>9 DEF Timer, TimeOut, LateWrite, Alive
<1>10. QED
  BY <1>1, <1>2, <1>3, <1>4, <1>5, <1>6, <1>7, <1>8, <1>9 DEF Move, Code, Handle

\* Whoever owes the status is in flight or has a timer or a write outstanding.
LEMMA OwersPend ==
  ASSUME NEW r \in Runs, Place(r), Owes(r)
  PROVE  Pending(r)
  BY DEF Place, Owes, Pending, InFlight, Steps

\* Every step preserves Owed.
LEMMA OwedStep == Core /\ Owed /\ [Next]_vars => Owed'
<1>. SUFFICES ASSUME Core, Owed, [Next]_vars, status' = "analyzing"
              PROVE  \E r \in Runs : Owes(r)' \/ Excused(r)'
  BY DEF Owed, Excused
<1>1. LocalTypes /\ \A q \in Runs : Place(q) /\ Holds(q)
  BY DEF Core, LocalTypes, TypeOK
<1>2. ASSUME NEW r \in Runs, Move(r) \/ Begin(r)
      PROVE  \E q \in Runs : Owes(q)' \/ Excused(q)'
  <2>1. CASE status = "analyzing"
    <3>1. PICK q \in Runs : Owes(q) \/ Excused(q)
      BY <2>1 DEF Owed, Excused
    <3>2. CASE q = r
      BY <1>1, <1>2, <3>1, <3>2, OwesOn
    <3>3. CASE q # r
      BY <1>1, <1>2, <3>1, <3>3, OthersStay DEF Owes, Excused
    <3>4. QED
      BY <3>2, <3>3
  <2>2. CASE status # "analyzing"
    <3>1. pc[r] = "decide" => verdict[r] \in {"completed", "failed"}
      BY <1>1 DEF LocalTypes, Place
    <3>2. pc'[r] = "clear"
      BY <1>1, <1>2, <2>2, <3>1, StatusStep
    <3>3. QED
      BY <3>2 DEF Owes
  <2>3. QED
    BY <2>1, <2>2
<1>3. ASSUME NEW r \in Runs, Crash(r), UNCHANGED history
      PROVE  \E q \in Runs : Owes(q)' \/ Excused(q)'
  <2>1. PICK q \in Runs : Owes(q) \/ Excused(q)
    BY <1>3 DEF Crash, shared, Owed, Excused
  <2>2. UNCHANGED verdict
    BY <1>3 DEF Crash
  <2>3. QED
    BY <1>1, <1>3, <2>1, <2>2, CrashStep DEF Owes, Excused
<1>4. CASE UNCHANGED vars
  BY <1>4 DEF vars, shared, local, Owed, Owes, Excused
<1>5. QED
  BY <1>2, <1>3, <1>4 DEF Next, Move

\* When nothing runs and no write or timer is outstanding, the project says
\* "analyzing" only if an invocation failed before its try block, lost the
\* write of its verdict, or died: otherwise the last to mark the project still
\* owes it a status.
THEOREM StatusSettlesHolds == Spec => []StatusSettles
<1>1. Init => Owed
  BY DEF Init, Owed
<1>2. Core /\ Owed => StatusSettles
  BY OwersPend DEF Core, Owed, StatusSettles, Quiet
<1>3. QED
  BY <1>1, <1>2, OwedStep, CoreHolds, PTL DEF Spec

-----------------------------------------------------------------------------
(***************************************************************************)
(* Rows                                                                    *)
(***************************************************************************)
\* What one more row is to the rows of an invocation.
LEMMA RowsOfOne ==
  ASSUME TableTypes, NEW r \in Runs, NEW d \in {0} \cup Names, NEW w \in BOOLEAN,
         table' = Append(table, Row(r, d, w)), NEW q \in Runs
  PROVE  /\ q # r => Rows(q)' = Rows(q) /\ FullRows(q)' = FullRows(q)
         /\ Rows(r)' = Rows(r) \cup {Len(table) + 1}
         /\ FullRows(r)' \subseteq FullRows(r) \cup {Len(table) + 1}
         /\ d = 0 => FullRows(r)' = FullRows(r)
<1>1. /\ DOMAIN table = 1..Len(table)
      /\ DOMAIN table' = 1..(Len(table) + 1)
      /\ Len(table) \in Nat
      /\ table'[Len(table) + 1] = Row(r, d, w)
      /\ \A i \in 1..Len(table) : table'[i] = table[i]
  BY AppendRow
<1>2. DOMAIN table' = DOMAIN table \cup {Len(table) + 1}
  BY <1>1
<1>3. QED
  BY <1>1, <1>2 DEF Rows, FullRows, Row

\* The rows of an invocation can be counted.
LEMMA RowsFinite ==
  ASSUME TableTypes, NEW r \in Runs
  PROVE  /\ IsFiniteSet(Rows(r)) /\ Cardinality(Rows(r)) \in Nat
         /\ IsFiniteSet(FullRows(r)) /\ Cardinality(FullRows(r)) \in Nat
         /\ Rows(r) \subseteq 1..Len(table)
<1>1. Len(table) \in Nat /\ DOMAIN table = 1..Len(table)
  BY LenProperties DEF TableTypes
<1>2. IsFiniteSet(1..Len(table))
  BY <1>1, FS_Interval
<1>3. Rows(r) \subseteq 1..Len(table) /\ FullRows(r) \subseteq 1..Len(table)
  BY <1>1 DEF Rows, FullRows
<1>4. QED
  BY <1>2, <1>3, FS_Subset, FS_CardinalityType

\* A step that adds no row of its own invocation.
LEMMA RowsStay ==
  ASSUME LocalTypes, NEW r \in Runs, Place(r), Holds(r), Move(r) \/ Begin(r),
         TableTypes, RowsOf(r), table' = table
  PROVE  RowsOf(r)'
<1>0. /\ Rows(r)' = Rows(r) /\ FullRows(r)' = FullRows(r)
      /\ Cardinality(Rows(r)) \in Nat /\ Cardinality(FullRows(r)) \in Nat
  BY RowsFinite DEF Rows, FullRows
<1>. USE <1>0 DEF LocalTypes, Place, Holds, Undecided, RowsOf, HasRow, At, shared
<1>1. CASE Begin(r)
  BY <1>1 DEF Begin
<1>2. CASE Before(r)
  BY <1>2 DEF Before, Ingest, IngestFails, Lookup, Mark, Clear
<1>3. CASE CacheHit(r)
  <2>1. CASE ApplyRun(r)
    <3>1. Append(table, [run |-> r, dir |-> 0, whole |-> FALSE]) # table
      BY AppendRow DEF Row
    <3>2. QED
      BY <2>1, <3>1 DEF ApplyRun, HitFails
  <2>2. QED
    BY <1>3, <2>1 DEF CacheHit, HitFails, ApplyRow, ApplyStatus, ApplyVerdict, ReportHit
<1>4. CASE Start(r)
  BY <1>4 DEF Start, Launch, NoPython, Report20
<1>5. CASE SpawnError(r) \/ Close(r) \/ Unheard(r)
  BY <1>5 DEF SpawnError, Close, Unheard
<1>6. CASE Collect(r) \/ Read(r) \/ SaveRow(r) \/ SaveRun(r)
  <2>1. CASE SaveRun(r)
    <3>1. \A d \in {0} \cup Names, w \in BOOLEAN : Append(table, Row(r, d, w)) # table
      BY AppendRow
    <3>2. found[r].dir \in {0} \cup Names /\ found[r].whole \in BOOLEAN
      OBVIOUS
    <3>3. Append(table, [run |-> r, dir |-> found[r].dir, whole |-> found[r].whole]) # table
      BY <3>1, <3>2 DEF Row
    <3>4. QED
      BY <2>1, <3>3 DEF SaveRun, SaveError
  <2>2. QED
    BY <1>6, <2>1 DEF Collect, Read, SaveRow, SaveError, ArtifactsThere
<1>7. CASE Decide(r) \/ Report95(r) \/ Finalize(r)
  BY <1>7 DEF Decide, Report95, Finalize
<1>8. CASE Child(r)
  BY <1>8 DEF Child, MakeDirectory, WriteArtifacts, Exit, Alive
<1>9. CASE Timer(r)
  BY <1>9 DEF Timer, TimeOut, LateWrite, Alive
<1>10. QED
  BY <1>1, <1>2, <1>3, <1>4, <1>5, <1>6, <1>7, <1>8, <1>9 DEF Move, Code, Handle

\* Every step preserves RowsKept.
LEMMA RowsKeptStep == Core /\ RowsKept /\ [Next]_vars => RowsKept'
<1>. SUFFICES ASSUME Core, RowsKept, [Next]_vars
              PROVE  RowsKept'
  OBVIOUS
<1>1. LocalTypes /\ TableTypes /\ \A q \in Runs : Place(q) /\ Holds(q)
  BY DEF Core, LocalTypes, TypeOK, TableTypes
<1>2. ASSUME NEW r \in Runs, Move(r) \/ Begin(r), NEW q \in Runs, q # r
      PROVE  RowsOf(q)'
  <2>1. Rows(q)' = Rows(q) /\ FullRows(q)' = FullRows(q)
    <3>1. found[r].dir \in {0} \cup Names /\ found[r].whole \in BOOLEAN
      BY <1>1 DEF LocalTypes
    <3>2. CASE table' = table
      BY <3>2 DEF Rows, FullRows
    <3>3. CASE table' # table
      BY <1>1, <1>2, <3>1, <3>3, TableStep, RowsOfOne
    <3>4. QED
      BY <3>2, <3>3
  <2>2. QED
    BY <1>1, <1>2, <2>1, OthersStay DEF RowsKept, RowsOf, HasRow
<1>3. ASSUME NEW r \in Runs, Move(r) \/ Begin(r)
      PROVE  RowsOf(r)'
  <2>0. /\ RowsOf(r)
        /\ found[r].dir \in {0} \cup Names /\ found[r].whole \in BOOLEAN
        /\ Cardinality(Rows(r)) \in Nat /\ Cardinality(FullRows(r)) \in Nat
        /\ IsFiniteSet(Rows(r)) /\ IsFiniteSet(FullRows(r))
        /\ Len(table) \in Nat /\ Len(table) + 1 \notin Rows(r)
        /\ saved[r] \in 0..2
    BY <1>1, RowsFinite, LenProperties DEF LocalTypes, RowsKept, TableTypes
  <2>1. CASE table' = table
    BY <1>1, <1>3, <2>1, RowsStay DEF RowsKept
  <2>2. CASE /\ pc[r] = "applyRun" /\ pc'[r] = "applyStatus"
             /\ UNCHANGED <<saved, verdict>>
             /\ table' = Append(table, Row(r, 0, FALSE))
    <3>1. Rows(r)' = Rows(r) \cup {Len(table) + 1} /\ FullRows(r)' = FullRows(r)
      BY <1>1, <2>2, RowsOfOne
    <3>2. Cardinality(Rows(r)') = Cardinality(Rows(r)) + 1
      BY <2>0, <3>1, FS_AddElement
    <3>3. QED
      BY <2>0, <2>2, <3>1, <3>2 DEF RowsOf, HasRow
  <2>3. CASE /\ pc[r] = "saveRun" /\ pc'[r] = "decide"
             /\ verdict'[r] = "completed"
             /\ UNCHANGED saved
             /\ table' = Append(table, Row(r, found[r].dir, found[r].whole))
    <3>1. /\ Rows(r)' = Rows(r) \cup {Len(table) + 1}
          /\ FullRows(r)' \subseteq FullRows(r) \cup {Len(table) + 1}
      BY <1>1, <2>0, <2>3, RowsOfOne
    <3>2. Cardinality(Rows(r)') = Cardinality(Rows(r)) + 1
      BY <2>0, <3>1, FS_AddElement
    <3>3. FullRows(r) = {}
      BY <1>1, <2>0, <2>3 DEF RowsOf, Place, Undecided
    <3>4. Cardinality(FullRows(r)') <= 1
      <4>1. IsFiniteSet({Len(table) + 1}) /\ Cardinality({Len(table) + 1}) = 1
        BY FS_Singleton
      <4>2. FullRows(r)' \subseteq {Len(table) + 1}
        BY <3>1, <3>3
      <4>3. QED
        BY <4>1, <4>2, FS_Subset
    <3>5. QED
      BY <2>0, <2>3, <3>1, <3>2, <3>4 DEF RowsOf, HasRow
  <2>4. QED
    BY <1>1, <1>3, <2>1, <2>2, <2>3, TableStep
<1>4. ASSUME NEW r \in Runs, Crash(r), UNCHANGED history, NEW q \in Runs
      PROVE  RowsOf(q)'
  <2>1. Rows(q)' = Rows(q) /\ FullRows(q)' = FullRows(q) /\ UNCHANGED <<verdict, saved>>
    BY <1>4 DEF Crash, shared, Rows, FullRows
  <2>2. QED
    BY <1>1, <1>4, <2>1, CrashStep DEF RowsKept, RowsOf, HasRow
<1>5. CASE UNCHANGED vars
  BY <1>5 DEF vars, shared, local, RowsKept, RowsOf, Rows, FullRows, HasRow
<1>6. QED
  BY <1>2, <1>3, <1>4, <1>5 DEF Next, Move, RowsKept

\* A failed run has no report of its own in runs and a completed one has
\* exactly one, for every number of overlapping invocations.
THEOREM RowsFollowVerdictHolds == Spec => []RowsFollowVerdict
<1>1. Init => RowsKept
  <2>. SUFFICES ASSUME Init, NEW r \in Runs
                PROVE  RowsOf(r)
    BY DEF RowsKept
  <2>1. Rows(r) = {} /\ FullRows(r) = {}
    BY RunsAssumption DEF Init, Rows, FullRows
  <2>2. QED
    BY <2>1, FS_EmptySet DEF Init, RowsOf, HasRow
<1>2. RowsKept => RowsFollowVerdict
  BY DEF RowsKept, RowsOf, RowsFollowVerdict
<1>3. QED
  BY <1>1, <1>2, RowsKeptStep, CoreHolds, PTL DEF Spec

-----------------------------------------------------------------------------
(***************************************************************************)
(* Overlap                                                                 *)
(***************************************************************************)
\* Only Begin makes an invocation busy.
LEMMA BusyBefore ==
  ASSUME LocalTypes, NEW r \in Runs, Place(r), Move(r), Busy(r)'
  PROVE  Busy(r)
<1>. USE DEF LocalTypes, Place, Unstarted, AfterClose, Busy, Pending, InFlight, Alive, Steps, At,
             Disarm, shared
<1>2. CASE Before(r)
  BY <1>2 DEF Before, Ingest, IngestFails, Lookup, Mark, Clear
<1>3. CASE CacheHit(r)
  BY <1>3 DEF CacheHit, HitFails, ApplyRow, ApplyRun, ApplyStatus, ApplyVerdict, ReportHit
<1>4. CASE Start(r)
  BY <1>4 DEF Start, Launch, NoPython, Report20
<1>5. CASE SpawnError(r) \/ Close(r) \/ Unheard(r)
  BY <1>5 DEF SpawnError, Close, Unheard
<1>6. CASE Collect(r) \/ Read(r) \/ SaveRow(r) \/ SaveRun(r)
  BY <1>6 DEF Collect, Read, SaveRow, SaveRun, SaveError, ArtifactsThere
<1>7. CASE Decide(r) \/ Report95(r) \/ Finalize(r)
  BY <1>7 DEF Decide, Report95, Finalize
<1>8. CASE Child(r)
  BY <1>8 DEF Child, MakeDirectory, WriteArtifacts, Exit
<1>9. CASE Timer(r)
  BY <1>9 DEF Timer, TimeOut, LateWrite
<1>10. QED
  BY <1>2, <1>3, <1>4, <1>5, <1>6, <1>7, <1>8, <1>9 DEF Move, Code, Handle

\* All that is left to an invocation that is not busy is the close event of a
\* child nobody listens to.
LEMMA NothingLeft ==
  ASSUME LocalTypes, NEW r \in Runs, Place(r), Move(r), ~Busy(r)
  PROVE  UNCHANGED <<shared, pc, verdict, timer, own, found, saved, temp, history>>
<1>. USE DEF LocalTypes, Place, Busy, Pending, InFlight, Alive, Steps, At, shared, Move
<1>2. ~Before(r)
  BY DEF Before, Ingest, IngestFails, Lookup, Mark, Clear
<1>3. ~CacheHit(r)
  BY DEF CacheHit, HitFails, ApplyRow, ApplyRun, ApplyStatus, ApplyVerdict, ReportHit
<1>4. ~Start(r)
  BY DEF Start, Launch, NoPython, Report20
<1>5. ~(SpawnError(r) \/ Close(r))
  BY DEF SpawnError, Close
<1>6. ~(Collect(r) \/ Read(r) \/ SaveRow(r) \/ SaveRun(r))
  BY DEF Collect, Read, SaveRow, SaveRun, SaveError
<1>7. ~(Decide(r) \/ Report95(r) \/ Finalize(r))
  BY DEF Decide, Report95, Finalize
<1>8. ~Child(r)
  BY DEF Child, MakeDirectory, WriteArtifacts, Exit
<1>9. ~Timer(r)
  BY DEF Timer, TimeOut, LateWrite
<1>10. QED
  BY <1>2, <1>3, <1>4, <1>5, <1>6, <1>7, <1>8, <1>9 DEF Code, Handle, Unheard

\* For all invocations: none becomes busy by another step.
LEMMA BusyOnly ==
  ASSUME LocalTypes, \A q \in Runs : Place(q) /\ Holds(q), NEW r \in Runs,
         Move(r) \/ (Crash(r) /\ UNCHANGED history), NEW q \in Runs, Busy(q)'
  PROVE  Busy(q)
<1>1. CASE Move(r)
  <2>1. CASE q = r
    BY <1>1, <2>1, BusyBefore
  <2>2. CASE q # r
    BY <1>1, <2>2, OthersStay DEF Busy, Pending, InFlight, Alive
  <2>3. QED
    BY <2>1, <2>2
<1>2. CASE Crash(r) /\ UNCHANGED history
  <2>1. child'[q] = child[q]
    BY <1>2 DEF Crash
  <2>2. \/ pc'[q] = pc[q] /\ timer'[q] = timer[q]
        \/ pc'[q] = "dead" /\ timer'[q] \in {"off", "wrote"}
    BY <1>2, CrashStep
  <2>3. QED
    BY <2>1, <2>2 DEF Busy, Pending, InFlight, Alive, Steps
<1>3. QED
  BY <1>1, <1>2

\* A step of another invocation leaves everything an invocation that nothing
\* has overlapped works with as it was.
LEMMA Undisturbed ==
  ASSUME LocalTypes, \A q \in Runs : Place(q) /\ Holds(q), ApartAlone, apart \subseteq Runs,
         NEW r \in apart, r = latest \/ Busy(r), NEW q \in Runs, q # r,
         Move(q)
  PROVE  UNCHANGED <<shared, pc, verdict, timer, own, found, saved, temp, history>>
  BY NothingLeft DEF ApartAlone

\* Every step preserves ApartAlone.
LEMMA ApartStep == Core /\ ApartAlone /\ [Next]_vars => ApartAlone'
<1>. SUFFICES ASSUME Core, ApartAlone, [Next]_vars
              PROVE  ApartAlone'
  OBVIOUS
<1>1. LocalTypes /\ apart \subseteq Runs /\ \A q \in Runs : Place(q) /\ Holds(q)
  BY DEF Core, LocalTypes, TypeOK
<1>2. ASSUME NEW r \in Runs, Begin(r)
      PROVE  ApartAlone'
  <2>1. /\ latest' = r
        /\ apart' = IF {q \in Runs : Busy(q)} = {} THEN apart
                    ELSE apart \ ({r} \cup {q \in Runs : Busy(q)})
    BY <1>2 DEF Begin
  <2>2. \A q \in Runs : Busy(q)' => Busy(q) \/ q = r
    BY <1>1, <1>2, OthersStay DEF Busy, Pending, InFlight, Alive
  <2>3. QED
    BY <1>1, <2>1, <2>2 DEF ApartAlone
<1>3. ASSUME NEW r \in Runs, Move(r) \/ (Crash(r) /\ UNCHANGED history)
      PROVE  ApartAlone'
  <2>1. UNCHANGED history
    BY <1>3 DEF Move
  <2>2. \A q \in Runs : Busy(q)' => Busy(q)
    BY <1>1, <1>3, BusyOnly
  <2>3. QED
    BY <1>1, <2>1, <2>2 DEF ApartAlone, history
<1>4. CASE UNCHANGED vars
  BY <1>4 DEF vars, local, history, ApartAlone, Busy, Pending, InFlight, Alive
<1>5. QED
  BY <1>2, <1>3, <1>4 DEF Next, Move

\* How the last invocation comes to where LatestTells speaks of it.
LEMMA TellsOwn ==
  ASSUME LocalTypes, NEW r \in Runs, Place(r), Move(r) \/ Begin(r),
         pc'[r] \in {"reportHit", "report95", "finalize", "returned"}
  PROVE  \/ status' = "completed"
         \/ /\ pc[r] \in {"reportHit", "report95", "finalize", "returned"}
            /\ UNCHANGED status
<1>. USE DEF LocalTypes, Place, At, shared
<1>1. CASE Begin(r)
  BY <1>1 DEF Begin
<1>2. CASE Before(r)
  BY <1>2 DEF Before, Ingest, IngestFails, Lookup, Mark, Clear
<1>3. CASE CacheHit(r)
  BY <1>3 DEF CacheHit, HitFails, ApplyRow, ApplyRun, ApplyStatus, ApplyVerdict, ReportHit
<1>4. CASE Start(r)
  BY <1>4 DEF Start, Launch, NoPython, Report20
<1>5. CASE SpawnError(r) \/ Close(r) \/ Unheard(r)
  BY <1>5 DEF SpawnError, Close, Unheard
<1>6. CASE Collect(r) \/ Read(r) \/ SaveRow(r) \/ SaveRun(r)
  BY <1>6 DEF Collect, Read, SaveRow, SaveRun, SaveError, ArtifactsThere
<1>7. CASE Decide(r) \/ Report95(r) \/ Finalize(r)
  BY <1>7 DEF Decide, Report95, Finalize
<1>8. CASE Child(r)
  BY <1>8 DEF Child, MakeDirectory, WriteArtifacts, Exit, Alive
<1>9. CASE Timer(r)
  BY <1>9 DEF Timer, TimeOut, LateWrite, Undecided, AfterClose
<1>10. QED
  BY <1>1, <1>2, <1>3, <1>4, <1>5, <1>6, <1>7, <1>8, <1>9 DEF Move, Code, Handle

\* Every step preserves LatestTells.
LEMMA TellsStep == Core /\ ApartAlone /\ LatestTells /\ [Next]_vars => LatestTells'
<1>. SUFFICES ASSUME Core, ApartAlone, LatestTells, [Next]_vars,
                     latest' \in apart',
                     pc'[latest'] \in {"reportHit", "report95", "finalize", "returned"}
              PROVE  status' = "completed"
  BY DEF LatestTells
<1>1. LocalTypes /\ apart \subseteq Runs /\ \A q \in Runs : Place(q) /\ Holds(q)
  BY DEF Core, LocalTypes, TypeOK
<1>2. ASSUME NEW r \in Runs, Begin(r)
      PROVE  status' = "completed"
  BY <1>1, <1>2 DEF Begin, At, LocalTypes
<1>3. ASSUME NEW r \in Runs, Move(r)
      PROVE  status' = "completed"
  <2>1. latest \in apart /\ latest' = latest /\ latest \in Runs
    BY <1>1, <1>3 DEF Move, history
  <2>2. CASE r = latest
    BY <1>1, <1>3, <2>1, <2>2, TellsOwn DEF LatestTells
  <2>3. CASE r # latest
    <3>1. UNCHANGED <<shared, pc>>
      BY <1>1, <1>3, <2>1, <2>3, Undisturbed
    <3>2. QED
      BY <2>1, <3>1 DEF shared, LatestTells
  <2>4. QED
    BY <2>2, <2>3
<1>4. ASSUME NEW r \in Runs, Crash(r), UNCHANGED history
      PROVE  status' = "completed"
  <2>1. latest \in apart /\ latest' = latest /\ latest \in Runs /\ UNCHANGED status
    BY <1>1, <1>4 DEF Crash, shared, history
  <2>2. pc'[latest] = pc[latest]
    BY <1>1, <1>4, <2>1, CrashStep
  <2>3. QED
    BY <2>1, <2>2 DEF LatestTells
<1>5. CASE UNCHANGED vars
  BY <1>5 DEF vars, shared, local, history, LatestTells
<1>6. QED
  BY <1>2, <1>3, <1>4, <1>5 DEF Next, Move

\* At first no run is in progress, and there is no verdict to tell.
LEMMA ApartInit == Init => ApartAlone /\ LatestTells
  BY DEF Init, ApartAlone, LatestTells, Busy, Pending, InFlight, Alive, Steps

\* Both hold in every reachable state.
LEMMA ApartHolds == Spec => [](ApartAlone /\ LatestTells)
  BY ApartInit, ApartStep, TellsStep, CoreHolds, PTL DEF Spec

\* When the invocation begun last had the project for itself and returned, the
\* project says completed: nothing an earlier one left behind writes after it.
THEOREM LastRunTellsHolds == Spec => []LastRunTells
<1>1. LatestTells => LastRunTells
  BY DEF LatestTells, LastRunTells
<1>2. QED
  BY <1>1, ApartHolds, PTL

-----------------------------------------------------------------------------
(***************************************************************************)
(* Directories                                                             *)
(***************************************************************************)
\* The histories only lose invocations, and a directory keeps its name.
LEMMA Lasting ==
  ASSUME Core, [Next]_vars
  PROVE  /\ apart' \subseteq apart
         /\ \A q \in Runs : own[q] # 0 => own'[q] = own[q]
<1>1. LocalTypes /\ \A q \in Runs : Place(q) /\ Holds(q)
  BY DEF Core, LocalTypes, TypeOK
<1>2. apart' \subseteq apart
  BY DEF Next, Begin, vars, history
<1>3. ASSUME NEW r \in Runs, Move(r) \/ Begin(r), NEW q \in Runs, own[q] # 0
      PROVE  own'[q] = own[q]
  <2>1. CASE q # r
    BY <1>1, <1>3, <2>1, OthersStay
  <2>2. CASE q = r
    BY <1>1, <1>3, <2>2, OutStep
  <2>3. QED
    BY <2>1, <2>2
<1>4. ASSUME NEW r \in Runs, Crash(r)
      PROVE  own' = own
  BY <1>4 DEF Crash
<1>5. CASE UNCHANGED vars
  BY <1>5 DEF vars, local, history
<1>6. QED
  BY <1>2, <1>3, <1>4, <1>5 DEF Next, Move

\* An invocation comes to have cleared the directory by clearing it.
LEMMA ClearedBefore ==
  ASSUME LocalTypes, NEW r \in Runs, Place(r), Move(r) \/ Begin(r), Cleared(r)'
  PROVE  \/ Cleared(r)
         \/ pc[r] = "clear" /\ out' = [n \in Names |-> "absent"] /\ UNCHANGED own
<1>. USE DEF LocalTypes, Place, Undecided, Unstarted, AfterClose, Cleared, At, shared
<1>1. CASE Begin(r)
  BY <1>1 DEF Begin
<1>2. CASE Before(r)
  <2>1. CASE Clear(r)
    BY <2>1 DEF Clear
  <2>2. QED
    BY <1>2, <2>1 DEF Before, Ingest, IngestFails, Lookup, Mark
<1>3. CASE CacheHit(r)
  BY <1>3 DEF CacheHit, HitFails, ApplyRow, ApplyRun, ApplyStatus, ApplyVerdict, ReportHit
<1>4. CASE Start(r)
  BY <1>4 DEF Start, Launch, NoPython, Report20
<1>5. CASE SpawnError(r) \/ Close(r) \/ Unheard(r)
  BY <1>5 DEF SpawnError, Close, Unheard
<1>6. CASE Collect(r) \/ Read(r) \/ SaveRow(r) \/ SaveRun(r)
  BY <1>6 DEF Collect, Read, SaveRow, SaveRun, SaveError, ArtifactsThere
<1>7. CASE Decide(r) \/ Report95(r) \/ Finalize(r)
  BY <1>7 DEF Decide, Report95, Finalize
<1>8. CASE Child(r)
  BY <1>8 DEF Child, MakeDirectory, WriteArtifacts, Exit, Alive
<1>9. CASE Timer(r)
  BY <1>9 DEF Timer, TimeOut, LateWrite, Alive
<1>10. QED
  BY <1>1, <1>2, <1>3, <1>4, <1>5, <1>6, <1>7, <1>8, <1>9 DEF Move, Code, Handle

\* A run that has cleared the output directory is in progress.
LEMMA ClearedBusy ==
  ASSUME NEW r \in Runs, Cleared(r)
  PROVE  Busy(r)
  BY DEF Cleared, Busy, Pending, InFlight, Steps

\* While an invocation that nothing overlaps is past its clearing, only its own
\* steps count.
LEMMA Steady ==
  ASSUME Core, ApartAlone, [Next]_vars, NEW r \in apart', Cleared(r)'
  PROVE  /\ r \in apart /\ r \in Runs
         /\ \/ Move(r)
            \/ UNCHANGED <<shared, own, found, verdict, saved>> /\ pc'[r] = pc[r]
<1>1. LocalTypes /\ apart \subseteq Runs /\ \A q \in Runs : Place(q) /\ Holds(q)
  BY DEF Core, LocalTypes, TypeOK
<1>2. r \in apart /\ r \in Runs
  BY <1>1, Lasting
<1>3. ASSUME NEW q \in Runs, Move(q), q # r
      PROVE  UNCHANGED <<shared, own, found, verdict, saved>> /\ pc'[r] = pc[r]
  <2>1. Cleared(r)
    BY <1>1, <1>2, <1>3, OthersStay DEF Cleared
  <2>2. QED
    BY <1>1, <1>2, <1>3, <2>1, ClearedBusy, Undisturbed
<1>4. ASSUME NEW q \in Runs, Begin(q)
      PROVE  FALSE
  <2>1. q # r
    BY <1>1, <1>4 DEF Begin, At, LocalTypes, Cleared
  <2>2. Cleared(r)
    BY <1>1, <1>2, <1>4, <2>1, OthersStay DEF Cleared
  <2>3. QED
    BY <1>2, <1>4, <2>2, ClearedBusy DEF Begin
<1>5. ASSUME NEW q \in Runs, Crash(q), UNCHANGED history
      PROVE  UNCHANGED <<shared, own, found, verdict, saved>> /\ pc'[r] = pc[r]
  BY <1>1, <1>2, <1>5, CrashStep DEF Cleared, Crash
<1>6. CASE UNCHANGED vars
  BY <1>2, <1>6 DEF vars, local
<1>7. QED
  BY <1>2, <1>3, <1>4, <1>5, <1>6 DEF Next, Move

\* Every step preserves Sole.
LEMMA SoleStep == Core /\ ApartAlone /\ Sole /\ [Next]_vars => Sole'
<1>. SUFFICES ASSUME Core, ApartAlone, Sole, [Next]_vars,
                     NEW r \in apart', Cleared(r)', NEW n \in Names, out'[n] # "absent"
              PROVE  n = own'[r]
  BY DEF Sole
<1>1. LocalTypes /\ out \in [Names -> Content] /\ \A q \in Runs : Place(q) /\ Holds(q)
  BY DEF Core, LocalTypes, TypeOK
<1>2. r \in apart /\ r \in Runs
  BY Steady
<1>3. CASE UNCHANGED <<shared, own>> /\ pc'[r] = pc[r] /\ UNCHANGED verdict
  BY <1>2, <1>3 DEF Sole, Cleared, shared
<1>4. CASE Move(r)
  <2>1. CASE out' = [m \in Names |-> "absent"]
    BY <2>1
  <2>2. CASE Cleared(r)
    <3>1. \A m \in Names : out[m] # "absent" => m = own[r]
      BY <1>2, <2>2 DEF Sole
    <3>2. CASE UNCHANGED <<out, own>>
      BY <3>1, <3>2
    <3>3. CASE pc[r] = "clear"
      BY <2>2, <3>3 DEF Cleared
    <3>4. CASE /\ own[r] = 0
               /\ \E m \in Names \ {1} :
                    /\ own' = [own EXCEPT ![r] = m]
                    /\ out' = [out EXCEPT ![m] = IF @ = "absent" THEN "partial" ELSE @]
      BY <1>1, <1>2, <3>1, <3>4, NamesAreNumbers DEF LocalTypes
    <3>5. CASE /\ own[r] # 0
               /\ out' = [out EXCEPT ![own[r]] = "complete"]
               /\ UNCHANGED own
      BY <1>1, <1>2, <3>1, <3>5 DEF LocalTypes
    <3>6. QED
      BY <1>1, <1>2, <1>4, <3>2, <3>3, <3>4, <3>5, OutStep
  <2>3. QED
    BY <1>1, <1>2, <1>4, <2>1, <2>2, ClearedBefore
<1>5. QED
  BY <1>3, <1>4, Steady

\* What an invocation does between the directory it takes and the row it adds.
LEMMA FoundStep ==
  ASSUME LocalTypes, NEW r \in Runs, Place(r), Move(r),
         pc'[r] \in {"read", "saveRow", "saveRun"}
  PROVE  /\ UNCHANGED <<out, own>>
         /\ \/ /\ pc[r] = "collect" /\ pc'[r] = "read"
               /\ LatestRunDir \in Names /\ out[LatestRunDir] = "complete"
               /\ found'[r].dir = LatestRunDir
            \/ /\ pc[r] = "read" /\ pc'[r] = "saveRow"
               /\ found'[r].dir = found[r].dir
               /\ found'[r].whole = (out[found[r].dir] = "complete")
            \/ pc[r] = "saveRow" /\ pc'[r] = "saveRun" /\ UNCHANGED found
<1>. USE DEF LocalTypes, Place, AfterClose, At, shared
<1>2. ~Before(r)
  BY DEF Before, Ingest, IngestFails, Lookup, Mark, Clear
<1>3. ~CacheHit(r)
  BY DEF CacheHit, HitFails, ApplyRow, ApplyRun, ApplyStatus, ApplyVerdict, ReportHit
<1>4. ~Start(r)
  BY DEF Start, Launch, NoPython, Report20
<1>5. ~(SpawnError(r) \/ Close(r) \/ Unheard(r))
  BY DEF SpawnError, Close, Unheard
<1>6. ~(Decide(r) \/ Report95(r) \/ Finalize(r))
  BY DEF Decide, Report95, Finalize
<1>7. ~Child(r)
  BY DEF Child, MakeDirectory, WriteArtifacts, Exit, Alive
<1>8. ~Timer(r)
  BY DEF Timer, TimeOut, LateWrite
<1>9. CASE Collect(r)
  BY <1>9 DEF Collect, SaveError, ArtifactsThere
<1>10. CASE Read(r)
  BY <1>10 DEF Read, SaveError
<1>11. CASE SaveRow(r) \/ SaveRun(r)
  BY <1>11 DEF SaveRow, SaveRun, SaveError
<1>12. QED
  BY <1>2, <1>3, <1>4, <1>5, <1>6, <1>7, <1>8, <1>9, <1>10, <1>11 DEF Move, Code, Handle

\* Every step preserves FoundOwn.
LEMMA FoundOwnStep == Core /\ ApartAlone /\ Sole /\ FoundOwn /\ [Next]_vars => FoundOwn'
<1>. SUFFICES ASSUME Core, ApartAlone, Sole, FoundOwn, [Next]_vars,
                     NEW r \in apart', pc'[r] \in {"read", "saveRow", "saveRun"}
              PROVE  /\ pc'[r] = "read" =>
                          /\ found'[r].dir = own'[r]
                          /\ found'[r].dir \in Names
                          /\ out'[found'[r].dir] = "complete"
                     /\ pc'[r] \in {"saveRow", "saveRun"} =>
                          found'[r].dir = own'[r] /\ found'[r].whole
  BY DEF FoundOwn
<1>1. LocalTypes /\ \A q \in Runs : Place(q) /\ Holds(q)
  BY DEF Core, LocalTypes, TypeOK
<1>2. Cleared(r)'
  BY DEF Cleared
<1>3. r \in apart /\ r \in Runs
  BY <1>2, Steady
<1>4. CASE UNCHANGED <<shared, own, found>> /\ pc'[r] = pc[r]
  BY <1>3, <1>4 DEF FoundOwn, shared
<1>5. CASE Move(r)
  <2>1. pc[r] = "collect" => Cleared(r)
    BY DEF Cleared
  <2>2. CASE /\ pc[r] = "collect" /\ pc'[r] = "read"
             /\ LatestRunDir \in Names /\ out[LatestRunDir] = "complete"
             /\ found'[r].dir = LatestRunDir
             /\ UNCHANGED <<out, own>>
    BY <1>3, <2>1, <2>2 DEF Sole
  <2>3. CASE /\ pc[r] = "read" /\ pc'[r] = "saveRow"
             /\ found'[r].dir = found[r].dir
             /\ found'[r].whole = (out[found[r].dir] = "complete")
             /\ UNCHANGED <<out, own>>
    BY <1>3, <2>3 DEF FoundOwn
  <2>4. CASE pc[r] = "saveRow" /\ pc'[r] = "saveRun" /\ UNCHANGED <<out, own, found>>
    BY <1>3, <2>4 DEF FoundOwn
  <2>5. QED
    BY <1>1, <1>3, <1>5, <2>2, <2>3, <2>4, FoundStep
<1>6. QED
  BY <1>2, <1>4, <1>5, Steady

\* Every step preserves ReportsOwnUnlessOverlapped.
LEMMA ReportsOwnStep ==
  Core /\ FoundOwn /\ ReportsOwnUnlessOverlapped /\ [Next]_vars => ReportsOwnUnlessOverlapped'
<1>. SUFFICES ASSUME Core, FoundOwn, ReportsOwnUnlessOverlapped, [Next]_vars
              PROVE  ReportsOwnUnlessOverlapped'
  OBVIOUS
<1>1. /\ LocalTypes /\ TableTypes /\ apart \subseteq Runs
      /\ \A q \in Runs : Place(q) /\ Holds(q)
  BY DEF Core, LocalTypes, TypeOK, TableTypes
<1>2. \A i \in DOMAIN table :
        table[i].run \in apart' /\ table[i].dir # 0 =>
          table[i].whole /\ table[i].dir = own'[table[i].run]
  BY <1>1, Lasting DEF ReportsOwnUnlessOverlapped
<1>3. CASE table' = table
  BY <1>2, <1>3 DEF ReportsOwnUnlessOverlapped
<1>4. ASSUME NEW r \in Runs, Move(r) \/ Begin(r), table' # table
      PROVE  ReportsOwnUnlessOverlapped'
  <2>1. found[r].dir \in {0} \cup Names /\ found[r].whole \in BOOLEAN
    BY <1>1 DEF LocalTypes
  <2>2. PICK d \in {0} \cup Names, w \in BOOLEAN :
          /\ table' = Append(table, Row(r, d, w))
          /\ r \in apart /\ d # 0 => w /\ d = own[r]
    BY <1>1, <1>4, <2>1, TableStep DEF FoundOwn
  <2>3. UNCHANGED own /\ apart' \subseteq apart
    BY <1>1, <1>4, Lasting, TableStep
  <2>4. QED
    BY <1>1, <1>2, <2>2, <2>3, AppendRow DEF ReportsOwnUnlessOverlapped, Row
<1>5. ASSUME NEW r \in Runs, Crash(r)
      PROVE  table' = table
  BY <1>5 DEF Crash, shared
<1>6. CASE UNCHANGED vars
  BY <1>3, <1>6 DEF vars, shared
<1>7. QED
  BY <1>3, <1>4, <1>5, <1>6 DEF Next, Move

\* At first there is no run directory.
LEMMA DirsInit == Init => DirsKnown
  BY RunsAssumption DEF Init, DirsKnown, Sole, FoundOwn, ReportsOwnUnlessOverlapped, Cleared

\* What is known of the directories holds in every reachable state.
LEMMA DirsHold == Spec => []DirsKnown
<1>1. Core /\ ApartAlone /\ DirsKnown /\ [Next]_vars => DirsKnown'
  BY SoleStep, FoundOwnStep, ReportsOwnStep DEF DirsKnown
<1>2. QED
  BY <1>1, DirsInit, ApartHolds, CoreHolds, PTL DEF Spec

\* A report that was read from the disk is the invocation's own and whole, for
\* every number of invocations, unless another one overlapped it.
THEOREM ReportsOwnHolds == Spec => []ReportsOwnUnlessOverlapped
<1>1. DirsKnown => ReportsOwnUnlessOverlapped
  BY DEF DirsKnown
<1>2. QED
  BY <1>1, DirsHold, PTL

-----------------------------------------------------------------------------
(***************************************************************************)
(* The base of a comparison                                                *)
(***************************************************************************)
\* A directory that was made stays made.
LEMMA MadeStays ==
  ASSUME Core, [Next]_vars, NEW n \in Names, NEW r \in Runs, MadeBy(n, r)
  PROVE  \E x \in Runs \ {r} : own'[x] = n
  BY Lasting, NamesAreNumbers DEF MadeBy

\* The first directory, once deleted, does not come back.
LEMMA FirstStaysGone ==
  ASSUME Core, [Next]_vars, out[1] = "absent"
  PROVE  out'[1] = "absent"
<1>1. LocalTypes /\ out \in [Names -> Content] /\ \A q \in Runs : Place(q) /\ Holds(q)
  BY DEF Core, LocalTypes, TypeOK
<1>2. ASSUME NEW r \in Runs, Move(r) \/ Begin(r)
      PROVE  out'[1] = "absent"
  <2>1. own[r] # 1 /\ own[r] \in {0} \cup Names
    BY <1>1 DEF Place, LocalTypes
  <2>2. QED
    BY <1>1, <1>2, <2>1, OutStep, NamesAreNumbers
<1>3. ASSUME NEW r \in Runs, Crash(r)
      PROVE  out' = out
  BY <1>3 DEF Crash, shared
<1>4. CASE UNCHANGED vars
  BY <1>4 DEF vars, shared
<1>5. QED
  BY <1>2, <1>3, <1>4 DEF Next, Move

\* Whether an invocation is past its clearing changes only by its own steps.
LEMMA ClearedBy ==
  ASSUME Core, [Next]_vars, NEW p \in Runs, Cleared(p)'
  PROVE  \/ Cleared(p)
         \/ out' = [n \in Names |-> "absent"]
<1>1. LocalTypes /\ \A q \in Runs : Place(q) /\ Holds(q)
  BY DEF Core, LocalTypes, TypeOK
<1>2. ASSUME NEW r \in Runs, Move(r) \/ Begin(r)
      PROVE  Cleared(p) \/ out' = [n \in Names |-> "absent"]
  <2>1. CASE r = p
    BY <1>1, <1>2, <2>1, ClearedBefore
  <2>2. CASE r # p
    BY <1>1, <1>2, <2>2, OthersStay DEF Cleared
  <2>3. QED
    BY <2>1, <2>2
<1>3. ASSUME NEW r \in Runs, Crash(r), UNCHANGED history
      PROVE  Cleared(p)
  BY <1>1, <1>3, CrashStep DEF Cleared
<1>4. CASE UNCHANGED vars
  BY <1>4 DEF vars, local, Cleared
<1>5. QED
  BY <1>2, <1>3, <1>4 DEF Next, Move

\* What an invocation sees was not made by another one that nothing overlaps:
\* a directory is made by a busy invocation, and the other was not busy.
LEMMA SeenStep ==
  ASSUME Core, ApartAlone, Made, [Next]_vars, NEW p \in Runs, NEW r \in apart', p # r,
         Cleared(p)', NEW n \in Names, out'[n] # "absent"
  PROVE  \E x \in Runs \ {r} : own'[x] = n
<1>1. /\ LocalTypes /\ out \in [Names -> Content] /\ apart \subseteq Runs
      /\ \A q \in Runs : Place(q) /\ Holds(q)
      /\ r \in apart /\ r \in Runs
  BY Lasting DEF Core, LocalTypes, TypeOK
<1>2. Cleared(p)
  BY ClearedBy
<1>3. ASSUME out[n] # "absent"
      PROVE  \E x \in Runs \ {r} : own'[x] = n
  BY <1>1, <1>2, <1>3, MadeStays DEF Made
<1>4. ASSUME NEW q \in Runs, Move(q) \/ Begin(q), out[n] = "absent"
      PROVE  \E x \in Runs \ {r} : own'[x] = n
  <2>1. child[q] = "running" /\ own' = [own EXCEPT ![q] = n]
    <3>1. own[q] \in {0} \cup Names
      BY <1>1 DEF LocalTypes
    <3>2. QED
      BY <1>1, <1>4, <3>1, OutStep
  <2>2. Busy(q) /\ Busy(p)
    BY <1>2, <2>1, ClearedBusy DEF Busy, Alive
  <2>3. q # r
    BY <1>1, <2>2 DEF ApartAlone
  <2>4. QED
    BY <1>1, <2>1, <2>3 DEF MadeBy, LocalTypes
<1>5. ASSUME NEW q \in Runs, Crash(q)
      PROVE  out' = out
  BY <1>5 DEF Crash, shared
<1>6. CASE UNCHANGED vars
  BY <1>3, <1>6 DEF vars, shared
<1>7. QED
  BY <1>3, <1>4, <1>5, <1>6 DEF Next, Move

\* What an invocation took for its own was there when it took it.
LEMMA TakenStep ==
  ASSUME Core, Made, [Next]_vars, NEW p \in Runs, NEW r \in apart', p # r,
         found'[p].dir # 0
  PROVE  \E x \in Runs \ {r} : own'[x] = found'[p].dir
<1>1. /\ LocalTypes /\ out \in [Names -> Content] /\ r \in apart /\ r \in Runs
      /\ \A q \in Runs : Place(q) /\ Holds(q)
  BY Lasting DEF Core, LocalTypes, TypeOK
<1>2. CASE found'[p].dir = found[p].dir
  <2>1. found[p].dir \in Names
    BY <1>1, <1>2 DEF LocalTypes
  <2>2. QED
    BY <1>1, <1>2, <2>1, MadeStays DEF Made
<1>3. ASSUME NEW q \in Runs, Move(q) \/ Begin(q), found'[p].dir # found[p].dir
      PROVE  \E x \in Runs \ {r} : own'[x] = found'[p].dir
  <2>1. q = p
    BY <1>1, <1>3, OthersStay
  <2>2. /\ pc[p] = "collect"
        /\ LatestRunDir \in Names /\ out[LatestRunDir] = "complete"
        /\ found'[p].dir = LatestRunDir
    BY <1>1, <1>3, <2>1
       DEF LocalTypes, ArtifactsThere, Move, Code, Before, CacheHit,
            Start, Handle, Child, Timer, At,
           Hold, Release, Disarm, shared, Begin, Ingest, IngestFails, Lookup, Mark,
           Clear, HitFails, ApplyRow, ApplyRun, ApplyStatus, ApplyVerdict, ReportHit,
           Launch, NoPython, Report20, SpawnError, Close, Unheard, Collect, Read,
           SaveRow, SaveRun, SaveError, Decide, Report95, Finalize, MakeDirectory,
           WriteArtifacts, Exit, TimeOut, LateWrite
  <2>3. MadeBy(LatestRunDir, r)
    BY <1>1, <2>2 DEF Made, Cleared
  <2>4. QED
    BY <1>1, <2>2, <2>3, MadeStays
<1>4. ASSUME NEW q \in Runs, Crash(q)
      PROVE  found' = found
  BY <1>4 DEF Crash
<1>5. CASE UNCHANGED vars
  BY <1>2, <1>5 DEF vars, local
<1>6. QED
  BY <1>2, <1>3, <1>4, <1>5 DEF Next, Move

\* Every step preserves Made.
LEMMA MadeStep == Core /\ ApartAlone /\ Made /\ [Next]_vars => Made'
<1>. SUFFICES ASSUME Core, ApartAlone, Made, [Next]_vars
              PROVE  Made'
  OBVIOUS
<1>1. /\ LocalTypes /\ TableTypes /\ TableGrows /\ apart' \subseteq apart
      /\ apart \subseteq Runs /\ \A q \in Runs : Place(q) /\ Holds(q)
  BY Lasting DEF Core, LocalTypes, TypeOK, TableTypes
<1>2. \A p \in Runs : Cleared(p)' => out'[1] = "absent"
  BY ClearedBy, FirstStaysGone, NamesAreNumbers DEF Made
<1>3. \A p \in Runs : \A r \in apart' \ {p} :
        Cleared(p)' => \A n \in Names : out'[n] # "absent" => \E x \in Runs \ {r} : own'[x] = n
  BY SeenStep
<1>4. \A p \in Runs : \A r \in apart' \ {p} :
        found'[p].dir # 0 => \E x \in Runs \ {r} : own'[x] = found'[p].dir
  BY TakenStep
<1>5. ASSUME NEW i \in DOMAIN table', NEW r \in apart',
             table'[i].run \in Runs \ {r}, table'[i].dir # 0
      PROVE  \E x \in Runs \ {r} : own'[x] = table'[i].dir
  <2>1. CASE table' = table
    <3>1. table[i].dir \in Names
      BY <1>1, <1>5, <2>1, RowTyped
    <3>2. QED
      BY <1>1, <1>5, <2>1, <3>1, MadeStays DEF Made
  <2>2. ASSUME NEW q \in Runs, Move(q) \/ Begin(q), table' # table
        PROVE  \E x \in Runs \ {r} : own'[x] = table'[i].dir
    <3>1. found[q].dir \in {0} \cup Names /\ found[q].whole \in BOOLEAN
      BY <1>1 DEF LocalTypes
    <3>2. PICK d \in {0} \cup Names, w \in BOOLEAN :
            table' = Append(table, Row(q, d, w)) /\ d \in {0, found[q].dir}
      BY <1>1, <2>2, <3>1, TableStep
    <3>3. /\ DOMAIN table = 1..Len(table) /\ Len(table) \in Nat
          /\ DOMAIN table' = 1..(Len(table) + 1)
          /\ table'[Len(table) + 1] = Row(q, d, w)
          /\ \A k \in 1..Len(table) : table'[k] = table[k]
      BY <1>1, <3>2, AppendRow
    <3>4. CASE i = Len(table) + 1
      BY <1>1, <1>5, <3>2, <3>3, <3>4, MadeStays DEF Made, Row
    <3>5. CASE i \in 1..Len(table)
      <4>1. table[i].dir \in Names
        BY <1>1, <1>5, <3>3, <3>5, RowTyped
      <4>2. QED
        BY <1>1, <1>5, <3>3, <3>5, <4>1, MadeStays DEF Made
    <3>6. QED
      BY <1>5, <3>3, <3>4, <3>5
  <2>3. ASSUME NEW q \in Runs, Crash(q)
        PROVE  table' = table
    BY <2>3 DEF Crash, shared
  <2>4. CASE UNCHANGED vars
    BY <2>1, <2>4 DEF vars, shared
  <2>5. QED
    BY <2>1, <2>2, <2>3, <2>4 DEF Next, Move
<1>6. QED
  BY <1>2, <1>3, <1>4, <1>5 DEF Made, MadeBy

NoRowYet ==
  {"idle", "ingest", "lookup", "applyRow", "applyRun", "mark", "clear", "launch",
   "report20", "wait", "collect", "read", "saveRow", "saveRun"}

\* A queued invocation comes to a position where it has no row from another
\* such position: it never goes on after a cache hit.
LEMMA NoRowBefore ==
  ASSUME LocalTypes, NEW r \in Queued, r \in Runs, Place(r), Move(r) \/ Begin(r),
         pc'[r] \in NoRowYet
  PROVE  pc[r] \in NoRowYet /\ table' = table
<1>. USE DEF LocalTypes, Place, NoRowYet, At, shared
<1>1. CASE Begin(r)
  BY <1>1 DEF Begin
<1>2. CASE Before(r)
  BY <1>2 DEF Before, Ingest, IngestFails, Lookup, Mark, Clear
<1>3. CASE CacheHit(r)
  BY <1>3 DEF CacheHit, HitFails, ApplyRow, ApplyRun, ApplyStatus, ApplyVerdict, ReportHit
<1>4. CASE Start(r)
  BY <1>4 DEF Start, Launch, NoPython, Report20
<1>5. CASE SpawnError(r) \/ Close(r) \/ Unheard(r)
  BY <1>5 DEF SpawnError, Close, Unheard
<1>6. CASE Collect(r) \/ Read(r) \/ SaveRow(r) \/ SaveRun(r)
  BY <1>6 DEF Collect, Read, SaveRow, SaveRun, SaveError, ArtifactsThere
<1>7. CASE Decide(r) \/ Report95(r) \/ Finalize(r)
  BY <1>7 DEF Decide, Report95, Finalize
<1>8. CASE Child(r)
  BY <1>8 DEF Child, MakeDirectory, WriteArtifacts, Exit, Alive
<1>9. CASE Timer(r)
  BY <1>9 DEF Timer, TimeOut, LateWrite, Alive
<1>10. QED
  BY <1>1, <1>2, <1>3, <1>4, <1>5, <1>6, <1>7, <1>8, <1>9 DEF Move, Code, Handle

\* Every step preserves NewestRow.
LEMMA NewestStep == Core /\ ApartAlone /\ NewestRow /\ [Next]_vars => NewestRow'
<1>. SUFFICES ASSUME Core, ApartAlone, NewestRow, [Next]_vars, NEW r \in Queued
              PROVE  /\ pc'[r] \in NoRowYet => Rows(r)' = {}
                     /\ r \in apart' /\ HasRow(r)' => Rows(r)' = {Len(table')}
  BY DEF NewestRow, NoRowYet
<1>1. /\ LocalTypes /\ TableTypes /\ \A q \in Runs : Place(q) /\ Holds(q)
      /\ r \in Runs
  BY RunsAssumption DEF Core, LocalTypes, TypeOK, TableTypes
<1>2. /\ pc[r] \in NoRowYet => Rows(r) = {}
      /\ r \in apart /\ HasRow(r) => Rows(r) = {Len(table)}
  BY DEF NewestRow, NoRowYet
<1>3. ASSUME pc'[r] \in NoRowYet
      PROVE  Rows(r)' = {}
  <2>1. ASSUME NEW q \in Runs, Move(q) \/ Begin(q)
        PROVE  Rows(r)' = {}
    <3>1. CASE q = r
      BY <1>1, <1>2, <1>3, <2>1, <3>1, NoRowBefore DEF Rows
    <3>2. CASE q # r
      <4>1. found[q].dir \in {0} \cup Names /\ found[q].whole \in BOOLEAN
        BY <1>1 DEF LocalTypes
      <4>2. Rows(r) = {}
        BY <1>1, <1>2, <1>3, <2>1, <3>2, OthersStay
      <4>3. CASE table' = table
        BY <4>2, <4>3 DEF Rows
      <4>4. CASE table' # table
        BY <1>1, <2>1, <3>2, <4>1, <4>2, <4>4, TableStep, RowsOfOne
      <4>5. QED
        BY <4>3, <4>4
    <3>3. QED
      BY <3>1, <3>2
  <2>2. ASSUME NEW q \in Runs, Crash(q), UNCHANGED history
        PROVE  Rows(r)' = {}
    <3>1. pc'[r] = pc[r]
      BY <1>1, <1>3, <2>2, CrashStep DEF NoRowYet
    <3>2. table' = table
      BY <2>2 DEF Crash, shared
    <3>3. QED
      BY <1>2, <1>3, <3>1, <3>2 DEF Rows
  <2>3. CASE UNCHANGED vars
    BY <1>2, <1>3, <2>3 DEF vars, shared, local, Rows
  <2>4. QED
    BY <2>1, <2>2, <2>3 DEF Next, Move
<1>4. ASSUME r \in apart', HasRow(r)'
      PROVE  Rows(r)' = {Len(table')}
  <2>1. Cleared(r)'
    BY <1>4 DEF HasRow, Cleared
  <2>2. r \in apart
    BY <1>4, <2>1, Steady
  <2>3. CASE UNCHANGED <<shared, verdict>> /\ pc'[r] = pc[r]
    BY <1>2, <1>4, <2>2, <2>3 DEF shared, HasRow, Rows
  <2>4. CASE Move(r) /\ HasRow(r)
    <3>1. table' = table
      BY <1>1, <2>4, TableStep DEF HasRow
    <3>2. QED
      BY <1>2, <2>2, <2>4, <3>1 DEF Rows
  <2>5. CASE Move(r) /\ ~HasRow(r)
    <3>1. /\ pc[r] = "saveRun"
          /\ table' = Append(table, Row(r, found[r].dir, found[r].whole))
          /\ found[r].dir \in {0} \cup Names /\ found[r].whole \in BOOLEAN
      BY <1>1, <1>4, <2>5, RowAdded DEF LocalTypes
    <3>2. Rows(r)' = Rows(r) \cup {Len(table) + 1} /\ Len(table') = Len(table) + 1
      BY <1>1, <3>1, RowsOfOne, AppendRow
    <3>3. QED
      BY <1>2, <3>1, <3>2 DEF NoRowYet
  <2>6. QED
    BY <1>4, <2>1, <2>3, <2>4, <2>5, Steady
<1>5. QED
  BY <1>3, <1>4

\* The comparison of an invocation that nothing overlapped.
LEMMA ComparisonKnown ==
  ASSUME Core, Sole, Made, NewestRow, NEW r \in apart, pc[r] = "finalize"
  PROVE  LET d == Comparison(r)
         IN  /\ d.run = r
             /\ d.with # r
             /\ \/ d.base \in {"absent", "elsewhere"}
                \/ d.with \in Runs /\ own[r] # 0 /\ MadeBy(own[r], r)
<1>. DEFINE k == Len(table) - 1
<1>1. /\ TypeOK /\ TableTypes /\ TableGrows /\ apart \subseteq Runs /\ r \in Runs
      /\ Place(r) /\ out \in [Names -> Content]
  BY DEF Core, TypeOK, TableTypes
<1>2. r \in Queued /\ Rows(r) = {Len(table)}
  BY <1>1 DEF Place, NewestRow, HasRow
<1>3. k \in DOMAIN table /\ k # Len(table) /\ Len(table) \in Nat
  BY <1>1, ComparisonTyped, LenProperties DEF TableTypes
<1>4. table[k] \in [run: Runs \cup {"earlier"}, dir: {0} \cup Names, whole: BOOLEAN]
  BY <1>1, <1>3, RowTyped
<1>5. table[k].run # r
  BY <1>2, <1>3 DEF Rows
<1>. DEFINE base == IF table[k].dir = 0 THEN "elsewhere" ELSE out[table[k].dir]
<1>6. Comparison(r) = [run |-> r, with |-> table[k].run, base |-> base]
  BY DEF Comparison
<1>. HIDE DEF k
<1>7. base \in {"absent", "elsewhere"}
      \/ (table[k].run \in Runs /\ own[r] # 0 /\ MadeBy(own[r], r))
  <2>. SUFFICES ASSUME table[k].dir # 0, out[table[k].dir] # "absent"
                PROVE  table[k].run \in Runs /\ own[r] # 0 /\ MadeBy(own[r], r)
    OBVIOUS
  <2>1. Cleared(r) /\ table[k].dir \in Names
    BY <1>4 DEF Cleared
  <2>2. own[r] = table[k].dir
    BY <2>1 DEF Sole
  <2>3. k # 1
    <3>1. out[1] = "absent"
      BY <1>1, <2>1 DEF Made
    <3>2. QED
      BY <1>1, <3>1 DEF TableGrows
  <2>4. table[k].run \in Runs
    BY <1>1, <1>3, <2>3 DEF TableGrows
  <2>5. MadeBy(table[k].dir, r)
    BY <1>3, <1>5, <2>4 DEF Made
  <2>6. QED
    BY <2>2, <2>4, <2>5
<1>. HIDE DEF base
<1>8. QED
  BY <1>5, <1>6, <1>7

\* Every step preserves BaseKnown.
LEMMA BaseStep ==
  Core /\ Sole /\ Made /\ NewestRow /\ BaseKnown /\ [Next]_vars => BaseKnown'
<1>. SUFFICES ASSUME Core, Sole, Made, NewestRow, BaseKnown, [Next]_vars,
                     NEW d \in diffs', d.run \in apart'
              PROVE  /\ d.with # d.run
                     /\ \/ d.base \in {"absent", "elsewhere"}
                        \/ /\ d.with \in Runs
                           /\ own'[d.run] # 0
                           /\ \E x \in Runs \ {d.run} : own'[x] = own'[d.run]
  BY DEF BaseKnown, MadeBy
<1>1. /\ d.run \in apart /\ apart \subseteq Runs
      /\ LocalTypes /\ TypeOK /\ TableGrows /\ \A q \in Runs : Place(q) /\ Holds(q)
  BY Lasting DEF Core, LocalTypes, TypeOK
<1>2. SUFFICES /\ d.with # d.run
               /\ \/ d.base \in {"absent", "elsewhere"}
                  \/ d.with \in Runs /\ own[d.run] # 0 /\ MadeBy(own[d.run], d.run)
  BY <1>1, Lasting DEF MadeBy
<1>3. CASE d \in diffs
  BY <1>1, <1>3 DEF BaseKnown
<1>4. ASSUME NEW r \in Runs, Move(r) \/ Begin(r), d \notin diffs
      PROVE  pc[r] = "finalize" /\ d = Comparison(r)
  BY <1>4, DiffsStep
<1>5. ASSUME NEW r \in Runs, Crash(r)
      PROVE  diffs' = diffs
  BY <1>5 DEF Crash, shared
<1>6. CASE UNCHANGED vars
  BY <1>3, <1>6 DEF vars, shared
<1>7. ASSUME NEW r \in Runs, Move(r) \/ Begin(r), d \notin diffs
      PROVE  /\ d.with # d.run
             /\ \/ d.base \in {"absent", "elsewhere"}
                \/ d.with \in Runs /\ own[d.run] # 0 /\ MadeBy(own[d.run], d.run)
  <2>1. pc[r] = "finalize" /\ d = Comparison(r)
    BY <1>4, <1>7
  <2>2. d.run = r
    BY <2>1 DEF Comparison
  <2>3. QED
    BY <1>1, <2>1, <2>2, ComparisonKnown
<1>8. QED
  BY <1>3, <1>5, <1>6, <1>7 DEF Next, Move

\* A run that nothing overlapped is not compared with itself, and what it is
\* compared with has no files any more, unless they are another project's or
\* were made under the name of its own directory.
THEOREM BaseIsGoneHolds == Spec => []BaseIsGone
<1>1. Init => Made /\ NewestRow /\ BaseKnown
  BY RunsAssumption DEF Init, Made, Cleared, NewestRow, Rows, HasRow, BaseKnown
<1>2. DirsKnown => Sole
  BY DEF DirsKnown
<1>3. Core /\ BaseKnown => BaseIsGone
  BY DEF Core, TypeOK, BaseKnown, BaseIsGone, MadeBy
<1>4. QED
  BY <1>1, <1>2, <1>3, MadeStep, NewestStep, BaseStep, DirsHold, ApartHolds, CoreHolds,
     PTL DEF Spec
=============================================================================
