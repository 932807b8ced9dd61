------------------------------ MODULE CiIntake ------------------------------
(***************************************************************************)
(* The two routes of server/routes.ts that put work into the CI feed:      *)
(* POST /api/webhooks/github and POST /api/ci/enqueue.  A handler is one   *)
(* request in flight; every `await' on the database is a step of its own,  *)
(* so the requests that Express serves concurrently interleave between     *)
(* them.  Requests refused before the first database call (rate limit,     *)
(* signature, missing headers) change nothing and are left out.            *)
(***************************************************************************)
EXTENDS CiStore, FiniteSets

CONSTANTS
  Handlers,      \* requests that can be in flight at once
  DeliverySha,   \* the commit a delivery names, or NoSha
  NoSha,         \* the payload is of an ignored kind or lacks a field
  MaxRuns        \* bound: requests are accepted while ci_runs has room

ASSUME HandlersAssumption == IsFiniteSet(Handlers)
ASSUME DeliveryShaAssumption == DeliverySha \in [Deliveries -> Shas \cup {NoSha}]
ASSUME NoShaAssumption == NoSha \notin Shas
ASSUME MaxRunsAssumption == MaxRuns \in Nat

VARIABLE handler \* [pc, sha, run] of every request slot

Free == [pc |-> "free", sha |-> NoSha, run |-> 0]

HandlerState ==
  [pc: {"free", "find", "createRun", "createJob"}, sha: Shas \cup {NoSha}, run: Nat]

HandlerTypeOK == handler \in [Handlers -> HandlerState]

IntakeInit == handler = [h \in Handlers |-> Free]

\* Bound: every request in flight could still insert a run.
HasRoom == Len(runs) + Cardinality({h \in Handlers : handler[h].pc # "free"}) < MaxRuns

Advance(h, to) == handler' = [handler EXCEPT ![h] = to]

(***************************************************************************)
(* checkAndRecordDelivery is an INSERT under a primary key, so recording   *)
(* and detecting a replay are one step, and it comes before anything else  *)
(* the handler does for the delivery.                                      *)
(***************************************************************************)
AcceptDelivery(h, d) ==
  /\ handler[h].pc = "free"
  /\ d \notin deliveries
  /\ DeliverySha[d] # NoSha
  /\ HasRoom
  /\ deliveries' = deliveries \cup {d}
  /\ Advance(h, [pc |-> "find", sha |-> DeliverySha[d], run |-> 0])
  /\ UNCHANGED <<runs, jobs>>

\* An event that is neither push nor an interesting pull_request, or one with
\* missing fields: recorded, then answered 202 or 400.
IgnoreDelivery(h, d) ==
  /\ handler[h].pc = "free"
  /\ d \notin deliveries
  /\ DeliverySha[d] = NoSha
  /\ deliveries' = deliveries \cup {d}
  /\ UNCHANGED <<runs, jobs, handler>>

\* A replay is answered 202 {deduped: true}, whatever became of the original.
ReplayDelivery(h, d) ==
  /\ handler[h].pc = "free"
  /\ d \in deliveries
  /\ UNCHANGED <<storeVars, handler>>

EnqueueRequest(h, sha) ==
  /\ handler[h].pc = "free"
  /\ HasRoom
  /\ Advance(h, [pc |-> "find", sha |-> sha, run |-> 0])
  /\ UNCHANGED storeVars

DedupBySha(h) ==
  /\ handler[h].pc = "find"
  /\ ExistingCiRun(handler[h].sha)
  /\ Advance(h, Free)
  /\ UNCHANGED storeVars

\* Mutant: the result of the query is not looked at.
FindAnything(h) ==
  /\ handler[h].pc = "find"
  /\ Advance(h, [handler[h] EXCEPT !.pc = "createRun"])
  /\ UNCHANGED storeVars

FindNone(h) ==
  /\ handler[h].pc = "find"
  /\ ~ExistingCiRun(handler[h].sha)
  /\ Advance(h, [handler[h] EXCEPT !.pc = "createRun"])
  /\ UNCHANGED storeVars

\* Mutant: the request is answered once its run exists.
InsertRunAndAnswer(h) ==
  /\ handler[h].pc = "createRun"
  /\ CreateCiRun(handler[h].sha)
  /\ Advance(h, Free)
  /\ UNCHANGED <<deliveries, jobs>>

InsertRun(h) ==
  /\ handler[h].pc = "createRun"
  /\ CreateCiRun(handler[h].sha)
  /\ Advance(h, [handler[h] EXCEPT !.pc = "createJob", !.run = Len(runs) + 1])
  /\ UNCHANGED <<deliveries, jobs>>

\* Mutant: the job is given to the newest run, not to the handler's own.
InsertJobForNewest(h) ==
  /\ handler[h].pc = "createJob"
  /\ CreateCiJob(Len(runs))
  /\ Advance(h, Free)
  /\ UNCHANGED <<deliveries, runs>>

InsertJob(h) ==
  /\ handler[h].pc = "createJob"
  /\ CreateCiJob(handler[h].run)
  /\ Advance(h, Free)
  /\ UNCHANGED <<deliveries, runs>>

\* A database error: the handlers have no catch, Express 5 passes the
\* rejection to the error middleware, which answers 500.  What was inserted
\* stays.
RequestFails(h) ==
  /\ handler[h].pc # "free"
  /\ Advance(h, Free)
  /\ UNCHANGED storeVars

Arrive(h) ==
  \/ \E d \in Deliveries : AcceptDelivery(h, d)
  \/ \E d \in Deliveries : IgnoreDelivery(h, d)
  \/ \E d \in Deliveries : ReplayDelivery(h, d)
  \/ \E sha \in Shas : EnqueueRequest(h, sha)

Handle(h) ==
  DedupBySha(h) \/ FindNone(h) \/ InsertRun(h) \/ InsertJob(h) \/ RequestFails(h)
=============================================================================
