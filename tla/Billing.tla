------------------------------ MODULE Billing ------------------------------
(***************************************************************************)
(* Credits: POST /api/v1/analyze (server/routes/api-v1.ts) charges one     *)
(* user's balance and queues a job, the failed event of the analyzer       *)
(* worker (server/queue/analyzer-worker.ts) refunds it, and Stripe's       *)
(* webhook (server/billing/webhook.ts) adds what was bought.  Each of them *)
(* changes users.credits_remaining and then inserts into                   *)
(* credit_transactions, two statements without a transaction.              *)
(*                                                                         *)
(* The API and the worker are processes of their own and may die between   *)
(* any two steps.  A statement that fails in a route is answered with 500; *)
(* in the webhook and in the failed event nobody catches it, and the       *)
(* unhandled rejection ends the process.  BullMQ and Stripe are external:  *)
(* the one retries a failed job, and takes up once a job whose worker      *)
(* died; the other delivers an event until it is acknowledged, and perhaps *)
(* once more.                                                              *)
(***************************************************************************)
EXTENDS Integers, FiniteSets, Functions

CONSTANTS
  Requests,       \* paid requests of the user
  Cost,           \* CREDIT_COSTS of each
  Purchases,      \* checkout sessions the user completes
  Pack,           \* credits each of them bought
  StartBalance,   \* users.credits_remaining at first
  Attempts,       \* attempts of a job
  Deliveries      \* bound: how often Stripe delivers one event

ASSUME BillingAssumption ==
  /\ IsFiniteSet(Requests) /\ IsFiniteSet(Purchases)
  /\ Cost \in [Requests -> Nat \ {0}]
  /\ Pack \in [Purchases -> Nat \ {0}]
  /\ StartBalance \in Nat
  /\ Attempts \in Nat \ {0} /\ Deliveries \in Nat

VARIABLES
  balance,    \* users.credits_remaining
  logged,     \* sum of credit_transactions.amount
  active,     \* BILLING_ACTIVE, read when a process starts
  request,    \* where each request stands
  charged,    \* requests that have taken their cost from the balance
  job,        \* the job of each request
  fails,      \* failed events of each job
  stalls,     \* how often its worker died on it
  owed,       \* refundCredits calls before their UPDATE
  unlogged,   \* refundCredits calls between UPDATE and INSERT
  refunded,   \* refunds credited to the balance
  event,      \* Stripe's event of each purchase: [pc, sent, acked, missed]
  credited,   \* how often each purchase was credited
  lost        \* history: kinds of statements never executed for an error

requestVars == <<request, charged>>
jobVars == <<job, fails, stalls>>
refundVars == <<owed, unlogged, refunded>>
eventVars == <<event, credited>>
vars == <<balance, logged, active, requestVars, jobVars, refundVars, eventVars, lost>>

\* "dropped" is a request that was not refused and got no job.
RequestState == {"idle", "logUse", "enqueue", "refused", "dropped", "accepted"}
JobState == {"none", "waiting", "active", "stalled", "done", "failed"}
EventState ==
  [pc: {"away", "lookup", "credit", "log"}, sent: 0..Deliveries,
   acked: BOOLEAN, missed: BOOLEAN]
\* A row of credit_transactions, or a whole refund.
Losses == {"row", "refund"}

TypeOK ==
  /\ balance \in Nat
  /\ logged \in Int
  /\ active \in BOOLEAN
  /\ request \in [Requests -> RequestState]
  /\ charged \subseteq Requests
  /\ job \in [Requests -> JobState]
  /\ fails \in [Requests -> 0..Attempts]
  /\ stalls \in [Requests -> 0..2]
  /\ owed \in [Requests -> 0..Attempts]
  /\ unlogged \in [Requests -> 0..Attempts]
  /\ refunded \in [Requests -> 0..Attempts]
  /\ event \in [Purchases -> EventState]
  /\ credited \in [Purchases -> 0..Deliveries]
  /\ lost \subseteq Losses

Away == [pc |-> "away", sent |-> 0, acked |-> FALSE, missed |-> FALSE]

Init ==
  /\ balance = StartBalance /\ logged = 0
  /\ active \in BOOLEAN
  /\ request = [r \in Requests |-> "idle"] /\ charged = {}
  /\ job = [r \in Requests |-> "none"]
  /\ fails = [r \in Requests |-> 0] /\ stalls = [r \in Requests |-> 0]
  /\ owed = [r \in Requests |-> 0]
  /\ unlogged = [r \in Requests |-> 0]
  /\ refunded = [r \in Requests |-> 0]
  /\ event = [p \in Purchases |-> Away]
  /\ credited = [p \in Purchases |-> 0]
  /\ lost = {}

(***************************************************************************)
(* POST /api/v1/analyze                                                    *)
(***************************************************************************)
Answer(r, from, to) == request[r] = from /\ request' = [request EXCEPT ![r] = to]

\* Mutant: the cost is taken without looking.
ChargeUnchecked(r) ==
  /\ active
  /\ Answer(r, "idle", "logUse")
  /\ balance' = balance - Cost[r]
  /\ charged' = charged \cup {r}
  /\ UNCHANGED <<logged, active, jobVars, refundVars, eventVars, lost>>

\* checkCredits: the conditional UPDATE.
Charge(r) ==
  /\ active /\ balance >= Cost[r]
  /\ Answer(r, "idle", "logUse")
  /\ balance' = balance - Cost[r]
  /\ charged' = charged \cup {r}
  /\ UNCHANGED <<logged, active, jobVars, refundVars, eventVars, lost>>

Refuse(r) ==
  /\ active /\ balance < Cost[r]
  /\ Answer(r, "idle", "refused")
  /\ UNCHANGED <<balance, logged, active, charged, jobVars, refundVars, eventVars, lost>>

\* Billing is off: the job is queued with its price all the same.
PassFree(r) ==
  /\ ~active
  /\ Answer(r, "idle", "enqueue")
  /\ UNCHANGED <<balance, logged, active, charged, jobVars, refundVars, eventVars, lost>>

\* Mutant: an error of the INSERT is logged and passed over.
LogUseSwallowed(r) ==
  /\ Answer(r, "logUse", "enqueue")
  /\ \E written \in BOOLEAN : logged' = IF written THEN logged - Cost[r] ELSE logged
  /\ UNCHANGED <<balance, active, charged, jobVars, refundVars, eventVars, lost>>

LogUse(r) ==
  /\ Answer(r, "logUse", "enqueue")
  /\ logged' = logged - Cost[r]
  /\ UNCHANGED <<balance, active, charged, jobVars, refundVars, eventVars, lost>>

Enqueue(r) ==
  /\ Answer(r, "enqueue", "accepted")
  /\ job' = [job EXCEPT ![r] = "waiting"]
  /\ UNCHANGED <<balance, logged, active, charged, fails, stalls, refundVars, eventVars, lost>>

\* A statement fails, there is no queue (503), or q.add fails: the charge stays.
Drop(r) ==
  /\ request[r] \in {"logUse", "enqueue"}
  /\ request' = [request EXCEPT ![r] = "dropped"]
  /\ lost' = IF request[r] = "logUse" THEN lost \cup {"row"} ELSE lost
  /\ UNCHANGED <<balance, logged, active, charged, jobVars, refundVars, eventVars>>

(***************************************************************************)
(* The job                                                                 *)
(***************************************************************************)
Work(r) ==
  /\ job[r] = "waiting"
  /\ job' = [job EXCEPT ![r] = "active"]
  /\ UNCHANGED <<balance, logged, active, requestVars, fails, stalls, refundVars, eventVars, lost>>

Succeed(r) ==
  /\ job[r] = "active"
  /\ job' = [job EXCEPT ![r] = "done"]
  /\ UNCHANGED <<balance, logged, active, requestVars, fails, stalls, refundVars, eventVars, lost>>

\* Mutant: the handler of the event does not find the price in the payload.
FailedUnpriced(r, next) ==
  /\ job' = [job EXCEPT ![r] = next]
  /\ fails' = [fails EXCEPT ![r] = @ + 1]
  /\ UNCHANGED <<balance, logged, active, requestVars, owed, unlogged, refunded, eventVars, lost>>

\* The failed event; refundCredits returns at once when billing is off.
Failed(r, next) ==
  /\ job' = [job EXCEPT ![r] = next]
  /\ fails' = [fails EXCEPT ![r] = @ + 1]
  /\ owed' = IF active THEN [owed EXCEPT ![r] = @ + 1] ELSE owed
  /\ UNCHANGED <<balance, logged, active, requestVars, unlogged, refunded, eventVars, lost>>

\* Every failed attempt raises the event, the last one and those before it.
Fail(r) ==
  /\ job[r] = "active"
  /\ Failed(r, IF fails[r] + 1 < Attempts THEN "waiting" ELSE "failed")
  /\ UNCHANGED stalls

\* The first time its worker dies a job waits again, the second time it fails.
TakeUp(r) ==
  /\ job[r] = "stalled"
  /\ stalls' = [stalls EXCEPT ![r] = @ + 1]
  /\ IF stalls[r] = 0
     THEN /\ job' = [job EXCEPT ![r] = "waiting"]
          /\ UNCHANGED <<balance, logged, active, requestVars, fails, refundVars, eventVars, lost>>
     ELSE Failed(r, "failed")

\* Mutant: the new balance is computed from the log.
CreditRefundFromLog(r) ==
  /\ owed[r] > 0
  /\ owed' = [owed EXCEPT ![r] = @ - 1]
  /\ unlogged' = [unlogged EXCEPT ![r] = @ + 1]
  /\ refunded' = [refunded EXCEPT ![r] = @ + 1]
  /\ balance' = StartBalance + logged + Cost[r]
  /\ UNCHANGED <<logged, active, requestVars, jobVars, eventVars, lost>>

CreditRefund(r) ==
  /\ owed[r] > 0
  /\ owed' = [owed EXCEPT ![r] = @ - 1]
  /\ unlogged' = [unlogged EXCEPT ![r] = @ + 1]
  /\ refunded' = [refunded EXCEPT ![r] = @ + 1]
  /\ balance' = balance + Cost[r]
  /\ UNCHANGED <<logged, active, requestVars, jobVars, eventVars, lost>>

LogRefund(r) ==
  /\ unlogged[r] > 0
  /\ unlogged' = [unlogged EXCEPT ![r] = @ - 1]
  /\ logged' = logged + Cost[r]
  /\ UNCHANGED <<balance, active, requestVars, jobVars, owed, refunded, eventVars, lost>>

(***************************************************************************)
(* POST /api/billing/webhook                                               *)
(***************************************************************************)
Receive(p, e) == event' = [event EXCEPT ![p] = e]

Deliver(p) ==
  /\ event[p].pc = "away" /\ event[p].sent < Deliveries
  /\ Receive(p, [event[p] EXCEPT !.pc = "lookup", !.sent = @ + 1])
  /\ UNCHANGED <<balance, logged, active, requestVars, jobVars, refundVars, credited, lost>>

\* Mutant: Stripe has its answer before the credit is given.
LookUpAcknowledging(p) ==
  /\ event[p].pc = "lookup"
  /\ Receive(p, [event[p] EXCEPT !.pc = "credit", !.acked = TRUE])
  /\ UNCHANGED <<balance, logged, active, requestVars, jobVars, refundVars, credited, lost>>

\* Mutant: an event seen before is acknowledged without a look at its credit.
LookUpOnce(p) ==
  /\ event[p].pc = "lookup"
  /\ Receive(p, IF event[p].sent = 1
                THEN [event[p] EXCEPT !.pc = "credit"]
                ELSE [event[p] EXCEPT !.pc = "away", !.acked = TRUE])
  /\ UNCHANGED <<balance, logged, active, requestVars, jobVars, refundVars, credited, lost>>

\* What the price is worth is asked of Stripe; an error is logged, counts as
\* no credits, and the event is acknowledged.
LookUp(p) ==
  /\ event[p].pc = "lookup"
  /\ \/ Receive(p, [event[p] EXCEPT !.pc = "credit"])
     \/ Receive(p, [event[p] EXCEPT !.pc = "away", !.acked = TRUE, !.missed = TRUE])
  /\ UNCHANGED <<balance, logged, active, requestVars, jobVars, refundVars, credited, lost>>

Credit(p) ==
  /\ event[p].pc = "credit"
  /\ Receive(p, [event[p] EXCEPT !.pc = "log"])
  /\ balance' = balance + Pack[p]
  /\ credited' = [credited EXCEPT ![p] = @ + 1]
  /\ UNCHANGED <<logged, active, requestVars, jobVars, refundVars, lost>>

LogPurchase(p) ==
  /\ event[p].pc = "log"
  /\ Receive(p, [event[p] EXCEPT !.pc = "away", !.acked = TRUE])
  /\ logged' = logged + Pack[p]
  /\ UNCHANGED <<balance, active, requestVars, jobVars, refundVars, credited, lost>>

(***************************************************************************)
(* Crashes                                                                 *)
(***************************************************************************)
\* Requests and webhook calls in flight are gone; Stripe has no answer.
StopApi ==
  /\ request' = [r \in Requests |->
       IF request[r] \in {"logUse", "enqueue"} THEN "dropped" ELSE request[r]]
  /\ event' = [p \in Purchases |-> [event[p] EXCEPT !.pc = "away"]]

ApiLosses ==
  IF \/ \E r \in Requests : request[r] = "logUse"
     \/ \E p \in Purchases : event[p].pc = "log"
  THEN {"row"} ELSE {}

StopWorker ==
  /\ job' = [r \in Requests |-> IF job[r] = "active" THEN "stalled" ELSE job[r]]
  /\ owed' = [r \in Requests |-> 0]
  /\ unlogged' = [r \in Requests |-> 0]

WorkerLosses ==
  {l \in Losses : \E r \in Requests :
     IF l = "row" THEN unlogged[r] > 0 ELSE owed[r] > 0}

ApiDies ==
  /\ StopApi
  /\ lost' = lost \cup ApiLosses
  /\ UNCHANGED <<balance, logged, active, charged, jobVars, refundVars, credited>>

WorkerDies ==
  /\ StopWorker
  /\ lost' = lost \cup WorkerLosses
  /\ UNCHANGED <<balance, logged, active, requestVars, fails, stalls, refunded, eventVars>>

\* A deployment that switches billing on restarts both.
Deploy ==
  /\ ~active
  /\ StopApi /\ StopWorker
  /\ lost' = lost \cup ApiLosses \cup WorkerLosses
  /\ active' = TRUE
  /\ UNCHANGED <<balance, logged, charged, fails, stalls, refunded, credited>>

Serve(r) == Charge(r) \/ Refuse(r) \/ PassFree(r) \/ LogUse(r) \/ Enqueue(r) \/ Drop(r)
Run(r) == Work(r) \/ Succeed(r) \/ Fail(r) \/ TakeUp(r)
Refund(r) == CreditRefund(r) \/ LogRefund(r)
Handle(p) == LookUp(p) \/ Credit(p) \/ LogPurchase(p)

Next ==
  \/ \E r \in Requests : Serve(r) \/ Run(r) \/ Refund(r)
  \/ \E p \in Purchases : Deliver(p) \/ Handle(p)
  \/ ApiDies \/ WorkerDies \/ Deploy

Spec == Init /\ [][Next]_vars

(***************************************************************************)
(* Fairness: statements return or fail, the queue hands out its jobs and   *)
(* takes up those of a dead worker, Stripe delivers again until it has an  *)
(* answer.  Nothing makes a job end, a request come or a process die.  All *)
(* of this is finite, so none of it can starve the rest.                   *)
(***************************************************************************)
Progress ==
  \/ \E r \in Requests : LogUse(r) \/ Enqueue(r) \/ Work(r) \/ TakeUp(r) \/ Refund(r)
  \/ \E p \in Purchases : Handle(p) \/ (~event[p].acked /\ Deliver(p))

FairSpec == Spec /\ WF_vars(Progress)

(***************************************************************************)
(* Properties                                                              *)
(***************************************************************************)
Refunds == [r \in Requests |-> refunded[r] * Cost[r]]
Unlogged == [r \in Requests |-> unlogged[r] * Cost[r]]
Credits == [p \in Purchases |-> credited[p] * Pack[p]]
UsesToLog == {r \in Requests : request[r] = "logUse"}
PacksToLog == {p \in Purchases : event[p].pc = "log"}

\* No update of the balance is lost, whatever runs at the same time: it is
\* what the user had, less every charge, plus every refund and every pack.
\* (TypeOK says that it is never negative.)
BalanceExact ==
  balance = StartBalance - SumFunctionOnSet(Cost, charged)
            + SumFunction(Refunds) + SumFunction(Credits)

\* The log explains the balance but for the rows still to be written, unless
\* a process died, or a statement failed, between the two statements.
LogExplainsBalance ==
  "row" \notin lost =>
    balance - StartBalance - logged =
        SumFunction(Unlogged)
      + SumFunctionOnSet(Pack, PacksToLog) - SumFunctionOnSet(Cost, UsesToLog)

\* "Deduct on enqueue, refund on hard failure" (docs/CONTEXT.md): what was paid
\* for a job that succeeds, retried or not, is not given back.
RefundOnlyOnHardFailure == \A r \in charged : job[r] = "done" => refunded[r] = 0

\* An acknowledged purchase has been credited unless the lookup failed, and
\* is credited again only by a delivery of its own.
PurchaseAccounted ==
  \A p \in Purchases :
    /\ event[p].acked => credited[p] > 0 \/ event[p].missed
    /\ credited[p] + (IF event[p].pc \in {"lookup", "credit"} THEN 1 ELSE 0)
         <= event[p].sent

\* A charged job that fails for good is refunded in the end, unless the worker
\* dies first.
FailureRefunded ==
  <>[](\A r \in charged : job[r] = "failed" => refunded[r] > 0 \/ "refund" \in lost)

\* Stripe's event ends in a credit, in a failed lookup, or in Stripe giving up.
PurchaseSettles ==
  <>[](\A p \in Purchases :
         credited[p] > 0 \/ event[p].missed \/ event[p].sent = Deliveries)

\* The ledger of the user, seen through the balance and what changed it.
Promise == INSTANCE Ledger

\* Whatever runs at the same time, and whoever dies in between, each change of
\* the balance is one of the ledger's: a covered charge, made once, a refund
\* within the attempts of a job, or a pack within the deliveries of its event.
ImplementsLedger == Promise!Spec
=============================================================================
