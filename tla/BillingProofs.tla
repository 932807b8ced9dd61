--------------------------- MODULE BillingProofs ---------------------------
(***************************************************************************)
(* Proofs about Billing, for any requests, prices, purchases and packs.    *)
(*                                                                         *)
(* IInv (TypeOK, JobKnows, RefundKnows, EventKnows) is inductive by        *)
(* itself: who may still be charged, refunded or credited.  Books is the   *)
(* layer above it, the two equations between the balance, the log and what *)
(* was counted; its steps need the lemmas about sums.                      *)
(***************************************************************************)
EXTENDS Billing, FiniteSetTheorems, TLAPS

\* A job that may still fail has attempts left, and one whose worker may still
\* die has not seen it twice; a job comes with an accepted request, and a
\* request not yet served has paid nothing.
JobKnows ==
  \A r \in Requests :
    /\ job[r] # "failed" => fails[r] < Attempts /\ stalls[r] <= 1
    /\ job[r] = "none" => fails[r] = 0
    /\ request[r] # "accepted" => job[r] = "none"
    /\ request[r] = "idle" => r \notin charged

\* What a job is owed, has and has not logged goes back to its failures.
RefundKnows ==
  \A r \in Requests :
    /\ owed[r] + refunded[r] <= fails[r]
    /\ unlogged[r] <= refunded[r]

\* An event past its credit has credited; each delivery credits once at most.
EventKnows ==
  \A p \in Purchases :
    /\ event[p].pc = "log" => credited[p] > 0
    /\ event[p].acked => credited[p] > 0 \/ event[p].missed
    /\ credited[p] <= event[p].sent
    /\ event[p].pc \in {"lookup", "credit"} => credited[p] < event[p].sent

IInv == TypeOK /\ JobKnows /\ RefundKnows /\ EventKnows

\* A balance nobody has used, and no job, refund or event.
LEMMA InitIInv == ASSUME Init PROVE IInv
<1>1. TypeOK
  BY BillingAssumption
  DEF Init, TypeOK, RequestState, JobState, EventState, Losses, Away
<1>2. JobKnows /\ RefundKnows /\ EventKnows
  BY BillingAssumption DEF Init, JobKnows, RefundKnows, EventKnows, Away
<1>3. QED
  BY <1>1, <1>2 DEF IInv

(***************************************************************************)
(* The request                                                             *)
(***************************************************************************)
\* What a step of the route does to the parts the invariant speaks of.
LEMMA ServeIInv ==
  ASSUME IInv, NEW r \in Requests, Serve(r)
  PROVE  IInv'
<1> USE BillingAssumption DEF IInv, TypeOK, JobKnows, RefundKnows, EventKnows,
      jobVars, refundVars, eventVars, Answer, RequestState, JobState, Losses
<1>1. CASE Charge(r)
  <2>1. balance' \in Nat
    BY <1>1 DEF Charge
  <2>2. QED
    BY <1>1, <2>1 DEF Charge
<1>2. CASE Refuse(r)
  BY <1>2 DEF Refuse
<1>3. CASE PassFree(r)
  BY <1>3 DEF PassFree
<1>4. CASE LogUse(r)
  BY <1>4 DEF LogUse
<1>5. CASE Enqueue(r)
  BY <1>5 DEF Enqueue
<1>6. CASE Drop(r)
  BY <1>6 DEF Drop
<1>7. QED
  BY <1>1, <1>2, <1>3, <1>4, <1>5, <1>6 DEF Serve

(***************************************************************************)
(* The job and its refunds                                                 *)
(***************************************************************************)
\* A failed attempt, the last or one before it: a job that had attempts left
\* has one less, and is owed at most one refund more.
LEMMA FailedIInv ==
  ASSUME IInv, NEW r \in Requests, NEW next \in {"waiting", "failed"},
         job[r] \in {"active", "stalled"},
         next = "waiting" => fails[r] + 1 < Attempts /\ stalls'[r] <= 1,
         stalls' \in [Requests -> 0..2],
         \A q \in Requests \ {r} : stalls'[q] = stalls[q],
         Failed(r, next)
  PROVE  IInv'
<1> USE BillingAssumption
<1>1. fails[r] < Attempts /\ fails[r] \in Nat /\ Attempts \in Nat
  BY DEF IInv, TypeOK, JobKnows
<1>2. TypeOK'
  <2>1. job' \in [Requests -> JobState] /\ fails' \in [Requests -> 0..Attempts]
    BY <1>1 DEF IInv, TypeOK, Failed, JobState
  <2>2. owed' \in [Requests -> 0..Attempts]
    BY <1>1 DEF IInv, TypeOK, Failed, RefundKnows
  <2>3. QED
    BY <2>1, <2>2 DEF IInv, TypeOK, Failed, requestVars, eventVars
<1>3. JobKnows'
  BY <1>1 DEF IInv, TypeOK, JobKnows, Failed, requestVars
<1>4. RefundKnows'
  BY <1>1 DEF IInv, TypeOK, RefundKnows, Failed
<1>5. EventKnows'
  BY DEF IInv, EventKnows, Failed, eventVars
<1>6. QED
  BY <1>2, <1>3, <1>4, <1>5 DEF IInv

\* A step of the queue or of the processor.
LEMMA RunIInv ==
  ASSUME IInv, NEW r \in Requests, Run(r)
  PROVE  IInv'
<1>1. CASE Work(r) \/ Succeed(r)
  BY <1>1, BillingAssumption
  DEF IInv, TypeOK, JobKnows, RefundKnows, EventKnows, Work, Succeed,
      requestVars, refundVars, eventVars, JobState
<1>2. CASE Fail(r)
  <2> DEFINE next == IF fails[r] + 1 < Attempts THEN "waiting" ELSE "failed"
  <2>1. next \in {"waiting", "failed"} /\ (next = "waiting" => fails[r] + 1 < Attempts)
    OBVIOUS
  <2>2. job[r] = "active" /\ Failed(r, next) /\ stalls' = stalls
    BY <1>2 DEF Fail
  <2>3. stalls[r] <= 1 /\ stalls \in [Requests -> 0..2]
    BY <2>2 DEF IInv, TypeOK, JobKnows
  <2> HIDE DEF next
  <2>4. QED
    BY <2>1, <2>2, <2>3, FailedIInv
<1>3. CASE TakeUp(r)
  <2>1. stalls[r] \in 0..1 /\ job[r] = "stalled"
    BY <1>3 DEF TakeUp, IInv, TypeOK, JobKnows
  <2>2. CASE stalls[r] = 0
    BY <1>3, <2>1, <2>2, BillingAssumption
    DEF IInv, TypeOK, JobKnows, RefundKnows, EventKnows, TakeUp,
        requestVars, refundVars, eventVars, JobState
  <2>3. CASE stalls[r] # 0
    <3>1. /\ stalls' \in [Requests -> 0..2]
          /\ \A q \in Requests \ {r} : stalls'[q] = stalls[q]
      BY <1>3, <2>1 DEF TakeUp, IInv, TypeOK
    <3>2. Failed(r, "failed")
      BY <1>3, <2>3 DEF TakeUp
    <3>3. QED
      BY <2>1, <3>1, <3>2, FailedIInv
  <2>4. QED
    BY <2>2, <2>3
<1>4. QED
  BY <1>1, <1>2, <1>3 DEF Run

\* A refund given is one owed, so the sum over a job does not grow; a row
\* written was one of a refund given.
LEMMA RefundIInv ==
  ASSUME IInv, NEW r \in Requests, Refund(r)
  PROVE  IInv'
<1> USE BillingAssumption
<1>1. CASE CreditRefund(r)
  <2>1. balance' \in Nat
    BY <1>1 DEF CreditRefund, IInv, TypeOK
  <2>2. /\ owed' \in [Requests -> 0..Attempts]
        /\ refunded' \in [Requests -> 0..Attempts]
        /\ unlogged' \in [Requests -> 0..Attempts]
    BY <1>1 DEF CreditRefund, IInv, TypeOK, RefundKnows
  <2>3. TypeOK'
    BY <1>1, <2>1, <2>2 DEF CreditRefund, IInv, TypeOK, requestVars, jobVars, eventVars
  <2>4. JobKnows' /\ RefundKnows' /\ EventKnows'
    BY <1>1
    DEF CreditRefund, IInv, TypeOK, JobKnows, RefundKnows, EventKnows,
        requestVars, jobVars, eventVars
  <2>5. QED
    BY <2>3, <2>4 DEF IInv
<1>2. CASE LogRefund(r)
  <2>1. logged' \in Int /\ unlogged' \in [Requests -> 0..Attempts]
    BY <1>2 DEF LogRefund, IInv, TypeOK
  <2>2. QED
    BY <1>2, <2>1
    DEF LogRefund, IInv, TypeOK, JobKnows, RefundKnows, EventKnows,
        requestVars, jobVars, eventVars
<1>3. QED
  BY <1>1, <1>2 DEF Refund

(***************************************************************************)
(* The purchase                                                            *)
(***************************************************************************)
\* A step of the webhook on its event alone: the rest of the invariant follows
\* from what it does to the event and to the credit.
LEMMA EventIInv ==
  ASSUME IInv, NEW p \in Purchases, NEW e \in EventState, Receive(p, e),
         credited' \in [Purchases -> 0..Deliveries],
         \A q \in Purchases \ {p} : credited'[q] = credited[q],
         e.pc = "log" => credited'[p] > 0,
         e.acked => credited'[p] > 0 \/ e.missed,
         credited'[p] <= e.sent,
         e.pc \in {"lookup", "credit"} => credited'[p] < e.sent,
         balance' \in Nat, logged' \in Int,
         UNCHANGED <<active, requestVars, jobVars, refundVars, lost>>
  PROVE  IInv'
<1>1. /\ event' \in [Purchases -> EventState]
      /\ \A q \in Purchases : event'[q] = IF q = p THEN e ELSE event[q]
  BY DEF Receive, IInv, TypeOK
<1>2. TypeOK' /\ JobKnows' /\ RefundKnows'
  BY <1>1 DEF IInv, TypeOK, JobKnows, RefundKnows, requestVars, jobVars, refundVars
<1>3. EventKnows'
  BY <1>1 DEF IInv, EventKnows
<1>4. QED
  BY <1>2, <1>3 DEF IInv

\* Every step of the webhook and of Stripe is one of EventIInv's.
LEMMA PurchaseIInv ==
  ASSUME IInv, NEW p \in Purchases, Deliver(p) \/ Handle(p)
  PROVE  IInv'
<1> USE BillingAssumption
<1> DEFINE e == event[p]
<1>1. /\ e \in EventState /\ e.sent \in 0..Deliveries
      /\ balance \in Nat /\ logged \in Int
      /\ credited \in [Purchases -> 0..Deliveries] /\ credited[p] \in Nat
  BY DEF IInv, TypeOK, EventState
<1>2. /\ e.pc = "log" => credited[p] > 0
      /\ e.acked => credited[p] > 0 \/ e.missed
      /\ credited[p] <= e.sent
      /\ e.pc \in {"lookup", "credit"} => credited[p] < e.sent
  BY DEF IInv, EventKnows
<1>3. CASE Deliver(p)
  <2> DEFINE d == [e EXCEPT !.pc = "lookup", !.sent = @ + 1]
  <2>1. d = [[e EXCEPT !.pc = "lookup"] EXCEPT !.sent = e.sent + 1]
    BY <1>1 DEF EventState
  <2>2. e.sent + 1 \in 0..Deliveries
    BY <1>1, <1>3 DEF Deliver
  <2>3. /\ d \in EventState /\ d.pc = "lookup" /\ d.sent = e.sent + 1
        /\ d.acked = e.acked /\ d.missed = e.missed
    BY <1>1, <2>1, <2>2 DEF EventState
  <2>4. Receive(p, d)
    BY <1>3 DEF Deliver
  <2> HIDE DEF d, e
  <2>5. QED
    BY <1>1, <1>2, <1>3, <2>3, <2>4, EventIInv DEF Deliver
<1>4. CASE LookUp(p)
  <2>1. CASE Receive(p, [e EXCEPT !.pc = "credit"])
    <3> DEFINE d == [e EXCEPT !.pc = "credit"]
    <3>1. /\ d \in EventState /\ d.pc = "credit" /\ d.sent = e.sent
          /\ d.acked = e.acked /\ d.missed = e.missed
      BY <1>1 DEF EventState
    <3>2. Receive(p, d)
      BY <2>1
    <3>3. e.pc = "lookup"
      BY <1>4 DEF LookUp
    <3> HIDE DEF d, e
    <3>4. QED
      BY <1>1, <1>2, <1>4, <3>1, <3>2, <3>3, EventIInv DEF LookUp
  <2>2. CASE Receive(p, [e EXCEPT !.pc = "away", !.acked = TRUE, !.missed = TRUE])
    <3> DEFINE d == [e EXCEPT !.pc = "away", !.acked = TRUE, !.missed = TRUE]
    <3>1. d = [[[e EXCEPT !.pc = "away"] EXCEPT !.acked = TRUE] EXCEPT !.missed = TRUE]
      BY <1>1 DEF EventState
    <3>2. /\ d \in EventState /\ d.pc = "away" /\ d.sent = e.sent /\ d.missed
      BY <1>1, <3>1 DEF EventState
    <3>3. Receive(p, d)
      BY <2>2
    <3> HIDE DEF d, e
    <3>4. QED
      BY <1>1, <1>2, <1>4, <3>2, <3>3, EventIInv DEF LookUp
  <2>3. QED
    BY <1>4, <2>1, <2>2 DEF LookUp
<1>5. CASE Credit(p)
  <2> DEFINE d == [e EXCEPT !.pc = "log"]
  <2>1. /\ d \in EventState /\ d.pc = "log" /\ d.sent = e.sent
        /\ d.acked = e.acked /\ d.missed = e.missed
    BY <1>1 DEF EventState
  <2>2. Receive(p, d) /\ e.pc = "credit"
    BY <1>5 DEF Credit
  <2>3. credited[p] + 1 \in 0..Deliveries /\ credited[p] + 1 <= e.sent
    BY <1>1, <1>2, <2>2
  <2>4. /\ balance' \in Nat
        /\ credited' \in [Purchases -> 0..Deliveries] /\ credited'[p] = credited[p] + 1
        /\ \A q \in Purchases \ {p} : credited'[q] = credited[q]
    BY <1>1, <1>5, <2>3 DEF Credit
  <2> HIDE DEF d, e
  <2>5. QED
    BY <1>1, <1>2, <1>5, <2>1, <2>2, <2>3, <2>4, EventIInv DEF Credit
<1>6. CASE LogPurchase(p)
  <2> DEFINE d == [e EXCEPT !.pc = "away", !.acked = TRUE]
  <2>1. d = [[e EXCEPT !.pc = "away"] EXCEPT !.acked = TRUE]
    BY <1>1 DEF EventState
  <2>2. d \in EventState /\ d.pc = "away" /\ d.sent = e.sent
    BY <1>1, <2>1 DEF EventState
  <2>3. Receive(p, d) /\ e.pc = "log"
    BY <1>6 DEF LogPurchase
  <2>4. logged' \in Int
    BY <1>1, <1>6 DEF LogPurchase
  <2> HIDE DEF d, e
  <2>5. QED
    BY <1>1, <1>2, <1>6, <2>2, <2>3, <2>4, EventIInv DEF LogPurchase
<1>7. QED
  BY <1>3, <1>4, <1>5, <1>6 DEF Handle

(***************************************************************************)
(* Crashes                                                                 *)
(***************************************************************************)
\* The death of the API forgets where its calls stood, and nothing stored.
LEMMA StopApiKeeps ==
  ASSUME IInv, StopApi
  PROVE  /\ request' \in [Requests -> RequestState]
         /\ event' \in [Purchases -> EventState]
         /\ \A r \in Requests :
              /\ request[r] = "accepted" => request'[r] = "accepted"
              /\ request'[r] = "idle" => request[r] = "idle"
         /\ \A p \in Purchases :
              /\ event'[p].pc = "away"
              /\ event'[p].sent = event[p].sent
              /\ event'[p].acked = event[p].acked
              /\ event'[p].missed = event[p].missed
  BY DEF StopApi, IInv, TypeOK, RequestState, EventState

\* The death of the worker forgets refunds, and ends or begins no job.
LEMMA StopWorkerKeeps ==
  ASSUME IInv, StopWorker
  PROVE  /\ job' \in [Requests -> JobState]
         /\ owed' \in [Requests -> 0..Attempts]
         /\ unlogged' \in [Requests -> 0..Attempts]
         /\ \A r \in Requests :
              /\ job'[r] = "failed" <=> job[r] = "failed"
              /\ job'[r] = "none" <=> job[r] = "none"
              /\ owed'[r] = 0 /\ unlogged'[r] = 0
  BY BillingAssumption DEF StopWorker, IInv, TypeOK, JobState

\* So no death, and no restart of both, disturbs the invariant.
LEMMA CrashIInv ==
  ASSUME IInv, ApiDies \/ WorkerDies \/ Deploy
  PROVE  IInv'
<1>1. CASE ApiDies
  <2>1. lost' \subseteq Losses
    BY <1>1 DEF ApiDies, ApiLosses, Losses, IInv, TypeOK
  <2>2. QED
    BY <1>1, <2>1, StopApiKeeps
    DEF ApiDies, IInv, TypeOK, JobKnows, RefundKnows, EventKnows, jobVars, refundVars
<1>2. CASE WorkerDies
  <2>1. lost' \subseteq Losses
    BY <1>2 DEF WorkerDies, WorkerLosses, Losses, IInv, TypeOK
  <2>2. QED
    BY <1>2, <2>1, StopWorkerKeeps
    DEF WorkerDies, IInv, TypeOK, JobKnows, RefundKnows, EventKnows, requestVars, eventVars
<1>3. CASE Deploy
  <2>1. lost' \subseteq Losses
    BY <1>3 DEF Deploy, ApiLosses, WorkerLosses, Losses, IInv, TypeOK
  <2>2. QED
    BY <1>3, <2>1, StopApiKeeps, StopWorkerKeeps
    DEF Deploy, IInv, TypeOK, JobKnows, RefundKnows, EventKnows
<1>4. QED
  BY <1>1, <1>2, <1>3

(***************************************************************************)
(* The theorems                                                            *)
(***************************************************************************)
\* Every step preserves the inductive invariant.
LEMMA NextIInv == IInv /\ [Next]_vars => IInv'
<1> SUFFICES ASSUME IInv, [Next]_vars PROVE IInv'
  OBVIOUS
<1>1. ASSUME NEW r \in Requests, Serve(r) \/ Run(r) \/ Refund(r) PROVE IInv'
  BY <1>1, ServeIInv, RunIInv, RefundIInv
<1>2. ASSUME NEW p \in Purchases, Deliver(p) \/ Handle(p) PROVE IInv'
  BY <1>2, PurchaseIInv
<1>3. CASE ApiDies \/ WorkerDies \/ Deploy
  BY <1>3, CrashIInv
<1>4. CASE UNCHANGED vars
  BY <1>4
  DEF vars, requestVars, jobVars, refundVars, eventVars,
      IInv, TypeOK, JobKnows, RefundKnows, EventKnows
<1>5. QED
  BY <1>1, <1>2, <1>3, <1>4 DEF Next

\* The inductive invariant holds in every reachable state.
LEMMA IInvHolds == Spec => []IInv
<1>1. Init => IInv
  BY InitIInv
<1>2. QED
  BY <1>1, NextIInv, PTL DEF Spec

\* Type correctness; in particular no sequence of concurrent charges, refunds
\* and purchases makes the balance negative.
THEOREM TypeCorrect == Spec => []TypeOK
<1>1. IInv => TypeOK
  BY DEF IInv
<1>2. QED
  BY <1>1, IInvHolds, PTL

\* An acknowledged purchase is credited unless its lookup failed, and is never
\* credited more often than Stripe delivered its event.
THEOREM PurchaseAccountedHolds == Spec => []PurchaseAccounted
<1>1. IInv => PurchaseAccounted
  <2> SUFFICES ASSUME IInv, NEW p \in Purchases
               PROVE  /\ event[p].acked => credited[p] > 0 \/ event[p].missed
                      /\ credited[p] + (IF event[p].pc \in {"lookup", "credit"} THEN 1 ELSE 0)
                           <= event[p].sent
    BY DEF PurchaseAccounted
  <2>1. event[p].sent \in Nat /\ credited[p] \in Nat
    BY BillingAssumption DEF IInv, TypeOK, EventState
  <2>2. QED
    BY <2>1 DEF IInv, EventKnows
<1>2. QED
  BY <1>1, IInvHolds, PTL

\* A step that changes the balance is a step of the ledger, and every other
\* one leaves the balance and its counts alone.
LEMMA StepIsLedgerStep ==
  ASSUME IInv, [Next]_vars
  PROVE  [Promise!Next]_(Promise!vars)
<1> USE BillingAssumption
<1> DEFINE same == UNCHANGED <<balance, charged, refunded, credited>>
<1>1. ASSUME NEW r \in Requests, Serve(r)
      PROVE  Promise!Charge(r) \/ same
  BY <1>1
  DEF IInv, JobKnows, Serve, Charge, Refuse, PassFree, LogUse, Enqueue, Drop, Answer,
      refundVars, eventVars, Promise!Charge
<1>2. ASSUME NEW r \in Requests, Run(r)
      PROVE  same
  BY <1>2
  DEF Run, Work, Succeed, Fail, TakeUp, Failed, requestVars, refundVars, eventVars
<1>3. ASSUME NEW r \in Requests, Refund(r)
      PROVE  Promise!Refund(r) \/ same
  <2>1. CASE CreditRefund(r)
    <3>1. refunded[r] < Attempts
      BY <2>1 DEF CreditRefund, IInv, TypeOK, RefundKnows
    <3>2. QED
      BY <2>1, <3>1 DEF CreditRefund, requestVars, eventVars, Promise!Refund
  <2>2. CASE LogRefund(r)
    BY <2>2 DEF LogRefund, requestVars, eventVars
  <2>3. QED
    BY <1>3, <2>1, <2>2 DEF Refund
<1>4. ASSUME NEW p \in Purchases, Deliver(p) \/ Handle(p)
      PROVE  Promise!Credit(p) \/ same
  <2>1. CASE Credit(p)
    <3>1. event[p].sent \in 0..Deliveries /\ credited[p] \in Nat
      BY DEF IInv, TypeOK, EventState
    <3>2. credited[p] < Deliveries
      BY <2>1, <3>1 DEF Credit, IInv, EventKnows
    <3>3. QED
      BY <2>1, <3>2 DEF Credit, requestVars, refundVars, Promise!Credit
  <2>2. CASE Deliver(p) \/ LookUp(p) \/ LogPurchase(p)
    BY <2>2 DEF Deliver, LookUp, LogPurchase, requestVars, refundVars
  <2>3. QED
    BY <1>4, <2>1, <2>2 DEF Handle
<1>5. ASSUME ApiDies \/ WorkerDies \/ Deploy
      PROVE  same
  BY <1>5 DEF ApiDies, WorkerDies, Deploy, requestVars, refundVars, eventVars
<1>6. ASSUME UNCHANGED vars
      PROVE  same
  BY <1>6 DEF vars, requestVars, refundVars, eventVars
<1>7. QED
  BY <1>1, <1>2, <1>3, <1>4, <1>5, <1>6 DEF Next, Promise!Next, Promise!vars

\* For any number of requests, purchases, attempts and deliveries, Billing
\* implements the ledger: the balance is never charged beyond what it holds or
\* twice for one request, and no refund or pack changes it beyond its bound.
THEOREM ImplementsLedgerHolds == Spec => ImplementsLedger
<1>1. Init => Promise!Init
  BY DEF Init, Promise!Init
<1>2. IInv /\ [Next]_vars => [Promise!Next]_(Promise!vars)
  BY StepIsLedgerStep
<1>3. QED
  BY <1>1, <1>2, IInvHolds, PTL DEF Spec, ImplementsLedger, Promise!Spec

(***************************************************************************)
(* Sums                                                                    *)
(*                                                                         *)
(* SumFunctionOnSet is a fold: a recursive function on the subsets of its  *)
(* set, which takes the elements in the order CHOOSE gives them.  The      *)
(* induction is over a set P of subsets instead of a predicate: the well-  *)
(* foundedness of the strict subset ordering gives a least counterexample. *)
(***************************************************************************)
\* Induction over the subsets of a finite set.
LEMMA SubsetInduction ==
  ASSUME NEW F, IsFiniteSet(F), NEW P,
         \A U \in SUBSET F : (\A V \in SUBSET U : V # U => V \in P) => U \in P
  PROVE  F \in P
<1>1. SUFFICES ASSUME F \notin P PROVE FALSE
  OBVIOUS
<1>2. IsWellFoundedOn(StrictSubsetOrdering(F), FiniteSubsetsOf(F))
  BY FS_StrictSubsetOrderingWellFounded
<1> DEFINE B == {U \in FiniteSubsetsOf(F) : U \notin P}
<1>3. F \in B
  BY <1>1 DEF FiniteSubsetsOf
<1>4. PICK U \in B : \A V \in B : <<V, U>> \notin StrictSubsetOrdering(F)
  <2>1. B \subseteq FiniteSubsetsOf(F) /\ B # {}
    BY <1>3
  <2> HIDE DEF B
  <2>2. QED
    BY <1>2, <2>1, WFMin
<1>5. QED
  BY <1>4, FS_Subset DEF StrictSubsetOrdering, FiniteSubsetsOf

\* The element the fold takes out of U, what it makes of U given the sums of
\* the smaller sets, and the function it defines on the subsets of S.
First(U) == CHOOSE x \in U : TRUE
Plus(g, f, U) == IF U = {} THEN 0 ELSE f[First(U)] + g[U \ {First(U)}]
Sums(f, S) == CHOOSE g : g = [U \in SUBSET S |-> Plus(g, f, U)]

\* The fold takes out an element.
LEMMA FirstIn == ASSUME NEW U, U # {} PROVE First(U) \in U
  BY DEF First

\* The sum is the value of that function for the whole set.
LEMMA SumIs ==
  ASSUME NEW f, NEW S
  PROVE SumFunctionOnSet(f, S) = Sums(f, S)[S]
  BY DEF SumFunctionOnSet, FoldFunctionOnSet, MapThenFoldSet, Sums, Plus, First

\* Two functions that sum up agreeing summands agree.
LEMMA SumsAgree ==
  ASSUME NEW S, IsFiniteSet(S), NEW f, NEW k, \A x \in S : f[x] = k[x], NEW g, NEW h,
         \A U \in SUBSET S : g[U] = Plus(g, f, U) /\ h[U] = Plus(h, k, U)
  PROVE  \A U \in SUBSET S : g[U] = h[U]
<1> DEFINE Q == {U \in SUBSET S : g[U] = h[U]}
<1>1. ASSUME NEW U \in SUBSET S
      PROVE  U \in Q
  <2>1. ASSUME NEW V \in SUBSET U, \A W \in SUBSET V : W # V => W \in Q
        PROVE  V \in Q
    <3>1. CASE V # {}
      <4>1. First(V) \in V /\ V \ {First(V)} \in Q
        BY <2>1, <3>1, FirstIn
      <4>2. QED
        BY <3>1, <4>1 DEF Plus
    <3>2. CASE V = {}
      BY <3>2 DEF Plus
    <3>3. QED
      BY <3>1, <3>2
  <2>2. IsFiniteSet(U)
    BY FS_Subset
  <2> HIDE DEF Q
  <2>3. QED
    BY <2>1, <2>2, SubsetInduction
<1>2. QED
  BY <1>1

\* The recursion has a solution, in numbers: one for the subsets of n elements
\* gives one for those of n + 1.
LEMMA SumsExist ==
  ASSUME NEW S, IsFiniteSet(S), NEW f, \A x \in S : f[x] \in Int
  PROVE  \A U \in SUBSET S :
           Sums(f, S)[U] = Plus(Sums(f, S), f, U) /\ Sums(f, S)[U] \in Int
<1> DEFINE Up(g, n) == \A U \in SUBSET S : Cardinality(U) <= n => g[U] = Plus(g, f, U)
           P == {V \in SUBSET S : \E g \in [SUBSET S -> Int] : Up(g, Cardinality(V))}
<1>0. \A U \in SUBSET S :
        /\ IsFiniteSet(U) /\ Cardinality(U) \in Nat
        /\ (Cardinality(U) = 0) <=> (U = {})
        /\ \A x \in U : Cardinality(U \ {x}) = Cardinality(U) - 1 /\ U \ {x} \in SUBSET S
  BY FS_Subset, FS_CardinalityType, FS_EmptySet, FS_RemoveElement
<1>1. ASSUME NEW V \in SUBSET S, \A W \in SUBSET V : W # V => W \in P
      PROVE  V \in P
  <2>1. CASE V = {}
    <3> DEFINE g == [U \in SUBSET S |-> 0]
    <3>1. g \in [SUBSET S -> Int]
      OBVIOUS
    <3>2. Up(g, Cardinality(V))
      BY <1>0, <2>1 DEF Plus
    <3> HIDE DEF g
    <3>3. QED
      BY <3>1, <3>2
  <2>2. CASE V # {}
    <3>1. PICK x \in V : TRUE
      BY <2>2
    <3>2. PICK g \in [SUBSET S -> Int] : Up(g, Cardinality(V) - 1)
      <4>1. V \ {x} \in P
        BY <1>1, <3>1
      <4>2. QED
        BY <1>0, <3>1, <4>1
    <3> DEFINE h == [U \in SUBSET S |-> Plus(g, f, U)]
    <3>3. h \in [SUBSET S -> Int]
      <4> SUFFICES ASSUME NEW U \in SUBSET S PROVE Plus(g, f, U) \in Int
        OBVIOUS
      <4>1. CASE U # {}
        BY <4>1, FirstIn DEF Plus
      <4>2. QED
        BY <4>1 DEF Plus
    <3>4. Up(h, Cardinality(V))
      <4> SUFFICES ASSUME NEW U \in SUBSET S, Cardinality(U) <= Cardinality(V)
                   PROVE  h[U] = Plus(h, f, U)
        OBVIOUS
      <4>1. CASE U # {}
        <5> DEFINE W == U \ {First(U)}
        <5>1. First(U) \in U
          BY <4>1, FirstIn
        <5>2. W \in SUBSET S /\ Cardinality(W) = Cardinality(U) - 1
          BY <1>0, <5>1
        <5>3. Cardinality(W) <= Cardinality(V) - 1
          BY <1>0, <5>2
        <5>4. g[W] = Plus(g, f, W)
          BY <3>2, <5>2, <5>3
        <5>5. h[W] = g[W]
          BY <5>2, <5>4
        <5>6. QED
          BY <4>1, <5>5 DEF Plus
      <4>2. QED
        BY <4>1 DEF Plus
    <3> HIDE DEF h
    <3>5. QED
      BY <3>3, <3>4
  <2>3. QED
    BY <2>1, <2>2
<1>2. S \in P
  <2> HIDE DEF P
  <2>1. QED
    BY <1>1, SubsetInduction
<1>3. PICK g \in [SUBSET S -> Int] : Up(g, Cardinality(S))
  BY <1>2
<1>4. g = [U \in SUBSET S |-> Plus(g, f, U)]
  <2>1. \A U \in SUBSET S : Cardinality(U) <= Cardinality(S)
    BY FS_Subset
  <2>2. \A U \in SUBSET S : g[U] = Plus(g, f, U)
    BY <1>3, <2>1
  <2>3. QED
    BY <2>2
<1>5. Sums(f, S) = [U \in SUBSET S |-> Plus(Sums(f, S), f, U)]
  BY <1>4 DEF Sums
<1>6. \A U \in SUBSET S : Sums(f, S)[U] = g[U]
  <2>1. \A U \in SUBSET S :
          Sums(f, S)[U] = Plus(Sums(f, S), f, U) /\ g[U] = Plus(g, f, U)
    BY <1>4, <1>5
  <2>2. QED
    BY <2>1, SumsAgree
<1>7. QED
  BY <1>5, <1>6

\* The definition of a sum over a finite set, unfolded once.
LEMMA SumUnfolds ==
  ASSUME NEW S, IsFiniteSet(S), NEW f, \A x \in S : f[x] \in Int
  PROVE  /\ SumFunctionOnSet(f, S) \in Int
         /\ S = {} => SumFunctionOnSet(f, S) = 0
         /\ S # {} => SumFunctionOnSet(f, S) = f[First(S)] + SumFunctionOnSet(f, S \ {First(S)})
<1>1. \A U \in SUBSET S :
        Sums(f, S)[U] = Plus(Sums(f, S), f, U) /\ Sums(f, S)[U] \in Int
  BY SumsExist
<1>2. SumFunctionOnSet(f, S) \in Int /\ (S = {} => SumFunctionOnSet(f, S) = 0)
  BY <1>1, SumIs DEF Plus
<1>3. ASSUME S # {}
      PROVE  SumFunctionOnSet(f, S) = f[First(S)] + SumFunctionOnSet(f, S \ {First(S)})
  <2> DEFINE W == S \ {First(S)}
  <2>1. W \in SUBSET S /\ IsFiniteSet(W) /\ \A x \in W : f[x] \in Int
    BY FS_Subset
  <2>2. \A U \in SUBSET W : Sums(f, W)[U] = Plus(Sums(f, W), f, U)
    BY <2>1, SumsExist
  <2>3. \A U \in SUBSET W : Sums(f, S)[U] = Plus(Sums(f, S), f, U)
    BY <1>1
  <2> HIDE DEF W
  <2>4. Sums(f, S)[W] = Sums(f, W)[W]
    BY <2>1, <2>2, <2>3, SumsAgree
  <2>5. SumFunctionOnSet(f, W) = Sums(f, S)[W]
    BY <2>4, SumIs
  <2>6. Sums(f, S)[S] = f[First(S)] + Sums(f, S)[W]
    BY <1>1, <1>3 DEF Plus, W
  <2>7. QED
    BY <2>5, <2>6, SumIs DEF W
<1>4. QED
  BY <1>2, <1>3

\* Any summand may be taken out of a sum.
LEMMA SumSplits ==
  ASSUME NEW S, IsFiniteSet(S), NEW f, \A x \in S : f[x] \in Int, NEW y \in S
  PROVE  SumFunctionOnSet(f, S) = f[y] + SumFunctionOnSet(f, S \ {y})
<1> DEFINE Q == {U \in SUBSET S :
                   \A z \in U : SumFunctionOnSet(f, U) = f[z] + SumFunctionOnSet(f, U \ {z})}
<1>1. ASSUME NEW U \in SUBSET S, \A W \in SUBSET U : W # U => W \in Q
      PROVE  U \in Q
  <2> SUFFICES ASSUME NEW z \in U PROVE SumFunctionOnSet(f, U) = f[z] + SumFunctionOnSet(f, U \ {z})
    OBVIOUS
  <2> DEFINE c == First(U)
  <2>1. c \in U
    BY FirstIn
  <2>2. \A V \in SUBSET S : IsFiniteSet(V) /\ \A x \in V : f[x] \in Int
    BY FS_Subset
  <2>3. SumFunctionOnSet(f, U) = f[c] + SumFunctionOnSet(f, U \ {c})
    BY <2>2, SumUnfolds
  <2>4. CASE z = c
    BY <2>3, <2>4
  <2>5. CASE z # c
    <3>1. SumFunctionOnSet(f, U \ {c}) = f[z] + SumFunctionOnSet(f, (U \ {c}) \ {z})
      BY <1>1, <2>1, <2>5
    <3>2. SumFunctionOnSet(f, U \ {z}) = f[c] + SumFunctionOnSet(f, (U \ {z}) \ {c})
      BY <1>1, <2>1, <2>5
    <3>3. (U \ {c}) \ {z} = (U \ {z}) \ {c}
      OBVIOUS
    <3>4. SumFunctionOnSet(f, (U \ {z}) \ {c}) \in Int /\ f[z] \in Int /\ f[c] \in Int
      BY <2>1, <2>2, SumUnfolds
    <3>5. SumFunctionOnSet(f, U) = f[c] + (f[z] + SumFunctionOnSet(f, (U \ {z}) \ {c}))
      BY <2>3, <3>1, <3>3
    <3> HIDE DEF c
    <3>6. QED
      BY <3>2, <3>4, <3>5
  <2>6. QED
    BY <2>4, <2>5
<1>2. S \in Q
  <2> HIDE DEF Q
  <2>1. QED
    BY <1>1, SubsetInduction
<1>3. QED
  BY <1>2

\* Sums of the same summands are the same.
LEMMA SumsSame ==
  ASSUME NEW S, IsFiniteSet(S), NEW f, \A x \in S : f[x] \in Int,
         NEW h, \A x \in S : h[x] = f[x]
  PROVE  SumFunctionOnSet(h, S) = SumFunctionOnSet(f, S)
<1>1. \A U \in SUBSET S : Sums(f, S)[U] = Plus(Sums(f, S), f, U)
  BY SumsExist
<1>2. \A U \in SUBSET S : Sums(h, S)[U] = Plus(Sums(h, S), h, U)
  <2>1. \A x \in S : h[x] \in Int
    OBVIOUS
  <2>2. QED
    BY <2>1, SumsExist
<1>3. QED
  BY <1>1, <1>2, SumsAgree, SumIs

\* A sum in which one summand changes.
LEMMA SumChanges ==
  ASSUME NEW S, IsFiniteSet(S), NEW y \in S,
         NEW f, \A x \in S : f[x] \in Int, NEW h, \A x \in S : h[x] \in Int,
         \A x \in S \ {y} : h[x] = f[x]
  PROVE  SumFunctionOnSet(h, S) = SumFunctionOnSet(f, S) - f[y] + h[y]
<1>1. IsFiniteSet(S \ {y})
  BY FS_Subset
<1>2. /\ SumFunctionOnSet(h, S \ {y}) = SumFunctionOnSet(f, S \ {y})
      /\ SumFunctionOnSet(f, S \ {y}) \in Int
  BY <1>1, SumsSame, SumUnfolds
<1>3. /\ SumFunctionOnSet(f, S) = f[y] + SumFunctionOnSet(f, S \ {y})
      /\ SumFunctionOnSet(h, S) = h[y] + SumFunctionOnSet(h, S \ {y})
  BY SumSplits
<1>4. QED
  BY <1>2, <1>3

\* A sum with one summand more.
LEMMA SumGrows ==
  ASSUME NEW S, IsFiniteSet(S), NEW f, NEW y, y \notin S, \A x \in S \cup {y} : f[x] \in Int
  PROVE  SumFunctionOnSet(f, S \cup {y}) = SumFunctionOnSet(f, S) + f[y]
<1>1. IsFiniteSet(S \cup {y}) /\ (S \cup {y}) \ {y} = S
  BY FS_AddElement
<1>2. SumFunctionOnSet(f, S \cup {y}) = f[y] + SumFunctionOnSet(f, S)
  <2> DEFINE T == S \cup {y}
  <2>1. IsFiniteSet(T) /\ (\A x \in T : f[x] \in Int) /\ y \in T /\ T \ {y} = S
    BY <1>1
  <2> HIDE DEF T
  <2>2. SumFunctionOnSet(f, T) = f[y] + SumFunctionOnSet(f, T \ {y})
    BY <2>1, SumSplits
  <2>3. QED
    BY <2>1, <2>2 DEF T
<1>3. SumFunctionOnSet(f, S) \in Int
  BY SumUnfolds
<1>4. QED
  BY <1>2, <1>3

\* A sum of zeroes.
LEMMA SumOfZeroes ==
  ASSUME NEW S, IsFiniteSet(S), NEW f, \A x \in S : f[x] = 0
  PROVE  SumFunctionOnSet(f, S) = 0
<1> DEFINE Q == {U \in SUBSET S : SumFunctionOnSet(f, U) = 0}
<1>1. ASSUME NEW U \in SUBSET S, \A W \in SUBSET U : W # U => W \in Q
      PROVE  U \in Q
  <2>1. IsFiniteSet(U)
    BY FS_Subset
  <2>2. CASE U = {}
    BY <2>1, <2>2, SumUnfolds
  <2>3. CASE U # {}
    <3>1. First(U) \in U /\ U \ {First(U)} \in Q
      BY <1>1, <2>3, FirstIn
    <3>2. \A x \in U : f[x] \in Int
      OBVIOUS
    <3>3. SumFunctionOnSet(f, U) = f[First(U)] + SumFunctionOnSet(f, U \ {First(U)})
      BY <2>1, <2>3, <3>2, SumUnfolds
    <3>4. QED
      BY <3>1, <3>3
  <2>4. QED
    BY <2>2, <2>3
<1>2. S \in Q
  <2> HIDE DEF Q
  <2>1. QED
    BY <1>1, SubsetInduction
<1>3. QED
  BY <1>2

(***************************************************************************)
(* The books                                                               *)
(***************************************************************************)
ChargeSum == SumFunctionOnSet(Cost, charged)
RefundSum == SumFunctionOnSet(Refunds, Requests)
CreditSum == SumFunctionOnSet(Credits, Purchases)
UnloggedSum == SumFunctionOnSet(Unlogged, Requests)
PackSum == SumFunctionOnSet(Pack, PacksToLog)
UseSum == SumFunctionOnSet(Cost, UsesToLog)

\* The two equations of the run `credits`, in terms of these sums.
Balanced == balance = StartBalance - ChargeSum + RefundSum + CreditSum
Explained ==
  "row" \notin lost =>
    balance - StartBalance - logged = UnloggedSum + PackSum - UseSum

Books == Balanced /\ Explained

\* What is summed up is a number, over a finite set.
LEMMA Summands ==
  ASSUME TypeOK
  PROVE  /\ \A S \in SUBSET Requests : IsFiniteSet(S) /\ \A r \in S : Cost[r] \in Int
         /\ \A S \in SUBSET Purchases : IsFiniteSet(S) /\ \A p \in S : Pack[p] \in Int
         /\ \A r \in Requests : Refunds[r] \in Int /\ Unlogged[r] \in Int
         /\ \A p \in Purchases : Credits[p] \in Int
         /\ charged \in SUBSET Requests /\ UsesToLog \in SUBSET Requests
         /\ PacksToLog \in SUBSET Purchases
<1>1. /\ \A S \in SUBSET Requests : IsFiniteSet(S)
      /\ \A S \in SUBSET Purchases : IsFiniteSet(S)
  BY BillingAssumption, FS_Subset
<1>2. ASSUME NEW r \in Requests
      PROVE  Cost[r] \in Int /\ Refunds[r] \in Int /\ Unlogged[r] \in Int
  <2>1. Cost[r] \in Int /\ refunded[r] \in Int /\ unlogged[r] \in Int
    BY BillingAssumption DEF TypeOK
  <2>2. QED
    BY <2>1 DEF Refunds, Unlogged
<1>3. ASSUME NEW p \in Purchases
      PROVE  Pack[p] \in Int /\ Credits[p] \in Int
  <2>1. Pack[p] \in Int /\ credited[p] \in Int
    BY BillingAssumption DEF TypeOK
  <2>2. QED
    BY <2>1 DEF Credits
<1>4. QED
  BY <1>1, <1>2, <1>3 DEF TypeOK, UsesToLog, PacksToLog

\* And so are the sums.
LEMMA SumsAreNumbers ==
  ASSUME TypeOK
  PROVE  /\ ChargeSum \in Int /\ RefundSum \in Int /\ CreditSum \in Int
         /\ UnloggedSum \in Int /\ PackSum \in Int /\ UseSum \in Int
  BY Summands, SumUnfolds
  DEF ChargeSum, RefundSum, CreditSum, UnloggedSum, PackSum, UseSum

\* A count that grows or shrinks by d, at its price.
LEMMA Times ==
  ASSUME NEW n \in Int, NEW c \in Int, NEW d \in {1, -1}
  PROVE  (n + d) * c = n * c + d * c
  OBVIOUS

\* A refund given adds its price.
LEMMA RefundSumMoves ==
  ASSUME TypeOK, TypeOK', NEW r \in Requests, NEW d \in {1, -1},
         refunded' = [refunded EXCEPT ![r] = @ + d]
  PROVE  RefundSum' = RefundSum + d * Cost[r]
<1>1. /\ refunded \in [Requests -> Int] /\ refunded' \in [Requests -> Int]
      /\ Cost \in [Requests -> Int] /\ IsFiniteSet(Requests)
  <2>1. refunded \in [Requests -> 0..Attempts] /\ refunded' \in [Requests -> 0..Attempts]
    BY DEF TypeOK
  <2>2. Cost \in [Requests -> Int] /\ IsFiniteSet(Requests)
    BY BillingAssumption
  <2>3. QED
    BY <2>1, <2>2
<1>2. /\ \A y \in Requests : Refunds[y] = refunded[y] * Cost[y] /\ Refunds[y] \in Int
      /\ \A y \in Requests : Refunds'[y] = refunded'[y] * Cost[y] /\ Refunds'[y] \in Int
  BY <1>1 DEF Refunds
<1>3. refunded'[r] = refunded[r] + d /\ \A y \in Requests \ {r} : refunded'[y] = refunded[y]
  BY <1>1
<1>4. /\ Refunds'[r] = Refunds[r] + d * Cost[r]
      /\ \A y \in Requests \ {r} : Refunds'[y] = Refunds[y]
  BY <1>1, <1>2, <1>3, Times
<1>5. RefundSum' = RefundSum - Refunds[r] + Refunds'[r]
  BY <1>1, <1>2, <1>4, SumChanges DEF RefundSum
<1>6. RefundSum \in Int
  BY SumsAreNumbers
<1>7. QED
  BY <1>1, <1>2, <1>4, <1>5, <1>6

\* A refund to be logged adds its price until it is logged.
LEMMA UnloggedSumMoves ==
  ASSUME TypeOK, TypeOK', NEW r \in Requests, NEW d \in {1, -1},
         unlogged' = [unlogged EXCEPT ![r] = @ + d]
  PROVE  UnloggedSum' = UnloggedSum + d * Cost[r]
<1>1. /\ unlogged \in [Requests -> Int] /\ unlogged' \in [Requests -> Int]
      /\ Cost \in [Requests -> Int] /\ IsFiniteSet(Requests)
  <2>1. unlogged \in [Requests -> 0..Attempts] /\ unlogged' \in [Requests -> 0..Attempts]
    BY DEF TypeOK
  <2>2. Cost \in [Requests -> Int] /\ IsFiniteSet(Requests)
    BY BillingAssumption
  <2>3. QED
    BY <2>1, <2>2
<1>2. /\ \A y \in Requests : Unlogged[y] = unlogged[y] * Cost[y] /\ Unlogged[y] \in Int
      /\ \A y \in Requests : Unlogged'[y] = unlogged'[y] * Cost[y] /\ Unlogged'[y] \in Int
  BY <1>1 DEF Unlogged
<1>3. unlogged'[r] = unlogged[r] + d /\ \A y \in Requests \ {r} : unlogged'[y] = unlogged[y]
  BY <1>1
<1>4. /\ Unlogged'[r] = Unlogged[r] + d * Cost[r]
      /\ \A y \in Requests \ {r} : Unlogged'[y] = Unlogged[y]
  BY <1>1, <1>2, <1>3, Times
<1>5. UnloggedSum' = UnloggedSum - Unlogged[r] + Unlogged'[r]
  BY <1>1, <1>2, <1>4, SumChanges DEF UnloggedSum
<1>6. UnloggedSum \in Int
  BY SumsAreNumbers
<1>7. QED
  BY <1>1, <1>2, <1>4, <1>5, <1>6

\* A purchase credited adds its pack.
LEMMA CreditSumMoves ==
  ASSUME TypeOK, TypeOK', NEW p \in Purchases, NEW d \in {1, -1},
         credited' = [credited EXCEPT ![p] = @ + d]
  PROVE  CreditSum' = CreditSum + d * Pack[p]
<1>1. /\ credited \in [Purchases -> Int] /\ credited' \in [Purchases -> Int]
      /\ Pack \in [Purchases -> Int] /\ IsFiniteSet(Purchases)
  <2>1. credited \in [Purchases -> 0..Deliveries] /\ credited' \in [Purchases -> 0..Deliveries]
    BY DEF TypeOK
  <2>2. Pack \in [Purchases -> Int] /\ IsFiniteSet(Purchases)
    BY BillingAssumption
  <2>3. QED
    BY <2>1, <2>2
<1>2. /\ \A y \in Purchases : Credits[y] = credited[y] * Pack[y] /\ Credits[y] \in Int
      /\ \A y \in Purchases : Credits'[y] = credited'[y] * Pack[y] /\ Credits'[y] \in Int
  BY <1>1 DEF Credits
<1>3. credited'[p] = credited[p] + d /\ \A y \in Purchases \ {p} : credited'[y] = credited[y]
  BY <1>1
<1>4. /\ Credits'[p] = Credits[p] + d * Pack[p]
      /\ \A y \in Purchases \ {p} : Credits'[y] = Credits[y]
  BY <1>1, <1>2, <1>3, Times
<1>5. CreditSum' = CreditSum - Credits[p] + Credits'[p]
  BY <1>1, <1>2, <1>4, SumChanges DEF CreditSum
<1>6. CreditSum \in Int
  BY SumsAreNumbers
<1>7. QED
  BY <1>1, <1>2, <1>4, <1>5, <1>6

\* A sum over a set that gets one more, or one less, from outside.
LEMMA SetMoves ==
  ASSUME NEW S, IsFiniteSet(S), NEW x \in S, NEW price, \A y \in S : price[y] \in Int,
         NEW A \in SUBSET S
  PROVE  /\ x \notin A =>
              SumFunctionOnSet(price, A \cup {x}) = SumFunctionOnSet(price, A) + price[x]
         /\ x \in A =>
              SumFunctionOnSet(price, A \ {x}) = SumFunctionOnSet(price, A) - price[x]
<1>1. IsFiniteSet(A) /\ IsFiniteSet(A \ {x})
  BY FS_Subset
<1>2. ASSUME x \notin A
      PROVE  SumFunctionOnSet(price, A \cup {x}) = SumFunctionOnSet(price, A) + price[x]
  BY <1>1, <1>2, SumGrows
<1>3. ASSUME x \in A
      PROVE  SumFunctionOnSet(price, A \ {x}) = SumFunctionOnSet(price, A) - price[x]
  <2>1. SumFunctionOnSet(price, A) = price[x] + SumFunctionOnSet(price, A \ {x})
    BY <1>1, <1>3, SumSplits
  <2>2. SumFunctionOnSet(price, A \ {x}) \in Int
    BY <1>1, SumUnfolds
  <2>3. QED
    BY <2>1, <2>2
<1>4. QED
  BY <1>2, <1>3

\* Nothing to log sums up to nothing.
LEMMA NothingToLog ==
  /\ (\A r \in Requests : unlogged[r] = 0) => UnloggedSum = 0
  /\ UsesToLog = {} => UseSum = 0
  /\ PacksToLog = {} => PackSum = 0
<1>1. ASSUME \A r \in Requests : unlogged[r] = 0
      PROVE  UnloggedSum = 0
  <2>1. ASSUME NEW r \in Requests PROVE Unlogged[r] = 0
    BY <1>1, BillingAssumption DEF Unlogged
  <2>2. QED
    BY <2>1, BillingAssumption, SumOfZeroes DEF UnloggedSum
<1>2. \A f : SumFunctionOnSet(f, {}) = 0
  <2>1. IsFiniteSet({})
    BY FS_EmptySet
  <2>2. QED
    BY <2>1, SumOfZeroes
<1>3. QED
  BY <1>1, <1>2 DEF UseSum, PackSum

\* A sum over what a step leaves alone is the same after it.
LEMMA SumsStay ==
  /\ UNCHANGED charged => ChargeSum' = ChargeSum
  /\ UNCHANGED refunded => RefundSum' = RefundSum
  /\ UNCHANGED unlogged => UnloggedSum' = UnloggedSum
  /\ UNCHANGED credited => CreditSum' = CreditSum
  /\ UNCHANGED UsesToLog => UseSum' = UseSum
  /\ UNCHANGED PacksToLog => PackSum' = PackSum
  BY DEF ChargeSum, RefundSum, Refunds, UnloggedSum, Unlogged, CreditSum, Credits,
         UseSum, PackSum

\* A step of the route: a charge is one row still to be written.
LEMMA ServeBooks ==
  ASSUME IInv, Books, NEW r \in Requests, Serve(r)
  PROVE  Books'
<1>0. Cost[r] \in Int /\ balance \in Int /\ logged \in Int
  BY BillingAssumption DEF IInv, TypeOK
<1>1. /\ TypeOK
      /\ request \in [Requests -> RequestState]
      /\ IsFiniteSet(Requests) /\ \A q \in Requests : Cost[q] \in Int
      /\ charged \in SUBSET Requests /\ UsesToLog \in SUBSET Requests
  BY Summands, BillingAssumption DEF IInv, TypeOK
<1>2. /\ ChargeSum \in Int /\ RefundSum \in Int /\ CreditSum \in Int
      /\ UnloggedSum \in Int /\ PackSum \in Int /\ UseSum \in Int /\ StartBalance \in Int
  BY <1>1, SumsAreNumbers, BillingAssumption
<1>3. /\ RefundSum' = RefundSum /\ CreditSum' = CreditSum
      /\ UnloggedSum' = UnloggedSum /\ PackSum' = PackSum
  BY SumsStay
  DEF Serve, Charge, Refuse, PassFree, LogUse, Enqueue, Drop,
      refundVars, eventVars, PacksToLog
<1>4. CASE Charge(r)
  <2>1. r \notin charged /\ r \notin UsesToLog
    BY <1>4 DEF Charge, Answer, IInv, JobKnows, UsesToLog
  <2>2. UsesToLog' = UsesToLog \cup {r}
    BY <1>1, <1>4 DEF Charge, Answer, UsesToLog
  <2>3. ChargeSum' = ChargeSum + Cost[r] /\ UseSum' = UseSum + Cost[r]
    <3>1. SumFunctionOnSet(Cost, charged \cup {r}) = SumFunctionOnSet(Cost, charged) + Cost[r]
      BY <1>1, <2>1, SetMoves
    <3>2. SumFunctionOnSet(Cost, UsesToLog \cup {r})
            = SumFunctionOnSet(Cost, UsesToLog) + Cost[r]
      BY <1>1, <2>1, SetMoves
    <3>3. charged' = charged \cup {r}
      BY <1>4 DEF Charge
    <3>4. QED
      BY <2>2, <3>1, <3>2, <3>3 DEF ChargeSum, UseSum
  <2>4. balance' = balance - Cost[r] /\ logged' = logged /\ lost' = lost
    BY <1>4 DEF Charge
  <2>5. Balanced'
    BY <1>0, <1>2, <1>3, <2>3, <2>4 DEF Books, Balanced
  <2>6. Explained'
    BY <1>0, <1>2, <1>3, <2>3, <2>4 DEF Books, Explained
  <2>7. QED
    BY <2>5, <2>6 DEF Books
<1>5. CASE LogUse(r)
  <2>1. r \in UsesToLog /\ UsesToLog' = UsesToLog \ {r}
    BY <1>1, <1>5 DEF LogUse, Answer, UsesToLog
  <2>2. UseSum' = UseSum - Cost[r]
    <3>1. SumFunctionOnSet(Cost, UsesToLog \ {r})
            = SumFunctionOnSet(Cost, UsesToLog) - Cost[r]
      BY <1>1, <2>1, SetMoves
    <3>2. QED
      BY <2>1, <3>1 DEF UseSum
  <2>3. ChargeSum' = ChargeSum
    BY <1>5, SumsStay DEF LogUse
  <2>4. balance' = balance /\ logged' = logged - Cost[r] /\ lost' = lost
    BY <1>5 DEF LogUse
  <2>5. Balanced'
    BY <1>3, <2>3, <2>4 DEF Books, Balanced
  <2>6. Explained'
    BY <1>0, <1>2, <1>3, <2>2, <2>4 DEF Books, Explained
  <2>7. QED
    BY <2>5, <2>6 DEF Books
<1>6. CASE Refuse(r) \/ PassFree(r) \/ Enqueue(r) \/ (Drop(r) /\ request[r] = "enqueue")
  <2>1. UNCHANGED UsesToLog
    BY <1>1, <1>6 DEF Refuse, PassFree, Enqueue, Drop, Answer, UsesToLog
  <2>2. UNCHANGED <<balance, logged, charged, lost>>
    BY <1>6 DEF Refuse, PassFree, Enqueue, Drop
  <2>3. QED
    BY <1>3, <2>1, <2>2, SumsStay DEF Books, Balanced, Explained
<1>7. CASE Drop(r) /\ request[r] = "logUse"
  <2>1. UNCHANGED <<balance, charged>> /\ "row" \in lost'
    BY <1>7 DEF Drop
  <2>2. QED
    BY <1>3, <2>1, SumsStay DEF Books, Balanced, Explained
<1>8. QED
  BY <1>4, <1>5, <1>6, <1>7 DEF Serve, Drop

\* A step of the queue or of the processor touches no book.
LEMMA RunBooks ==
  ASSUME Books, NEW r \in Requests, Run(r)
  PROVE  Books'
<1>1. UNCHANGED <<balance, logged, charged, refunded, unlogged, credited, lost,
                  UsesToLog, PacksToLog>>
  BY DEF Run, Work, Succeed, Fail, TakeUp, Failed, requestVars, refundVars, eventVars,
         UsesToLog, PacksToLog
<1>2. QED
  BY <1>1, SumsStay DEF Books, Balanced, Explained

\* A refund is one row still to be written.
LEMMA RefundBooks ==
  ASSUME IInv, IInv', Books, NEW r \in Requests, Refund(r)
  PROVE  Books'
<1>1. /\ TypeOK /\ TypeOK' /\ Cost[r] \in Int /\ balance \in Int /\ logged \in Int
      /\ unlogged \in [Requests -> 0..Attempts]
  BY BillingAssumption DEF IInv, TypeOK
<1>2. /\ ChargeSum \in Int /\ RefundSum \in Int /\ CreditSum \in Int
      /\ UnloggedSum \in Int /\ PackSum \in Int /\ UseSum \in Int /\ StartBalance \in Int
  BY <1>1, SumsAreNumbers, BillingAssumption
<1>3. /\ ChargeSum' = ChargeSum /\ CreditSum' = CreditSum
      /\ UseSum' = UseSum /\ PackSum' = PackSum
  BY SumsStay
  DEF Refund, CreditRefund, LogRefund, requestVars, eventVars, UsesToLog, PacksToLog
<1>4. CASE CreditRefund(r)
  <2>1. RefundSum' = RefundSum + 1 * Cost[r]
    BY <1>1, <1>4, RefundSumMoves DEF CreditRefund
  <2>2. UnloggedSum' = UnloggedSum + 1 * Cost[r]
    BY <1>1, <1>4, UnloggedSumMoves DEF CreditRefund
  <2>3. RefundSum' = RefundSum + Cost[r] /\ UnloggedSum' = UnloggedSum + Cost[r]
    BY <1>1, <2>1, <2>2
  <2>4. balance' = balance + Cost[r] /\ logged' = logged /\ lost' = lost
    BY <1>4 DEF CreditRefund
  <2>5. QED
    BY <1>1, <1>2, <1>3, <2>3, <2>4 DEF Books, Balanced, Explained
<1>5. CASE LogRefund(r)
  <2>1. UnloggedSum' = UnloggedSum + (-1) * Cost[r]
    <3>1. unlogged' = [unlogged EXCEPT ![r] = @ + (-1)]
      BY <1>1, <1>5 DEF LogRefund
    <3>2. QED
      BY <1>1, <3>1, UnloggedSumMoves
  <2>2. RefundSum' = RefundSum
    BY <1>5, SumsStay DEF LogRefund
  <2>3. balance' = balance /\ logged' = logged + Cost[r] /\ lost' = lost
    BY <1>5 DEF LogRefund
  <2>4. QED
    BY <1>1, <1>2, <1>3, <2>1, <2>2, <2>3 DEF Books, Balanced, Explained
<1>6. QED
  BY <1>4, <1>5 DEF Refund

\* A pack credited is one row still to be written.
LEMMA PurchaseBooks ==
  ASSUME IInv, IInv', Books, NEW p \in Purchases, Deliver(p) \/ Handle(p)
  PROVE  Books'
<1>1. /\ TypeOK /\ TypeOK' /\ Pack[p] \in Int /\ balance \in Int /\ logged \in Int
      /\ event \in [Purchases -> EventState] /\ event[p] \in EventState
      /\ IsFiniteSet(Purchases) /\ \A q \in Purchases : Pack[q] \in Int
      /\ PacksToLog \in SUBSET Purchases
  BY Summands, BillingAssumption DEF IInv, TypeOK
<1>2. /\ ChargeSum \in Int /\ RefundSum \in Int /\ CreditSum \in Int
      /\ UnloggedSum \in Int /\ PackSum \in Int /\ UseSum \in Int /\ StartBalance \in Int
  BY <1>1, SumsAreNumbers, BillingAssumption
<1>3. /\ ChargeSum' = ChargeSum /\ RefundSum' = RefundSum
      /\ UseSum' = UseSum /\ UnloggedSum' = UnloggedSum
  BY SumsStay
  DEF Handle, Deliver, LookUp, Credit, LogPurchase, requestVars, refundVars, UsesToLog
<1>4. CASE Deliver(p) \/ LookUp(p)
  <2>1. /\ event[p].pc # "log" /\ event'[p].pc # "log"
        /\ \A q \in Purchases \ {p} : event'[q] = event[q]
    BY <1>1, <1>4 DEF Deliver, LookUp, Receive, EventState
  <2>2. UNCHANGED PacksToLog
    BY <2>1 DEF PacksToLog
  <2>3. UNCHANGED <<balance, logged, credited, lost>>
    BY <1>4 DEF Deliver, LookUp
  <2>4. QED
    BY <1>3, <2>2, <2>3, SumsStay DEF Books, Balanced, Explained
<1>5. CASE Credit(p)
  <2>1. /\ event[p].pc = "credit" /\ event'[p].pc = "log"
        /\ \A q \in Purchases \ {p} : event'[q] = event[q]
    BY <1>1, <1>5 DEF Credit, Receive, EventState
  <2>2. p \notin PacksToLog /\ PacksToLog' = PacksToLog \cup {p}
    BY <2>1 DEF PacksToLog
  <2>3. PackSum' = PackSum + Pack[p]
    <3>1. SumFunctionOnSet(Pack, PacksToLog \cup {p})
            = SumFunctionOnSet(Pack, PacksToLog) + Pack[p]
      BY <1>1, <2>2, SetMoves
    <3>2. QED
      BY <2>2, <3>1 DEF PackSum
  <2>4. CreditSum' = CreditSum + 1 * Pack[p]
    BY <1>1, <1>5, CreditSumMoves DEF Credit
  <2>5. balance' = balance + Pack[p] /\ logged' = logged /\ lost' = lost
    BY <1>5 DEF Credit
  <2>6. QED
    BY <1>1, <1>2, <1>3, <2>3, <2>4, <2>5 DEF Books, Balanced, Explained
<1>6. CASE LogPurchase(p)
  <2>1. /\ event[p].pc = "log" /\ event'[p].pc = "away"
        /\ \A q \in Purchases \ {p} : event'[q] = event[q]
    BY <1>1, <1>6 DEF LogPurchase, Receive, EventState
  <2>2. p \in PacksToLog /\ PacksToLog' = PacksToLog \ {p}
    BY <2>1 DEF PacksToLog
  <2>3. PackSum' = PackSum - Pack[p]
    <3>1. SumFunctionOnSet(Pack, PacksToLog \ {p})
            = SumFunctionOnSet(Pack, PacksToLog) - Pack[p]
      BY <1>1, <2>2, SetMoves
    <3>2. QED
      BY <2>2, <3>1 DEF PackSum
  <2>4. CreditSum' = CreditSum
    BY <1>6, SumsStay DEF LogPurchase
  <2>5. balance' = balance /\ logged' = logged + Pack[p] /\ lost' = lost
    BY <1>6 DEF LogPurchase
  <2>6. QED
    BY <1>1, <1>2, <1>3, <2>3, <2>4, <2>5 DEF Books, Balanced, Explained
<1>7. QED
  BY <1>4, <1>5, <1>6 DEF Handle

\* The API dies: it leaves no row to be written, and those there were are lost.
LEMMA StopApiBooks ==
  ASSUME IInv, StopApi, ApiLosses \subseteq lost', "row" \notin lost'
  PROVE  UseSum = 0 /\ PackSum = 0 /\ UseSum' = 0 /\ PackSum' = 0
<1>1. UsesToLog = {} /\ PacksToLog = {}
  BY DEF ApiLosses, UsesToLog, PacksToLog
<1>2. UsesToLog' = {} /\ PacksToLog' = {}
  BY StopApiKeeps DEF StopApi, UsesToLog, PacksToLog
<1>3. QED
  BY <1>1, <1>2, NothingToLog, BillingAssumption
  DEF UseSum, PackSum

\* The worker dies: the same.
LEMMA StopWorkerBooks ==
  ASSUME IInv, StopWorker, WorkerLosses \subseteq lost', "row" \notin lost'
  PROVE  UnloggedSum = 0 /\ UnloggedSum' = 0
<1>1. ASSUME NEW r \in Requests
      PROVE  unlogged[r] = 0 /\ unlogged'[r] = 0
  <2>1. ~(unlogged[r] > 0)
    BY DEF WorkerLosses, Losses
  <2>2. unlogged[r] \in Nat
    BY BillingAssumption DEF IInv, TypeOK
  <2>3. QED
    BY <2>1, <2>2 DEF StopWorker
<1>2. UnloggedSum = 0
  BY <1>1, NothingToLog
<1>3. UnloggedSum' = 0
  <2>1. \A r \in Requests : Unlogged'[r] = 0
    BY <1>1, BillingAssumption DEF Unlogged
  <2>2. QED
    BY <2>1, BillingAssumption, SumOfZeroes DEF UnloggedSum
<1>4. QED
  BY <1>2, <1>3

\* So a death leaves the equations: what it lost, it has noted as lost.
LEMMA CrashBooks ==
  ASSUME IInv, Books, ApiDies \/ WorkerDies \/ Deploy
  PROVE  Books'
<1>1. /\ UNCHANGED <<balance, logged, charged, refunded, credited>> /\ lost \subseteq lost'
  BY DEF ApiDies, WorkerDies, Deploy, jobVars, refundVars, requestVars, eventVars
<1>2. ChargeSum' = ChargeSum /\ RefundSum' = RefundSum /\ CreditSum' = CreditSum
  BY <1>1, SumsStay
<1>3. ASSUME "row" \notin lost'
      PROVE  /\ UnloggedSum' = UnloggedSum
             /\ UseSum' = UseSum /\ PackSum' = PackSum
  <2>1. CASE ApiDies
    <3>1. UNCHANGED unlogged
      BY <2>1 DEF ApiDies, refundVars
    <3>2. QED
      BY <1>3, <2>1, <3>1, StopApiBooks, SumsStay DEF ApiDies
  <2>2. CASE WorkerDies
    <3>1. UNCHANGED <<UsesToLog, PacksToLog>>
      BY <2>2 DEF WorkerDies, requestVars, eventVars, UsesToLog, PacksToLog
    <3>2. QED
      BY <1>3, <2>2, <3>1, StopWorkerBooks, SumsStay DEF WorkerDies
  <2>3. CASE Deploy
    BY <1>3, <2>3, StopApiBooks, StopWorkerBooks DEF Deploy
  <2>4. QED
    BY <2>1, <2>2, <2>3
<1>4. QED
  BY <1>1, <1>2, <1>3 DEF Books, Balanced, Explained

\* At first nothing is charged, refunded, credited or to be written.
LEMMA InitBooks == ASSUME Init PROVE Books
<1>1. ChargeSum = 0
  <2>1. IsFiniteSet({}) /\ charged = {}
    BY FS_EmptySet DEF Init
  <2>2. QED
    BY <2>1, SumOfZeroes DEF ChargeSum
<1>2. RefundSum = 0
  <2>1. \A r \in Requests : Refunds[r] = 0
    BY BillingAssumption DEF Init, Refunds
  <2>2. QED
    BY <2>1, BillingAssumption, SumOfZeroes DEF RefundSum
<1>3. CreditSum = 0
  <2>1. \A p \in Purchases : Credits[p] = 0
    BY BillingAssumption DEF Init, Credits
  <2>2. QED
    BY <2>1, BillingAssumption, SumOfZeroes DEF CreditSum
<1>4. UnloggedSum = 0 /\ UseSum = 0 /\ PackSum = 0
  <2>1. UsesToLog = {} /\ PacksToLog = {} /\ \A r \in Requests : unlogged[r] = 0
    BY DEF Init, UsesToLog, PacksToLog, Away
  <2>2. QED
    BY <2>1, NothingToLog
<1>5. balance = StartBalance /\ logged = 0 /\ StartBalance \in Int
  BY BillingAssumption DEF Init
<1>6. QED
  BY <1>1, <1>2, <1>3, <1>4, <1>5 DEF Books, Balanced, Explained

\* Every step keeps the books.
LEMMA NextBooks == IInv /\ IInv' /\ Books /\ [Next]_vars => Books'
<1> SUFFICES ASSUME IInv, IInv', Books, [Next]_vars PROVE Books'
  OBVIOUS
<1>1. ASSUME NEW r \in Requests, Serve(r) \/ Run(r) \/ Refund(r) PROVE Books'
  BY <1>1, ServeBooks, RunBooks, RefundBooks
<1>2. ASSUME NEW p \in Purchases, Deliver(p) \/ Handle(p) PROVE Books'
  BY <1>2, PurchaseBooks
<1>3. CASE ApiDies \/ WorkerDies \/ Deploy
  BY <1>3, CrashBooks
<1>4. CASE UNCHANGED vars
  <2>1. UNCHANGED <<balance, logged, charged, refunded, unlogged, credited, lost,
                    UsesToLog, PacksToLog>>
    BY <1>4
    DEF vars, requestVars, jobVars, refundVars, eventVars, UsesToLog, PacksToLog
  <2>2. QED
    BY <2>1, SumsStay DEF Books, Balanced, Explained
<1>5. QED
  BY <1>1, <1>2, <1>3, <1>4 DEF Next

\* The books are kept in every reachable state.
LEMMA BooksHold == Spec => []Books
<1>1. Init => Books
  BY InitBooks
<1>2. QED
  BY <1>1, NextBooks, IInvHolds, PTL DEF Spec

\* What the books say, as the run `credits` says it.
LEMMA BooksImply == ASSUME Books PROVE BalanceExact /\ LogExplainsBalance
  BY DEF Books, Balanced, Explained, BalanceExact, LogExplainsBalance, SumFunction,
         Refunds, Credits, Unlogged, ChargeSum, RefundSum, CreditSum, UnloggedSum,
         PackSum, UseSum

\* No update of the balance is lost: after any interleaving of routes, failed
\* events and webhook calls, and any deaths between their statements, it is the
\* start balance less every charge plus every refund and every pack.
THEOREM BalanceExactHolds == Spec => []BalanceExact
<1>1. Books => BalanceExact
  BY BooksImply
<1>2. QED
  BY <1>1, BooksHold, PTL

\* The log of transactions explains the balance but for the rows still to be
\* written, as long as nobody died or failed between the two statements.
THEOREM LogExplainsBalanceHolds == Spec => []LogExplainsBalance
<1>1. Books => LogExplainsBalance
  BY BooksImply
<1>2. QED
  BY <1>1, BooksHold, PTL
=============================================================================
