------------------------------- MODULE Ledger -------------------------------
(***************************************************************************)
(* What the credits of one user promise: a balance that a request may take *)
(* its price from once, if it is covered, that gets the price back at most *)
(* once for each attempt at a job, and a pack at most once for each        *)
(* delivery of its event.  Each of these is one indivisible change of the  *)
(* balance, however the statements of Billing interleave.                  *)
(***************************************************************************)
EXTENDS Naturals

CONSTANTS Requests, Cost, Purchases, Pack, StartBalance, Attempts, Deliveries

VARIABLES balance, charged, refunded, credited

vars == <<balance, charged, refunded, credited>>

Init ==
  /\ balance = StartBalance
  /\ charged = {}
  /\ refunded = [r \in Requests |-> 0]
  /\ credited = [p \in Purchases |-> 0]

Charge(r) ==
  /\ r \notin charged /\ balance >= Cost[r]
  /\ balance' = balance - Cost[r]
  /\ charged' = charged \cup {r}
  /\ UNCHANGED <<refunded, credited>>

Refund(r) ==
  /\ refunded[r] < Attempts
  /\ balance' = balance + Cost[r]
  /\ refunded' = [refunded EXCEPT ![r] = @ + 1]
  /\ UNCHANGED <<charged, credited>>

Credit(p) ==
  /\ credited[p] < Deliveries
  /\ balance' = balance + Pack[p]
  /\ credited' = [credited EXCEPT ![p] = @ + 1]
  /\ UNCHANGED <<charged, refunded>>

Next ==
  \/ \E r \in Requests : Charge(r) \/ Refund(r)
  \/ \E p \in Purchases : Credit(p)

Spec == Init /\ [][Next]_vars
=============================================================================
