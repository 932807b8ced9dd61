---------------------------- MODULE JobLifecycle ----------------------------
(***************************************************************************)
(* What the CI job queue promises about a single job, whoever works on it: *)
(* docs/ARCHITECTURE.md, "Job Leasing Strategy".  A job is leased when it  *)
(* is new or when its lease has run out, at most MaxAttempts times; a      *)
(* running lease is never taken over, and a job that has ended, DONE or    *)
(* DEAD, is never leased again.                                            *)
(***************************************************************************)
EXTENDS Naturals, Sequences

CONSTANT MaxAttempts

VARIABLE job \* one [status, attempts, lease] per job, oldest first

New == [status |-> "READY", attempts |-> 0, lease |-> "none"]

Leasable(j) ==
  \/ job[j].status = "READY"
  \/ job[j].status = "LEASED" /\ job[j].lease = "expired"

Init == job = <<>>

Submit == job' = Append(job, New)

Grant(j) ==
  /\ Leasable(j)
  /\ job[j].attempts < MaxAttempts
  /\ job' = [job EXCEPT ![j] = [status |-> "LEASED", attempts |-> @.attempts + 1,
                                lease |-> "running"]]

Expire(j) ==
  /\ job[j].status = "LEASED"
  /\ job' = [job EXCEPT ![j] = [@ EXCEPT !.lease = "expired"]]

Exhaust(j) ==
  /\ Leasable(j)
  /\ job[j].attempts >= MaxAttempts
  /\ job' = [job EXCEPT ![j] = [@ EXCEPT !.status = "DEAD"]]

\* The holder of a lease, present or past, reports the end.
End(j) ==
  /\ job[j].status # "READY"
  /\ \E status \in {"DONE", "DEAD"} :
       job' = [job EXCEPT ![j] = [@ EXCEPT !.status = status]]

Next ==
  \/ Submit
  \/ \E j \in DOMAIN job : Grant(j) \/ Expire(j) \/ Exhaust(j) \/ End(j)

Spec == Init /\ [][Next]_job
=============================================================================
