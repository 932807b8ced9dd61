------------------------------ MODULE MCCiFeed ------------------------------
(***************************************************************************)
(* Instances of CiFeed for TLC.  Two deliveries name the same commit, as   *)
(* the push and the pull_request event of one push to a branch do; the     *)
(* third is of an ignored kind.                                            *)
(***************************************************************************)
EXTENDS CiFeed, TLC

CONSTANTS push, pr, ping, sha1, none

MCDeliverySha == [d \in Deliveries |-> IF d = ping THEN none ELSE sha1]

Symmetry == Permutations(Workers) \cup Permutations(Handlers)
=============================================================================
