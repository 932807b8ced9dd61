----------------------------- MODULE MCSchedule -----------------------------
(***************************************************************************)
(* An instance of Schedule for TLC: the crons of a "weekly" target fire    *)
(* every other day, which is enough for it and a daily one to differ in    *)
(* when they fire and in what they call silence.                           *)
(***************************************************************************)
EXTENDS Schedule, TLC

CONSTANTS old, new, first, second, analysis

MCProcs == {old, new}
MCTicks == {first, second}
MCJobs == {analysis}
MCPeriod == "daily" :> 1 @@ "weekly" :> 2
Symmetry == Permutations(MCProcs) \cup Permutations(MCTicks)
=============================================================================
