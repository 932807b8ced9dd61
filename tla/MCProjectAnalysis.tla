------------------------- MODULE MCProjectAnalysis -------------------------
(***************************************************************************)
(* An instance of ProjectAnalysis for TLC: a run the worker makes for a    *)
(* job and a run of the API process.                                       *)
(***************************************************************************)
EXTENDS ProjectAnalysis

CONSTANTS job, request

MCRuns == {job, request}
MCQueued == {job}
=============================================================================
