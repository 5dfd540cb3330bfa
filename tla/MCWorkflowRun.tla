--------------------------- MODULE MCWorkflowRun ---------------------------
(***************************************************************************)
(* WorkflowRun on a small host: a python run with memoised steps that may  *)
(* time out, beside an llm_authored run whose script is frozen or a saved  *)
(* run that brings its script along.  One run at a time passes the gate.   *)
(***************************************************************************)
EXTENDS WorkflowRun, TLC

CONSTANTS py, authored, saved

MCRuns == {py, authored}
MCLiveRuns == {py, saved}
MCMode == (py :> "python") @@ (authored :> "llm_authored")
MCLiveMode == (py :> "python") @@ (saved :> "saved")

\* Two results are told apart by nothing but their identity.
ValueSymmetry == Permutations(Values)
=============================================================================
