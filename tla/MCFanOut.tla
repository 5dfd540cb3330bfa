------------------------------ MODULE MCFanOut ------------------------------
(***************************************************************************)
(* Two bodies.  Mixed: a batch that collects its failures, of a plain      *)
(* branch and of one that fans out again and fails fast.  FactCheck: the   *)
(* shape of examples/workflow_patterns/adversarial_verify.py, where every  *)
(* branch of the batch fans out again, and there are as many as slots.     *)
(***************************************************************************)
EXTENDS FanOut, TLC

CONSTANTS root, x, y, p, q

MCBranches == {x, y, p, q}

MixedParent == (x :> root) @@ (y :> root) @@ (p :> x) @@ (q :> x)
MixedBody == (root :> <<"batch">>) @@ (x :> <<"step", "batch">>) @@ (y :> <<"step">>)
             @@ (p :> <<"step">>) @@ (q :> <<"step">>)

FactCheckParent == (x :> root) @@ (y :> root) @@ (p :> x) @@ (q :> y)
FactCheckBody == (root :> <<"step", "batch">>) @@ (x :> <<"batch">>) @@ (y :> <<"batch">>)
                 @@ (p :> <<"step">>) @@ (q :> <<"step">>)
=============================================================================
