-------------------------- MODULE MCAgentFreshness --------------------------
(***************************************************************************)
(* The default agent and a named one, a workflow in code, one in a file    *)
(* and a file whose name is a tool's.                                      *)
(***************************************************************************)
EXTENDS AgentFreshness

CONSTANTS report, digest, search, main, coder, old, new

\* The files there are at the start say the same: which of two texts a file has
\* first makes no difference.
MCInit ==
    /\ Init
    /\ md \in [Agents -> {old, Nothing}]
    /\ js \in [Names -> {old, Nothing}]

MCSpec == MCInit /\ [][Next]_vars
=============================================================================
