---------------------------- MODULE MCManagement ----------------------------
(***************************************************************************)
(* An instance of Management for TLC.                                       *)
(***************************************************************************)
EXTENDS Management

CONSTANTS h1, h2, k1, k2

\* The body of an environment has no keys, or the demo key.
NoKeysOrDemo == {<<>>, <<DemoKey>>}

HandlerSymmetry == Permutations(Handlers)
=============================================================================
