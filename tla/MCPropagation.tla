---------------------------- MODULE MCPropagation ----------------------------
(***************************************************************************)
(* Instances of Propagation for TLC.                                        *)
(***************************************************************************)
EXTENDS Propagation, TLC

CONSTANTS p1, p2, e1, e2, w1, w2, c1, c2

\* Clients are spread over the projects; all of them use environment e1.
OneScope  == {<<p1, e1>>}
TwoEnvs   == {<<p1, e1>>, <<p1, e2>>}
SharedKey == {<<p1, e1>>, <<p2, e1>>}

OneProject == [c \in Clients |-> <<p1, e1>>]
EachItsOwn == c1 :> <<p1, e1>> @@ c2 :> <<p2, e1>>

WriterSymmetry == Permutations(Writers)
=============================================================================
