-------------------------- MODULE MCEtcdCoordinator ---------------------------
(***************************************************************************)
(* Instances of EtcdCoordinator for TLC: one session asked for by two or   *)
(* three goroutines on two nodes, two of them on the same node.            *)
(***************************************************************************)
EXTENDS EtcdCoordinator, TLC

CONSTANTS c1, c2, c3, nA, nB, s1

Home3 == c1 :> nA @@ c2 :> nA @@ c3 :> nB
Home2 == c1 :> nA @@ c2 :> nA
OneSid == [c \in Conns |-> s1]

\* The goroutines of node nA are interchangeable.
Symmetry3 == Permutations({c1, c2})
===============================================================================
