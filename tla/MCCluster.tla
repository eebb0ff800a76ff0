------------------------------- MODULE MCCluster -------------------------------
(***************************************************************************)
(* An instance of Cluster for TLC: clients that ask for one session of a   *)
(* cluster of two endpoints, the first of which may be restarted.          *)
(***************************************************************************)
EXTENDS Cluster, TLC

CONSTANTS c1, c2, nA, nA2, nB, eA, eB, s1

EndpointOf == nA :> eA @@ nA2 :> eA @@ nB :> eB
OneSid == [c \in Clients |-> s1]
===============================================================================
