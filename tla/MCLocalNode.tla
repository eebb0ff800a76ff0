------------------------------ MODULE MCLocalNode ------------------------------
(***************************************************************************)
(* Instances of LocalNode for TLC: connections that join one session; the  *)
(* URL of one of them may have named another.                              *)
(***************************************************************************)
EXTENDS LocalNode, TLC

CONSTANTS c1, c2, s1, s2

OneSid == [c \in Conns |-> s1]
OtherUrl == [c \in Conns |-> IF c = c2 THEN s2 ELSE s1]
===============================================================================
