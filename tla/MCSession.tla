------------------------------- MODULE MCSession -------------------------------
(***************************************************************************)
(* Instances of Session for TLC.  Cap = 1 makes full channels frequent.    *)
(***************************************************************************)
EXTENDS Session, TLC

CONSTANTS c1, c2, u1, u2

OwnUids == c1 :> u1 @@ c2 :> u2
\* A client that reconnects before its first connection is noticed to be dead.
SharedUid == c1 :> u1 @@ c2 :> u1
===============================================================================
