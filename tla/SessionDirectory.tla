--------------------------- MODULE SessionDirectory ---------------------------
(***************************************************************************)
(* What the cluster-wide part of a coordinator promises its callers        *)
(* (coordinator.getOrCreateSession, pkg/coordinator.go:28): a directory    *)
(* that gives every session id at most one owning node, and an atomic      *)
(* get-or-create on it.  A call either fails, or is answered "local" or    *)
(* "redirect" according to the owner at ONE instant of the call, having    *)
(* made its own node the owner at that instant if there was none.          *)
(* Ownership is given up, never transferred.                               *)
(***************************************************************************)
CONSTANTS Conns,   \* the callers, one call each
          Nodes, Sids,
          Home,    \* the node a caller's request is served by
          Sid,     \* the session id it asks for
          None

VARIABLES owner,   \* owner[s]: the node session s lives on, or None
          answer   \* answer[c]: what the call of c was answered, or None

vars == <<owner, answer>>

Init ==
  /\ owner = [s \in Sids |-> None]
  /\ answer = [c \in Conns |-> None]

Answer(c, a) ==
  /\ answer[c] = None
  /\ answer' = [answer EXCEPT ![c] = a]

\* The session exists: the caller learns whether it is on its own node.
Find(c) ==
  /\ owner[Sid[c]] # None
  /\ Answer(c, IF owner[Sid[c]] = Home[c] THEN "local" ELSE "redirect")
  /\ UNCHANGED owner

\* The session does not exist: the caller's node takes it.
Take(c) ==
  /\ owner[Sid[c]] = None
  /\ owner' = [owner EXCEPT ![Sid[c]] = Home[c]]
  /\ Answer(c, "local")

\* The call fails; the caller's node may have become the owner all the same.
Fail(c) ==
  /\ Answer(c, "error")
  /\ \/ UNCHANGED owner
     \/ owner[Sid[c]] = None /\ owner' = [owner EXCEPT ![Sid[c]] = Home[c]]

\* The entry disappears: deleted, or its lease ran out.
Release(s) ==
  /\ owner[s] # None
  /\ owner' = [owner EXCEPT ![s] = None]
  /\ UNCHANGED answer

Next ==
  \/ \E c \in Conns : Find(c) \/ Take(c) \/ Fail(c)
  \/ \E s \in Sids : Release(s)

Spec == Init /\ [][Next]_vars
===============================================================================
