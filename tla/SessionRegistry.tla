---------------------------- MODULE SessionRegistry ----------------------------
(***************************************************************************)
(* What the node-local part of a coordinator promises (GetSession and the  *)
(* close handler, pkg/coordinator.go:29): a registry of Sessions, with at  *)
(* most one under a session id of a node.  A Session is registered as it   *)
(* is created, is found there until it was closed, is closed at most once, *)
(* and does not come back: what the close handler removes is a closed one, *)
(* although the handler knows only the id and runs later than the close.   *)
(***************************************************************************)
CONSTANTS Slots,      \* where a Session can be registered: an id, on a node
          Objects,    \* the Sessions that can ever be created
          SlotOf,     \* SlotOf[o]: where Session o belongs
          Processes,  \* the sets of slots that are lost together if a process dies
          None

VARIABLES registered, \* registered[k]: the Session under k, or None
          closed      \* the Sessions that were closed, or died with their process

vars == <<registered, closed>>

Init ==
  /\ registered = [k \in Slots |-> None]
  /\ closed = {}

\* A new Session is created, where there is none.
Open(k) ==
  /\ registered[k] = None
  /\ registered'[k] \in Objects \ closed
  /\ SlotOf[registered'[k]] = k
  /\ registered' = [registered EXCEPT ![k] = registered'[k]]
  /\ UNCHANGED closed

\* A Session is closed; it can still be found.
Close(k) ==
  /\ registered[k] \notin closed \cup {None}
  /\ closed' = closed \cup {registered[k]}
  /\ UNCHANGED registered

\* The close handler.
Forget(k) ==
  /\ registered[k] \in closed
  /\ registered' = [registered EXCEPT ![k] = None]
  /\ UNCHANGED closed

\* A process dies, and nothing of it comes back; the others are not concerned.
Die(P) ==
  /\ registered' = [k \in Slots |-> IF k \in P THEN None ELSE registered[k]]
  /\ closed \subseteq closed'
  /\ \A k \in P : registered[k] \in closed' \cup {None}
  /\ \A o \in closed' \ closed : SlotOf[o] \in P

Next ==
  \/ \E k \in Slots : Open(k) \/ Close(k) \/ Forget(k)
  \/ \E P \in Processes : Die(P)

Spec == Init /\ [][Next]_vars
===============================================================================
