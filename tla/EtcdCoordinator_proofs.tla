------------------------ MODULE EtcdCoordinator_proofs ------------------------
(***************************************************************************)
(* Theorems about EtcdCoordinator, for any number of goroutines, nodes and *)
(* sessions.  TypeCorrect, OwnSessionClosed, GaugeCorrect,                 *)
(* LeavesNoResidue and RegistryImplemented hold under every fault;         *)
(* MutualExclusion, KeyKept and Linearizable as long as no etcd mutex is   *)
(* lost to its TTL while its holder is inside ("lockLoss").                *)
(***************************************************************************)
EXTENDS EtcdCoordinator, FiniteSetTheorems, TLAPS

USE HomeSid, NoneIsNothing, NoneIsNoAnswer DEF Found, InSession

-------------------------------------------------------------------------------
\* The parts of the inductive invariant

\* The registry of a node (localSessions), and who is closing what.
OpenIsRegistered ==
  \A o \in Conns : session[o] = "open" => localSessions[Home[o]][Sid[o]] = o

RegisteredWhereItBelongs ==
  \A n \in Nodes, s \in Sids :
    localSessions[n][s] # None => Home[localSessions[n][s]] = n /\ Sid[localSessions[n][s]] = s

SessIsOfSameId ==
  \A c \in Conns :
    /\ sess[c] # None => Home[sess[c]] = Home[c] /\ Sid[sess[c]] = Sid[c]
    /\ pc[c] \in InSession => sess[c] # None

ClosingIsClosed ==
  \A c \in Conns :
    pc[c] \in Closing =>
      /\ sess[c] # None
      /\ session[sess[c]] = "closed"
      /\ localSessions[Home[c]][Sid[c]] = sess[c]

OneCloser ==
  \A c, d \in Conns :
    pc[c] \in Closing /\ pc[d] \in Closing /\ sess[c] = sess[d] => c = d

RegistryInv ==
  /\ OpenIsRegistered
  /\ RegisteredWhereItBelongs
  /\ SessIsOfSameId
  /\ ClosingIsClosed
  /\ OneCloser

\* The locks.
LockHeld == \A c \in Conns : pc[c] \in Holding => lock[Sid[c]] = c

EmuHeld ==
  \A c \in Conns : pc[c] \in {"put", "closeUnlock"} \cup ClosingEmu => emu[Home[c]] = c

\* The session keys and their leases.
KeyOfItsSession == \A s \in Sids : kv[s] # None => Sid[kv[s]] = s

NoKeyWhileCreating == \A c \in Conns : pc[c] \in Creating => kv[Sid[c]] = None

RegisteredBeforePut ==
  \A c \in Conns : pc[c] = "put" => sessionLeases[Home[c]][Sid[c]] = c

NotAnsweredYet ==
  \A c \in Conns : pc[c] \in {"idle", "lockWait", "get"} \cup Creating => ret[c] = None

KeyInv ==
  /\ KeyOfItsSession
  /\ NoKeyWhileCreating
  /\ RegisteredBeforePut
  /\ KeyHasKeeper

-------------------------------------------------------------------------------
\* What ensureSession does to the registry, in its two cases.
LEMMA EnsureSessionCases ==
  ASSUME NEW c \in Conns, EnsureSession(c)
  PROVE  \/ /\ localSessions[Home[c]][Sid[c]] # None
            /\ UNCHANGED <<localSessions, gauge, session>>
         \/ /\ localSessions[Home[c]][Sid[c]] = None
            /\ localSessions' = [localSessions EXCEPT ![Home[c]][Sid[c]] = c]
            /\ session' = [session EXCEPT ![c] = "open"]
            /\ gauge' = [gauge EXCEPT ![Home[c]] = @ + 1]
BY DEF EnsureSession

\* The same of GetSession, with the Session the peer gets.
LEMMA GetSessionCases ==
  ASSUME TypeOK, NEW c \in Conns, GetSession(c)
  PROVE  \/ /\ localSessions[Home[c]][Sid[c]] # None
            /\ sess' = [sess EXCEPT ![c] = localSessions[Home[c]][Sid[c]]]
            /\ UNCHANGED <<localSessions, gauge, session>>
         \/ /\ localSessions[Home[c]][Sid[c]] = None
            /\ sess' = [sess EXCEPT ![c] = c]
            /\ localSessions' = [localSessions EXCEPT ![Home[c]][Sid[c]] = c]
            /\ session' = [session EXCEPT ![c] = "open"]
            /\ gauge' = [gauge EXCEPT ![Home[c]] = @ + 1]
<1>1. EnsureSession(c) /\ sess' = [sess EXCEPT ![c] = localSessions'[Home[c]][Sid[c]]]
  BY DEF GetSession
<1>2. CASE localSessions[Home[c]][Sid[c]] # None
  BY <1>1, <1>2, EnsureSessionCases
<1>3. CASE localSessions[Home[c]][Sid[c]] = None
  <2>1. localSessions' = [localSessions EXCEPT ![Home[c]][Sid[c]] = c]
    BY <1>1, <1>3, EnsureSessionCases
  <2>2. localSessions'[Home[c]][Sid[c]] = c
    BY <2>1 DEF TypeOK
  <2> QED BY <1>1, <1>3, <2>2, EnsureSessionCases
<1> QED BY <1>2, <1>3

-------------------------------------------------------------------------------
(***************************************************************************)
(* Every step of every handler of the coordinator, error returns and       *)
(* crashes included, keeps the state well typed: a session key, a mutex, a *)
(* registered lease and a registered Session always belong to a known      *)
(* goroutine.                                                              *)
(***************************************************************************)
THEOREM TypeCorrect == Spec => []TypeOK
<1> USE DEF Labels, Holding, Creating, Closing, ClosingEmu, Stopped, Live
<1>1. Init => TypeOK
  BY DEF Init, TypeOK
<1>2. TypeOK /\ [Next]_vars => TypeOK'
  <2> SUFFICES ASSUME TypeOK, [Next]_vars PROVE TypeOK'
    OBVIOUS
  <2> USE DEF TypeOK, vars, connVars, etcdVars, nodeVars, sessVars, At, Goto, Return
  <2>1. ASSUME NEW c \in Conns, GetOrCreate(c) PROVE TypeOK'
    <3>1. CASE Call(c) BY <3>1 DEF Call
    <3>2. CASE Lock(c) BY <3>2 DEF Lock, TakeLock
    <3>3. CASE LockFails(c)
      <4>1. lock' \in [Sids -> Conns \cup {None}]
        BY <3>3 DEF LockFails, LosesLock
      <4>2. pc' \in [Conns -> Labels]
        BY <3>3 DEF LockFails
      <4>3. ret' \in [Conns -> {"local", "redirect", "error", None}]
        BY <3>3 DEF LockFails
      <4> QED BY <3>3, <4>1, <4>2, <4>3 DEF LockFails, EndContext
    <3>4. CASE Get(c) BY <3>4 DEF Get
    <3>5. CASE Grant(c) BY <3>5 DEF Grant
    <3>6. CASE GetFails(c) BY <3>6 DEF GetFails
    <3>7. CASE KeepAlive(c)
      <4>1. lease' \in [Conns -> {"none", "gone"} \cup Live]
        BY <3>7 DEF KeepAlive
      <4>2. pc' \in [Conns -> Labels]
        BY <3>7 DEF KeepAlive
      <4> QED BY <3>7, <4>1, <4>2 DEF KeepAlive
    <3>8. CASE RegisterLease(c) BY <3>8 DEF RegisterLease, TakeEmu
    <3>9. CASE Put(c) BY <3>9 DEF Put, ReleaseEmu, KeyIsPut
    <3>10. CASE PutFails(c)
      <4>5. unserved' \subseteq Sids
        BY <3>10 DEF PutFails, KeyIsPut
      <4>1. kv' \in [Sids -> Conns \cup {None}]
        BY <3>10 DEF PutFails
      <4>2. pc' \in [Conns -> Labels]
        BY <3>10 DEF PutFails
      <4>3. ret' \in [Conns -> {"local", "redirect", "error", None}]
        BY <3>10 DEF PutFails
      <4>4. emu' \in [Nodes -> Conns \cup {None}]
        BY <3>10 DEF PutFails, ReleaseEmu
      <4> QED BY <3>10, <4>1, <4>2, <4>3, <4>4, <4>5 DEF PutFails
    <3>11. CASE Unlock(c) BY <3>11 DEF Unlock, ReleaseLock, EndContext
    <3> QED BY <2>1, <3>1, <3>2, <3>3, <3>4, <3>5, <3>6, <3>7, <3>8, <3>9, <3>10, <3>11
            DEF GetOrCreate
  <2>2. ASSUME NEW c \in Conns, Visit(c) PROVE TypeOK'
    <3>1. CASE Finish(c) BY <3>1 DEF Finish
    <3>2. CASE GetSession(c)
      <4>1. pc' \in [Conns -> Labels] /\ unserved' \subseteq Sids
        BY <3>2 DEF GetSession, EnsureSession
      <4>2. CASE localSessions[Home[c]][Sid[c]] # None
        <5>1. localSessions[Home[c]][Sid[c]] \in Conns
          BY <4>2
        <5>2. sess' = [sess EXCEPT ![c] = localSessions[Home[c]][Sid[c]]]
          BY <3>2, <4>2, GetSessionCases
        <5>3. sess' \in [Conns -> Conns \cup {None}]
          BY <5>1, <5>2
        <5>4. UNCHANGED <<localSessions, gauge, session>>
          BY <3>2, <4>2, GetSessionCases
        <5> QED BY <3>2, <4>1, <5>3, <5>4 DEF GetSession
      <4>3. CASE localSessions[Home[c]][Sid[c]] = None
        <5>1. /\ sess' = [sess EXCEPT ![c] = c]
              /\ localSessions' = [localSessions EXCEPT ![Home[c]][Sid[c]] = c]
              /\ session' = [session EXCEPT ![c] = "open"]
              /\ gauge' = [gauge EXCEPT ![Home[c]] = @ + 1]
          BY <3>2, <4>3, GetSessionCases
        <5>2. localSessions' \in [Nodes -> [Sids -> Conns \cup {None}]]
          BY <5>1
        <5>3. session' \in [Conns -> {"none", "open", "closed"}]
          BY <5>1
        <5>4. gauge' \in [Nodes -> Int]
          BY <5>1
        <5>5. sess' \in [Conns -> Conns \cup {None}]
          BY <5>1
        <5> QED BY <3>2, <4>1, <5>2, <5>3, <5>4, <5>5 DEF GetSession
      <4> QED BY <4>2, <4>3
    <3>3. CASE AddPeer(c) BY <3>3 DEF AddPeer
    <3>4. CASE RemovePeer(c) BY <3>4 DEF RemovePeer
    <3>5. CASE JoinFails(c) BY <3>5 DEF JoinFails
    <3>6. CASE Handle(c) BY <3>6 DEF Handle
    <3>7. CASE GetSessionAgain(c)
      <4>1. pc' \in [Conns -> Labels] /\ unserved' \subseteq Sids
        BY <3>7 DEF GetSessionAgain, EnsureSession
      <4>2. /\ localSessions' \in [Nodes -> [Sids -> Conns \cup {None}]]
            /\ session' \in [Conns -> {"none", "open", "closed"}]
            /\ gauge' \in [Nodes -> Int]
        <5>1. EnsureSession(c) BY <3>7 DEF GetSessionAgain
        <5>2. CASE localSessions[Home[c]][Sid[c]] # None BY <5>1, <5>2, EnsureSessionCases
        <5>3. CASE localSessions[Home[c]][Sid[c]] = None
          <6>1. /\ localSessions' = [localSessions EXCEPT ![Home[c]][Sid[c]] = c]
                /\ session' = [session EXCEPT ![c] = "open"]
                /\ gauge' = [gauge EXCEPT ![Home[c]] = @ + 1]
            BY <5>1, <5>3, EnsureSessionCases
          <6>2. localSessions' \in [Nodes -> [Sids -> Conns \cup {None}]] BY <6>1
          <6>3. session' \in [Conns -> {"none", "open", "closed"}] BY <6>1
          <6>4. gauge' \in [Nodes -> Int] BY <6>1
          <6> QED BY <6>2, <6>3, <6>4
        <5> QED BY <5>2, <5>3
      <4> QED BY <3>7, <4>1, <4>2 DEF GetSessionAgain
    <3> QED BY <2>2, <3>1, <3>2, <3>3, <3>4, <3>5, <3>6, <3>7 DEF Visit
  <2>3. ASSUME NEW c \in Conns, OnSessionClosed(c) PROVE TypeOK'
    <3>1. CASE CloseBegin(c) BY <3>1 DEF CloseBegin, TakeEmu
    <3>2. CASE CloseLock(c) BY <3>2 DEF CloseLock, TakeLock
    <3>3. CASE CloseLockFails(c)
      <4>1. lock' \in [Sids -> Conns \cup {None}]
        BY <3>3 DEF CloseLockFails, LosesLock
      <4>2. pc' \in [Conns -> Labels]
        BY <3>3 DEF CloseLockFails
      <4>3. emu' \in [Nodes -> Conns \cup {None}]
        BY <3>3 DEF CloseLockFails, ReleaseEmu
      <4> QED BY <3>3, <4>1, <4>2, <4>3 DEF CloseLockFails, EndContext
    <3>4. CASE CancelLease(c) BY <3>4 DEF CancelLease
    <3>5. CASE CloseDelete(c) BY <3>5 DEF CloseDelete
    <3>6. CASE CloseDeleteFails(c) BY <3>6 DEF CloseDeleteFails
    <3>7. CASE CloseUnlock(c) BY <3>7 DEF CloseUnlock, ReleaseLock, ReleaseEmu, EndContext
    <3> QED BY <2>3, <3>1, <3>2, <3>3, <3>4, <3>5, <3>6, <3>7 DEF OnSessionClosed
  <2>4. ASSUME NEW c \in Conns, Deadline(c) PROVE TypeOK'
    BY <2>4 DEF Deadline
  <2>5. ASSUME NEW c \in Conns, LeaseExpires(c) PROVE TypeOK'
    BY <2>5 DEF LeaseExpires
  <2>6. ASSUME NEW s \in Sids, LockExpires(s) PROVE TypeOK'
    BY <2>6 DEF LockExpires
  <2>7. ASSUME NEW n \in Nodes, Crash(n) PROVE TypeOK'
    BY <2>7 DEF Crash, On
  <2>8. CASE UNCHANGED vars
    BY <2>8
  <2> QED BY <2>1, <2>2, <2>3, <2>4, <2>5, <2>6, <2>7, <2>8 DEF Next
<1> QED BY <1>1, <1>2, PTL DEF Spec

-------------------------------------------------------------------------------
\* The registry of a node

\* The steps of a goroutine before it asks for a Session, and of its leases.
Outside(c) == GetOrCreate(c) \/ Finish(c) \/ Handle(c) \/ Deadline(c) \/ LeaseExpires(c)

\* getOrCreateSession and a caller's early end leave the registry alone.
LEMMA LeavesRegistryAlone ==
  ASSUME TypeOK, NEW c \in Conns, Outside(c)
  PROVE  /\ UNCHANGED <<sess, localSessions, gauge, session>>
         /\ \A d \in Conns : pc'[d] = pc[d] \/ pc'[d] \notin Closing \cup InSession
<1> USE DEF TypeOK, At, Goto, Return, Closing, ClosingEmu, connVars, etcdVars, nodeVars, sessVars
<1>1. CASE Call(c) BY <1>1 DEF Call
<1>2. CASE Lock(c) BY <1>2 DEF Lock
<1>3. CASE LockFails(c) BY <1>3 DEF LockFails
<1>4. CASE Get(c) BY <1>4 DEF Get
<1>5. CASE Grant(c) BY <1>5 DEF Grant
<1>6. CASE GetFails(c) BY <1>6 DEF GetFails
<1>7. CASE KeepAlive(c) BY <1>7 DEF KeepAlive
<1>8. CASE RegisterLease(c) BY <1>8 DEF RegisterLease
<1>9. CASE Put(c) BY <1>9 DEF Put
<1>10. CASE PutFails(c) BY <1>10 DEF PutFails
<1>11. CASE Unlock(c) BY <1>11 DEF Unlock
<1>12. CASE Finish(c) BY <1>12 DEF Finish
<1>13. CASE Deadline(c) BY <1>13 DEF Deadline
<1>14. CASE LeaseExpires(c) BY <1>14 DEF LeaseExpires
<1>15. CASE Handle(c) BY <1>15 DEF Handle
<1> QED BY <1>1, <1>2, <1>3, <1>4, <1>5, <1>6, <1>7, <1>8, <1>9, <1>10, <1>11, <1>12,
           <1>13, <1>14, <1>15 DEF Outside, GetOrCreate

\* What touches no Session, and starts no close, keeps the registry's invariant.
LEMMA RegistryFrame ==
  ASSUME TypeOK, RegistryInv, UNCHANGED <<sess, localSessions, session>>,
         \A d \in Conns : pc'[d] = pc[d] \/ pc'[d] \notin Closing \cup InSession
  PROVE  RegistryInv'
<1> USE DEF TypeOK, RegistryInv
<1>1. OpenIsRegistered' BY DEF OpenIsRegistered
<1>2. RegisteredWhereItBelongs' BY DEF RegisteredWhereItBelongs
<1>3. SessIsOfSameId' BY DEF SessIsOfSameId
<1>4. ClosingIsClosed' BY DEF ClosingIsClosed
<1>5. OneCloser' BY DEF OneCloser
<1> QED BY <1>1, <1>2, <1>3, <1>4, <1>5

\* Every step keeps the registry's invariant.  An open Session is always the
\* registered one of its id, so the first close of a Session finds itself there.
LEMMA RegistryStep ==
  ASSUME TypeOK, RegistryInv, [Next]_vars
  PROVE  RegistryInv'
<1> USE DEF TypeOK, At, Goto, connVars, etcdVars, nodeVars, sessVars
<1> USE DEF Closing, ClosingEmu
<1>1. ASSUME NEW c \in Conns, Outside(c) PROVE RegistryInv'
  BY <1>1, LeavesRegistryAlone, RegistryFrame
<1>2. ASSUME NEW c \in Conns, GetSession(c) PROVE RegistryInv'
  <2> DEFINE n == Home[c]
             s == Sid[c]
  <2>1. CASE localSessions[n][s] # None
    <3>1. /\ sess' = [sess EXCEPT ![c] = localSessions[n][s]]
          /\ UNCHANGED <<localSessions, session>>
          /\ pc' = [pc EXCEPT ![c] = "addPeer"]
      BY <1>2, <2>1, GetSessionCases DEF GetSession
    <3>2. localSessions[n][s] \in Conns
      BY <2>1
    <3>3. OpenIsRegistered' BY <3>1 DEF RegistryInv, OpenIsRegistered
    <3>4. RegisteredWhereItBelongs' BY <3>1 DEF RegistryInv, RegisteredWhereItBelongs
    <3>5. SessIsOfSameId'
      BY <3>1, <3>2, <2>1 DEF RegistryInv, SessIsOfSameId, RegisteredWhereItBelongs
    <3>6. ClosingIsClosed' BY <3>1 DEF RegistryInv, ClosingIsClosed
    <3>7. OneCloser' BY <3>1 DEF RegistryInv, OneCloser
    <3> QED BY <3>3, <3>4, <3>5, <3>6, <3>7 DEF RegistryInv
  <2>2. CASE localSessions[n][s] = None
    <3>1. /\ sess' = [sess EXCEPT ![c] = c]
          /\ localSessions' = [localSessions EXCEPT ![n][s] = c]
          /\ session' = [session EXCEPT ![c] = "open"]
          /\ pc' = [pc EXCEPT ![c] = "addPeer"]
      BY <1>2, <2>2, GetSessionCases DEF GetSession
    <3>2. OpenIsRegistered' BY <3>1, <2>2 DEF RegistryInv, OpenIsRegistered
    <3>3. RegisteredWhereItBelongs' BY <3>1 DEF RegistryInv, RegisteredWhereItBelongs
    <3>4. SessIsOfSameId' BY <3>1 DEF RegistryInv, SessIsOfSameId
    <3>5. ClosingIsClosed'
      <4> SUFFICES ASSUME NEW d \in Conns, pc'[d] \in Closing
                   PROVE  /\ sess'[d] # None
                          /\ session'[sess'[d]] = "closed"
                          /\ localSessions'[Home[d]][Sid[d]] = sess'[d]
        BY DEF ClosingIsClosed
      <4>1. d # c /\ pc[d] \in Closing /\ sess'[d] = sess[d] BY <3>1
      <4>2. sess[d] # None /\ session[sess[d]] = "closed" /\ localSessions[Home[d]][Sid[d]] = sess[d]
        BY <4>1 DEF RegistryInv, ClosingIsClosed
      <4>3. ~(Home[d] = n /\ Sid[d] = s) BY <4>2, <2>2
      <4>4. sess[d] # c BY <4>2, <4>3 DEF RegistryInv, SessIsOfSameId
      <4> QED BY <3>1, <4>1, <4>2, <4>3, <4>4
    <3>6. OneCloser' BY <3>1 DEF RegistryInv, OneCloser
    <3> QED BY <3>2, <3>3, <3>4, <3>5, <3>6 DEF RegistryInv
  <2> QED BY <2>1, <2>2
<1>3. ASSUME NEW c \in Conns, AddPeer(c) \/ JoinFails(c) PROVE RegistryInv'
  <2>1. /\ pc[c] = "addPeer" /\ \E l \in {"joined", "refused"} : pc' = [pc EXCEPT ![c] = l]
        /\ UNCHANGED <<sess, localSessions, session>>
    BY <1>3 DEF AddPeer, JoinFails
  <2>2. OpenIsRegistered' BY <2>1 DEF RegistryInv, OpenIsRegistered
  <2>3. RegisteredWhereItBelongs' BY <2>1 DEF RegistryInv, RegisteredWhereItBelongs
  <2>4. SessIsOfSameId' BY <2>1 DEF RegistryInv, SessIsOfSameId
  <2>5. ClosingIsClosed' BY <2>1 DEF RegistryInv, ClosingIsClosed
  <2>6. OneCloser' BY <2>1 DEF RegistryInv, OneCloser
  <2> QED BY <2>2, <2>3, <2>4, <2>5, <2>6 DEF RegistryInv
<1>4. ASSUME NEW c \in Conns, RemovePeer(c) PROVE RegistryInv'
  <2> DEFINE o == sess[c]
  <2>1. CASE session' = session
    <3>1. pc' = [pc EXCEPT ![c] = "done"] /\ UNCHANGED <<sess, localSessions, session>>
      <4>1. ~(peers'[o] = {} /\ session[o] = "open")
        <5> SUFFICES ASSUME peers'[o] = {}, session[o] = "open" PROVE FALSE OBVIOUS
        <5>1. session' = [session EXCEPT ![o] = "closed"] BY <1>4 DEF RemovePeer
        <5>2. o \in Conns BY <1>4 DEF RemovePeer, RegistryInv, SessIsOfSameId
        <5> QED BY <5>1, <5>2, <2>1
      <4> QED BY <1>4, <4>1 DEF RemovePeer
    <3> QED BY <3>1, RegistryFrame
  <2>2. CASE session' # session
    <3>1. /\ pc[c] \in {"joined", "refused"} /\ session[o] = "open"
          /\ session' = [session EXCEPT ![o] = "closed"]
          /\ pc' = [pc EXCEPT ![c] = "closeEmu"]
          /\ UNCHANGED <<sess, localSessions>>
      BY <1>4, <2>2 DEF RemovePeer
    <3>2. o \in Conns /\ Home[o] = Home[c] /\ Sid[o] = Sid[c] /\ localSessions[Home[c]][Sid[c]] = o
      BY <3>1 DEF RegistryInv, SessIsOfSameId, OpenIsRegistered
    <3>3. OpenIsRegistered' BY <3>1, <3>2 DEF RegistryInv, OpenIsRegistered
    <3>4. RegisteredWhereItBelongs' BY <3>1 DEF RegistryInv, RegisteredWhereItBelongs
    <3>5. SessIsOfSameId' BY <3>1 DEF RegistryInv, SessIsOfSameId
    <3>6. ClosingIsClosed' BY <3>1, <3>2 DEF RegistryInv, ClosingIsClosed
    <3>7. OneCloser' BY <3>1, <3>2 DEF RegistryInv, OneCloser, ClosingIsClosed
    <3> QED BY <3>3, <3>4, <3>5, <3>6, <3>7 DEF RegistryInv
  <2> QED BY <2>1, <2>2
<1>5. ASSUME NEW c \in Conns, CloseBegin(c) \/ CloseLock(c) \/ CancelLease(c) PROVE RegistryInv'
  <2>1. /\ pc[c] \in Closing
        /\ \E l \in Closing : pc' = [pc EXCEPT ![c] = l]
        /\ UNCHANGED <<sess, localSessions, session>>
    BY <1>5 DEF CloseBegin, CloseLock, CancelLease
  <2>2. OpenIsRegistered' BY <2>1 DEF RegistryInv, OpenIsRegistered
  <2>3. RegisteredWhereItBelongs' BY <2>1 DEF RegistryInv, RegisteredWhereItBelongs
  <2>4. SessIsOfSameId' BY <2>1 DEF RegistryInv, SessIsOfSameId
  <2>5. ClosingIsClosed' BY <2>1 DEF RegistryInv, ClosingIsClosed
  <2>6. OneCloser' BY <2>1 DEF RegistryInv, OneCloser
  <2> QED BY <2>2, <2>3, <2>4, <2>5, <2>6 DEF RegistryInv
<1>6. ASSUME NEW c \in Conns, CloseLockFails(c) \/ CloseDeleteFails(c) \/ CloseUnlock(c)
      PROVE  RegistryInv'
  <2>1. /\ UNCHANGED <<sess, localSessions, session>>
        /\ \A d \in Conns : pc'[d] = pc[d] \/ pc'[d] \notin Closing \cup InSession
    BY <1>6 DEF CloseLockFails, CloseDeleteFails, CloseUnlock
  <2> QED BY <2>1, RegistryFrame
<1>7. ASSUME NEW c \in Conns, CloseDelete(c) PROVE RegistryInv'
  <2>1. /\ pc[c] \in Closing
        /\ pc' = [pc EXCEPT ![c] = "closeUnlock"]
        /\ localSessions' = [localSessions EXCEPT ![Home[c]][Sid[c]] = None]
        /\ UNCHANGED <<sess, session>>
    BY <1>7 DEF CloseDelete
  <2>2. session[sess[c]] = "closed" /\ localSessions[Home[c]][Sid[c]] = sess[c]
    BY <2>1 DEF RegistryInv, ClosingIsClosed
  <2>3. OpenIsRegistered' BY <2>1, <2>2 DEF RegistryInv, OpenIsRegistered
  <2>4. RegisteredWhereItBelongs' BY <2>1 DEF RegistryInv, RegisteredWhereItBelongs
  <2>5. SessIsOfSameId' BY <2>1 DEF RegistryInv, SessIsOfSameId
  <2>6. ClosingIsClosed'
    <3> SUFFICES ASSUME NEW d \in Conns, pc'[d] \in Closing
                 PROVE  /\ sess'[d] # None
                        /\ session'[sess'[d]] = "closed"
                        /\ localSessions'[Home[d]][Sid[d]] = sess'[d]
      BY DEF ClosingIsClosed
    <3>1. d # c /\ pc[d] \in Closing BY <2>1
    <3>2. sess[d] # None /\ session[sess[d]] = "closed" /\ localSessions[Home[d]][Sid[d]] = sess[d]
      BY <3>1 DEF RegistryInv, ClosingIsClosed
    <3>3. ~(Home[d] = Home[c] /\ Sid[d] = Sid[c])
      BY <3>1, <3>2, <2>1, <2>2 DEF RegistryInv, OneCloser
    <3> QED BY <2>1, <3>2, <3>3
  <2>7. OneCloser' BY <2>1 DEF RegistryInv, OneCloser
  <2> QED BY <2>3, <2>4, <2>5, <2>6, <2>7 DEF RegistryInv
<1>8. ASSUME NEW s \in Sids, LockExpires(s) PROVE RegistryInv'
  BY <1>8, RegistryFrame DEF LockExpires
<1>9. ASSUME NEW n \in Nodes, Crash(n) PROVE RegistryInv'
  <2> USE <1>9 DEF Crash, On
  <2>1. OpenIsRegistered' BY DEF RegistryInv, OpenIsRegistered
  <2>2. RegisteredWhereItBelongs' BY DEF RegistryInv, RegisteredWhereItBelongs
  <2>3. SessIsOfSameId' BY DEF RegistryInv, SessIsOfSameId
  <2>4. ClosingIsClosed' BY DEF RegistryInv, ClosingIsClosed, SessIsOfSameId
  <2>5. OneCloser' BY DEF RegistryInv, OneCloser
  <2> QED BY <2>1, <2>2, <2>3, <2>4, <2>5 DEF RegistryInv
<1>10. CASE UNCHANGED vars
  BY <1>10, RegistryFrame DEF vars
<1>11. ASSUME NEW c \in Conns, GetSessionAgain(c) PROVE RegistryInv'
  <2> DEFINE n == Home[c]
             s == Sid[c]
  <2>0. /\ sess' = sess
        /\ \A d \in Conns : pc'[d] = pc[d] \/ pc'[d] \notin Closing \cup InSession
    BY <1>11 DEF GetSessionAgain
  <2>1. CASE localSessions[n][s] # None
    <3>1. UNCHANGED <<localSessions, session>>
      BY <1>11, <2>1, EnsureSessionCases DEF GetSessionAgain
    <3> QED BY <2>0, <3>1, RegistryFrame
  <2>2. CASE localSessions[n][s] = None
    <3>1. /\ localSessions' = [localSessions EXCEPT ![n][s] = c]
          /\ session' = [session EXCEPT ![c] = "open"]
      BY <1>11, <2>2, EnsureSessionCases DEF GetSessionAgain
    <3>2. OpenIsRegistered' BY <3>1, <2>2 DEF RegistryInv, OpenIsRegistered
    <3>3. RegisteredWhereItBelongs' BY <3>1 DEF RegistryInv, RegisteredWhereItBelongs
    <3>4. SessIsOfSameId' BY <2>0 DEF RegistryInv, SessIsOfSameId
    <3>5. ClosingIsClosed'
      <4> SUFFICES ASSUME NEW d \in Conns, pc'[d] \in Closing
                   PROVE  /\ sess'[d] # None
                          /\ session'[sess'[d]] = "closed"
                          /\ localSessions'[Home[d]][Sid[d]] = sess'[d]
        BY DEF ClosingIsClosed
      <4>1. pc[d] \in Closing /\ sess'[d] = sess[d] BY <2>0
      <4>2. sess[d] # None /\ session[sess[d]] = "closed" /\ localSessions[Home[d]][Sid[d]] = sess[d]
        BY <4>1 DEF RegistryInv, ClosingIsClosed
      <4>3. ~(Home[d] = n /\ Sid[d] = s) BY <4>2, <2>2
      <4>4. sess[d] # c BY <4>2, <4>3 DEF RegistryInv, SessIsOfSameId
      <4> QED BY <3>1, <4>1, <4>2, <4>3, <4>4
    <3>6. OneCloser' BY <2>0 DEF RegistryInv, OneCloser
    <3> QED BY <3>2, <3>3, <3>4, <3>5, <3>6 DEF RegistryInv
  <2> QED BY <2>1, <2>2
<1> QED BY <1>1, <1>2, <1>3, <1>4, <1>5, <1>6, <1>7, <1>8, <1>9, <1>10, <1>11
        DEF Next, Visit, Outside, OnSessionClosed

(***************************************************************************)
(* The registry of a node (localSessions, which ensureSession fills and    *)
(* onSessionClosed empties) is consistent with the Sessions and the        *)
(* goroutines closing them, under every fault.                             *)
(***************************************************************************)
THEOREM RegistryCorrect == Spec => []RegistryInv
<1>1. Init => RegistryInv
  BY DEF Init, RegistryInv, OpenIsRegistered, RegisteredWhereItBelongs, SessIsOfSameId,
         ClosingIsClosed, OneCloser, Closing, ClosingEmu
<1>2. TypeOK /\ RegistryInv /\ [Next]_vars => RegistryInv'
  BY RegistryStep
<1> QED BY <1>1, <1>2, TypeCorrect, PTL DEF Spec

(***************************************************************************)
(* Under every fault, the entry of localSessions that an onSessionClosed   *)
(* will delete is the closed Session that called it.                       *)
(***************************************************************************)
THEOREM OwnSessionClosed == Spec => []ClosesOwnSession
<1>1. RegistryInv => ClosesOwnSession
  BY DEF RegistryInv, ClosingIsClosed, ClosesOwnSession
<1> QED BY <1>1, RegistryCorrect, PTL

\* The registered session ids of a node can be counted.
LEMMA RegisteredFinite == ASSUME NEW n \in Nodes
                          PROVE IsFiniteSet(Registered(n)) /\ Cardinality(Registered(n)) \in Nat
BY FiniteSids, FS_Subset, FS_CardinalityType DEF Registered

(***************************************************************************)
(* Under every fault, the gauge is the number of Sessions a node has.      *)
(***************************************************************************)
THEOREM GaugeCorrect == Spec => []GaugeCountsSessions
<1>1. Init => GaugeCountsSessions
  <2> SUFFICES ASSUME Init, NEW n \in Nodes PROVE gauge[n] = Cardinality(Registered(n))
    BY DEF GaugeCountsSessions
  <2>1. Registered(n) = {} BY DEF Init, Registered
  <2> QED BY <2>1, FS_EmptySet DEF Init
<1>2. TypeOK /\ RegistryInv /\ GaugeCountsSessions /\ [Next]_vars => GaugeCountsSessions'
  <2> SUFFICES ASSUME TypeOK, RegistryInv, GaugeCountsSessions, [Next]_vars, NEW n \in Nodes
               PROVE  gauge'[n] = Cardinality(Registered(n)')
    BY DEF GaugeCountsSessions
  <2> USE DEF TypeOK, connVars, etcdVars, nodeVars, sessVars
  <2>1. gauge[n] = Cardinality(Registered(n)) BY DEF GaugeCountsSessions
  <2>2. CASE UNCHANGED <<localSessions, gauge>>
    BY <2>1, <2>2 DEF Registered
  <2>3. ASSUME NEW c \in Conns, EnsureSession(c), ~UNCHANGED <<localSessions, gauge>>
        PROVE  gauge'[n] = Cardinality(Registered(n)')
    <3>1. /\ localSessions[Home[c]][Sid[c]] = None
          /\ localSessions' = [localSessions EXCEPT ![Home[c]][Sid[c]] = c]
          /\ gauge' = [gauge EXCEPT ![Home[c]] = @ + 1]
      BY <2>3, EnsureSessionCases
    <3>2. CASE Home[c] = n
      <4>1. Registered(n)' = Registered(n) \cup {Sid[c]} /\ Sid[c] \notin Registered(n)
        <5>1. \A s \in Sids : localSessions'[n][s] = IF s = Sid[c] THEN c ELSE localSessions[n][s]
          BY <3>1, <3>2
        <5> QED BY <3>1, <3>2, <5>1 DEF Registered
      <4>2. Cardinality(Registered(n)') = Cardinality(Registered(n)) + 1
        <5>1. IsFiniteSet(Registered(n)) BY RegisteredFinite
        <5>2. Cardinality(Registered(n) \cup {Sid[c]}) = Cardinality(Registered(n)) + 1
          BY <4>1, <5>1, FS_AddElement
        <5> QED BY <4>1, <5>2
      <4> QED BY <2>1, <3>1, <3>2, <4>2
    <3>3. CASE Home[c] # n
      <4>1. Registered(n)' = Registered(n) BY <3>1, <3>3 DEF Registered
      <4> QED BY <2>1, <3>1, <3>3, <4>1
    <3> QED BY <3>2, <3>3
  <2>4. ASSUME NEW c \in Conns, CloseDelete(c)
        PROVE  gauge'[n] = Cardinality(Registered(n)')
    <3>1. /\ localSessions' = [localSessions EXCEPT ![Home[c]][Sid[c]] = None]
          /\ gauge' = [gauge EXCEPT ![Home[c]] = @ - 1]
          /\ localSessions[Home[c]][Sid[c]] # None
      BY <2>4 DEF CloseDelete, At, RegistryInv, ClosingIsClosed, Closing, ClosingEmu
    <3>2. CASE Home[c] = n
      <4>1. Registered(n)' = Registered(n) \ {Sid[c]} /\ Sid[c] \in Registered(n)
        BY <3>1, <3>2 DEF Registered
      <4>2. Cardinality(Registered(n)') = Cardinality(Registered(n)) - 1
        BY <4>1, RegisteredFinite, FS_RemoveElement
      <4> QED BY <2>1, <3>1, <3>2, <4>2
    <3>3. CASE Home[c] # n
      <4>1. Registered(n)' = Registered(n) BY <3>1, <3>3 DEF Registered
      <4> QED BY <2>1, <3>1, <3>3, <4>1
    <3> QED BY <3>2, <3>3
  <2>5. ASSUME NEW m \in Nodes, Crash(m)
        PROVE  gauge'[n] = Cardinality(Registered(n)')
    <3>1. CASE m = n
      <4>1. Registered(n)' = {} BY <2>5, <3>1 DEF Crash, Registered
      <4>2. gauge'[n] = 0 BY <2>5, <3>1 DEF Crash
      <4> QED BY <4>1, <4>2, FS_EmptySet
    <3>2. CASE m # n
      <4>1. Registered(n)' = Registered(n) BY <2>5, <3>2 DEF Crash, Registered
      <4> QED BY <2>1, <2>5, <3>2, <4>1 DEF Crash
    <3> QED BY <3>1, <3>2
  <2>6. ASSUME NEW c \in Conns, Outside(c) PROVE UNCHANGED <<localSessions, gauge>>
    BY <2>6, LeavesRegistryAlone
  <2>7. ASSUME NEW c \in Conns,
               \/ AddPeer(c) \/ JoinFails(c) \/ RemovePeer(c) \/ CloseBegin(c) \/ CloseLock(c)
               \/ CloseLockFails(c) \/ CancelLease(c) \/ CloseDeleteFails(c) \/ CloseUnlock(c)
        PROVE  UNCHANGED <<localSessions, gauge>>
    BY <2>7 DEF AddPeer, JoinFails, RemovePeer, CloseBegin, CloseLock, CloseLockFails, CancelLease,
                CloseDeleteFails, CloseUnlock
  <2>8. ASSUME NEW s \in Sids, LockExpires(s) PROVE UNCHANGED <<localSessions, gauge>>
    BY <2>8 DEF LockExpires
  <2>9. CASE UNCHANGED vars
    BY <2>2, <2>9 DEF vars
  <2>10. ASSUME NEW c \in Conns, GetSession(c) \/ GetSessionAgain(c) PROVE EnsureSession(c)
    BY <2>10 DEF GetSession, GetSessionAgain
  <2> QED BY <2>2, <2>3, <2>4, <2>5, <2>6, <2>7, <2>8, <2>9, <2>10
          DEF Next, Visit, Outside, OnSessionClosed
<1> QED BY <1>1, <1>2, TypeCorrect, RegistryCorrect, PTL DEF Spec

-------------------------------------------------------------------------------
\* The locks

\* A step of c moves no other goroutine, and enters a critical section only by
\* taking its lock.
LEMMA LockHeldStep ==
  ASSUME "lockLoss" \notin Faults, TypeOK, LockHeld, [Next]_vars
  PROVE  LockHeld'
<1> USE DEF TypeOK, LockHeld, Holding, Creating, At, Goto, Return, RequestFails
<1> USE DEF connVars, etcdVars, nodeVars, sessVars
<1>1. ASSUME NEW c \in Conns, Lock(c) \/ CloseLock(c) PROVE LockHeld'
  <2>1. /\ lock[Sid[c]] = None
        /\ lock' = [lock EXCEPT ![Sid[c]] = c]
        /\ \A d \in Conns : d # c => pc'[d] = pc[d]
    BY <1>1 DEF Lock, CloseLock, TakeLock
  <2> QED BY <2>1
<1>2. ASSUME NEW c \in Conns, Unlock(c) \/ CloseUnlock(c) PROVE LockHeld'
  <2>1. \A d \in Conns : pc'[d] \in Holding => d # c /\ pc'[d] = pc[d]
    BY <1>2 DEF Unlock, CloseUnlock
  <2>2. \A d \in Conns : d # c /\ lock[Sid[d]] = d => lock'[Sid[d]] = d
    BY <1>2 DEF Unlock, CloseUnlock, ReleaseLock
  <2> QED BY <2>1, <2>2
<1>3. ASSUME NEW c \in Conns,
             \/ Call(c) \/ Get(c) \/ Grant(c) \/ GetFails(c) \/ KeepAlive(c)
             \/ RegisterLease(c) \/ Put(c) \/ PutFails(c)
      PROVE  LockHeld'
  <2>1. /\ lock' = lock
        /\ \A d \in Conns : pc'[d] \in Holding => pc[d] \in Holding
    <3>1. CASE Call(c) BY <3>1 DEF Call
    <3>2. CASE Get(c) BY <3>2 DEF Get
    <3>3. CASE Grant(c) \/ GetFails(c) BY <3>3 DEF Grant, GetFails
    <3>4. CASE KeepAlive(c) \/ RegisterLease(c) BY <3>4 DEF KeepAlive, RegisterLease
    <3>5. CASE Put(c) \/ PutFails(c) BY <3>5 DEF Put, PutFails
    <3> QED BY <1>3, <3>1, <3>2, <3>3, <3>4, <3>5
  <2> QED BY <2>1
<1>4. ASSUME NEW c \in Conns,
             \/ Finish(c) \/ GetSession(c) \/ AddPeer(c) \/ JoinFails(c) \/ Handle(c)
             \/ GetSessionAgain(c) \/ RemovePeer(c) \/ CloseBegin(c)
             \/ CancelLease(c) \/ CloseDelete(c) \/ CloseDeleteFails(c) \/ Deadline(c)
             \/ LeaseExpires(c)
      PROVE  LockHeld'
  <2>1. /\ lock' = lock
        /\ \A d \in Conns : pc'[d] \in Holding => pc[d] \in Holding
    <3>1. CASE Finish(c) \/ GetSession(c) \/ AddPeer(c)
      BY <3>1 DEF Finish, GetSession, AddPeer
    <3>0. CASE JoinFails(c) \/ Handle(c) \/ GetSessionAgain(c)
      BY <3>0 DEF JoinFails, Handle, GetSessionAgain
    <3>2. CASE RemovePeer(c) BY <3>2 DEF RemovePeer
    <3>3. CASE CloseBegin(c) BY <3>3 DEF CloseBegin
    <3>4. CASE CancelLease(c) BY <3>4 DEF CancelLease
    <3>5. CASE CloseDelete(c) \/ CloseDeleteFails(c) BY <3>5 DEF CloseDelete, CloseDeleteFails
    <3>6. CASE Deadline(c) \/ LeaseExpires(c) BY <3>6 DEF Deadline, LeaseExpires
    <3> QED BY <1>4, <3>0, <3>1, <3>2, <3>3, <3>4, <3>5, <3>6
  <2> QED BY <2>1
<1>5. ASSUME NEW s \in Sids, LockExpires(s) PROVE LockHeld'
  BY <1>5 DEF LockExpires
<1>6. ASSUME NEW n \in Nodes, Crash(n) PROVE LockHeld'
  BY <1>6 DEF Crash
<1>7. ASSUME NEW c \in Conns, LockFails(c) \/ CloseLockFails(c) PROVE LockHeld'
  <2>1. \A d \in Conns : pc'[d] \in Holding => pc'[d] = pc[d]
    BY <1>7 DEF LockFails, CloseLockFails
  <2>2. \A s \in Sids : lock[s] # None => lock'[s] = lock[s]
    BY <1>7 DEF LockFails, CloseLockFails, LosesLock
  <2> QED BY <2>1, <2>2
<1>8. CASE UNCHANGED vars
  BY <1>8 DEF vars
<1> QED BY <1>1, <1>2, <1>3, <1>4, <1>5, <1>6, <1>7, <1>8
        DEF Next, GetOrCreate, Visit, OnSessionClosed

\* A goroutine between mu.Lock and mu.Unlock holds the etcd mutex, unless a mutex
\* may be lost under its holder.
LEMMA LockHeldAlways ==
  ASSUME "lockLoss" \notin Faults PROVE Spec => []LockHeld
<1>1. Init => LockHeld
  BY DEF Init, LockHeld, Holding, Creating
<1>2. TypeOK /\ LockHeld /\ [Next]_vars => LockHeld'
  BY LockHeldStep
<1> QED BY <1>1, <1>2, TypeCorrect, PTL DEF Spec

(***************************************************************************)
(* As long as no mutex is lost under its holder, at most one goroutine of  *)
(* the whole cluster is inside the critical section of a session, with any *)
(* failed request, missed deadline, unreleased mutex and crash.            *)
(***************************************************************************)
THEOREM MutualExclusion ==
  ASSUME "lockLoss" \notin Faults PROVE Spec => []OneInCriticalSection
<1>1. LockHeld => OneInCriticalSection
  BY DEF LockHeld, OneInCriticalSection
<1> QED BY <1>1, LockHeldAlways, PTL

\* A goroutine between e.mu.Lock and e.mu.Unlock holds e.mu of its node.
LEMMA EmuHeldAlways == Spec => []EmuHeld
<1> USE DEF EmuHeld, ClosingEmu
<1>1. Init => EmuHeld
  BY DEF Init
<1>2. TypeOK /\ EmuHeld /\ [Next]_vars => EmuHeld'
  <2> SUFFICES ASSUME TypeOK, EmuHeld, [Next]_vars PROVE EmuHeld'
    OBVIOUS
  <2> USE DEF TypeOK, At, Goto, Return, connVars, etcdVars, nodeVars, sessVars
  <2> DEFINE Has == {"put", "closeUnlock"} \cup ClosingEmu
  <2>1. ASSUME NEW c \in Conns, RegisterLease(c) \/ CloseBegin(c) PROVE EmuHeld'
    <3>1. /\ emu[Home[c]] = None
          /\ emu' = [emu EXCEPT ![Home[c]] = c]
          /\ \A d \in Conns : d # c => pc'[d] = pc[d]
      BY <2>1 DEF RegisterLease, CloseBegin, TakeEmu
    <3> QED BY <3>1
  <2>2. ASSUME NEW c \in Conns, Put(c) \/ PutFails(c) \/ CloseLockFails(c) \/ CloseUnlock(c)
        PROVE  EmuHeld'
    <3>1. /\ pc[c] \in Has
          /\ emu' = [emu EXCEPT ![Home[c]] = None]
          /\ \A d \in Conns : pc'[d] \in Has => d # c /\ pc'[d] = pc[d]
      BY <2>2 DEF Put, PutFails, CloseLockFails, CloseUnlock, ReleaseEmu
    <3> QED BY <3>1
  <2>3. ASSUME NEW c \in Conns,
               \/ Call(c) \/ Lock(c) \/ LockFails(c) \/ Get(c) \/ Grant(c) \/ GetFails(c)
               \/ KeepAlive(c) \/ Unlock(c)
        PROVE  EmuHeld'
    <3>1. /\ emu' = emu
          /\ \A d \in Conns : pc'[d] \in Has => pc'[d] = pc[d]
      <4>1. CASE Call(c) \/ Lock(c) \/ LockFails(c) BY <4>1 DEF Call, Lock, LockFails
      <4>2. CASE Get(c) BY <4>2 DEF Get
      <4>3. CASE Grant(c) \/ GetFails(c) BY <4>3 DEF Grant, GetFails
      <4>4. CASE KeepAlive(c) \/ Unlock(c) BY <4>4 DEF KeepAlive, Unlock
      <4> QED BY <2>3, <4>1, <4>2, <4>3, <4>4
    <3> QED BY <3>1
  <2>4. ASSUME NEW c \in Conns,
               \/ Finish(c) \/ GetSession(c) \/ AddPeer(c) \/ JoinFails(c) \/ Handle(c)
               \/ GetSessionAgain(c) \/ RemovePeer(c) \/ Deadline(c) \/ LeaseExpires(c)
        PROVE  EmuHeld'
    <3>1. /\ emu' = emu
          /\ \A d \in Conns : pc'[d] \in Has => pc'[d] = pc[d]
      <4>1. CASE Finish(c) \/ GetSession(c) \/ AddPeer(c)
        BY <4>1 DEF Finish, GetSession, AddPeer
      <4>0. CASE JoinFails(c) \/ Handle(c) \/ GetSessionAgain(c)
        BY <4>0 DEF JoinFails, Handle, GetSessionAgain
      <4>2. CASE RemovePeer(c) BY <4>2 DEF RemovePeer
      <4>3. CASE Deadline(c) \/ LeaseExpires(c) BY <4>3 DEF Deadline, LeaseExpires
      <4> QED BY <2>4, <4>0, <4>1, <4>2, <4>3
    <3> QED BY <3>1
  <2>5. ASSUME NEW c \in Conns,
               CloseLock(c) \/ CancelLease(c) \/ CloseDelete(c) \/ CloseDeleteFails(c)
        PROVE  EmuHeld'
    <3>1. emu' = emu /\ pc[c] \in Has /\ \A d \in Conns : d # c => pc'[d] = pc[d]
      <4>1. CASE CloseLock(c) BY <4>1 DEF CloseLock
      <4>2. CASE CancelLease(c) BY <4>2 DEF CancelLease
      <4>3. CASE CloseDelete(c) \/ CloseDeleteFails(c) BY <4>3 DEF CloseDelete, CloseDeleteFails
      <4> QED BY <2>5, <4>1, <4>2, <4>3
    <3> QED BY <3>1
  <2>6. ASSUME NEW s \in Sids, LockExpires(s) PROVE EmuHeld'
    BY <2>6 DEF LockExpires
  <2>7. ASSUME NEW n \in Nodes, Crash(n) PROVE EmuHeld'
    BY <2>7 DEF Crash, On
  <2>8. CASE UNCHANGED vars
    BY <2>8 DEF vars
  <2> QED BY <2>1, <2>2, <2>3, <2>4, <2>5, <2>6, <2>7, <2>8
          DEF Next, GetOrCreate, Visit, OnSessionClosed
<1> QED BY <1>1, <1>2, TypeCorrect, PTL DEF Spec

-------------------------------------------------------------------------------
\* The session keys

\* What a goroutine that is about to put its key relies on.
LEMMA KeyStep ==
  ASSUME "lockLoss" \notin Faults, TypeOK, LockHeld, EmuHeld, KeyInv, [Next]_vars
  PROVE  KeyInv'
<1> USE DEF TypeOK, Creating, At, Goto, Return, connVars, etcdVars, nodeVars, sessVars
<1> DEFINE Frame == /\ UNCHANGED <<kv, lease, sessionLeases>>
                    /\ \A d \in Conns : pc'[d] \in Creating => pc'[d] = pc[d]
<1>1. ASSUME Frame PROVE KeyInv'
  <2>1. KeyOfItsSession' BY <1>1 DEF KeyInv, KeyOfItsSession
  <2>2. NoKeyWhileCreating' BY <1>1 DEF KeyInv, NoKeyWhileCreating
  <2>3. RegisteredBeforePut' BY <1>1 DEF KeyInv, RegisteredBeforePut
  <2>4. KeyHasKeeper' BY <1>1 DEF KeyInv, KeyHasKeeper
  <2> QED BY <2>1, <2>2, <2>3, <2>4 DEF KeyInv
<1>2. ASSUME NEW c \in Conns,
             Call(c) \/ Lock(c) \/ LockFails(c) \/ GetFails(c) \/ Unlock(c)
      PROVE  KeyInv'
  <2>1. Frame BY <1>2 DEF Call, Lock, LockFails, GetFails, Unlock
  <2> QED BY <1>1, <2>1
<1>3. ASSUME NEW c \in Conns, Get(c) PROVE KeyInv'
  <2>1. CASE kv[Sid[c]] # None
    <3>1. Frame BY <1>3, <2>1 DEF Get
    <3> QED BY <1>1, <3>1
  <2>2. CASE kv[Sid[c]] = None
    <3>1. UNCHANGED <<kv, lease, sessionLeases>> /\ pc' = [pc EXCEPT ![c] = "grant"]
      BY <1>3, <2>2 DEF Get
    <3>2. KeyOfItsSession' BY <3>1 DEF KeyInv, KeyOfItsSession
    <3>3. NoKeyWhileCreating' BY <3>1, <2>2 DEF KeyInv, NoKeyWhileCreating
    <3>4. RegisteredBeforePut' BY <3>1 DEF KeyInv, RegisteredBeforePut
    <3>5. KeyHasKeeper' BY <3>1 DEF KeyInv, KeyHasKeeper
    <3> QED BY <3>2, <3>3, <3>4, <3>5 DEF KeyInv
  <2> QED BY <2>1, <2>2
<1>4. ASSUME NEW c \in Conns, Grant(c) \/ KeepAlive(c) PROVE KeyInv'
  <2>1. /\ UNCHANGED <<kv, sessionLeases>>
        /\ pc[c] \in Creating
        /\ \A d \in Conns : d # c => pc'[d] = pc[d] /\ lease'[d] = lease[d]
        /\ pc'[c] # "put"
    <3>1. CASE Grant(c) BY <3>1 DEF Grant
    <3>2. CASE KeepAlive(c) BY <3>2 DEF KeepAlive
    <3> QED BY <1>4, <3>1, <3>2
  <2>2. KeyOfItsSession' BY <2>1 DEF KeyInv, KeyOfItsSession
  <2>3. NoKeyWhileCreating' BY <2>1 DEF KeyInv, NoKeyWhileCreating
  <2>4. RegisteredBeforePut' BY <2>1 DEF KeyInv, RegisteredBeforePut
  <2>5. KeyHasKeeper'
    <3>1. kv[Sid[c]] = None BY <2>1 DEF KeyInv, NoKeyWhileCreating
    <3>2. ASSUME NEW s \in Sids PROVE kv[s] # c
      BY <3>1 DEF KeyInv, KeyOfItsSession
    <3> QED BY <2>1, <3>2 DEF KeyInv, KeyHasKeeper
  <2> QED BY <2>2, <2>3, <2>4, <2>5 DEF KeyInv
<1>5. ASSUME NEW c \in Conns, RegisterLease(c) PROVE KeyInv'
  <2>1. /\ UNCHANGED <<kv, lease>>
        /\ pc[c] = "emuWait" /\ emu[Home[c]] = None
        /\ pc' = [pc EXCEPT ![c] = "put"]
        /\ sessionLeases' = [sessionLeases EXCEPT ![Home[c]][Sid[c]] = c]
    BY <1>5 DEF RegisterLease, TakeEmu
  <2>2. kv[Sid[c]] = None BY <2>1 DEF KeyInv, NoKeyWhileCreating
  <2>3. KeyOfItsSession' BY <2>1 DEF KeyInv, KeyOfItsSession
  <2>4. NoKeyWhileCreating' BY <2>1 DEF KeyInv, NoKeyWhileCreating
  <2>5. RegisteredBeforePut' BY <2>1 DEF KeyInv, RegisteredBeforePut, EmuHeld
  <2>6. KeyHasKeeper' BY <2>1, <2>2 DEF KeyInv, KeyHasKeeper
  <2> QED BY <2>3, <2>4, <2>5, <2>6 DEF KeyInv
<1>6. ASSUME NEW c \in Conns, Put(c) \/ PutFails(c) PROVE KeyInv'
  <2>1. /\ UNCHANGED <<lease, sessionLeases>>
        /\ pc[c] = "put" /\ pc' = [pc EXCEPT ![c] = "unlock"]
        /\ kv' = kv \/ kv' = [kv EXCEPT ![Sid[c]] = c]
    <3>1. CASE Put(c) BY <3>1 DEF Put
    <3>2. CASE PutFails(c) BY <3>2 DEF PutFails
    <3> QED BY <1>6, <3>1, <3>2
  <2>2. \A d \in Conns : d # c /\ pc[d] \in Creating => Sid[d] # Sid[c]
    BY <2>1 DEF LockHeld, Holding
  <2>3. CASE kv' = kv
    <3>1. Frame BY <2>1, <2>3
    <3> QED BY <1>1, <3>1
  <2>4. CASE kv' = [kv EXCEPT ![Sid[c]] = c]
    <3>1. KeyOfItsSession' BY <2>4 DEF KeyInv, KeyOfItsSession
    <3>2. NoKeyWhileCreating' BY <2>1, <2>2, <2>4 DEF KeyInv, NoKeyWhileCreating
    <3>3. RegisteredBeforePut' BY <2>1 DEF KeyInv, RegisteredBeforePut
    <3>4. KeyHasKeeper' BY <2>1, <2>4 DEF KeyInv, KeyHasKeeper, RegisteredBeforePut
    <3> QED BY <3>1, <3>2, <3>3, <3>4 DEF KeyInv
  <2> QED BY <2>1, <2>3, <2>4
<1>7. ASSUME NEW c \in Conns,
             \/ Finish(c) \/ GetSession(c) \/ AddPeer(c) \/ JoinFails(c) \/ Handle(c)
             \/ GetSessionAgain(c) \/ RemovePeer(c) \/ CloseBegin(c)
             \/ CloseLock(c) \/ CloseLockFails(c) \/ CloseUnlock(c) \/ Deadline(c)
      PROVE  KeyInv'
  <2>1. Frame
    <3>1. CASE Finish(c) \/ GetSession(c) \/ AddPeer(c)
      BY <3>1 DEF Finish, GetSession, AddPeer
    <3>0. CASE JoinFails(c) \/ Handle(c) \/ GetSessionAgain(c)
      BY <3>0 DEF JoinFails, Handle, GetSessionAgain
    <3>2. CASE RemovePeer(c) BY <3>2 DEF RemovePeer
    <3>3. CASE CloseBegin(c) \/ CloseLock(c) \/ CloseLockFails(c)
      BY <3>3 DEF CloseBegin, CloseLock, CloseLockFails
    <3>4. CASE CloseUnlock(c) \/ Deadline(c) BY <3>4 DEF CloseUnlock, Deadline
    <3> QED BY <1>7, <3>0, <3>1, <3>2, <3>3, <3>4
  <2> QED BY <1>1, <2>1
<1>8. ASSUME NEW c \in Conns, CancelLease(c) PROVE KeyInv'
  <2> DEFINE l == sessionLeases[Home[c]][Sid[c]]
  <2>1. /\ kv' = kv
        /\ pc[c] = "closeCancel" /\ pc' = [pc EXCEPT ![c] = "closeDelete"]
        /\ sessionLeases' = [sessionLeases EXCEPT ![Home[c]][Sid[c]] = None]
        /\ \A d \in Conns : lease'[d] = "kept" => lease[d] = "kept" /\ d # l
    BY <1>8 DEF CancelLease
  <2>2. \A d \in Conns : pc[d] = "put" => Home[d] # Home[c]
    BY <2>1 DEF EmuHeld, ClosingEmu
  <2>3. KeyOfItsSession' BY <2>1 DEF KeyInv, KeyOfItsSession
  <2>4. NoKeyWhileCreating' BY <2>1 DEF KeyInv, NoKeyWhileCreating
  <2>5. RegisteredBeforePut' BY <2>1, <2>2 DEF KeyInv, RegisteredBeforePut
  <2>6. KeyHasKeeper'
    <3> SUFFICES ASSUME NEW s \in Sids, kv[s] # None, lease'[kv[s]] = "kept"
                 PROVE  sessionLeases'[Home[kv[s]]][s] = kv[s]
      BY <2>1 DEF KeyHasKeeper
    <3>1. kv[s] \in Conns /\ lease[kv[s]] = "kept" /\ kv[s] # l
      BY <2>1
    <3>2. sessionLeases[Home[kv[s]]][s] = kv[s]
      BY <3>1 DEF KeyInv, KeyHasKeeper
    <3> QED BY <2>1, <3>1, <3>2
  <2> QED BY <2>3, <2>4, <2>5, <2>6 DEF KeyInv
<1>9. ASSUME NEW c \in Conns, CloseDelete(c) \/ CloseDeleteFails(c) \/ LeaseExpires(c)
      PROVE  KeyInv'
  <2>1. /\ sessionLeases' = sessionLeases
        /\ \A d \in Conns : pc'[d] \in Creating => pc'[d] = pc[d]
        /\ \A d \in Conns : lease'[d] = "kept" => lease[d] = "kept"
        /\ \A s \in Sids : kv'[s] \in {kv[s], None}
    <3>1. CASE CloseDelete(c) BY <3>1 DEF CloseDelete
    <3>2. CASE CloseDeleteFails(c) BY <3>2 DEF CloseDeleteFails
    <3>3. CASE LeaseExpires(c) BY <3>3 DEF LeaseExpires
    <3> QED BY <1>9, <3>1, <3>2, <3>3
  <2>2. KeyOfItsSession' BY <2>1 DEF KeyInv, KeyOfItsSession
  <2>3. NoKeyWhileCreating' BY <2>1 DEF KeyInv, NoKeyWhileCreating
  <2>4. RegisteredBeforePut' BY <2>1 DEF KeyInv, RegisteredBeforePut
  <2>5. KeyHasKeeper' BY <2>1 DEF KeyInv, KeyHasKeeper
  <2> QED BY <2>2, <2>3, <2>4, <2>5 DEF KeyInv
<1>10. ASSUME NEW s \in Sids, LockExpires(s) PROVE KeyInv'
  <2>1. Frame BY <1>10 DEF LockExpires
  <2> QED BY <1>1, <2>1
<1>11. ASSUME NEW n \in Nodes, Crash(n) PROVE KeyInv'
  <2> USE <1>11 DEF Crash, On
  <2>1. KeyOfItsSession' BY DEF KeyInv, KeyOfItsSession
  <2>2. NoKeyWhileCreating' BY DEF KeyInv, NoKeyWhileCreating
  <2>3. RegisteredBeforePut' BY DEF KeyInv, RegisteredBeforePut
  <2>4. KeyHasKeeper' BY DEF KeyInv, KeyHasKeeper, Live
  <2> QED BY <2>1, <2>2, <2>3, <2>4 DEF KeyInv
<1>12. CASE UNCHANGED vars
  <2>1. Frame BY <1>12 DEF vars
  <2> QED BY <1>1, <2>1
<1> QED BY <1>2, <1>3, <1>4, <1>5, <1>6, <1>7, <1>8, <1>9, <1>10, <1>11, <1>12
        DEF Next, GetOrCreate, Visit, OnSessionClosed

\* The keys and leases of getOrCreateSession are consistent in every state.
LEMMA KeyInvAlways ==
  ASSUME "lockLoss" \notin Faults PROVE Spec => []KeyInv
<1>1. Init => KeyInv
  BY DEF Init, KeyInv, KeyOfItsSession, NoKeyWhileCreating, RegisteredBeforePut, KeyHasKeeper,
         Creating
<1>2. TypeOK /\ LockHeld /\ EmuHeld /\ KeyInv /\ [Next]_vars => KeyInv'
  BY KeyStep
<1> QED BY <1>1, <1>2, TypeCorrect, LockHeldAlways, EmuHeldAlways, PTL DEF Spec

(***************************************************************************)
(* As long as no mutex is lost under its holder, a key that is kept alive  *)
(* can be given up by the node it names.                                   *)
(***************************************************************************)
THEOREM KeyKept ==
  ASSUME "lockLoss" \notin Faults PROVE Spec => []KeyHasKeeper
<1>1. KeyInv => KeyHasKeeper
  BY DEF KeyInv
<1> QED BY <1>1, KeyInvAlways, PTL

-------------------------------------------------------------------------------
\* The refinement of SessionDirectory

\* getOrCreateSession sets its result at most once.
LEMMA NotAnsweredYetAlways == Spec => []NotAnsweredYet
<1> USE DEF NotAnsweredYet, Creating
<1>1. Init => NotAnsweredYet
  BY DEF Init
<1>2. TypeOK /\ NotAnsweredYet /\ [Next]_vars => NotAnsweredYet'
  <2> SUFFICES ASSUME TypeOK, NotAnsweredYet, [Next]_vars PROVE NotAnsweredYet'
    OBVIOUS
  <2> USE DEF TypeOK, At, Goto, Return, connVars, etcdVars, nodeVars, sessVars
  <2> DEFINE Before == {"idle", "lockWait", "get"} \cup Creating
             Frame == \A d \in Conns : pc'[d] \in Before => pc[d] \in Before /\ ret'[d] = ret[d]
  <2>1. ASSUME NEW c \in Conns, GetOrCreate(c) PROVE Frame
    <3>1. CASE Call(c) \/ Lock(c) \/ LockFails(c) BY <3>1 DEF Call, Lock, LockFails
    <3>2. CASE Get(c) BY <3>2 DEF Get
    <3>3. CASE Grant(c) \/ GetFails(c) BY <3>3 DEF Grant, GetFails
    <3>4. CASE KeepAlive(c) \/ RegisterLease(c) \/ Unlock(c)
      BY <3>4 DEF KeepAlive, RegisterLease, Unlock
    <3>5. CASE Put(c) \/ PutFails(c) BY <3>5 DEF Put, PutFails
    <3> QED BY <2>1, <3>1, <3>2, <3>3, <3>4, <3>5 DEF GetOrCreate
  <2>2. ASSUME NEW c \in Conns, Visit(c) PROVE Frame
    <3>1. CASE Finish(c) \/ GetSession(c) \/ AddPeer(c)
      BY <3>1 DEF Finish, GetSession, AddPeer
    <3>0. CASE JoinFails(c) \/ Handle(c) \/ GetSessionAgain(c)
      BY <3>0 DEF JoinFails, Handle, GetSessionAgain
    <3>2. CASE RemovePeer(c) BY <3>2 DEF RemovePeer
    <3> QED BY <2>2, <3>0, <3>1, <3>2 DEF Visit
  <2>3. ASSUME NEW c \in Conns, OnSessionClosed(c) PROVE Frame
    <3>1. CASE CloseBegin(c) \/ CloseLock(c) \/ CloseLockFails(c)
      BY <3>1 DEF CloseBegin, CloseLock, CloseLockFails
    <3>2. CASE CancelLease(c) BY <3>2 DEF CancelLease
    <3>3. CASE CloseDelete(c) \/ CloseDeleteFails(c) \/ CloseUnlock(c)
      BY <3>3 DEF CloseDelete, CloseDeleteFails, CloseUnlock
    <3> QED BY <2>3, <3>1, <3>2, <3>3 DEF OnSessionClosed
  <2>4. ASSUME NEW c \in Conns, Deadline(c) \/ LeaseExpires(c) PROVE Frame
    BY <2>4 DEF Deadline, LeaseExpires
  <2>5. ASSUME NEW s \in Sids, LockExpires(s) PROVE Frame
    BY <2>5 DEF LockExpires
  <2>6. ASSUME NEW n \in Nodes, Crash(n) PROVE Frame
    BY <2>6 DEF Crash
  <2>7. ASSUME UNCHANGED vars PROVE Frame
    BY <2>7 DEF vars
  <2>8. Frame
    BY <2>1, <2>2, <2>3, <2>4, <2>5, <2>6, <2>7 DEF Next
  <2> QED BY <2>8
<1> QED BY <1>1, <1>2, TypeCorrect, PTL DEF Spec

\* Only three kinds of step touch a key or an answer.
LEMMA RefinementStep ==
  ASSUME TypeOK, NotAnsweredYet, KeyOfItsSession, NoKeyWhileCreating, [Next]_vars
  PROVE  [Directory!Next]_(Directory!vars)
<1> USE DEF TypeOK, Creating, At, Goto, Return, connVars, etcdVars, nodeVars, sessVars
<1> DEFINE Quiet == UNCHANGED <<kv, ret>>
           Answered(c, a) == ret[c] = None /\ ret' = [ret EXCEPT ![c] = a]
<1>1. ASSUME Quiet PROVE [Directory!Next]_(Directory!vars)
  BY <1>1 DEF Directory!vars, Owner
<1>2. ASSUME NEW c \in Conns, Answered(c, "error"), kv' = kv
      PROVE  Directory!Next
  BY <1>2 DEF Directory!Next, Directory!Fail, Directory!Answer, Owner
<1>3. ASSUME NEW s \in Sids, kv[s] # None, kv' = [kv EXCEPT ![s] = None], ret' = ret
      PROVE  Directory!Next
  <2>1. Owner[s] # None
    BY <1>3 DEF Owner
  <2>2. Owner' = [Owner EXCEPT ![s] = None]
    BY <1>3 DEF Owner
  <2> QED BY <1>3, <2>1, <2>2 DEF Directory!Next, Directory!Release
<1>4. ASSUME NEW c \in Conns, Put(c) PROVE Directory!Next
  <2>1. /\ Answered(c, "local")
        /\ kv[Sid[c]] = None /\ kv' = [kv EXCEPT ![Sid[c]] = c]
    BY <1>4 DEF Put, NotAnsweredYet, NoKeyWhileCreating
  <2>2. Owner[Sid[c]] = None BY <2>1 DEF Owner
  <2>3. Owner' = [Owner EXCEPT ![Sid[c]] = Home[c]] BY <2>1 DEF Owner
  <2> QED BY <2>1, <2>2, <2>3 DEF Directory!Next, Directory!Take, Directory!Answer
<1>5. ASSUME NEW c \in Conns, PutFails(c) PROVE Directory!Next
  <2>1. Answered(c, "error") /\ kv[Sid[c]] = None
    BY <1>5 DEF PutFails, NotAnsweredYet, NoKeyWhileCreating
  <2>2. CASE kv' = kv
    BY <1>2, <2>1, <2>2
  <2>3. CASE kv' = [kv EXCEPT ![Sid[c]] = c]
    <3>1. Owner[Sid[c]] = None BY <2>1 DEF Owner
    <3>2. Owner' = [Owner EXCEPT ![Sid[c]] = Home[c]] BY <2>1, <2>3 DEF Owner
    <3> QED BY <2>1, <3>1, <3>2 DEF Directory!Next, Directory!Fail, Directory!Answer
  <2> QED BY <1>5, <2>2, <2>3 DEF PutFails
<1>6. ASSUME NEW c \in Conns, Get(c) PROVE [Directory!Next]_(Directory!vars)
  <2>1. CASE kv[Sid[c]] # None
    <3> DEFINE l == kv[Sid[c]]
    <3>1. Answered(c, IF Home[l] = Home[c] THEN "local" ELSE "redirect") /\ kv' = kv
      BY <1>6, <2>1 DEF Get, NotAnsweredYet
    <3>2. l \in Conns /\ Owner[Sid[c]] = Home[l] /\ Owner' = Owner
      BY <2>1, <3>1 DEF Owner
    <3>3. Owner[Sid[c]] # None
      BY <3>2
    <3> QED BY <3>1, <3>2, <3>3 DEF Directory!Next, Directory!Find, Directory!Answer
  <2>2. CASE kv[Sid[c]] = None
    <3>1. Quiet BY <1>6, <2>2 DEF Get
    <3> QED BY <1>1, <3>1
  <2> QED BY <2>1, <2>2
<1>7. ASSUME NEW c \in Conns, Call(c) \/ LockFails(c) \/ GetFails(c)
      PROVE  [Directory!Next]_(Directory!vars)
  <2>1. Quiet \/ (Answered(c, "error") /\ kv' = kv)
    BY <1>7 DEF Call, LockFails, GetFails, NotAnsweredYet
  <2> QED BY <1>1, <1>2, <2>1
<1>8. ASSUME NEW c \in Conns,
             Lock(c) \/ Grant(c) \/ KeepAlive(c) \/ RegisterLease(c) \/ Unlock(c)
      PROVE  [Directory!Next]_(Directory!vars)
  <2>1. Quiet BY <1>8 DEF Lock, Grant, KeepAlive, RegisterLease, Unlock
  <2> QED BY <1>1, <2>1
<1>9. ASSUME NEW c \in Conns, Visit(c) PROVE [Directory!Next]_(Directory!vars)
  <2>1. Quiet BY <1>9 DEF Visit, Finish, GetSession, AddPeer, JoinFails, RemovePeer, Handle, GetSessionAgain
  <2> QED BY <1>1, <2>1
<1>10. ASSUME NEW c \in Conns,
              \/ CloseBegin(c) \/ CloseLock(c) \/ CloseLockFails(c) \/ CancelLease(c)
              \/ CloseUnlock(c) \/ Deadline(c)
       PROVE  [Directory!Next]_(Directory!vars)
  <2>1. Quiet
    BY <1>10 DEF CloseBegin, CloseLock, CloseLockFails, CancelLease, CloseUnlock, Deadline
  <2> QED BY <1>1, <2>1
<1>11. ASSUME NEW c \in Conns, CloseDelete(c) \/ CloseDeleteFails(c) \/ LeaseExpires(c)
       PROVE  [Directory!Next]_(Directory!vars)
  <2>1. ret' = ret /\ (kv' = kv \/ kv' = [kv EXCEPT ![Sid[c]] = None])
    <3>1. CASE CloseDelete(c) BY <3>1 DEF CloseDelete
    <3>2. CASE CloseDeleteFails(c) BY <3>2 DEF CloseDeleteFails
    <3>3. CASE LeaseExpires(c)
      <4>1. \A s \in Sids : kv[s] = c => s = Sid[c] BY DEF KeyOfItsSession
      <4>2. CASE kv[Sid[c]] = c
        BY <3>3, <4>1, <4>2 DEF LeaseExpires
      <4>3. CASE kv[Sid[c]] # c
        BY <3>3, <4>1, <4>3 DEF LeaseExpires
      <4> QED BY <4>2, <4>3
    <3> QED BY <1>11, <3>1, <3>2, <3>3
  <2>2. CASE kv' = kv
    BY <1>1, <2>1, <2>2
  <2>3. CASE kv' # kv
    <3>1. kv' = [kv EXCEPT ![Sid[c]] = None] BY <2>1, <2>3
    <3>2. kv[Sid[c]] # None BY <2>3, <3>1
    <3> QED BY <1>3, <2>1, <3>1, <3>2
  <2> QED BY <2>2, <2>3
<1>12. ASSUME NEW s \in Sids, LockExpires(s) PROVE [Directory!Next]_(Directory!vars)
  <2>1. Quiet BY <1>12 DEF LockExpires
  <2> QED BY <1>1, <2>1
<1>13. ASSUME NEW n \in Nodes, Crash(n) PROVE [Directory!Next]_(Directory!vars)
  <2>1. Quiet BY <1>13 DEF Crash
  <2> QED BY <1>1, <2>1
<1>14. CASE UNCHANGED vars
  <2>1. Quiet BY <1>14 DEF vars
  <2> QED BY <1>1, <2>1
<1> QED BY <1>4, <1>5, <1>6, <1>7, <1>8, <1>9, <1>10, <1>11, <1>12, <1>13, <1>14
        DEF Next, GetOrCreate, OnSessionClosed

(***************************************************************************)
(* As long as no mutex is lost under its holder, getOrCreateSession is a   *)
(* linearizable get-or-create on the directory of session owners, for any  *)
(* number of nodes and with lost leases, failed or late requests (executed *)
(* or not) and crashes.                                                    *)
(***************************************************************************)
THEOREM Linearizable ==
  ASSUME "lockLoss" \notin Faults PROVE Spec => ImplementsDirectory
<1>1. Init => Directory!Init
  BY DEF Init, Directory!Init, Owner
<1>2. /\ TypeOK /\ NotAnsweredYet /\ KeyInv /\ [Next]_vars
      => [Directory!Next]_(Directory!vars)
  BY RefinementStep DEF KeyInv
<1> QED
  BY <1>1, <1>2, TypeCorrect, NotAnsweredYetAlways, KeyInvAlways, PTL
  DEF Spec, ImplementsDirectory, Directory!Spec

-------------------------------------------------------------------------------
\* Where a goroutine has not called ensureSession yet, or never will.
Early == {"idle", "lockWait", "get"} \cup Creating
           \cup {"unlock", "returned", "abandoned", "looking", "crashed"}

\* A goroutine that has not called ensureSession has created no Session, and a
\* dead process has none.
NotCreatedYet ==
  \A c \in Conns :
    pc[c] \in Early => session[c] = "none"

\* A goroutine passes ensureSession once: no step leads back before it.
LEMMA NotCreatedStep ==
  ASSUME TypeOK, NotCreatedYet, SessIsOfSameId, [Next]_vars
  PROVE  NotCreatedYet'
<1> USE DEF TypeOK, NotCreatedYet, Early, Creating, At, Goto, Return, connVars, etcdVars,
            nodeVars, sessVars
<1>1. ASSUME UNCHANGED session, \A d \in Conns : pc'[d] \in Early => pc[d] \in Early
      PROVE  NotCreatedYet'
  BY <1>1
<1>2. ASSUME NEW c \in Conns, Outside(c) PROVE NotCreatedYet'
  <2>1. UNCHANGED session BY <1>2, LeavesRegistryAlone
  <2>2. \A d \in Conns : pc'[d] \in Early => pc[d] \in Early
    <3>1. CASE Call(c) BY <3>1 DEF Call
    <3>2. CASE Lock(c) BY <3>2 DEF Lock
    <3>3. CASE LockFails(c) BY <3>3 DEF LockFails
    <3>4. CASE Get(c) BY <3>4 DEF Get
    <3>5. CASE Grant(c) BY <3>5 DEF Grant
    <3>6. CASE GetFails(c) BY <3>6 DEF GetFails
    <3>7. CASE KeepAlive(c) BY <3>7 DEF KeepAlive
    <3>8. CASE RegisterLease(c) BY <3>8 DEF RegisterLease
    <3>9. CASE Put(c) BY <3>9 DEF Put
    <3>10. CASE PutFails(c) BY <3>10 DEF PutFails
    <3>11. CASE Unlock(c) BY <3>11 DEF Unlock
    <3>12. CASE Finish(c) BY <3>12 DEF Finish
    <3>13. CASE Deadline(c) BY <3>13 DEF Deadline
    <3>14. CASE LeaseExpires(c) BY <3>14 DEF LeaseExpires
    <3>15. CASE Handle(c) BY <3>15 DEF Handle
    <3> QED BY <1>2, <3>1, <3>2, <3>3, <3>4, <3>5, <3>6, <3>7, <3>8, <3>9, <3>10, <3>11, <3>12,
               <3>13, <3>14, <3>15 DEF Outside, GetOrCreate
  <2> QED BY <1>1, <2>1, <2>2
<1>3. ASSUME NEW c \in Conns, GetSession(c) \/ GetSessionAgain(c) PROVE NotCreatedYet'
  <2>1. /\ \E l \in {"addPeer", "done"} : pc' = [pc EXCEPT ![c] = l]
        /\ session' = session \/ session' = [session EXCEPT ![c] = "open"]
    BY <1>3 DEF GetSession, GetSessionAgain, EnsureSession
  <2> QED BY <2>1
<1>4. ASSUME NEW c \in Conns, AddPeer(c) \/ JoinFails(c) PROVE NotCreatedYet'
  BY <1>1, <1>4 DEF AddPeer, JoinFails
<1>5. ASSUME NEW c \in Conns, RemovePeer(c) PROVE NotCreatedYet'
  <2>1. /\ \/ session' = session
           \/ session[sess[c]] = "open" /\ session' = [session EXCEPT ![sess[c]] = "closed"]
        /\ \A d \in Conns : pc'[d] \in Early => pc[d] \in Early
    BY <1>5 DEF RemovePeer
  <2>2. ASSUME NEW d \in Conns, pc'[d] \in Early PROVE session'[d] = "none"
    <3>1. session[d] = "none" BY <2>1, <2>2
    <3> HIDE DEF Early
    <3>2. session'[d] = session[d] BY <2>1, <3>1
    <3> QED BY <3>1, <3>2
  <2> QED BY <2>2
<1>6. ASSUME NEW c \in Conns, OnSessionClosed(c) PROVE NotCreatedYet'
  <2>1. /\ session' = session
        /\ \A d \in Conns : pc'[d] \in Early => pc[d] \in Early
    BY <1>6 DEF OnSessionClosed, CloseBegin, CloseLock, CloseLockFails, CancelLease, CloseDelete,
                CloseDeleteFails, CloseUnlock
  <2> QED BY <1>1, <2>1
<1>7. ASSUME NEW s \in Sids, LockExpires(s) PROVE NotCreatedYet'
  BY <1>1, <1>7 DEF LockExpires
<1>8. ASSUME NEW n \in Nodes, Crash(n) PROVE NotCreatedYet'
  BY <1>8 DEF Crash, On
<1>9. CASE UNCHANGED vars BY <1>1, <1>9 DEF vars
<1> QED BY <1>2, <1>3, <1>4, <1>5, <1>6, <1>7, <1>8, <1>9 DEF Next, Visit, Outside

LEMMA NotCreatedAlways == Spec => []NotCreatedYet
<1>1. Init => NotCreatedYet BY DEF Init, NotCreatedYet
<1>2. TypeOK /\ NotCreatedYet /\ RegistryInv /\ [Next]_vars => NotCreatedYet'
  BY NotCreatedStep DEF RegistryInv
<1> QED BY <1>1, <1>2, TypeCorrect, RegistryCorrect, PTL DEF Spec

-------------------------------------------------------------------------------
\* Nothing is left behind

\* A registered Session was opened; an open one that a join got is still used
\* by some join; and a peer is in the Session its join got.
SessionsAreUsed ==
  /\ \A n \in Nodes, s \in Sids :
       localSessions[n][s] # None => session[localSessions[n][s]] # "none"
  /\ \A o \in Conns :
       session[o] = "open" => NeverJoined(o) \/ \E c \in Conns : sess[c] = o /\ pc[c] \in InSession
  /\ \A o \in Conns : \A d \in peers[o] : pc[d] = "joined" /\ sess[d] = o
  /\ \A d \in Conns : sess[d] # None => session[sess[d]] # "none"

\* A key that some Session has used is one whose Session is still registered on
\* its node, or whose node is dead.
KeyIsOwned ==
  \A s \in Sids :
    kv[s] # None =>
      /\ lease[kv[s]] \in Live
      /\ s \in unserved \/ pc[kv[s]] = "crashed" \/ localSessions[Home[kv[s]]][s] # None

\* getOrCreateSession, a caller's early end and the steps of onSessionClosed
\* before the deletion happen outside of the Sessions.
LEMMA OutsideSessions ==
  ASSUME TypeOK, NEW c \in Conns, Outside(c) \/ (OnSessionClosed(c) /\ ~CloseDelete(c))
  PROVE  /\ UNCHANGED <<sess, localSessions, session, peers>>
         /\ \A d \in Conns : pc[d] \in InSession => pc'[d] = pc[d]
<1> USE DEF TypeOK, At, Goto, Return, InSession, connVars, etcdVars, nodeVars, sessVars
<1>1. CASE Call(c) \/ Lock(c) \/ LockFails(c) BY <1>1 DEF Call, Lock, LockFails
<1>2. CASE Get(c) BY <1>2 DEF Get
<1>3. CASE Grant(c) \/ KeepAlive(c) \/ RegisterLease(c)
  BY <1>3 DEF Grant, KeepAlive, RegisterLease
<1>4. CASE GetFails(c) BY <1>4 DEF GetFails
<1>5. CASE Put(c) BY <1>5 DEF Put
<1>6. CASE PutFails(c) BY <1>6 DEF PutFails
<1>7. CASE Unlock(c) \/ Finish(c) \/ Handle(c) BY <1>7 DEF Unlock, Finish, Handle
<1>8. CASE Deadline(c) \/ LeaseExpires(c) BY <1>8 DEF Deadline, LeaseExpires
<1>9. CASE CloseBegin(c) \/ CloseLock(c) \/ CloseLockFails(c)
  BY <1>9 DEF CloseBegin, CloseLock, CloseLockFails
<1>10. CASE CancelLease(c) \/ CloseDeleteFails(c) \/ CloseUnlock(c)
  BY <1>10 DEF CancelLease, CloseDeleteFails, CloseUnlock
<1> QED BY <1>1, <1>2, <1>3, <1>4, <1>5, <1>6, <1>7, <1>8, <1>9, <1>10
        DEF Outside, GetOrCreate, OnSessionClosed

\* NeverJoined and "some join uses it", for one Session.
Used(o) == NeverJoined(o) \/ \E c \in Conns : sess[c] = o /\ pc[c] \in InSession

LEMMA SessionsFrame ==
  ASSUME TypeOK, SessionsAreUsed, UNCHANGED <<sess, localSessions, session, peers>>,
         \A d \in Conns : pc[d] \in InSession => pc'[d] = pc[d]
  PROVE  SessionsAreUsed'
<1>1. \A n \in Nodes, s \in Sids :
        localSessions'[n][s] # None => session'[localSessions'[n][s]] # "none"
  BY DEF SessionsAreUsed
<1>2. ASSUME NEW o \in Conns, session'[o] = "open" PROVE Used(o)'
  BY <1>2 DEF SessionsAreUsed, Used, NeverJoined
<1>3. \A o \in Conns : \A d \in peers'[o] : pc'[d] = "joined" /\ sess'[d] = o
  <2>1. \A o \in Conns : \A d \in peers[o] : d \in Conns BY DEF TypeOK
  <2> QED BY <2>1 DEF SessionsAreUsed, InSession
<1>4. \A d \in Conns : sess'[d] # None => session'[sess'[d]] # "none"
  BY DEF SessionsAreUsed
<1> QED BY <1>1, <1>2, <1>3, <1>4 DEF SessionsAreUsed, Used

LEMMA SessionsStep ==
  ASSUME TypeOK, RegistryInv, NotCreatedYet, SessionsAreUsed, [Next]_vars
  PROVE  SessionsAreUsed'
<1> USE DEF At, Goto, connVars, etcdVars, nodeVars, sessVars
<1>0. /\ pc \in [Conns -> Labels] /\ sess \in [Conns -> Conns \cup {None}]
      /\ localSessions \in [Nodes -> [Sids -> Conns \cup {None}]]
      /\ session \in [Conns -> {"none", "open", "closed"}] /\ peers \in [Conns -> SUBSET Conns]
  BY DEF TypeOK
<1> DEFINE Opened == \A n \in Nodes, s \in Sids :
                       localSessions[n][s] # None => session[localSessions[n][s]] # "none"
           PeersJoined == \A o \in Conns : \A d \in peers[o] : pc[d] = "joined" /\ sess[d] = o
           GotOpened == \A d \in Conns : sess[d] # None => session[sess[d]] # "none"
<1>q. ASSUME Opened', PeersJoined', GotOpened',
             \A o \in Conns : session'[o] = "open" => Used(o)'
      PROVE  SessionsAreUsed'
  BY <1>q DEF SessionsAreUsed, Used
<1>u. /\ Opened /\ PeersJoined /\ GotOpened
      /\ \A o \in Conns : session[o] = "open" => Used(o)
  BY DEF SessionsAreUsed, Used
<1>1. ASSUME NEW c \in Conns, Outside(c) \/ (OnSessionClosed(c) /\ ~CloseDelete(c))
      PROVE  SessionsAreUsed'
  BY <1>1, OutsideSessions, SessionsFrame
<1>2. ASSUME NEW c \in Conns, GetSession(c) PROVE SessionsAreUsed'
  <2>1. pc[c] = "returned" /\ pc' = [pc EXCEPT ![c] = "addPeer"] /\ UNCHANGED peers
    BY <1>2 DEF GetSession
  <2>2. pc'[c] = "addPeer" /\ \A d \in Conns \ {c} : pc'[d] = pc[d] BY <1>0, <2>1
  <2>3. sess'[c] \in Conns /\ \A d \in Conns \ {c} : sess'[d] = sess[d]
    BY <1>0, <1>2, GetSessionCases
  <2>4. PeersJoined'
    <3>1. \A o \in Conns : \A d \in peers[o] : d \in Conns \ {c} BY <1>0, <1>u, <2>1
    <3> QED BY <1>u, <2>1, <2>2, <2>3, <3>1
  <2>5. ASSUME NEW o \in Conns, Used(o) PROVE Used(o)'
    <3>1. CASE o = sess'[c] BY <2>2, <3>1 DEF Used, InSession
    <3>2. CASE o # sess'[c] /\ NeverJoined(o)
      BY <2>3, <3>2 DEF Used, NeverJoined
    <3>3. CASE \E d \in Conns : sess[d] = o /\ pc[d] \in InSession
      <4>1. PICK d \in Conns : sess[d] = o /\ pc[d] \in InSession BY <3>3
      <4>2. d # c BY <2>1, <4>1 DEF InSession
      <4> QED BY <2>2, <2>3, <4>1, <4>2 DEF Used
    <3> QED BY <2>5, <3>1, <3>2, <3>3 DEF Used
  <2>6. CASE localSessions[Home[c]][Sid[c]] # None
    <3>1. UNCHANGED <<localSessions, session>> BY <1>2, <2>6, GetSessionCases
    <3>2. sess'[c] = localSessions[Home[c]][Sid[c]] BY <1>0, <1>2, <2>6, GetSessionCases
    <3>3. GotOpened' BY <1>u, <2>3, <3>1, <3>2, HomeSid
    <3>4. Opened' BY <1>u, <3>1
    <3>5. \A o \in Conns : session'[o] = "open" => Used(o)' BY <1>u, <2>5, <3>1
    <3> HIDE DEF Opened, PeersJoined, GotOpened
    <3> QED BY <1>q, <2>4, <3>3, <3>4, <3>5
  <2>7. CASE localSessions[Home[c]][Sid[c]] = None
    <3>1. /\ sess' = [sess EXCEPT ![c] = c]
          /\ localSessions' = [localSessions EXCEPT ![Home[c]][Sid[c]] = c]
          /\ session' = [session EXCEPT ![c] = "open"]
      BY <1>2, <2>7, GetSessionCases
    <3>2. Opened' BY <1>0, <1>u, <3>1
    <3>3. GotOpened' BY <1>0, <1>u, <3>1
    <3>4. \A o \in Conns : session'[o] = "open" => Used(o)'
      <4>1. Used(c)' BY <1>0, <2>2, <3>1 DEF Used, InSession
      <4>2. \A o \in Conns : o # c => session'[o] = session[o] BY <1>0, <3>1
      <4> QED BY <1>u, <2>5, <4>1, <4>2
    <3> HIDE DEF Opened, PeersJoined, GotOpened
    <3> QED BY <1>q, <2>4, <3>2, <3>3, <3>4
  <2> QED BY <2>6, <2>7
<1>3. ASSUME NEW c \in Conns, AddPeer(c) PROVE SessionsAreUsed'
  <2>1. /\ pc[c] = "addPeer" /\ pc' = [pc EXCEPT ![c] = "joined"]
        /\ peers' = [peers EXCEPT ![sess[c]] = @ \cup {c}]
        /\ UNCHANGED <<sess, localSessions, session>>
    BY <1>3 DEF AddPeer
  <2>2. \A d \in Conns : pc[d] \in InSession => pc'[d] \in InSession BY <1>0, <2>1 DEF InSession
  <2>3. PeersJoined'
    <3> SUFFICES ASSUME NEW o \in Conns, NEW d \in peers'[o]
                 PROVE  pc'[d] = "joined" /\ sess[d] = o
      BY <2>1
    <3>1. d \in peers[o] \/ (d = c /\ o = sess[c]) BY <1>0, <2>1
    <3>2. CASE d \in peers[o]
      <4>1. d \in Conns /\ pc[d] = "joined" /\ sess[d] = o BY <1>0, <1>u, <3>2
      <4> QED BY <1>0, <2>1, <4>1
    <3>3. CASE d = c /\ o = sess[c] BY <1>0, <2>1, <3>3
    <3> QED BY <3>1, <3>2, <3>3
  <2>4. \A o \in Conns : session'[o] = "open" => Used(o)'
    BY <1>u, <2>1, <2>2 DEF Used, NeverJoined
  <2>5. Opened' /\ GotOpened' BY <1>u, <2>1
  <2> HIDE DEF Opened, PeersJoined, GotOpened
  <2> QED BY <1>q, <2>3, <2>4, <2>5
<1>4. ASSUME NEW c \in Conns, RemovePeer(c) PROVE SessionsAreUsed'
  <2>1. /\ pc[c] \in {"joined", "refused"} /\ peers' = [peers EXCEPT ![sess[c]] = @ \ {c}]
        /\ UNCHANGED <<sess, localSessions>>
        /\ IF peers'[sess[c]] = {} /\ session[sess[c]] = "open"
             THEN session' = [session EXCEPT ![sess[c]] = "closed"]
             ELSE session' = session
    BY <1>4 DEF RemovePeer
  <2>2. \A d \in Conns \ {c} : pc'[d] = pc[d] BY <1>0, <1>4 DEF RemovePeer
  <2>3. sess[c] \in Conns BY <1>0, <2>1 DEF RegistryInv, SessIsOfSameId
  <2>4. PeersJoined'
    <3> SUFFICES ASSUME NEW o \in Conns, NEW d \in peers'[o]
                 PROVE  pc'[d] = "joined" /\ sess[d] = o
      BY <2>1
    <3>1. d \in peers[o] /\ (o = sess[c] => d # c) BY <1>0, <2>1
    <3>2. d \in Conns /\ pc[d] = "joined" /\ sess[d] = o BY <1>0, <1>u, <3>1
    <3> QED BY <2>2, <3>1, <3>2
  <2>5. \A o \in Conns : session'[o] = "open" => Used(o)'
    <3> SUFFICES ASSUME NEW o \in Conns, session'[o] = "open" PROVE Used(o)'
      OBVIOUS
    <3>1. session[o] = "open" BY <1>0, <2>1, <2>3
    <3>2. CASE o = sess[c]
      <4>1. peers'[o] # {} BY <1>0, <2>1, <2>3, <3>1, <3>2
      <4>2. PICK d \in peers'[o] : TRUE BY <4>1
      <4>3. d \in Conns /\ pc'[d] = "joined" /\ sess'[d] = o BY <1>0, <2>1, <2>4, <4>2
      <4> QED BY <4>3 DEF Used, InSession
    <3>3. CASE o # sess[c]
      <4>1. Used(o) BY <1>u, <3>1
      <4> QED BY <2>1, <2>2, <3>3, <4>1 DEF Used, NeverJoined
    <3> QED BY <3>2, <3>3
  <2>6. Opened' /\ GotOpened' BY <1>0, <1>u, <2>1, <2>3
  <2> HIDE DEF Opened, PeersJoined, GotOpened
  <2> QED BY <1>q, <2>4, <2>5, <2>6
<1>5. ASSUME NEW c \in Conns, CloseDelete(c) PROVE SessionsAreUsed'
  <2>1. /\ pc[c] = "closeDelete" /\ pc' = [pc EXCEPT ![c] = "closeUnlock"]
        /\ localSessions' = [localSessions EXCEPT ![Home[c]][Sid[c]] = None]
        /\ UNCHANGED <<sess, session, peers>>
    BY <1>5 DEF CloseDelete
  <2>2. \A d \in Conns : pc[d] \in InSession => pc'[d] = pc[d] BY <1>0, <2>1 DEF InSession
  <2>3. Opened' /\ GotOpened' BY <1>0, <1>u, <2>1
  <2>4. \A o \in Conns : session'[o] = "open" => Used(o)'
    BY <1>u, <2>1, <2>2 DEF Used, NeverJoined
  <2>5. PeersJoined'
    <3>1. \A o \in Conns : \A d \in peers[o] : d \in Conns BY <1>0
    <3> QED BY <1>u, <2>1, <2>2, <3>1 DEF InSession
  <2> HIDE DEF Opened, PeersJoined, GotOpened
  <2> QED BY <1>q, <2>3, <2>4, <2>5
<1>6. ASSUME NEW n \in Nodes, Crash(n) PROVE SessionsAreUsed'
  <2>1. /\ \A c \in Conns : Home[c] # n => pc'[c] = pc[c] /\ sess'[c] = sess[c]
        /\ \A c \in Conns : Home[c] = n => sess'[c] = None
        /\ \A c \in Conns : session'[c] = IF Home[c] = n THEN "none" ELSE session[c]
        /\ \A c \in Conns : peers'[c] = IF Home[c] = n THEN {} ELSE peers[c]
        /\ localSessions' = [localSessions EXCEPT ![n] = [s \in Sids |-> None]]
    BY <1>6 DEF Crash, On
  <2>2. Opened'
    <3> SUFFICES ASSUME NEW m \in Nodes, NEW s \in Sids, localSessions'[m][s] # None
                 PROVE  session'[localSessions'[m][s]] # "none"
      OBVIOUS
    <3>1. m # n /\ localSessions'[m][s] = localSessions[m][s] BY <1>0, <2>1
    <3>2. localSessions[m][s] \in Conns /\ Home[localSessions[m][s]] = m
      BY <1>0, <3>1 DEF RegistryInv, RegisteredWhereItBelongs
    <3> QED BY <1>u, <2>1, <3>1, <3>2
  <2>3. ASSUME NEW o \in Conns, session'[o] = "open" PROVE Used(o)'
    <3>1. session[o] = "open" /\ Home[o] # n BY <2>1, <2>3
    <3>2. CASE NeverJoined(o)
      <4>1. \A c \in Conns : sess'[c] # o BY <2>1, <3>2, NoneIsNothing DEF NeverJoined
      <4> QED BY <4>1 DEF Used, NeverJoined
    <3>3. CASE \E d \in Conns : sess[d] = o /\ pc[d] \in InSession
      <4>1. PICK d \in Conns : sess[d] = o /\ pc[d] \in InSession BY <3>3
      <4>2. Home[d] # n BY <3>1, <4>1 DEF RegistryInv, SessIsOfSameId
      <4> QED BY <2>1, <4>1, <4>2 DEF Used
    <3> QED BY <1>u, <3>1, <3>2, <3>3 DEF Used
  <2>4. PeersJoined'
    <3> SUFFICES ASSUME NEW o \in Conns, NEW d \in peers'[o]
                 PROVE  pc'[d] = "joined" /\ sess'[d] = o
      OBVIOUS
    <3>1. d \in peers[o] /\ Home[o] # n BY <2>1
    <3>2. d \in Conns /\ pc[d] = "joined" /\ sess[d] = o BY <1>0, <1>u, <3>1
    <3>3. Home[d] # n BY <3>1, <3>2 DEF RegistryInv, SessIsOfSameId
    <3> QED BY <2>1, <3>2, <3>3
  <2>5. GotOpened'
    <3> SUFFICES ASSUME NEW d \in Conns, sess'[d] # None PROVE session'[sess'[d]] # "none"
      OBVIOUS
    <3>1. Home[d] # n /\ sess'[d] = sess[d] BY <2>1
    <3>2. sess[d] \in Conns /\ Home[sess[d]] = Home[d]
      BY <1>0, <3>1 DEF RegistryInv, SessIsOfSameId
    <3> QED BY <1>u, <2>1, <3>1, <3>2
  <2> HIDE DEF Opened, PeersJoined, GotOpened
  <2> QED BY <1>q, <2>2, <2>3, <2>4, <2>5
<1>7. ASSUME NEW s \in Sids, LockExpires(s) PROVE SessionsAreUsed'
  BY <1>7, SessionsFrame DEF LockExpires
<1>8. CASE UNCHANGED vars BY <1>8, SessionsFrame DEF vars
<1>9. ASSUME NEW c \in Conns, JoinFails(c) PROVE SessionsAreUsed'
  <2>1. /\ pc[c] = "addPeer" /\ pc' = [pc EXCEPT ![c] = "refused"]
        /\ UNCHANGED <<sess, localSessions, session, peers>>
    BY <1>9 DEF JoinFails
  <2>2. \A d \in Conns : pc[d] \in InSession => pc'[d] \in InSession BY <1>0, <2>1 DEF InSession
  <2>3. PeersJoined'
    <3>1. \A o \in Conns : \A d \in peers[o] : d \in Conns /\ d # c BY <1>0, <1>u, <2>1
    <3> QED BY <1>0, <1>u, <2>1, <3>1
  <2>4. \A o \in Conns : session'[o] = "open" => Used(o)'
    BY <1>u, <2>1, <2>2 DEF Used, NeverJoined
  <2>5. Opened' /\ GotOpened' BY <1>u, <2>1
  <2> HIDE DEF Opened, PeersJoined, GotOpened
  <2> QED BY <1>q, <2>3, <2>4, <2>5
\* A look-up gives its Session to no peer.
<1>10. ASSUME NEW c \in Conns, GetSessionAgain(c) PROVE SessionsAreUsed'
  <2>1. /\ pc[c] = "looking" /\ UNCHANGED <<sess, peers>>
        /\ \A d \in Conns : pc[d] \in InSession => pc'[d] = pc[d]
    BY <1>0, <1>10 DEF GetSessionAgain, InSession
  <2>2. CASE localSessions[Home[c]][Sid[c]] # None
    <3>1. UNCHANGED <<localSessions, session>>
      BY <1>10, <2>2, EnsureSessionCases DEF GetSessionAgain
    <3> QED BY <2>1, <3>1, SessionsFrame
  <2>3. CASE localSessions[Home[c]][Sid[c]] = None
    <3>1. /\ localSessions' = [localSessions EXCEPT ![Home[c]][Sid[c]] = c]
          /\ session' = [session EXCEPT ![c] = "open"]
      BY <1>10, <2>3, EnsureSessionCases DEF GetSessionAgain
    <3>2. session[c] = "none" BY <2>1 DEF NotCreatedYet, Early
    <3>3. \A d \in Conns : sess[d] # c BY <1>u, <3>2
    <3>4. Opened' /\ GotOpened' BY <1>0, <1>u, <2>1, <3>1
    <3>5. PeersJoined'
      <4>1. \A o \in Conns : \A d \in peers[o] : d \in Conns BY <1>0
      <4> QED BY <1>u, <2>1, <4>1 DEF InSession
    <3>6. \A o \in Conns : session'[o] = "open" => Used(o)'
      <4>1. Used(c)' BY <2>1, <3>3 DEF Used, NeverJoined
      <4>2. \A o \in Conns : o # c => session'[o] = session[o] BY <1>0, <3>1
      <4>3. \A o \in Conns : Used(o) => Used(o)' BY <2>1 DEF Used, NeverJoined
      <4> QED BY <1>u, <4>1, <4>2, <4>3
    <3> HIDE DEF Opened, PeersJoined, GotOpened
    <3> QED BY <1>q, <3>4, <3>5, <3>6
  <2> QED BY <2>2, <2>3
<1> QED BY <1>1, <1>2, <1>3, <1>4, <1>5, <1>6, <1>7, <1>8, <1>9, <1>10 DEF Next, Visit, Outside

LEMMA SessionsAlways == Spec => []SessionsAreUsed
<1>1. Init => SessionsAreUsed
  BY DEF Init, SessionsAreUsed
<1>2. TypeOK /\ RegistryInv /\ NotCreatedYet /\ SessionsAreUsed /\ [Next]_vars => SessionsAreUsed'
  BY SessionsStep
<1> QED BY <1>1, <1>2, TypeCorrect, RegistryCorrect, NotCreatedAlways, PTL DEF Spec

\* What a step that puts no key must respect.
LEMMA OwnedFrame ==
  ASSUME TypeOK, KeyIsOwned,
         \A s \in Sids : kv'[s] # None =>
           /\ kv'[s] = kv[s]
           /\ lease[kv[s]] \in Live => lease'[kv[s]] \in Live
           /\ pc[kv[s]] = "crashed" => pc'[kv[s]] = "crashed"
           /\ s \in unserved => s \in unserved' \/ localSessions'[Home[kv[s]]][s] # None
           /\ localSessions[Home[kv[s]]][s] # None =>
                localSessions'[Home[kv[s]]][s] # None \/ pc'[kv[s]] = "crashed"
  PROVE  KeyIsOwned'
BY DEF KeyIsOwned

\* A step that touches no key, lease or Session, and brings nobody back to life.
LEMMA OwnedStutters ==
  ASSUME TypeOK, KeyIsOwned, UNCHANGED <<kv, lease, localSessions, unserved>>,
         \A d \in Conns : pc[d] = "crashed" => pc'[d] = "crashed"
  PROVE  KeyIsOwned'
<1>1. \A s \in Sids : kv[s] # None => kv[s] \in Conns BY DEF TypeOK
<1> QED BY <1>1, OwnedFrame

\* The steps of getOrCreateSession and of onSessionClosed that touch a lease, or
\* nothing of the kind.
LEMMA OwnedKeeps ==
  ASSUME TypeOK, KeyIsOwned, UNCHANGED <<kv, localSessions, unserved>>,
         \A d \in Conns : lease[d] \in Live => lease'[d] \in Live,
         \A d \in Conns : pc[d] = "crashed" => pc'[d] = "crashed"
  PROVE  KeyIsOwned'
<1>1. \A s \in Sids : kv[s] # None => kv[s] \in Conns BY DEF TypeOK
<1> QED BY <1>1, OwnedFrame

\* A key that has just been put: unserved, or with a Session there already.
LEMMA OwnedPut ==
  ASSUME TypeOK, KeyIsOwned, NEW c \in Conns, lease[c] \in Live, KeyIsPut(c),
         kv' = [kv EXCEPT ![Sid[c]] = c], UNCHANGED <<lease, localSessions>>,
         \A d \in Conns : pc[d] = "crashed" => pc'[d] = "crashed"
  PROVE  KeyIsOwned'
<1> SUFFICES ASSUME NEW s \in Sids, kv'[s] # None
             PROVE  /\ lease'[kv'[s]] \in Live
                    /\ s \in unserved' \/ pc'[kv'[s]] = "crashed" \/ localSessions'[Home[kv'[s]]][s] # None
  BY DEF KeyIsOwned
<1>1. CASE s = Sid[c]
  <2>1. kv'[s] = c BY <1>1 DEF TypeOK
  <2>2. s \in unserved' \/ localSessions[Home[c]][s] # None BY <1>1 DEF KeyIsPut
  <2> QED BY <2>1, <2>2
<1>2. CASE s # Sid[c]
  <2>1. kv'[s] = kv[s] /\ kv[s] \in Conns BY <1>2 DEF TypeOK
  <2>2. s \in unserved => s \in unserved' BY <1>2 DEF KeyIsPut
  <2> QED BY <2>1, <2>2 DEF KeyIsOwned
<1> QED BY <1>1, <1>2

\* ensureSession: the key of a Session that is found or made is served.
LEMMA OwnedEnsure ==
  ASSUME TypeOK, KeyIsOwned, NEW c \in Conns, EnsureSession(c), UNCHANGED <<kv, lease>>,
         \A d \in Conns : pc[d] = "crashed" => pc'[d] = "crashed"
  PROVE  KeyIsOwned'
<1>0. \/ localSessions[Home[c]][Sid[c]] # None /\ localSessions' = localSessions
      \/ localSessions' = [localSessions EXCEPT ![Home[c]][Sid[c]] = c]
  BY EnsureSessionCases
<1>1. ASSUME NEW n \in Nodes, NEW s \in Sids, localSessions[n][s] # None
      PROVE  localSessions'[n][s] # None
  <2>1. CASE localSessions' = localSessions BY <1>1, <2>1
  <2>2. CASE localSessions' = [localSessions EXCEPT ![Home[c]][Sid[c]] = c]
    <3>1. localSessions'[n][s] = IF n = Home[c] /\ s = Sid[c] THEN c ELSE localSessions[n][s]
      BY <2>2 DEF TypeOK
    <3> QED BY <1>1, <3>1
  <2> QED BY <1>0, <2>1, <2>2
<1>2. localSessions'[Home[c]][Sid[c]] # None
  BY <1>0 DEF TypeOK
<1>3. \A s \in Sids : s \in unserved =>
        s \in unserved' \/ (s = Sid[c] /\ Home[kv[s]] = Home[c])
  BY DEF EnsureSession
<1>4. \A s \in Sids : kv[s] # None => kv[s] \in Conns /\ Home[kv[s]] \in Nodes BY DEF TypeOK
<1> QED BY <1>1, <1>2, <1>3, <1>4, OwnedFrame

LEMMA OwnedStep ==
  ASSUME TypeOK, KeyIsOwned, [Next]_vars
  PROVE  KeyIsOwned'
<1> USE DEF At, Goto, Return, connVars, etcdVars, nodeVars, sessVars
<1>0. /\ pc \in [Conns -> Labels] /\ kv \in [Sids -> Conns \cup {None}]
      /\ lease \in [Conns -> {"none", "gone"} \cup Live]
      /\ localSessions \in [Nodes -> [Sids -> Conns \cup {None}]]
  BY DEF TypeOK
<1> DEFINE StayDead == \A d \in Conns : pc[d] = "crashed" => pc'[d] = "crashed"
<1>1. ASSUME NEW c \in Conns, GetOrCreate(c) PROVE KeyIsOwned'
  <2>1. StayDead
    <3>1. CASE Call(c) \/ Lock(c) \/ LockFails(c) BY <1>0, <3>1 DEF Call, Lock, LockFails
    <3>2. CASE Get(c)
      <4>1. pc[c] = "get" /\ \A d \in Conns : d # c => pc'[d] = pc[d] BY <1>0, <3>2 DEF Get
      <4> QED BY <4>1
    <3>3. CASE Grant(c) \/ GetFails(c) \/ KeepAlive(c) \/ RegisterLease(c)
      BY <1>0, <3>3 DEF Grant, GetFails, KeepAlive, RegisterLease
    <3>4. CASE Put(c) \/ PutFails(c) \/ Unlock(c) BY <1>0, <3>4 DEF Put, PutFails, Unlock
    <3> QED BY <1>1, <3>1, <3>2, <3>3, <3>4 DEF GetOrCreate
  <2>2. CASE Call(c) \/ Lock(c) \/ LockFails(c) \/ GetFails(c) \/ RegisterLease(c) \/ Unlock(c)
    BY <2>1, <2>2, OwnedStutters DEF Call, Lock, LockFails, GetFails, RegisterLease, Unlock
  <2>3. CASE Get(c) BY <2>1, <2>3, OwnedStutters DEF Get
  <2>4. CASE Grant(c) \/ KeepAlive(c)
    <3>1. UNCHANGED <<kv, localSessions, unserved>> BY <2>4 DEF Grant, KeepAlive
    <3>2. \A d \in Conns : lease[d] \in Live => lease'[d] \in Live
      BY <1>0, <2>4 DEF Grant, KeepAlive, Live
    <3> QED BY <2>1, <3>1, <3>2, OwnedKeeps
  <2>5. CASE Put(c)
    <3>1. /\ lease[c] \in Live /\ KeyIsPut(c) /\ kv' = [kv EXCEPT ![Sid[c]] = c]
          /\ UNCHANGED <<lease, localSessions>>
      BY <2>5 DEF Put
    <3> QED BY <2>1, <3>1, OwnedPut
  <2>6. CASE PutFails(c)
    <3>1. /\ UNCHANGED <<lease, localSessions>>
          /\ \/ UNCHANGED <<kv, unserved>>
             \/ lease[c] \in Live /\ KeyIsPut(c) /\ kv' = [kv EXCEPT ![Sid[c]] = c]
      BY <2>6 DEF PutFails
    <3> QED BY <2>1, <3>1, OwnedPut, OwnedStutters
  <2> QED BY <1>1, <2>2, <2>3, <2>4, <2>5, <2>6 DEF GetOrCreate
<1>2. ASSUME NEW c \in Conns, Visit(c) PROVE KeyIsOwned'
  <2>1. StayDead
    <3>1. CASE Finish(c) \/ GetSession(c) \/ AddPeer(c)
      BY <1>0, <3>1 DEF Finish, GetSession, AddPeer
    <3>2. CASE JoinFails(c) \/ Handle(c) \/ GetSessionAgain(c)
      BY <1>0, <3>2 DEF JoinFails, Handle, GetSessionAgain
    <3>3. CASE RemovePeer(c)
      <4>1. pc[c] # "crashed" /\ \A d \in Conns : d # c => pc'[d] = pc[d]
        BY <1>0, <3>3 DEF RemovePeer
      <4> QED BY <4>1
    <3> QED BY <1>2, <3>1, <3>2, <3>3 DEF Visit
  <2>2. CASE Finish(c) \/ AddPeer(c) \/ JoinFails(c) \/ Handle(c)
    BY <2>1, <2>2, OwnedStutters DEF Finish, AddPeer, JoinFails, Handle
  <2>3. CASE RemovePeer(c) BY <2>1, <2>3, OwnedStutters DEF RemovePeer
  <2>4. CASE GetSession(c) \/ GetSessionAgain(c)
    <3>1. EnsureSession(c) /\ UNCHANGED <<kv, lease>> BY <2>4 DEF GetSession, GetSessionAgain
    <3> QED BY <2>1, <3>1, OwnedEnsure
  <2> QED BY <1>2, <2>2, <2>3, <2>4 DEF Visit
<1>3. ASSUME NEW c \in Conns, OnSessionClosed(c) PROVE KeyIsOwned'
  <2>1. StayDead
    <3>1. CASE CloseBegin(c) \/ CloseLock(c) \/ CloseLockFails(c) \/ CancelLease(c)
      BY <1>0, <3>1 DEF CloseBegin, CloseLock, CloseLockFails, CancelLease
    <3>2. CASE CloseDelete(c) \/ CloseDeleteFails(c) \/ CloseUnlock(c)
      BY <1>0, <3>2 DEF CloseDelete, CloseDeleteFails, CloseUnlock
    <3> QED BY <1>3, <3>1, <3>2 DEF OnSessionClosed
  <2>2. CASE CloseBegin(c) \/ CloseLock(c) \/ CloseLockFails(c) \/ CloseUnlock(c)
    BY <2>1, <2>2, OwnedStutters DEF CloseBegin, CloseLock, CloseLockFails, CloseUnlock
  <2>3. CASE CancelLease(c)
    <3>1. UNCHANGED <<kv, localSessions, unserved>> BY <2>3 DEF CancelLease
    <3>2. \A d \in Conns : lease[d] \in Live => lease'[d] \in Live
      BY <1>0, <2>3 DEF CancelLease, Live
    <3> QED BY <2>1, <3>1, <3>2, OwnedKeeps
  <2>4. CASE CloseDelete(c)
    <3>1. /\ kv' = [kv EXCEPT ![Sid[c]] = None]
          /\ localSessions' = [localSessions EXCEPT ![Home[c]][Sid[c]] = None]
          /\ UNCHANGED <<lease, unserved>>
      BY <2>4 DEF CloseDelete
    <3>2. \A s \in Sids : kv'[s] = IF s = Sid[c] THEN None ELSE kv[s] BY <1>0, <3>1
    <3>3. \A n \in Nodes, s \in Sids : s # Sid[c] => localSessions'[n][s] = localSessions[n][s]
      BY <1>0, <3>1
    <3>4. \A s \in Sids : kv[s] # None => kv[s] \in Conns /\ Home[kv[s]] \in Nodes BY <1>0
    <3> QED BY <2>1, <3>1, <3>2, <3>3, <3>4, OwnedFrame
  <2>5. CASE CloseDeleteFails(c)
    <3>1. kv' \in {kv, [kv EXCEPT ![Sid[c]] = None]} /\ UNCHANGED <<lease, localSessions, unserved>>
      BY <2>5 DEF CloseDeleteFails
    <3>2. \A s \in Sids : kv'[s] = kv[s] \/ kv'[s] = None BY <1>0, <3>1
    <3>3. \A s \in Sids : kv[s] # None => kv[s] \in Conns BY <1>0
    <3> QED BY <2>1, <3>1, <3>2, <3>3, OwnedFrame
  <2> QED BY <1>3, <2>2, <2>3, <2>4, <2>5 DEF OnSessionClosed
<1>4. ASSUME NEW c \in Conns, LeaseExpires(c) PROVE KeyIsOwned'
  <2>1. UNCHANGED <<pc, localSessions, unserved>> BY <1>4 DEF LeaseExpires
  <2>2. \A s \in Sids : kv'[s] = IF kv[s] = c THEN None ELSE kv[s] BY <1>4 DEF LeaseExpires
  <2>3. \A d \in Conns : d # c => lease'[d] = lease[d] BY <1>0, <1>4 DEF LeaseExpires
  <2>4. \A s \in Sids : kv[s] # None => kv[s] \in Conns BY <1>0
  <2> QED BY <2>1, <2>2, <2>3, <2>4, OwnedFrame
<1>5. ASSUME NEW n \in Nodes, Crash(n) PROVE KeyIsOwned'
  <2>1. /\ \A d \in Conns : pc'[d] = pc[d] \/ pc'[d] = "crashed"
        /\ \A d \in Conns : Home[d] = n => pc'[d] = "crashed"
        /\ UNCHANGED <<kv, unserved>>
        /\ localSessions' = [localSessions EXCEPT ![n] = [s \in Sids |-> None]]
    BY <1>5 DEF Crash, On
  <2>2. \A d \in Conns : lease[d] \in Live => lease'[d] \in Live BY <1>5 DEF Crash, Live
  <2>3. \A m \in Nodes : m # n => localSessions'[m] = localSessions[m] BY <1>0, <2>1
  <2>4. \A s \in Sids : kv[s] # None => kv[s] \in Conns /\ Home[kv[s]] \in Nodes BY <1>0
  <2> QED BY <2>1, <2>2, <2>3, <2>4, OwnedFrame
<1>6. ASSUME NEW c \in Conns, Deadline(c) PROVE KeyIsOwned' BY <1>6, OwnedStutters DEF Deadline
<1>7. ASSUME NEW s \in Sids, LockExpires(s) PROVE KeyIsOwned'
  BY <1>7, OwnedStutters DEF LockExpires
<1>8. CASE UNCHANGED vars BY <1>8, OwnedStutters DEF vars
<1> QED BY <1>1, <1>2, <1>3, <1>4, <1>5, <1>6, <1>7, <1>8 DEF Next

LEMMA OwnedAlways == Spec => []KeyIsOwned
<1>1. Init => KeyIsOwned
  BY DEF Init, KeyIsOwned
<1>2. TypeOK /\ KeyIsOwned /\ [Next]_vars => KeyIsOwned'
  BY OwnedStep
<1> QED BY <1>1, <1>2, TypeCorrect, PTL DEF Spec

(***************************************************************************)
(* Whatever leases or mutexes were lost, requests and joins failed and     *)
(* nodes crashed on the way: once every visit and look-up is over, a       *)
(* Session that some join got is registered only if its onSessionClosed    *)
(* failed, and the key of a session that some Session has served is there  *)
(* only as long as a Session is registered.  It does not need mutual       *)
(* exclusion: a goroutine that lost the etcd mutex may delete a key too    *)
(* many, never one too few.                                                *)
(***************************************************************************)
THEOREM LeavesNoResidue == Spec => []NoResidue
<1>1. ASSUME TypeOK, SessionsAreUsed, KeyIsOwned PROVE NoResidue
  <2> SUFFICES ASSUME AtRest
               PROVE  /\ \A n \in Nodes, s \in Sids :
                           localSessions[n][s] # None =>
                             CloseFailed(localSessions[n][s]) \/ NeverJoined(localSessions[n][s])
                      /\ \A s \in Sids :
                           kv[s] # None => s \in unserved \/ localSessions[Home[kv[s]]][s] # None
    BY DEF NoResidue
  <2>1. ASSUME NEW n \in Nodes, NEW s \in Sids, localSessions[n][s] # None,
               ~CloseFailed(localSessions[n][s])
        PROVE  NeverJoined(localSessions[n][s])
    <3> DEFINE o == localSessions[n][s]
    <3>1. o \in Conns BY <1>1, <2>1 DEF TypeOK
    <3>2. session[o] = "open" BY <1>1, <2>1, <3>1 DEF TypeOK, SessionsAreUsed, CloseFailed
    <3>3. \A c \in Conns : pc[c] \notin InSession BY DEF AtRest, At, InSession
    <3> HIDE DEF o
    <3>4. NeverJoined(o) BY <1>1, <3>1, <3>2, <3>3 DEF SessionsAreUsed
    <3> QED BY <3>4 DEF o
  <2>2. ASSUME NEW s \in Sids, kv[s] # None
        PROVE  s \in unserved \/ localSessions[Home[kv[s]]][s] # None
    <3>1. kv[s] \in Conns /\ lease[kv[s]] \in Live BY <1>1, <2>2 DEF TypeOK, KeyIsOwned
    <3>2. pc[kv[s]] # "crashed" BY <3>1 DEF AtRest, At
    <3> QED BY <1>1, <2>2, <3>2 DEF KeyIsOwned
  <2> QED BY <2>1, <2>2
<1> QED BY <1>1, TypeCorrect, SessionsAlways, OwnedAlways, PTL
-------------------------------------------------------------------------------
\* The abstract registry

\* The refinement mapping.
Listed == [k \in Nodes \X Sids |-> localSessions[k[1]][k[2]]]
Gone == {c \in Conns : session[c] = "closed" \/ pc[c] = "crashed"}

\* A step that touches no registry, closes nothing and kills nobody.
LEMMA RegistryStutters ==
  ASSUME TypeOK, UNCHANGED <<localSessions, session>>,
         \A d \in Conns : pc'[d] = "crashed" <=> pc[d] = "crashed"
  PROVE  UNCHANGED Registry!vars
<1>1. Listed' = Listed BY DEF Listed
<1>2. Gone' = Gone BY DEF Gone
<1> QED BY <1>1, <1>2 DEF Registry!vars, Listed, Gone

\* One entry of one node changes.
LEMMA ListedExcept ==
  ASSUME TypeOK, NEW n \in Nodes, NEW s \in Sids, NEW o,
         localSessions' = [localSessions EXCEPT ![n][s] = o]
  PROVE  Listed' = [Listed EXCEPT ![<<n, s>>] = o]
<1>1. ASSUME NEW m \in Nodes, NEW t \in Sids
      PROVE  localSessions'[m][t] = IF m = n /\ t = s THEN o ELSE localSessions[m][t]
  BY DEF TypeOK
<1> DEFINE R == [Listed EXCEPT ![<<n, s>>] = o]
<1>2. ASSUME NEW k \in Nodes \X Sids PROVE Listed'[k] = R[k]
  <2>1. k[1] \in Nodes /\ k[2] \in Sids /\ k = <<k[1], k[2]>> OBVIOUS
  <2>2. Listed'[k] = IF k[1] = n /\ k[2] = s THEN o ELSE localSessions[k[1]][k[2]]
    BY <1>1, <2>1 DEF Listed
  <2>3. k = <<n, s>> <=> k[1] = n /\ k[2] = s BY <2>1
  <2>4. R[k] = IF k = <<n, s>> THEN o ELSE Listed[k] BY DEF Listed
  <2> QED BY <2>2, <2>3, <2>4 DEF Listed
<1> QED BY <1>2 DEF Listed

\* ensureSession: the Session that is registered, or a new one.
LEMMA EnsureSessionRefines ==
  ASSUME TypeOK, NotCreatedYet, NEW c \in Conns, GetSession(c) \/ GetSessionAgain(c)
  PROVE  [Registry!Next]_(Registry!vars)
<1> DEFINE k == <<Home[c], Sid[c]>>
<1>1. /\ pc[c] \in {"returned", "looking"} /\ \E l \in {"addPeer", "done"} : pc' = [pc EXCEPT ![c] = l]
      /\ EnsureSession(c)
  BY DEF GetSession, GetSessionAgain, At, Goto
<1>2. \A d \in Conns : pc'[d] = "crashed" <=> pc[d] = "crashed" BY <1>1 DEF TypeOK
<1>3. CASE localSessions[Home[c]][Sid[c]] # None
  <2>1. UNCHANGED <<localSessions, session>> BY <1>1, <1>3, EnsureSessionCases
  <2> QED BY <1>2, <2>1, RegistryStutters
<1>4. CASE localSessions[Home[c]][Sid[c]] = None
  <2>1. /\ localSessions' = [localSessions EXCEPT ![Home[c]][Sid[c]] = c]
        /\ session' = [session EXCEPT ![c] = "open"]
    BY <1>1, <1>4, EnsureSessionCases
  <2>2. session[c] = "none" BY <1>1 DEF NotCreatedYet, Early
  <2>3. c \notin Gone /\ Gone' = Gone BY <1>1, <1>2, <2>1, <2>2 DEF Gone, TypeOK
  <2>4. k \in Nodes \X Sids /\ Listed[k] = None BY <1>4 DEF Listed
  <2>5. Listed' = [Listed EXCEPT ![k] = c] BY <2>1, ListedExcept
  <2>6. Listed'[k] = c BY <2>4, <2>5 DEF Listed
  <2>7. [d \in Conns |-> <<Home[d], Sid[d]>>][c] = k OBVIOUS
  <2> HIDE DEF k
  <2>8. Registry!Open(k)
    <3>1. /\ Listed[k] = None /\ Listed'[k] \in Conns \ Gone
          /\ [d \in Conns |-> <<Home[d], Sid[d]>>][Listed'[k]] = k
          /\ Listed' = [Listed EXCEPT ![k] = Listed'[k]] /\ Gone' = Gone
      BY <2>3, <2>4, <2>5, <2>6, <2>7
    <3> QED BY <3>1 DEF Registry!Open, Listed, Gone
  <2> QED BY <2>4, <2>8 DEF Registry!Next
<1> QED BY <1>3, <1>4

\* The last peer leaves: the Session that is closed is the registered one.
LEMMA RemovePeerRefines ==
  ASSUME TypeOK, RegistryInv, NotCreatedYet, NEW c \in Conns, RemovePeer(c)
  PROVE  [Registry!Next]_(Registry!vars)
<1> DEFINE o == sess[c]
           k == <<Home[c], Sid[c]>>
<1>1. /\ pc[c] \in {"joined", "refused"} /\ localSessions' = localSessions
      /\ \/ session' = session
         \/ session[o] = "open" /\ session' = [session EXCEPT ![o] = "closed"]
      /\ \E l \in {"done", "closeEmu"} : pc' = [pc EXCEPT ![c] = l]
  BY DEF RemovePeer, At, Goto, nodeVars
<1>2. \A d \in Conns : pc'[d] = "crashed" <=> pc[d] = "crashed" BY <1>1 DEF TypeOK
<1>3. CASE session' = session BY <1>1, <1>2, <1>3, RegistryStutters
<1>4. CASE session[o] = "open" /\ session' = [session EXCEPT ![o] = "closed"]
  <2>1. o \in Conns /\ Home[o] = Home[c] /\ Sid[o] = Sid[c]
    BY <1>1 DEF TypeOK, RegistryInv, SessIsOfSameId
  <2>2. k \in Nodes \X Sids /\ Listed[k] = o
    BY <1>4, <2>1 DEF Listed, RegistryInv, OpenIsRegistered
  <2>3. o \notin Gone
    <3>1. pc[o] # "crashed" BY <1>4, <2>1 DEF NotCreatedYet, Early
    <3> QED BY <1>4, <3>1 DEF Gone
  <2>4. Gone' = Gone \cup {o}
    <3>1. \A d \in Conns : session'[d] = "closed" <=> session[d] = "closed" \/ d = o
      BY <1>4, <2>1 DEF TypeOK
    <3> QED BY <1>2, <2>1, <3>1 DEF Gone
  <2>5. Listed' = Listed BY <1>1 DEF Listed
  <2>6. o # None BY <2>1
  <2> HIDE DEF k, o
  <2>7. Registry!Close(k)
    <3>1. Listed[k] \notin Gone \cup {None} /\ Gone' = Gone \cup {Listed[k]} /\ Listed' = Listed
      BY <2>2, <2>3, <2>4, <2>5, <2>6
    <3> QED BY <3>1 DEF Registry!Close, Listed, Gone
  <2> QED BY <2>2, <2>7 DEF Registry!Next
<1> QED BY <1>1, <1>3, <1>4

\* onSessionClosed removes the Session whose close called it.
LEMMA CloseDeleteRefines ==
  ASSUME TypeOK, RegistryInv, NEW c \in Conns, CloseDelete(c)
  PROVE  [Registry!Next]_(Registry!vars)
<1> DEFINE k == <<Home[c], Sid[c]>>
<1>1. /\ pc[c] = "closeDelete" /\ pc' = [pc EXCEPT ![c] = "closeUnlock"]
      /\ localSessions' = [localSessions EXCEPT ![Home[c]][Sid[c]] = None]
      /\ session' = session
  BY DEF CloseDelete, At, Goto, sessVars
<1>2. k \in Nodes \X Sids /\ Listed[k] \in Gone
  <2>1. sess[c] # None /\ session[sess[c]] = "closed" /\ localSessions[Home[c]][Sid[c]] = sess[c]
    BY <1>1 DEF RegistryInv, ClosingIsClosed, Closing, ClosingEmu
  <2>2. sess[c] \in Conns BY <2>1 DEF TypeOK
  <2> QED BY <2>1, <2>2 DEF Listed, Gone
<1>3. Listed' = [Listed EXCEPT ![k] = None] BY <1>1, ListedExcept
<1>4. Gone' = Gone
  <2>1. \A d \in Conns : pc'[d] = "crashed" <=> pc[d] = "crashed" BY <1>1 DEF TypeOK
  <2> QED BY <1>1, <2>1 DEF Gone
<1> HIDE DEF k
<1>5. Registry!Forget(k) BY <1>2, <1>3, <1>4 DEF Registry!Forget, Listed, Gone
<1> QED BY <1>2, <1>5 DEF Registry!Next

\* A node dies with all its Sessions, and with no other.
LEMMA CrashRefines ==
  ASSUME TypeOK, RegistryInv, NEW n \in Nodes, Crash(n)
  PROVE  Registry!Next
<1> DEFINE P == {n} \X Sids
           Slot == [c \in Conns |-> <<Home[c], Sid[c]>>]
<1>1. /\ pc' = [c \in Conns |-> IF c \in On(n) THEN "crashed" ELSE pc[c]]
      /\ localSessions' = [localSessions EXCEPT ![n] = [s \in Sids |-> None]]
      /\ session' = [c \in Conns |-> IF c \in On(n) THEN "none" ELSE session[c]]
  BY DEF Crash
<1>2. Gone' = Gone \cup On(n) BY <1>1 DEF Gone, On, TypeOK
<1>3. Listed' = [k \in Nodes \X Sids |-> IF k \in P THEN None ELSE Listed[k]]
  <2>1. ASSUME NEW m \in Nodes, NEW s \in Sids
        PROVE  localSessions'[m][s] = IF m = n THEN None ELSE localSessions[m][s]
    BY <1>1 DEF TypeOK
  <2> QED BY <2>1 DEF Listed
<1>4. \A k \in P : Listed[k] \in Gone' \cup {None}
  <2> SUFFICES ASSUME NEW s \in Sids, localSessions[n][s] # None
               PROVE  localSessions[n][s] \in Gone'
    BY DEF Listed
  <2>1. localSessions[n][s] \in Conns /\ Home[localSessions[n][s]] = n
    BY DEF TypeOK, RegistryInv, RegisteredWhereItBelongs
  <2> QED BY <1>2, <2>1 DEF On
<1>5. \A c \in Gone' \ Gone : Slot[c] \in P BY <1>2 DEF On
<1>6. P \in {{m} \X Sids : m \in Nodes} OBVIOUS
<1>7. Gone \subseteq Gone' BY <1>2
<1> HIDE DEF P
<1>8. Registry!Die(P)
  BY <1>3, <1>4, <1>5, <1>7 DEF Registry!Die, Listed, Gone
<1> QED BY <1>6, <1>8 DEF Registry!Next

(***************************************************************************)
(* etcdCoordinator implements SessionRegistry on every node, under every   *)
(* fault: a Session that ensureSession registered is found until it was    *)
(* closed, onSessionClosed, whenever and however far it comes, removes     *)
(* only a closed one, and after a crash none of the node comes back.       *)
(***************************************************************************)
THEOREM RegistryImplemented == Spec => ImplementsRegistry
<1>1. Init => Registry!Init
  BY DEF Init, Registry!Init
<1>2. TypeOK /\ RegistryInv /\ NotCreatedYet /\ [Next]_vars => [Registry!Next]_(Registry!vars)
  <2> SUFFICES ASSUME TypeOK, RegistryInv, NotCreatedYet, [Next]_vars
               PROVE  [Registry!Next]_(Registry!vars)
    OBVIOUS
  <2> USE DEF TypeOK, At, Goto, Return, connVars, etcdVars, nodeVars, sessVars
  <2>1. ASSUME NEW c \in Conns, Outside(c)
        PROVE  [Registry!Next]_(Registry!vars)
    <3>1. UNCHANGED <<localSessions, session>> BY <2>1, LeavesRegistryAlone
    <3>2. pc' = pc \/ \E l \in Labels \ {"crashed"} : pc[c] # "crashed" /\ pc' = [pc EXCEPT ![c] = l]
      <4> USE DEF Labels, Holding, Creating, Closing, ClosingEmu, Stopped
      <4>1. CASE Call(c) BY <4>1 DEF Call
      <4>2. CASE Lock(c) \/ LockFails(c) BY <4>2 DEF Lock, LockFails
      <4>3. CASE Get(c) BY <4>3 DEF Get
      <4>4. CASE Grant(c) \/ GetFails(c) BY <4>4 DEF Grant, GetFails
      <4>5. CASE KeepAlive(c) \/ RegisterLease(c) BY <4>5 DEF KeepAlive, RegisterLease
      <4>6. CASE Put(c) \/ PutFails(c) BY <4>6 DEF Put, PutFails
      <4>7. CASE Unlock(c) \/ Finish(c) \/ Handle(c) BY <4>7 DEF Unlock, Finish, Handle
      <4>8. CASE Deadline(c) \/ LeaseExpires(c) BY <4>8 DEF Deadline, LeaseExpires
      <4> QED BY <2>1, <4>1, <4>2, <4>3, <4>4, <4>5, <4>6, <4>7, <4>8 DEF Outside, GetOrCreate
    <3>3. \A d \in Conns : pc'[d] = "crashed" <=> pc[d] = "crashed" BY <3>2
    <3> QED BY <3>1, <3>3, RegistryStutters
  <2>2. ASSUME NEW c \in Conns,
               \/ AddPeer(c) \/ JoinFails(c) \/ CloseBegin(c) \/ CloseLock(c) \/ CloseLockFails(c)
               \/ CancelLease(c) \/ CloseDeleteFails(c) \/ CloseUnlock(c)
        PROVE  [Registry!Next]_(Registry!vars)
    <3>1. /\ UNCHANGED <<localSessions, session>>
          /\ \A d \in Conns : pc'[d] = "crashed" <=> pc[d] = "crashed"
      BY <2>2 DEF AddPeer, JoinFails, CloseBegin, CloseLock, CloseLockFails, CancelLease, CloseDeleteFails,
                  CloseUnlock
    <3> QED BY <3>1, RegistryStutters
  <2>3. ASSUME NEW s \in Sids, LockExpires(s) PROVE [Registry!Next]_(Registry!vars)
    BY <2>3, RegistryStutters DEF LockExpires
  <2>4. CASE UNCHANGED vars BY <2>4, RegistryStutters DEF vars
  <2> QED BY <2>1, <2>2, <2>3, <2>4, EnsureSessionRefines, RemovePeerRefines, CloseDeleteRefines,
             CrashRefines DEF Next, Visit, Outside, OnSessionClosed
<1> QED BY <1>1, <1>2, TypeCorrect, RegistryCorrect, NotCreatedAlways, PTL
        DEF Spec, ImplementsRegistry, Registry!Spec
===============================================================================
