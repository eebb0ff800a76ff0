--------------------------- MODULE LocalNode_proofs ---------------------------
(***************************************************************************)
(* Theorems about LocalNode, under every fault and for any number of       *)
(* connections, session ids and requests.                                  *)
(*                                                                         *)
(* The close handler of a Session is given an id and runs outside of the   *)
(* Session's lock: between the close and the handler, other connections    *)
(* look the id up, join the closed Session, or leave it again.  The        *)
(* argument is that the closed Session stays registered meanwhile, because *)
(* a registered Session is removed only by the handler of its one close.   *)
(***************************************************************************)
EXTENDS LocalNode, FiniteSetTheorems, TLAPS

USE SidOfConn, NoneNoObject

-------------------------------------------------------------------------------
\* The parts of the inductive invariant

\* Numbers of Sessions are not used twice, and a Session has the id it is used for.
Known(o, s) == o[1] = s /\ o[2] <= created

KnownSessions ==
  /\ \A s \in Sids : sessions[s] # None => Known(sessions[s], s)
  /\ \A c \in Conns : joined[c] # None => Known(joined[c], Sid[c])
  /\ \A o \in closed : o[2] <= created

\* A Session that somebody joined and nobody closed is the registered one.
OpenIsRegistered ==
  \A c \in Conns : joined[c] # None /\ joined[c] \notin closed => sessions[Sid[c]] = joined[c]

\* A peer that is in a Session, or about to be added, was given one.
PeersHaveSessions ==
  \A c \in Conns : c \in inSession \/ read[c] = "addPeer" => joined[c] # None

UnregisteringIsClosed == \A c \in Conns : Unregistering(c) => joined[c] \in closed

\* One goroutine unregisters a Session: not two connections', not two of one.
OneUnregisters ==
  /\ \A c, d \in Conns : Unregistering(c) /\ Unregistering(d) /\ Sid[c] = Sid[d] => c = d
  /\ \A c \in Conns : ~(http[c] = "unregister" /\ ice[c] = "unregister")

\* PeerLocal.Join succeeds at most once: the ICE callback is armed only once.
AnswersOnce ==
  \A c \in Conns :
    /\ read[c] \in {"addPeer", "answer"} => joined[c] # None /\ ice[c] = "none"
    /\ ice[c] # "none" => joined[c] # None

LocalInv ==
  /\ KnownSessions
  /\ OpenIsRegistered
  /\ PeersHaveSessions
  /\ UnregistersOwnSession
  /\ UnregisteringIsClosed
  /\ OneUnregisters

-------------------------------------------------------------------------------
\* The operations of the coordinator

\* ensureSession returns a Session of the id.
LEMMA EnsureSessionType ==
  ASSUME TypeOK, NEW s \in Sids, EnsureSession(s)
  PROVE  /\ sessions' \in [Sids -> Objects \cup {None}]
         /\ sessions'[s] \in Objects
         /\ created' \in Nat /\ gaugeSessions' \in Int /\ closed' \subseteq Objects
<1> USE DEF TypeOK, EnsureSession
<1>1. CASE sessions[s] # None
  BY <1>1
<1>2. CASE sessions[s] = None
  <2>1. <<s, created'>> \in Objects BY <1>2 DEF Objects
  <2> QED BY <1>2, <2>1
<1> QED BY <1>1, <1>2

\* PeerLocal.Close closes a Session that exists.
LEMMA ClosePeerType ==
  ASSUME TypeOK, NEW c \in Conns, ClosePeer(c)
  PROVE  /\ peerClosed' \subseteq Conns /\ inSession' \subseteq Conns /\ closed' \subseteq Objects
         /\ UNCHANGED <<joined, heard, sessions, created, gaugeSessions>>
BY DEF TypeOK, ClosePeer, ClosesSession

(***************************************************************************)
(* Every step of a connection's goroutines and of the ICE callback keeps   *)
(* the state of the local node well typed: what is joined, registered or   *)
(* closed is a Session with a number of its own.                           *)
(***************************************************************************)
THEOREM TypeCorrect == Spec => []TypeOK
<1>1. Init => TypeOK
  BY DEF Init, TypeOK
<1>2. TypeOK /\ [Next]_vars => TypeOK'
  <2> SUFFICES ASSUME TypeOK, [Next]_vars PROVE TypeOK'
    OBVIOUS
  <2> USE DEF peerVars, coordVars
  <2>1. ASSUME NEW c \in Conns, EnsureSession(Sid[c]),
               Join(c) \/ JoinGetSession(c) \/ Listen(c) \/ PresenceGetSession(c)
        PROVE  TypeOK'
    BY <2>1, EnsureSessionType
       DEF TypeOK, Join, JoinGetSession, Listen, PresenceGetSession
  <2>0. ASSUME NEW c \in Conns, EnsureSession(UrlSid[c]), Connect(c)
        PROVE  TypeOK'
    BY <2>0, EnsureSessionType DEF TypeOK, Connect
  <2>2. ASSUME NEW c \in Conns, ClosePeer(c), DeferredClose(c) \/ IceFails(c)
        PROVE  TypeOK'
    BY <2>2, ClosePeerType DEF TypeOK, DeferredClose, IceFails
  <2>3. ASSUME NEW c \in Conns, HttpUnregisters(c) \/ IceUnregisters(c) PROVE TypeOK'
    BY <2>3 DEF TypeOK, HttpUnregisters, IceUnregisters, OnSessionClosed
  <2>4. ASSUME NEW c \in Conns,
               Upgrade(c) \/ UpgradeFails(c) \/ Serve(c) \/ Disconnected(c) \/ ReadEnds(c)
                 \/ ListenerEnds(c) \/ IceClosesConn(c)
        PROVE  TypeOK'
    BY <2>4 DEF TypeOK, Upgrade, UpgradeFails, Serve, Disconnected, ReadEnds, ListenerEnds,
                IceClosesConn
  <2>5. ASSUME NEW c \in Conns,
               JoinRefused(c) \/ JoinAddPeer(c) \/ JoinFails(c) \/ Answer(c) \/ PresenceSet(c)
        PROVE  TypeOK'
    BY <2>5 DEF TypeOK, JoinRefused, JoinAddPeer, JoinFails, Answer, PresenceSet
  <2>6. CASE UNCHANGED vars
    BY <2>6 DEF TypeOK, vars
  <2> QED BY <2>0, <2>1, <2>2, <2>3, <2>4, <2>5, <2>6
          DEF Next, Http, Handler, Ice, Connect, Join, JoinGetSession, Listen,
              PresenceGetSession, DeferredClose, IceFails
<1> QED BY <1>1, <1>2, PTL DEF Spec

-------------------------------------------------------------------------------
\* The inductive invariant

\* A step that touches neither the Sessions nor who unregisters one.
LEMMA LocalFrame ==
  ASSUME TypeOK, LocalInv, UNCHANGED <<joined, sessions, created, closed>>,
         \A c \in Conns : /\ http'[c] = "unregister" <=> http[c] = "unregister"
                          /\ ice'[c] = "unregister" <=> ice[c] = "unregister"
                          /\ c \in inSession' \/ read'[c] = "addPeer" => joined[c] # None
  PROVE  LocalInv'
<1> USE DEF TypeOK, LocalInv, Unregistering
<1>1. KnownSessions' BY DEF KnownSessions, Known
<1>2. OpenIsRegistered' BY DEF OpenIsRegistered
<1>3. PeersHaveSessions' BY DEF PeersHaveSessions
<1>4. UnregistersOwnSession' BY DEF UnregistersOwnSession
<1>5. UnregisteringIsClosed' BY DEF UnregisteringIsClosed
<1>6. OneUnregisters' BY DEF OneUnregisters
<1> QED BY <1>1, <1>2, <1>3, <1>4, <1>5, <1>6

\* A look-up: the Session of the id, which may be a new one.  The caller, if any,
\* is given it.
LEMMA LocalEnsure ==
  ASSUME TypeOK, LocalInv, NEW c \in Conns, NEW s \in Sids, EnsureSession(s),
         \/ joined' = joined
         \/ /\ s = Sid[c] /\ joined[c] = None
            /\ joined' = [joined EXCEPT ![c] = sessions'[s]],
         UNCHANGED ice,
         \A d \in Conns : /\ http'[d] = "unregister" <=> http[d] = "unregister"
                          /\ d \in inSession' \/ read'[d] = "addPeer" => joined'[d] # None
  PROVE  LocalInv'
<1> USE DEF LocalInv
<1>1. /\ sessions' \in [Sids -> Objects \cup {None}] /\ sessions'[s] \in Objects
      /\ created' \in Nat /\ created \in Nat /\ closed' = closed
  BY EnsureSessionType DEF EnsureSession, TypeOK
<1>2. \A t \in Sids : sessions[t] # None => sessions'[t] = sessions[t]
  BY DEF EnsureSession, TypeOK
<1>3. /\ created <= created'
      /\ \A t \in Sids : sessions'[t] # None => sessions'[t][1] = t /\ sessions'[t][2] <= created'
  <2>1. CASE sessions[s] # None
    BY <2>1 DEF EnsureSession, KnownSessions, Known, TypeOK
  <2>2. CASE sessions[s] = None
    <3>1. created' = created + 1 /\ sessions' = [sessions EXCEPT ![s] = <<s, created'>>]
      BY <2>2 DEF EnsureSession
    <3>2. \A t \in Sids : sessions[t] # None => sessions[t] \in Objects /\ Known(sessions[t], t)
      BY DEF KnownSessions, TypeOK
    <3>3. ASSUME NEW t \in Sids, sessions'[t] # None
          PROVE  sessions'[t][1] = t /\ sessions'[t][2] <= created'
      <4>1. CASE t = s
        BY <3>1, <4>1, <1>1 DEF Known, TypeOK
      <4>2. CASE t # s
        <5>1. sessions'[t] = sessions[t] BY <3>1, <4>2 DEF TypeOK
        <5> QED BY <5>1, <3>1, <3>2, <3>3, <1>1 DEF Known, Objects
      <4> QED BY <4>1, <4>2
    <3> QED BY <3>1, <3>3, <1>1
  <2> QED BY <2>1, <2>2
<1>4. \A d \in Conns : Unregistering(d)' <=> Unregistering(d)
  BY DEF Unregistering
<1>5. \A d \in Conns : joined[d] # None => joined'[d] = joined[d]
  BY DEF TypeOK
<1>6. \A d \in Conns : joined'[d] # joined[d] => d = c /\ s = Sid[c] /\ joined'[c] = sessions'[s]
  BY DEF TypeOK
<1>7. KnownSessions'
  <2>1. \A d \in Conns : joined'[d] # None => joined'[d][1] = Sid[d] /\ joined'[d][2] <= created'
    <3> SUFFICES ASSUME NEW d \in Conns, joined'[d] # None
                 PROVE  joined'[d][1] = Sid[d] /\ joined'[d][2] <= created'
      OBVIOUS
    <3>1. CASE joined'[d] = joined[d]
      <4>1. joined[d] \in Objects /\ Known(joined[d], Sid[d])
        BY <3>1 DEF KnownSessions, TypeOK
      <4> QED BY <3>1, <4>1, <1>1, <1>3 DEF Known, Objects
    <3>2. CASE joined'[d] # joined[d]
      BY <3>2, <1>6, <1>3, <1>1
    <3> QED BY <3>1, <3>2
  <2>2. \A o \in closed' : o[2] <= created'
    BY <1>1, <1>3 DEF KnownSessions, TypeOK, Objects
  <2> QED BY <1>3, <2>1, <2>2 DEF KnownSessions, Known
<1>8. OpenIsRegistered'
  <2> SUFFICES ASSUME NEW d \in Conns, joined'[d] # None, joined'[d] \notin closed'
               PROVE  sessions'[Sid[d]] = joined'[d]
    BY DEF OpenIsRegistered
  <2>1. CASE joined'[d] = joined[d]
    BY <2>1, <1>1, <1>2 DEF OpenIsRegistered
  <2>2. CASE joined'[d] # joined[d]
    BY <2>2, <1>6
  <2> QED BY <2>1, <2>2
<1>9. PeersHaveSessions' BY DEF PeersHaveSessions
<1>10. UnregistersOwnSession' BY <1>2, <1>4, <1>5 DEF UnregistersOwnSession
<1>11. UnregisteringIsClosed'
  BY <1>1, <1>4, <1>5 DEF UnregisteringIsClosed, UnregistersOwnSession
<1>12. OneUnregisters' BY <1>4 DEF OneUnregisters
<1> QED BY <1>7, <1>8, <1>9, <1>10, <1>11, <1>12

\* PeerLocal.Close, by the http handler or by the ICE callback.
LEMMA LocalClose ==
  ASSUME TypeOK, LocalInv, NEW c \in Conns, ClosePeer(c), UNCHANGED read,
         \/ /\ http[c] = "closePeer" /\ UNCHANGED ice
            /\ http' = [http EXCEPT ![c] = IF ClosesSession(c) THEN "unregister" ELSE "done"]
         \/ /\ ice[c] = "armed" /\ UNCHANGED http
            /\ ice' = [ice EXCEPT ![c] = IF ClosesSession(c) THEN "unregister" ELSE "closeConn"]
  PROVE  LocalInv'
<1> USE DEF LocalInv
<1>1. UNCHANGED <<joined, sessions, created>> /\ inSession' = inSession \ {c}
  BY DEF ClosePeer
<1>2. CASE ~ClosesSession(c)
  <2>1. closed' = closed BY <1>2 DEF ClosePeer
  <2>2. \A d \in Conns : /\ http'[d] = "unregister" <=> http[d] = "unregister"
                         /\ ice'[d] = "unregister" <=> ice[d] = "unregister"
    BY <1>2 DEF TypeOK
  <2> QED BY <1>1, <2>1, <2>2, LocalFrame DEF PeersHaveSessions
<1>3. CASE ClosesSession(c)
  <2>1. /\ closed' = closed \cup {joined[c]}
        /\ joined[c] # None /\ joined[c] \notin closed /\ joined[c] \in Objects
        /\ sessions[Sid[c]] = joined[c]
    BY <1>3 DEF ClosePeer, ClosesSession, TypeOK, OpenIsRegistered
  <2>2. ~Unregistering(c) BY <2>1 DEF UnregisteringIsClosed
  <2>3. \A d \in Conns : Unregistering(d)' <=> d = c \/ Unregistering(d)
    BY <1>3, <2>2 DEF TypeOK, Unregistering
  <2>4. \A d \in Conns : Unregistering(d) => Sid[d] # Sid[c]
    BY <2>1 DEF UnregistersOwnSession, UnregisteringIsClosed
  <2>5. KnownSessions' BY <1>1, <2>1 DEF KnownSessions, Known, TypeOK
  <2>6. OpenIsRegistered' BY <1>1, <2>1 DEF OpenIsRegistered
  <2>7. PeersHaveSessions' BY <1>1 DEF PeersHaveSessions
  <2>8. UnregistersOwnSession' BY <1>1, <2>1, <2>3 DEF UnregistersOwnSession
  <2>9. UnregisteringIsClosed' BY <1>1, <2>1, <2>3 DEF UnregisteringIsClosed
  <2>10. OneUnregisters'
    <3>1. \A d, e \in Conns : Unregistering(d)' /\ Unregistering(e)' /\ Sid[d] = Sid[e] => d = e
      BY <2>3, <2>4 DEF OneUnregisters
    <3>2. \A d \in Conns : ~(http'[d] = "unregister" /\ ice'[d] = "unregister")
      BY <2>2 DEF OneUnregisters, Unregistering, TypeOK
    <3> QED BY <3>1, <3>2 DEF OneUnregisters
  <2> QED BY <2>5, <2>6, <2>7, <2>8, <2>9, <2>10
<1> QED BY <1>2, <1>3

\* The close handler: it deletes the closed Session it was called for.
LEMMA LocalUnregister ==
  ASSUME TypeOK, LocalInv, NEW c \in Conns, OnSessionClosed(Sid[c]),
         UNCHANGED <<joined, inSession, read>>,
         \/ http[c] = "unregister" /\ http' = [http EXCEPT ![c] = "done"] /\ UNCHANGED ice
         \/ ice[c] = "unregister" /\ ice' = [ice EXCEPT ![c] = "closeConn"] /\ UNCHANGED http
  PROVE  LocalInv'
<1> USE DEF LocalInv
<1>1. /\ sessions' = [sessions EXCEPT ![Sid[c]] = None] /\ UNCHANGED <<created, closed>>
      /\ \A s \in Sids : sessions'[s] = IF s = Sid[c] THEN None ELSE sessions[s]
  BY DEF OnSessionClosed, TypeOK
<1>2. Unregistering(c) /\ joined[c] \in closed /\ sessions[Sid[c]] = joined[c]
  BY DEF Unregistering, UnregistersOwnSession, UnregisteringIsClosed
<1>3. \A d \in Conns : Unregistering(d)' => Unregistering(d) /\ d # c
  BY DEF Unregistering, OneUnregisters, TypeOK
<1>4. \A d \in Conns : Unregistering(d)' => Sid[d] # Sid[c]
  BY <1>2, <1>3 DEF OneUnregisters
<1>5. KnownSessions' BY <1>1 DEF KnownSessions, Known
<1>6. OpenIsRegistered' BY <1>1, <1>2 DEF OpenIsRegistered
<1>7. PeersHaveSessions' BY DEF PeersHaveSessions
<1>8. UnregistersOwnSession' BY <1>1, <1>3, <1>4 DEF UnregistersOwnSession
<1>9. UnregisteringIsClosed' BY <1>1, <1>3 DEF UnregisteringIsClosed
<1>10. OneUnregisters'
  <2>1. \A d, e \in Conns : Unregistering(d)' /\ Unregistering(e)' /\ Sid[d] = Sid[e] => d = e
    BY <1>3 DEF OneUnregisters
  <2>2. \A d \in Conns : ~(http'[d] = "unregister" /\ ice'[d] = "unregister")
    BY DEF OneUnregisters, TypeOK
  <2> QED BY <2>1, <2>2 DEF OneUnregisters
<1> QED BY <1>5, <1>6, <1>7, <1>8, <1>9, <1>10

LEMMA AnswersOnceStep ==
  ASSUME TypeOK, AnswersOnce, [Next]_vars
  PROVE  AnswersOnce'
<1> USE DEF AnswersOnce, TypeOK, peerVars
<1>1. ASSUME NEW c \in Conns, JoinGetSession(c) PROVE AnswersOnce'
  <2>1. joined' = [joined EXCEPT ![c] = sessions'[Sid[c]]] /\ joined'[c] # None
    BY <1>1, EnsureSessionType DEF JoinGetSession
  <2>2. ice[c] = "none" BY <1>1 DEF JoinGetSession
  <2> QED BY <1>1, <2>1, <2>2 DEF JoinGetSession
<1>2. ASSUME NEW c \in Conns, IceFails(c) \/ IceUnregisters(c) \/ IceClosesConn(c)
      PROVE  AnswersOnce'
  BY <1>2 DEF IceFails, IceUnregisters, IceClosesConn, ClosePeer
<1>3. ASSUME NEW c \in Conns,
             Upgrade(c) \/ UpgradeFails(c) \/ Serve(c) \/ Disconnected(c) \/ DeferredClose(c)
               \/ HttpUnregisters(c) \/ Connect(c)
      PROVE  AnswersOnce'
  BY <1>3 DEF Upgrade, UpgradeFails, Serve, Disconnected, DeferredClose, HttpUnregisters, Connect,
              ClosePeer
<1>4. ASSUME NEW c \in Conns,
             Join(c) \/ JoinRefused(c) \/ JoinAddPeer(c) \/ JoinFails(c) \/ Answer(c) \/ Listen(c)
      PROVE  AnswersOnce'
  BY <1>4 DEF Join, JoinRefused, JoinAddPeer, JoinFails, Answer, Listen
<1>5. ASSUME NEW c \in Conns,
             PresenceSet(c) \/ PresenceGetSession(c) \/ ReadEnds(c) \/ ListenerEnds(c)
      PROVE  AnswersOnce'
  BY <1>5 DEF PresenceSet, PresenceGetSession, ReadEnds, ListenerEnds
<1>6. CASE UNCHANGED vars
  BY <1>6 DEF vars
<1> QED BY <1>1, <1>2, <1>3, <1>4, <1>5, <1>6 DEF Next, Http, Handler, Ice

\* Every step keeps the invariant.
LEMMA LocalStep ==
  ASSUME TypeOK, AnswersOnce, LocalInv, [Next]_vars
  PROVE  LocalInv'
<1> USE DEF peerVars, coordVars
<1>1. ASSUME NEW c \in Conns, Connect(c) \/ Join(c) \/ Listen(c) \/ PresenceGetSession(c)
      PROVE  LocalInv'
  <2>1. /\ \E s \in Sids : EnsureSession(s)
        /\ UNCHANGED <<joined, inSession, ice>>
    BY <1>1 DEF Connect, Join, Listen, PresenceGetSession
  <2>2. \A d \in Conns : /\ http'[d] = "unregister" <=> http[d] = "unregister"
                         /\ read'[d] = "addPeer" => read[d] = "addPeer"
    BY <1>1 DEF Connect, Join, Listen, PresenceGetSession, TypeOK
  <2> QED BY <2>1, <2>2, LocalEnsure DEF LocalInv, PeersHaveSessions
<1>2. ASSUME NEW c \in Conns, JoinGetSession(c) PROVE LocalInv'
  <2>1. /\ EnsureSession(Sid[c]) /\ UNCHANGED <<http, inSession, ice>>
        /\ joined[c] = None /\ joined' = [joined EXCEPT ![c] = sessions'[Sid[c]]]
        /\ read' = [read EXCEPT ![c] = "addPeer"]
    BY <1>2 DEF JoinGetSession
  <2>2. joined'[c] # None
    BY <2>1, EnsureSessionType DEF TypeOK
  <2>3. \A d \in Conns : d \in inSession' \/ read'[d] = "addPeer" => joined'[d] # None
    BY <2>1, <2>2 DEF LocalInv, PeersHaveSessions, TypeOK
  <2> QED BY <2>1, <2>3, LocalEnsure
<1>3. ASSUME NEW c \in Conns, DeferredClose(c) \/ IceFails(c) PROVE LocalInv'
  BY <1>3, LocalClose DEF DeferredClose, IceFails
<1>4. ASSUME NEW c \in Conns, HttpUnregisters(c) \/ IceUnregisters(c) PROVE LocalInv'
  BY <1>4, LocalUnregister DEF HttpUnregisters, IceUnregisters
<1>5. ASSUME NEW c \in Conns,
             Upgrade(c) \/ UpgradeFails(c) \/ Serve(c) \/ Disconnected(c) \/ ReadEnds(c)
               \/ ListenerEnds(c) \/ IceClosesConn(c)
      PROVE  LocalInv'
  <2>1. UNCHANGED <<joined, inSession, sessions, created, closed>>
    BY <1>5 DEF Upgrade, UpgradeFails, Serve, Disconnected, ReadEnds, ListenerEnds, IceClosesConn
  <2>2. \A d \in Conns : /\ http'[d] = "unregister" <=> http[d] = "unregister"
                         /\ ice'[d] = "unregister" <=> ice[d] = "unregister"
                         /\ read'[d] = "addPeer" => read[d] = "addPeer"
    BY <1>5 DEF Upgrade, UpgradeFails, Serve, Disconnected, ReadEnds, ListenerEnds, IceClosesConn,
                TypeOK
  <2> QED BY <2>1, <2>2, LocalFrame DEF LocalInv, PeersHaveSessions
<1>6. ASSUME NEW c \in Conns,
             JoinRefused(c) \/ JoinAddPeer(c) \/ JoinFails(c) \/ Answer(c) \/ PresenceSet(c)
      PROVE  LocalInv'
  <2>1. UNCHANGED <<http, joined, sessions, created, closed>>
    BY <1>6 DEF JoinRefused, JoinAddPeer, JoinFails, Answer, PresenceSet
  <2>2. \A d \in Conns :
          /\ ice'[d] = "unregister" <=> ice[d] = "unregister"
          /\ d \in inSession' \/ read'[d] = "addPeer" => d \in inSession \/ read[d] = "addPeer"
    BY <1>6 DEF JoinRefused, JoinAddPeer, JoinFails, Answer, PresenceSet, TypeOK, AnswersOnce
  <2> QED BY <2>1, <2>2, LocalFrame DEF LocalInv, PeersHaveSessions
<1>7. CASE UNCHANGED vars
  BY <1>7, LocalFrame DEF vars, LocalInv, PeersHaveSessions
<1> QED BY <1>1, <1>2, <1>3, <1>4, <1>5, <1>6, <1>7 DEF Next, Http, Handler, Ice

LEMMA LocalInvariant == Spec => [](TypeOK /\ AnswersOnce /\ LocalInv)
<1>1. Init => AnswersOnce /\ LocalInv
  BY DEF Init, AnswersOnce, LocalInv, KnownSessions, OpenIsRegistered, PeersHaveSessions,
         UnregistersOwnSession, UnregisteringIsClosed, OneUnregisters, Unregistering
<1>2. TypeOK /\ AnswersOnce /\ LocalInv /\ [Next]_vars => AnswersOnce' /\ LocalInv'
  BY AnswersOnceStep, LocalStep
<1> QED BY <1>1, <1>2, TypeCorrect, PTL DEF Spec

-------------------------------------------------------------------------------
(***************************************************************************)
(* onSessionClosed is called with an id, after the lock of the Session was *)
(* released and while other connections use that id.  It still deletes the *)
(* very Session that was closed: between the close and the handler no      *)
(* other Session takes its place, and nobody else closes it again.         *)
(***************************************************************************)
THEOREM OwnSessionUnregistered == Spec => []UnregistersOwnSession
<1>1. LocalInv => UnregistersOwnSession BY DEF LocalInv
<1> QED BY <1>1, LocalInvariant, PTL

(***************************************************************************)
(* Two peers that joined one session id, at any time and with any number   *)
(* of Sessions closed in between, are in the same Session unless one of    *)
(* them is in a Session that is already closed.                            *)
(***************************************************************************)
THEOREM PeersOfOneSessionMeet == Spec => []PeersMeet
<1>1. TypeOK /\ LocalInv => PeersMeet
  BY DEF TypeOK, LocalInv, OpenIsRegistered, PeersHaveSessions, PeersMeet
<1> QED BY <1>1, LocalInvariant, PTL

-------------------------------------------------------------------------------
\* Who is still to close a Session that was joined

\* A connection in mid-handler whose ICE callback is not armed is being served: its
\* websocket is open, and the http handler has not come to the close of its peer.
HandlersRunOpen ==
  \A c \in Conns :
    /\ http[c] \in {"none", "upgrade", "upgraded"} =>
         read[c] = "none" /\ ice[c] = "none" /\ joined[c] = None
    /\ http[c] = "upgraded" => c \in connected
    /\ read[c] \notin {"none", "ended"} /\ ice[c] = "none" =>
         http[c] = "serving" /\ c \in connected

\* The peers that were closed: by whom, and that they are in no Session.
ClosedPeers ==
  \A c \in Conns :
    /\ c \in peerClosed => ice[c] \notin {"none", "armed"} \/ http[c] \in {"unregister", "done"}
    /\ c \in inSession => c \notin peerClosed
    /\ http[c] \in {"unregister", "done"} /\ joined[c] # None => c \in peerClosed

\* A Session that was joined and not closed has a peer that was not closed.
OpenHasPeer ==
  \A c \in Conns : joined[c] # None /\ joined[c] \notin closed =>
    \E d \in Conns : joined[d] = joined[c] /\ d \notin peerClosed

\* A closed Session that is still registered is about to be unregistered.
ClosedIsUnregistered ==
  \A s \in Sids : sessions[s] \in closed =>
    \E d \in Conns : joined[d] = sessions[s] /\ Unregistering(d)

LEMMA HandlersRunOpenStep ==
  ASSUME TypeOK, AnswersOnce, HandlersRunOpen, [Next]_vars
  PROVE  HandlersRunOpen'
<1> USE DEF HandlersRunOpen, TypeOK, peerVars
<1>1. ASSUME NEW c \in Conns, JoinGetSession(c) PROVE HandlersRunOpen'
  BY <1>1 DEF JoinGetSession, AnswersOnce
<1>2. ASSUME NEW c \in Conns, IceFails(c) \/ IceUnregisters(c) \/ IceClosesConn(c)
      PROVE  HandlersRunOpen'
  BY <1>2 DEF IceFails, IceUnregisters, IceClosesConn, ClosePeer
<1>3. ASSUME NEW c \in Conns,
             Upgrade(c) \/ UpgradeFails(c) \/ Serve(c) \/ Disconnected(c) \/ DeferredClose(c)
               \/ HttpUnregisters(c) \/ Connect(c)
      PROVE  HandlersRunOpen'
  BY <1>3 DEF Upgrade, UpgradeFails, Serve, Disconnected, DeferredClose, HttpUnregisters, Connect,
              ClosePeer
<1>4. ASSUME NEW c \in Conns,
             Join(c) \/ JoinRefused(c) \/ JoinAddPeer(c) \/ JoinFails(c) \/ Answer(c) \/ Listen(c)
      PROVE  HandlersRunOpen'
  BY <1>4 DEF Join, JoinRefused, JoinAddPeer, JoinFails, Answer, Listen
<1>5. ASSUME NEW c \in Conns,
             PresenceSet(c) \/ PresenceGetSession(c) \/ ReadEnds(c) \/ ListenerEnds(c)
      PROVE  HandlersRunOpen'
  BY <1>5 DEF PresenceSet, PresenceGetSession, ReadEnds, ListenerEnds
<1>6. CASE UNCHANGED vars
  BY <1>6 DEF vars
<1> QED BY <1>1, <1>2, <1>3, <1>4, <1>5, <1>6 DEF Next, Http, Handler, Ice

LEMMA ClosedPeersStep ==
  ASSUME TypeOK, AnswersOnce, HandlersRunOpen, ClosedPeers, [Next]_vars
  PROVE  ClosedPeers'
<1> USE DEF ClosedPeers, TypeOK, peerVars
<1>1. ASSUME NEW c \in Conns, JoinGetSession(c) \/ JoinAddPeer(c) PROVE ClosedPeers'
  <2>1. ice[c] = "none" /\ http[c] = "serving" /\ c \notin peerClosed
    BY <1>1 DEF JoinGetSession, JoinAddPeer, AnswersOnce, HandlersRunOpen
  <2> QED BY <1>1, <2>1 DEF JoinGetSession, JoinAddPeer
<1>2. ASSUME NEW c \in Conns, IceFails(c) \/ IceUnregisters(c) \/ IceClosesConn(c)
      PROVE  ClosedPeers'
  BY <1>2 DEF IceFails, IceUnregisters, IceClosesConn, ClosePeer
<1>3. ASSUME NEW c \in Conns, DeferredClose(c) \/ HttpUnregisters(c) PROVE ClosedPeers'
  BY <1>3 DEF DeferredClose, HttpUnregisters, ClosePeer
<1>4. ASSUME NEW c \in Conns,
             Upgrade(c) \/ UpgradeFails(c) \/ Serve(c) \/ Disconnected(c) \/ Connect(c)
      PROVE  ClosedPeers'
  BY <1>4 DEF Upgrade, UpgradeFails, Serve, Disconnected, Connect, HandlersRunOpen
<1>5. ASSUME NEW c \in Conns,
             Join(c) \/ JoinRefused(c) \/ JoinFails(c) \/ Answer(c) \/ Listen(c)
               \/ PresenceSet(c) \/ PresenceGetSession(c) \/ ReadEnds(c) \/ ListenerEnds(c)
      PROVE  ClosedPeers'
  BY <1>5 DEF Join, JoinRefused, JoinFails, Answer, Listen, PresenceSet, PresenceGetSession,
              ReadEnds, ListenerEnds, AnswersOnce
<1>6. CASE UNCHANGED vars
  BY <1>6 DEF vars
<1> QED BY <1>1, <1>2, <1>3, <1>4, <1>5, <1>6 DEF Next, Http, Handler, Ice

\* A look-up gives a new Session, or the registered one, whatever state it is in.
LEMMA EnsureIsFresh ==
  ASSUME TypeOK, KnownSessions, NEW s \in Sids, EnsureSession(s)
  PROVE  /\ closed' = closed
         /\ \A t \in Sids : sessions'[t] # sessions[t] => sessions'[t] \notin closed
<1>1. closed' = closed BY DEF EnsureSession
<1>2. CASE sessions[s] # None
  BY <1>1, <1>2 DEF EnsureSession
<1>3. CASE sessions[s] = None
  <2>1. created \in Nat /\ created' = created + 1
        /\ sessions' = [sessions EXCEPT ![s] = <<s, created'>>]
    BY <1>3 DEF EnsureSession, TypeOK
  <2>2. <<s, created'>> \notin closed
    BY <2>1 DEF KnownSessions, TypeOK
  <2> QED BY <1>1, <2>1, <2>2 DEF TypeOK
<1> QED BY <1>2, <1>3

\* Every step keeps somebody who will close, or unregister, a joined Session.
LEMMA HeldStep ==
  ASSUME TypeOK, AnswersOnce, LocalInv, HandlersRunOpen, ClosedPeers, OpenHasPeer,
         ClosedIsUnregistered, [Next]_vars
  PROVE  OpenHasPeer' /\ ClosedIsUnregistered'
<1> USE DEF peerVars, coordVars
<1>1. ASSUME NEW c \in Conns, Connect(c) \/ Join(c) \/ Listen(c) \/ PresenceGetSession(c)
      PROVE  OpenHasPeer' /\ ClosedIsUnregistered'
  <2>1. PICK s \in Sids : EnsureSession(s)
    BY <1>1 DEF Connect, Join, Listen, PresenceGetSession
  <2>2. UNCHANGED <<joined, peerClosed, ice>>
    BY <1>1 DEF Connect, Join, Listen, PresenceGetSession
  <2>3. \A d \in Conns : Unregistering(d) => Unregistering(d)'
    BY <1>1 DEF Connect, Join, Listen, PresenceGetSession, Unregistering, TypeOK
  <2>4. closed' = closed /\ \A t \in Sids : sessions'[t] # sessions[t] => sessions'[t] \notin closed
    BY <2>1, EnsureIsFresh DEF LocalInv
  <2>5. OpenHasPeer' BY <2>2, <2>4 DEF OpenHasPeer
  <2>6. ClosedIsUnregistered' BY <2>2, <2>3, <2>4 DEF ClosedIsUnregistered
  <2> QED BY <2>5, <2>6
<1>2. ASSUME NEW c \in Conns, JoinGetSession(c) PROVE OpenHasPeer' /\ ClosedIsUnregistered'
  <2>1. /\ EnsureSession(Sid[c]) /\ UNCHANGED <<http, ice, peerClosed>>
        /\ joined[c] = None /\ joined' = [joined EXCEPT ![c] = sessions'[Sid[c]]]
    BY <1>2 DEF JoinGetSession
  <2>2. closed' = closed /\ \A t \in Sids : sessions'[t] # sessions[t] => sessions'[t] \notin closed
    BY <2>1, EnsureIsFresh DEF LocalInv
  <2>3. c \notin peerClosed
    BY <1>2 DEF JoinGetSession, AnswersOnce, HandlersRunOpen, ClosedPeers
  <2>4. \A d \in Conns : d # c => joined'[d] = joined[d]
    BY <2>1 DEF TypeOK
  <2>5. OpenHasPeer'
    <3> SUFFICES ASSUME NEW e \in Conns, joined'[e] # None, joined'[e] \notin closed
                 PROVE  \E d \in Conns : joined'[d] = joined'[e] /\ d \notin peerClosed
      BY <2>1, <2>2 DEF OpenHasPeer
    <3>1. CASE e = c BY <3>1, <2>3
    <3>2. CASE e # c
      <4>1. PICK d \in Conns : joined[d] = joined[e] /\ d \notin peerClosed
        BY <3>2, <2>4 DEF OpenHasPeer
      <4>2. d # c BY <3>2, <4>1, <2>1, <2>4
      <4> QED BY <3>2, <4>1, <4>2, <2>4
    <3> QED BY <3>1, <3>2
  <2>6. ClosedIsUnregistered'
    <3> SUFFICES ASSUME NEW s \in Sids, sessions'[s] \in closed
                 PROVE  \E d \in Conns : joined'[d] = sessions'[s] /\ Unregistering(d)'
      BY <2>2 DEF ClosedIsUnregistered
    <3>1. sessions'[s] = sessions[s] BY <2>2
    <3>2. PICK d \in Conns : joined[d] = sessions[s] /\ Unregistering(d)
      BY <3>1 DEF ClosedIsUnregistered
    <3>3. d # c BY <3>2, <2>1 DEF LocalInv, UnregistersOwnSession
    <3> QED BY <3>1, <3>2, <3>3, <2>1, <2>4 DEF Unregistering
  <2> QED BY <2>5, <2>6
<1>3. ASSUME NEW c \in Conns, DeferredClose(c) \/ IceFails(c)
      PROVE  OpenHasPeer' /\ ClosedIsUnregistered'
  <2>1. ClosePeer(c) BY <1>3 DEF DeferredClose, IceFails
  <2>2. UNCHANGED <<joined, sessions>> /\ peerClosed' = peerClosed \cup {c}
    BY <2>1 DEF ClosePeer
  <2>3. \A d \in Conns : Unregistering(d) => Unregistering(d)'
    BY <1>3 DEF DeferredClose, IceFails, Unregistering, TypeOK
  <2>4. CASE ClosesSession(c)
    <3>1. closed' = closed \cup {joined[c]} /\ Peers(joined[c]) \ {c} = {}
      BY <2>1, <2>4 DEF ClosePeer, ClosesSession
    <3>2. Unregistering(c)'
      BY <1>3, <2>4 DEF DeferredClose, IceFails, Unregistering, TypeOK
    <3>3. OpenHasPeer' BY <2>2, <3>1 DEF OpenHasPeer
    <3>4. ClosedIsUnregistered' BY <2>2, <2>3, <3>1, <3>2 DEF ClosedIsUnregistered
    <3> QED BY <3>3, <3>4
  <2>5. CASE ~ClosesSession(c)
    <3>1. closed' = closed BY <2>1, <2>5 DEF ClosePeer
    <3>2. OpenHasPeer'
      <4> SUFFICES ASSUME NEW e \in Conns, joined[e] # None, joined[e] \notin closed
                   PROVE  \E d \in Conns : joined[d] = joined[e] /\ d \notin peerClosed'
        BY <2>2, <3>1 DEF OpenHasPeer
      <4>1. PICK d \in Conns : joined[d] = joined[e] /\ d \notin peerClosed
        BY DEF OpenHasPeer
      <4>2. CASE d # c BY <4>1, <4>2, <2>2
      <4>3. CASE d = c
        <5>1. PICK f \in Peers(joined[c]) : f # c
          BY <4>1, <4>3, <2>5 DEF ClosesSession
        <5>2. f \in Conns /\ joined[f] = joined[e] /\ f \notin peerClosed
          BY <4>1, <4>3, <5>1 DEF Peers, TypeOK, ClosedPeers
        <5> QED BY <5>1, <5>2, <2>2
      <4> QED BY <4>2, <4>3
    <3>3. ClosedIsUnregistered' BY <2>2, <2>3, <3>1 DEF ClosedIsUnregistered
    <3> QED BY <3>2, <3>3
  <2> QED BY <2>4, <2>5
<1>4. ASSUME NEW c \in Conns, HttpUnregisters(c) \/ IceUnregisters(c)
      PROVE  OpenHasPeer' /\ ClosedIsUnregistered'
  <2>1. /\ UNCHANGED <<joined, peerClosed, closed>>
        /\ sessions' = [sessions EXCEPT ![Sid[c]] = None]
    BY <1>4 DEF HttpUnregisters, IceUnregisters, OnSessionClosed
  <2>2. \A d \in Conns \ {c} : Unregistering(d) => Unregistering(d)'
    BY <1>4 DEF HttpUnregisters, IceUnregisters, Unregistering, TypeOK
  <2>3. ClosedIsUnregistered'
    <3> SUFFICES ASSUME NEW s \in Sids, sessions'[s] \in closed
                 PROVE  \E d \in Conns : joined[d] = sessions'[s] /\ Unregistering(d)'
      BY <2>1 DEF ClosedIsUnregistered
    <3>1. s # Sid[c] /\ sessions'[s] = sessions[s]
      BY <2>1 DEF TypeOK
    <3>2. PICK d \in Conns : joined[d] = sessions[s] /\ Unregistering(d)
      BY <3>1 DEF ClosedIsUnregistered
    <3>3. sessions[s] # None /\ sessions[Sid[c]] = joined[c] /\ joined[c] # None
      BY <1>4, <3>1 DEF TypeOK, HttpUnregisters, IceUnregisters, Unregistering, LocalInv,
                        UnregistersOwnSession
    <3>4. d # c BY <3>1, <3>2, <3>3 DEF LocalInv, KnownSessions, Known
    <3> QED BY <3>1, <3>2, <3>4, <2>2
  <2>4. OpenHasPeer' BY <2>1 DEF OpenHasPeer
  <2> QED BY <2>3, <2>4
<1>5. ASSUME UNCHANGED <<joined, peerClosed, sessions, closed>>,
             \A d \in Conns : Unregistering(d) => Unregistering(d)'
      PROVE  OpenHasPeer' /\ ClosedIsUnregistered'
  BY <1>5 DEF OpenHasPeer, ClosedIsUnregistered
<1>6. ASSUME NEW c \in Conns,
             \/ Upgrade(c) \/ UpgradeFails(c) \/ Serve(c) \/ Disconnected(c) \/ ReadEnds(c)
             \/ ListenerEnds(c) \/ IceClosesConn(c) \/ JoinRefused(c) \/ JoinAddPeer(c)
             \/ JoinFails(c) \/ Answer(c) \/ PresenceSet(c)
      PROVE  OpenHasPeer' /\ ClosedIsUnregistered'
  <2>1. UNCHANGED <<joined, peerClosed, sessions, closed>>
    BY <1>6 DEF Upgrade, UpgradeFails, Serve, Disconnected, ReadEnds, ListenerEnds, IceClosesConn,
                JoinRefused, JoinAddPeer, JoinFails, Answer, PresenceSet
  <2>2. \A d \in Conns : Unregistering(d) => Unregistering(d)'
    BY <1>6 DEF Upgrade, UpgradeFails, Serve, Disconnected, ReadEnds, ListenerEnds, IceClosesConn,
                JoinRefused, JoinAddPeer, JoinFails, Answer, PresenceSet, Unregistering, TypeOK,
                AnswersOnce
  <2> QED BY <2>1, <2>2, <1>5
<1>7. CASE UNCHANGED vars
  BY <1>7, <1>5 DEF vars, Unregistering
<1> QED BY <1>1, <1>2, <1>3, <1>4, <1>6, <1>7 DEF Next, Http, Handler, Ice

(***************************************************************************)
(* A Session that was joined does not stay behind: while it is registered, *)
(* the http handler of one of the peers that joined it, in a join that     *)
(* succeeded or failed, has not closed it yet, or the close handler is     *)
(* about to run.  Only the Sessions of look-ups nobody joined after can be *)
(* left when every connection is over.                                     *)
(***************************************************************************)
THEOREM JoinedSessionsAreClosed == Spec => []JoinedSessionsGoAway
<1>1. Init => HandlersRunOpen /\ ClosedPeers /\ OpenHasPeer /\ ClosedIsUnregistered
  BY DEF Init, HandlersRunOpen, ClosedPeers, OpenHasPeer, ClosedIsUnregistered
<1>2. TypeOK /\ AnswersOnce /\ LocalInv
        /\ HandlersRunOpen /\ ClosedPeers /\ OpenHasPeer /\ ClosedIsUnregistered /\ [Next]_vars
      => HandlersRunOpen' /\ ClosedPeers' /\ OpenHasPeer' /\ ClosedIsUnregistered'
  BY HandlersRunOpenStep, ClosedPeersStep, HeldStep
<1>3. ClosedPeers /\ OpenHasPeer /\ ClosedIsUnregistered => JoinedSessionsGoAway
  <2> SUFFICES ASSUME ClosedPeers, OpenHasPeer, ClosedIsUnregistered, NEW c \in Conns,
                      joined[c] # None, sessions[Sid[c]] = joined[c]
               PROVE  \E d \in Conns :
                        joined[d] = joined[c] /\ (ToBeClosed(d) \/ Unregistering(d))
    BY DEF JoinedSessionsGoAway
  <2>1. CASE joined[c] \in closed
    BY <2>1 DEF ClosedIsUnregistered
  <2>2. CASE joined[c] \notin closed
    <3>1. PICK d \in Conns : joined[d] = joined[c] /\ d \notin peerClosed
      BY <2>2 DEF OpenHasPeer
    <3>2. ToBeClosed(d) BY <3>1 DEF ToBeClosed, ClosedPeers
    <3> QED BY <3>1, <3>2
  <2> QED BY <2>1, <2>2
<1> QED BY <1>1, <1>2, <1>3, LocalInvariant, PTL DEF Spec

(***************************************************************************)
(* prometheusGaugeSessions is the number of registered Sessions after      *)
(* every step: each deletion of onSessionClosed finds an entry to delete,  *)
(* so that its Dec matches exactly one Inc of ensureSession.               *)
(***************************************************************************)
THEOREM GaugeCorrect == Spec => []GaugeCountsRegistered
<1>1. Init => GaugeCountsRegistered
  <2> SUFFICES ASSUME Init PROVE GaugeCountsRegistered
    OBVIOUS
  <2>1. Registered = {} BY DEF Init, Registered
  <2> QED BY <2>1, FS_EmptySet DEF Init, GaugeCountsRegistered
<1>2. TypeOK /\ LocalInv /\ GaugeCountsRegistered /\ [Next]_vars => GaugeCountsRegistered'
  <2> SUFFICES ASSUME TypeOK, LocalInv, GaugeCountsRegistered, [Next]_vars
               PROVE  GaugeCountsRegistered'
    OBVIOUS
  <2> USE DEF peerVars, coordVars
  <2>1. IsFiniteSet(Registered) /\ Cardinality(Registered) \in Nat
    <3>1. Registered \subseteq Sids BY DEF Registered
    <3> QED BY <3>1, SidsFinite, FS_Subset, FS_CardinalityType
  <2>2. CASE UNCHANGED <<sessions, gaugeSessions>>
    BY <2>2 DEF GaugeCountsRegistered, Registered
  <2>3. ASSUME NEW s \in Sids, EnsureSession(s) PROVE GaugeCountsRegistered'
    <3>1. CASE sessions[s] # None
      BY <2>2, <2>3, <3>1 DEF EnsureSession
    <3>2. CASE sessions[s] = None
      <4>1. gaugeSessions' = gaugeSessions + 1 /\ sessions'[s] # None
        BY <2>3, <3>2, EnsureSessionType DEF EnsureSession
      <4>2. sessions' = [sessions EXCEPT ![s] = <<s, created'>>]
        BY <2>3, <3>2 DEF EnsureSession
      <4>3. Registered' = Registered \cup {s} /\ s \notin Registered
        BY <3>2, <4>1, <4>2 DEF Registered, TypeOK
      <4>4. Cardinality(Registered \cup {s}) = Cardinality(Registered) + 1
        BY <2>1, <4>3, FS_AddElement
      <4> QED BY <4>1, <4>3, <4>4 DEF GaugeCountsRegistered
    <3> QED BY <3>1, <3>2
  <2>4. ASSUME NEW c \in Conns, HttpUnregisters(c) \/ IceUnregisters(c)
        PROVE  GaugeCountsRegistered'
    <3>1. /\ sessions' = [sessions EXCEPT ![Sid[c]] = None]
          /\ gaugeSessions' = gaugeSessions - 1
          /\ sessions[Sid[c]] # None
      BY <2>4 DEF HttpUnregisters, IceUnregisters, OnSessionClosed, LocalInv,
                  UnregistersOwnSession, Unregistering
    <3>2. Registered' = Registered \ {Sid[c]} /\ Sid[c] \in Registered
      BY <3>1 DEF Registered, TypeOK
    <3>3. Cardinality(Registered \ {Sid[c]}) = Cardinality(Registered) - 1
      BY <2>1, <3>2, FS_RemoveElement
    <3> QED BY <3>1, <3>2, <3>3 DEF GaugeCountsRegistered
  <2>5. ASSUME NEW c \in Conns,
               Upgrade(c) \/ UpgradeFails(c) \/ Serve(c) \/ Disconnected(c) \/ DeferredClose(c)
                 \/ ReadEnds(c) \/ ListenerEnds(c) \/ IceFails(c) \/ IceClosesConn(c)
        PROVE  GaugeCountsRegistered'
    BY <2>2, <2>5 DEF Upgrade, UpgradeFails, Serve, Disconnected, DeferredClose, ClosePeer,
                      ReadEnds, ListenerEnds, IceFails, IceClosesConn
  <2>6. ASSUME NEW c \in Conns,
               JoinRefused(c) \/ JoinAddPeer(c) \/ JoinFails(c) \/ Answer(c) \/ PresenceSet(c)
        PROVE  GaugeCountsRegistered'
    BY <2>2, <2>6 DEF JoinRefused, JoinAddPeer, JoinFails, Answer, PresenceSet
  <2>7. ASSUME NEW c \in Conns,
               Connect(c) \/ Join(c) \/ JoinGetSession(c) \/ Listen(c) \/ PresenceGetSession(c)
        PROVE  GaugeCountsRegistered'
    BY <2>3, <2>7 DEF Connect, Join, JoinGetSession, Listen, PresenceGetSession
  <2>8. CASE UNCHANGED vars
    BY <2>2, <2>8 DEF vars
  <2> QED BY <2>4, <2>5, <2>6, <2>7, <2>8 DEF Next, Http, Handler, Ice
<1> QED BY <1>1, <1>2, LocalInvariant, PTL DEF Spec
-------------------------------------------------------------------------------
\* The abstract registry

\* A look-up finds the Session of the id, or opens a new one.
LEMMA EnsureRefines ==
  ASSUME TypeOK, LocalInv, NEW s \in Sids, EnsureSession(s)
  PROVE  [Registry!Next]_(Registry!vars)
<1>1. CASE sessions[s] # None
  BY <1>1 DEF EnsureSession, Registry!vars
<1>2. CASE sessions[s] = None
  <2> DEFINE o == <<s, created + 1>>
  <2>1. sessions' = [sessions EXCEPT ![s] = o] /\ closed' = closed
    BY <1>2 DEF EnsureSession
  <2>2. created \in Nat /\ sessions \in [Sids -> Objects \cup {None}] BY DEF TypeOK
  <2>3. o \in Objects /\ o[1] = s /\ o[2] = created + 1 BY <2>2 DEF Objects
  <2>4. o \notin closed
    <3>1. \A p \in closed : p[2] <= created BY DEF LocalInv, KnownSessions
    <3> QED BY <2>2, <2>3, <3>1
  <2> HIDE DEF o
  <2>5. sessions'[s] = o BY <2>1, <2>2
  <2>6. Registry!Open(s) BY <1>2, <2>1, <2>3, <2>4, <2>5 DEF Registry!Open
  <2> QED BY <2>6 DEF Registry!Next
<1> QED BY <1>1, <1>2

\* The first Close of the last peer closes the registered Session, any other one none.
LEMMA CloseRefines ==
  ASSUME TypeOK, LocalInv, NEW c \in Conns, ClosePeer(c)
  PROVE  [Registry!Next]_(Registry!vars)
<1>1. sessions' = sessions BY DEF ClosePeer
<1>2. CASE ~ClosesSession(c) BY <1>1, <1>2 DEF ClosePeer, Registry!vars
<1>3. CASE ClosesSession(c)
  <2>1. /\ closed' = closed \cup {joined[c]} /\ joined[c] \notin closed /\ joined[c] # None
        /\ sessions[Sid[c]] = joined[c]
    BY <1>3 DEF ClosePeer, ClosesSession, LocalInv, OpenIsRegistered
  <2>2. Registry!Close(Sid[c]) BY <1>1, <2>1 DEF Registry!Close
  <2> QED BY <2>2 DEF Registry!Next
<1> QED BY <1>2, <1>3

\* The close handler forgets the Session whose close called it.
LEMMA UnregisterRefines ==
  ASSUME LocalInv, NEW c \in Conns, Unregistering(c), OnSessionClosed(Sid[c])
  PROVE  [Registry!Next]_(Registry!vars)
<1>1. sessions[Sid[c]] \in closed
  BY DEF LocalInv, UnregistersOwnSession, UnregisteringIsClosed
<1>2. Registry!Forget(Sid[c]) BY <1>1 DEF OnSessionClosed, Registry!Forget
<1> QED BY <1>2 DEF Registry!Next

(***************************************************************************)
(* localCoordinator implements SessionRegistry: however the goroutines of  *)
(* the connections interleave with the close handler, a Session is found   *)
(* until it was closed, it is closed once, and only then removed.          *)
(***************************************************************************)
THEOREM RegistryImplemented == Spec => ImplementsRegistry
<1>1. Init => Registry!Init
  BY DEF Init, Registry!Init
<1>2. TypeOK /\ LocalInv /\ [Next]_vars => [Registry!Next]_(Registry!vars)
  <2> SUFFICES ASSUME TypeOK, LocalInv, [Next]_vars PROVE [Registry!Next]_(Registry!vars)
    OBVIOUS
  <2>1. ASSUME NEW s \in Sids, EnsureSession(s) PROVE [Registry!Next]_(Registry!vars)
    BY <2>1, EnsureRefines
  <2>2. ASSUME NEW c \in Conns, ClosePeer(c) PROVE [Registry!Next]_(Registry!vars)
    BY <2>2, CloseRefines
  <2>3. ASSUME NEW c \in Conns, HttpUnregisters(c) \/ IceUnregisters(c)
        PROVE  [Registry!Next]_(Registry!vars)
    BY <2>3, UnregisterRefines DEF HttpUnregisters, IceUnregisters, Unregistering
  <2>4. ASSUME UNCHANGED coordVars PROVE [Registry!Next]_(Registry!vars)
    BY <2>4 DEF coordVars, Registry!vars
  <2>5. ASSUME NEW c \in Conns,
               \/ Upgrade(c) \/ UpgradeFails(c) \/ Serve(c) \/ Disconnected(c) \/ ReadEnds(c)
               \/ ListenerEnds(c) \/ IceClosesConn(c) \/ JoinRefused(c) \/ JoinAddPeer(c)
               \/ JoinFails(c) \/ Answer(c) \/ PresenceSet(c)
        PROVE  UNCHANGED coordVars
    BY <2>5 DEF Upgrade, UpgradeFails, Serve, Disconnected, ReadEnds, ListenerEnds, IceClosesConn,
                JoinRefused, JoinAddPeer, JoinFails, Answer, PresenceSet
  <2>6. ASSUME NEW c \in Conns,
               Connect(c) \/ Join(c) \/ JoinGetSession(c) \/ Listen(c) \/ PresenceGetSession(c)
        PROVE  \E s \in Sids : EnsureSession(s)
    BY <2>6 DEF Connect, Join, JoinGetSession, Listen, PresenceGetSession
  <2>7. ASSUME NEW c \in Conns, DeferredClose(c) \/ IceFails(c) PROVE ClosePeer(c)
    BY <2>7 DEF DeferredClose, IceFails
  <2>8. CASE UNCHANGED vars BY <2>4, <2>8 DEF vars
  <2> QED BY <2>1, <2>2, <2>3, <2>4, <2>5, <2>6, <2>7, <2>8 DEF Next, Http, Handler, Ice
<1> QED BY <1>1, <1>2, LocalInvariant, PTL DEF Spec, ImplementsRegistry, Registry!Spec
===============================================================================
