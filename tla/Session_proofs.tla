---------------------------- MODULE Session_proofs ----------------------------
(***************************************************************************)
(* Theorems about Session, for any number of Sessions, connections, peer   *)
(* ids and updates and any capacity of the channels.  The revisions are as *)
(* they should be under every fault and however peer ids are shared; the   *)
(* last two theorems need what they assume and except: the runs of         *)
(* SessionSharedUid.cfg and SessionLateJoin.cfg show it for shared ids and *)
(* late peers, SessionPresence.cfg with "iceFailure" in Faults for ICE.    *)
(***************************************************************************)
EXTENDS Session, SequenceTheorems, TLAPS

USE UidOfConn, NoneIsNoValue

-------------------------------------------------------------------------------
\* The operations of the Session

\* The update of one entry of a function of functions.
LEMMA EntryUpdate ==
  ASSUME NEW S, NEW T, NEW R, NEW f \in [S -> [T -> R]], NEW k \in S, NEW t \in T, NEW x \in R
  PROVE  LET g == [f EXCEPT ![k][t] = x] IN
         /\ g \in [S -> [T -> R]]
         /\ \A l \in S, v \in T : g[l][v] = IF l = k /\ v = t THEN x ELSE f[l][v]
<1> DEFINE h == [f[k] EXCEPT ![t] = x]
           g == [f EXCEPT ![k] = h]
<1>1. h \in [T -> R] /\ \A v \in T : h[v] = IF v = t THEN x ELSE f[k][v]
  OBVIOUS
<1> HIDE DEF h
<1>2. g \in [S -> [T -> R]] /\ \A l \in S : g[l] = IF l = k THEN h ELSE f[l]
  BY <1>1
<1>3. [f EXCEPT ![k][t] = x] = g BY DEF h
<1> HIDE DEF g
<1>4. \A l \in S, v \in T : g[l][v] = IF l = k /\ v = t THEN x ELSE f[l][v]
  BY <1>1, <1>2
<1> QED BY <1>2, <1>3, <1>4

\* What the operations do to the map of peers ...
LEMMA PeersUpdate ==
  ASSUME TypeOK, NEW c \in Conns, joined[c] \in Sessions
  PROVE  /\ JoinSession(c) =>
              /\ peers' \in [Sessions -> [Uids -> Conns \cup {None}]]
              /\ \A l \in Sessions, v \in Uids :
                   peers'[l][v] = IF l = joined[c] /\ v = Uid[c] THEN c ELSE peers[l][v]
         /\ LeaveSession(c) =>
              /\ peers' \in [Sessions -> [Uids -> Conns \cup {None}]]
              /\ \A l \in Sessions, v \in Uids :
                   v # Uid[c] => peers'[l][v] = peers[l][v]
<1>1. peers \in [Sessions -> [Uids -> Conns \cup {None}]] /\ Uid[c] \in Uids BY DEF TypeOK
<1>2. ASSUME JoinSession(c)
      PROVE  /\ peers' \in [Sessions -> [Uids -> Conns \cup {None}]]
             /\ \A l \in Sessions, v \in Uids :
                  peers'[l][v] = IF l = joined[c] /\ v = Uid[c] THEN c ELSE peers[l][v]
  <2>1. peers' = [peers EXCEPT ![joined[c]][Uid[c]] = c] BY <1>2 DEF JoinSession
  <2>2. c \in Conns \cup {None} OBVIOUS
  <2> QED BY <1>1, <2>1, <2>2, EntryUpdate
<1>3. ASSUME LeaveSession(c)
      PROVE  /\ peers' \in [Sessions -> [Uids -> Conns \cup {None}]]
             /\ \A l \in Sessions, v \in Uids : v # Uid[c] => peers'[l][v] = peers[l][v]
  <2>1. peers' = peers \/ peers' = [peers EXCEPT ![joined[c]][Uid[c]] = None]
    BY <1>3 DEF LeaveSession
  <2>2. None \in Conns \cup {None} OBVIOUS
  <2>3. CASE peers' = [peers EXCEPT ![joined[c]][Uid[c]] = None]
    BY <1>1, <2>2, <2>3, EntryUpdate
  <2> QED BY <1>1, <2>1, <2>3
<1> QED BY <1>2, <1>3

\* ... and to the map of listeners.
LEMMA ListenersUpdate ==
  ASSUME TypeOK, NEW c \in Conns, captured[c] \in Sessions, Listen(c) \/ Stop(c)
  PROVE  /\ broadcastListeners' \in [Sessions -> [Uids -> Conns \cup {None}]]
         /\ \A l \in Sessions, v \in Uids :
              broadcastListeners'[l][v] = IF l = captured[c] /\ v = Uid[c]
                                            THEN IF Listen(c) THEN c ELSE None
                                            ELSE broadcastListeners[l][v]
<1>1. /\ broadcastListeners \in [Sessions -> [Uids -> Conns \cup {None}]] /\ Uid[c] \in Uids
      /\ c \in Conns \cup {None} /\ None \in Conns \cup {None}
  BY DEF TypeOK
<1>2. CASE Listen(c)
  <2>1. broadcastListeners' = [broadcastListeners EXCEPT ![captured[c]][Uid[c]] = c]
    BY <1>2 DEF Listen, BroadcastAddListener
  <2> QED BY <1>1, <1>2, <2>1, EntryUpdate
<1>3. CASE ~Listen(c) /\ Stop(c)
  <2>1. broadcastListeners' = [broadcastListeners EXCEPT ![captured[c]][Uid[c]] = None]
    BY <1>3 DEF Stop, BroadcastRemoveListener
  <2> QED BY <1>1, <1>3, <2>1, EntryUpdate
<1> QED BY <1>2, <1>3

\* A broadcast appends the message to the channels of the Session that have room.
LEMMA BroadcastType ==
  ASSUME TypeOK, NEW k \in Sessions, NEW msg \in Message, Broadcast(k, msg)
  PROVE  /\ listen' \in [Conns -> Seq(Message)]
         /\ \A c \in Conns :
              /\ Len(listen'[c]) <= Cap
              /\ \/ listen'[c] = listen[c]
                 \/ Listening(c, k) /\ listen'[c] = Append(listen[c], msg)
<1> SUFFICES ASSUME NEW c \in Conns
             PROVE  /\ listen'[c] \in Seq(Message) /\ Len(listen'[c]) <= Cap
                    /\ \/ listen'[c] = listen[c]
                       \/ Listening(c, k) /\ listen'[c] = Append(listen[c], msg)
  BY DEF Broadcast
<1>1. listen[c] \in Seq(Message) /\ Len(listen[c]) \in Nat /\ Len(listen[c]) <= Cap
  BY LenProperties DEF TypeOK
<1>2. CASE Listening(c, k) /\ Len(listen[c]) < Cap
  <2>1. listen'[c] = Append(listen[c], msg) BY <1>2 DEF Broadcast
  <2>2. Append(listen[c], msg) \in Seq(Message) /\ Len(Append(listen[c], msg)) = Len(listen[c]) + 1
    BY <1>1, AppendProperties
  <2> QED BY <1>1, <1>2, <2>1, <2>2, CapPositive
<1>3. CASE ~(Listening(c, k) /\ Len(listen[c]) < Cap)
  <2>1. listen'[c] = listen[c] BY <1>3 DEF Broadcast
  <2> QED BY <1>1, <2>1
<1> QED BY <1>2, <1>3

\* UpdatePresenceMetaForPeer increments the revision and broadcasts the new map.
LEMMA UpdateType ==
  ASSUME TypeOK, NEW k \in Sessions, NEW u \in Uids, NEW m \in Metas \cup {None},
         UpdatePresenceMetaForPeer(k, u, m)
  PROVE  LET msg == [revision |-> presenceRevision'[k], meta |-> presence'[k]] IN
         /\ presence' \in [Sessions -> Presence]
         /\ presenceRevision' \in [Sessions -> Nat]
         /\ presenceRevision'[k] = presenceRevision[k] + 1
         /\ \A l \in Sessions : l # k => /\ presenceRevision'[l] = presenceRevision[l]
                                        /\ presence'[l] = presence[l]
         /\ \A v \in Uids : presence'[k][v] = IF v = u THEN m ELSE presence[k][v]
         /\ msg \in Message /\ Broadcast(k, msg)
<1>1. presence \in [Sessions -> Presence] /\ presenceRevision \in [Sessions -> Nat]
  BY DEF TypeOK
<1>2. presenceRevision' = [presenceRevision EXCEPT ![k] = @ + 1]
      /\ presence' = [presence EXCEPT ![k][u] = m]
  BY DEF UpdatePresenceMetaForPeer
<1>3. [presence[k] EXCEPT ![u] = m] \in Presence BY <1>1 DEF Presence
<1>4. presence' \in [Sessions -> Presence] /\ presenceRevision' \in [Sessions -> Nat]
  BY <1>1, <1>2, <1>3
<1>5. \A v \in Uids : presence'[k][v] = IF v = u THEN m ELSE presence[k][v]
  BY <1>1, <1>2 DEF Presence
<1>6. /\ presenceRevision'[k] = presenceRevision[k] + 1
      /\ \A l \in Sessions : l # k => /\ presenceRevision'[l] = presenceRevision[l]
                                     /\ presence'[l] = presence[l]
  BY <1>1, <1>2
<1>7. [revision |-> presenceRevision'[k], meta |-> presence'[k]] \in Message
  BY <1>4 DEF Message
<1> QED BY <1>4, <1>5, <1>6, <1>7 DEF UpdatePresenceMetaForPeer

\* The entry of the peer in the Session is the only one that changes.
LEMMA UpdateOneEntry ==
  ASSUME TypeOK, NEW k \in Sessions, NEW u \in Uids, NEW m \in Metas \cup {None},
         UpdatePresenceMetaForPeer(k, u, m)
  PROVE  \A l \in Sessions, v \in Uids :
           presence'[l][v] = IF l = k /\ v = u THEN m ELSE presence[l][v]
<1>1. presence \in [Sessions -> [Uids -> Metas \cup {None}]] BY DEF TypeOK, Presence
<1>2. presence' = [presence EXCEPT ![k][u] = m] BY DEF UpdatePresenceMetaForPeer
<1> QED BY <1>1, <1>2, EntryUpdate

\* GetSession gives its caller a Session, and forgets none.
LEMMA GetSessionType ==
  ASSUME TypeOK, GetSession
  PROVE  /\ created' \in 0 .. MaxSessions /\ registered' \in 1 .. created'
         /\ created <= created'
         /\ registered # 0 => registered' = registered /\ created' = created
         /\ registered = 0 => registered' = created + 1 /\ created' = created + 1
BY BoundsAreNat DEF TypeOK, GetSession

\* A Session of a connection is one of those that exist.
LEMMA SessionsOfConns ==
  ASSUME TypeOK
  PROVE  /\ created \in Nat /\ \A k \in 1 .. created : k \in Sessions
         /\ \A c \in Conns : conn[c] # "new" => joined[c] \in Sessions
         /\ \A c \in Conns : conn[c] \in {"captured", "listening", "removed", "gone"}
                              => captured[c] \in Sessions
         /\ \A c \in Conns : target[c] # 0 => target[c] \in Sessions
BY BoundsAreNat DEF TypeOK, Sessions

\* The number of Sessions grows: what was a Session is one.
LEMMA MoreSessions ==
  ASSUME TypeOK, GetSession
  PROVE  \A k \in 0 .. created : k \in 0 .. created'
<1>1. created \in Nat /\ created' \in Nat /\ created <= created'
  BY GetSessionType, SessionsOfConns, BoundsAreNat
<1> QED BY <1>1

(***************************************************************************)
(* Every operation of the Session and of the goroutines around it keeps    *)
(* the state well typed; in particular no broadcast puts more into a       *)
(* channel than its capacity, which would block it under s.mu.             *)
(***************************************************************************)
THEOREM TypeCorrect == Spec => []TypeOK
<1>1. Init => TypeOK
  <2> SUFFICES ASSUME Init PROVE TypeOK
    OBVIOUS
  <2>1. <<>> \in Seq(Message) /\ Len(<<>>) = 0 BY EmptySeq
  <2> QED BY <2>1, CapPositive, BoundsAreNat DEF Init, TypeOK, Presence
<1>2. TypeOK /\ [Next]_vars => TypeOK'
  <2> SUFFICES ASSUME TypeOK, [Next]_vars PROVE TypeOK'
    OBVIOUS
  <2> USE DEF registryVars, presenceVars
  <2>1. ASSUME NEW c \in Conns, Join(c) \/ JoinGetSession(c) \/ PresenceGetSession(c)
        PROVE  TypeOK'
    <3>1. GetSession BY <2>1 DEF Join, JoinGetSession, PresenceGetSession
    <3>2. /\ created' \in 0 .. MaxSessions /\ registered' \in 1 .. created'
          /\ registered' \in 0 .. created' /\ registered' # 0
      BY <3>1, GetSessionType, BoundsAreNat
    <3>3. /\ \A d \in Conns : joined[d] \in 0 .. created' /\ captured[d] \in 0 .. created'
                              /\ target[d] \in 0 .. created'
      BY <3>1, MoreSessions DEF TypeOK
    <3>4. closed \subseteq 1 .. created'
      <4>1. closed \subseteq 1 .. created BY DEF TypeOK
      <4>2. \A k \in 1 .. created : k \in 1 .. created'
        BY <3>1, GetSessionType, SessionsOfConns, BoundsAreNat
      <4> QED BY <4>1, <4>2
    <3>5. CASE Join(c) BY <3>2, <3>3, <3>4, <3>5 DEF TypeOK, Join
    <3>6. CASE JoinGetSession(c) BY <3>2, <3>3, <3>4, <3>6 DEF TypeOK, JoinGetSession
    <3>7. CASE PresenceGetSession(c) BY <3>2, <3>3, <3>4, <3>7 DEF TypeOK, PresenceGetSession
    <3> QED BY <2>1, <3>5, <3>6, <3>7
  <2>2. ASSUME NEW c \in Conns, AddPeer(c) \/ JoinFails(c) PROVE TypeOK'
    <3>1. joined[c] \in Sessions BY <2>2, SessionsOfConns DEF AddPeer, JoinFails
    <3>2. JoinSession(c) \/ UNCHANGED <<peers, late>> BY <2>2 DEF AddPeer, JoinFails
    <3>3. /\ peers' \in [Sessions -> [Uids -> Conns \cup {None}]]
          /\ late' \subseteq Conns
      <4>1. CASE JoinSession(c) BY <3>1, <4>1, PeersUpdate DEF TypeOK, JoinSession
      <4>2. CASE UNCHANGED <<peers, late>> BY <4>2 DEF TypeOK
      <4> QED BY <3>2, <4>1, <4>2
    <3> QED BY <2>2, <3>3 DEF TypeOK, AddPeer, JoinFails
  <2>3. ASSUME NEW c \in Conns, ClosePeer(c) PROVE TypeOK'
    <3>1. joined[c] \in Sessions /\ joined[c] \in 1 .. created
      BY <2>3, SessionsOfConns DEF ClosePeer, TypeOK
    <3>2. LeaveSession(c) BY <2>3 DEF ClosePeer
    <3>3. peers' \in [Sessions -> [Uids -> Conns \cup {None}]] /\ closed' \subseteq 1 .. created
      BY <3>1, <3>2, PeersUpdate DEF TypeOK, LeaveSession
    <3> QED BY <2>3, <3>3 DEF TypeOK, ClosePeer
  <2>4. ASSUME NEW c \in Conns, Listen(c) \/ Stop(c) PROVE TypeOK'
    <3>1. captured[c] \in Sessions BY <2>4, SessionsOfConns DEF Listen, Stop
    <3>2. broadcastListeners' \in [Sessions -> [Uids -> Conns \cup {None}]]
      BY <2>4, <3>1, ListenersUpdate
    <3> QED BY <2>4, <3>2 DEF TypeOK, Listen, Stop
  <2>5. ASSUME NEW c \in Conns, NEW m \in Metas, PresenceSet(c, m) PROVE TypeOK'
    BY <2>5 DEF TypeOK, PresenceSet
  <2>6. ASSUME NEW c \in Conns, PresenceStore(c) PROVE TypeOK'
    <3>1. /\ UpdatePresenceMetaForPeer(target[c], Uid[c], setting[c])
          /\ setting[c] \in Metas \cup {None} /\ target[c] \in Sessions
      BY <2>6, SessionsOfConns DEF PresenceStore, TypeOK
    <3>2. 0 \in 0 .. created BY SessionsOfConns
    <3> QED BY <2>6, <3>1, <3>2, UpdateType, BroadcastType DEF TypeOK, PresenceStore
  <2>7. ASSUME NEW c \in Conns, Clear(c) PROVE TypeOK'
    <3>1. captured[c] \in Sessions BY <2>7, SessionsOfConns DEF Clear
    <3> QED BY <2>7, <3>1, UpdateType, BroadcastType DEF TypeOK, Clear
  <2>8. ASSUME NEW c \in Conns, Deliver(c) PROVE TypeOK'
    <3>1. /\ Head(listen[c]) \in Message
          /\ Tail(listen[c]) \in Seq(Message)
          /\ Len(Tail(listen[c])) <= Cap
      BY <2>8, HeadTailProperties, LenProperties, CapPositive DEF TypeOK, Deliver
    <3>2. Append(seen[c], Head(listen[c])) \in Seq(Message)
      BY <3>1, AppendProperties DEF TypeOK
    <3>3. listen' \in [Conns -> Seq(Message)] /\ \A d \in Conns : Len(listen'[d]) <= Cap
      BY <2>8, <3>1 DEF TypeOK, Deliver
    <3>4. seen' \in [Conns -> Seq(Message)]
      BY <2>8, <3>2 DEF TypeOK, Deliver
    <3> QED BY <2>8, <3>3, <3>4 DEF TypeOK, Deliver
  <2>9. ASSUME NEW c \in Conns, Disconnect(c) PROVE TypeOK'
    BY <2>9 DEF TypeOK, Disconnect
  <2>10. CASE OnSessionClosed
    BY <2>10, SessionsOfConns DEF TypeOK, OnSessionClosed
  <2>11. CASE UNCHANGED vars
    BY <2>11 DEF TypeOK, vars
  <2> QED BY <2>1, <2>2, <2>3, <2>4, <2>5, <2>6, <2>7, <2>8, <2>9, <2>10, <2>11 DEF Next
<1> QED BY <1>1, <1>2, PTL DEF Spec

-------------------------------------------------------------------------------
\* What a client is told

\* The labels of conn once the channel is registered.
Registered == {"listening", "removed", "gone"}

\* A channel is registered with the Session its goroutine captured, and no other ...
ListensWhereCaptured ==
  \A c \in Conns, k \in Sessions :
    Listening(c, k) => captured[c] = k /\ conn[c] \in Registered

\* ... and nothing is told before.
NothingToldEarly == \A c \in Conns : conn[c] \notin Registered => DOMAIN Told(c) = {}

\* Nobody is told of a revision that is still to come.
ToldOfThePast ==
  \A c \in Conns : \A i \in DOMAIN Told(c) :
    Told(c)[i].revision <= presenceRevision[captured[c]]

ToldInv ==
  /\ ListensWhereCaptured /\ NothingToldEarly
  /\ ToldOfThePast /\ RevisionsIncrease /\ RevisionNamesSnapshot

\* t is s without its k-th element.
Without(s, k, t) ==
  /\ Len(t) = Len(s) - 1
  /\ \A i \in 1 .. Len(t) : t[i] = IF i < k THEN s[i] ELSE s[i + 1]

LEMMA ToldType ==
  ASSUME TypeOK, NEW c \in Conns
  PROVE  /\ Told(c) \in Seq(Message) /\ Len(Told(c)) \in Nat
         /\ DOMAIN Told(c) = 1 .. Len(Told(c))
         /\ \A i \in 1 .. Len(Told(c)) : Told(c)[i] \in Message /\ Told(c)[i].revision \in Nat
<1>1. Told(c) \in Seq(Message) BY ConcatProperties DEF TypeOK, Told
<1>2. Len(Told(c)) \in Nat /\ DOMAIN Told(c) = 1 .. Len(Told(c)) BY <1>1, LenProperties
<1>3. \A i \in 1 .. Len(Told(c)) : Told(c)[i] \in Message BY <1>1, ElementOfSeq
<1> QED BY <1>1, <1>2, <1>3 DEF Message

\* A message that entered the channel is told last.
LEMMA ToldAppend ==
  ASSUME NEW s \in Seq(Message), NEW t \in Seq(Message), NEW msg \in Message
  PROVE  s \o Append(t, msg) = Append(s \o t, msg)
<1>1. Append(t, msg) = t \o <<msg>> /\ <<msg>> \in Seq(Message)
  BY AppendIsConcat
<1>2. s \o (t \o <<msg>>) = (s \o t) \o <<msg>>
  BY <1>1, ConcatAssociative
<1>3. s \o t \in Seq(Message) BY ConcatProperties
<1> QED BY <1>1, <1>2, <1>3, AppendIsConcat

\* A message that leaves the channel for the client keeps its place.
LEMMA ToldMove ==
  ASSUME NEW s \in Seq(Message), NEW t \in Seq(Message), t # <<>>
  PROVE  Append(s, Head(t)) \o Tail(t) = s \o t
<1>1. /\ Head(t) \in Message /\ Head(t) = t[1]
      /\ Tail(t) \in Seq(Message) /\ Len(Tail(t)) = Len(t) - 1
      /\ \A i \in 1 .. Len(Tail(t)) : Tail(t)[i] = t[i + 1]
  BY HeadTailProperties
<1>2. Len(s) \in Nat /\ Len(t) \in Nat BY LenProperties
<1>3. /\ Append(s, Head(t)) \in Seq(Message) /\ Len(Append(s, Head(t))) = Len(s) + 1
      /\ \A i \in 1 .. Len(s) : Append(s, Head(t))[i] = s[i]
      /\ Append(s, Head(t))[Len(s) + 1] = t[1]
  BY <1>1, AppendProperties
<1> DEFINE a == Append(s, Head(t)) \o Tail(t)
           b == s \o t
<1>4. /\ a \in Seq(Message) /\ Len(a) = Len(s) + Len(t)
      /\ \A i \in 1 .. Len(s) + Len(t) :
           a[i] = IF i <= Len(s) + 1 THEN Append(s, Head(t))[i] ELSE Tail(t)[i - (Len(s) + 1)]
  BY <1>1, <1>2, <1>3, ConcatProperties
<1>5. /\ b \in Seq(Message) /\ Len(b) = Len(s) + Len(t)
      /\ \A i \in 1 .. Len(s) + Len(t) : b[i] = IF i <= Len(s) THEN s[i] ELSE t[i - Len(s)]
  BY ConcatProperties
<1>6. ASSUME NEW i \in 1 .. Len(s) + Len(t) PROVE a[i] = b[i]
  <2>1. CASE i <= Len(s) BY <1>2, <1>3, <1>4, <1>5, <2>1
  <2>2. CASE i = Len(s) + 1 BY <1>2, <1>3, <1>4, <1>5, <2>2
  <2>3. CASE i > Len(s) + 1
    <3>1. /\ i - (Len(s) + 1) \in 1 .. Len(Tail(t))
          /\ (i - (Len(s) + 1)) + 1 = i - Len(s)
      BY <1>1, <1>2, <2>3
    <3>2. a[i] = Tail(t)[i - (Len(s) + 1)] BY <1>2, <1>4, <2>3
    <3>3. b[i] = t[i - Len(s)] BY <1>2, <1>5, <2>3
    <3> HIDE DEF a, b
    <3> QED BY <1>1, <3>1, <3>2, <3>3
  <2> QED BY <1>2, <2>1, <2>2, <2>3
<1> HIDE DEF a, b
<1>7. a = b BY <1>4, <1>5, <1>6, SeqEqual
<1> QED BY <1>7 DEF a, b

\* A message that is lost leaves the others in their order.
LEMMA ToldLose ==
  ASSUME NEW s \in Seq(Message), NEW t \in Seq(Message), t # <<>>
  PROVE  Without(s \o t, Len(s) + 1, s \o Tail(t))
<1>1. /\ Tail(t) \in Seq(Message) /\ Len(Tail(t)) = Len(t) - 1
      /\ \A i \in 1 .. Len(Tail(t)) : Tail(t)[i] = t[i + 1]
  BY HeadTailProperties
<1>2. Len(s) \in Nat /\ Len(t) \in Nat BY LenProperties
<1> DEFINE a == s \o Tail(t)
           b == s \o t
<1>3. /\ Len(a) = Len(s) + Len(Tail(t))
      /\ \A i \in 1 .. Len(s) + Len(Tail(t)) : a[i] = IF i <= Len(s) THEN s[i] ELSE Tail(t)[i - Len(s)]
  BY <1>1, ConcatProperties
<1>4. /\ Len(b) = Len(s) + Len(t)
      /\ \A i \in 1 .. Len(s) + Len(t) : b[i] = IF i <= Len(s) THEN s[i] ELSE t[i - Len(s)]
  BY ConcatProperties
<1>5. ASSUME NEW i \in 1 .. Len(a)
      PROVE  a[i] = IF i < Len(s) + 1 THEN b[i] ELSE b[i + 1]
  <2> HIDE DEF a, b
  <2>1. CASE i <= Len(s) BY <1>1, <1>2, <1>3, <1>4, <2>1
  <2>2. CASE i > Len(s)
    <3>1. i - Len(s) \in 1 .. Len(Tail(t)) /\ (i - Len(s)) + 1 = (i + 1) - Len(s)
      BY <1>1, <1>2, <1>3, <2>2
    <3>2. a[i] = t[(i + 1) - Len(s)] BY <1>1, <1>2, <1>3, <2>2, <3>1
    <3>3. b[i + 1] = t[(i + 1) - Len(s)] BY <1>1, <1>2, <1>3, <1>4, <2>2
    <3> QED BY <1>2, <2>2, <3>2, <3>3
  <2> QED BY <1>1, <1>2, <1>3, <2>1, <2>2
<1> QED BY <1>1, <1>2, <1>3, <1>4, <1>5 DEF Without

\* Who was told anything listens to a Session.
LEMMA ToldHasSession ==
  ASSUME TypeOK, NothingToldEarly, NEW c \in Conns, NEW i \in DOMAIN Told(c)
  PROVE  conn[c] \in Registered /\ captured[c] \in Sessions
BY SessionsOfConns DEF NothingToldEarly, Registered

\* An update tells some clients of the revision it makes, and no other.
LEMMA ToldUpdate ==
  ASSUME TypeOK, TypeOK', ToldInv,
         NEW k \in Sessions, NEW u \in Uids, NEW m \in Metas \cup {None},
         UpdatePresenceMetaForPeer(k, u, m), UNCHANGED <<seen, captured, broadcastListeners>>,
         \A c \in Conns : conn'[c] \in Registered <=> conn[c] \in Registered
  PROVE  ToldInv'
<1> DEFINE msg == [revision |-> presenceRevision'[k], meta |-> presence'[k]]
<1>1. /\ presenceRevision[k] \in Nat /\ presenceRevision'[k] = presenceRevision[k] + 1
      /\ \A l \in Sessions : l # k => /\ presenceRevision'[l] = presenceRevision[l]
                                     /\ presence'[l] = presence[l]
      /\ msg \in Message /\ Broadcast(k, msg)
  BY UpdateType DEF TypeOK
<1>2. ASSUME NEW c \in Conns
      PROVE  \/ Told(c)' = Told(c)
             \/ captured[c] = k /\ conn[c] \in Registered /\ Told(c)' = Append(Told(c), msg)
  <2>1. \/ listen'[c] = listen[c]
        \/ Listening(c, k) /\ listen'[c] = Append(listen[c], msg)
    BY <1>1, BroadcastType
  <2>2. seen[c] \o Append(listen[c], msg) = Append(seen[c] \o listen[c], msg)
    <3>1. seen[c] \in Seq(Message) /\ listen[c] \in Seq(Message) BY DEF TypeOK
    <3> QED BY <1>1, <3>1, ToldAppend
  <2>3. Listening(c, k) => captured[c] = k /\ conn[c] \in Registered
    BY DEF ToldInv, ListensWhereCaptured
  <2> QED BY <2>1, <2>2, <2>3 DEF Told
<1>3. ASSUME NEW c \in Conns, NEW i \in DOMAIN Told(c)'
      PROVE  /\ i \in Nat
             /\ \/ i \in DOMAIN Told(c) /\ Told(c)'[i] = Told(c)[i]
                \/ captured[c] = k /\ i = Len(Told(c)) + 1 /\ Told(c)'[i] = msg
  <2>1. Told(c) \in Seq(Message) /\ Len(Told(c)) \in Nat /\ DOMAIN Told(c) = 1 .. Len(Told(c))
    BY ToldType
  <2>2. CASE Told(c)' = Told(c) BY <1>3, <2>1, <2>2
  <2>3. CASE captured[c] = k /\ Told(c)' = Append(Told(c), msg)
    <3>1. /\ Append(Told(c), msg) \in Seq(Message) /\ Len(Append(Told(c), msg)) = Len(Told(c)) + 1
          /\ \A h \in 1 .. Len(Told(c)) : Append(Told(c), msg)[h] = Told(c)[h]
          /\ Append(Told(c), msg)[Len(Told(c)) + 1] = msg
      BY <1>1, <2>1, AppendProperties
    <3>2. i \in 1 .. Len(Told(c)) + 1 BY <1>3, <2>3, <3>1, LenProperties
    <3> HIDE DEF msg
    <3> QED BY <2>1, <2>3, <3>1, <3>2
  <2> QED BY <1>2, <2>2, <2>3
<1>4. msg.revision = presenceRevision[k] + 1 /\ msg.meta = presence'[k] BY <1>1
<1>5. \A c \in Conns : \A i \in DOMAIN Told(c) :
        /\ i \in Nat /\ i <= Len(Told(c)) /\ Told(c)[i].revision \in Nat
        /\ captured[c] \in Sessions /\ presenceRevision[captured[c]] \in Nat
        /\ Told(c)[i].revision <= presenceRevision[captured[c]]
  <2> SUFFICES ASSUME NEW c \in Conns, NEW i \in DOMAIN Told(c)
               PROVE  /\ i \in Nat /\ i <= Len(Told(c)) /\ Told(c)[i].revision \in Nat
                      /\ captured[c] \in Sessions /\ presenceRevision[captured[c]] \in Nat
                      /\ Told(c)[i].revision <= presenceRevision[captured[c]]
    OBVIOUS
  <2>1. i \in Nat /\ i <= Len(Told(c)) /\ Told(c)[i].revision \in Nat BY ToldType
  <2>2. captured[c] \in Sessions BY ToldHasSession DEF ToldInv
  <2>3. presenceRevision[captured[c]] \in Nat BY <2>2 DEF TypeOK
  <2> QED BY <2>1, <2>2, <2>3 DEF ToldInv, ToldOfThePast
<1> HIDE DEF msg
<1>6. ListensWhereCaptured'
  BY DEF ToldInv, ListensWhereCaptured, Listening
<1>7. NothingToldEarly'
  BY <1>2 DEF ToldInv, NothingToldEarly
<1>8. ToldOfThePast'
  <2> SUFFICES ASSUME NEW c \in Conns, NEW i \in DOMAIN Told(c)'
               PROVE  Told(c)'[i].revision <= presenceRevision'[captured[c]]
    BY DEF ToldOfThePast
  <2>1. CASE i \in DOMAIN Told(c) /\ Told(c)'[i] = Told(c)[i]
    <3>1. CASE captured[c] = k BY <1>1, <1>5, <2>1, <3>1
    <3>2. CASE captured[c] # k BY <1>1, <1>5, <2>1, <3>2
    <3> QED BY <3>1, <3>2
  <2>2. CASE captured[c] = k /\ Told(c)'[i] = msg
    BY <1>1, <1>4, <2>2
  <2> QED BY <1>3, <2>1, <2>2
<1>9. RevisionsIncrease'
  <2> SUFFICES ASSUME NEW c \in Conns, NEW i \in DOMAIN Told(c)', NEW j \in DOMAIN Told(c)', i < j
               PROVE  Told(c)'[i].revision < Told(c)'[j].revision
    BY DEF RevisionsIncrease
  <2>1. Len(Told(c)) \in Nat BY ToldType
  <2>2. i \in DOMAIN Told(c) /\ Told(c)'[i] = Told(c)[i]
    BY <1>3, <1>5, <2>1
  <2>3. CASE j \in DOMAIN Told(c) /\ Told(c)'[j] = Told(c)[j]
    BY <2>2, <2>3 DEF ToldInv, RevisionsIncrease
  <2>4. CASE captured[c] = k /\ Told(c)'[j] = msg
    BY <1>1, <1>4, <1>5, <2>2, <2>4
  <2> QED BY <1>3, <2>3, <2>4
<1>10. RevisionNamesSnapshot'
  <2> SUFFICES ASSUME NEW c \in Conns, NEW d \in Conns,
                      NEW i \in DOMAIN Told(c)', NEW j \in DOMAIN Told(d)'
               PROVE  /\ captured[c] = captured[d] /\ Told(c)'[i].revision = Told(d)'[j].revision
                            => Told(c)'[i].meta = Told(d)'[j].meta
                      /\ Told(c)'[i].revision = presenceRevision'[captured[c]]
                            => Told(c)'[i].meta = presence'[captured[c]]
    BY DEF RevisionNamesSnapshot
  <2>1. ASSUME Told(c)'[i].revision = presenceRevision'[captured[c]]
        PROVE  Told(c)'[i].meta = presence'[captured[c]]
    <3>1. CASE i \in DOMAIN Told(c) /\ Told(c)'[i] = Told(c)[i]
      <4>1. captured[c] # k BY <1>1, <1>5, <2>1, <3>1
      <4>2. Told(c)[i].meta = presence[captured[c]]
        BY <1>1, <1>5, <2>1, <3>1, <4>1 DEF ToldInv, RevisionNamesSnapshot
      <4> QED BY <1>1, <1>5, <3>1, <4>1, <4>2
    <3>2. CASE captured[c] = k /\ Told(c)'[i] = msg BY <1>4, <3>2
    <3> QED BY <1>3, <3>1, <3>2
  <2>2. ASSUME captured[c] = captured[d], Told(c)'[i].revision = Told(d)'[j].revision
        PROVE  Told(c)'[i].meta = Told(d)'[j].meta
    <3>1. CASE i \in DOMAIN Told(c) /\ Told(c)'[i] = Told(c)[i] /\ j \in DOMAIN Told(d)
               /\ Told(d)'[j] = Told(d)[j]
      BY <2>2, <3>1 DEF ToldInv, RevisionNamesSnapshot
    <3>2. CASE i \in DOMAIN Told(c) /\ Told(c)'[i] = Told(c)[i] /\ captured[d] = k
               /\ Told(d)'[j] = msg
      BY <1>1, <1>4, <1>5, <2>2, <3>2
    <3>3. CASE captured[c] = k /\ Told(c)'[i] = msg /\ j \in DOMAIN Told(d)
               /\ Told(d)'[j] = Told(d)[j]
      <4>1. captured[d] = k /\ Told(d)[j].revision \in Nat
              /\ Told(d)[j].revision <= presenceRevision[k]
        BY <1>5, <2>2, <3>3
      <4>2. Told(d)[j].revision = presenceRevision[k] + 1 BY <1>4, <2>2, <3>3
      <4> QED BY <1>1, <4>1, <4>2
    <3>4. CASE Told(c)'[i] = msg /\ Told(d)'[j] = msg
      BY <3>4
    <3> QED BY <1>3, <3>1, <3>2, <3>3, <3>4
  <2> QED BY <2>1, <2>2
<1> QED BY <1>6, <1>7, <1>8, <1>9, <1>10 DEF ToldInv

\* A client that receives a message is told what it was to be told; the message of
\* one that has left is lost.
LEMMA ToldDeliver ==
  ASSUME TypeOK, TypeOK', ToldInv, NEW c \in Conns, Deliver(c)
  PROVE  ToldInv'
<1>1. UNCHANGED <<presence, presenceRevision, captured, conn, broadcastListeners>>
  BY DEF Deliver
<1>2. ASSUME NEW d \in Conns
      PROVE  Told(d)' = Told(d) \/ \E k \in Nat : Without(Told(d), k, Told(d)')
  <2>1. CASE d # c BY <2>1 DEF Deliver, Told, TypeOK
  <2>2. CASE d = c /\ c \in connected
    <3>1. seen'[d] = Append(seen[d], Head(listen[d])) /\ listen'[d] = Tail(listen[d])
      BY <2>2 DEF Deliver, TypeOK
    <3> QED BY <2>2, <3>1, ToldMove DEF Deliver, Told, TypeOK
  <2>3. CASE d = c /\ c \notin connected
    <3>1. seen'[d] = seen[d] /\ listen'[d] = Tail(listen[d]) /\ listen[d] # <<>>
      BY <2>3 DEF Deliver, TypeOK
    <3>2. seen[d] \in Seq(Message) /\ listen[d] \in Seq(Message) BY DEF TypeOK
    <3>3. Without(seen[d] \o listen[d], Len(seen[d]) + 1, seen[d] \o Tail(listen[d]))
      BY <3>1, <3>2, ToldLose
    <3>4. Len(seen[d]) + 1 \in Nat BY <3>2, LenProperties
    <3> QED BY <3>1, <3>3, <3>4 DEF Told
  <2> QED BY <2>1, <2>2, <2>3
<1>3. ASSUME NEW d \in Conns
      PROVE  /\ \A i \in DOMAIN Told(d)' : \E k \in DOMAIN Told(d) : Told(d)'[i] = Told(d)[k]
             /\ \A i, j \in DOMAIN Told(d)' :
                  i < j => \E k, l \in DOMAIN Told(d) :
                             k < l /\ Told(d)'[i] = Told(d)[k] /\ Told(d)'[j] = Told(d)[l]
  <2>1. /\ Len(Told(d)) \in Nat /\ DOMAIN Told(d) = 1 .. Len(Told(d))
        /\ Len(Told(d)') \in Nat /\ DOMAIN Told(d)' = 1 .. Len(Told(d)')
    <3>1. Told(d)' \in Seq(Message) BY ConcatProperties DEF TypeOK, Told
    <3> QED BY <3>1, ToldType, LenProperties
  <2>2. CASE Told(d)' = Told(d) BY <2>2
  <2>3. ASSUME NEW k \in Nat, Without(Told(d), k, Told(d)')
        PROVE  /\ \A i \in DOMAIN Told(d)' : \E l \in DOMAIN Told(d) : Told(d)'[i] = Told(d)[l]
               /\ \A i, j \in DOMAIN Told(d)' :
                    i < j => \E h, l \in DOMAIN Told(d) :
                               h < l /\ Told(d)'[i] = Told(d)[h] /\ Told(d)'[j] = Told(d)[l]
    <3> DEFINE f(i) == IF i < k THEN i ELSE i + 1
    <3>1. \A i \in DOMAIN Told(d)' : f(i) \in DOMAIN Told(d) /\ Told(d)'[i] = Told(d)[f(i)]
      BY <2>1, <2>3 DEF Without
    <3>2. \A i, j \in DOMAIN Told(d)' : i < j => f(i) < f(j)
      BY <2>1
    <3> HIDE DEF f
    <3> QED BY <3>1, <3>2
  <2> QED BY <1>2, <2>2, <2>3
<1>4. /\ ListensWhereCaptured' /\ NothingToldEarly' /\ ToldOfThePast'
  <2>1. ListensWhereCaptured' BY <1>1 DEF ToldInv, ListensWhereCaptured, Listening
  <2>2. NothingToldEarly' BY <1>1, <1>3 DEF ToldInv, NothingToldEarly
  <2>3. ToldOfThePast' BY <1>1, <1>3 DEF ToldInv, ToldOfThePast
  <2> QED BY <2>1, <2>2, <2>3
<1>5. RevisionsIncrease' BY <1>3 DEF ToldInv, RevisionsIncrease
<1>6. RevisionNamesSnapshot' BY <1>1, <1>3 DEF ToldInv, RevisionNamesSnapshot
<1> QED BY <1>4, <1>5, <1>6 DEF ToldInv

\* Steps that tell nothing and change neither a channel nor a Session somebody listens to.
LEMMA ToldKept ==
  ASSUME TypeOK, ToldInv, UNCHANGED <<presence, presenceRevision, listen, seen>>,
         ListensWhereCaptured',
         \A c \in Conns : conn[c] \in Registered =>
                            conn'[c] \in Registered /\ captured'[c] = captured[c]
  PROVE  ToldInv'
<1>1. \A c \in Conns : Told(c)' = Told(c) BY DEF Told
<1>2. \A c \in Conns : \A i \in DOMAIN Told(c) : captured'[c] = captured[c]
  BY ToldHasSession DEF ToldInv
<1>3. NothingToldEarly' BY <1>1 DEF ToldInv, NothingToldEarly
<1>4. ToldOfThePast' BY <1>1, <1>2 DEF ToldInv, ToldOfThePast
<1>5. RevisionsIncrease' BY <1>1 DEF ToldInv, RevisionsIncrease
<1>6. RevisionNamesSnapshot' BY <1>1, <1>2 DEF ToldInv, RevisionNamesSnapshot
<1> QED BY <1>3, <1>4, <1>5, <1>6 DEF ToldInv

LEMMA ToldInvariant == Spec => []ToldInv
<1>1. Init => ToldInv
  <2> SUFFICES ASSUME Init PROVE ToldInv
    OBVIOUS
  <2>1. \A c \in Conns : DOMAIN Told(c) = {}
    <3> SUFFICES ASSUME NEW c \in Conns PROVE DOMAIN Told(c) = {}
      OBVIOUS
    <3>1. <<>> \in Seq(Message) /\ Len(<<>>) = 0 BY EmptySeq
    <3>2. Told(c) = <<>> BY <3>1, ConcatEmptySeq DEF Init, Told
    <3> QED BY <3>1, <3>2, LenProperties
  <2>2. ListensWhereCaptured BY DEF Init, ListensWhereCaptured, Listening
  <2>3. NothingToldEarly /\ ToldOfThePast /\ RevisionsIncrease /\ RevisionNamesSnapshot
    BY <2>1 DEF NothingToldEarly, ToldOfThePast, RevisionsIncrease, RevisionNamesSnapshot
  <2> QED BY <2>2, <2>3 DEF ToldInv
<1>2. TypeOK /\ TypeOK' /\ ToldInv /\ [Next]_vars => ToldInv'
  <2> SUFFICES ASSUME TypeOK, TypeOK', ToldInv, [Next]_vars PROVE ToldInv'
    OBVIOUS
  <2> USE DEF registryVars, presenceVars
  <2>1. CASE UNCHANGED <<presence, presenceRevision, listen, seen, broadcastListeners, captured, conn>>
    BY <2>1, ToldKept DEF ToldInv, ListensWhereCaptured, Listening
  <2>2. ASSUME NEW c \in Conns,
               Join(c) \/ AddPeer(c) \/ JoinFails(c) \/ JoinGetSession(c)
        PROVE  ToldInv'
    <3>1. /\ UNCHANGED <<presence, presenceRevision, listen, seen, broadcastListeners>>
          /\ conn[c] \notin Registered
          /\ \A d \in Conns : d # c => conn'[d] = conn[d] /\ captured'[d] = captured[d]
      BY <2>2 DEF TypeOK, Join, AddPeer, JoinFails, JoinGetSession, Registered
    <3>2. ListensWhereCaptured' BY <3>1 DEF ToldInv, ListensWhereCaptured, Listening
    <3> QED BY <3>1, <3>2, ToldKept
  <2>3. ASSUME NEW c \in Conns, Listen(c) \/ Stop(c) PROVE ToldInv'
    <3>1. /\ UNCHANGED <<presence, presenceRevision, listen, seen, captured>>
          /\ conn'[c] \in Registered
          /\ \A d \in Conns : d # c => conn'[d] = conn[d]
      BY <2>3 DEF TypeOK, Listen, Stop, Registered
    <3>2. captured[c] \in Sessions BY <2>3, SessionsOfConns DEF Listen, Stop
    <3>3. \A k \in Sessions, u \in Uids :
            \/ broadcastListeners'[k][u] = broadcastListeners[k][u]
            \/ k = captured[c] /\ broadcastListeners'[k][u] \in {c, None}
      BY <2>3, <3>2, ListenersUpdate
    <3>4. ListensWhereCaptured'
      BY <3>1, <3>3 DEF ToldInv, ListensWhereCaptured, Listening
    <3> QED BY <3>1, <3>4, ToldKept
  <2>4. ASSUME NEW c \in Conns, PresenceStore(c) PROVE ToldInv'
    <3>1. /\ UpdatePresenceMetaForPeer(target[c], Uid[c], setting[c])
          /\ setting[c] \in Metas \cup {None} /\ target[c] \in Sessions
          /\ UNCHANGED <<seen, captured, broadcastListeners, conn>>
      BY <2>4, SessionsOfConns DEF PresenceStore, TypeOK
    <3> QED BY <3>1, ToldUpdate
  <2>5. ASSUME NEW c \in Conns, Clear(c) PROVE ToldInv'
    <3>1. /\ UpdatePresenceMetaForPeer(captured[c], Uid[c], None) /\ captured[c] \in Sessions
          /\ UNCHANGED <<seen, captured, broadcastListeners>>
      BY <2>5, SessionsOfConns DEF Clear
    <3>2. \A d \in Conns : conn'[d] \in Registered <=> conn[d] \in Registered
      BY <2>5 DEF Clear, TypeOK, Registered
    <3> QED BY <3>1, <3>2, ToldUpdate
  <2>6. ASSUME NEW c \in Conns, Deliver(c) PROVE ToldInv'
    BY <2>6, ToldDeliver
  <2> QED BY <2>1, <2>2, <2>3, <2>4, <2>5, <2>6
          DEF Next, OnSessionClosed, PresenceSet, PresenceGetSession, Disconnect, ClosePeer, vars
<1> QED BY <1>1, <1>2, TypeCorrect, PTL DEF Spec

(***************************************************************************)
(* The revisions a client is told increase strictly, however its messages  *)
(* interleave with concurrent updates and however many a full channel      *)
(* makes the broadcast drop.                                               *)
(***************************************************************************)
THEOREM NeverBackInTime == Spec => []RevisionsIncrease
<1>1. ToldInv => RevisionsIncrease BY DEF ToldInv
<1> QED BY <1>1, ToldInvariant, PTL

(***************************************************************************)
(* Two clients that are told of one revision are told the same map, and a  *)
(* client told of the current revision knows the current map: the copy     *)
(* that UpdatePresenceMetaForPeer sends is the map it made, under s.mu.    *)
(***************************************************************************)
THEOREM OneSnapshotPerRevision == Spec => []RevisionNamesSnapshot
<1>1. ToldInv => RevisionNamesSnapshot BY DEF ToldInv
<1> QED BY <1>1, ToldInvariant, PTL

-------------------------------------------------------------------------------
\* Who listens, and who is absent

\* No two connections have one peer id.
OwnUid == \A c, d \in Conns : Uid[c] = Uid[d] => c = d

\* With peer ids of their own, connections register and remove their own channel.
OwnChannel ==
  \A c \in Conns : conn[c] = "listening" => broadcastListeners[captured[c]][Uid[c]] = c

(***************************************************************************)
(* As long as no two connections share a peer id, a connection that has    *)
(* joined has its channel registered, with the Session its goroutine       *)
(* captured, until the goroutine removes it: no other connection's join or *)
(* end deafens it.                                                         *)
(***************************************************************************)
THEOREM NobodyIsDeafened ==
  ASSUME OwnUid
  PROVE  Spec => []PeerIsListening
<1>1. Init => OwnChannel
  BY DEF Init, OwnChannel
<1>2. TypeOK /\ OwnChannel /\ [Next]_vars => OwnChannel'
  <2> SUFFICES ASSUME TypeOK, OwnChannel, [Next]_vars PROVE OwnChannel'
    OBVIOUS
  <2> USE DEF registryVars, presenceVars
  <2>1. ASSUME NEW c \in Conns,
               Join(c) \/ AddPeer(c) \/ JoinFails(c) \/ JoinGetSession(c) \/ Clear(c)
        PROVE  OwnChannel'
    BY <2>1 DEF OwnChannel, TypeOK, Join, AddPeer, JoinFails, JoinGetSession, Clear
  <2>2. ASSUME NEW c \in Conns, Listen(c) \/ Stop(c) PROVE OwnChannel'
    <3>1. captured[c] \in Sessions BY <2>2, SessionsOfConns DEF Listen, Stop
    <3>2. \A k \in Sessions, u \in Uids :
            u # Uid[c] => broadcastListeners'[k][u] = broadcastListeners[k][u]
      BY <2>2, <3>1, ListenersUpdate
    <3>3. ASSUME NEW d \in Conns, conn'[d] = "listening"
          PROVE  broadcastListeners'[captured'[d]][Uid[d]] = d
      <4>1. CASE d = c
        <5>1. Listen(c) BY <2>2, <3>3, <4>1 DEF Stop, TypeOK
        <5> QED BY <3>1, <4>1, <5>1, ListenersUpdate DEF Listen
      <4>2. CASE d # c
        <5>1. conn[d] = "listening" /\ captured'[d] = captured[d]
          BY <2>2, <3>3, <4>2 DEF TypeOK, Listen, Stop
        <5>2. captured[d] \in Sessions /\ Uid[d] # Uid[c]
          BY <4>2, <5>1, SessionsOfConns DEF OwnUid
        <5> QED BY <3>2, <5>1, <5>2 DEF OwnChannel
      <4> QED BY <4>1, <4>2
    <3> QED BY <3>3 DEF OwnChannel
  <2> QED BY <2>1, <2>2
          DEF Next, vars, OwnChannel, OnSessionClosed, PresenceSet, PresenceGetSession,
              PresenceStore, Disconnect, ClosePeer, Deliver
<1>3. OwnChannel => PeerIsListening
  BY DEF OwnChannel, PeerIsListening
<1> QED BY <1>1, <1>2, <1>3, TypeCorrect, PTL DEF Spec

\* A handler that is running belongs to a connection that is open, and with it its peer.
HandlerIsConnected ==
  \A c \in Conns :
    /\ setting[c] # None => c \in connected /\ conn[c] = "listening"
    /\ target[c] # 0 => setting[c] # None
    /\ conn[c] \in {"joining", "added", "captured"} => c \in connected
    /\ c \in peerClosed => c \notin connected /\ conn[c] # "new"

\* GetSession finds the Session that is open.
OpenIsRegistered == \A k \in 1 .. created : k \notin closed => registered = k

\* A peer that joined an open Session keeps it open: all look-ups find that Session.
AtHome ==
  \A c \in Conns \ late :
    /\ conn[c] \in {"added", "captured", "listening"} /\ c \notin peerClosed
         => joined[c] \notin closed /\ peers[joined[c]][Uid[c]] = c
    /\ conn[c] \in {"captured", "listening", "removed"} => captured[c] = joined[c]
    /\ target[c] # 0 => target[c] = joined[c]

\* A presence belongs to a connection whose goroutine will clear it.
PresenceHasOwner ==
  \A k \in Sessions, u \in Uids :
    presence[k][u] # None =>
      \E c \in Conns : /\ Uid[c] = u
                       /\ \/ c \in late
                          \/ conn[c] \in {"listening", "removed"} /\ captured[c] = k

PresenceInv == HandlerIsConnected /\ OpenIsRegistered /\ AtHome /\ PresenceHasOwner

\* Without ICE failures, a connection that is closed has no handler running.
LEMMA HandlersKept ==
  ASSUME "iceFailure" \notin Faults, TypeOK, HandlerIsConnected, [Next]_vars
  PROVE  HandlerIsConnected'
<1> USE DEF registryVars, presenceVars, HandlerIsConnected, TypeOK
<1>1. ASSUME NEW c \in Conns, Join(c) PROVE HandlerIsConnected' BY <1>1 DEF Join
<1>2. ASSUME NEW c \in Conns, AddPeer(c) PROVE HandlerIsConnected' BY <1>2 DEF AddPeer
<1>3. ASSUME NEW c \in Conns, JoinFails(c) PROVE HandlerIsConnected' BY <1>3 DEF JoinFails
<1>4. ASSUME NEW c \in Conns, JoinGetSession(c) PROVE HandlerIsConnected'
  BY <1>4 DEF JoinGetSession
<1>5. ASSUME NEW c \in Conns, Listen(c) PROVE HandlerIsConnected' BY <1>5 DEF Listen
<1>6. ASSUME NEW c \in Conns, NEW m \in Metas, PresenceSet(c, m) PROVE HandlerIsConnected'
  BY <1>6 DEF PresenceSet
<1>7. ASSUME NEW c \in Conns, PresenceGetSession(c) PROVE HandlerIsConnected'
  BY <1>7 DEF PresenceGetSession
<1>8. ASSUME NEW c \in Conns, PresenceStore(c) PROVE HandlerIsConnected'
  BY <1>8 DEF PresenceStore
<1>9. ASSUME NEW c \in Conns, Disconnect(c) PROVE HandlerIsConnected'
  BY <1>9 DEF Disconnect, HandlerRuns
<1>10. ASSUME NEW c \in Conns, ClosePeer(c) PROVE HandlerIsConnected'
  BY <1>10 DEF ClosePeer
<1>11. ASSUME NEW c \in Conns, Deliver(c) PROVE HandlerIsConnected' BY <1>11 DEF Deliver
<1>12. ASSUME NEW c \in Conns, Stop(c) PROVE HandlerIsConnected' BY <1>12 DEF Stop
<1>13. ASSUME NEW c \in Conns, Clear(c) PROVE HandlerIsConnected' BY <1>13 DEF Clear
<1>14. CASE OnSessionClosed \/ UNCHANGED vars BY <1>14 DEF OnSessionClosed, vars
<1> QED BY <1>1, <1>2, <1>3, <1>4, <1>5, <1>6, <1>7, <1>8, <1>9, <1>10, <1>11, <1>12, <1>13, <1>14
        DEF Next

\* A Session leaves the registry only after it was closed.
LEMMA OpenKept ==
  ASSUME TypeOK, OpenIsRegistered, [Next]_vars
  PROVE  OpenIsRegistered'
<1> USE DEF registryVars, OpenIsRegistered
<1>1. ASSUME GetSession, UNCHANGED closed PROVE OpenIsRegistered'
  <2>1. created \in Nat BY SessionsOfConns
  <2>2. CASE registered # 0 BY <1>1, <2>2, GetSessionType
  <2>3. CASE registered = 0
    <3>1. registered' = created + 1 /\ created' = created + 1 BY <1>1, <2>3, GetSessionType
    <3>2. \A k \in 1 .. created : k \in closed BY <2>1, <2>3
    <3>3. \A k \in 1 .. created + 1 : k \in 1 .. created \/ k = created + 1 BY <2>1
    <3> QED BY <1>1, <3>1, <3>2, <3>3
  <2> QED BY <2>2, <2>3
<1>2. ASSUME NEW c \in Conns, Join(c) \/ JoinGetSession(c) \/ PresenceGetSession(c)
      PROVE  OpenIsRegistered'
  BY <1>1, <1>2 DEF Join, JoinGetSession, PresenceGetSession
<1>3. CASE OnSessionClosed BY <1>3 DEF OnSessionClosed
<1>4. ASSUME NEW c \in Conns, ClosePeer(c) PROVE OpenIsRegistered'
  BY <1>4 DEF ClosePeer, LeaveSession
<1>5. CASE UNCHANGED <<registered, created, closed>> BY <1>5
<1> QED BY <1>2, <1>3, <1>4, <1>5
        DEF Next, vars, AddPeer, JoinFails, Listen, PresenceSet, PresenceStore, Disconnect,
            Deliver, Stop, Clear

\* The look-ups of lines 118 and 202 find the Session that the peer keeps open.
LEMMA LookupFindsHome ==
  ASSUME TypeOK, OpenIsRegistered, HandlerIsConnected, AtHome, NEW c \in Conns \ late,
         GetSession, c \in connected, conn[c] \in {"added", "captured", "listening"}
  PROVE  registered' = joined[c]
<1>1. joined[c] \notin closed BY DEF HandlerIsConnected, AtHome
<1>2. joined[c] \in 1 .. created BY DEF TypeOK
<1>3. registered = joined[c] /\ registered # 0 BY <1>1, <1>2 DEF OpenIsRegistered
<1> QED BY <1>3, GetSessionType

\* Peers with ids of their own do not take each other's place in a Session.
LEMMA HomeKept ==
  ASSUME OwnUid, TypeOK, HandlerIsConnected, OpenIsRegistered, AtHome, [Next]_vars
  PROVE  AtHome'
<1> USE DEF registryVars, presenceVars
<1>1. ASSUME NEW c \in Conns, Join(c) PROVE AtHome'
  <2>1. target[c] = 0 BY <1>1 DEF Join, HandlerIsConnected
  <2> QED BY <1>1, <2>1 DEF Join, AtHome, TypeOK
<1>2. ASSUME NEW c \in Conns, JoinSession(c), conn[c] = "joining", UNCHANGED closed
      PROVE  /\ c \notin late' => joined[c] \notin closed' /\ peers'[joined[c]][Uid[c]] = c
             /\ \A d \in Conns \ {c} : /\ d \in late' <=> d \in late
                                       /\ \A k \in Sessions : peers'[k][Uid[d]] = peers[k][Uid[d]]
  <2>1. joined[c] \in Sessions BY <1>2, SessionsOfConns
  <2>2. \A d \in Conns \ {c} : Uid[d] # Uid[c] /\ Uid[d] \in Uids BY DEF OwnUid
  <2>3. \A l \in Sessions, v \in Uids :
          peers'[l][v] = IF l = joined[c] /\ v = Uid[c] THEN c ELSE peers[l][v]
    BY <1>2, <2>1, PeersUpdate
  <2>4. late' = IF joined[c] \in closed THEN late \cup {c} ELSE late BY <1>2 DEF JoinSession
  <2>5. c \notin late' => joined[c] \notin closed' BY <1>2, <2>4
  <2>6. \A d \in Conns \ {c} : d \in late' <=> d \in late BY <2>4
  <2> QED BY <2>1, <2>2, <2>3, <2>5, <2>6
<1>3. ASSUME NEW c \in Conns, AddPeer(c) PROVE AtHome'
  <2>1. target[c] = 0 BY <1>3 DEF AddPeer, HandlerIsConnected
  <2>2. \A d \in Conns : conn[d] # "new" => joined[d] \in Sessions BY SessionsOfConns
  <2>3. JoinSession(c) /\ conn[c] = "joining" /\ UNCHANGED closed BY <1>3 DEF AddPeer
  <2>4. /\ UNCHANGED <<closed, peerClosed, joined, captured, target>>
        /\ conn'[c] = "added" /\ \A d \in Conns \ {c} : conn'[d] = conn[d]
    BY <1>3 DEF AddPeer, TypeOK
  <2>5. c \notin late' => joined[c] \notin closed' /\ peers'[joined[c]][Uid[c]] = c
    BY <1>2, <2>3
  <2>6. \A d \in Conns \ {c} :
          /\ d \in late' <=> d \in late
          /\ conn[d] # "new" => peers'[joined[d]][Uid[d]] = peers[joined[d]][Uid[d]]
    BY <1>2, <2>2, <2>3
  <2> QED BY <2>1, <2>4, <2>5, <2>6 DEF AtHome
<1>4. ASSUME NEW c \in Conns, JoinFails(c) PROVE AtHome'
  <2>1. target[c] = 0 BY <1>4 DEF JoinFails, HandlerIsConnected
  <2>2. \A d \in Conns : conn[d] # "new" => joined[d] \in Sessions BY SessionsOfConns
  <2>3. CASE JoinSession(c)
    <3>1. /\ conn[c] = "joining" /\ UNCHANGED <<closed, peerClosed, joined, captured, target>>
          /\ conn'[c] = "refused" /\ \A d \in Conns \ {c} : conn'[d] = conn[d]
      BY <1>4 DEF JoinFails, TypeOK
    <3>2. \A d \in Conns \ {c} :
            /\ d \in late' <=> d \in late
            /\ conn[d] # "new" => peers'[joined[d]][Uid[d]] = peers[joined[d]][Uid[d]]
      BY <1>2, <2>2, <2>3, <3>1
    <3> QED BY <2>1, <3>1, <3>2 DEF AtHome
  <2>4. CASE UNCHANGED <<peers, late>> BY <1>4, <2>1, <2>4 DEF JoinFails, AtHome, TypeOK
  <2> QED BY <1>4, <2>3, <2>4 DEF JoinFails
<1>5. ASSUME NEW c \in Conns, JoinGetSession(c) PROVE AtHome'
  <2>1. c \notin late => registered' = joined[c]
    BY <1>5, LookupFindsHome DEF JoinGetSession, HandlerIsConnected
  <2> QED BY <1>5, <2>1 DEF JoinGetSession, AtHome, TypeOK
<1>6. ASSUME NEW c \in Conns, PresenceGetSession(c) PROVE AtHome'
  <2>1. c \notin late => registered' = joined[c]
    BY <1>6, LookupFindsHome DEF PresenceGetSession, HandlerIsConnected
  <2> QED BY <1>6, <2>1 DEF PresenceGetSession, AtHome, TypeOK
<1>7. ASSUME NEW c \in Conns, ClosePeer(c) PROVE AtHome'
  <2>1. joined[c] \in Sessions /\ LeaveSession(c) BY <1>7, SessionsOfConns DEF ClosePeer
  <2>2. \A d \in Conns \ {c}, k \in Sessions : peers'[k][Uid[d]] = peers[k][Uid[d]]
    <3>1. \A d \in Conns \ {c} : Uid[d] # Uid[c] /\ Uid[d] \in Uids BY DEF OwnUid
    <3> QED BY <2>1, <3>1, PeersUpdate
  <2>3. ASSUME NEW d \in Conns \ late, d # c, d \notin peerClosed,
               conn[d] \in {"added", "captured", "listening"}
        PROVE  joined[d] \notin closed' /\ peers'[joined[d]][Uid[d]] = d
    <3>1. joined[d] \in Sessions BY <2>3, SessionsOfConns
    <3>2. joined[d] \notin closed /\ peers[joined[d]][Uid[d]] = d BY <2>3 DEF AtHome
    <3>3. peers'[joined[d]][Uid[d]] = d /\ d # None BY <2>2, <2>3, <3>1, <3>2
    <3>4. \/ closed' = closed
          \/ closed' = closed \cup {joined[c]} /\ \A u \in Uids : peers'[joined[c]][u] = None
      BY <2>1 DEF LeaveSession
    <3> QED BY <3>2, <3>3, <3>4
  <2> QED BY <1>7, <2>3 DEF ClosePeer, AtHome, TypeOK
<1>8. ASSUME NEW c \in Conns, PresenceStore(c) PROVE AtHome'
  BY <1>8 DEF PresenceStore, AtHome, TypeOK
<1>9. ASSUME NEW c \in Conns, Listen(c) \/ Stop(c) \/ Clear(c) PROVE AtHome'
  BY <1>9 DEF Listen, Stop, Clear, AtHome, TypeOK
<1>10. CASE UNCHANGED <<peers, closed, late, conn, peerClosed, joined, captured, target>>
  BY <1>10 DEF AtHome
<1> QED BY <1>1, <1>3, <1>4, <1>5, <1>6, <1>7, <1>8, <1>9, <1>10
        DEF Next, vars, OnSessionClosed, PresenceSet, Disconnect, Deliver

\* Nothing is stored in a Session but by peers that will be cleared there.
LEMMA OwnerKept ==
  ASSUME TypeOK, HandlerIsConnected, AtHome, PresenceHasOwner, [Next]_vars
  PROVE  PresenceHasOwner'
<1> USE DEF registryVars, presenceVars
<1>1. ASSUME NEW c \in Conns, PresenceStore(c) PROVE PresenceHasOwner'
  <2>1. /\ UpdatePresenceMetaForPeer(target[c], Uid[c], setting[c])
        /\ setting[c] \in Metas \cup {None} /\ target[c] \in Sessions
        /\ UNCHANGED <<late, conn, captured>>
    BY <1>1, SessionsOfConns DEF PresenceStore, TypeOK
  <2>2. c \in late \/ (conn[c] = "listening" /\ captured[c] = target[c])
    BY <1>1 DEF PresenceStore, HandlerIsConnected, AtHome
  <2>3. \A k \in Sessions, u \in Uids :
          (k = target[c] /\ u = Uid[c]) \/ presence'[k][u] = presence[k][u]
    BY <2>1, UpdateOneEntry
  <2> QED BY <2>1, <2>2, <2>3 DEF PresenceHasOwner
<1>2. ASSUME NEW c \in Conns, Clear(c) PROVE PresenceHasOwner'
  <2>1. /\ UpdatePresenceMetaForPeer(captured[c], Uid[c], None) /\ captured[c] \in Sessions
        /\ UNCHANGED <<late, captured>> /\ \A d \in Conns \ {c} : conn'[d] = conn[d]
    BY <1>2, SessionsOfConns DEF Clear, TypeOK
  <2>2. \A k \in Sessions, u \in Uids :
          IF k = captured[c] /\ u = Uid[c] THEN presence'[k][u] = None
                                          ELSE presence'[k][u] = presence[k][u]
    BY <2>1, UpdateOneEntry
  <2> QED BY <2>1, <2>2 DEF PresenceHasOwner
<1>3. ASSUME UNCHANGED presence, late \subseteq late',
             \A c \in Conns : conn[c] \in {"listening", "removed"} =>
                conn'[c] \in {"listening", "removed"} /\ captured'[c] = captured[c]
      PROVE  PresenceHasOwner'
  BY <1>3 DEF PresenceHasOwner
<1>4. ASSUME NEW c \in Conns,
             Join(c) \/ AddPeer(c) \/ JoinFails(c) \/ JoinGetSession(c) \/ Listen(c) \/ Stop(c)
      PROVE  PresenceHasOwner'
  <2>1. UNCHANGED presence /\ late \subseteq late'
    BY <1>4 DEF Join, AddPeer, JoinFails, JoinGetSession, Listen, Stop, JoinSession
  <2>2. \A d \in Conns : conn[d] \in {"listening", "removed"} =>
           conn'[d] \in {"listening", "removed"} /\ captured'[d] = captured[d]
    BY <1>4 DEF Join, AddPeer, JoinFails, JoinGetSession, Listen, Stop, TypeOK
  <2> QED BY <1>3, <2>1, <2>2
<1>5. CASE UNCHANGED <<presence, late, conn, captured>>
  BY <1>5 DEF PresenceHasOwner
<1> QED BY <1>1, <1>2, <1>4, <1>5
        DEF Next, vars, OnSessionClosed, PresenceSet, PresenceGetSession, Disconnect, ClosePeer,
            Deliver

(***************************************************************************)
(* If no ICE failure closes a connection under a running handler, and no   *)
(* two connections share a peer id, a peer that joined its Session before  *)
(* it closed is absent from every presence map once its connection has     *)
(* ended: it keeps its Session open and registered, so the look-up of      *)
(* presence_set finds the Session whose presence the listener goroutine    *)
(* clears.  The ICE failure has to be excepted, as TLC shows when it is    *)
(* added to the Faults of SessionPresence.cfg, and so has the late peer,   *)
(* as the run of SessionLateJoin.cfg shows.                                *)
(***************************************************************************)
THEOREM DepartedIsAbsent ==
  ASSUME "iceFailure" \notin Faults, OwnUid
  PROVE  Spec => []DepartedAreAbsent
<1>1. Init => PresenceInv
  <2> SUFFICES ASSUME Init PROVE PresenceInv
    OBVIOUS
  <2>1. 1 .. created = {} BY DEF Init
  <2> QED BY <2>1
          DEF Init, PresenceInv, HandlerIsConnected, OpenIsRegistered, AtHome, PresenceHasOwner
<1>2. TypeOK /\ PresenceInv /\ [Next]_vars => PresenceInv'
  BY HandlersKept, OpenKept, HomeKept, OwnerKept DEF PresenceInv
<1>3. PresenceInv => DepartedAreAbsent
  BY DEF PresenceInv, PresenceHasOwner, DepartedAreAbsent, Away
<1> QED BY <1>1, <1>2, <1>3, TypeCorrect, PTL DEF Spec
===============================================================================
