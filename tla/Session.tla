-------------------------------- MODULE Session --------------------------------
(***************************************************************************)
(* The presence map of a Session (pkg/session.go) and the goroutines       *)
(* around it: for every connection the handlers of join and presence_set   *)
(* and the broadcast listener of the JSONSignal (pkg/server_jsonrpc.go).   *)
(*                                                                         *)
(* The clients all join one session id.  Over time that id has several     *)
(* Sessions: the last peer that leaves closes the Session, its close       *)
(* handler unregisters it, and the next GetSession creates another.        *)
(* Sessions are numbered in the order of creation; 0 stands for none.      *)
(* A JSONSignal looks the Session up three times, in PeerLocal.Join, in    *)
(* line 118 for the listener and in line 202 for presence_set, and may be  *)
(* given a different one each time.                                        *)
(*                                                                         *)
(* The operations of Session run under s.mu and are one step each.  The    *)
(* listener goroutine holds no lock between two of them, and the handler   *)
(* none between looking up the Session and updating it.                    *)
(*                                                                         *)
(* A connection ends in one of two ways.  The read loop finds the          *)
(* websocket closed: the loop runs the handlers itself, so none is running *)
(* then.  Or, in "Faults", "iceFailure": the callback of the ICE agent     *)
(* closes the peer and then the connection, whatever the read loop is      *)
(* doing.  "joinError": PeerLocal.Join or Answer fails.                    *)
(*                                                                         *)
(* Left out: the content of the metadata and the "sysinfo" of a message.   *)
(* A metadata is a member of Metas; JSON null is one of them, because a    *)
(* nil map in an interface is not nil and is stored, not deleted.  The     *)
(* look-ups before the join (pkg/server.go:72 and line 69): they create no *)
(* Session that GetSession would not create a moment later.                *)
(***************************************************************************)
EXTENDS Integers, Sequences

CONSTANTS Conns,        \* the connections that join this session id
          Uids, Uid,    \* Uid[c]: the peer id c joins with
          Metas, None,
          Cap,          \* capacity of a listener's channel: 32 in the code
          MaxSessions,  \* bound of the model on the Sessions of the id
          MaxRevision,  \* bound of the model on presence_set
          Faults

ASSUME UidOfConn == Uid \in [Conns -> Uids]
ASSUME CapPositive == Cap \in Nat \ {0}
ASSUME BoundsAreNat == MaxSessions \in Nat /\ MaxRevision \in Nat
ASSUME NoneIsNoValue == None \notin Metas /\ None \notin Conns
ASSUME SessionFaults == Faults \subseteq {"iceFailure", "joinError"}

VARIABLES
  \* the coordinator, for this session id
  registered,           \* the Session that GetSession finds, or 0
  created,              \* how many Sessions were created
  \* of every Session
  peers,                \* peers[k][u]: whose peer it is, or None
  closed,               \* the Sessions that were closed
  presence, presenceRevision,
  broadcastListeners,   \* broadcastListeners[k][u]: whose channel it is, or None
  \* of every connection
  conn,                 \* its join handler, then its listener goroutine
  connected,            \* the connections that are not closed
  peerClosed,           \* the connections whose PeerLocal was closed
  joined,               \* the Session of its PeerLocal
  captured,             \* the Session of its listener goroutine
  listen,               \* listen[c]: the content of c's channel
  setting, target,      \* presence_set: the metadata to store, and the Session
  \* history
  late,                 \* the connections whose peer joined a closed Session
  seen                  \* what the client of c was notified of

registryVars == <<registered, created, peers, closed, late>>
presenceVars == <<presence, presenceRevision, broadcastListeners, listen>>
vars == <<registryVars, presenceVars, conn, connected, peerClosed, joined, captured,
          setting, target, seen>>

Sessions == 1 .. MaxSessions
Presence == [Uids -> Metas \cup {None}]
Message  == [revision : Nat, meta : Presence]

Init ==
  /\ registered = 0 /\ created = 0
  /\ peers = [k \in Sessions |-> [u \in Uids |-> None]]
  /\ closed = {}
  /\ presence = [k \in Sessions |-> [u \in Uids |-> None]]
  /\ presenceRevision = [k \in Sessions |-> 0]
  /\ broadcastListeners = [k \in Sessions |-> [u \in Uids |-> None]]
  /\ conn = [c \in Conns |-> "new"]
  /\ connected = {} /\ peerClosed = {}
  /\ joined = [c \in Conns |-> 0]
  /\ captured = [c \in Conns |-> 0]
  /\ listen = [c \in Conns |-> <<>>]
  /\ setting = [c \in Conns |-> None]
  /\ target = [c \in Conns |-> 0]
  /\ late = {}
  /\ seen = [c \in Conns |-> <<>>]

-------------------------------------------------------------------------------
\* The coordinator, and the Session of ion-sfu

\* ensureSession: the caller gets registered'.
GetSession ==
  \/ registered # 0 /\ UNCHANGED <<registered, created>>
  \/ /\ registered = 0 /\ created < MaxSessions
     /\ created' = created + 1
     /\ registered' = created'

\* The close handler of a Session, which runs some time after the Session closed.
OnSessionClosed ==
  /\ registered \in closed
  /\ registered' = 0
  /\ UNCHANGED <<created, peers, closed, late, presenceVars, conn, connected, peerClosed,
                 joined, captured, setting, target, seen>>

\* SessionLocal.AddPeer does not ask whether the Session is closed.
JoinSession(c) ==
  /\ peers' = [peers EXCEPT ![joined[c]][Uid[c]] = c]
  /\ late' = IF joined[c] \in closed THEN late \cup {c} ELSE late

\* SessionLocal.RemovePeer: the last peer closes the Session.
LeaveSession(c) ==
  LET k == joined[c] IN
  /\ peers' = IF peers[k][Uid[c]] = c THEN [peers EXCEPT ![k][Uid[c]] = None] ELSE peers
  /\ closed' = IF \A u \in Uids : peers'[k][u] = None THEN closed \cup {k} ELSE closed

-------------------------------------------------------------------------------
\* Session

Listening(c, k) == \E u \in Uids : broadcastListeners[k][u] = c

\* Seeded fault: the capacity of a channel is forgotten.
Broadcast_Unbounded(k, msg) ==
  listen' = [c \in Conns |->
               IF Listening(c, k) THEN Append(listen[c], msg) ELSE listen[c]]

\* A select with a default: a full channel is passed over, and stays registered.
Broadcast(k, msg) ==
  listen' = [c \in Conns |->
               IF Listening(c, k) /\ Len(listen[c]) < Cap THEN Append(listen[c], msg)
               ELSE listen[c]]

\* Seeded fault: the revision is not incremented.
UpdatePresenceMetaForPeer_SameRevision(k, u, m) ==
  /\ presence' = [presence EXCEPT ![k][u] = m]
  /\ presenceRevision' = [presenceRevision EXCEPT ![k] = IF m = None THEN @ ELSE @ + 1]
  /\ Broadcast(k, [revision |-> presenceRevision'[k], meta |-> presence'[k]])

\* Seeded fault: the copy is made before the map is changed.
UpdatePresenceMetaForPeer_OldCopy(k, u, m) ==
  /\ presenceRevision' = [presenceRevision EXCEPT ![k] = @ + 1]
  /\ presence' = [presence EXCEPT ![k][u] = m]
  /\ Broadcast(k, [revision |-> presenceRevision'[k], meta |-> presence[k]])

\* Metadata None is nil: the entry is deleted.
UpdatePresenceMetaForPeer(k, u, m) ==
  /\ presenceRevision' = [presenceRevision EXCEPT ![k] = @ + 1]
  /\ presence' = [presence EXCEPT ![k][u] = m]
  /\ Broadcast(k, [revision |-> presenceRevision'[k], meta |-> presence'[k]])

BroadcastAddListener(k, u, c) ==
  broadcastListeners' = [broadcastListeners EXCEPT ![k][u] = c]

\* Seeded fault: the listeners of the other peers are forgotten as well.
BroadcastRemoveListener_All(k, u) ==
  broadcastListeners' = [broadcastListeners EXCEPT ![k] = [v \in Uids |-> None]]

BroadcastRemoveListener(k, u) ==
  broadcastListeners' = [broadcastListeners EXCEPT ![k][u] = None]

-------------------------------------------------------------------------------
\* JSONSignal: join

\* PeerLocal.Join gets its Session ...
Join(c) ==
  /\ conn[c] = "new"
  /\ GetSession
  /\ joined' = [joined EXCEPT ![c] = registered']
  /\ conn' = [conn EXCEPT ![c] = "joining"]
  /\ connected' = connected \cup {c}
  /\ UNCHANGED <<peers, closed, late, presenceVars, peerClosed, captured, setting, target, seen>>

\* ... and adds the peer to it.  Answer succeeds, the callbacks are set.
AddPeer(c) ==
  /\ conn[c] = "joining"
  /\ JoinSession(c)
  /\ conn' = [conn EXCEPT ![c] = "added"]
  /\ UNCHANGED <<registered, created, closed, presenceVars, connected, peerClosed, joined,
                 captured, setting, target, seen>>

\* Join fails before the peer is added, or Answer after it.
JoinFails(c) ==
  /\ conn[c] = "joining" /\ "joinError" \in Faults
  /\ JoinSession(c) \/ UNCHANGED <<peers, late>>
  /\ conn' = [conn EXCEPT ![c] = "refused"]
  /\ UNCHANGED <<registered, created, closed, presenceVars, connected, peerClosed, joined,
                 captured, setting, target, seen>>

\* The Session of the listener goroutine ...
JoinGetSession(c) ==
  /\ conn[c] = "added"
  /\ GetSession
  /\ captured' = [captured EXCEPT ![c] = registered']
  /\ conn' = [conn EXCEPT ![c] = "captured"]
  /\ UNCHANGED <<peers, closed, late, presenceVars, connected, peerClosed, joined, setting,
                 target, seen>>

\* ... where the channel is registered; the goroutine starts.
Listen(c) ==
  /\ conn[c] = "captured"
  /\ BroadcastAddListener(captured[c], Uid[c], c)
  /\ conn' = [conn EXCEPT ![c] = "listening"]
  /\ UNCHANGED <<registryVars, presence, presenceRevision, listen, connected, peerClosed, joined,
                 captured, setting, target, seen>>

-------------------------------------------------------------------------------
\* JSONSignal: presence_set

\* The request of a connection that has joined is read, ...
PresenceSet(c, m) ==
  /\ c \in connected /\ conn[c] = "listening" /\ setting[c] = None
  /\ \A k \in Sessions : presenceRevision[k] < MaxRevision
  /\ setting' = [setting EXCEPT ![c] = m]
  /\ UNCHANGED <<registryVars, presenceVars, conn, connected, peerClosed, joined, captured,
                 target, seen>>

\* ... the Session is looked up again ...
PresenceGetSession(c) ==
  /\ setting[c] # None /\ target[c] = 0
  /\ GetSession
  /\ target' = [target EXCEPT ![c] = registered']
  /\ UNCHANGED <<peers, closed, late, presenceVars, conn, connected, peerClosed, joined, captured,
                 setting, seen>>

\* ... and updated, without asking whether c is still connected.
PresenceStore(c) ==
  /\ setting[c] # None /\ target[c] # 0
  /\ UpdatePresenceMetaForPeer(target[c], Uid[c], setting[c])
  /\ setting' = [setting EXCEPT ![c] = None]
  /\ target' = [target EXCEPT ![c] = 0]
  /\ UNCHANGED <<registryVars, broadcastListeners, conn, connected, peerClosed, joined, captured,
                 seen>>

-------------------------------------------------------------------------------
\* The end of a connection

HandlerRuns(c) == conn[c] \in {"joining", "added", "captured"} \/ setting[c] # None

\* The read loop finds the websocket closed, or the ICE callback closes it.
Disconnect(c) ==
  /\ c \in connected
  /\ ~HandlerRuns(c) \/ c \in peerClosed
  /\ connected' = connected \ {c}
  /\ UNCHANGED <<registryVars, presenceVars, conn, peerClosed, joined, captured, setting, target,
                 seen>>

\* PeerLocal.Close, by the http handler once c is disconnected or by the ICE
\* callback, which is set before line 118.
ClosePeer(c) ==
  /\ c \notin peerClosed /\ conn[c] # "new"
  /\ \/ c \notin connected
     \/ "iceFailure" \in Faults /\ conn[c] \in {"added", "captured", "listening"}
  /\ LeaveSession(c)
  /\ peerClosed' = peerClosed \cup {c}
  /\ UNCHANGED <<registered, created, late, presenceVars, conn, connected, joined, captured,
                 setting, target, seen>>

-------------------------------------------------------------------------------
\* The listener goroutine

\* case msg := <-listen.  Notify on a closed connection fails and is ignored.
Deliver(c) ==
  /\ conn[c] = "listening" /\ listen[c] # <<>>
  /\ listen' = [listen EXCEPT ![c] = Tail(@)]
  /\ seen' = [seen EXCEPT ![c] = IF c \in connected THEN Append(@, Head(listen[c])) ELSE @]
  /\ UNCHANGED <<registryVars, presence, presenceRevision, broadcastListeners, conn, connected,
                 peerClosed, joined, captured, setting, target>>

\* case <-stop: first the listener is removed ...
Stop(c) ==
  /\ conn[c] = "listening" /\ c \notin connected
  /\ BroadcastRemoveListener(captured[c], Uid[c])
  /\ conn' = [conn EXCEPT ![c] = "removed"]
  /\ UNCHANGED <<registryVars, presence, presenceRevision, listen, connected, peerClosed, joined,
                 captured, setting, target, seen>>

\* Seeded fault: the presence is not cleared.
Clear_Nothing(c) ==
  /\ conn[c] = "removed"
  /\ conn' = [conn EXCEPT ![c] = "gone"]
  /\ UNCHANGED <<registryVars, presenceVars, connected, peerClosed, joined, captured, setting,
                 target, seen>>

\* ... then the presence, and the goroutine ends.
Clear(c) ==
  /\ conn[c] = "removed"
  /\ UpdatePresenceMetaForPeer(captured[c], Uid[c], None)
  /\ conn' = [conn EXCEPT ![c] = "gone"]
  /\ UNCHANGED <<registryVars, broadcastListeners, connected, peerClosed, joined, captured,
                 setting, target, seen>>

-------------------------------------------------------------------------------
Next ==
  \/ OnSessionClosed
  \/ \E c \in Conns :
       \/ Join(c) \/ AddPeer(c) \/ JoinFails(c) \/ JoinGetSession(c) \/ Listen(c)
       \/ \E m \in Metas : PresenceSet(c, m)
       \/ PresenceGetSession(c) \/ PresenceStore(c)
       \/ Disconnect(c) \/ ClosePeer(c)
       \/ Deliver(c) \/ Stop(c) \/ Clear(c)

Spec == Init /\ [][Next]_vars

-------------------------------------------------------------------------------
\* Properties

TypeOK ==
  /\ created \in 0 .. MaxSessions /\ registered \in 0 .. created
  /\ peers \in [Sessions -> [Uids -> Conns \cup {None}]]
  /\ closed \subseteq 1 .. created
  /\ presence \in [Sessions -> Presence]
  /\ presenceRevision \in [Sessions -> Nat]
  /\ broadcastListeners \in [Sessions -> [Uids -> Conns \cup {None}]]
  /\ conn \in [Conns -> {"new", "joining", "added", "refused", "captured", "listening",
                         "removed", "gone"}]
  /\ connected \subseteq Conns /\ peerClosed \subseteq Conns /\ late \subseteq Conns
  /\ joined \in [Conns -> 0 .. created]
  /\ \A c \in Conns : conn[c] # "new" => joined[c] # 0
  /\ captured \in [Conns -> 0 .. created]
  /\ \A c \in Conns : conn[c] \in {"captured", "listening", "removed", "gone"} => captured[c] # 0
  /\ listen \in [Conns -> Seq(Message)] /\ \A c \in Conns : Len(listen[c]) <= Cap
  /\ setting \in [Conns -> Metas \cup {None}]
  /\ target \in [Conns -> 0 .. created]
  /\ seen \in [Conns -> Seq(Message)]

\* What c was told, then what it will be told.
Told(c) == seen[c] \o listen[c]

(***************************************************************************)
(* A client never goes back in time: the revisions it is told increase     *)
(* strictly, through dropped messages and concurrent updates, so it may    *)
(* keep the last message it got and forget the others.                     *)
(***************************************************************************)
RevisionsIncrease ==
  \A c \in Conns : \A i, j \in DOMAIN Told(c) :
    i < j => Told(c)[i].revision < Told(c)[j].revision

(***************************************************************************)
(* A revision names one state of the presence map: two clients told of the *)
(* same revision of one Session are told the same, and the current one is  *)
(* the map itself.                                                         *)
(***************************************************************************)
RevisionNamesSnapshot ==
  \A c, d \in Conns : \A i \in DOMAIN Told(c), j \in DOMAIN Told(d) :
    /\ captured[c] = captured[d] /\ Told(c)[i].revision = Told(d)[j].revision
         => Told(c)[i].meta = Told(d)[j].meta
    /\ Told(c)[i].revision = presenceRevision[captured[c]]
         => Told(c)[i].meta = presence[captured[c]]

(***************************************************************************)
(* pkg/server_jsonrpc.go:32: "Presence contains metadata for every peerID",*)
(* and join registers a listener for it (line 122): a peer id that has a   *)
(* connection with a listener goroutine has such a connection's channel    *)
(* registered, whatever other connections come and go.  True if every      *)
(* connection has a peer id of its own.  The channel stays registered when *)
(* it is full, too: session.go:83 logs that such a listener is removed, but*)
(* Broadcast only passes over it, and the peer misses that message.        *)
(***************************************************************************)
PeerIsListening ==
  \A c \in Conns :
    conn[c] = "listening" =>
      \E d \in Conns : broadcastListeners[captured[c]][Uid[c]] = d /\ conn[d] = "listening"

\* Every connection of the peer id has come and gone, or has not come.
Away(c) == conn[c] \in {"new", "refused", "gone"} /\ setting[c] = None

\* The presence of the Session is, or will be, sent to somebody.
Visible(k) ==
  \/ k = registered /\ k \notin closed
  \/ \E c \in connected : captured[c] = k

(***************************************************************************)
(* The listener goroutine's last act is to take its peer out of the map    *)
(* (line 136): a peer id whose connections have all ended, goroutines and  *)
(* handlers, is absent from it.  True if no ICE failure closes a           *)
(* connection while a handler runs, and of the peers that joined their     *)
(* Session before it closed.                                               *)
(***************************************************************************)
DepartedAreAbsent ==
  \A k \in Sessions, u \in Uids :
    Visible(k) /\ (\A c \in Conns : Uid[c] = u => Away(c) /\ c \notin late)
      => presence[k][u] = None

(***************************************************************************)
(* pkg/server_jsonrpc.go:32: "Presence contains metadata for every peerID".*)
(* The same of all peers.  Not true: the Session a peer joins may be       *)
(* closed by the one that leaves, and when line 118 still finds it but     *)
(* line 202 does not, the peer is stored where line 136 does not clear it. *)
(***************************************************************************)
PresenceFollowsPeers ==
  \A k \in Sessions, u \in Uids :
    Visible(k) /\ (\A c \in Conns : Uid[c] = u => Away(c)) => presence[k][u] = None
===============================================================================
