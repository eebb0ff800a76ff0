------------------------------- MODULE LocalNode -------------------------------
(***************************************************************************)
(* A node in local mode: the websocket handler of Signal (pkg/server.go),  *)
(* the join and presence_set handlers of JSONSignal (pkg/server_jsonrpc.go)*)
(* as far as they look Sessions up, and the localCoordinator that owns the *)
(* Sessions (pkg/coordinator.go).                                          *)
(*                                                                         *)
(* A connection c is served by three goroutines: the read loop, which runs *)
(* the handlers one after the other (read); the http handler, which waits  *)
(* for the disconnection and then closes the peer (http); and the listener *)
(* goroutine started by join (listener).  The callback of the ICE agent    *)
(* (ice) runs beside them and may close the peer and the connection.       *)
(* ensureSession and onSessionClosed run under c.mu: one step each.        *)
(*                                                                         *)
(* Faults.  "joinError": PeerLocal.Join or Answer fails.  "upgradeError":  *)
(* the upgrade to a websocket fails.  "iceFailure": ICE fails or closes.   *)
(*                                                                         *)
(* The peers have ids of their own: c stands for the id of its peer, too.  *)
(*                                                                         *)
(* Left out: authentication; the proxy of a redirected client, which local *)
(* mode never starts, the gauge of clients and the shutdown (all in module *)
(* Cluster); offer, answer, trickle and ping, which look up no Session;    *)
(* what presence_set stores (module Session).                              *)
(***************************************************************************)
EXTENDS Integers, FiniteSets

CONSTANTS Conns, Sids,
          UrlSid,        \* UrlSid[c]: the session id in the URL c connects to
          Sid,           \* Sid[c]: the session id c joins, compared with no other
          None,
          MaxRequests,   \* bound of the model on the requests of a connection
          Faults

LocalFaultKinds == {"joinError", "upgradeError", "iceFailure"}

ASSUME SidOfConn == Sid \in [Conns -> Sids] /\ UrlSid \in [Conns -> Sids]
ASSUME RequestsBound == MaxRequests \in Nat
ASSUME LocalFaults == Faults \subseteq LocalFaultKinds
ASSUME SidsFinite == IsFiniteSet(Sids)

\* A Session: its id and its number, in the order of creation.
Objects == Sids \X (Nat \ {0})

ASSUME NoneNoObject == None \notin Objects

VARIABLES
  \* the goroutines of a connection
  read, http, listener, ice,
  connected,     \* the connections whose websocket is open
  requests,      \* how many join and presence_set c has sent
  \* the PeerLocal of a connection
  joined,        \* the Session it was given, or None
  inSession,     \* the connections whose peer was added to it and not removed
  peerClosed,    \* the connections whose peer was closed
  heard,         \* the Session c's listener is registered with, or None
  \* localCoordinator and its Sessions
  sessions,
  created,       \* how many Sessions were created
  closed,        \* the Sessions that were closed
  gaugeSessions  \* prometheusGaugeSessions

peerVars  == <<joined, inSession, peerClosed, heard>>
coordVars == <<sessions, created, closed, gaugeSessions>>
vars      == <<read, http, listener, ice, connected, requests, peerVars, coordVars>>

Init ==
  /\ read = [c \in Conns |-> "none"]
  /\ http = [c \in Conns |-> "none"]
  /\ listener = [c \in Conns |-> "none"]
  /\ ice = [c \in Conns |-> "none"]
  /\ connected = {}
  /\ requests = [c \in Conns |-> 0]
  /\ joined = [c \in Conns |-> None]
  /\ inSession = {}
  /\ peerClosed = {}
  /\ heard = [c \in Conns |-> None]
  /\ sessions = [s \in Sids |-> None]
  /\ created = 0
  /\ closed = {}
  /\ gaugeSessions = 0

-------------------------------------------------------------------------------
\* localCoordinator, and the Session of ion-sfu

\* Seeded fault: a Session that exists is replaced by a new one.
EnsureSession_Fresh(s) ==
  /\ created' = created + 1
  /\ sessions' = [sessions EXCEPT ![s] = <<s, created'>>]
  /\ gaugeSessions' = IF sessions[s] # None THEN gaugeSessions ELSE gaugeSessions + 1
  /\ UNCHANGED closed

\* ensureSession(s): the caller gets sessions'[s].
EnsureSession(s) ==
  /\ IF sessions[s] # None
       THEN UNCHANGED <<sessions, created, gaugeSessions>>
       ELSE /\ created' = created + 1
            /\ sessions' = [sessions EXCEPT ![s] = <<s, created'>>]
            /\ gaugeSessions' = gaugeSessions + 1
  /\ UNCHANGED closed

OnSessionClosed(s) ==
  /\ sessions' = [sessions EXCEPT ![s] = None]
  /\ gaugeSessions' = gaugeSessions - 1
  /\ UNCHANGED <<created, closed>>

Peers(o) == {c \in inSession : joined[c] = o}

\* Seeded fault: a Session can be closed twice.
ClosesSession_Again(c) ==
  /\ c \notin peerClosed
  /\ joined[c] # None
  /\ Peers(joined[c]) \ {c} = {}

\* Seeded fault: the Session of a peer that has none is closed.
ClosesSession_NoCheck(c) ==
  /\ c \notin peerClosed
  /\ joined[c] \notin closed
  /\ Peers(joined[c]) \ {c} = {}

\* PeerLocal.Close closes the Session: it is the peer's first Close, and
\* RemovePeer finds no other peer in a Session that is still open.
ClosesSession(c) ==
  /\ c \notin peerClosed
  /\ joined[c] # None
  /\ joined[c] \notin closed
  /\ Peers(joined[c]) \ {c} = {}

\* PeerLocal.Close, up to the close handler of the Session.
ClosePeer(c) ==
  /\ peerClosed' = peerClosed \cup {c}
  /\ inSession' = inSession \ {c}
  /\ closed' = IF ClosesSession(c) THEN closed \cup {joined[c]} ELSE closed
  /\ UNCHANGED <<joined, heard, sessions, created, gaugeSessions>>

-------------------------------------------------------------------------------
\* The http handler of a connection

\* getOrCreateSession of the id in the URL, before the upgrade.
Connect(c) ==
  /\ http[c] = "none"
  /\ EnsureSession(UrlSid[c])
  /\ http' = [http EXCEPT ![c] = "upgrade"]
  /\ UNCHANGED <<read, listener, ice, connected, requests, peerVars>>

Upgrade(c) ==
  /\ http[c] = "upgrade"
  /\ connected' = connected \cup {c}
  /\ http' = [http EXCEPT ![c] = "upgraded"]
  /\ UNCHANGED <<read, listener, ice, requests, peerVars, coordVars>>

\* panic(err), recovered by net/http.
UpgradeFails(c) ==
  /\ http[c] = "upgrade" /\ "upgradeError" \in Faults
  /\ http' = [http EXCEPT ![c] = "done"]
  /\ UNCHANGED <<read, listener, ice, connected, requests, peerVars, coordVars>>

\* NewConn starts the read loop.
Serve(c) ==
  /\ http[c] = "upgraded"
  /\ http' = [http EXCEPT ![c] = "serving"]
  /\ read' = [read EXCEPT ![c] = "open"]
  /\ UNCHANGED <<listener, ice, connected, requests, peerVars, coordVars>>

\* <-jc.DisconnectNotify()
Disconnected(c) ==
  /\ http[c] = "serving" /\ c \notin connected
  /\ http' = [http EXCEPT ![c] = "closePeer"]
  /\ UNCHANGED <<read, listener, ice, connected, requests, peerVars, coordVars>>

\* Seeded fault: the peer is not closed with its connection.
DeferredClose_Forgotten(c) ==
  /\ http[c] = "closePeer"
  /\ http' = [http EXCEPT ![c] = "done"]
  /\ UNCHANGED <<read, listener, ice, connected, requests, peerVars, coordVars>>

\* Seeded fault: the coordinator has set no close handler.
DeferredClose_NoHandler(c) ==
  /\ http[c] = "closePeer"
  /\ ClosePeer(c)
  /\ http' = [http EXCEPT ![c] = "done"]
  /\ UNCHANGED <<read, listener, ice, connected, requests>>

\* The deferred p.Close().
DeferredClose(c) ==
  /\ http[c] = "closePeer"
  /\ ClosePeer(c)
  /\ http' = [http EXCEPT ![c] = IF ClosesSession(c) THEN "unregister" ELSE "done"]
  /\ UNCHANGED <<read, listener, ice, connected, requests>>

HttpUnregisters(c) ==
  /\ http[c] = "unregister"
  /\ OnSessionClosed(Sid[c])
  /\ http' = [http EXCEPT ![c] = "done"]
  /\ UNCHANGED <<read, listener, ice, connected, requests, peerVars>>

-------------------------------------------------------------------------------
\* The read loop of a connection

\* "join": getOrCreateSession.
Join(c) ==
  /\ read[c] = "open" /\ c \in connected
  /\ requests[c] < MaxRequests
  /\ requests' = [requests EXCEPT ![c] = @ + 1]
  /\ EnsureSession(Sid[c])
  /\ read' = [read EXCEPT ![c] = "getSession"]
  /\ UNCHANGED <<http, listener, ice, connected, peerVars>>

\* PeerLocal.Join: GetSession.
JoinGetSession(c) ==
  /\ read[c] = "getSession" /\ joined[c] = None
  /\ EnsureSession(Sid[c])
  /\ joined' = [joined EXCEPT ![c] = sessions'[Sid[c]]]
  /\ read' = [read EXCEPT ![c] = "addPeer"]
  /\ UNCHANGED <<http, listener, ice, connected, requests, inSession, peerClosed, heard>>

\* PeerLocal.Join refuses a peer that has a Session already, be it from a join
\* that failed.
JoinRefused(c) ==
  /\ read[c] = "getSession" /\ joined[c] # None
  /\ read' = [read EXCEPT ![c] = "open"]
  /\ UNCHANGED <<http, listener, ice, connected, requests, peerVars, coordVars>>

JoinAddPeer(c) ==
  /\ read[c] = "addPeer"
  /\ inSession' = inSession \cup {c}
  /\ read' = [read EXCEPT ![c] = "answer"]
  /\ UNCHANGED <<http, listener, ice, connected, requests, joined, peerClosed, heard, coordVars>>

\* Join fails before the peer is added, or Answer after it: the error is replied.
JoinFails(c) ==
  /\ read[c] \in {"addPeer", "answer"} /\ "joinError" \in Faults
  /\ read' = [read EXCEPT ![c] = "open"]
  /\ UNCHANGED <<http, listener, ice, connected, requests, peerVars, coordVars>>

\* Answer succeeds and the callbacks are set.
Answer(c) ==
  /\ read[c] = "answer"
  /\ read' = [read EXCEPT ![c] = "listen"]
  /\ ice' = [ice EXCEPT ![c] = "armed"]
  /\ UNCHANGED <<http, listener, connected, requests, peerVars, coordVars>>

\* GetSession once more, to register the listener and start its goroutine.
Listen(c) ==
  /\ read[c] = "listen"
  /\ EnsureSession(Sid[c])
  /\ heard' = [heard EXCEPT ![c] = sessions'[Sid[c]]]
  /\ listener' = [listener EXCEPT ![c] = "listening"]
  /\ read' = [read EXCEPT ![c] = "open"]
  /\ UNCHANGED <<http, ice, connected, requests, joined, inSession, peerClosed>>

\* "presence_set" of a connection that has completed a join.
PresenceSet(c) ==
  /\ read[c] = "open" /\ c \in connected
  /\ heard[c] # None
  /\ requests[c] < MaxRequests
  /\ requests' = [requests EXCEPT ![c] = @ + 1]
  /\ read' = [read EXCEPT ![c] = "presence"]
  /\ UNCHANGED <<http, listener, ice, connected, peerVars, coordVars>>

PresenceGetSession(c) ==
  /\ read[c] = "presence"
  /\ EnsureSession(Sid[c])
  /\ read' = [read EXCEPT ![c] = "open"]
  /\ UNCHANGED <<http, listener, ice, connected, requests, peerVars>>

\* The loop finds the websocket closed, by the client or by the ICE callback.
ReadEnds(c) ==
  /\ read[c] = "open"
  /\ connected' = connected \ {c}
  /\ read' = [read EXCEPT ![c] = "ended"]
  /\ UNCHANGED <<http, listener, ice, requests, peerVars, coordVars>>

\* The listener goroutine, at the disconnection, leaves the Session it is in.
ListenerEnds(c) ==
  /\ listener[c] = "listening" /\ c \notin connected
  /\ listener' = [listener EXCEPT ![c] = "ended"]
  /\ UNCHANGED <<read, http, ice, connected, requests, peerVars, coordVars>>

-------------------------------------------------------------------------------
\* The ICE callback: p.Close(), then conn.Close().

IceFails(c) ==
  /\ ice[c] = "armed" /\ "iceFailure" \in Faults
  /\ ClosePeer(c)
  /\ ice' = [ice EXCEPT ![c] = IF ClosesSession(c) THEN "unregister" ELSE "closeConn"]
  /\ UNCHANGED <<read, http, listener, connected, requests>>

IceUnregisters(c) ==
  /\ ice[c] = "unregister"
  /\ OnSessionClosed(Sid[c])
  /\ ice' = [ice EXCEPT ![c] = "closeConn"]
  /\ UNCHANGED <<read, http, listener, connected, requests, peerVars>>

IceClosesConn(c) ==
  /\ ice[c] = "closeConn"
  /\ connected' = connected \ {c}
  /\ ice' = [ice EXCEPT ![c] = "done"]
  /\ UNCHANGED <<read, http, listener, requests, peerVars, coordVars>>

-------------------------------------------------------------------------------
Http(c) ==
  \/ Upgrade(c) \/ UpgradeFails(c) \/ Serve(c) \/ Disconnected(c) \/ DeferredClose(c)
  \/ HttpUnregisters(c)

Handler(c) ==
  \/ JoinGetSession(c) \/ JoinRefused(c) \/ JoinAddPeer(c) \/ JoinFails(c) \/ Answer(c)
  \/ Listen(c) \/ PresenceGetSession(c)

Ice(c) == IceUnregisters(c) \/ IceClosesConn(c)

Next ==
  \E c \in Conns :
    \/ Connect(c) \/ Http(c) \/ Join(c) \/ PresenceSet(c) \/ Handler(c) \/ ReadEnds(c)
    \/ ListenerEnds(c) \/ IceFails(c) \/ Ice(c)

Spec == Init /\ [][Next]_vars

(***************************************************************************)
(* Goroutines that can run do (each of a connection's makes finitely many  *)
(* steps, so none starves another); the read loop notices a closed         *)
(* websocket.  Nothing forces a client or the ICE agent.                   *)
(***************************************************************************)
Fairness ==
  \A c \in Conns :
    WF_vars(\/ Http(c) \/ Handler(c) \/ ListenerEnds(c) \/ Ice(c)
            \/ c \notin connected /\ ReadEnds(c))

FairSpec == Spec /\ Fairness

-------------------------------------------------------------------------------
\* Properties

TypeOK ==
  /\ read \in [Conns -> {"none", "open", "getSession", "addPeer", "answer", "listen",
                         "presence", "ended"}]
  /\ http \in [Conns -> {"none", "upgrade", "upgraded", "serving", "closePeer", "unregister",
                         "done"}]
  /\ listener \in [Conns -> {"none", "listening", "ended"}]
  /\ ice \in [Conns -> {"none", "armed", "unregister", "closeConn", "done"}]
  /\ connected \subseteq Conns
  /\ requests \in [Conns -> Nat]
  /\ joined \in [Conns -> Objects \cup {None}]
  /\ inSession \subseteq Conns
  /\ peerClosed \subseteq Conns
  /\ heard \in [Conns -> Objects \cup {None}]
  /\ sessions \in [Sids -> Objects \cup {None}]
  /\ created \in Nat
  /\ closed \subseteq Objects
  /\ gaugeSessions \in Int

(***************************************************************************)
(* onSessionClosed is given only a session id.  The entry it is about to   *)
(* delete is nevertheless the Session that was closed, never a newer one.  *)
(***************************************************************************)
Unregistering(c) == http[c] = "unregister" \/ ice[c] = "unregister"

UnregistersOwnSession ==
  \A c \in Conns : Unregistering(c) => joined[c] # None /\ sessions[Sid[c]] = joined[c]

(***************************************************************************)
(* sessions is a registry of Sessions, like localSessions of the etcd      *)
(* coordinator: a Session is found until it was closed, the close handler  *)
(* of whichever goroutine removes only a closed one, and none comes back.  *)
(***************************************************************************)
Registry == INSTANCE SessionRegistry WITH
  Slots <- Sids, SlotOf <- [o \in Objects |-> o[1]], Processes <- {}, registered <- sessions

ImplementsRegistry == Registry!Spec

(***************************************************************************)
(* prometheusGaugeSessions is the number of Sessions the coordinator has.  *)
(***************************************************************************)
Registered == {s \in Sids : sessions[s] # None}

GaugeCountsRegistered == gaugeSessions = Cardinality(Registered)

(***************************************************************************)
(* Peers that joined one session id share a Session, unless one of them    *)
(* slipped into a Session that was already closed.                         *)
(***************************************************************************)
PeersMeet ==
  \A c, d \in inSession :
    Sid[c] = Sid[d] /\ joined[c] \notin closed /\ joined[d] \notin closed
      => joined[c] = joined[d]

(***************************************************************************)
(* A lost connection is cleaned up: its peer leaves the Session and its    *)
(* listener goroutine ends.                                                *)
(***************************************************************************)
CleanedUp(c) == c \notin inSession /\ listener[c] # "listening" /\ http[c] = "done"

LostConnectionIsCleanedUp ==
  \A c \in Conns : (read[c] # "none" /\ c \notin connected) ~> CleanedUp(c)

(***************************************************************************)
(* A Session that was joined does not stay behind: as long as it is        *)
(* registered, one of the peers that joined it, be it in a join that       *)
(* failed, is still to be closed by its http handler, or a goroutine is    *)
(* about to unregister it.  This is the most that can be said: the look-up *)
(* of Connect (server.go:72), and those of Listen and presence_set after   *)
(* their peer was closed, make Sessions that nobody joins and nothing      *)
(* closes, against pkg/metrics.go:15, "Number of currently active sessions *)
(* on this node".                                                          *)
(***************************************************************************)
ToBeClosed(c) == c \notin peerClosed /\ http[c] # "done"

JoinedSessionsGoAway ==
  \A c \in Conns :
    joined[c] # None /\ sessions[Sid[c]] = joined[c] =>
      \E d \in Conns : joined[d] = joined[c] /\ (ToBeClosed(d) \/ Unregistering(d))
===============================================================================
