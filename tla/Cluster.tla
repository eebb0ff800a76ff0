-------------------------------- MODULE Cluster --------------------------------
(***************************************************************************)
(* The nodes of an etcd-mode cluster and the websockets between them: the  *)
(* session handler of Signal with its proxy (pkg/server.go), the join of   *)
(* JSONSignal (pkg/server_jsonrpc.go), the Sessions of each node, the      *)
(* gauges (pkg/metrics.go) and the drain of the process (cmd/server.go).   *)
(*                                                                         *)
(* Below it, module EtcdCoordinator models the coordinator step by step    *)
(* and shows that getOrCreateSession takes effect at one instant; here it  *)
(* is that instant.  onSessionClosed holds e.mu and the session's etcd     *)
(* mutex from before it deletes the key until it has deleted the entry of  *)
(* localSessions: one step, too.                                           *)
(*                                                                         *)
(* A member of Nodes is a process with its nodeID, a fresh uuid: a node    *)
(* that is restarted is another member at the same endpoint.  A client     *)
(* makes one visit, to whichever endpoint its load balancer picks.         *)
(* hops[c] is the chain of http handlers that serve it: hops[c][1] runs on *)
(* the process it dialled, and a handler that proxies c is followed by the *)
(* handler its request reached.                                            *)
(*                                                                         *)
(* GetSession and AddPeer are one step: no step between them looks at the  *)
(* peers of a Session and at the registry both, so an order in which the   *)
(* Session was closed, or unregistered as well, between the two ends like  *)
(* one in which both come right after the close.  (Module LocalNode has    *)
(* them apart, with the ICE callback, failing joins and repeated ones.)    *)
(***************************************************************************)
EXTENDS Integers, Sequences, FiniteSets

CONSTANTS Clients, Nodes, Endpoints, Sids, None,
          Endpoint,      \* Endpoint[n]: conf.Endpoint() of process n
          Sid,           \* Sid[c]: the session of c's URL and join, one in this client
          Started,       \* the processes that run at the beginning
          Owners,        \* who may own a session at the beginning
          Crashing,      \* the processes that may crash
          Signalled,     \* the processes that may get SIGINT or SIGTERM
          Lapsing,       \* the processes that may fail to keep a lease alive
          Failing,       \* the processes whose coordinator may fail
          MaxHops        \* bound of the model on the length of a chain

ASSUME ClusterConstants ==
  /\ Endpoint \in [Nodes -> Endpoints] /\ Sid \in [Clients -> Sids]
  /\ Started \cup Crashing \cup Signalled \cup Lapsing \cup Failing \subseteq Nodes
  /\ Owners \subseteq Started \cup {None}
  /\ MaxHops \in Nat \ {0}
  /\ None \notin Nodes \cup Clients
  /\ IsFiniteSet(Clients)
  /\ \A m, n \in Started : Endpoint[m] = Endpoint[n] => m = n

VARIABLES
  owner,          \* the NodeID in key "/session/s", or None
  takes,          \* how often the key of s was put
  hops,           \* the http handlers that serve c
  left,           \* the clients that closed their websocket or gave up
  join,           \* the join of c
  term,           \* takes, when the join of c was answered "local"
  sess,           \* the Session of c's peer, named by the client it was created for
  localSessions,  \* of each process
  closed,         \* the Sessions that were closed
  gaugeClients, gaugeProxyClients,
  process,
  present         \* the clients n served when it began to count them

hopVars  == <<hops, left>>
dirVars  == <<owner, takes>>
peerVars == <<join, term, sess>>
nodeVars == <<localSessions, closed>>
gauges   == <<gaugeClients, gaugeProxyClients>>
vars     == <<dirVars, hopVars, peerVars, nodeVars, gauges, process, present>>

\* A session may have an owner already: somebody dialled it and went away before
\* the join, which leaves its key behind.
Init ==
  /\ owner \in [Sids -> Owners]
  /\ takes = [s \in Sids |-> IF owner[s] = None THEN 0 ELSE 1]
  /\ hops = [c \in Clients |-> << >>]
  /\ left = {}
  /\ join = [c \in Clients |-> "none"]
  /\ term = [c \in Clients |-> 0]
  /\ sess = [c \in Clients |-> None]
  /\ localSessions = [n \in Nodes |-> [s \in Sids |-> None]]
  /\ closed = {}
  /\ gaugeClients = [n \in Nodes |-> 0]
  /\ gaugeProxyClients = [n \in Nodes |-> 0]
  /\ process = [n \in Nodes |-> IF n \in Started THEN "running" ELSE "off"]
  /\ present = [n \in Nodes |-> {}]

-------------------------------------------------------------------------------
\* The directory

Up(n) == process[n] \in {"running", "draining", "counting", "exiting"}
LiveAt(e) == {n \in Nodes : Up(n) /\ Endpoint[n] = e}

\* getOrCreateSession(s) on n: owner'[s] is the NodeID in the metadata returned.
GetOrCreate(n, s) ==
  IF owner[s] = None
    THEN owner' = [owner EXCEPT ![s] = n] /\ takes' = [takes EXCEPT ![s] = @ + 1]
    ELSE UNCHANGED dirVars

\* It returns an error; the key may have been put all the same.
GetOrCreateFails(n, s) == n \in Failing /\ (GetOrCreate(n, s) \/ UNCHANGED dirVars)

\* Seeded fault: every known session is somewhere else.
Redirect_Always(n, o) == TRUE

\* meta.Redirect
Redirect(n, o) == o # n

-------------------------------------------------------------------------------
\* The handler of "/session/{id}": handler i of client c

At(c, i, a) == i \in DOMAIN hops[c] /\ hops[c][i].at = a
Hop(n, a) == [node |-> n, at |-> a, to |-> None]
Goto(c, i, a) == hops' = [hops EXCEPT ![c][i].at = a]
NodeOf(c, i) == hops[c][i].node

\* The handler has answered the request with an upgrade.
Open == {"upgraded", "serving", "proxying"}

\* The websocket that handler i serves was closed at its other end.
Lost(c, i) == IF i = 1 THEN c \in left ELSE hops[c][i - 1].at = "done"

Dial(c) ==
  /\ hops[c] = << >>
  /\ \E n \in Nodes : Up(n) /\ hops' = [hops EXCEPT ![c] = <<Hop(n, "lookup")>>]
  /\ UNCHANGED <<dirVars, left, peerVars, nodeVars, gauges, process, present>>

\* getOrCreateSession, and the upgrade if the session is on this node: all the
\* others see of it is that the request was answered.
Lookup(c, i) ==
  LET n == NodeOf(c, i)
      s == Sid[c] IN
  /\ At(c, i, "lookup")
  /\ GetOrCreate(n, s)
  /\ IF Redirect(n, owner'[s])
       THEN hops' = [hops EXCEPT ![c][i] = [@ EXCEPT !.at = "redirected", !.to = owner'[s]]]
       ELSE Goto(c, i, "upgraded")
  /\ UNCHANGED <<left, peerVars, nodeVars, gauges, process, present>>

\* 500
LookupFails(c, i) ==
  /\ At(c, i, "lookup")
  /\ GetOrCreateFails(NodeOf(c, i), Sid[c])
  /\ Goto(c, i, "done")
  /\ UNCHANGED <<left, peerVars, nodeVars, gauges, process, present>>

\* Seeded fault: a client is counted when its proxy is ready only.
CountProxied_Late(n) == UNCHANGED gaugeProxyClients

\* prometheusGaugeProxyClients.Inc()
CountProxied(n) == gaugeProxyClients' = [gaugeProxyClients EXCEPT ![n] = @ + 1]

\* The client is counted, and proxy.ServeHTTP dials the endpoint in the key,
\* where another process than the one named there may have started.
StartProxy(c, i) ==
  LET backend == LiveAt(Endpoint[hops[c][i].to]) IN
  /\ At(c, i, "redirected")
  /\ CountProxied(NodeOf(c, i))
  /\ IF backend = {} \/ Len(hops[c]) = MaxHops
       THEN Goto(c, i, "dialing")
       ELSE \E n \in backend :
              hops' = [hops EXCEPT ![c] = Append([@ EXCEPT ![i].at = "dialing"], Hop(n, "lookup"))]
  /\ UNCHANGED <<dirVars, left, peerVars, nodeVars, gaugeClients, process, present>>

\* Seeded fault: that the backend has gone is not noticed.
NoBackend_Unnoticed(c, i) == Len(hops[c]) = i

\* Nobody is at the other end of the proxy, or no longer.
NoBackend(c, i) == Len(hops[c]) = i \/ At(c, i + 1, "done")

\* Seeded fault: the client stays counted when the backend cannot be reached.
UncountRefused_Forgotten(n) == UNCHANGED gaugeProxyClients

\* prometheusGaugeProxyClients.Dec() after ServeHTTP has answered 503.
UncountRefused(n) == gaugeProxyClients' = [gaugeProxyClients EXCEPT ![n] = @ - 1]

DialFails(c, i) ==
  /\ At(c, i, "dialing") /\ NoBackend(c, i)
  /\ UncountRefused(NodeOf(c, i))
  /\ Goto(c, i, "done")
  /\ UNCHANGED <<dirVars, left, peerVars, nodeVars, gaugeClients, process, present>>

\* The backend has upgraded, so the client is upgraded, too.
ProxyUpgrades(c, i) ==
  /\ At(c, i, "dialing") /\ i < Len(hops[c]) /\ hops[c][i + 1].at \in Open
  /\ Goto(c, i, "proxying")
  /\ UNCHANGED <<dirVars, left, peerVars, nodeVars, gauges, process, present>>

\* Either websocket of the proxy ends: ServeHTTP closes both and returns.
ProxyEnds(c, i) ==
  /\ At(c, i, "proxying") /\ (Lost(c, i) \/ NoBackend(c, i))
  /\ gaugeProxyClients' = [gaugeProxyClients EXCEPT ![NodeOf(c, i)] = @ - 1]
  /\ Goto(c, i, "done")
  /\ UNCHANGED <<dirVars, left, peerVars, nodeVars, gaugeClients, process, present>>

\* The client is counted, the read loop of its JSONSignal starts.
Serve(c, i) ==
  /\ At(c, i, "upgraded")
  /\ gaugeClients' = [gaugeClients EXCEPT ![NodeOf(c, i)] = @ + 1]
  /\ Goto(c, i, "serving")
  /\ UNCHANGED <<dirVars, left, peerVars, nodeVars, gaugeProxyClients, process, present>>

\* <-jc.DisconnectNotify(), once the read loop is out of its handler.
ServeEnds(c, i) ==
  /\ At(c, i, "serving") /\ Lost(c, i) /\ join[c] # "local"
  /\ gaugeClients' = [gaugeClients EXCEPT ![NodeOf(c, i)] = @ - 1]
  /\ Goto(c, i, "closePeer")
  /\ UNCHANGED <<dirVars, left, peerVars, nodeVars, gaugeProxyClients, process, present>>

Peers(o) == {c \in Clients : join[c] = "joined" /\ sess[c] = o}

PeersGone(cs) ==
  /\ join' = [c \in Clients |-> IF c \in cs THEN "over" ELSE join[c]]
  /\ sess' = [c \in Clients |-> IF c \in cs THEN None ELSE sess[c]]
  /\ term' = [c \in Clients |-> IF c \in cs THEN 0 ELSE term[c]]

\* The deferred p.Close(): the last peer closes its Session, once.
ClosePeer(c, i) ==
  LET last == join[c] = "joined" /\ sess[c] \notin closed /\ Peers(sess[c]) = {c} IN
  /\ At(c, i, "closePeer")
  /\ closed' = IF last THEN closed \cup {sess[c]} ELSE closed
  /\ Goto(c, i, IF last THEN "unregister" ELSE "done")
  /\ PeersGone({c})
  /\ UNCHANGED <<dirVars, left, localSessions, gauges, process, present>>

\* onSessionClosed: the key is deleted whoever it names.
Unregister(c, i) ==
  /\ At(c, i, "unregister")
  /\ owner' = [owner EXCEPT ![Sid[c]] = None]
  /\ localSessions' = [localSessions EXCEPT ![NodeOf(c, i)][Sid[c]] = None]
  /\ Goto(c, i, "done")
  /\ UNCHANGED <<takes, left, peerVars, closed, gauges, process, present>>

\* It fails, before or after the key was deleted: the entry stays.
UnregisterFails(c, i) ==
  /\ At(c, i, "unregister") /\ NodeOf(c, i) \in Failing
  /\ owner' \in {owner, [owner EXCEPT ![Sid[c]] = None]}
  /\ Goto(c, i, "done")
  /\ UNCHANGED <<takes, left, peerVars, nodeVars, gauges, process, present>>

-------------------------------------------------------------------------------
\* The client, and its join

Leave(c) ==
  /\ hops[c] # << >> /\ c \notin left
  /\ left' = left \cup {c}
  /\ UNCHANGED <<dirVars, hops, peerVars, nodeVars, gauges, process, present>>

\* The process that serves c, not proxies it.
Server(c) == NodeOf(c, Len(hops[c]))

Reachable(c) ==
  /\ hops[c] # << >> /\ c \notin left
  /\ At(c, Len(hops[c]), "serving")
  /\ \A i \in 1 .. Len(hops[c]) - 1 : At(c, i, "proxying")

\* Seeded fault: the join goes ahead although the session is elsewhere.
JoinRedirected_Ignored(n, o) == FALSE

\* 302 with the metadata, instead of a join.
JoinRedirected(n, o) == Redirect(n, o)

\* "join" looks the session up once more.
Join(c) ==
  LET n == Server(c)
      s == Sid[c] IN
  /\ Reachable(c) /\ join[c] = "none"
  /\ \/ /\ GetOrCreate(n, s)
        /\ IF JoinRedirected(n, owner'[s])
             THEN join' = [join EXCEPT ![c] = "refused"] /\ UNCHANGED term
             ELSE join' = [join EXCEPT ![c] = "local"] /\ term' = [term EXCEPT ![c] = takes'[s]]
     \/ GetOrCreateFails(n, s) /\ join' = [join EXCEPT ![c] = "refused"] /\ UNCHANGED term
  /\ UNCHANGED <<hopVars, sess, nodeVars, gauges, process, present>>

\* PeerLocal.Join: GetSession, and the peer is added to the Session it returned.
JoinSession(c) ==
  LET n == Server(c)
      s == Sid[c] IN
  /\ join[c] = "local"
  /\ localSessions' = [localSessions EXCEPT ![n][s] = IF @ = None THEN c ELSE @]
  /\ sess' = [sess EXCEPT ![c] = localSessions'[n][s]]
  /\ join' = [join EXCEPT ![c] = "joined"]
  /\ UNCHANGED <<dirVars, hopVars, term, closed, gauges, process, present>>

-------------------------------------------------------------------------------
\* The processes

\* Process n ends, and with it every goroutine and websocket of its own.
Stop(n, how) ==
  LET Served == {c \in Clients : hops[c] # << >> /\ Server(c) = n} IN
  /\ process' = [process EXCEPT ![n] = how]
  /\ hops' = [c \in Clients |-> [i \in DOMAIN hops[c] |->
                IF NodeOf(c, i) = n THEN [hops[c][i] EXCEPT !.at = "done"] ELSE hops[c][i]]]
  /\ PeersGone(Served)
  /\ localSessions' = [localSessions EXCEPT ![n] = [s \in Sids |-> None]]
  /\ gaugeClients' = [gaugeClients EXCEPT ![n] = 0]
  /\ gaugeProxyClients' = [gaugeProxyClients EXCEPT ![n] = 0]
  /\ present' = [present EXCEPT ![n] = {}]
  /\ UNCHANGED <<dirVars, left, closed>>

\* A crash, or a second signal.
Crash(n) == n \in Crashing /\ Up(n) /\ Stop(n, "crashed")

Start(n) ==
  /\ process[n] = "off" /\ LiveAt(Endpoint[n]) = {}
  /\ process' = [process EXCEPT ![n] = "running"]
  /\ UNCHANGED <<dirVars, hopVars, peerVars, nodeVars, gauges, present>>

\* etcd drops the key of a process that no longer keeps its lease alive: it is
\* dead, or cut off for longer than the lease lasts.
KeyExpires(s) ==
  /\ owner[s] # None
  /\ ~Up(owner[s]) \/ owner[s] \in Lapsing
  /\ owner' = [owner EXCEPT ![s] = None]
  /\ UNCHANGED <<takes, hopVars, peerVars, nodeVars, gauges, process, present>>

GotSignal(n) ==
  /\ n \in Signalled /\ process[n] = "running"
  /\ process' = [process EXCEPT ![n] = "draining"]
  /\ UNCHANGED <<dirVars, hopVars, peerVars, nodeVars, gauges, present>>

\* c's messages pass through n: the proxies before it are all there.
Uses(c, n) ==
  /\ c \notin left
  /\ \E i \in DOMAIN hops[c] :
       /\ NodeOf(c, i) = n /\ hops[c][i].at \in {"serving", "proxying"}
       /\ \A j \in 1 .. i - 1 : At(c, j, "proxying")

\* MetricsGetActiveClientsCount, at once and then every 500 ms, reads one gauge
\* after the other; what it found is acted on a moment later (Exit).
CountClients(n) ==
  /\ process[n] = "draining" /\ gaugeClients[n] = 0
  /\ process' = [process EXCEPT ![n] = "counting"]
  /\ present' = [present EXCEPT ![n] = {c \in Clients : Uses(c, n)}]
  /\ UNCHANGED <<dirVars, hopVars, peerVars, nodeVars, gauges>>

CountProxyClients(n) ==
  /\ process[n] = "counting"
  /\ process' = [process EXCEPT ![n] = IF gaugeProxyClients[n] = 0 THEN "exiting" ELSE "draining"]
  /\ UNCHANGED <<dirVars, hopVars, peerVars, nodeVars, gauges, present>>

Exit(n) == process[n] = "exiting" /\ Stop(n, "idleExit")

-------------------------------------------------------------------------------
Handler(c) ==
  \E i \in DOMAIN hops[c] :
    \/ Lookup(c, i) \/ LookupFails(c, i)
    \/ StartProxy(c, i) \/ DialFails(c, i) \/ ProxyUpgrades(c, i) \/ ProxyEnds(c, i)
    \/ Serve(c, i) \/ ServeEnds(c, i) \/ ClosePeer(c, i)
    \/ Unregister(c, i) \/ UnregisterFails(c, i)

MainLoop(n) == CountClients(n) \/ CountProxyClients(n) \/ Exit(n)

Next ==
  \/ \E c \in Clients : Dial(c) \/ Leave(c) \/ Handler(c) \/ Join(c) \/ JoinSession(c)
  \/ \E n \in Nodes : Crash(n) \/ Start(n) \/ GotSignal(n) \/ MainLoop(n)
  \/ \E s \in Sids : KeyExpires(s)

Spec == Init /\ [][Next]_vars

(***************************************************************************)
(* Goroutines that can run do.  The handlers make finitely many steps, so  *)
(* it is enough to ask that some handler runs while one can: none starves  *)
(* another.  The ticker of the drain keeps ticking.  etcd expires the keys *)
(* of dead processes.  Nothing forces a client to come, to join or to      *)
(* leave, or a process to start or to fail.                                *)
(***************************************************************************)
Fairness ==
  /\ WF_vars(\E c \in Clients : Handler(c) \/ JoinSession(c))
  /\ WF_vars(\E s \in Sids : owner[s] # None /\ ~Up(owner[s]) /\ KeyExpires(s))
  /\ \A n \in Signalled : WF_vars(MainLoop(n))

FairSpec == Spec /\ Fairness

-------------------------------------------------------------------------------
\* Properties

HopStates == {"lookup", "redirected", "dialing", "closePeer", "unregister", "done"}
               \cup Open
HopRecords == [node : Nodes, at : HopStates, to : Nodes \cup {None}]

TypeOK ==
  /\ owner \in [Sids -> Nodes \cup {None}]
  /\ takes \in [Sids -> Nat]
  /\ hops \in [Clients -> Seq(HopRecords)] /\ \A c \in Clients : Len(hops[c]) <= MaxHops
  /\ left \subseteq Clients
  /\ join \in [Clients -> {"none", "local", "refused", "joined", "over"}]
  /\ term \in [Clients -> Nat]
  /\ sess \in [Clients -> Clients \cup {None}]
  /\ localSessions \in [Nodes -> [Sids -> Clients \cup {None}]]
  /\ closed \subseteq Clients
  /\ gaugeClients \in [Nodes -> Nat] /\ gaugeProxyClients \in [Nodes -> Nat]
  /\ process \in [Nodes -> {"off", "running", "draining", "counting", "exiting", "crashed",
                            "idleExit"}]
  /\ present \in [Nodes -> SUBSET Clients]

(***************************************************************************)
(* Proxies do not chase a session in circles: a client is passed on to     *)
(* another process only because the session was taken anew on the way, so  *)
(* its chain is no longer than the session's owners.  Not counted are the  *)
(* hops from a restarted process to itself: while the key still names its  *)
(* predecessor at the same endpoint, it takes itself for another node.     *)
(***************************************************************************)
SelfDials(c) ==
  {i \in 1 .. Len(hops[c]) - 1 : NodeOf(c, i) = NodeOf(c, i + 1) /\ hops[c][i].to # NodeOf(c, i)}

NoProxyLoop ==
  \A c \in Clients : Len(hops[c]) <= 1 + takes[Sid[c]] + Cardinality(SelfDials(c))

(***************************************************************************)
(* Peers that joined a session while it had the same owner are together in *)
(* one Session, whatever nodes their clients dialled; unless one slipped   *)
(* into a Session that was being closed.  (Without "the same owner" this   *)
(* is false: see EtcdCoordinator.OneNodePerSession.)                       *)
(***************************************************************************)
PeersOfOneTermMeet ==
  \A c, d \in Clients :
    /\ join[c] = "joined" /\ sess[c] \notin closed
    /\ join[d] = "joined" /\ sess[d] \notin closed
    /\ Sid[c] = Sid[d] /\ term[c] = term[d]
    => sess[c] = sess[d]

(***************************************************************************)
(* cmd/server.go: a process that ends because it counted no active client  *)
(* does not cut off a client that it served, or proxied to another node,   *)
(* when it began to count.                                                 *)
(***************************************************************************)
DrainCutsOffNobody ==
  \A n \in Nodes : process[n] = "exiting" => ~\E c \in present[n] : Uses(c, n)

(***************************************************************************)
(* Whoever dials is upgraded or refused, and whoever joins is answered, or *)
(* loses its server, through any chain of proxies and dead nodes: again    *)
(* and again there is a moment when nobody waits (Dial and Join, the steps *)
(* that start a wait, happen finitely often).                              *)
(***************************************************************************)
Waiting(c) ==
  \/ hops[c] # << >> /\ hops[c][1].at \notin Open \cup {"done"}
  \/ join[c] = "local"

EveryClientIsAnswered == []<>(\A c \in Clients \ left : ~Waiting(c))

(***************************************************************************)
(* A drain ends: once every client has left, the chains of proxies unwind, *)
(* the gauges of every node return to zero and a draining process exits.   *)
(***************************************************************************)
DrainEnds == \A n \in Signalled : (process[n] = "draining" /\ left = Clients) ~> ~Up(n)
===============================================================================
