# A TLA+ model of ion-cluster

ion-cluster runs ion-sfu, a WebRTC forwarding server, on several nodes. Each
session (a room) lives on one node; the nodes agree through etcd on which, and a
client that reaches another node is proxied to it. This directory holds models
of the parts of ion-cluster that have a protocol of their own, TLC
configurations that check them on small instances, and proofs, checked by
TLAPS, of all of their safety properties, for instances of any size.

1. [The system](#1-the-system)
2. [The modules](#2-the-modules)
3. [The runs](#3-the-runs)
4. [The proofs](#4-the-proofs)
5. [What the code does not do as it says](#5-what-the-code-does-not-do-as-it-says)
6. [What is not modelled](#6-what-is-not-modelled)
7. [Plan](#7-plan)

## 1. The system

```
 client (pkg/client, cmd/client.go)          another node
   |  websocket, JSON-RPC 2                      |
   v                                             v
 Signal (pkg/server.go)  ----  proxy, if the session is on another node
   |  one goroutine per connection
   v
 JSONSignal (pkg/server_jsonrpc.go)  --- PeerLocal (ion-sfu), ICE callback
   |  GetSession                    |  presence, broadcast
   v                                v
 coordinator (pkg/coordinator*.go)  Session (pkg/session.go)
   |                                ^
   +--- etcd                        +-- onSessionClosed when the last peer left
```

| component | state | operations | interacts with | hard | correct if |
|---|---|---|---|---|---|
| etcd coordinator, `pkg/coordinator_etcd.go` | `e.mu`, `localSessions`, `sessionLeases`; in etcd: the keys `/session/<id>`, their leases, a mutex per session | `getOrCreateSession`, `ensureSession`, `GetSession`, `onSessionClosed` | etcd; called by Signal and JSONSignal, called back by Session | a handler is up to seven requests and two locks; each may fail, late or ambiguously; leases run out; nodes die | get-or-create is atomic; a session has one node; keys do not outlive their sessions; no call hangs |
| local coordinator, `pkg/coordinator.go` | `sessions` | the same | called as above | the close of a Session races joins of the same id | peers of one id meet; the registry follows the Sessions |
| Session, `pkg/session.go` | presence map and revision, a channel per listener | `UpdatePresenceMetaForPeer`, `Broadcast*`, `BroadcastAddListener`, `BroadcastRemoveListener` | JSONSignal | channels are bounded and drop; goroutines of old and new connections share a peer id | a client can trust the last message it got; who left is absent |
| JSONSignal, `pkg/server_jsonrpc.go` | the `PeerLocal`, the listener goroutine | `join`, `offer`, `answer`, `trickle`, `ping`, `presence_set`, the callbacks | the coordinator, Session, the client | the ICE callback closes the connection beside the handlers | every request is answered; a lost connection is cleaned up |
| Signal, `pkg/server.go` | one http handler per connection, the client gauges | the websocket handler, the proxy, `ServeWebsocket` | the coordinator, JSONSignal, the handler of another node | looks the session up before the client joins; proxies by an answer that may be stale, to nodes that die and restart | whoever dials is answered; proxies do not go in circles; peers meet whatever node they dialled |
| shutdown, `cmd/server.go`, `pkg/metrics.go` | the gauges, the drain ticker | signal, tick, exit | reads what Signal counts | gauges change while they are read, one after the other | the idle exit cuts off nobody it saw; the drain ends |
| Go client, `pkg/client`, `cmd/client.go`, `cmd/composite.go` | two PeerConnections, candidate buffers | `Join`, `Publish`, both negotiations, the main loop | JSONSignal | two goroutines negotiate at once; candidates overtake descriptions | descriptions match; calls return; what is published is negotiated |
| compositor, `pkg/client/gst/compositor.go`, `gst.c` | `trackBins`, the key frame callbacks, the bins of the pipeline, the pads of the mixer and their places | `AddInputTrack`, the end of a track, relayout | OnTrack of the client, gstreamer's threads | ending tracks do not take the lock; bins are kept by an id the sender chose; layouts for 16 videos only | the videos fill the frame side by side; a track that ended leaves nothing |
| authentication, configuration, gstreamer glue | none of a protocol | | | | not modelled |

`PROJECT.json` lists under `hazards` where, line by line, these difficulties
bite, and which property looks at each.

## 2. The modules

Every module keeps the control of the code (each state change, guard, early
return and error path, in order) and abstracts its data: a session id, a peer
id, a metadata or an offer is a model value or a number. A handler that holds a
lock from beginning to end is one step; one that waits (for etcd, for a lock,
for a reply) is one step between two waits. `PROJECT.json` maps each definition
to its lines.

Definitions named `Operation_Something` and commented "Seeded fault" are wrong
versions of `Operation`. No specification uses them. Each stands for a plausible
bug; putting it in the place of the right one makes TLC report the property it is
listed with in `PROJECT.json`, which shows that the property notices that bug.

### SessionDirectory, SessionRegistry, EtcdCoordinator, MCEtcdCoordinator, EtcdCoordinator_proofs

`EtcdCoordinator` runs `pkg/coordinator_etcd.go` on every node of a cluster. A
member of `Conns` is a *visit*: one call of `getOrCreateSession`, and, when it
answers that the session is local, `GetSession`, the addition of a peer and its
removal. The addition may fail after `GetSession` (`JoinFails`); the peer has its
Session then, and its `Close` leaves it as if it had joined. The look-up in
`pkg/server.go:72`, before the client joins, is a visit of its own that ends with
`Finish`. A member of `Conns` may also be one of the further `GetSession` calls of a
connection that has joined, at the end of join (`pkg/server_jsonrpc.go:118`) or in
`presence_set` (line 202): `Handle`, then `GetSessionAgain`, between which the peer
may leave. These calls are `ensureSession` only and take no key. A member of `Conns`
grants at most one lease and creates at most one Session, so both are named by it.

| model | code |
|---|---|
| `kv`, `lock`, `lease` | the keys, the mutexes of `concurrency.NewMutex`, the leases of `Grant` |
| `emu`, `sessionLeases`, `localSessions`, `gauge` | the fields of `etcdCoordinator`, the gauge of `pkg/metrics.go` |
| `pc`, `ret`, `sess`, `expired` | the goroutine: where it is, what it got, whether its 5 s context is past its deadline |
| `session`, `peers` | a `Session` and its peers (ion-sfu's `SessionLocal`, external) |
| `unserved` | history: the ids whose key was put while their node had no Session of that id, and has got none since |
| `Call`, `Lock`, `LockFails`, `Get`, `Grant`, `GetFails`, `KeepAlive`, `RegisterLease`, `Put`, `PutFails`, `Unlock` | `getOrCreateSession`, lines 62-138 |
| `EnsureSession`, `GetSession`, `AddPeer`, `JoinFails`, `RemovePeer`, `Handle`, `GetSessionAgain`, `Finish` | `GetSession` and `ensureSession`, and what JSONSignal does with the Session |
| `CloseBegin`, `CloseLock`, `CloseLockFails`, `CancelLease`, `CloseDelete`, `CloseDeleteFails`, `CloseUnlock` | `onSessionClosed`, with its early returns |
| `Deadline`, `LeaseExpires`, `LockExpires`, `Crash` | time, etcd and the death of a node |

A request that fails may have been executed by etcd or not (`PutFails`,
`CloseDeleteFails` and `LosesLock` choose). The constant `Faults` says which
faults an instance has: `timeout`, `leaseLoss`, `lockLoss`, `crash`, `joinError`.

`SessionDirectory` is the abstract specification: a map from session ids to
owning nodes and an atomic get-or-create. `ImplementsDirectory` is its
specification under the mapping `owner[s]` = the node of the lease `kv[s]` was
put with, `answer` = `ret`.

`SessionRegistry` is the abstract specification of the other half of a coordinator,
`GetSession` and the close handler, which both coordinators implement: a Session
is registered where there is none (`Open`), closed at most once (`Close`),
forgotten only after that (`Forget`), and lost with its process (`Die`); none comes
back. `ImplementsRegistry` of `EtcdCoordinator` maps its slots to pairs of a node and
an id and `registered` to `localSessions`; that of `LocalNode` to ids and
`sessions`.

### Session, MCSession, Session_proofs

The Sessions that one session id has over time, with the join and `presence_set`
handlers and the listener goroutine of every connection. A connection looks the
Session up three times, and may be given a different one each time: in
`PeerLocal.Join` (`joined`), in line 118 for its listener (`captured`), and in line
202 for every `presence_set` (`target`). The last peer that leaves a Session closes
it (`LeaveSession`); the close handler runs later (`OnSessionClosed`), and until then
a join may still be given the closed Session (`late` remembers who was). `presence`,
`presenceRevision`, `broadcastListeners` and `listen` (the channels) are the code's;
`conn` is where the join handler, then the listener goroutine is, `setting` what a
handler is about to store, `seen` what a client was told.
`UpdatePresenceMetaForPeer` includes the broadcast it ends with, and a message
to a full channel is dropped. The channel of the code holds 32 messages; `Cap`
is that capacity.

### LocalNode, MCLocalNode, LocalNode_proofs

A node in local mode, from the http request to its end. Each connection has
four threads of control: the read loop (`read`), the http handler (`http`), the
listener goroutine (`listener`), and the ICE callback (`ice`). `sessions`,
`closed`, `gaugeSessions` are the coordinator's. `UrlSid[c]` is the id in the URL of
a connection and `Sid[c]` the one it joins; the code does not compare them. `Connect`,
`Upgrade`, `Serve`,
`Disconnected`, `DeferredClose`, `HttpUnregisters` are the handler of
`pkg/server.go`; `Join` to `Listen` the handler of `join`; `PresenceSet` and
`PresenceGetSession` the look-up `presence_set` does, which may create a
Session; `IceFails`, `IceUnregisters`, `IceClosesConn` the callback. The process
itself does not end here: see Cluster.

That a peer's `Close` removes it once, and that the removal of the last peer
closes the Session and calls `onSessionClosed` outside of its lock, is how
ion-sfu behaves; it is external. A peer may be added to a Session that is
already closed: nothing in the code prevents it.

### Cluster, MCCluster, Cluster_proofs

The composition: several processes in etcd mode, the websockets of clients to
them and between them. The coordinator is the atomic directory that
`EtcdCoordinator` is proved to implement (`GetOrCreate`, which may fail after it
took effect); `Unregister` is `onSessionClosed`, whose locks make it one step for
the others.

| model | code |
|---|---|
| `owner`, `takes` | the NodeID in `/session/<id>`; how often the key was put (history) |
| `hops[c]` | the chain of http handlers that serve a client: each has its process, its place in the handler of `/session/{id}` and, if it redirects, the node of the metadata |
| `Lookup`, `LookupFails`, `StartProxy`, `DialFails`, `ProxyUpgrades`, `ProxyEnds` | the handler up to `return` in line 93, with the websocketproxy library (external): it dials the backend first, upgrades the client when the backend has upgraded, and ends when either side does |
| `Serve`, `ServeEnds`, `ClosePeer`, `Unregister`, `UnregisterFails` | the rest of the handler, with its deferred `Close` |
| `join`, `term`, `sess`, `Join`, `JoinSession` | the `join` of JSONSignal: a second look-up, the 302, `GetSession` and the peer |
| `gaugeClients`, `gaugeProxyClients` | the gauges of `pkg/metrics.go` |
| `process`, `GotSignal`, `CountClients`, `CountProxyClients`, `Exit` | `serverMain` after a signal: the count is two readings, and acted on later |
| `Crash`, `Start`, `KeyExpires` | a crash, a second signal or an error of the http server; a process that starts; etcd |

A process is named by its nodeID, a fresh uuid: a restarted node is another
member of `Nodes` at the same endpoint, so a proxy that dials the endpoint of a
dead node reaches its successor. A client joins the session of its URL, as the
clients of this repository do (`LocalNode` lets the two differ).

### Compositor, MCCompositor, CompositorLayout_proofs, Compositor_proofs

The compositing client. A track has at most one goroutine at a time: the
`AddInputTrack` that adds it, which holds `c.mu`, and then `bindTrackToAppsrc`,
which does not. `Build`, `Link`, `Count`, `Walk`, `Store` are the first, `TrackEnds`,
`FindBin`, `Remove`, `Count`, `Walk`, `Forget` the second. Relayout is two steps,
the reading of `numsinkpads` and the walk over the pads, because another
goroutine may add or remove a pad in between. `Layout` computes the places with
the code's arithmetic; beyond 16 videos `rows` and `cols` are uninitialized, and
`Grids` chooses them from `Garbage`, zero and negative numbers included, so
`Quotient` is C's division, which truncates. A track finds the bin it removes by an
id that the sender chose: an audio track may find the bin of a video, removes it, and
releases no pad of the video mixer (`ReleasedBy`). Unsynchronized accesses to Go
maps and to the list of pads may end the process (`RaceCrashes`); if they do not,
they act as if they came one after the other. `unbuilt`, `reused` and `overlapped`
are history variables for the properties.

### Client, MCClient, Client_proofs

The Go client at one end of a websocket and the JSONSignal that serves it at
the other. The websocket is a queue in each direction; the jsonrpc2 library
(external) runs the handler of a message before it reads the next one, and
hands a reply to the goroutine that waits for its id (`Pending`). An error reply to a
notification (a candidate, an answer) carries the zero id, which is that of the first
call, join: if that is still pending, the reply fails it. The client's goroutines are
`clientThread` (`at["main"]`), the operations goroutine of pion that calls
`pubNegotiationNeeded` (`at["ops"]`), and the read loop. pion's PeerConnection
is external and modelled by what the code relies on: `SetLocalDescription`
takes only the offer made last and only in the stable state,
`SetRemoteDescription` an answer only in have-local-offer, and the
negotiation-needed callback comes while the description is out of date. So is
the subscriber of ion-sfu: one offer at a time, another one after the answer if
something changed meanwhile. With the fault `descriptionError` a PeerConnection, of
either side, does not make or take a description, and the error returns of `Join`,
`pubNegotiationNeeded`, `signalOnNegotiate` and of the server's answer handler are
taken. The main loop is that of `clientThread`; `compositeThread` ends otherwise
(section 6).

`signalOnTrickle` is two steps for the pub transport (the check of
`RemoteDescription`, then the append), because `Join` sets the one and reads
the other in another goroutine, without a lock.

## 3. The runs

Runs that pass:

| run | instance | what it shows |
|---|---|---|
| `etcd_faulty` | three visits or look-ups on two nodes; `timeout`, `leaseLoss`, `crash`, `joinError` | `OneInCriticalSection`; `ImplementsDirectory` and `ImplementsRegistry`; `KeyHasKeeper`: a key that is kept alive can be given up; `ClosesOwnSession`: `onSessionClosed`, which is given an id only, deletes the Session that was closed; `GaugeCountsSessions`; `NoResidue`: whatever the order of joins, failing joins, last leaves, rejoins and further look-ups, when all visits are over a Session is left only if its `onSessionClosed` failed or no join ever got it, and a key only if a Session of it is left or none was ever registered for it |
| `etcd_live` | two visits on one node; the same faults and `lockLoss` | `EveryCallReturns`, though `e.mu` and the etcd mutex are taken in opposite orders; `DeadNodeIsReplaced` |
| `session_presence` | two peers, two Sessions of their id, channels of capacity 1, three updates; failing joins | `RevisionsIncrease`, `RevisionNamesSnapshot`, `PeerIsListening`, `DepartedAreAbsent` |
| `local_node` | two connections that join one id, the URL of one of them names another; two requests each; every fault | `UnregistersOwnSession`, `PeersMeet`, `ImplementsRegistry`; `JoinedSessionsGoAway`: a Session that was joined stays registered only while somebody is still to close or unregister it; `LostConnectionIsCleanedUp` |
| `cluster` | two clients of one session, two endpoints, one of them restarted; a crash, a lost lease, a failing coordinator, a drain | `NoProxyLoop`: a chain of proxies is no longer than the session had owners; `PeersOfOneTermMeet`: peers that joined under one owner share a Session, whichever nodes they dialled; `DrainCutsOffNobody`; `EveryClientIsAnswered` and `DrainEnds`, through chains, dead and restarted backends |
| `compositor` | three videos, two of which share an id, and an audio track with the id of the third, beside 0, 3, 8 or 15 more videos | `PictureIsRight`: a relayout that nothing overlaps leaves up to 16 videos inside the frame, visible and not over each other, whatever went wrong before; `NothingLeft`; `BinIsFound`: a track that ends removes its own bin, and meets NULL only if the bin was not built or its id was reused |
| `client_candidates` | one candidate, of either side, one change; failing join and answer, refused descriptions, disconnection | `AnswerFitsOffer`, `NoStrandedCandidate`, `LateCandidatesAccepted`; `CallsReturn`, `PublishIsNegotiated` and `SubscriberCatchesUp`, although the error reply to the candidate may end the join |
| `client_live` | two changes, one ping; failing join and answer, disconnection, signals | `SubscriberCatchesUp` when a change meets a pending answer, `SignalEndsClient`, which waits for the Calls of `clientThread` |

Runs that show a violation (section 5): `etcd_split_brain`,
`session_shared_uid`, `session_late_join`, `client_early_candidate`.

### Bounds

- *Visits, nodes, sessions.* The conflicts of the coordinator are between two
  goroutines of one node (for `e.mu` and `localSessions`) and between two nodes
  (for the key and the mutex). Three visits on two nodes have both at once, and
  the series join, leave, rejoin beside a visit elsewhere. Sessions of
  different ids share nothing but `e.mu` and the gauge, hence one id in the runs;
  the proofs have no bound at all.
- *Channel capacity 1 and three revisions.* A channel is full after one message,
  so a second update is dropped and a third one arrives after a gap: every case a
  capacity of 32 has.
- *Two Sessions of an id.* One is closed by the last peer, the next is made by whoever
  looks the id up after that: the Sessions of a connection's three look-ups are the
  same or not, in every way two connections can bring about.
- *Two requests per connection* are a join and a `presence_set`, in either order,
  or a second join, which is refused.
- *Clients, endpoints, hops.* Two clients meet, or miss each other, in a Session;
  one of them can own a session that the other one chases. Chains of three handlers
  include a client that comes back to the node it dialled and a restarted node that
  dials itself twice; at the bound (`MaxHops`) a dial is refused. One session
  may have an owner already, which stands for a client that dialled and went away.
  Each fault has one process it may hit, the drain and the crash the same one.
- *Tracks and residents.* 0, 3, 8 and 15 videos that stay put the three that come
  and go across every border of the table of layouts, 16 included; the audio track
  has the id of one of them. Zero and minus one are the values of
  `Garbage` that tell a crash from a wrong picture.
- *Candidates, changes, pings.* Each property about candidates is about what happens
  to one of them: it crosses join, the descriptions and their error replies in every
  order, and the proofs allow any number. A second change, in `client_live`, meets a
  pending answer, the one case in which ion-sfu defers an offer. With one ping every
  wait of the main loop happens.

`SYMMETRY` is used only in runs that check safety, over visits on the same node
with the same id. Deadlock is not checked: every model ends when all its visits,
connections or requests are over. Hanging goroutines are looked for by the
liveness properties instead.

### Fairness

- `EtcdCoordinator`: a goroutine that is not waiting runs on, and lock waits end
  if the lock becomes free again and again or the deadline passes
  (`SF(Runs(c))`: Go's mutexes do not starve a waiter, and etcd's mutex is a queue
  by creation revision). The deadline of a 5 s context passes. A lease that nobody
  keeps alive runs out, and so does the etcd session of a mutex whose holder has
  gone. Nothing forces a visit to begin or a peer to leave.
- `LocalNode`: goroutines and handlers go on; a closed connection is
  noticed. Nothing forces a client, ICE or a signal.
- `Cluster`: some http handler runs while one can (they make finitely many steps,
  so none starves), the ticker of the drain ticks, and etcd expires the keys of dead
  processes. Nothing forces a client to come, join or leave, or a process to start
  or fail.
- `Client`: goroutines go on, both read loops read, and a `select` does not
  neglect a ready case for ever, as Go chooses among ready cases at random.

## 4. The proofs

Each model has a module of theorems beside it. They hold for every value of the
constants that the named `ASSUME`s of the model allow, so for any number of
visits, connections, clients, nodes, tracks, candidates and hops. These
assumptions say what the constants are (`Home` maps visits to nodes, `None` is
nothing else), and beyond that only:

- session ids (`EtcdCoordinator`, `LocalNode`) and clients (`Cluster`) are finitely
  many, so that a gauge can equal their number;
- the processes a cluster starts with have different endpoints
  (`ClusterConstants`): two processes cannot listen on one address;
- videos that stay are numbers and tracks are not (`CompositorConstants`), so that a
  pad belongs to one of them only, and there are at most 16 that stay, as many as
  the table of layouts has places for.

The type invariants that the theorems named `TypeCorrect` state, one for each model,
are not listed in the tables below.

### EtcdCoordinator_proofs

| theorem | property | under |
|---|---|---|
| `RegistryCorrect` | `RegistryInv` | every fault |
| `OwnSessionClosed` | `ClosesOwnSession` | every fault |
| `GaugeCorrect` | `GaugeCountsSessions` | every fault |
| `LeavesNoResidue` | `NoResidue` | every fault |
| `RegistryImplemented` | `ImplementsRegistry` | every fault |
| `MutualExclusion` | `OneInCriticalSection` | every fault but `lockLoss` |
| `KeyKept` | `KeyHasKeeper` | every fault but `lockLoss` |
| `Linearizable` | `ImplementsDirectory` | every fault but `lockLoss` |

The assumption of the last three is a fact about the code: the etcd session of
the mutex is kept alive by the 5 s context only (line 75), so a goroutine that
stalls inside for longer than deadline and TTL loses the mutex without being
told. No algorithm over leases can exclude that; the theorems say that nothing
else can go wrong.

The inductive invariant has these parts:

- `RegistryInv`. `ClosesOwnSession` is not inductive: that a closing goroutine
  finds its own Session registered follows from three more facts. An open
  Session is the registered one of its id (`OpenIsRegistered`), what is
  registered has the id and node it is registered under
  (`RegisteredWhereItBelongs`, `SessIsOfSameId`), and one goroutine at most is
  closing a Session (`OneCloser`), so nobody else removes it first. The gauge then
  follows `localSessions` because every insertion is of a new id and every
  deletion of a registered one.
- `LockHeld`, `EmuHeld`: who is between Lock and Unlock holds the lock. The first
  needs the assumption, the second nothing.
- `KeyInv`: from Get to Put the key is absent (`NoKeyWhileCreating`) and the lease
  about to be used is the registered one (`RegisteredBeforePut`, by `EmuHeld`), so
  Put overwrites nothing and `KeyHasKeeper` is kept.
- `NotAnsweredYet`: a call is answered once.
- `SessionsAreUsed`: an open Session that some join got has a goroutine still in it
  (`InSession`: joining, joined, or refused and not yet gone), so when all visits are
  over such a Session is closed, and it is registered only if its close handler failed.
- `KeyIsOwned`: a key's lease lives, and no Session was registered for it since it was
  put (`unserved`), the goroutine that put it has crashed, or a Session is registered on
  its node, whose close will delete the key. This and the last part need no lock: a
  goroutine that lost the mutex may delete a key too many, never one too few. So
  `NoResidue`, which the runs check without `lockLoss`, holds with it as well.

`Linearizable` maps each step to a step of `SessionDirectory`: a `Get` that
finds the key to `Find`, `Put` to `Take`, every failing request to `Fail` (which
may take the session, as an ambiguous Put does), the end of a key to
`Release`, everything else to a stutter.

`RegistryImplemented` maps `GetSession` and `GetSessionAgain` to `Open` if they create a Session,
`RemovePeer` to `Close` if it was the last peer, `CloseDelete` to `Forget`, `Crash` to
`Die`, and the error returns of `onSessionClosed`, which keep the entry, to a stutter.
It needs `RegistryInv` and one more part, `NotCreatedYet`: a goroutine that has not asked for its Session has not created one, so what `Open` registers is new.

### LocalNode_proofs

`OwnSessionUnregistered` (`UnregistersOwnSession`), `PeersOfOneSessionMeet`
(`PeersMeet`), `JoinedSessionsAreClosed` (`JoinedSessionsGoAway`), `GaugeCorrect`
(`GaugeCountsRegistered`, which has no run of its own: that of the etcd coordinator
has) and `RegistryImplemented` (`ImplementsRegistry`), under every fault. The
close handler runs outside of the Session's lock, with an id; what is inductive is
that the goroutine about to unregister has a closed Session (`UnregisteringIsClosed`),
that it is the only one for it (`OneUnregisters`), and that an open Session with peers
is the registered one of its id (`OpenIsRegistered`). A look-up of any id, that of the
URL included, disturbs none of this (`LocalEnsure`). Numbers of Sessions are not used
twice (`KnownSessions`).

For `JoinedSessionsGoAway`, an open Session that was joined has a peer not yet closed
(`OpenHasPeer`), and a closed one that is registered has somebody to unregister it
(`ClosedIsUnregistered`). The step to check is the close of a peer that leaves others in
the Session: those must be open themselves, because a closed peer is in no Session
(`ClosedPeers`), because only a handler whose connection is still served adds one
(`HandlersRunOpen`).

### Session_proofs

| theorem | property | under |
|---|---|---|
| `NeverBackInTime` | `RevisionsIncrease` | every fault |
| `OneSnapshotPerRevision` | `RevisionNamesSnapshot` | every fault |
| `NobodyIsDeafened` | `PeerIsListening` | no two connections have one peer id |
| `DepartedIsAbsent` | `DepartedAreAbsent` | no ICE failure, no two connections have one peer id |

The assumptions on peer ids and on ICE are needed for `PeerIsListening` and
`DepartedAreAbsent`, and so is the restriction of the latter to peers that joined an
open Session: `session_shared_uid` and `session_late_join` are runs without two of
them, and `session_presence` with an ICE failure fails, too (section 5). The argument for `DepartedIsAbsent` is that a peer that
joined an open Session keeps it open, hence registered, until its connection has ended
and its handlers with it; so lines 118 and 202 find the Session it joined, and what
`presence_set` stores is what the listener goroutine clears. The first two come from one
invariant (`ToldInv`) over what a client was told followed by what its channel
holds: one sequence that a delivery leaves as it is (or shortens by one, if the
connection is closed) and that a broadcast extends by the current revision or, if the
channel is full, not at all.

### Cluster_proofs

| theorem | property | inductive invariant |
|---|---|---|
| `TypeCorrect` | `TypeOK`: in particular no gauge falls below zero | `GaugesCount`: each gauge is the number of handlers that are between its Inc and its Dec |
| `DrainIsSafe` | `DrainCutsOffNobody` | `DrainInv`: after the first gauge was read as zero, a client that was there has left or its handler at the process is a proxy or over; after the second, it has left or its handler is over |
| `PeersMeetInTerm` | `PeersOfOneTermMeet` | `PeerInv`: one node serves the peers of a term (`TermIsOwned`, `OneServerPerTerm`), and on it an open Session is the registered one of its id (`OpenIsRegistered`, `UnregistersClosed`, `OneUnregisters`) |
| `ChainsAreBounded` | `NoProxyLoop` | `LoopInv`: the hops to other processes are at most the takes of the key, and one fewer while the last handler looks up a key that names another node; `PlaceInv`: one process at a time is at an endpoint; `OthersProxy`: all handlers of a chain but the last are proxies |

The attempt to prove `DrainCutsOffNobody` corrected it. It once called a client
present at every process of its chain; but a process behind a proxy that has crashed
may count it no longer, and then exit, while the client is in the chain still. (TLC
shows this when two processes may crash.) Such a client had been cut off already, so
`Uses` now asks that the proxies before the process are there.

### CompositorLayout_proofs

`LayoutIsRight`: for every list of up to 16 different pads, the places that relayout
computes are visible, inside the frame, and apart from each other. `Positions` is a
recursive function over the list, so this needs induction. The induction theorems of
the library, which take an operator, cannot be used; `UpTo` does it with sets: a set
of numbers that holds 1 and with each number the next one holds all up to `k`, since
the numbers it lacks would have a least one (`LeastElement`, by `WFMin`).
`StepsExist` extends a function that satisfies the recursive equation by one place
after the other, `PositionsEquation` concludes that `Positions` satisfies its defining
equation, and `Cells` that its `i`-th place is column `(i - 1) % n` of row
`(i - 1) \div n`. The rest is arithmetic for `n` from 1 to 4.

### Compositor_proofs

| theorem | property | inductive invariant |
|---|---|---|
| `OwnBinIsFound` | `BinIsFound` | `CompositorInv` |
| `TracksLeaveNothing` | `NothingLeft` | `CompositorInv` |
| `TypeCorrect` | `TypeOK` | `CompositorInv`, `PictureInv` |
| `PictureComesRight` | `PictureIsRight` | `CompositorInv`, `PictureInv` |

`CompositorInv` says at each stage of a track's life which of its bin, pad, map entry
and callback exist (`Stage`), as long as no id was used again too early: then an id
has one user at a time (`OneUser`), so goroutines that touch the maps without the lock
touch different entries. A pad is linked when its bin enters the pipeline, which
happens once, so no pad is in the list twice.

`PictureInv` says that a relayout that no other one overlapped has counted the pads it
is about to walk (`WalksAlone`), and that what the last walk wrote is the layout of the
pads there are, as long as nobody is about to lay them out again (`PictureStays`).
With `LayoutIsRight` that is the picture.

These proofs corrected the model. It had taken rows and columns that were never
initialized for natural numbers; they may be negative, and then the division of C and
that of TLA+ differ. And it let whoever removes a bin release its pad; the goroutine of
an audio track asks the audio mixer to do so, which leaves a pad of the video mixer
where it is.

### Client_proofs

`AnswersFit` (`AnswerFitsOffer`), `CandidatesAreUsed` (`NoStrandedCandidate`) and
`LateCandidatesFindPeer` (`LateCandidatesAccepted`), under every fault. All rest on
`CallInv`: a goroutine has at most one Call under way, and it is in one place: the
request on the websocket, the handler of join, the reply on the websocket, or the
reply that the read loop has handed over. The exception is a join that ended with the
error reply to a candidate (`Stray`): its Call goes on without it (`CallOver`), and
nothing waits for its reply. So a reply is the one to the goroutine's own
latest offer, and by pion's checks (only the offer made last may become local) that
offer is the local one (`OfferInv`). `CandidateInv` follows a candidate from the
message through the buffer to `AddICECandidate`; `TrickleInv` uses that the websocket
keeps the order, so that join has been handled before a later candidate.

### Only model-checked

The liveness properties only (`EveryCallReturns`, `DeadNodeIsReplaced`,
  `LostConnectionIsCleanedUp`, `CallsReturn`,
  `PublishIsNegotiated`, `SubscriberCatchesUp`, `SignalEndsClient`,
  `EveryClientIsAnswered`, `DrainEnds`): they rest on fairness, which is out of
  the prover's reach.

## 5. What the code does not do as it says

Each of these is a run in which TLC finds the violation; the text contradicted is
quoted in `PROJECT.json` under `findings`.

- `etcd_split_brain`, `OneNodePerSession`. `getOrCreateSession` is linearizable,
  but its answer is used later: between it and `GetSession` the last peer may
  leave, `onSessionClosed` deletes the key, another node takes the session, and
  then both serve peers of it. No fault is needed.
- `session_shared_uid`, `PeerIsListening`. Listeners are kept by peer id. When a
  client reconnects with its id, the end of the old connection removes the
  listener of the new one.
- `session_late_join`, `PresenceFollowsPeers`. A peer may be added to a Session that
  the last one, leaving, has just closed. Line 118 still finds that Session, line 202
  finds the next one: the presence is stored there and cleared in the old one, so the
  peer stays present when it has left. No fault is needed.
- `client_early_candidate`, `JoinErrorMeansNotJoined`. A candidate gathered before
  join was sent is refused, and the error reply, with the zero id, is taken for the
  reply to join: `Join` fails at the client, the server goes on and joins the peer.

What follows is of the same nature and has no run of its own. The first four items
contradict a text of the repository:

- `pkg/session.go:83` logs "couldn't write broadcast to channel, removing", and removes
  nothing: the listener stays registered and has missed a revision. `PeerIsListening`,
  which passes with full channels, is true because the code does not do what it logs.
- `pkg/server_jsonrpc.go:32` says "Presence contains metadata for every peerID". If ICE
  fails while `presence_set` is being handled, the presence is stored after the listener
  goroutine cleared it, and stays without its peer. With `"iceFailure"` among the
  `Faults` of `SessionPresence.cfg` TLC reports `DepartedAreAbsent` violated.
- `pkg/metrics.go:15` calls the gauge "Number of currently active sessions on this
  node". The look-up of `pkg/server.go:72` creates a Session before anybody joins, and
  so may those of `pkg/server_jsonrpc.go:118` and `202` when their peer has been closed:
  if nobody joins it, nothing closes it, and the gauge counts it for good.
  `JoinedSessionsGoAway` says that these are the only Sessions that stay.
- "This operation is only alloted 5 seconds to complete" (`pkg/coordinator_etcd.go:63`).
  The 5 s context of `getOrCreateSession` is replaced, before KeepAlive and Put, by
  one without a deadline (line 114): a call past its time still takes the session.

The others are restrictions in the passing properties, of which no text speaks:

- `NoResidue` excepts an `onSessionClosed` that failed; a Session that no join ever got,
  which a look-up of line 118 or 202 makes when the peer has been closed before it; and
  the key of a call for which no Session was ever registered on its node: it failed
  after its Put, or the caller went away before it joined. Such keys and Sessions stay
  as long as the node.
- `NoProxyLoop` does not count the hops of a restarted node to itself: until the key
  of its predecessor expires, it takes itself for another node.
- `DrainCutsOffNobody` speaks of the clients that were there when the count began:
  the http server accepts more until the process ends, and those are cut off.
- `PictureIsRight` excepts relayouts that overlapped, `NothingLeft` and `BinIsFound`
  ids that were used again too early, and all three a crash by a race or, beyond 16
  videos, by a division by zero.
- `PeersMeet` and `PeersOfOneTermMeet` leave out a peer that slipped into a
  Session being closed.
- `NoStrandedCandidate` speaks of the candidates handled before the reply to join,
  since one handled between that reply and `SetRemoteDescription` can end in a
  buffer nobody reads again.
- `SubscriberCatchesUp` excepts an offer ion-sfu makes before `OnOffer` is set,
  which is lost and blocks all later ones, and a description that either side does not
  take (`pkg/server_jsonrpc.go:170`, `pkg/client/client.go:208-226`): no answer counts
  then, and the server holds back every later offer. `PublishIsNegotiated` excepts a
  failed offer.
- `LateCandidatesAccepted` excepts a join that the server failed, not one that only
  the client takes for failed.

## 6. What is not modelled

- Authentication, which precedes everything with state: a library validates the
  token, and two strings are compared.
- An error of `KeepAlive` itself, which the etcd client returns only when it was
  closed; this program never closes it. (The nil channel would block the call for
  ever.)
- A proxy whose endpoint cannot be parsed as a URL (`pkg/server.go:81`): it returns
  before anything is counted.
- Parsing of parameters and of session metadata: the program reads only what it
  wrote.
- Media: RTP, data channels, codec tables, the gstreamer pipelines of
  `pkg/client/gst/gst.go` and the producer: descriptions are put together and
  buffers copied, without a protocol of their own. Of the compositor, `Play`, `Stop`
  and `destroy`.
- The loop of `compositeThread` (`cmd/composite.go`). Where `clientThread` calls
  `os.Exit`, it calls `Stop`, which sends an EOS event into the pipeline, and returns;
  that the process ends depends on gstreamer delivering it. `SignalEndsClient` says
  nothing of it.
- Start-up: flags, configuration files, TURN.
- Time is not measured. A deadline may pass at any moment, and a lease that is not
  kept alive may end at any moment.

## 7. Plan

Done, in this order: the etcd coordinator and its abstract specification, their
proofs; Session; the local node with its connections; the Go client and its
signalling; the cluster with proxies, restarts and drain; the compositor; then the
proofs of `LocalNode`, `Session`, `Cluster`, `Compositor`, `Client` and of `NoResidue`;
the registry that both coordinators implement, and the picture of the compositor.

What could follow:

1. The look-ups of `Cluster` as steps of `SessionDirectory`, with a caller for each
   handler and each join, which would tie the composition to the coordinator that is
   proved to implement it by a theorem, not by the form of `GetOrCreate`.
2. `Play`, `Stop` and `destroy` of the compositor beside ending tracks.
