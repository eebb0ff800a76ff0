---------------------------- MODULE EtcdCoordinator ----------------------------
(***************************************************************************)
(* The etcd coordinator (pkg/coordinator_etcd.go) run by every node of a   *)
(* cluster, with the part of etcd and of ion-sfu it relies on.             *)
(*                                                                         *)
(* Goroutines.  A member c of Conns is one request to node Home[c] about   *)
(* session Sid[c].  Either it is a visit: getOrCreateSession, for the URL  *)
(* of a connection (whose caller then goes away) or for a join; for a join *)
(* of a session of this node then PeerLocal.Join, that is, GetSession and  *)
(* the addition of a peer to the Session, later its removal; the goroutine *)
(* that removes the last peer runs onSessionClosed.  Or it is one of the   *)
(* further GetSession calls of a connection that has joined, at the end of *)
(* join and in presence_set; the peer may have left meanwhile (the callback*)
(* of the ICE agent closes it beside the handler).                         *)
(* Each etcd request and each wait for a lock is a step.  A goroutine      *)
(* grants at most one lease and creates at most one Session, so both are   *)
(* named by it.  The metadata it writes names its own node, so the value   *)
(* of a session key is the lease (the goroutine) it was put with.          *)
(*                                                                         *)
(* Faults.  "timeout": a context deadline passes, or an etcd request made  *)
(* under that context fails.  "leaseLoss": a lease runs out although its   *)
(* keep-alive was not cancelled.  "lockLoss": an etcd mutex is lost to its *)
(* session's TTL while its holder, past its deadline, is still inside.     *)
(* "crash": a node dies (a restarted node has a new uuid: another node).   *)
(* "joinError": PeerLocal.Join fails between GetSession and AddPeer.       *)
(*                                                                         *)
(* Left out: unmarshalling the metadata, which fails only on a value this  *)
(* program never writes, and everything about media.                       *)
(***************************************************************************)
EXTENDS Integers, FiniteSets

CONSTANTS Conns, Nodes, Sids, None,
          Home,      \* Home[c]: the node that serves c
          Sid,       \* Sid[c]: the session c asks for
          Faults     \* the faults that may happen

FaultKinds == {"timeout", "leaseLoss", "lockLoss", "crash", "joinError"}

ASSUME HomeSid == Home \in [Conns -> Nodes] /\ Sid \in [Conns -> Sids]
ASSUME NoneIsNothing == None \notin Conns \cup Nodes
ASSUME NoneIsNoAnswer == None \notin {"local", "redirect", "error"}
ASSUME FiniteSids == IsFiniteSet(Sids)
ASSUME FaultsKnown == Faults \subseteq FaultKinds

VARIABLES
  \* the goroutines
  pc,            \* where goroutine c is
  ret,           \* what getOrCreateSession returned to it
  sess,          \* the Session GetSession returned to it
  expired,       \* the goroutines in a call whose 5 s context is past its deadline
  \* etcd
  kv,            \* the value of key "/session/s"
  lock,          \* the holder of the mutex on "/session/s"
  lease,         \* the state of the lease c granted
  \* an etcdCoordinator per node
  emu,           \* the holder of e.mu
  sessionLeases, localSessions,
  gauge,         \* prometheusGaugeSessions
  \* the Sessions
  session,       \* "none", "open" or "closed"
  peers,         \* the peers in it
  \* history, read by NoResidue only
  unserved       \* the session ids whose key was put with no Session of theirs
                 \* on its node, where none was registered since

connVars  == <<pc, ret, sess, expired>>
etcdVars  == <<kv, lock, lease>>
nodeVars  == <<emu, sessionLeases, localSessions, gauge>>
sessVars  == <<session, peers, unserved>>
vars      == <<connVars, etcdVars, nodeVars, sessVars>>

\* Inside mu.Lock ... mu.Unlock of getOrCreateSession and of onSessionClosed.
Creating == {"grant", "keepAlive", "emuWait", "put"}
Holding  == {"get", "unlock", "closeCancel", "closeDelete", "closeUnlock"} \cup Creating
\* Inside onSessionClosed with e.mu held, and from the moment it is called.
ClosingEmu == {"closeLock", "closeCancel", "closeDelete"}
Closing    == {"closeEmu"} \cup ClosingEmu
\* Where a goroutine may stop for good.
Stopped  == {"abandoned", "done", "crashed"}
\* PeerLocal has its Session: Join is under way, has added the peer, or failed.
InSession == {"addPeer", "joined", "refused"}
Labels   == {"idle", "lockWait", "returned", "looking"} \cup InSession \cup Holding
              \cup Closing \cup Stopped
Live     == {"granted", "kept", "cancelled"}  \* the lease exists

Init ==
  /\ pc = [c \in Conns |-> "idle"]
  /\ ret = [c \in Conns |-> None]
  /\ sess = [c \in Conns |-> None]
  /\ expired = {}
  /\ kv = [s \in Sids |-> None]
  /\ lock = [s \in Sids |-> None]
  /\ lease = [c \in Conns |-> "none"]
  /\ emu = [n \in Nodes |-> None]
  /\ sessionLeases = [n \in Nodes |-> [s \in Sids |-> None]]
  /\ localSessions = [n \in Nodes |-> [s \in Sids |-> None]]
  /\ gauge = [n \in Nodes |-> 0]
  /\ session = [c \in Conns |-> "none"]
  /\ peers = [c \in Conns |-> {}]
  /\ unserved = {}

-------------------------------------------------------------------------------
\* Steps of a goroutine

At(c, l) == pc[c] = l
Goto(c, l) == pc' = [pc EXCEPT ![c] = l]
Return(c, r, l) == ret' = [ret EXCEPT ![c] = r] /\ Goto(c, l)

\* A request to etcd fails; one under a context certainly so past its deadline.
RequestFails == "timeout" \in Faults

\* Seeded fault: the error of mu.Lock is ignored.
TakeLock_NoWait(c) == lock' = [lock EXCEPT ![Sid[c]] = c]

\* (concurrency.Mutex).Lock: the wait ends with the mutex, or with an error.
TakeLock(c) ==
  /\ c \notin expired
  /\ lock[Sid[c]] = None
  /\ lock' = [lock EXCEPT ![Sid[c]] = c]

\* Lock returns an error, before or after etcd gave c the mutex; then the mutex
\* is c's until the TTL of c's etcd session has run out.
LosesLock(c) ==
  /\ RequestFails
  /\ \/ UNCHANGED lock
     \/ lock[Sid[c]] = None /\ lock' = [lock EXCEPT ![Sid[c]] = c]

\* (concurrency.Mutex).Unlock(ctx): removes c's own key.  If it fails the key
\* stays until the TTL of c's etcd session has run out.
ReleaseLock(c) ==
  \/ /\ c \notin expired
     /\ lock' = [lock EXCEPT ![Sid[c]] = IF @ = c THEN None ELSE @]
  \/ RequestFails /\ UNCHANGED lock

\* The deferred cancel of the 5 s context, when the function returns.
EndContext(c) == expired' = expired \ {c}

TakeEmu(c) ==
  /\ emu[Home[c]] = None
  /\ emu' = [emu EXCEPT ![Home[c]] = c]

ReleaseEmu(c) == emu' = [emu EXCEPT ![Home[c]] = None]

-------------------------------------------------------------------------------
\* getOrCreateSession

\* concurrency.NewSession
Call(c) ==
  /\ At(c, "idle")
  /\ \/ Goto(c, "lockWait") /\ UNCHANGED ret
     \/ RequestFails /\ Return(c, "error", "returned")
  /\ UNCHANGED <<sess, expired, etcdVars, nodeVars, sessVars>>

Lock(c) ==
  /\ At(c, "lockWait")
  /\ TakeLock(c)
  /\ Goto(c, "get")
  /\ UNCHANGED <<ret, sess, expired, kv, lease, nodeVars, sessVars>>

LockFails(c) ==
  /\ At(c, "lockWait")
  /\ LosesLock(c)
  /\ Return(c, "error", "returned")
  /\ EndContext(c)
  /\ UNCHANGED <<sess, kv, lease, nodeVars, sessVars>>

\* Seeded fault: meta.Redirect is not computed.
Get_NoRedirect(c) ==
  /\ At(c, "get") /\ c \notin expired
  /\ IF kv[Sid[c]] # None
       THEN Return(c, "local", "unlock")
       ELSE Goto(c, "grant") /\ UNCHANGED ret
  /\ UNCHANGED <<sess, expired, etcdVars, nodeVars, sessVars>>

Get(c) ==
  /\ At(c, "get") /\ c \notin expired
  /\ LET l == kv[Sid[c]] IN
       IF l # None
         THEN Return(c, IF Home[l] = Home[c] THEN "local" ELSE "redirect", "unlock")
         ELSE Goto(c, "grant") /\ UNCHANGED ret
  /\ UNCHANGED <<sess, expired, etcdVars, nodeVars, sessVars>>

Grant(c) ==
  /\ At(c, "grant") /\ c \notin expired
  /\ lease' = [lease EXCEPT ![c] = "granted"]
  /\ Goto(c, "keepAlive")
  /\ UNCHANGED <<ret, sess, expired, kv, lock, nodeVars, sessVars>>

\* Get or Grant returns an error.
GetFails(c) ==
  /\ pc[c] \in {"get", "grant"} /\ RequestFails
  /\ Return(c, "error", "unlock")
  /\ UNCHANGED <<sess, expired, etcdVars, nodeVars, sessVars>>

\* From here on ctx is a context without a deadline.  The first keep-alive
\* answer arrives, or the channel is found closed: the code goes on either way.
KeepAlive(c) ==
  /\ At(c, "keepAlive")
  /\ \/ lease[c] = "granted" /\ lease' = [lease EXCEPT ![c] = "kept"]
     \/ lease[c] = "gone" /\ UNCHANGED lease
  /\ Goto(c, "emuWait")
  /\ UNCHANGED <<ret, sess, expired, kv, lock, nodeVars, sessVars>>

\* Seeded fault: leaseCancel is not stored.
RegisterLease_Forgets(c) ==
  /\ At(c, "emuWait")
  /\ TakeEmu(c)
  /\ Goto(c, "put")
  /\ UNCHANGED <<ret, sess, expired, etcdVars, sessionLeases, localSessions, gauge, sessVars>>

RegisterLease(c) ==
  /\ At(c, "emuWait")
  /\ TakeEmu(c)
  /\ sessionLeases' = [sessionLeases EXCEPT ![Home[c]][Sid[c]] = c]
  /\ Goto(c, "put")
  /\ UNCHANGED <<ret, sess, expired, etcdVars, localSessions, gauge, sessVars>>

Found(n, s) == localSessions[n][s] # None

\* The history of a key that has just been put.
KeyIsPut(c) ==
  unserved' = IF Found(Home[c], Sid[c]) THEN unserved \ {Sid[c]} ELSE unserved \cup {Sid[c]}

\* Seeded fault: the key is put without its lease, with only the node's name.
Put_NoLease(c) ==
  /\ At(c, "put") /\ lease[c] \in Live
  /\ kv' = [kv EXCEPT ![Sid[c]] = Home[c]]
  /\ KeyIsPut(c)
  /\ Return(c, "local", "unlock")
  /\ ReleaseEmu(c)
  /\ UNCHANGED <<sess, expired, lock, lease, sessionLeases, localSessions, gauge, session, peers>>

\* The deferred e.mu.Unlock runs as the function returns.
Put(c) ==
  /\ At(c, "put") /\ lease[c] \in Live
  /\ kv' = [kv EXCEPT ![Sid[c]] = c]
  /\ KeyIsPut(c)
  /\ Return(c, "local", "unlock")
  /\ ReleaseEmu(c)
  /\ UNCHANGED <<sess, expired, lock, lease, sessionLeases, localSessions, gauge, session, peers>>

\* The lease is gone, or the request fails, before or after etcd executed it.
\* The lease stays registered.
PutFails(c) ==
  /\ At(c, "put")
  /\ \/ lease[c] \notin Live /\ UNCHANGED <<kv, unserved>>
     \/ RequestFails /\ UNCHANGED <<kv, unserved>>
     \/ RequestFails /\ lease[c] \in Live /\ kv' = [kv EXCEPT ![Sid[c]] = c] /\ KeyIsPut(c)
  /\ Return(c, "error", "unlock")
  /\ ReleaseEmu(c)
  /\ UNCHANGED <<sess, expired, lock, lease, sessionLeases, localSessions, gauge, session, peers>>

Unlock(c) ==
  /\ At(c, "unlock")
  /\ ReleaseLock(c)
  /\ Goto(c, "returned")
  /\ EndContext(c)
  /\ UNCHANGED <<ret, sess, kv, lease, nodeVars, sessVars>>

\* The caller got an error or a redirect, or goes away without joining.
Finish(c) ==
  /\ At(c, "returned")
  /\ Goto(c, IF ret[c] = "local" THEN "abandoned" ELSE "done")
  /\ UNCHANGED <<ret, sess, expired, etcdVars, nodeVars, sessVars>>

-------------------------------------------------------------------------------
\* GetSession, and the peers of a Session

\* Seeded fault: a Session that is being closed is replaced by a new one.
EnsureSession_Reopens(c) ==
  LET n == Home[c]
      s == Sid[c] IN
  /\ emu[n] = None
  /\ IF Found(n, s) /\ session[localSessions[n][s]] = "open"
       THEN UNCHANGED <<localSessions, gauge, session>>
       ELSE /\ localSessions' = [localSessions EXCEPT ![n][s] = c]
            /\ session' = [session EXCEPT ![c] = "open"]
            /\ gauge' = [gauge EXCEPT ![n] = @ + 1]
  /\ unserved' = IF kv[s] # None /\ Home[kv[s]] = n THEN unserved \ {s} ELSE unserved

\* ensureSession: the lock of e.mu, the lookup or creation, and the unlock.
EnsureSession(c) ==
  LET n == Home[c]
      s == Sid[c] IN
  /\ emu[n] = None
  /\ IF Found(n, s)
       THEN UNCHANGED <<localSessions, gauge, session>>
       ELSE /\ localSessions' = [localSessions EXCEPT ![n][s] = c]
            /\ session' = [session EXCEPT ![c] = "open"]
            /\ gauge' = [gauge EXCEPT ![n] = @ + 1]
  /\ unserved' = IF kv[s] # None /\ Home[kv[s]] = n THEN unserved \ {s} ELSE unserved

\* GetSession, the first thing PeerLocal.Join does: the peer has its Session.
GetSession(c) ==
  /\ At(c, "returned") /\ ret[c] = "local"
  /\ EnsureSession(c)
  /\ sess' = [sess EXCEPT ![c] = localSessions'[Home[c]][Sid[c]]]
  /\ Goto(c, "addPeer")
  /\ UNCHANGED <<ret, expired, etcdVars, emu, sessionLeases, peers>>

\* sfu.SessionLocal.AddPeer, the last thing PeerLocal.Join does.
AddPeer(c) ==
  /\ At(c, "addPeer")
  /\ peers' = [peers EXCEPT ![sess[c]] = @ \cup {c}]
  /\ Goto(c, "joined")
  /\ UNCHANGED <<ret, sess, expired, etcdVars, nodeVars, session, unserved>>

\* PeerLocal.Join fails in between.  The error is replied; the peer keeps its
\* Session, and leaves it when its connection ends.
JoinFails(c) ==
  /\ At(c, "addPeer") /\ "joinError" \in Faults
  /\ Goto(c, "refused")
  /\ UNCHANGED <<ret, sess, expired, etcdVars, nodeVars, sessVars>>

\* The end of join, or presence_set, on a connection that has joined...
Handle(c) ==
  /\ At(c, "idle")
  /\ \E d \in Conns : At(d, "joined") /\ Home[d] = Home[c] /\ Sid[d] = Sid[c]
  /\ Goto(c, "looking")
  /\ UNCHANGED <<ret, sess, expired, etcdVars, nodeVars, sessVars>>

\* ...looks its Session up again, whether or not the peer is still there.
GetSessionAgain(c) ==
  /\ At(c, "looking")
  /\ EnsureSession(c)
  /\ Goto(c, "done")
  /\ UNCHANGED <<ret, sess, expired, etcdVars, emu, sessionLeases, peers>>

\* Seeded fault: the close handler runs whenever no peer is left.
RemovePeer_ClosesAgain(c) ==
  LET o == sess[c] IN
  /\ pc[c] \in {"joined", "refused"}
  /\ peers' = [peers EXCEPT ![o] = @ \ {c}]
  /\ IF peers'[o] = {}
       THEN session' = [session EXCEPT ![o] = "closed"] /\ Goto(c, "closeEmu")
       ELSE Goto(c, "done") /\ UNCHANGED session
  /\ UNCHANGED <<ret, sess, expired, etcdVars, nodeVars, unserved>>

\* PeerLocal.Close calls sfu.SessionLocal.RemovePeer of the Session it has:
\* without peers that is closed, and its close handler runs, once.
RemovePeer(c) ==
  LET o == sess[c] IN
  /\ pc[c] \in {"joined", "refused"}
  /\ peers' = [peers EXCEPT ![o] = @ \ {c}]
  /\ IF peers'[o] = {} /\ session[o] = "open"
       THEN session' = [session EXCEPT ![o] = "closed"] /\ Goto(c, "closeEmu")
       ELSE Goto(c, "done") /\ UNCHANGED session
  /\ UNCHANGED <<ret, sess, expired, etcdVars, nodeVars, unserved>>

-------------------------------------------------------------------------------
\* onSessionClosed

\* e.mu.Lock, a new 5 s context and concurrency.NewSession under it.
CloseBegin(c) ==
  /\ At(c, "closeEmu")
  /\ TakeEmu(c)
  /\ Goto(c, "closeLock")
  /\ UNCHANGED <<ret, sess, expired, etcdVars, sessionLeases, localSessions, gauge, sessVars>>

CloseLock(c) ==
  /\ At(c, "closeLock")
  /\ TakeLock(c)
  /\ Goto(c, "closeCancel")
  /\ UNCHANGED <<ret, sess, expired, kv, lease, nodeVars, sessVars>>

\* Seeded fault: e.mu.Unlock is not deferred, and missing on the error path.
CloseLockFails_KeepsEmu(c) ==
  /\ At(c, "closeLock")
  /\ LosesLock(c)
  /\ Goto(c, "done")
  /\ EndContext(c)
  /\ UNCHANGED <<ret, sess, kv, lease, nodeVars, sessVars>>

\* NewSession or mu.Lock fails: return, with everything left as it is.
CloseLockFails(c) ==
  /\ At(c, "closeLock")
  /\ LosesLock(c)
  /\ ReleaseEmu(c)
  /\ Goto(c, "done")
  /\ EndContext(c)
  /\ UNCHANGED <<ret, sess, kv, lease, sessionLeases, localSessions, gauge, sessVars>>

CancelLease(c) ==
  LET l == sessionLeases[Home[c]][Sid[c]] IN
  /\ At(c, "closeCancel")
  /\ sessionLeases' = [sessionLeases EXCEPT ![Home[c]][Sid[c]] = None]
  /\ lease' = [d \in Conns |-> IF d = l /\ lease[d] = "kept" THEN "cancelled" ELSE lease[d]]
  /\ Goto(c, "closeDelete")
  /\ UNCHANGED <<ret, sess, expired, kv, lock, emu, localSessions, gauge, sessVars>>

\* Seeded fault: the key is not deleted, only its lease abandoned.
CloseDelete_KeepsKey(c) ==
  /\ At(c, "closeDelete") /\ c \notin expired
  /\ localSessions' = [localSessions EXCEPT ![Home[c]][Sid[c]] = None]
  /\ gauge' = [gauge EXCEPT ![Home[c]] = @ - 1]
  /\ Goto(c, "closeUnlock")
  /\ UNCHANGED <<ret, sess, expired, kv, lock, lease, emu, sessionLeases, sessVars>>

\* Delete of the key, whatever its value, then of the entry in localSessions.
CloseDelete(c) ==
  /\ At(c, "closeDelete") /\ c \notin expired
  /\ kv' = [kv EXCEPT ![Sid[c]] = None]
  /\ localSessions' = [localSessions EXCEPT ![Home[c]][Sid[c]] = None]
  /\ gauge' = [gauge EXCEPT ![Home[c]] = @ - 1]
  /\ Goto(c, "closeUnlock")
  /\ UNCHANGED <<ret, sess, expired, lock, lease, emu, sessionLeases, sessVars>>

\* Seeded fault: the gauge is decremented on the error path too.
CloseDeleteFails_Dec(c) ==
  /\ At(c, "closeDelete") /\ RequestFails
  /\ kv' \in {kv, [kv EXCEPT ![Sid[c]] = None]}
  /\ gauge' = [gauge EXCEPT ![Home[c]] = @ - 1]
  /\ Goto(c, "closeUnlock")
  /\ UNCHANGED <<ret, sess, expired, lock, lease, emu, sessionLeases, localSessions, sessVars>>

\* The request fails, before or after etcd executed it: the entry stays.
CloseDeleteFails(c) ==
  /\ At(c, "closeDelete") /\ RequestFails
  /\ kv' \in {kv, [kv EXCEPT ![Sid[c]] = None]}
  /\ Goto(c, "closeUnlock")
  /\ UNCHANGED <<ret, sess, expired, lock, lease, nodeVars, sessVars>>

CloseUnlock(c) ==
  /\ At(c, "closeUnlock")
  /\ ReleaseLock(c)
  /\ ReleaseEmu(c)
  /\ Goto(c, "done")
  /\ EndContext(c)
  /\ UNCHANGED <<ret, sess, kv, lease, sessionLeases, localSessions, gauge, sessVars>>

-------------------------------------------------------------------------------
\* Time and failure

\* The 5 s context of getOrCreateSession or of onSessionClosed ends.
Deadline(c) ==
  /\ "timeout" \in Faults
  /\ pc[c] \in {"lockWait", "closeLock"} \cup Holding
  /\ c \notin expired
  /\ expired' = expired \cup {c}
  /\ UNCHANGED <<pc, ret, sess, etcdVars, nodeVars, sessVars>>

\* Seeded fault: the key is not attached to the lease.
LeaseExpires_KeepsKey(c) ==
  /\ lease[c] = "cancelled" \/ (lease[c] \in Live /\ "leaseLoss" \in Faults)
  /\ lease' = [lease EXCEPT ![c] = "gone"]
  /\ UNCHANGED <<connVars, kv, lock, nodeVars, sessVars>>

\* etcd drops a lease and the key attached to it.
LeaseExpires(c) ==
  /\ lease[c] = "cancelled" \/ (lease[c] \in Live /\ "leaseLoss" \in Faults)
  /\ lease' = [lease EXCEPT ![c] = "gone"]
  /\ kv' = [s \in Sids |-> IF kv[s] = c THEN None ELSE kv[s]]
  /\ UNCHANGED <<connVars, lock, nodeVars, sessVars>>

\* etcd drops the mutex key of a goroutine that no longer keeps its etcd
\* session alive.
LockExpires(s) ==
  /\ lock[s] # None
  /\ \/ pc[lock[s]] \notin Holding
     \/ "lockLoss" \in Faults /\ lock[s] \in expired
  /\ lock' = [lock EXCEPT ![s] = None]
  /\ UNCHANGED <<connVars, kv, lease, nodeVars, sessVars>>

On(n) == {c \in Conns : Home[c] = n}

Crash(n) ==
  /\ "crash" \in Faults
  /\ \E c \in On(n) : pc[c] # "crashed"
  /\ pc' = [c \in Conns |-> IF c \in On(n) THEN "crashed" ELSE pc[c]]
  /\ sess' = [c \in Conns |-> IF c \in On(n) THEN None ELSE sess[c]]
  /\ lease' = [c \in Conns |-> IF c \in On(n) /\ lease[c] \in Live THEN "cancelled" ELSE lease[c]]
  /\ emu' = [emu EXCEPT ![n] = None]
  /\ sessionLeases' = [sessionLeases EXCEPT ![n] = [s \in Sids |-> None]]
  /\ localSessions' = [localSessions EXCEPT ![n] = [s \in Sids |-> None]]
  /\ gauge' = [gauge EXCEPT ![n] = 0]
  /\ session' = [c \in Conns |-> IF c \in On(n) THEN "none" ELSE session[c]]
  /\ peers' = [c \in Conns |-> IF c \in On(n) THEN {} ELSE peers[c]]
  /\ expired' = expired \ On(n)
  /\ UNCHANGED <<ret, kv, lock, unserved>>

-------------------------------------------------------------------------------
GetOrCreate(c) ==
  \/ Call(c) \/ Lock(c) \/ LockFails(c) \/ Get(c) \/ Grant(c) \/ GetFails(c)
  \/ KeepAlive(c) \/ RegisterLease(c) \/ Put(c) \/ PutFails(c) \/ Unlock(c)

Visit(c) ==
  \/ Finish(c) \/ GetSession(c) \/ AddPeer(c) \/ JoinFails(c) \/ RemovePeer(c)
  \/ Handle(c) \/ GetSessionAgain(c)

OnSessionClosed(c) ==
  \/ CloseBegin(c) \/ CloseLock(c) \/ CloseLockFails(c) \/ CancelLease(c)
  \/ CloseDelete(c) \/ CloseDeleteFails(c) \/ CloseUnlock(c)

Next ==
  \/ \E c \in Conns :
       GetOrCreate(c) \/ Visit(c) \/ OnSessionClosed(c) \/ Deadline(c) \/ LeaseExpires(c)
  \/ \E s \in Sids : LockExpires(s)
  \/ \E n \in Nodes : Crash(n)

Spec == Init /\ [][Next]_vars

(***************************************************************************)
(* Fairness.  A goroutine that can take a step takes it.  The strong form  *)
(* is for the waits on e.mu and on the etcd mutex: a Go mutex hands over   *)
(* to a starving waiter and the etcd mutex is a queue in revision order,   *)
(* so whoever keeps finding the lock free gets it; and a wait on the etcd  *)
(* mutex that never finds it free ends with the deadline of its context.   *)
(* etcd expires what is no longer kept alive.  A client need not come      *)
(* (Call), ask for more (Handle) or leave (RemovePeer).                    *)
(***************************************************************************)
Runs(c) ==
  \/ ~At(c, "idle") /\ GetOrCreate(c)
  \/ Finish(c) \/ GetSession(c) \/ AddPeer(c) \/ GetSessionAgain(c)
  \/ OnSessionClosed(c)

Fairness ==
  /\ \A c \in Conns : SF_vars(Runs(c)) /\ WF_vars(lease[c] = "cancelled" /\ LeaseExpires(c))
  /\ \A s \in Sids : WF_vars(lock[s] # None /\ pc[lock[s]] \notin Holding /\ LockExpires(s))

FairSpec == Spec /\ Fairness

-------------------------------------------------------------------------------
\* Properties

TypeOK ==
  /\ pc \in [Conns -> Labels]
  /\ ret \in [Conns -> {"local", "redirect", "error", None}]
  /\ sess \in [Conns -> Conns \cup {None}]
  /\ expired \subseteq Conns
  /\ kv \in [Sids -> Conns \cup {None}]
  /\ lock \in [Sids -> Conns \cup {None}]
  /\ lease \in [Conns -> {"none", "gone"} \cup Live]
  /\ emu \in [Nodes -> Conns \cup {None}]
  /\ sessionLeases \in [Nodes -> [Sids -> Conns \cup {None}]]
  /\ localSessions \in [Nodes -> [Sids -> Conns \cup {None}]]
  /\ gauge \in [Nodes -> Int]
  /\ session \in [Conns -> {"none", "open", "closed"}]
  /\ peers \in [Conns -> SUBSET Conns]
  /\ unserved \subseteq Sids

(***************************************************************************)
(* Between mu.Lock and mu.Unlock, in getOrCreateSession or in              *)
(* onSessionClosed, on whatever node, at most one goroutine works on a     *)
(* session's key, through every failed Unlock, deadline and crash (as long *)
(* as no holder outlives the TTL of its etcd session: no "lockLoss").      *)
(***************************************************************************)
OneInCriticalSection ==
  \A c, d \in Conns :
    pc[c] \in Holding /\ pc[d] \in Holding /\ Sid[c] = Sid[d] => c = d

(***************************************************************************)
(* getOrCreateSession is linearizable: although it spans up to seven etcd  *)
(* requests and two locks, it looks up or takes the session at one instant.*)
(* In particular no node ever overwrites another node's live entry.        *)
(***************************************************************************)
Owner == [s \in Sids |-> IF kv[s] = None THEN None ELSE Home[kv[s]]]

Directory == INSTANCE SessionDirectory WITH owner <- Owner, answer <- ret

ImplementsDirectory == Directory!Spec

(***************************************************************************)
(* A session key that is being kept alive can be given up: its node holds, *)
(* in sessionLeases, the cancel function of the very lease that keeps it.  *)
(* Otherwise no onSessionClosed could ever stop the keep-alive.            *)
(***************************************************************************)
KeyHasKeeper ==
  \A s \in Sids :
    kv[s] # None /\ lease[kv[s]] = "kept" => sessionLeases[Home[kv[s]]][s] = kv[s]

(***************************************************************************)
(* onSessionClosed is given only a session id.  The entry of localSessions *)
(* it is about to delete is nevertheless the Session whose close called    *)
(* it, never a newer Session of the same id.  Holds under every fault.     *)
(***************************************************************************)
ClosesOwnSession ==
  \A c \in Conns :
    pc[c] \in Closing => localSessions[Home[c]][Sid[c]] = sess[c]

(***************************************************************************)
(* localSessions is a registry of Sessions, through every fault: although  *)
(* onSessionClosed runs after the close, gives up at any request and knows *)
(* only an id, a Session is found until it was closed, only a closed one   *)
(* is removed, and a Session that was closed or died never comes back.     *)
(***************************************************************************)
Registry == INSTANCE SessionRegistry WITH
  Slots <- Nodes \X Sids, Objects <- Conns,
  SlotOf <- [c \in Conns |-> <<Home[c], Sid[c]>>],
  Processes <- {{n} \X Sids : n \in Nodes},
  registered <- [k \in Nodes \X Sids |-> localSessions[k[1]][k[2]]],
  closed <- {c \in Conns : session[c] = "closed" \/ pc[c] = "crashed"}

ImplementsRegistry == Registry!Spec

(***************************************************************************)
(* prometheusGaugeSessions equals the number of Sessions the node has in   *)
(* localSessions, through every error return of onSessionClosed.           *)
(***************************************************************************)
Registered(n) == {s \in Sids : localSessions[n][s] # None}

GaugeCountsSessions == \A n \in Nodes : gauge[n] = Cardinality(Registered(n))

(***************************************************************************)
(* Nothing that was used is left behind.  Once every visit and look-up is  *)
(* over, whatever leases were lost, joins refused or nodes killed on the   *)
(* way, a Session that is still registered is one whose onSessionClosed    *)
(* failed, or one that no join ever got (a late look-up made it); and a    *)
(* session key that is still there is that of a Session still registered   *)
(* on its node, or of a visit for which no Session was ever registered: a  *)
(* connection that never joined, or a call that failed after its Put.      *)
(***************************************************************************)
AtRest ==
  \A c \in Conns :
    \/ pc[c] \in {"idle", "done", "abandoned"}
    \/ At(c, "crashed") /\ lease[c] \notin Live

CloseFailed(o) == session[o] = "closed"
NeverJoined(o) == \A c \in Conns : sess[c] # o

NoResidue ==
  AtRest =>
    /\ \A n \in Nodes, s \in Sids :
         Found(n, s) => CloseFailed(localSessions[n][s]) \/ NeverJoined(localSessions[n][s])
    /\ \A s \in Sids : kv[s] # None => s \in unserved \/ Found(Home[kv[s]], s)

(***************************************************************************)
(* No goroutine hangs: every call of getOrCreateSession, GetSession and    *)
(* onSessionClosed returns, although e.mu and the etcd mutex are taken in  *)
(* opposite orders by the first and the last.                              *)
(***************************************************************************)
Resting == {"idle", "joined", "refused"} \cup Stopped

EveryCallReturns == \A c \in Conns : pc[c] \notin Resting ~> pc[c] \in Resting

(***************************************************************************)
(* The sessions of a dead node become free: its keys do not outlive it.    *)
(***************************************************************************)
DeadOwner(s) == kv[s] # None /\ pc[kv[s]] = "crashed"

DeadNodeIsReplaced == \A s \in Sids : DeadOwner(s) ~> ~DeadOwner(s)

(***************************************************************************)
(* README.md:3 says the cluster "coordinates sessions between nodes", and  *)
(* pkg/coordinator_etcd.go:88 that an existing session's metadata is       *)
(* returned to whoever asks: the peers of one session are on one node.     *)
(***************************************************************************)
OneNodePerSession ==
  \A c, d \in Conns :
    At(c, "joined") /\ At(d, "joined") /\ Sid[c] = Sid[d] => Home[c] = Home[d]
===============================================================================
