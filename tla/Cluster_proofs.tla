---------------------------- MODULE Cluster_proofs ----------------------------
(***************************************************************************)
(* Theorems about Cluster, for any number of clients, processes, endpoints *)
(* and sessions, any process crashing, draining, restarting, failing or    *)
(* losing its leases, and chains of proxies of any length.                 *)
(***************************************************************************)
EXTENDS Cluster, FiniteSetTheorems, SequenceTheorems, TLAPS

LEMMA SmallConstants ==
  /\ Sid \in [Clients -> Sids] /\ None \notin Nodes /\ None \notin Clients
  /\ MaxHops \in Nat \ {0}
BY ClusterConstants

USE SmallConstants

-------------------------------------------------------------------------------
\* Chains of handlers and how a step changes them

ChainsType == hops \in [Clients -> Seq(HopRecords)] /\ \A c \in Clients : Len(hops[c]) <= MaxHops

DirType == owner \in [Sids -> Nodes \cup {None}] /\ takes \in [Sids -> Nat]

JoinType ==
  /\ join \in [Clients -> {"none", "local", "refused", "joined", "over"}]
  /\ term \in [Clients -> Nat]
  /\ sess \in [Clients -> Clients \cup {None}]

\* A peer that joins has a handler, one that joined a Session.
JoinedIsOpen ==
  \A c \in Clients : /\ join[c] \in {"local", "joined"} => hops[c] # << >>
                     /\ join[c] = "joined" => sess[c] # None

SessionType ==
  /\ localSessions \in [Nodes -> [Sids -> Clients \cup {None}]]
  /\ closed \subseteq Clients

ProcessType ==
  /\ process \in [Nodes -> {"off", "running", "draining", "counting", "exiting", "crashed",
                            "idleExit"}]
  /\ present \in [Nodes -> SUBSET Clients]

\* TypeOK, except that a gauge might be negative.
BasicType ==
  /\ DirType /\ ChainsType /\ left \subseteq Clients
  /\ JoinType /\ JoinedIsOpen /\ SessionType /\ ProcessType
  /\ gaugeClients \in [Nodes -> Int] /\ gaugeProxyClients \in [Nodes -> Int]

\* Handler i of c becomes r; nothing else happens to the chains.
Moves(c, i, r) ==
  \A d \in Clients :
    /\ Len(hops'[d]) = Len(hops[d])
    /\ \A j \in 1 .. Len(hops[d]) : hops'[d][j] = IF d = c /\ j = i THEN r ELSE hops[d][j]

\* A handler on n is the new last one of c, at the request of handler i if there is one.
Extends(c, i, n) ==
  /\ \A d \in Clients \ {c} : hops'[d] = hops[d]
  /\ Len(hops'[c]) = Len(hops[c]) + 1
  /\ hops'[c][Len(hops[c]) + 1] = Hop(n, "lookup")
  /\ \A j \in 1 .. Len(hops[c]) :
       hops'[c][j] = IF j = i THEN [hops[c][i] EXCEPT !.at = "dialing"] ELSE hops[c][j]

\* Every handler on n ends.
Ends(n) ==
  \A d \in Clients :
    /\ Len(hops'[d]) = Len(hops[d])
    /\ \A j \in 1 .. Len(hops[d]) :
         hops'[d][j] = IF hops[d][j].node = n THEN [hops[d][j] EXCEPT !.at = "done"]
                                              ELSE hops[d][j]

\* A chain that was begun is never empty again.
Grows == \A d \in Clients : hops[d] # << >> => hops'[d] # << >>

LEMMA ChainType ==
  ASSUME ChainsType, NEW c \in Clients
  PROVE  /\ hops[c] \in Seq(HopRecords) /\ Len(hops[c]) \in 0 .. MaxHops
         /\ DOMAIN hops[c] = 1 .. Len(hops[c])
         /\ hops[c] = << >> <=> Len(hops[c]) = 0
         /\ \A i \in 1 .. Len(hops[c]) :
              /\ hops[c][i] \in HopRecords
              /\ hops[c][i].node \in Nodes /\ hops[c][i].at \in HopStates
              /\ hops[c][i].to \in Nodes \cup {None}
<1>1. hops[c] \in Seq(HopRecords) BY DEF ChainsType
<1>2. Len(hops[c]) \in 0 .. MaxHops /\ DOMAIN hops[c] = 1 .. Len(hops[c])
  BY <1>1, LenProperties DEF ChainsType
<1>3. hops[c] = << >> <=> Len(hops[c]) = 0 BY <1>1, EmptySeq
<1>4. \A i \in 1 .. Len(hops[c]) : hops[c][i] \in HopRecords BY <1>1, ElementOfSeq
<1> QED BY <1>1, <1>2, <1>3, <1>4 DEF HopRecords

LEMMA ServerType ==
  ASSUME ChainsType, NEW c \in Clients, hops[c] # << >>
  PROVE  /\ Len(hops[c]) \in 1 .. Len(hops[c]) /\ Len(hops[c]) \in 1 .. MaxHops
         /\ Server(c) = hops[c][Len(hops[c])].node /\ Server(c) \in Nodes
<1>1. Len(hops[c]) \in 1 .. Len(hops[c]) /\ Len(hops[c]) \in 1 .. MaxHops BY ChainType
<1>2. hops[c][Len(hops[c])].node \in Nodes BY <1>1, ChainType
<1> QED BY <1>1, <1>2 DEF Server, NodeOf

LEMMA LongerGrows ==
  ASSUME ChainsType, ChainsType', \A d \in Clients : Len(hops'[d]) >= Len(hops[d])
  PROVE  Grows
<1> SUFFICES ASSUME NEW d \in Clients, hops[d] # << >> PROVE hops'[d] # << >>
  BY DEF Grows
<1>1. hops[d] \in Seq(HopRecords) /\ hops'[d] \in Seq(HopRecords) BY DEF ChainsType
<1>2. Len(hops[d]) \in Nat \ {0} BY <1>1, EmptySeq
<1>3. Len(hops'[d]) # 0 BY <1>1, <1>2, LenProperties
<1> QED BY <1>1, <1>3, EmptySeq

LEMMA SetMoves ==
  ASSUME ChainsType, NEW c \in Clients, NEW i \in 1 .. Len(hops[c]), NEW r \in HopRecords,
         hops' = [hops EXCEPT ![c] = [hops[c] EXCEPT ![i] = r]]
  PROVE  ChainsType' /\ Grows /\ Moves(c, i, r)
<1>1. /\ [hops[c] EXCEPT ![i] = r] \in Seq(HopRecords)
      /\ Len([hops[c] EXCEPT ![i] = r]) = Len(hops[c])
      /\ \A j \in 1 .. Len(hops[c]) : [hops[c] EXCEPT ![i] = r][j] = IF j = i THEN r ELSE hops[c][j]
  BY ExceptSeq DEF ChainsType
<1>2. \A d \in Clients : hops'[d] = IF d = c THEN [hops[c] EXCEPT ![i] = r] ELSE hops[d]
  BY DEF ChainsType
<1>3. ChainsType' BY <1>1, <1>2 DEF ChainsType
<1>4. Moves(c, i, r) BY <1>1, <1>2 DEF Moves
<1>5. Grows
  <2>1. \A d \in Clients : Len(hops[d]) \in Nat BY ChainType
  <2> QED BY <1>3, <1>4, <2>1, LongerGrows DEF Moves
<1> QED BY <1>3, <1>4, <1>5

LEMMA GotoMoves ==
  ASSUME ChainsType, NEW c \in Clients, NEW i \in 1 .. Len(hops[c]), NEW a \in HopStates,
         Goto(c, i, a)
  PROVE  ChainsType' /\ Grows /\ Moves(c, i, [hops[c][i] EXCEPT !.at = a])
<1>1. hops[c][i] \in HopRecords BY ChainType
<1>2. [hops[c][i] EXCEPT !.at = a] \in HopRecords BY <1>1 DEF HopRecords
<1>3. hops' = [hops EXCEPT ![c] = [hops[c] EXCEPT ![i] = [hops[c][i] EXCEPT !.at = a]]]
  BY DEF Goto
<1> QED BY <1>2, <1>3, SetMoves

LEMMA RedirectMoves ==
  ASSUME ChainsType, NEW c \in Clients, NEW i \in 1 .. Len(hops[c]), NEW o \in Nodes,
         hops' = [hops EXCEPT ![c][i] = [@ EXCEPT !.at = "redirected", !.to = o]]
  PROVE  ChainsType' /\ Grows /\ Moves(c, i, [hops[c][i] EXCEPT !.at = "redirected", !.to = o])
<1>1. hops[c][i] \in HopRecords BY ChainType
<1>2. [hops[c][i] EXCEPT !.at = "redirected", !.to = o] \in HopRecords
  BY <1>1 DEF HopRecords, HopStates
<1> QED BY <1>2, SetMoves

LEMMA DialExtends ==
  ASSUME ChainsType, NEW c \in Clients, hops[c] = << >>, NEW n \in Nodes,
         hops' = [hops EXCEPT ![c] = <<Hop(n, "lookup")>>]
  PROVE  ChainsType' /\ Grows /\ Extends(c, 1, n)
<1>1. Hop(n, "lookup") \in HopRecords BY DEF Hop, HopRecords, HopStates
<1>2. <<Hop(n, "lookup")>> \in Seq(HopRecords) /\ Len(<<Hop(n, "lookup")>>) = 1
  BY <1>1
<1>3. \A d \in Clients : hops'[d] = IF d = c THEN <<Hop(n, "lookup")>> ELSE hops[d]
  BY DEF ChainsType
<1>4. ChainsType' BY <1>2, <1>3 DEF ChainsType
<1>5. Len(hops[c]) = 0 BY ChainType
<1>6. Extends(c, 1, n) BY <1>2, <1>3, <1>5 DEF Extends
<1> QED BY <1>3, <1>4, <1>6 DEF Grows

LEMMA ProxyExtends ==
  ASSUME ChainsType, NEW c \in Clients, NEW i \in 1 .. Len(hops[c]), Len(hops[c]) # MaxHops,
         NEW n \in Nodes,
         hops' = [hops EXCEPT ![c] = Append([@ EXCEPT ![i].at = "dialing"], Hop(n, "lookup"))]
  PROVE  ChainsType' /\ Grows /\ Extends(c, i, n)
<1> DEFINE r == [hops[c][i] EXCEPT !.at = "dialing"]
           q == [hops[c] EXCEPT ![i] = r]
           h == Hop(n, "lookup")
<1>1. hops[c] \in Seq(HopRecords) /\ hops[c][i] \in HopRecords /\ Len(hops[c]) \in 0 .. MaxHops
  BY ChainType
<1>2. r \in HopRecords /\ h \in HopRecords BY <1>1 DEF Hop, HopRecords, HopStates, Open
<1>3. /\ q \in Seq(HopRecords) /\ Len(q) = Len(hops[c])
      /\ \A j \in 1 .. Len(hops[c]) : q[j] = IF j = i THEN r ELSE hops[c][j]
  <2> HIDE DEF r
  <2> QED BY <1>1, <1>2, ExceptSeq
<1>4. hops' = [hops EXCEPT ![c] = Append(q, h)]
  OBVIOUS
<1> HIDE DEF q, h, r
<1>5. /\ Append(q, h) \in Seq(HopRecords) /\ Len(Append(q, h)) = Len(q) + 1
      /\ \A j \in 1 .. Len(q) : Append(q, h)[j] = q[j]
      /\ Append(q, h)[Len(q) + 1] = h
  <2>1. q \in Seq(HopRecords) /\ h \in HopRecords BY <1>2, <1>3
  <2> QED BY <2>1, AppendProperties
<1>6. \A d \in Clients : hops'[d] = IF d = c THEN Append(q, h) ELSE hops[d]
  BY <1>4 DEF ChainsType
<1>7. ChainsType'
  <2>1. hops' \in [Clients -> Seq(HopRecords)] BY <1>4, <1>5 DEF ChainsType
  <2>2. Len(hops[c]) + 1 <= MaxHops BY <1>1
  <2>3. \A d \in Clients : Len(hops'[d]) <= MaxHops BY <1>3, <1>5, <1>6, <2>2 DEF ChainsType
  <2> QED BY <2>1, <2>3 DEF ChainsType
<1>8. Extends(c, i, n) BY <1>3, <1>5, <1>6 DEF Extends, r, h
<1>9. Grows
  <2>1. Append(q, h) # << >> BY <1>2, <1>3, AppendProperties
  <2> QED BY <1>6, <2>1 DEF Grows
<1> QED BY <1>7, <1>8, <1>9

LEMMA StopEnds ==
  ASSUME ChainsType, NEW n \in Nodes, NEW how, Stop(n, how)
  PROVE  ChainsType' /\ Grows /\ Ends(n)
<1> DEFINE g(d, j) == IF NodeOf(d, j) = n THEN [hops[d][j] EXCEPT !.at = "done"] ELSE hops[d][j]
<1>1. hops' = [d \in Clients |-> [j \in DOMAIN hops[d] |-> g(d, j)]]
  BY DEF Stop
<1>2. ASSUME NEW d \in Clients
      PROVE  /\ hops'[d] \in Seq(HopRecords) /\ Len(hops'[d]) = Len(hops[d])
             /\ \A j \in 1 .. Len(hops[d]) : hops'[d][j] = g(d, j)
  <2>1. hops'[d] = [j \in 1 .. Len(hops[d]) |-> g(d, j)] BY <1>1, ChainType
  <2>2. \A j \in 1 .. Len(hops[d]) : g(d, j) \in HopRecords
    <3> SUFFICES ASSUME NEW j \in 1 .. Len(hops[d]) PROVE g(d, j) \in HopRecords
      OBVIOUS
    <3>1. hops[d][j] \in HopRecords BY ChainType
    <3> QED BY <3>1 DEF HopRecords, HopStates
  <2>3. Len(hops[d]) \in Nat BY ChainType
  <2> HIDE DEF g
  <2> QED BY <2>1, <2>2, <2>3
<1>3. ChainsType' BY <1>1, <1>2 DEF ChainsType
<1>4. Ends(n) BY <1>2 DEF Ends, NodeOf
<1>5. Grows
  <2>1. \A d \in Clients : Len(hops[d]) \in Nat BY ChainType
  <2> QED BY <1>3, <1>4, <2>1, LongerGrows DEF Ends
<1> QED BY <1>3, <1>4, <1>5

LEMMA PeersGoneType ==
  ASSUME JoinType, JoinedIsOpen, Grows, NEW cs, PeersGone(cs)
  PROVE  JoinType' /\ JoinedIsOpen'
<1> USE DEF PeersGone
<1>1. JoinType'
  <2>1. join' \in [Clients -> {"none", "local", "refused", "joined", "over"}] BY DEF JoinType
  <2>2. term' \in [Clients -> Nat] BY DEF JoinType
  <2>3. sess' \in [Clients -> Clients \cup {None}] BY DEF JoinType
  <2> QED BY <2>1, <2>2, <2>3 DEF JoinType
<1>2. JoinedIsOpen' BY DEF JoinedIsOpen, Grows
<1> QED BY <1>1, <1>2

LEMMA GetOrCreateType ==
  ASSUME DirType, NEW n \in Nodes, NEW s \in Sids, GetOrCreate(n, s)
  PROVE  DirType' /\ owner'[s] \in Nodes
<1> USE DEF DirType, GetOrCreate, dirVars
<1>1. CASE owner[s] = None BY <1>1
<1>2. CASE owner[s] # None BY <1>2
<1> QED BY <1>1, <1>2

LEMMA GetOrCreateFailsType ==
  ASSUME DirType, NEW n \in Nodes, NEW s \in Sids, GetOrCreateFails(n, s)
  PROVE  DirType'
BY GetOrCreateType DEF DirType, GetOrCreateFails, dirVars

\* What a step leaves alone stays as it was.
LEMMA TypeFrame ==
  ASSUME BasicType
  PROVE  /\ UNCHANGED dirVars => DirType'
         /\ UNCHANGED hops => ChainsType' /\ Grows
         /\ UNCHANGED peerVars => JoinType'
         /\ UNCHANGED peerVars /\ Grows => JoinedIsOpen'
         /\ UNCHANGED nodeVars => SessionType'
         /\ UNCHANGED <<process, present>> => ProcessType'
<1> USE DEF BasicType
<1>1. UNCHANGED dirVars => DirType' BY DEF dirVars, DirType
<1>2. UNCHANGED hops => ChainsType' /\ Grows BY DEF ChainsType, Grows
<1>3. UNCHANGED peerVars => JoinType' BY DEF peerVars, JoinType
<1>4. UNCHANGED peerVars /\ Grows => JoinedIsOpen' BY DEF peerVars, JoinedIsOpen, Grows
<1>5. UNCHANGED nodeVars => SessionType' BY DEF nodeVars, SessionType
<1>6. UNCHANGED <<process, present>> => ProcessType' BY DEF ProcessType
<1> QED BY <1>1, <1>2, <1>3, <1>4, <1>5, <1>6

\* A step of handler i of c.
LEMMA HandlerType ==
  ASSUME BasicType, NEW c \in Clients, NEW i \in DOMAIN hops[c],
         \/ Lookup(c, i) \/ LookupFails(c, i)
         \/ StartProxy(c, i) \/ DialFails(c, i) \/ ProxyUpgrades(c, i) \/ ProxyEnds(c, i)
         \/ Serve(c, i) \/ ServeEnds(c, i) \/ ClosePeer(c, i)
         \/ Unregister(c, i) \/ UnregisterFails(c, i)
  PROVE  BasicType'
<1>1. ChainsType BY DEF BasicType
<1>2. i \in 1 .. Len(hops[c]) /\ NodeOf(c, i) \in Nodes
  BY <1>1, ChainType DEF NodeOf
<1>3. \A a \in HopStates : Goto(c, i, a) => ChainsType' /\ Grows
  BY <1>1, <1>2, GotoMoves
<1>4. CASE Lookup(c, i)
  <2>1. GetOrCreate(NodeOf(c, i), Sid[c]) BY <1>4 DEF Lookup
  <2>2. DirType' /\ owner'[Sid[c]] \in Nodes BY <1>2, <2>1, GetOrCreateType DEF BasicType
  <2>3. ChainsType' /\ Grows
    BY <1>1, <1>2, <1>3, <1>4, <2>2, RedirectMoves DEF Lookup, HopStates, Open
  <2>4. UNCHANGED <<left, peerVars, nodeVars, gauges, process, present>> BY <1>4 DEF Lookup
  <2> QED BY <2>2, <2>3, <2>4, TypeFrame DEF BasicType, gauges
<1>5. CASE LookupFails(c, i)
  <2>1. DirType' BY <1>2, <1>5, GetOrCreateFailsType DEF LookupFails, BasicType
  <2>2. ChainsType' /\ Grows BY <1>3, <1>5 DEF LookupFails, HopStates
  <2>3. UNCHANGED <<left, peerVars, nodeVars, gauges, process, present>> BY <1>5 DEF LookupFails
  <2> QED BY <2>1, <2>2, <2>3, TypeFrame DEF BasicType, gauges
<1>6. CASE StartProxy(c, i)
  <2>1. ChainsType' /\ Grows
    BY <1>1, <1>2, <1>3, <1>6, ProxyExtends DEF StartProxy, LiveAt, HopStates
  <2>2. /\ CountProxied(NodeOf(c, i))
        /\ UNCHANGED <<dirVars, left, peerVars, nodeVars, gaugeClients, process, present>>
    BY <1>6 DEF StartProxy
  <2>3. gaugeProxyClients' \in [Nodes -> Int] BY <1>2, <2>2 DEF CountProxied, BasicType
  <2> QED BY <2>1, <2>2, <2>3, TypeFrame DEF BasicType
<1>7. CASE DialFails(c, i) \/ ProxyUpgrades(c, i) \/ ProxyEnds(c, i)
  <2>1. ChainsType' /\ Grows
    BY <1>3, <1>7 DEF DialFails, ProxyUpgrades, ProxyEnds, HopStates, Open
  <2>2. UNCHANGED <<dirVars, left, peerVars, nodeVars, gaugeClients, process, present>>
    BY <1>7 DEF DialFails, ProxyUpgrades, ProxyEnds, gauges
  <2>3. gaugeProxyClients' \in [Nodes -> Int]
    BY <1>2, <1>7 DEF DialFails, ProxyUpgrades, ProxyEnds, UncountRefused, BasicType, gauges
  <2> QED BY <2>1, <2>2, <2>3, TypeFrame DEF BasicType
<1>8. CASE Serve(c, i) \/ ServeEnds(c, i)
  <2>1. ChainsType' /\ Grows BY <1>3, <1>8 DEF Serve, ServeEnds, HopStates, Open
  <2>2. UNCHANGED <<dirVars, left, peerVars, nodeVars, gaugeProxyClients, process, present>>
    BY <1>8 DEF Serve, ServeEnds
  <2>3. gaugeClients' \in [Nodes -> Int] BY <1>2, <1>8 DEF Serve, ServeEnds, BasicType
  <2> QED BY <2>1, <2>2, <2>3, TypeFrame DEF BasicType
<1>9. CASE ClosePeer(c, i)
  <2>1. ChainsType' /\ Grows BY <1>3, <1>9 DEF ClosePeer, HopStates
  <2>2. closed' \subseteq Clients
    BY <1>9 DEF ClosePeer, BasicType, SessionType, JoinType, JoinedIsOpen
  <2>3. JoinType' /\ JoinedIsOpen' BY <1>9, <2>1, PeersGoneType DEF ClosePeer, BasicType
  <2>4. UNCHANGED <<dirVars, left, localSessions, gauges, process, present>>
    BY <1>9 DEF ClosePeer
  <2>5. SessionType' BY <2>2, <2>4 DEF BasicType, SessionType
  <2> QED BY <2>1, <2>3, <2>4, <2>5, TypeFrame DEF BasicType, gauges
<1>10. CASE Unregister(c, i) \/ UnregisterFails(c, i)
  <2>1. ChainsType' /\ Grows BY <1>3, <1>10 DEF Unregister, UnregisterFails, HopStates
  <2>2. /\ owner' \in {owner, [owner EXCEPT ![Sid[c]] = None]}
        /\ localSessions' \in {localSessions,
                              [localSessions EXCEPT ![NodeOf(c, i)][Sid[c]] = None]}
        /\ UNCHANGED <<takes, left, peerVars, closed, gauges, process, present>>
    BY <1>10 DEF Unregister, UnregisterFails, nodeVars
  <2>3. SessionType'
    <3>1. CASE localSessions' = localSessions BY <2>2, <3>1 DEF BasicType, SessionType
    <3>2. CASE localSessions' = [localSessions EXCEPT ![NodeOf(c, i)][Sid[c]] = None]
      BY <1>2, <2>2, <3>2 DEF BasicType, SessionType
    <3> QED BY <2>2, <3>1, <3>2
  <2>4. DirType' BY <2>2 DEF BasicType, DirType
  <2> QED BY <2>1, <2>2, <2>3, <2>4, TypeFrame DEF BasicType, gauges
<1> QED BY <1>4, <1>5, <1>6, <1>7, <1>8, <1>9, <1>10

LEMMA BasicTypeInvariant == Spec => []BasicType
<1>1. Init => BasicType
  <2> SUFFICES ASSUME Init PROVE BasicType
    OBVIOUS
  <2>1. ChainsType
    <3>1. << >> \in Seq(HopRecords) /\ Len(<< >>) = 0 BY EmptySeq
    <3> QED BY <3>1 DEF Init, ChainsType
  <2>2. DirType BY ClusterConstants DEF Init, DirType
  <2>3. JoinType /\ JoinedIsOpen BY DEF Init, JoinType, JoinedIsOpen
  <2>4. SessionType /\ ProcessType BY DEF Init, SessionType, ProcessType
  <2> QED BY <2>1, <2>2, <2>3, <2>4 DEF Init, BasicType
<1>2. BasicType /\ [Next]_vars => BasicType'
  <2> SUFFICES ASSUME BasicType, [Next]_vars PROVE BasicType'
    OBVIOUS
  <2>1. ChainsType BY DEF BasicType
  <2>2. ASSUME NEW c \in Clients, Dial(c) PROVE BasicType'
    <3>1. ChainsType' /\ Grows BY <2>1, <2>2, DialExtends DEF Dial
    <3>2. UNCHANGED <<dirVars, left, peerVars, nodeVars, gauges, process, present>>
      BY <2>2 DEF Dial
    <3> QED BY <3>1, <3>2, TypeFrame DEF BasicType, gauges
  <2>3. ASSUME NEW c \in Clients, Leave(c) PROVE BasicType'
    BY <2>3, TypeFrame DEF Leave, BasicType, gauges
  <2>4. ASSUME NEW c \in Clients, Handler(c) PROVE BasicType'
    BY <2>4, HandlerType DEF Handler
  <2>5. ASSUME NEW c \in Clients, Join(c) PROVE BasicType'
    <3>1. Server(c) \in Nodes /\ hops[c] # << >>
      BY <2>1, <2>5, ServerType DEF Join, Reachable
    <3>2. DirType'
      BY <2>5, <3>1, GetOrCreateType, GetOrCreateFailsType DEF Join, BasicType
    <3>3. \E a \in {"local", "refused"} : join' = [join EXCEPT ![c] = a]
      BY <2>5 DEF Join
    <3>4. UNCHANGED <<hopVars, sess, nodeVars, gauges, process, present>> BY <2>5 DEF Join
    <3>5. term' \in [Clients -> Nat]
      <4>1. takes'[Sid[c]] \in Nat BY <3>2 DEF DirType
      <4>2. term' = term \/ term' = [term EXCEPT ![c] = takes'[Sid[c]]] BY <2>5 DEF Join
      <4> QED BY <4>1, <4>2 DEF BasicType, JoinType
    <3>6. JoinType' BY <3>3, <3>4, <3>5 DEF BasicType, JoinType
    <3>7. JoinedIsOpen' BY <3>1, <3>3, <3>4 DEF BasicType, JoinType, JoinedIsOpen, hopVars
    <3> QED BY <3>2, <3>4, <3>6, <3>7, TypeFrame DEF BasicType, gauges, hopVars
  <2>6. ASSUME NEW c \in Clients, JoinSession(c) PROVE BasicType'
    <3> DEFINE o == IF localSessions[Server(c)][Sid[c]] = None THEN c
                    ELSE localSessions[Server(c)][Sid[c]]
    <3>1. UNCHANGED <<dirVars, hopVars, term, closed, gauges, process, present>>
      BY <2>6 DEF JoinSession
    <3>2. localSessions' = [localSessions EXCEPT ![Server(c)] = [@ EXCEPT ![Sid[c]] = o]]
      BY <2>6 DEF JoinSession
    <3>3. Server(c) \in Nodes
      BY <2>1, <2>6, ServerType DEF JoinSession, BasicType, JoinedIsOpen
    <3>4. o \in Clients BY <3>3 DEF BasicType, SessionType
    <3> HIDE DEF o
    <3>5. SessionType' BY <3>1, <3>2, <3>4 DEF BasicType, SessionType
    <3>6. localSessions'[Server(c)][Sid[c]] = o BY <3>2, <3>3 DEF BasicType, SessionType
    <3>7. sess' = [sess EXCEPT ![c] = o] /\ join' = [join EXCEPT ![c] = "joined"]
      BY <2>6, <3>6 DEF JoinSession
    <3>8. JoinType' BY <3>1, <3>4, <3>7 DEF BasicType, JoinType
    <3>9. JoinedIsOpen'
      <4>1. hops[c] # << >> BY <2>6 DEF JoinSession, BasicType, JoinedIsOpen
      <4> QED BY <3>1, <3>4, <3>7, <4>1 DEF BasicType, JoinType, JoinedIsOpen, hopVars
    <3> QED BY <3>1, <3>5, <3>8, <3>9, TypeFrame DEF BasicType, gauges, hopVars
  <2>7. ASSUME NEW n \in Nodes, Crash(n) \/ Exit(n) PROVE BasicType'
    <3>1. PICK how \in {"crashed", "idleExit"} : Stop(n, how) BY <2>7 DEF Crash, Exit
    <3>2. ChainsType' /\ Grows BY <2>1, <3>1, StopEnds
    <3>3. UNCHANGED <<dirVars, left, closed>> BY <3>1 DEF Stop
    <3>4. ProcessType' BY <3>1 DEF Stop, BasicType, ProcessType
    <3>5. SessionType' BY <3>1, <3>3 DEF Stop, BasicType, SessionType
    <3>6. JoinType' /\ JoinedIsOpen' BY <3>1, <3>2, PeersGoneType DEF Stop, BasicType
    <3>7. gaugeClients' \in [Nodes -> Int] /\ gaugeProxyClients' \in [Nodes -> Int]
      BY <3>1 DEF Stop, BasicType
    <3> QED BY <3>2, <3>3, <3>4, <3>5, <3>6, <3>7, TypeFrame DEF BasicType
  <2>8. ASSUME NEW n \in Nodes,
               Start(n) \/ GotSignal(n) \/ CountClients(n) \/ CountProxyClients(n)
        PROVE  BasicType'
    <3>1. UNCHANGED <<dirVars, hopVars, peerVars, nodeVars, gauges>>
      BY <2>8 DEF Start, GotSignal, CountClients, CountProxyClients
    <3>2. ProcessType'
      <4>1. CASE CountClients(n)
        BY <4>1 DEF CountClients, BasicType, ProcessType
      <4>2. CASE ~CountClients(n)
        BY <2>8, <4>2 DEF Start, GotSignal, CountProxyClients, BasicType, ProcessType
      <4> QED BY <4>1, <4>2
    <3> QED BY <3>1, <3>2, TypeFrame DEF BasicType, gauges, hopVars
  <2>9. ASSUME NEW s \in Sids, KeyExpires(s) PROVE BasicType'
    <3>1. DirType' BY <2>9 DEF KeyExpires, BasicType, DirType
    <3>2. UNCHANGED <<hopVars, peerVars, nodeVars, gauges, process, present>>
      BY <2>9 DEF KeyExpires
    <3> QED BY <3>1, <3>2, TypeFrame DEF BasicType, gauges, hopVars
  <2>10. CASE UNCHANGED vars
    BY <2>10, TypeFrame DEF vars, BasicType, gauges, hopVars
  <2> QED BY <2>2, <2>3, <2>4, <2>5, <2>6, <2>7, <2>8, <2>9, <2>10 DEF Next, MainLoop
<1> QED BY <1>1, <1>2, PTL DEF Spec

\* The steps of a handler.
Transitions ==
  {<<"lookup", "upgraded">>, <<"lookup", "redirected">>, <<"lookup", "done">>,
   <<"redirected", "dialing">>, <<"dialing", "proxying">>, <<"dialing", "done">>,
   <<"proxying", "done">>, <<"upgraded", "serving">>, <<"serving", "closePeer">>,
   <<"closePeer", "unregister">>, <<"closePeer", "done">>, <<"unregister", "done">>}

LEMMA HandlerMoves ==
  ASSUME BasicType, NEW c \in Clients, NEW i \in DOMAIN hops[c],
         \/ Lookup(c, i) \/ LookupFails(c, i)
         \/ StartProxy(c, i) \/ DialFails(c, i) \/ ProxyUpgrades(c, i) \/ ProxyEnds(c, i)
         \/ Serve(c, i) \/ ServeEnds(c, i) \/ ClosePeer(c, i)
         \/ Unregister(c, i) \/ UnregisterFails(c, i)
  PROVE  /\ i \in 1 .. Len(hops[c])
         /\ \E r \in HopRecords :
              /\ r.node = hops[c][i].node
              /\ <<hops[c][i].at, r.at>> \in Transitions
              /\ IF r.at = "redirected" THEN r.to = owner'[Sid[c]] /\ r.to \in Nodes \ {r.node}
                                        ELSE r.to = hops[c][i].to
              /\ \/ Moves(c, i, r)
                 \/ /\ hops[c][i].at = "redirected" /\ r = [hops[c][i] EXCEPT !.at = "dialing"]
                    /\ \E m \in LiveAt(Endpoint[hops[c][i].to]) : Extends(c, i, m)
<1>1. ChainsType BY DEF BasicType
<1>2. i \in 1 .. Len(hops[c]) /\ hops[c][i] \in HopRecords /\ NodeOf(c, i) \in Nodes
  BY <1>1, ChainType DEF NodeOf
<1> DEFINE w(a) == [hops[c][i] EXCEPT !.at = a]
           P(r) == /\ r.node = hops[c][i].node
                   /\ <<hops[c][i].at, r.at>> \in Transitions
                   /\ IF r.at = "redirected" THEN r.to = owner'[Sid[c]] /\ r.to \in Nodes \ {r.node}
                                             ELSE r.to = hops[c][i].to
                   /\ \/ Moves(c, i, r)
                      \/ /\ hops[c][i].at = "redirected" /\ r = [hops[c][i] EXCEPT !.at = "dialing"]
                         /\ \E m \in LiveAt(Endpoint[hops[c][i].to]) : Extends(c, i, m)
<1>3. ASSUME NEW a \in HopStates
      PROVE  /\ w(a) \in HopRecords /\ w(a).node = hops[c][i].node /\ w(a).at = a
             /\ w(a).to = hops[c][i].to
  BY <1>2 DEF HopRecords
<1>4. ASSUME NEW a \in HopStates \ {"redirected"}, Goto(c, i, a), <<hops[c][i].at, a>> \in Transitions
      PROVE  \E r \in HopRecords : P(r)
  <2>1. Moves(c, i, w(a)) BY <1>1, <1>2, <1>4, GotoMoves
  <2> QED BY <1>3, <1>4, <2>1
<1>5. CASE Lookup(c, i) /\ ~Goto(c, i, "upgraded")
  <2>1. owner'[Sid[c]] \in Nodes BY <1>2, <1>5, GetOrCreateType DEF Lookup, BasicType
  <2> DEFINE r == [hops[c][i] EXCEPT !.at = "redirected", !.to = owner'[Sid[c]]]
  <2>2. Moves(c, i, r) BY <1>1, <1>2, <1>5, <2>1, RedirectMoves DEF Lookup
  <2>3. /\ r \in HopRecords /\ r.node = hops[c][i].node /\ r.at = "redirected"
        /\ r.to = owner'[Sid[c]]
    BY <1>2, <2>1 DEF HopRecords, HopStates
  <2>4. hops[c][i].at = "lookup" BY <1>5 DEF Lookup, At
  <2>5. owner'[Sid[c]] # hops[c][i].node BY <1>5 DEF Lookup, Redirect, NodeOf
  <2>6. r.to \in Nodes \ {r.node} BY <2>1, <2>3, <2>5
  <2> HIDE DEF r
  <2> QED BY <1>2, <2>2, <2>3, <2>4, <2>6 DEF Transitions
<1>6. CASE StartProxy(c, i) /\ ~Goto(c, i, "dialing")
  <2>1. \E m \in LiveAt(Endpoint[hops[c][i].to]) : Extends(c, i, m)
    BY <1>1, <1>2, <1>6, ProxyExtends DEF StartProxy, LiveAt
  <2>2. hops[c][i].at = "redirected" BY <1>6 DEF StartProxy, At
  <2>3. /\ w("dialing") \in HopRecords /\ w("dialing").node = hops[c][i].node
        /\ w("dialing").at = "dialing" /\ w("dialing").to = hops[c][i].to
    BY <1>3 DEF HopStates
  <2> QED BY <1>2, <2>1, <2>2, <2>3 DEF Transitions
<1>7. CASE \/ Lookup(c, i) /\ Goto(c, i, "upgraded")
           \/ StartProxy(c, i) /\ Goto(c, i, "dialing")
  <2>1. \/ hops[c][i].at = "lookup" /\ Goto(c, i, "upgraded")
        \/ hops[c][i].at = "redirected" /\ Goto(c, i, "dialing")
    BY <1>7 DEF Lookup, StartProxy, At
  <2> QED BY <1>2, <1>4, <2>1 DEF Transitions, HopStates, Open
<1>8. CASE LookupFails(c, i) \/ DialFails(c, i) \/ ProxyEnds(c, i) \/ Unregister(c, i)
             \/ UnregisterFails(c, i)
  <2>1. /\ hops[c][i].at \in {"lookup", "dialing", "proxying", "unregister"}
        /\ Goto(c, i, "done")
    BY <1>8 DEF LookupFails, DialFails, ProxyEnds, Unregister, UnregisterFails, At
  <2> QED BY <1>2, <1>4, <2>1 DEF Transitions, HopStates
<1>9. CASE ProxyUpgrades(c, i) \/ Serve(c, i) \/ ServeEnds(c, i)
  <2>1. \/ hops[c][i].at = "dialing" /\ Goto(c, i, "proxying")
        \/ hops[c][i].at = "upgraded" /\ Goto(c, i, "serving")
        \/ hops[c][i].at = "serving" /\ Goto(c, i, "closePeer")
    BY <1>9 DEF ProxyUpgrades, Serve, ServeEnds, At
  <2> QED BY <1>2, <1>4, <2>1 DEF Transitions, HopStates, Open
<1>10. CASE ClosePeer(c, i)
  <2>1. /\ hops[c][i].at = "closePeer"
        /\ Goto(c, i, "unregister") \/ Goto(c, i, "done")
    BY <1>10 DEF ClosePeer, At
  <2> QED BY <1>2, <1>4, <2>1 DEF Transitions, HopStates
<1> QED BY <1>5, <1>6, <1>7, <1>8, <1>9, <1>10

-------------------------------------------------------------------------------
\* The gauges

\* Handler j of d is on n and in one of the states A.
Handles(d, j, n, A) == j <= Len(hops[d]) /\ NodeOf(d, j) = n /\ hops[d][j].at \in A

Handlers(n, A) == {p \in Clients \X (1 .. MaxHops) : Handles(p[1], p[2], n, A)}

Served  == {"serving"}
Proxied == {"dialing", "proxying"}

GaugesCount ==
  \A n \in Nodes : /\ gaugeClients[n] = Cardinality(Handlers(n, Served))
                   /\ gaugeProxyClients[n] = Cardinality(Handlers(n, Proxied))

Weight(a, A) == IF a \in A THEN 1 ELSE 0

LEMMA HandlersFinite ==
  ASSUME NEW n, NEW A
  PROVE  IsFiniteSet(Handlers(n, A)) /\ Cardinality(Handlers(n, A)) \in Nat
<1>1. IsFiniteSet(Clients) /\ IsFiniteSet(1 .. MaxHops) BY ClusterConstants, FS_Interval
<1>2. IsFiniteSet(Clients \X (1 .. MaxHops)) BY <1>1, FS_Product
<1>3. Handlers(n, A) \in SUBSET (Clients \X (1 .. MaxHops)) BY DEF Handlers
<1>4. IsFiniteSet(Handlers(n, A)) BY <1>2, <1>3, FS_Subset
<1> QED BY <1>4, FS_CardinalityType

\* If only handler i of c changes, it alone is counted in or out.
LEMMA HandlersStep ==
  ASSUME NEW c \in Clients, NEW i \in 1 .. MaxHops, NEW n, NEW A,
         \A d \in Clients, j \in 1 .. MaxHops :
           d # c \/ j # i => (Handles(d, j, n, A)' <=> Handles(d, j, n, A))
  PROVE  Cardinality(Handlers(n, A)') =
           Cardinality(Handlers(n, A)) + (IF Handles(c, i, n, A)' THEN 1 ELSE 0)
                                       - (IF Handles(c, i, n, A) THEN 1 ELSE 0)
<1> DEFINE H == Handlers(n, A)
           x == <<c, i>>
<1>1. IsFiniteSet(H) /\ Cardinality(H) \in Nat BY HandlersFinite
<1>2. \A p \in Clients \X (1 .. MaxHops) : p # x => (p \in H' <=> p \in H)
  BY DEF Handlers
<1>3. (x \in H <=> Handles(c, i, n, A)) /\ (x \in H' <=> Handles(c, i, n, A)')
  BY DEF Handlers
<1>4. H \subseteq Clients \X (1 .. MaxHops) /\ H' \subseteq Clients \X (1 .. MaxHops)
      /\ x \in Clients \X (1 .. MaxHops)
  BY DEF Handlers
<1> HIDE DEF H, x
<1>5. CASE Handles(c, i, n, A)'
  <2>1. H' = H \cup {x} BY <1>2, <1>3, <1>4, <1>5
  <2>2. Cardinality(H \cup {x}) = IF x \in H THEN Cardinality(H) ELSE Cardinality(H) + 1
    BY <1>1, FS_AddElement
  <2> QED BY <1>1, <1>3, <1>5, <2>1, <2>2 DEF H
<1>6. CASE ~Handles(c, i, n, A)'
  <2>1. H' = H \ {x} BY <1>2, <1>3, <1>4, <1>6
  <2>2. Cardinality(H \ {x}) = IF x \in H THEN Cardinality(H) - 1 ELSE Cardinality(H)
    BY <1>1, FS_RemoveElement
  <2> QED BY <1>1, <1>3, <1>6, <2>1, <2>2 DEF H
<1> QED BY <1>5, <1>6

\* A step of one handler, and perhaps a new handler that looks the session up.
LEMMA CountMoves ==
  ASSUME ChainsType, ChainsType', NEW c \in Clients, NEW i \in 1 .. Len(hops[c]),
         NEW r \in HopRecords, r.node = hops[c][i].node,
         \/ Moves(c, i, r)
         \/ \E m \in Nodes : Extends(c, i, m) /\ r = [hops[c][i] EXCEPT !.at = "dialing"],
         NEW A, "lookup" \notin A, NEW n \in Nodes
  PROVE  Cardinality(Handlers(n, A)') =
           Cardinality(Handlers(n, A))
             + IF n = hops[c][i].node THEN Weight(r.at, A) - Weight(hops[c][i].at, A) ELSE 0
<1>1. /\ \A d \in Clients : Len(hops[d]) \in 0 .. MaxHops
      /\ i \in 1 .. MaxHops
  BY ChainType
<1>2. hops'[c][i] = r /\ i <= Len(hops'[c])
  BY <1>1 DEF Moves, Extends
<1>3. ASSUME NEW d \in Clients, NEW j \in 1 .. MaxHops, d # c \/ j # i
      PROVE  Handles(d, j, n, A)' <=> Handles(d, j, n, A)
  <2>1. CASE Moves(c, i, r) BY <1>1, <1>3, <2>1 DEF Moves, Handles, NodeOf
  <2>2. ASSUME NEW m \in Nodes, Extends(c, i, m)
        PROVE  Handles(d, j, n, A)' <=> Handles(d, j, n, A)
    <3>1. CASE d # c BY <2>2, <3>1 DEF Extends, Handles, NodeOf
    <3>2. CASE d = c /\ j <= Len(hops[c])
      BY <1>1, <1>3, <2>2, <3>2 DEF Extends, Handles, NodeOf
    <3>3. CASE d = c /\ j > Len(hops[c])
      <4>1. ~Handles(d, j, n, A) BY <1>1, <3>3 DEF Handles
      <4>2. CASE j = Len(hops[c]) + 1
        <5>1. hops'[d][j].at = "lookup" BY <2>2, <3>3, <4>2 DEF Extends, Hop
        <5> QED BY <4>1, <5>1 DEF Handles
      <4>3. CASE j > Len(hops[c]) + 1
        <5>1. ~(j <= Len(hops'[c])) BY <1>1, <2>2, <4>3 DEF Extends
        <5> QED BY <3>3, <4>1, <5>1 DEF Handles
      <4> QED BY <1>1, <3>3, <4>2, <4>3
    <3> QED BY <1>1, <3>1, <3>2, <3>3
  <2> QED BY <2>1, <2>2
<1>4. Handles(c, i, n, A) <=> n = hops[c][i].node /\ hops[c][i].at \in A
  BY <1>1 DEF Handles, NodeOf
<1>5. Handles(c, i, n, A)' <=> n = hops[c][i].node /\ r.at \in A
  BY <1>2 DEF Handles, NodeOf
<1>6. Cardinality(Handlers(n, A)') =
        Cardinality(Handlers(n, A)) + (IF Handles(c, i, n, A)' THEN 1 ELSE 0)
                                    - (IF Handles(c, i, n, A) THEN 1 ELSE 0)
  BY <1>1, <1>3, HandlersStep
<1>7. Cardinality(Handlers(n, A)) \in Nat BY HandlersFinite
<1> QED BY <1>4, <1>5, <1>6, <1>7 DEF Weight

\* What happens to the gauges when a handler on n goes from state a to state b.
Recounts(n, a, b) ==
  \A m \in Nodes :
    /\ gaugeClients'[m] = gaugeClients[m] +
         IF m = n THEN Weight(b, Served) - Weight(a, Served) ELSE 0
    /\ gaugeProxyClients'[m] = gaugeProxyClients[m] +
         IF m = n THEN Weight(b, Proxied) - Weight(a, Proxied) ELSE 0

LEMMA GaugesMove ==
  ASSUME ChainsType, ChainsType', GaugesCount, NEW c \in Clients, NEW i \in 1 .. Len(hops[c]),
         NEW r \in HopRecords, r.node = hops[c][i].node,
         \/ Moves(c, i, r)
         \/ \E m \in Nodes : Extends(c, i, m) /\ r = [hops[c][i] EXCEPT !.at = "dialing"],
         Recounts(hops[c][i].node, hops[c][i].at, r.at)
  PROVE  GaugesCount'
<1> SUFFICES ASSUME NEW n \in Nodes
             PROVE  /\ gaugeClients'[n] = Cardinality(Handlers(n, Served)')
                    /\ gaugeProxyClients'[n] = Cardinality(Handlers(n, Proxied)')
  BY DEF GaugesCount
<1>1. "lookup" \notin Served /\ "lookup" \notin Proxied BY DEF Served, Proxied
<1>2. Cardinality(Handlers(n, Served)') = Cardinality(Handlers(n, Served)) +
        IF n = hops[c][i].node THEN Weight(r.at, Served) - Weight(hops[c][i].at, Served) ELSE 0
  BY <1>1, CountMoves
<1>3. Cardinality(Handlers(n, Proxied)') = Cardinality(Handlers(n, Proxied)) +
        IF n = hops[c][i].node THEN Weight(r.at, Proxied) - Weight(hops[c][i].at, Proxied) ELSE 0
  BY <1>1, CountMoves
<1> QED BY <1>2, <1>3 DEF GaugesCount, Recounts

\* A handler is counted from the moment the code counts it to the moment it is
\* uncounted, on every path out of it.
LEMMA HandlerGauges ==
  ASSUME BasicType, ChainsType', GaugesCount, NEW c \in Clients, NEW i \in DOMAIN hops[c],
         \/ Lookup(c, i) \/ LookupFails(c, i)
         \/ StartProxy(c, i) \/ DialFails(c, i) \/ ProxyUpgrades(c, i) \/ ProxyEnds(c, i)
         \/ Serve(c, i) \/ ServeEnds(c, i) \/ ClosePeer(c, i)
         \/ Unregister(c, i) \/ UnregisterFails(c, i)
  PROVE  GaugesCount'
<1>1. ChainsType /\ gaugeClients \in [Nodes -> Int] /\ gaugeProxyClients \in [Nodes -> Int]
  BY DEF BasicType
<1> DEFINE n == hops[c][i].node
           w(a) == [hops[c][i] EXCEPT !.at = a]
<1>2. i \in 1 .. Len(hops[c]) /\ hops[c][i] \in HopRecords /\ n \in Nodes /\ NodeOf(c, i) = n
  BY <1>1, ChainType DEF NodeOf
<1>3. ASSUME NEW a \in HopStates
      PROVE  w(a) \in HopRecords /\ w(a).at = a /\ w(a).node = n
  BY <1>2 DEF HopRecords
<1>4. ASSUME NEW a \in HopStates, Goto(c, i, a)
      PROVE  Moves(c, i, w(a))
  BY <1>1, <1>2, <1>4, GotoMoves
<1>5. ASSUME NEW a \in HopStates, Goto(c, i, a), Recounts(n, hops[c][i].at, a)
      PROVE  GaugesCount'
  <2>1. Moves(c, i, w(a)) BY <1>4, <1>5
  <2>2. w(a) \in HopRecords /\ w(a).at = a /\ w(a).node = n BY <1>3
  <2> QED BY <1>1, <1>2, <1>5, <2>1, <2>2, GaugesMove
<1>6. CASE Lookup(c, i)
  <2>1. hops[c][i].at = "lookup" /\ UNCHANGED gauges BY <1>6 DEF Lookup, At
  <2>2. CASE Goto(c, i, "upgraded")
    <3>1. Recounts(n, hops[c][i].at, "upgraded")
      BY <1>1, <2>1 DEF Recounts, Weight, Served, Proxied, gauges
    <3> QED BY <1>5, <2>2, <3>1 DEF HopStates, Open
  <2>3. CASE ~Goto(c, i, "upgraded")
    <3>1. owner'[Sid[c]] \in Nodes
      BY <1>2, <1>6, GetOrCreateType DEF Lookup, BasicType
    <3> DEFINE r == [hops[c][i] EXCEPT !.at = "redirected", !.to = owner'[Sid[c]]]
    <3>2. Moves(c, i, r)
      BY <1>1, <1>2, <1>6, <2>3, <3>1, RedirectMoves DEF Lookup
    <3>3. r \in HopRecords /\ r.at = "redirected" /\ r.node = n
      BY <1>2, <3>1 DEF HopRecords, HopStates
    <3>4. Recounts(n, hops[c][i].at, "redirected")
      BY <1>1, <2>1 DEF Recounts, Weight, Served, Proxied, gauges
    <3> HIDE DEF r
    <3> QED BY <1>1, <1>2, <3>2, <3>3, <3>4, GaugesMove
  <2> QED BY <2>2, <2>3
<1>7. CASE LookupFails(c, i)
  <2>1. hops[c][i].at = "lookup" /\ UNCHANGED gauges /\ Goto(c, i, "done")
    BY <1>7 DEF LookupFails, At
  <2>2. Recounts(n, hops[c][i].at, "done")
    BY <1>1, <2>1 DEF Recounts, Weight, Served, Proxied, gauges
  <2> QED BY <1>5, <2>1, <2>2 DEF HopStates
<1>8. CASE StartProxy(c, i)
  <2>1. /\ hops[c][i].at = "redirected" /\ UNCHANGED gaugeClients
        /\ gaugeProxyClients' = [gaugeProxyClients EXCEPT ![n] = @ + 1]
    BY <1>2, <1>8 DEF StartProxy, At, CountProxied
  <2>2. Recounts(n, hops[c][i].at, "dialing")
    BY <1>1, <1>2, <2>1 DEF Recounts, Weight, Served, Proxied
  <2>3. CASE ~Goto(c, i, "dialing")
    <3>1. \E m \in Nodes : Extends(c, i, m)
      BY <1>1, <1>2, <1>8, <2>3, ProxyExtends DEF StartProxy, LiveAt
    <3>2. w("dialing") \in HopRecords /\ w("dialing").at = "dialing" /\ w("dialing").node = n
      BY <1>3 DEF HopStates
    <3> QED BY <1>1, <1>2, <2>2, <3>1, <3>2, GaugesMove
  <2> QED BY <1>5, <2>2, <2>3 DEF HopStates
<1>9. CASE DialFails(c, i) \/ ProxyEnds(c, i)
  <2>1. /\ hops[c][i].at \in {"dialing", "proxying"} /\ UNCHANGED gaugeClients
        /\ gaugeProxyClients' = [gaugeProxyClients EXCEPT ![n] = @ - 1]
        /\ Goto(c, i, "done")
    BY <1>2, <1>9 DEF DialFails, ProxyEnds, At, UncountRefused
  <2>2. Recounts(n, hops[c][i].at, "done")
    BY <1>1, <1>2, <2>1 DEF Recounts, Weight, Served, Proxied
  <2> QED BY <1>5, <2>1, <2>2 DEF HopStates
<1>10. CASE ProxyUpgrades(c, i)
  <2>1. hops[c][i].at = "dialing" /\ UNCHANGED gauges /\ Goto(c, i, "proxying")
    BY <1>10 DEF ProxyUpgrades, At
  <2>2. Recounts(n, hops[c][i].at, "proxying")
    BY <1>1, <2>1 DEF Recounts, Weight, Served, Proxied, gauges
  <2> QED BY <1>5, <2>1, <2>2 DEF HopStates, Open
<1>11. CASE Serve(c, i)
  <2>1. /\ hops[c][i].at = "upgraded" /\ UNCHANGED gaugeProxyClients
        /\ gaugeClients' = [gaugeClients EXCEPT ![n] = @ + 1] /\ Goto(c, i, "serving")
    BY <1>2, <1>11 DEF Serve, At
  <2>2. Recounts(n, hops[c][i].at, "serving")
    BY <1>1, <1>2, <2>1 DEF Recounts, Weight, Served, Proxied
  <2> QED BY <1>5, <2>1, <2>2 DEF HopStates, Open
<1>12. CASE ServeEnds(c, i)
  <2>1. /\ hops[c][i].at = "serving" /\ UNCHANGED gaugeProxyClients
        /\ gaugeClients' = [gaugeClients EXCEPT ![n] = @ - 1] /\ Goto(c, i, "closePeer")
    BY <1>2, <1>12 DEF ServeEnds, At
  <2>2. Recounts(n, hops[c][i].at, "closePeer")
    BY <1>1, <1>2, <2>1 DEF Recounts, Weight, Served, Proxied
  <2> QED BY <1>5, <2>1, <2>2 DEF HopStates
<1>13. CASE ClosePeer(c, i) \/ Unregister(c, i) \/ UnregisterFails(c, i)
  <2>1. /\ hops[c][i].at \in {"closePeer", "unregister"} /\ UNCHANGED gauges
        /\ Goto(c, i, "unregister") \/ Goto(c, i, "done")
    BY <1>13 DEF ClosePeer, Unregister, UnregisterFails, At
  <2>2. \A a \in {"unregister", "done"} : Recounts(n, hops[c][i].at, a)
    BY <1>1, <2>1 DEF Recounts, Weight, Served, Proxied, gauges
  <2> QED BY <1>5, <2>1, <2>2 DEF HopStates
<1> QED BY <1>6, <1>7, <1>8, <1>9, <1>10, <1>11, <1>12, <1>13

LEMMA GaugesInvariant == Spec => []GaugesCount
<1>1. Init => GaugesCount
  <2> SUFFICES ASSUME Init PROVE GaugesCount
    OBVIOUS
  <2>1. \A d \in Clients : Len(hops[d]) = 0 BY EmptySeq DEF Init
  <2>2. ASSUME NEW n \in Nodes, NEW A PROVE Handlers(n, A) = {}
    <3>1. \A d \in Clients, j \in 1 .. MaxHops : ~Handles(d, j, n, A)
      BY <2>1 DEF Handles
    <3> QED BY <3>1 DEF Handlers
  <2>3. \A n \in Nodes : gaugeClients[n] = 0 /\ gaugeProxyClients[n] = 0 BY DEF Init
  <2> QED BY <2>2, <2>3, FS_EmptySet DEF GaugesCount
<1>2. BasicType /\ BasicType' /\ GaugesCount /\ [Next]_vars => GaugesCount'
  <2> SUFFICES ASSUME BasicType, BasicType', GaugesCount, [Next]_vars PROVE GaugesCount'
    OBVIOUS
  <2>1. ChainsType /\ ChainsType' BY DEF BasicType
  <2>2. CASE UNCHANGED <<hops, gauges>>
    <3>1. ASSUME NEW n \in Nodes, NEW A PROVE Handlers(n, A)' = Handlers(n, A)
      BY <2>2 DEF Handlers, Handles, NodeOf
    <3> QED BY <2>2, <3>1 DEF GaugesCount, gauges
  <2>3. ASSUME NEW c \in Clients, Dial(c) PROVE GaugesCount'
    <3>1. PICK m \in Nodes : Extends(c, 1, m) BY <2>1, <2>3, DialExtends DEF Dial
    <3>2. Len(hops[c]) = 0 BY <2>1, <2>3, ChainType DEF Dial
    <3>3. ASSUME NEW n \in Nodes, NEW A, "lookup" \notin A PROVE Handlers(n, A)' = Handlers(n, A)
      <4>1. ASSUME NEW d \in Clients, NEW j \in 1 .. MaxHops
            PROVE  Handles(d, j, n, A)' <=> Handles(d, j, n, A)
        BY <3>1, <3>2, <3>3 DEF Extends, Handles, NodeOf, Hop
      <4> QED BY <4>1 DEF Handlers
    <3>4. UNCHANGED gauges BY <2>3 DEF Dial
    <3> QED BY <3>3, <3>4 DEF GaugesCount, gauges, Served, Proxied
  <2>4. ASSUME NEW c \in Clients, Handler(c) PROVE GaugesCount'
    BY <2>1, <2>4, HandlerGauges DEF Handler
  <2>5. ASSUME NEW m \in Nodes, Crash(m) \/ Exit(m) PROVE GaugesCount'
    <3>1. PICK how : Stop(m, how) BY <2>5 DEF Crash, Exit
    <3>2. Ends(m) BY <2>1, <3>1, StopEnds
    <3>3. ASSUME NEW n \in Nodes, NEW A, "done" \notin A
          PROVE  Handlers(n, A)' = IF n = m THEN {} ELSE Handlers(n, A)
      <4>1. ASSUME NEW d \in Clients, NEW j \in 1 .. MaxHops
            PROVE  Handles(d, j, n, A)' <=> n # m /\ Handles(d, j, n, A)
        <5>1. Len(hops'[d]) = Len(hops[d]) /\ Len(hops[d]) \in Nat
          BY <2>1, <3>2, ChainType DEF Ends
        <5>2. CASE j <= Len(hops[d])
          <6>1. j \in 1 .. Len(hops[d]) /\ hops[d][j] \in HopRecords BY <2>1, <5>1, <5>2, ChainType
          <6>2. /\ hops'[d][j].node = hops[d][j].node
                /\ hops'[d][j].at = IF hops[d][j].node = m THEN "done" ELSE hops[d][j].at
            BY <3>2, <6>1 DEF Ends, HopRecords
          <6> QED BY <3>3, <5>1, <5>2, <6>2 DEF Handles, NodeOf
        <5>3. CASE ~(j <= Len(hops[d])) BY <5>1, <5>3 DEF Handles
        <5> QED BY <5>2, <5>3
      <4> QED BY <4>1 DEF Handlers
    <3>4. /\ gaugeClients' = [gaugeClients EXCEPT ![m] = 0]
          /\ gaugeProxyClients' = [gaugeProxyClients EXCEPT ![m] = 0]
      BY <3>1 DEF Stop
    <3>5. "done" \notin Served /\ "done" \notin Proxied BY DEF Served, Proxied
    <3>6. ASSUME NEW n \in Nodes
          PROVE  /\ gaugeClients'[n] = Cardinality(Handlers(n, Served)')
                 /\ gaugeProxyClients'[n] = Cardinality(Handlers(n, Proxied)')
      BY <3>3, <3>4, <3>5, FS_EmptySet DEF GaugesCount, BasicType
    <3> QED BY <3>6 DEF GaugesCount
  <2>6. ASSUME NEW c \in Clients, Leave(c) \/ Join(c) \/ JoinSession(c) PROVE GaugesCount'
    BY <2>2, <2>6 DEF Leave, Join, JoinSession, hopVars
  <2>7. ASSUME NEW n \in Nodes,
               Start(n) \/ GotSignal(n) \/ CountClients(n) \/ CountProxyClients(n)
        PROVE  GaugesCount'
    BY <2>2, <2>7 DEF Start, GotSignal, CountClients, CountProxyClients, hopVars
  <2>8. ASSUME NEW s \in Sids, KeyExpires(s) PROVE GaugesCount'
    BY <2>2, <2>8 DEF KeyExpires, hopVars
  <2>9. CASE UNCHANGED vars
    BY <2>2, <2>9 DEF vars, hopVars
  <2> QED BY <2>3, <2>4, <2>5, <2>6, <2>7, <2>8, <2>9 DEF Next, MainLoop
<1> QED BY <1>1, <1>2, BasicTypeInvariant, PTL DEF Spec

(***************************************************************************)
(* Every step of the handlers, the joins and the processes keeps the state *)
(* of the cluster well typed.  In particular no gauge ever falls below     *)
(* zero: prometheusGaugeClients and prometheusGaugeProxyClients are the    *)
(* numbers of handlers that serve and proxy, on every way out of them.     *)
(***************************************************************************)
THEOREM TypeCorrect == Spec => []TypeOK
<1>1. BasicType /\ GaugesCount => TypeOK
  <2> SUFFICES ASSUME BasicType, GaugesCount PROVE TypeOK
    OBVIOUS
  <2>1. gaugeClients \in [Nodes -> Nat] /\ gaugeProxyClients \in [Nodes -> Nat]
    BY HandlersFinite DEF BasicType, GaugesCount
  <2> QED BY <2>1
          DEF BasicType, TypeOK, DirType, ChainsType, JoinType, SessionType, ProcessType
<1> QED BY <1>1, BasicTypeInvariant, GaugesInvariant, PTL

-------------------------------------------------------------------------------
\* The drain

\* A handler stays on its process, and one that proxies or has ended does nothing
\* else but end.
Settles ==
  \A d \in Clients : \A j \in 1 .. Len(hops[d]) :
    /\ j \in 1 .. Len(hops'[d])
    /\ hops'[d][j].node = hops[d][j].node
    /\ hops[d][j].at = "done" => hops'[d][j].at = "done"
    /\ hops[d][j].at = "proxying" => hops'[d][j].at \in {"proxying", "done"}

LEMMA MovesSettle ==
  ASSUME ChainsType, NEW c \in Clients, NEW i \in 1 .. Len(hops[c]), NEW r,
         r.node = hops[c][i].node, Moves(c, i, r),
         hops[c][i].at \notin {"done", "proxying"} \/ r.at = "done"
  PROVE  Settles
<1>1. \A d \in Clients : Len(hops[d]) \in Nat BY ChainType
<1> QED BY <1>1 DEF Settles, Moves

LEMMA ExtendsSettles ==
  ASSUME ChainsType, NEW c \in Clients, NEW i, NEW n, Extends(c, i, n),
         i \in 1 .. Len(hops[c]) => hops[c][i].at \notin {"done", "proxying"}
  PROVE  Settles
<1> SUFFICES ASSUME NEW d \in Clients, NEW j \in 1 .. Len(hops[d])
             PROVE  /\ j \in 1 .. Len(hops'[d])
                    /\ hops'[d][j].node = hops[d][j].node
                    /\ hops[d][j].at = "done" => hops'[d][j].at = "done"
                    /\ hops[d][j].at = "proxying" => hops'[d][j].at \in {"proxying", "done"}
  BY DEF Settles
<1>1. Len(hops[d]) \in Nat /\ hops[d][j] \in HopRecords BY ChainType
<1>2. CASE d # c BY <1>2 DEF Extends
<1>3. CASE d = c /\ j # i BY <1>1, <1>3 DEF Extends
<1>4. CASE d = c /\ j = i
  <2>1. hops'[d][j].node = hops[d][j].node BY <1>1, <1>4 DEF Extends, HopRecords
  <2> QED BY <1>1, <1>4, <2>1 DEF Extends
<1> QED BY <1>2, <1>3, <1>4

LEMMA StepSettles ==
  ASSUME BasicType, [Next]_vars
  PROVE  Settles
<1>1. ChainsType BY DEF BasicType
<1>2. CASE UNCHANGED hops BY <1>2 DEF Settles
<1>3. ASSUME NEW c \in Clients, Dial(c) PROVE Settles
  <2>1. PICK m \in Nodes : Extends(c, 1, m) BY <1>1, <1>3, DialExtends DEF Dial
  <2>2. Len(hops[c]) = 0 BY <1>1, <1>3, ChainType DEF Dial
  <2> QED BY <1>1, <2>1, <2>2, ExtendsSettles
<1>4. ASSUME NEW c \in Clients, Handler(c) PROVE Settles
  <2>1. PICK i \in 1 .. Len(hops[c]), r \in HopRecords :
          /\ r.node = hops[c][i].node
          /\ <<hops[c][i].at, r.at>> \in Transitions
          /\ \/ Moves(c, i, r)
             \/ hops[c][i].at = "redirected" /\ \E m \in Nodes : Extends(c, i, m)
    BY <1>4, HandlerMoves DEF Handler, LiveAt
  <2>2. hops[c][i].at \notin {"done", "proxying"} \/ r.at = "done" BY <2>1 DEF Transitions
  <2>3. CASE Moves(c, i, r) BY <1>1, <2>1, <2>2, <2>3, MovesSettle
  <2>4. CASE hops[c][i].at = "redirected" /\ \E m \in Nodes : Extends(c, i, m)
    BY <1>1, <2>4, ExtendsSettles
  <2> QED BY <2>1, <2>3, <2>4
<1>5. ASSUME NEW n \in Nodes, Crash(n) \/ Exit(n) PROVE Settles
  <2>1. Ends(n) BY <1>1, <1>5, StopEnds DEF Crash, Exit
  <2>2. ASSUME NEW d \in Clients, NEW j \in 1 .. Len(hops[d])
        PROVE  /\ j \in 1 .. Len(hops'[d])
               /\ hops'[d][j].node = hops[d][j].node
               /\ hops'[d][j].at \in {hops[d][j].at, "done"}
    <3>1. hops[d][j] \in HopRecords BY <1>1, ChainType
    <3> QED BY <2>1, <3>1 DEF Ends, HopRecords
  <2> QED BY <2>2 DEF Settles
<1>6. ASSUME NEW c \in Clients, Leave(c) \/ Join(c) \/ JoinSession(c) PROVE Settles
  BY <1>2, <1>6 DEF Leave, Join, JoinSession, hopVars
<1>7. ASSUME NEW n \in Nodes,
             Start(n) \/ GotSignal(n) \/ CountClients(n) \/ CountProxyClients(n)
      PROVE  Settles
  BY <1>2, <1>7 DEF Start, GotSignal, CountClients, CountProxyClients, hopVars
<1>8. ASSUME NEW s \in Sids, KeyExpires(s) PROVE Settles
  BY <1>2, <1>8 DEF KeyExpires, hopVars
<1>9. CASE UNCHANGED vars
  BY <1>2, <1>9 DEF vars, hopVars
<1> QED BY <1>3, <1>4, <1>5, <1>6, <1>7, <1>8, <1>9 DEF Next, MainLoop

\* The chain of c reaches a handler on n and no handler up to there waits or serves;
\* those on n are in one of the states A.
Passes(c, n, A) ==
  \E i \in 1 .. Len(hops[c]) :
    /\ hops[c][i].node = n
    /\ \A j \in 1 .. i : /\ hops[c][j].at \in {"proxying", "done"}
                         /\ hops[c][j].node = n => hops[c][j].at \in A

\* Since n began to count, whoever it served was one it proxied, and has left or
\* is still in the chain; since it counted the proxied, they have ended.
DrainInv ==
  \A n \in Nodes : \A c \in present[n] :
    /\ process[n] = "counting" => c \in left \/ Passes(c, n, {"proxying", "done"})
    /\ process[n] = "exiting" => c \in left \/ Passes(c, n, {"done"})

LEMMA StepPasses ==
  ASSUME ChainsType, Settles, NEW c \in Clients, NEW n, NEW A \in {{"done"}, {"proxying", "done"}},
         Passes(c, n, A)
  PROVE  Passes(c, n, A)'
<1>1. PICK i \in 1 .. Len(hops[c]) :
        /\ hops[c][i].node = n
        /\ \A j \in 1 .. i : /\ hops[c][j].at \in {"proxying", "done"}
                             /\ hops[c][j].node = n => hops[c][j].at \in A
  BY DEF Passes
<1>2. i \in 1 .. Len(hops'[c]) /\ hops'[c][i].node = n BY <1>1 DEF Settles
<1>3. ASSUME NEW j \in 1 .. i
      PROVE  /\ hops'[c][j].at \in {"proxying", "done"}
             /\ hops'[c][j].node = n => hops'[c][j].at \in A
  <2>1. j \in 1 .. Len(hops[c])
    <3>1. Len(hops[c]) \in Nat BY ChainType
    <3> QED BY <3>1
  <2>2. /\ hops'[c][j].node = hops[c][j].node
        /\ hops[c][j].at = "done" => hops'[c][j].at = "done"
        /\ hops[c][j].at = "proxying" => hops'[c][j].at \in {"proxying", "done"}
    BY <2>1 DEF Settles
  <2> QED BY <1>1, <2>2
<1> QED BY <1>2, <1>3 DEF Passes

LEMMA NobodyCounted ==
  ASSUME ChainsType, NEW n \in Nodes, NEW A, Cardinality(Handlers(n, A)) = 0,
         NEW c \in Clients, NEW i \in 1 .. Len(hops[c]), hops[c][i].node = n
  PROVE  hops[c][i].at \notin A
<1>1. Handlers(n, A) = {} BY HandlersFinite, FS_EmptySet
<1>2. i \in 1 .. MaxHops /\ i <= Len(hops[c]) BY ChainType
<1>3. <<c, i>> \notin Handlers(n, A) /\ <<c, i>> \in Clients \X (1 .. MaxHops)
  BY <1>1, <1>2
<1>4. ~Handles(c, i, n, A) BY <1>3 DEF Handlers
<1> QED BY <1>2, <1>4 DEF Handles, NodeOf

LEMMA DrainInvariant == Spec => []DrainInv
<1>1. Init => DrainInv BY DEF Init, DrainInv
<1>2. BasicType /\ GaugesCount /\ DrainInv /\ [Next]_vars => DrainInv'
  <2> SUFFICES ASSUME BasicType, GaugesCount, DrainInv, [Next]_vars,
                      NEW n \in Nodes, NEW c \in present'[n]
               PROVE  /\ process'[n] = "counting"
                           => c \in left' \/ Passes(c, n, {"proxying", "done"})'
                      /\ process'[n] = "exiting" => c \in left' \/ Passes(c, n, {"done"})'
    BY DEF DrainInv
  <2>1. ChainsType /\ Settles BY StepSettles DEF BasicType
  <2>2. CASE CountClients(n)
    <3>1. /\ process'[n] = "counting" /\ gaugeClients[n] = 0 /\ UNCHANGED hops
          /\ c \in Clients /\ Uses(c, n)
      BY <2>2 DEF CountClients, BasicType, ProcessType, hopVars
    <3>2. PICK i \in DOMAIN hops[c] :
            /\ NodeOf(c, i) = n /\ hops[c][i].at \in {"serving", "proxying"}
            /\ \A j \in 1 .. i - 1 : At(c, j, "proxying")
      BY <3>1 DEF Uses
    <3>3. i \in 1 .. Len(hops[c]) /\ Len(hops[c]) \in Nat BY <2>1, <3>1, ChainType
    <3>4. hops[c][i].at \notin Served
      BY <2>1, <3>1, <3>2, <3>3, NobodyCounted DEF GaugesCount, NodeOf
    <3>5. \A j \in 1 .. i : hops[c][j].at = "proxying"
      BY <3>2, <3>3, <3>4 DEF Served, At
    <3>6. Passes(c, n, {"proxying", "done"}) BY <3>2, <3>3, <3>5 DEF Passes, NodeOf
    <3>7. Passes(c, n, {"proxying", "done"})' BY <2>1, <3>1, <3>6, StepPasses
    <3> QED BY <3>1, <3>7
  <2>3. CASE CountProxyClients(n)
    <3>1. /\ process[n] = "counting" /\ c \in present[n] /\ c \in Clients /\ UNCHANGED <<hops, left>>
          /\ process'[n] = IF gaugeProxyClients[n] = 0 THEN "exiting" ELSE "draining"
      BY <2>3 DEF CountProxyClients, BasicType, ProcessType, hopVars
    <3>2. CASE gaugeProxyClients[n] = 0 /\ c \notin left
      <4>1. PICK i \in 1 .. Len(hops[c]) :
              /\ hops[c][i].node = n
              /\ \A j \in 1 .. i : hops[c][j].at \in {"proxying", "done"}
        <5>1. Passes(c, n, {"proxying", "done"}) BY <3>1, <3>2 DEF DrainInv
        <5> QED BY <5>1 DEF Passes
      <4>2. ASSUME NEW j \in 1 .. i, hops[c][j].node = n PROVE hops[c][j].at = "done"
        <5>1. j \in 1 .. Len(hops[c])
          <6>1. Len(hops[c]) \in Nat BY <2>1, <3>1, ChainType
          <6> QED BY <6>1
        <5>2. Cardinality(Handlers(n, Proxied)) = 0 BY <3>2 DEF GaugesCount
        <5>3. hops[c][j].at \notin Proxied BY <2>1, <3>1, <4>2, <5>1, <5>2, NobodyCounted
        <5> QED BY <4>1, <5>3 DEF Proxied
      <4>3. Passes(c, n, {"done"}) BY <4>1, <4>2 DEF Passes
      <4>4. Passes(c, n, {"done"})' BY <2>1, <3>1, <4>3, StepPasses
      <4> QED BY <3>1, <3>2, <4>4
    <3> QED BY <3>1, <3>2
  <2>4. CASE /\ process'[n] \in {"counting", "exiting"} => process'[n] = process[n]
             /\ present'[n] = present[n]
             /\ left \subseteq left'
    <3>1. c \in present[n] /\ c \in Clients BY <2>4 DEF BasicType, ProcessType
    <3>2. Passes(c, n, {"proxying", "done"}) => Passes(c, n, {"proxying", "done"})'
      BY <2>1, <3>1, StepPasses
    <3>3. Passes(c, n, {"done"}) => Passes(c, n, {"done"})'
      BY <2>1, <3>1, StepPasses
    <3> QED BY <2>4, <3>1, <3>2, <3>3 DEF DrainInv
  <2>5. ASSUME NEW d \in Clients, Dial(d) \/ Leave(d) \/ Join(d) \/ JoinSession(d)
        PROVE  UNCHANGED <<process, present>> /\ left \subseteq left'
    BY <2>5 DEF Dial, Leave, Join, JoinSession, hopVars
  <2>6. ASSUME NEW d \in Clients, Handler(d)
        PROVE  UNCHANGED <<process, present, left>>
    BY <2>6 DEF Handler, Lookup, LookupFails, StartProxy, DialFails, ProxyUpgrades, ProxyEnds, Serve,
                ServeEnds, ClosePeer, Unregister, UnregisterFails
  <2>7. ASSUME NEW m \in Nodes, Crash(m) \/ Exit(m)
        PROVE  /\ process'[n] \in {"counting", "exiting"} => process'[n] = process[n]
               /\ present'[n] = present[n]
               /\ left \subseteq left'
    <3>1. PICK how \in {"crashed", "idleExit"} : Stop(m, how) BY <2>7 DEF Crash, Exit
    <3>2. /\ process' = [process EXCEPT ![m] = how] /\ present' = [present EXCEPT ![m] = {}]
          /\ left' = left
      BY <3>1 DEF Stop
    <3>3. m # n BY <3>2 DEF BasicType, ProcessType
    <3> QED BY <3>2, <3>3 DEF BasicType, ProcessType
  <2>8. ASSUME NEW m \in Nodes,
               \/ Start(m) \/ GotSignal(m)
               \/ m # n /\ (CountClients(m) \/ CountProxyClients(m))
        PROVE  /\ process'[n] \in {"counting", "exiting"} => process'[n] = process[n]
               /\ present'[n] = present[n]
               /\ left \subseteq left'
    BY <2>8 DEF Start, GotSignal, CountClients, CountProxyClients, BasicType, ProcessType, hopVars
  <2>9. ASSUME NEW s \in Sids, KeyExpires(s) PROVE UNCHANGED <<process, present, left>>
    BY <2>9 DEF KeyExpires, hopVars
  <2>10. CASE UNCHANGED vars
    BY <2>4, <2>10 DEF vars, hopVars
  <2> QED BY <2>2, <2>3, <2>4, <2>5, <2>6, <2>7, <2>8, <2>9, <2>10 DEF Next, MainLoop
<1> QED BY <1>1, <1>2, BasicTypeInvariant, GaugesInvariant, PTL DEF Spec

(***************************************************************************)
(* cmd/server.go: the drain reads the two gauges one after the other, with *)
(* handlers running in between, and still no client that the process       *)
(* served or proxied when it began to count is there when it exits.        *)
(***************************************************************************)
THEOREM DrainIsSafe == Spec => []DrainCutsOffNobody
<1>1. BasicType /\ DrainInv => DrainCutsOffNobody
  <2> SUFFICES ASSUME BasicType, DrainInv, NEW n \in Nodes, process[n] = "exiting",
                      NEW c \in present[n], Uses(c, n)
               PROVE  FALSE
    BY DEF DrainCutsOffNobody
  <2>1. ChainsType /\ c \in Clients BY DEF BasicType, ProcessType
  <2>2. c \notin left BY DEF Uses
  <2>3. PICK i \in 1 .. Len(hops[c]) :
          /\ hops[c][i].node = n
          /\ \A j \in 1 .. i : /\ hops[c][j].at \in {"proxying", "done"}
                               /\ hops[c][j].node = n => hops[c][j].at \in {"done"}
    BY <2>2 DEF DrainInv, Passes
  <2>4. PICK k \in 1 .. Len(hops[c]) :
          /\ hops[c][k].node = n /\ hops[c][k].at \in {"serving", "proxying"}
          /\ \A j \in 1 .. k - 1 : hops[c][j].at = "proxying"
    BY <2>1, ChainType DEF Uses, NodeOf, At
  <2>5. Len(hops[c]) \in Nat BY <2>1, ChainType
  <2>6. CASE k <= i BY <2>3, <2>4, <2>5, <2>6
  <2>7. CASE k > i BY <2>3, <2>4, <2>5, <2>7
  <2> QED BY <2>5, <2>6, <2>7
<1> QED BY <1>1, BasicTypeInvariant, DrainInvariant, PTL

-------------------------------------------------------------------------------
\* The last handler of a chain serves the client, the others pass it on

Last(c) == hops[c][Len(hops[c])]

OthersProxy ==
  \A c \in Clients : \A i \in 1 .. Len(hops[c]) - 1 :
    hops[c][i].at \in {"dialing", "proxying", "done"}

LEMMA OnlyLastServes ==
  ASSUME ChainsType, OthersProxy, NEW c \in Clients, NEW i \in 1 .. Len(hops[c]),
         hops[c][i].at \notin {"dialing", "proxying", "done"}
  PROVE  i = Len(hops[c])
<1>1. Len(hops[c]) \in Nat BY ChainType
<1> QED BY <1>1 DEF OthersProxy

LEMMA OthersProxyInvariant == Spec => []OthersProxy
<1>1. Init => OthersProxy
  BY EmptySeq DEF Init, OthersProxy
<1>2. BasicType /\ OthersProxy /\ [Next]_vars => OthersProxy'
  <2> SUFFICES ASSUME BasicType, OthersProxy, [Next]_vars PROVE OthersProxy'
    OBVIOUS
  <2>1. ChainsType BY DEF BasicType
  <2>2. CASE UNCHANGED hops BY <2>2 DEF OthersProxy
  <2>3. ASSUME NEW c \in Clients, Dial(c) PROVE OthersProxy'
    <3>1. PICK m \in Nodes : Extends(c, 1, m) BY <2>1, <2>3, DialExtends DEF Dial
    <3>2. Len(hops'[c]) = 1
      <4>1. Len(hops[c]) = 0 BY <2>1, <2>3, ChainType DEF Dial
      <4> QED BY <3>1, <4>1 DEF Extends
    <3>3. ASSUME NEW d \in Clients, NEW j \in 1 .. Len(hops'[d]) - 1
          PROVE  hops'[d][j].at \in {"dialing", "proxying", "done"}
      <4>1. d # c
        <5> SUFFICES ASSUME d = c PROVE FALSE
          OBVIOUS
        <5>1. j \in 1 .. Len(hops'[c]) - 1 OBVIOUS
        <5> QED BY <3>2, <5>1
      <4>2. hops'[d] = hops[d] BY <3>1, <4>1 DEF Extends
      <4>3. j \in 1 .. Len(hops[d]) - 1 BY <4>2
      <4> QED BY <4>2, <4>3 DEF OthersProxy
    <3> QED BY <3>3 DEF OthersProxy
  <2>4. ASSUME NEW c \in Clients, Handler(c) PROVE OthersProxy'
    <3>1. PICK i \in 1 .. Len(hops[c]), r \in HopRecords :
            /\ r.node = hops[c][i].node
            /\ <<hops[c][i].at, r.at>> \in Transitions
            /\ \/ Moves(c, i, r)
               \/ hops[c][i].at = "redirected" /\ \E m \in Nodes : Extends(c, i, m)
      BY <2>4, HandlerMoves DEF Handler, LiveAt
    <3>2. \A d \in Clients : Len(hops[d]) \in Nat BY <2>1, ChainType
    <3>3. CASE Moves(c, i, r)
      <4>1. i \in 1 .. Len(hops[c]) - 1 => r.at \in {"dialing", "proxying", "done"}
        BY <3>1 DEF OthersProxy, Transitions
      <4> QED BY <3>2, <3>3, <4>1 DEF OthersProxy, Moves
    <3>4. ASSUME hops[c][i].at = "redirected", NEW m \in Nodes, Extends(c, i, m)
          PROVE  OthersProxy'
      <4>1. i = Len(hops[c]) BY <2>1, <3>4, OnlyLastServes
      <4>2. hops[c][i] \in HopRecords BY <2>1, ChainType
      <4>3. hops'[c][i].at = "dialing" BY <3>4, <4>2 DEF Extends, HopRecords
      <4>4. ASSUME NEW d \in Clients, NEW j \in 1 .. Len(hops'[d]) - 1
            PROVE  hops'[d][j].at \in {"dialing", "proxying", "done"}
        <5>1. CASE d # c BY <3>4, <5>1 DEF OthersProxy, Extends
        <5>2. CASE d = c /\ j = i BY <4>3, <5>2
        <5>3. CASE d = c /\ j # i
          <6>1. j \in 1 .. Len(hops[c]) - 1 BY <3>2, <3>4, <4>1, <5>3 DEF Extends
          <6>2. hops'[c][j] = hops[c][j] BY <3>2, <3>4, <5>3, <6>1 DEF Extends
          <6> QED BY <5>3, <6>1, <6>2 DEF OthersProxy
        <5> QED BY <5>1, <5>2, <5>3
      <4> QED BY <4>4 DEF OthersProxy
    <3> QED BY <3>1, <3>3, <3>4
  <2>5. ASSUME NEW n \in Nodes, Crash(n) \/ Exit(n) PROVE OthersProxy'
    <3>1. Ends(n) BY <2>1, <2>5, StopEnds DEF Crash, Exit
    <3>2. ASSUME NEW d \in Clients, NEW j \in 1 .. Len(hops'[d]) - 1
          PROVE  hops'[d][j].at \in {"dialing", "proxying", "done"}
      <4>1. Len(hops[d]) \in Nat BY <2>1, ChainType
      <4>2. j \in 1 .. Len(hops[d]) - 1 /\ j \in 1 .. Len(hops[d]) BY <3>1, <4>1 DEF Ends
      <4>3. hops[d][j] \in HopRecords BY <2>1, <4>2, ChainType
      <4>4. hops'[d][j].at \in {hops[d][j].at, "done"} BY <3>1, <4>2, <4>3 DEF Ends, HopRecords
      <4> QED BY <4>2, <4>4 DEF OthersProxy
    <3> QED BY <3>2 DEF OthersProxy
  <2>6. ASSUME NEW c \in Clients, Leave(c) \/ Join(c) \/ JoinSession(c) PROVE OthersProxy'
    BY <2>2, <2>6 DEF Leave, Join, JoinSession, hopVars
  <2>7. ASSUME NEW n \in Nodes,
               Start(n) \/ GotSignal(n) \/ CountClients(n) \/ CountProxyClients(n)
        PROVE  OthersProxy'
    BY <2>2, <2>7 DEF Start, GotSignal, CountClients, CountProxyClients, hopVars
  <2>8. ASSUME NEW s \in Sids, KeyExpires(s) PROVE OthersProxy'
    BY <2>2, <2>8 DEF KeyExpires, hopVars
  <2>9. CASE UNCHANGED vars
    BY <2>2, <2>9 DEF vars, hopVars
  <2> QED BY <2>3, <2>4, <2>5, <2>6, <2>7, <2>8, <2>9 DEF Next, MainLoop
<1> QED BY <1>1, <1>2, BasicTypeInvariant, PTL DEF Spec

\* What a step of handler i of c does to the last handlers: it leaves them alone, or
\* i is the last one of c, which goes on or is followed by a new one.
LEMMA LastMoves ==
  ASSUME BasicType, OthersProxy, NEW c \in Clients, NEW i \in DOMAIN hops[c],
         \/ Lookup(c, i) \/ LookupFails(c, i)
         \/ StartProxy(c, i) \/ DialFails(c, i) \/ ProxyUpgrades(c, i) \/ ProxyEnds(c, i)
         \/ Serve(c, i) \/ ServeEnds(c, i) \/ ClosePeer(c, i)
         \/ Unregister(c, i) \/ UnregisterFails(c, i)
  PROVE  /\ \A d \in Clients \ {c} : hops'[d] = hops[d]
         /\ hops[c] # << >> /\ hops'[c] # << >>
         /\ \/ Last(c)' = Last(c) /\ hops[c][i].at \in {"dialing", "proxying", "done"}
            \/ /\ Last(c) = hops[c][i]
               /\ \/ Server(c)' = Server(c) /\ <<Last(c).at, Last(c)'.at>> \in Transitions
                  \/ Last(c).at = "redirected" /\ Last(c)'.at = "lookup"
<1>1. ChainsType BY DEF BasicType
<1>2. PICK r \in HopRecords :
        /\ r.node = hops[c][i].node
        /\ <<hops[c][i].at, r.at>> \in Transitions
        /\ \/ Moves(c, i, r)
           \/ hops[c][i].at = "redirected" /\ \E m \in Nodes : Extends(c, i, m)
  BY HandlerMoves DEF LiveAt
<1>3. /\ Len(hops[c]) \in Nat /\ hops[c] # << >> /\ Len(hops[c]) \in 1 .. Len(hops[c])
      /\ i \in 1 .. Len(hops[c])
  BY <1>1, ChainType
<1>4. ChainsType'
  BY HandlerType DEF BasicType
<1>5. hops'[c] # << >>
  <2>1. Len(hops'[c]) # 0 BY <1>2, <1>3 DEF Moves, Extends
  <2> QED BY <1>4, <2>1, EmptySeq DEF ChainsType
<1>6. hops[c][i].at \in {"dialing", "proxying", "done"} \/ i = Len(hops[c])
  BY <1>1, <1>3, OnlyLastServes
<1>7. CASE Moves(c, i, r)
  <2>1. \A d \in Clients \ {c} : hops'[d] = hops[d]
    <3> SUFFICES ASSUME NEW d \in Clients \ {c} PROVE hops'[d] = hops[d]
      OBVIOUS
    <3>1. hops[d] \in Seq(HopRecords) /\ hops'[d] \in Seq(HopRecords) BY <1>1, <1>4 DEF ChainsType
    <3>2. Len(hops'[d]) = Len(hops[d]) /\ \A j \in 1 .. Len(hops'[d]) : hops'[d][j] = hops[d][j]
      BY <1>7 DEF Moves
    <3> QED BY <3>1, <3>2, SeqEqual
  <2>2. hops'[c][Len(hops'[c])] = IF i = Len(hops[c]) THEN r ELSE hops[c][Len(hops[c])]
    BY <1>3, <1>7 DEF Moves
  <2> QED BY <1>2, <1>3, <1>5, <1>6, <2>1, <2>2 DEF Last, Server, NodeOf
<1>8. ASSUME hops[c][i].at = "redirected", NEW m \in Nodes, Extends(c, i, m)
      PROVE  /\ \A d \in Clients \ {c} : hops'[d] = hops[d]
             /\ Last(c) = hops[c][i]
             /\ Last(c).at = "redirected" /\ Last(c)'.at = "lookup"
  <2>1. i = Len(hops[c]) BY <1>6, <1>8
  <2> QED BY <1>8, <2>1 DEF Extends, Last, Hop
<1> QED BY <1>2, <1>3, <1>5, <1>7, <1>8

-------------------------------------------------------------------------------
\* Peers of one term

Joined(c) == join[c] \in {"local", "joined"}

JoinedIsServed ==
  \A c \in Clients : Joined(c) =>
    /\ hops[c] # << >>
    /\ Last(c).at = "serving" \/ (Last(c).at = "closePeer" /\ join[c] = "joined")

\* The term of a peer has been, and while it lasts the key names the peer's server.
TermIsOwned ==
  \A c \in Clients : Joined(c) =>
    /\ term[c] <= takes[Sid[c]]
    /\ term[c] = takes[Sid[c]] /\ owner[Sid[c]] # None => owner[Sid[c]] = Server(c)

OneServerPerTerm ==
  \A c, d \in Clients :
    Joined(c) /\ Joined(d) /\ Sid[c] = Sid[d] /\ term[c] = term[d] => Server(c) = Server(d)

InOpenSession(c) == join[c] = "joined" /\ sess[c] \notin closed

OpenIsRegistered ==
  \A c \in Clients : InOpenSession(c) => localSessions[Server(c)][Sid[c]] = sess[c]

Unregistering(c) == hops[c] # << >> /\ Last(c).at = "unregister"

\* A peer that unregisters its Session finds a closed one, and is the only one to do so:
\* no open Session loses its entry.
UnregistersClosed ==
  \A c \in Clients : Unregistering(c) => localSessions[Server(c)][Sid[c]] \in closed

OneUnregisters ==
  \A c, d \in Clients :
    Unregistering(c) /\ Unregistering(d) /\ Sid[c] = Sid[d] /\ Server(c) = Server(d) => c = d

PeerInv ==
  /\ JoinedIsServed /\ TermIsOwned /\ OneServerPerTerm
  /\ OpenIsRegistered /\ UnregistersClosed /\ OneUnregisters

\* What a step may do to the key of a session: nothing, delete it, or put it once more.
KeyStep(s) ==
  \/ owner'[s] = owner[s] /\ takes'[s] = takes[s]
  \/ owner'[s] = None /\ takes'[s] = takes[s]
  \/ takes'[s] = takes[s] + 1

KeySteps == \A s \in Sids : KeyStep(s)

\* d stays the peer it was, on the same server.
SamePeer(d) ==
  /\ join'[d] = join[d] /\ term'[d] = term[d] /\ sess'[d] = sess[d]
  /\ hops[d] # << >> /\ hops'[d] # << >>
  /\ Server(d)' = Server(d)

SameEntry(d) == localSessions'[Server(d)][Sid[d]] = localSessions[Server(d)][Sid[d]]

\* A step that adds no peer and closes no Session preserves PeerInv, if it leaves the
\* registry as it is for the peers in open Sessions and for those that unregister theirs.
LEMMA PeerFrame ==
  ASSUME BasicType, PeerInv, KeySteps, UNCHANGED closed,
         \A d \in Clients : Joined(d)' =>
           /\ SamePeer(d)
           /\ Last(d)'.at = "serving" \/ (Last(d)'.at = "closePeer" /\ join[d] = "joined"),
         \A d \in Clients : Unregistering(d)' => Unregistering(d) /\ Server(d)' = Server(d),
         \A d \in Clients : InOpenSession(d)' \/ Unregistering(d)' => SameEntry(d)
  PROVE  PeerInv'
<1>1. \A d \in Clients : Joined(d)' => Joined(d) /\ SamePeer(d)
  BY DEF Joined, SamePeer
<1>2. \A d \in Clients : InOpenSession(d)' => InOpenSession(d) /\ SamePeer(d)
  BY DEF Joined, InOpenSession, SamePeer
<1>3. JoinedIsServed' BY DEF JoinedIsServed, SamePeer
<1>4. TermIsOwned'
  <2> SUFFICES ASSUME NEW d \in Clients, Joined(d)'
               PROVE  /\ term'[d] <= takes'[Sid[d]]
                      /\ term'[d] = takes'[Sid[d]] /\ owner'[Sid[d]] # None
                           => owner'[Sid[d]] = Server(d)'
    BY DEF TermIsOwned
  <2>1. /\ term[d] <= takes[Sid[d]]
        /\ term[d] = takes[Sid[d]] /\ owner[Sid[d]] # None => owner[Sid[d]] = Server(d)
    BY <1>1 DEF PeerInv, TermIsOwned
  <2>2. term'[d] = term[d] /\ Server(d)' = Server(d) BY DEF SamePeer
  <2>3. term[d] \in Nat /\ takes[Sid[d]] \in Nat BY DEF BasicType, JoinType, DirType
  <2>4. KeyStep(Sid[d]) BY DEF KeySteps
  <2> QED BY <2>1, <2>2, <2>3, <2>4 DEF KeyStep
<1>5. OneServerPerTerm'
  BY <1>1 DEF PeerInv, OneServerPerTerm, SamePeer
<1>6. OpenIsRegistered'
  BY <1>2 DEF PeerInv, OpenIsRegistered, SamePeer, SameEntry
<1>7. UnregistersClosed'
  BY DEF PeerInv, UnregistersClosed, SameEntry
<1>8. OneUnregisters'
  BY DEF PeerInv, OneUnregisters
<1> QED BY <1>3, <1>4, <1>5, <1>6, <1>7, <1>8 DEF PeerInv

LEMMA GetOrCreateSteps ==
  ASSUME DirType, NEW n \in Nodes, NEW s \in Sids, GetOrCreate(n, s)
  PROVE  KeySteps
<1> USE DEF DirType, GetOrCreate, dirVars, KeySteps, KeyStep
<1>1. CASE owner[s] = None BY <1>1
<1>2. CASE owner[s] # None BY <1>2
<1> QED BY <1>1, <1>2

LEMMA GetOrCreateFailsSteps ==
  ASSUME DirType, NEW n \in Nodes, NEW s \in Sids, GetOrCreateFails(n, s)
  PROVE  KeySteps
BY GetOrCreateSteps DEF GetOrCreateFails, dirVars, KeySteps, KeyStep

LEMMA HandlerPeers ==
  ASSUME BasicType, OthersProxy, PeerInv, NEW c \in Clients, NEW i \in DOMAIN hops[c],
         \/ Lookup(c, i) \/ LookupFails(c, i)
         \/ StartProxy(c, i) \/ DialFails(c, i) \/ ProxyUpgrades(c, i) \/ ProxyEnds(c, i)
         \/ Serve(c, i) \/ ServeEnds(c, i)
         \/ Unregister(c, i) \/ UnregisterFails(c, i)
  PROVE  PeerInv'
<1>1. ChainsType /\ DirType /\ SessionType BY DEF BasicType
<1>2. i \in 1 .. Len(hops[c]) /\ NodeOf(c, i) \in Nodes
  BY <1>1, ChainType DEF NodeOf
<1>3. /\ \A d \in Clients \ {c} : hops'[d] = hops[d]
      /\ hops[c] # << >> /\ hops'[c] # << >>
      /\ \/ Last(c)' = Last(c) /\ hops[c][i].at \in {"dialing", "proxying", "done"}
         \/ /\ Last(c) = hops[c][i]
            /\ \/ Server(c)' = Server(c) /\ <<Last(c).at, Last(c)'.at>> \in Transitions
               \/ Last(c).at = "redirected" /\ Last(c)'.at = "lookup"
  BY LastMoves
<1>4. UNCHANGED <<peerVars, closed>>
  BY DEF Lookup, LookupFails, StartProxy, DialFails, ProxyUpgrades, ProxyEnds, Serve, ServeEnds,
         Unregister, UnregisterFails, nodeVars
<1>5. KeySteps
  <2>1. CASE Lookup(c, i) BY <1>1, <1>2, <2>1, GetOrCreateSteps DEF Lookup
  <2>2. CASE LookupFails(c, i) BY <1>1, <1>2, <2>2, GetOrCreateFailsSteps DEF LookupFails
  <2>3. CASE Unregister(c, i) \/ UnregisterFails(c, i)
    BY <1>1, <2>3 DEF Unregister, UnregisterFails, DirType, KeySteps, KeyStep
  <2>4. UNCHANGED dirVars => KeySteps BY DEF dirVars, KeySteps, KeyStep
  <2> QED BY <2>1, <2>2, <2>3, <2>4 DEF StartProxy, DialFails, ProxyUpgrades, ProxyEnds,
                                         Serve, ServeEnds
<1>6. \A d \in Clients : hops'[d] = hops[d] => Last(d)' = Last(d) /\ Server(d)' = Server(d)
  BY DEF Last, Server, NodeOf
<1>7. Last(c)' = Last(c) => Server(c)' = Server(c)
  BY DEF Last, Server, NodeOf
<1>8. hops[c][i].at # "closePeer" /\ (hops[c][i].at = "serving" => join[c] # "local")
  BY DEF Lookup, LookupFails, StartProxy, DialFails, ProxyUpgrades, ProxyEnds, Serve, ServeEnds,
         Unregister, UnregisterFails, At
<1>9. ASSUME NEW d \in Clients, Joined(d)'
      PROVE  /\ SamePeer(d)
             /\ Last(d)'.at = "serving" \/ (Last(d)'.at = "closePeer" /\ join[d] = "joined")
  <2>1. Joined(d) BY <1>4, <1>9 DEF Joined, peerVars
  <2>2. /\ hops[d] # << >>
        /\ Last(d).at = "serving" \/ (Last(d).at = "closePeer" /\ join[d] = "joined")
    BY <2>1 DEF PeerInv, JoinedIsServed
  <2>3. CASE d # c BY <1>3, <1>4, <1>6, <2>2, <2>3 DEF SamePeer, peerVars
  <2>4. CASE d = c
    <3>1. /\ Server(c)' = Server(c)
          /\ Last(c)'.at = "serving" \/ (Last(c)'.at = "closePeer" /\ join[c] = "joined")
      BY <1>3, <1>7, <1>8, <2>1, <2>2, <2>4 DEF Transitions, Joined
    <3> QED BY <1>3, <1>4, <2>2, <2>4, <3>1 DEF SamePeer, peerVars
  <2> QED BY <2>3, <2>4
<1>10. ASSUME NEW d \in Clients, Unregistering(d)'
       PROVE  /\ Unregistering(d) /\ Server(d)' = Server(d)
              /\ d = c => hops[c][i].at # "unregister"
  <2>1. CASE d # c BY <1>3, <1>6, <1>10, <2>1 DEF Unregistering
  <2>2. CASE d = c
    <3>1. Last(c)' = Last(c) /\ hops[c][i].at # "unregister"
      BY <1>3, <1>8, <1>10, <2>2 DEF Unregistering, Transitions
    <3> QED BY <1>3, <1>7, <1>10, <2>2, <3>1 DEF Unregistering
  <2> QED BY <2>1, <2>2
<1>11. ASSUME NEW d \in Clients, InOpenSession(d)' \/ Unregistering(d)'
       PROVE  SameEntry(d)
  <2>1. CASE localSessions' = localSessions BY <2>1 DEF SameEntry
  <2>2. CASE localSessions' # localSessions
    <3>1. /\ hops[c][i].at = "unregister"
          /\ localSessions' = [localSessions EXCEPT ![NodeOf(c, i)][Sid[c]] = None]
      BY <2>2 DEF Lookup, LookupFails, StartProxy, DialFails, ProxyUpgrades, ProxyEnds, Serve,
                  ServeEnds, Unregister, UnregisterFails, At, nodeVars
    <3>2. Last(c) = hops[c][i] /\ Server(c) = NodeOf(c, i) /\ Unregistering(c)
      BY <1>3, <3>1 DEF Last, Server, NodeOf, Unregistering
    <3>3. localSessions[Server(c)][Sid[c]] \in closed BY <3>2 DEF PeerInv, UnregistersClosed
    <3>4. ~(Server(d) = Server(c) /\ Sid[d] = Sid[c])
      <4>1. CASE Unregistering(d)'
        BY <1>10, <3>1, <3>2, <4>1 DEF PeerInv, OneUnregisters
      <4>2. CASE InOpenSession(d)'
        <5>1. InOpenSession(d) BY <1>4, <4>2 DEF InOpenSession, peerVars
        <5> QED BY <3>3, <5>1 DEF PeerInv, OpenIsRegistered, InOpenSession
      <4> QED BY <1>11, <4>1, <4>2
    <3> QED BY <1>1, <1>2, <3>1, <3>2, <3>4 DEF SameEntry, SessionType
  <2> QED BY <2>1, <2>2
<1> QED BY <1>4, <1>5, <1>9, <1>10, <1>11, PeerFrame

\* The last peer closes its Session, which is the registered one; others leave quietly.
LEMMA ClosePeerPeers ==
  ASSUME BasicType, OthersProxy, PeerInv, NEW c \in Clients, NEW i \in DOMAIN hops[c],
         ClosePeer(c, i)
  PROVE  PeerInv'
<1> DEFINE last == join[c] = "joined" /\ sess[c] \notin closed /\ Peers(sess[c]) = {c}
<1>1. ChainsType /\ JoinType BY DEF BasicType
<1>2. /\ closed' = IF last THEN closed \cup {sess[c]} ELSE closed
      /\ Goto(c, i, IF last THEN "unregister" ELSE "done")
      /\ PeersGone({c}) /\ hops[c][i].at = "closePeer"
      /\ UNCHANGED <<dirVars, localSessions>>
  BY DEF ClosePeer, At
<1> HIDE DEF last
<1>3. i \in 1 .. Len(hops[c]) BY <1>1, ChainType
<1>4. /\ \A d \in Clients \ {c} : hops'[d] = hops[d]
      /\ hops[c] # << >> /\ hops'[c] # << >>
      /\ Last(c) = hops[c][i] /\ Server(c)' = Server(c)
  BY <1>2, LastMoves
<1>5. Last(c)'.at = IF last THEN "unregister" ELSE "done"
  <2> DEFINE a == IF last THEN "unregister" ELSE "done"
             r == [hops[c][i] EXCEPT !.at = a]
  <2>1. a \in HopStates /\ Goto(c, i, a) BY <1>2 DEF HopStates
  <2> HIDE DEF a
  <2>2. Moves(c, i, r) BY <1>1, <1>3, <2>1, GotoMoves
  <2>3. i = Len(hops[c]) BY <1>1, <1>2, <1>3, OnlyLastServes
  <2>4. hops[c][i] \in HopRecords BY <1>1, <1>3, ChainType
  <2>5. r.at = a BY <2>4 DEF HopRecords
  <2> HIDE DEF r
  <2>6. Last(c)' = r BY <1>3, <2>2, <2>3 DEF Moves, Last
  <2> QED BY <2>5, <2>6 DEF a
<1>6. \A d \in Clients : /\ Joined(d)' => d # c
                         /\ d # c => /\ join'[d] = join[d] /\ term'[d] = term[d] /\ sess'[d] = sess[d]
                                     /\ Last(d)' = Last(d) /\ Server(d)' = Server(d)
  BY <1>2, <1>4 DEF PeersGone, Joined, Last, Server, NodeOf
<1>7. ASSUME NEW d \in Clients, Joined(d)'
      PROVE  /\ Joined(d) /\ SamePeer(d)
             /\ Last(d)'.at = "serving" \/ (Last(d)'.at = "closePeer" /\ join[d] = "joined")
  <2>1. Joined(d) /\ d # c BY <1>6, <1>7 DEF Joined
  <2> QED BY <1>4, <1>6, <2>1 DEF PeerInv, JoinedIsServed, SamePeer
<1>8. KeySteps BY <1>2 DEF dirVars, KeySteps, KeyStep
<1>9. \A d \in Clients : SameEntry(d) BY <1>2 DEF SameEntry
<1>10. CASE ~last
  <2>1. \A d \in Clients : Unregistering(d)' => Unregistering(d) /\ Server(d)' = Server(d)
    BY <1>4, <1>5, <1>6, <1>10 DEF Unregistering
  <2> QED BY <1>2, <1>7, <1>8, <1>9, <1>10, <2>1, PeerFrame
<1>11. CASE last
  <2>1. InOpenSession(c) /\ localSessions[Server(c)][Sid[c]] = sess[c]
    BY <1>11 DEF last, InOpenSession, PeerInv, OpenIsRegistered
  <2>2. closed' = closed \cup {sess[c]} BY <1>2, <1>11
  <2>3. JoinedIsServed' BY <1>7 DEF JoinedIsServed, SamePeer
  <2>4. TermIsOwned'
    BY <1>2, <1>7 DEF PeerInv, TermIsOwned, SamePeer, dirVars
  <2>5. OneServerPerTerm' BY <1>7 DEF PeerInv, OneServerPerTerm, SamePeer
  <2>6. OpenIsRegistered'
    <3> SUFFICES ASSUME NEW d \in Clients, InOpenSession(d)'
                 PROVE  localSessions'[Server(d)'][Sid[d]] = sess'[d]
      BY DEF OpenIsRegistered
    <3>1. SamePeer(d) BY <1>7 DEF InOpenSession, Joined
    <3>2. InOpenSession(d) BY <2>2, <3>1 DEF InOpenSession, SamePeer
    <3> QED BY <1>9, <3>1, <3>2 DEF PeerInv, OpenIsRegistered, SamePeer, SameEntry
  <2>7. ASSUME NEW d \in Clients, Unregistering(d)'
        PROVE  /\ Server(d)' = Server(d) /\ (d = c \/ Unregistering(d))
               /\ Unregistering(d) => ~(Server(d) = Server(c) /\ Sid[d] = Sid[c])
    <3>1. Unregistering(d) => localSessions[Server(d)][Sid[d]] \in closed
      BY DEF PeerInv, UnregistersClosed
    <3>2. Unregistering(d) => ~(Server(d) = Server(c) /\ Sid[d] = Sid[c])
      BY <2>1, <3>1 DEF InOpenSession
    <3>3. Server(d)' = Server(d) /\ (d = c \/ Unregistering(d))
      BY <1>4, <1>6, <2>7 DEF Unregistering
    <3> QED BY <3>2, <3>3
  <2>8. UnregistersClosed'
    <3> SUFFICES ASSUME NEW d \in Clients, Unregistering(d)'
                 PROVE  localSessions'[Server(d)'][Sid[d]] \in closed'
      BY DEF UnregistersClosed
    <3>1. Server(d)' = Server(d) BY <1>4, <1>6
    <3>2. CASE d = c BY <1>2, <2>1, <2>2, <3>1, <3>2
    <3>3. CASE d # c
      <4>1. Unregistering(d) BY <2>7, <3>3
      <4>2. localSessions[Server(d)][Sid[d]] \in closed BY <4>1 DEF PeerInv, UnregistersClosed
      <4> QED BY <1>2, <2>2, <3>1, <4>2
    <3> QED BY <3>2, <3>3
  <2>9. OneUnregisters'
    <3> SUFFICES ASSUME NEW d \in Clients, NEW e \in Clients, Unregistering(d)', Unregistering(e)',
                        Sid[d] = Sid[e], Server(d)' = Server(e)'
                 PROVE  d = e
      BY DEF OneUnregisters
    <3>1. Server(d)' = Server(d) /\ Server(e)' = Server(e) BY <1>4, <1>6
    <3>2. Unregistering(d) \/ d = c BY <2>7
    <3>3. Unregistering(e) \/ e = c BY <2>7
    <3>4. Unregistering(d) => ~(Server(d) = Server(c) /\ Sid[d] = Sid[c]) BY <2>7
    <3>5. Unregistering(e) => ~(Server(e) = Server(c) /\ Sid[e] = Sid[c]) BY <2>7
    <3> QED BY <3>1, <3>2, <3>3, <3>4, <3>5 DEF PeerInv, OneUnregisters
  <2> QED BY <2>3, <2>4, <2>5, <2>6, <2>8, <2>9 DEF PeerInv
<1> QED BY <1>10, <1>11

\* A peer whose join is answered "local" has the term of the key that names its server.
LEMMA JoinPeers ==
  ASSUME BasicType, PeerInv, NEW c \in Clients, Join(c)
  PROVE  PeerInv'
<1> DEFINE s == Sid[c]
<1>1. ChainsType /\ DirType /\ JoinType BY DEF BasicType
<1>2. /\ hops[c] # << >> /\ Last(c).at = "serving" /\ join[c] = "none"
      /\ UNCHANGED <<hops, sess, localSessions, closed>>
  BY DEF Join, Reachable, At, Last, hopVars, nodeVars
<1>3. Server(c) \in Nodes BY <1>1, <1>2, ServerType
<1>4. \A d \in Clients : /\ Last(d)' = Last(d) /\ Server(d)' = Server(d) /\ SameEntry(d)
                         /\ Unregistering(d)' <=> Unregistering(d)
  BY <1>2 DEF Last, Server, NodeOf, SameEntry, Unregistering
<1>5. KeySteps
  BY <1>1, <1>3, GetOrCreateSteps, GetOrCreateFailsSteps DEF Join
<1>6. \/ UNCHANGED term /\ join' = [join EXCEPT ![c] = "refused"]
      \/ /\ GetOrCreate(Server(c), s) /\ owner'[s] = Server(c)
         /\ join' = [join EXCEPT ![c] = "local"] /\ term' = [term EXCEPT ![c] = takes'[s]]
  BY DEF Join, JoinRedirected, Redirect
<1>7. \A d \in Clients \ {c} : join'[d] = join[d] /\ term'[d] = term[d] /\ sess'[d] = sess[d]
  BY <1>1, <1>2, <1>6 DEF JoinType
<1>8. \A d \in Clients \ {c} : Joined(d)' =>
        /\ Joined(d) /\ SamePeer(d)
        /\ Last(d)'.at = "serving" \/ (Last(d)'.at = "closePeer" /\ join[d] = "joined")
  BY <1>2, <1>4, <1>7 DEF PeerInv, JoinedIsServed, Joined, SamePeer
<1>9. CASE join' = [join EXCEPT ![c] = "refused"]
  <2>1. ~Joined(c)' BY <1>1, <1>9 DEF Joined, JoinType
  <2> QED BY <1>2, <1>4, <1>5, <1>8, <2>1, PeerFrame
<1>10. CASE /\ GetOrCreate(Server(c), s) /\ owner'[s] = Server(c)
            /\ join' = [join EXCEPT ![c] = "local"] /\ term' = [term EXCEPT ![c] = takes'[s]]
  <2>1. join'[c] = "local" /\ term'[c] = takes'[s] BY <1>1, <1>10 DEF JoinType
  <2>2. DirType' /\ takes'[s] \in Nat BY <1>1, <1>3, <1>10, GetOrCreateType DEF DirType
  <2>3. JoinedIsServed' BY <1>2, <1>4, <1>8, <2>1 DEF JoinedIsServed, SamePeer
  <2>4. ASSUME NEW d \in Clients \ {c}, Joined(d)'
        PROVE  /\ term'[d] <= takes'[Sid[d]]
               /\ term'[d] = takes'[Sid[d]] /\ owner'[Sid[d]] # None
                    => owner'[Sid[d]] = Server(d)'
    <3>1. /\ term[d] <= takes[Sid[d]]
          /\ term[d] = takes[Sid[d]] /\ owner[Sid[d]] # None => owner[Sid[d]] = Server(d)
      BY <1>8, <2>4 DEF PeerInv, TermIsOwned
    <3>2. term'[d] = term[d] /\ Server(d)' = Server(d) BY <1>4, <1>7
    <3>3. term[d] \in Nat /\ takes[Sid[d]] \in Nat BY <1>1 DEF JoinType, DirType
    <3>4. KeyStep(Sid[d]) BY <1>5 DEF KeySteps
    <3> QED BY <3>1, <3>2, <3>3, <3>4 DEF KeyStep
  <2>5. TermIsOwned'
    <3>1. takes'[s] <= takes'[s] BY <2>2
    <3> QED BY <1>4, <1>10, <2>1, <2>4, <3>1 DEF TermIsOwned
  <2>6. OneServerPerTerm'
    <3>1. \A d \in Clients \ {c} :
            Joined(d)' /\ Sid[d] = s /\ term'[d] = takes'[s] => Server(d)' = Server(c)'
      <4> SUFFICES ASSUME NEW d \in Clients \ {c}, Joined(d)', Sid[d] = s, term'[d] = takes'[s]
                   PROVE  Server(d)' = Server(c)'
        OBVIOUS
      <4>1. owner'[s] # None BY <1>3, <1>10
      <4> QED BY <1>4, <1>10, <2>4, <4>1
    <3>2. ASSUME NEW d \in Clients, NEW e \in Clients, Joined(d)', Joined(e)', Sid[d] = Sid[e],
                 term'[d] = term'[e]
          PROVE  Server(d)' = Server(e)'
      <4>1. CASE d = c \/ e = c BY <2>1, <3>1, <3>2, <4>1
      <4>2. CASE d # c /\ e # c
        <5>1. Joined(d) /\ Joined(e) /\ term[d] = term[e] BY <1>7, <1>8, <3>2, <4>2
        <5> QED BY <1>4, <3>2, <5>1 DEF PeerInv, OneServerPerTerm
      <4> QED BY <4>1, <4>2
    <3> QED BY <3>2 DEF OneServerPerTerm
  <2>7. OpenIsRegistered'
    <3>1. \A d \in Clients : InOpenSession(d)' => d # c /\ InOpenSession(d)
      BY <1>2, <1>7, <2>1 DEF InOpenSession
    <3> QED BY <1>2, <1>4, <1>7, <3>1 DEF PeerInv, OpenIsRegistered, SameEntry
  <2>8. UnregistersClosed' /\ OneUnregisters'
    BY <1>2, <1>4 DEF PeerInv, UnregistersClosed, OneUnregisters, SameEntry
  <2> QED BY <2>3, <2>5, <2>6, <2>7, <2>8 DEF PeerInv
<1> QED BY <1>6, <1>9, <1>10

\* A peer is added to the registered Session, or registers its own where there is none.
LEMMA JoinSessionPeers ==
  ASSUME BasicType, PeerInv, NEW c \in Clients, JoinSession(c)
  PROVE  PeerInv'
<1> DEFINE n == Server(c)
           s == Sid[c]
           o == IF localSessions[n][s] = None THEN c ELSE localSessions[n][s]
<1>1. ChainsType /\ JoinType /\ SessionType BY DEF BasicType
<1>2. join[c] = "local" /\ UNCHANGED <<dirVars, hops, term, closed>>
  BY DEF JoinSession, hopVars
<1>3. Joined(c) /\ hops[c] # << >> /\ Last(c).at = "serving"
  BY <1>2 DEF PeerInv, JoinedIsServed, Joined
<1>4. n \in Nodes BY <1>1, <1>3, ServerType
<1>5. localSessions' = [localSessions EXCEPT ![n] = [@ EXCEPT ![s] = o]]
  BY DEF JoinSession
<1>6. localSessions'[n][s] = o BY <1>1, <1>4, <1>5 DEF SessionType
<1>7. sess' = [sess EXCEPT ![c] = o] /\ join' = [join EXCEPT ![c] = "joined"]
  BY <1>6 DEF JoinSession
<1>8. /\ \A d \in Clients \ {c} : join'[d] = join[d] /\ sess'[d] = sess[d]
      /\ join'[c] = "joined" /\ sess'[c] = o
  BY <1>1, <1>7 DEF JoinType
<1> HIDE DEF o
<1>9. \A d \in Clients : /\ Last(d)' = Last(d) /\ Server(d)' = Server(d) /\ term'[d] = term[d]
                         /\ Unregistering(d)' <=> Unregistering(d)
                         /\ Joined(d)' <=> Joined(d)
  BY <1>2, <1>3, <1>8 DEF Last, Server, NodeOf, Unregistering, Joined
<1>10. ASSUME NEW d \in Clients, hops[d] # << >>,
              localSessions[Server(d)][Sid[d]] # None
       PROVE  SameEntry(d)
  <2>1. Server(d) \in Nodes BY <1>1, <1>10, ServerType
  <2>2. CASE Server(d) = n /\ Sid[d] = s BY <1>6, <1>10, <2>2 DEF SameEntry, o
  <2>3. CASE ~(Server(d) = n /\ Sid[d] = s)
    BY <1>1, <1>4, <1>5, <2>1, <2>3 DEF SameEntry, SessionType
  <2> QED BY <2>2, <2>3
<1>11. JoinedIsServed'
  BY <1>2, <1>3, <1>8, <1>9 DEF PeerInv, JoinedIsServed
<1>12. TermIsOwned'
  BY <1>2, <1>9 DEF PeerInv, TermIsOwned, dirVars
<1>13. OneServerPerTerm' BY <1>9 DEF PeerInv, OneServerPerTerm
<1>14. OpenIsRegistered'
  <2> SUFFICES ASSUME NEW d \in Clients, InOpenSession(d)'
               PROVE  localSessions'[Server(d)'][Sid[d]] = sess'[d]
    BY DEF OpenIsRegistered
  <2>1. CASE d = c BY <1>6, <1>8, <1>9, <2>1
  <2>2. CASE d # c
    <3>1. InOpenSession(d) BY <1>2, <1>8, <2>2 DEF InOpenSession
    <3>2. localSessions[Server(d)][Sid[d]] = sess[d] BY <3>1 DEF PeerInv, OpenIsRegistered
    <3>3. hops[d] # << >> /\ sess[d] # None BY <3>1 DEF BasicType, JoinedIsOpen, InOpenSession
    <3>4. SameEntry(d) BY <1>10, <3>2, <3>3
    <3> QED BY <1>8, <1>9, <2>2, <3>2, <3>4 DEF SameEntry
  <2> QED BY <2>1, <2>2
<1>15. UnregistersClosed'
  <2> SUFFICES ASSUME NEW d \in Clients, Unregistering(d)
               PROVE  localSessions'[Server(d)'][Sid[d]] \in closed'
    BY <1>9 DEF UnregistersClosed
  <2>1. localSessions[Server(d)][Sid[d]] \in closed BY DEF PeerInv, UnregistersClosed
  <2>2. localSessions[Server(d)][Sid[d]] # None BY <1>1, <2>1 DEF SessionType
  <2>3. SameEntry(d) BY <1>10, <2>2 DEF Unregistering
  <2> QED BY <1>2, <1>9, <2>1, <2>3 DEF SameEntry
<1>16. OneUnregisters' BY <1>9 DEF PeerInv, OneUnregisters
<1> QED BY <1>11, <1>12, <1>13, <1>14, <1>15, <1>16 DEF PeerInv

\* A process that ends takes its peers and its registry along, nobody else's.
LEMMA StopPeers ==
  ASSUME BasicType, PeerInv, NEW n \in Nodes, NEW how, Stop(n, how)
  PROVE  PeerInv'
<1>1. ChainsType /\ SessionType BY DEF BasicType
<1>2. ChainsType' /\ Grows /\ Ends(n) BY <1>1, StopEnds
<1>3. /\ UNCHANGED <<owner, takes, closed>>
      /\ localSessions' = [localSessions EXCEPT ![n] = [s \in Sids |-> None]]
  BY DEF Stop, dirVars
<1>4. \A d \in Clients :
        IF hops[d] # << >> /\ Server(d) = n
        THEN join'[d] = "over"
        ELSE join'[d] = join[d] /\ sess'[d] = sess[d] /\ term'[d] = term[d]
  BY DEF Stop, PeersGone
<1>5. ASSUME NEW d \in Clients, hops[d] # << >>
      PROVE  /\ Server(d)' = Server(d)
             /\ Last(d)' = IF Server(d) = n THEN [Last(d) EXCEPT !.at = "done"] ELSE Last(d)
             /\ Server(d) = n => Last(d)'.at = "done"
  <2>1. /\ Len(hops[d]) \in 1 .. Len(hops[d]) /\ Server(d) = Last(d).node
        /\ Last(d) \in HopRecords
    BY <1>1, <1>5, ServerType, ChainType DEF Last
  <2>2. Last(d)' = IF Server(d) = n THEN [Last(d) EXCEPT !.at = "done"] ELSE Last(d)
    BY <1>2, <2>1 DEF Ends, Last
  <2>3. Server(d)' = Last(d)'.node BY DEF Server, NodeOf, Last
  <2> QED BY <2>1, <2>2, <2>3 DEF HopRecords
<1>6. \A d \in Clients : hops'[d] # << >> => hops[d] # << >>
  <2> SUFFICES ASSUME NEW d \in Clients, hops[d] = << >> PROVE hops'[d] = << >>
    OBVIOUS
  <2>1. Len(hops'[d]) = 0 BY <1>1, <1>2, ChainType DEF Ends
  <2> QED BY <1>2, <2>1, EmptySeq DEF ChainsType
<1>7. KeySteps BY <1>3 DEF KeySteps, KeyStep
<1>8. ASSUME NEW d \in Clients, Joined(d)'
      PROVE  /\ SamePeer(d) /\ Server(d) # n
             /\ Last(d)'.at = "serving" \/ (Last(d)'.at = "closePeer" /\ join[d] = "joined")
  <2>1. /\ ~(hops[d] # << >> /\ Server(d) = n)
        /\ join'[d] = join[d] /\ sess'[d] = sess[d] /\ term'[d] = term[d]
    BY <1>4, <1>8 DEF Joined
  <2>2. /\ hops[d] # << >>
        /\ Last(d).at = "serving" \/ (Last(d).at = "closePeer" /\ join[d] = "joined")
    BY <1>8, <2>1 DEF PeerInv, JoinedIsServed, Joined
  <2> QED BY <1>2, <1>5, <2>1, <2>2 DEF SamePeer, Grows
<1>9. ASSUME NEW d \in Clients, Unregistering(d)'
      PROVE  Unregistering(d) /\ Server(d)' = Server(d) /\ Server(d) # n
  BY <1>5, <1>6, <1>9 DEF Unregistering
<1>10. ASSUME NEW d \in Clients, InOpenSession(d)' \/ Unregistering(d)' PROVE SameEntry(d)
  <2>1. Server(d) # n /\ hops[d] # << >>
    BY <1>8, <1>9, <1>10 DEF InOpenSession, Joined, SamePeer, Unregistering
  <2>2. Server(d) \in Nodes BY <1>1, <2>1, ServerType
  <2> QED BY <1>1, <1>3, <2>1, <2>2 DEF SameEntry, SessionType
<1> QED BY <1>3, <1>7, <1>8, <1>9, <1>10, PeerFrame

LEMMA PeerInvariant == Spec => []PeerInv
<1>1. Init => PeerInv
  <2> SUFFICES ASSUME Init PROVE PeerInv
    OBVIOUS
  <2>1. \A c \in Clients : ~Joined(c) /\ ~Unregistering(c) /\ ~InOpenSession(c)
    BY DEF Init, Joined, Unregistering, InOpenSession
  <2> QED BY <2>1 DEF PeerInv, JoinedIsServed, TermIsOwned, OneServerPerTerm, OpenIsRegistered,
                      UnregistersClosed, OneUnregisters
<1>2. BasicType /\ OthersProxy /\ PeerInv /\ [Next]_vars => PeerInv'
  <2> SUFFICES ASSUME BasicType, OthersProxy, PeerInv, [Next]_vars PROVE PeerInv'
    OBVIOUS
  <2>1. ChainsType BY DEF BasicType
  <2>2. CASE KeySteps /\ UNCHANGED <<hops, peerVars, nodeVars>>
    <3>1. \A d \in Clients : /\ Joined(d)' => Joined(d)
                             /\ Last(d)' = Last(d) /\ Server(d)' = Server(d) /\ SameEntry(d)
                             /\ Unregistering(d)' <=> Unregistering(d)
      BY <2>2 DEF Joined, Last, Server, NodeOf, SameEntry, Unregistering, peerVars, nodeVars
    <3>2. \A d \in Clients : Joined(d)' =>
            /\ SamePeer(d)
            /\ Last(d)'.at = "serving" \/ (Last(d)'.at = "closePeer" /\ join[d] = "joined")
      BY <2>2, <3>1 DEF PeerInv, JoinedIsServed, SamePeer, peerVars
    <3> QED BY <2>2, <3>1, <3>2, PeerFrame DEF nodeVars
  <2>3. UNCHANGED dirVars => KeySteps BY DEF dirVars, KeySteps, KeyStep
  <2>4. ASSUME NEW c \in Clients, Dial(c) PROVE PeerInv'
    <3>1. PICK m \in Nodes : Extends(c, 1, m) BY <2>1, <2>4, DialExtends DEF Dial
    <3>2. hops[c] = << >> /\ Len(hops[c]) = 0 /\ UNCHANGED <<dirVars, peerVars, nodeVars>>
      BY <2>1, <2>4, ChainType DEF Dial
    <3>3. \A d \in Clients \ {c} : hops'[d] = hops[d] /\ Last(d)' = Last(d) /\ Server(d)' = Server(d)
      BY <3>1 DEF Extends, Last, Server, NodeOf
    <3>4. ~Joined(c)'
      BY <3>2 DEF PeerInv, JoinedIsServed, Joined, peerVars
    <3>5. Last(c)'.at = "lookup" BY <3>1, <3>2 DEF Extends, Last, Hop
    <3>6. \A d \in Clients : Joined(d)' =>
            /\ SamePeer(d)
            /\ Last(d)'.at = "serving" \/ (Last(d)'.at = "closePeer" /\ join[d] = "joined")
      <4> SUFFICES ASSUME NEW d \in Clients, Joined(d)'
                   PROVE  /\ SamePeer(d)
                          /\ Last(d)'.at = "serving" \/ (Last(d)'.at = "closePeer" /\ join[d] = "joined")
        OBVIOUS
      <4>1. d # c /\ Joined(d) BY <3>2, <3>4 DEF Joined, peerVars
      <4> QED BY <3>2, <3>3, <4>1 DEF PeerInv, JoinedIsServed, SamePeer, peerVars
    <3>7. \A d \in Clients : Unregistering(d)' => Unregistering(d) /\ Server(d)' = Server(d)
      BY <3>3, <3>5 DEF Unregistering
    <3>8. \A d \in Clients : SameEntry(d) BY <3>2 DEF SameEntry, nodeVars
    <3>9. UNCHANGED closed BY <3>2 DEF nodeVars
    <3> QED BY <2>3, <3>2, <3>6, <3>7, <3>8, <3>9, PeerFrame
  <2>5. ASSUME NEW c \in Clients, Handler(c) PROVE PeerInv'
    BY <2>5, HandlerPeers, ClosePeerPeers DEF Handler
  <2>6. ASSUME NEW c \in Clients, Join(c) \/ JoinSession(c) PROVE PeerInv'
    BY <2>6, JoinPeers, JoinSessionPeers
  <2>7. ASSUME NEW n \in Nodes, Crash(n) \/ Exit(n) PROVE PeerInv'
    BY <2>7, StopPeers DEF Crash, Exit
  <2>8. ASSUME NEW c \in Clients, Leave(c) PROVE PeerInv'
    BY <2>2, <2>3, <2>8 DEF Leave
  <2>9. ASSUME NEW n \in Nodes,
               Start(n) \/ GotSignal(n) \/ CountClients(n) \/ CountProxyClients(n)
        PROVE  PeerInv'
    BY <2>2, <2>3, <2>9 DEF Start, GotSignal, CountClients, CountProxyClients, hopVars
  <2>10. ASSUME NEW s \in Sids, KeyExpires(s) PROVE PeerInv'
    <3>1. KeySteps BY <2>10 DEF KeyExpires, KeySteps, KeyStep, BasicType, DirType
    <3> QED BY <2>2, <2>10, <3>1 DEF KeyExpires, hopVars
  <2>11. CASE UNCHANGED vars BY <2>2, <2>3, <2>11 DEF vars, hopVars
  <2> QED BY <2>4, <2>5, <2>6, <2>7, <2>8, <2>9, <2>10, <2>11 DEF Next, MainLoop
<1> QED BY <1>1, <1>2, BasicTypeInvariant, OthersProxyInvariant, PTL DEF Spec

(***************************************************************************)
(* pkg/server_jsonrpc.go, pkg/coordinator_etcd.go: peers that joined a     *)
(* session in the same term of its key are in one Session, if theirs are   *)
(* open, however many nodes their clients came in by and whatever crashed, *)
(* expired or was unregistered meanwhile.                                  *)
(***************************************************************************)
THEOREM PeersMeetInTerm == Spec => []PeersOfOneTermMeet
<1>1. PeerInv => PeersOfOneTermMeet
  <2> SUFFICES ASSUME PeerInv, NEW c \in Clients, NEW d \in Clients,
                      InOpenSession(c), InOpenSession(d), Sid[c] = Sid[d], term[c] = term[d]
               PROVE  sess[c] = sess[d]
    BY DEF PeersOfOneTermMeet, InOpenSession
  <2>1. Server(c) = Server(d) BY DEF PeerInv, OneServerPerTerm, InOpenSession, Joined
  <2> QED BY <2>1 DEF PeerInv, OpenIsRegistered
<1> QED BY <1>1, PeerInvariant, PTL

-------------------------------------------------------------------------------
\* The length of a chain

\* Two processes do not listen at one endpoint.
OneAtEndpoint == \A m, n \in Nodes : Up(m) /\ Up(n) /\ Endpoint[m] = Endpoint[n] => m = n

\* A handler that runs has a process that runs, and is redirected to another node only.
HopIsUp ==
  \A c \in Clients : \A i \in 1 .. Len(hops[c]) : hops[c][i].at # "done" => Up(hops[c][i].node)

RedirectedElsewhere ==
  \A c \in Clients : \A i \in 1 .. Len(hops[c]) :
    hops[c][i].at = "redirected" => hops[c][i].to \in Nodes \ {hops[c][i].node}

\* A session with an owner was taken.
OwnedIsTaken == \A s \in Sids : owner[s] # None => takes[s] >= 1

\* The hops of c that led from one process to another.
Dials(c) == Len(hops[c]) - 1 - Cardinality(SelfDials(c))

Elsewhere(m, n) == Endpoint[m] # Endpoint[n]

\* Dials(c), when the last handler has followed its redirect.
Ahead(c) == Dials(c) + (IF Elsewhere(Last(c).to, Server(c)) THEN 1 ELSE 0)

\* A chain is no longer than the owners of its session account for; one that is about
\* to grow because the key names another node leaves room for that owner, too.
LoopBound(c) ==
  /\ Dials(c) <= takes[Sid[c]]
  /\ Last(c).at = "lookup" /\ owner[Sid[c]] # None /\ Elsewhere(owner[Sid[c]], Server(c))
       => Dials(c) + 1 <= takes[Sid[c]]
  /\ Last(c).at = "redirected" => Ahead(c) <= takes[Sid[c]]
  /\ Last(c).at = "redirected" /\ owner[Sid[c]] \notin {None, Last(c).to}
       => Ahead(c) + 1 <= takes[Sid[c]]

LoopInv == \A c \in Clients : hops[c] # << >> => LoopBound(c)

PlaceInv == OneAtEndpoint /\ HopIsUp /\ RedirectedElsewhere /\ OwnedIsTaken

LEMMA SelfDialsFinite ==
  ASSUME ChainsType, NEW c \in Clients
  PROVE  IsFiniteSet(SelfDials(c)) /\ Cardinality(SelfDials(c)) \in Nat /\ Dials(c) \in Int
<1>1. Len(hops[c]) \in Nat BY ChainType
<1>2. IsFiniteSet(1 .. Len(hops[c]) - 1) BY <1>1, FS_Interval
<1>3. SelfDials(c) \in SUBSET (1 .. Len(hops[c]) - 1) BY DEF SelfDials
<1>4. IsFiniteSet(SelfDials(c)) BY <1>2, <1>3, FS_Subset
<1>5. Cardinality(SelfDials(c)) \in Nat BY <1>4, FS_CardinalityType
<1> QED BY <1>1, <1>4, <1>5 DEF Dials

\* d's chain has the same processes in it, for the same reasons.
SamePlaces(d) ==
  /\ Len(hops'[d]) = Len(hops[d])
  /\ \A j \in 1 .. Len(hops[d]) : /\ hops'[d][j].node = hops[d][j].node
                                  /\ j < Len(hops[d]) => hops'[d][j].to = hops[d][j].to

LEMMA DialsStay ==
  ASSUME ChainsType, NEW d \in Clients, SamePlaces(d)
  PROVE  Dials(d)' = Dials(d)
<1>1. Len(hops[d]) \in Nat BY ChainType
<1>2. \A i \in 1 .. Len(hops[d]) - 1 :
        /\ i \in 1 .. Len(hops[d]) /\ i + 1 \in 1 .. Len(hops[d]) /\ i < Len(hops[d])
  BY <1>1
<1>3. \A i \in 1 .. Len(hops[d]) - 1 :
        /\ hops'[d][i].node = hops[d][i].node /\ hops'[d][i].to = hops[d][i].to
        /\ hops'[d][i + 1].node = hops[d][i + 1].node
  BY <1>2 DEF SamePlaces
<1>4. SelfDials(d)' = SelfDials(d)
  BY <1>3 DEF SelfDials, NodeOf, SamePlaces
<1> QED BY <1>4 DEF Dials, SamePlaces

\* A chain keeps its bound while it stays as it is, whatever happens to the key.
LEMMA LoopFrame ==
  ASSUME BasicType, NEW d \in Clients, hops[d] # << >>, LoopBound(d), SamePlaces(d),
         Last(d)'.at \in {"lookup", "redirected"} => Last(d)' = Last(d),
         KeyStep(Sid[d])
  PROVE  LoopBound(d)'
<1> DEFINE s == Sid[d]
<1>1. ChainsType /\ DirType BY DEF BasicType
<1>2. Dials(d)' = Dials(d) /\ Dials(d) \in Int BY <1>1, DialsStay, SelfDialsFinite
<1>3. takes[s] \in Nat BY <1>1 DEF DirType
<1>4. Server(d)' = Server(d)
  BY <1>1, ServerType DEF SamePlaces, Server, NodeOf
<1>5. Last(d)'.at \in {"lookup", "redirected"} => Last(d)' = Last(d) /\ Ahead(d)' = Ahead(d)
  BY <1>2, <1>4 DEF Ahead, Elsewhere
<1>6. Ahead(d) \in Int BY <1>2 DEF Ahead
<1> HIDE DEF s
<1>7. CASE owner'[s] = owner[s] /\ takes'[s] = takes[s]
  BY <1>2, <1>4, <1>5, <1>7 DEF LoopBound, Elsewhere, s
<1>8. CASE owner'[s] = None /\ takes'[s] = takes[s]
  BY <1>2, <1>4, <1>5, <1>8 DEF LoopBound, s
<1>9. CASE takes'[s] = takes[s] + 1
  <2>1. Dials(d) <= takes[s] /\ (Last(d).at = "redirected" => Ahead(d) <= takes[s])
    BY DEF LoopBound, s
  <2>2. Dials(d)' + 1 <= takes'[s] /\ Dials(d)' <= takes'[s] BY <1>2, <1>3, <1>9, <2>1
  <2>3. Last(d)'.at = "redirected" => Ahead(d)' + 1 <= takes'[s] /\ Ahead(d)' <= takes'[s]
    BY <1>3, <1>5, <1>6, <1>9, <2>1
  <2> QED BY <2>2, <2>3 DEF LoopBound, s
<1> QED BY <1>7, <1>8, <1>9 DEF KeyStep, s

\* Every step treats every key as KeyStep says.
LEMMA HandlerKeys ==
  ASSUME BasicType, NEW c \in Clients, Handler(c)
  PROVE  KeySteps /\ UNCHANGED process
<1>1. ChainsType /\ DirType BY DEF BasicType
<1>2. \A i \in DOMAIN hops[c] : NodeOf(c, i) \in Nodes BY <1>1, ChainType DEF NodeOf
<1>3. UNCHANGED dirVars => KeySteps BY DEF dirVars, KeySteps, KeyStep
<1>4. ASSUME NEW i \in DOMAIN hops[c], Lookup(c, i) \/ LookupFails(c, i)
      PROVE  KeySteps /\ UNCHANGED process
  BY <1>1, <1>2, <1>4, GetOrCreateSteps, GetOrCreateFailsSteps DEF Lookup, LookupFails
<1>5. ASSUME NEW i \in DOMAIN hops[c], Unregister(c, i) \/ UnregisterFails(c, i)
      PROVE  KeySteps /\ UNCHANGED process
  BY <1>1, <1>5 DEF Unregister, UnregisterFails, DirType, KeySteps, KeyStep
<1>6. ASSUME NEW i \in DOMAIN hops[c],
             \/ StartProxy(c, i) \/ DialFails(c, i) \/ ProxyUpgrades(c, i) \/ ProxyEnds(c, i)
             \/ Serve(c, i) \/ ServeEnds(c, i) \/ ClosePeer(c, i)
      PROVE  KeySteps /\ UNCHANGED process
  BY <1>3, <1>6 DEF StartProxy, DialFails, ProxyUpgrades, ProxyEnds, Serve, ServeEnds, ClosePeer
<1> QED BY <1>4, <1>5, <1>6 DEF Handler

LEMMA NextKeys ==
  ASSUME BasicType, [Next]_vars
  PROVE  KeySteps
<1>1. ChainsType /\ DirType BY DEF BasicType
<1>2. UNCHANGED dirVars => KeySteps BY DEF dirVars, KeySteps, KeyStep
<1>3. ASSUME NEW c \in Clients, Dial(c) \/ Leave(c) \/ JoinSession(c) PROVE KeySteps
  BY <1>2, <1>3 DEF Dial, Leave, JoinSession
<1>4. ASSUME NEW c \in Clients, Join(c) PROVE KeySteps
  <2>1. Server(c) \in Nodes BY <1>1, <1>4, ServerType DEF Join, Reachable
  <2> QED BY <1>1, <1>4, <2>1, GetOrCreateSteps, GetOrCreateFailsSteps DEF Join
<1>5. ASSUME NEW n \in Nodes, Crash(n) \/ Start(n) \/ GotSignal(n) \/ MainLoop(n) PROVE KeySteps
  BY <1>2, <1>5 DEF Crash, Start, GotSignal, MainLoop, CountClients, CountProxyClients, Exit, Stop
<1>6. ASSUME NEW s \in Sids, KeyExpires(s) PROVE KeySteps
  BY <1>1, <1>6 DEF KeyExpires, KeySteps, KeyStep, DirType
<1>7. CASE UNCHANGED vars BY <1>2, <1>7 DEF vars
<1> QED BY <1>3, <1>4, <1>5, <1>6, <1>7, HandlerKeys DEF Next

LEMMA PlaceInvariant == Spec => []PlaceInv
<1>1. Init => PlaceInv
  <2> SUFFICES ASSUME Init PROVE PlaceInv
    OBVIOUS
  <2>1. \A n \in Nodes : Up(n) => n \in Started BY DEF Init, Up
  <2>2. OneAtEndpoint BY <2>1, ClusterConstants DEF OneAtEndpoint
  <2>3. HopIsUp /\ RedirectedElsewhere BY EmptySeq DEF Init, HopIsUp, RedirectedElsewhere
  <2>4. OwnedIsTaken BY DEF Init, OwnedIsTaken
  <2> QED BY <2>2, <2>3, <2>4 DEF PlaceInv
<1>2. BasicType /\ PlaceInv /\ [Next]_vars => PlaceInv'
  <2> SUFFICES ASSUME BasicType, PlaceInv, [Next]_vars PROVE PlaceInv'
    OBVIOUS
  <2>1. ChainsType /\ DirType /\ ProcessType BY DEF BasicType
  <2>2. OwnedIsTaken'
    <3> SUFFICES ASSUME NEW s \in Sids, owner'[s] # None PROVE takes'[s] >= 1
      BY DEF OwnedIsTaken
    <3>1. KeyStep(s) BY NextKeys DEF KeySteps
    <3>2. takes[s] \in Nat BY <2>1 DEF DirType
    <3> QED BY <3>1, <3>2 DEF KeyStep, PlaceInv, OwnedIsTaken
  <2>3. CASE UNCHANGED <<hops, process>>
    BY <2>2, <2>3 DEF PlaceInv, OneAtEndpoint, HopIsUp, RedirectedElsewhere, Up
  <2>4. UNCHANGED process => OneAtEndpoint' /\ \A n \in Nodes : Up(n)' <=> Up(n)
    BY DEF PlaceInv, OneAtEndpoint, Up
  <2>5. ASSUME NEW c \in Clients, Dial(c) PROVE PlaceInv'
    <3>1. PICK m \in Nodes : Up(m) /\ hops' = [hops EXCEPT ![c] = <<Hop(m, "lookup")>>]
      BY <2>5 DEF Dial
    <3>2. UNCHANGED process BY <2>5 DEF Dial
    <3>3. /\ \A d \in Clients \ {c} : hops'[d] = hops[d]
          /\ Len(hops'[c]) = 1 /\ hops'[c][1] = Hop(m, "lookup")
      <4>1. hops[c] = << >> /\ Len(hops[c]) = 0 BY <2>1, <2>5, ChainType DEF Dial
      <4>2. Extends(c, 1, m) BY <2>1, <3>1, <4>1, DialExtends
      <4> QED BY <4>1, <4>2 DEF Extends
    <3>4. HopIsUp' /\ RedirectedElsewhere'
      <4> SUFFICES ASSUME NEW d \in Clients, NEW j \in 1 .. Len(hops'[d])
                   PROVE  /\ hops'[d][j].at # "done" => Up(hops[d][j].node)'
                          /\ hops'[d][j].at = "redirected"
                               => hops'[d][j].to \in Nodes \ {hops'[d][j].node}
        BY DEF HopIsUp, RedirectedElsewhere
      <4>1. CASE d = c
        <5>1. Len(hops'[d]) = 1 /\ hops'[d][1] = Hop(m, "lookup") BY <3>3, <4>1
        <5>2. j = 1 BY <5>1
        <5> QED BY <3>1, <3>2, <5>1, <5>2 DEF Hop, Up
      <4>2. CASE d # c
        BY <3>2, <3>3, <4>2 DEF PlaceInv, HopIsUp, RedirectedElsewhere, Up
      <4> QED BY <4>1, <4>2
    <3> QED BY <2>2, <2>4, <3>2, <3>4 DEF PlaceInv
  <2>6. ASSUME NEW c \in Clients, Handler(c) PROVE PlaceInv'
    <3>1. UNCHANGED process BY <2>6, HandlerKeys
    <3>2. PICK i \in 1 .. Len(hops[c]), r \in HopRecords :
            /\ r.node = hops[c][i].node
            /\ <<hops[c][i].at, r.at>> \in Transitions
            /\ r.at = "redirected" => r.to \in Nodes \ {r.node}
            /\ \/ Moves(c, i, r)
               \/ \E m \in LiveAt(Endpoint[hops[c][i].to]) : Extends(c, i, m)
      BY <2>6, HandlerMoves DEF Handler
    <3>3. Up(hops[c][i].node)
      BY <3>2 DEF PlaceInv, HopIsUp, Transitions
    <3>5. CASE Moves(c, i, r)
      <4> SUFFICES ASSUME NEW d \in Clients, NEW j \in 1 .. Len(hops'[d])
                   PROVE  /\ hops'[d][j].at # "done" => Up(hops[d][j].node)'
                          /\ hops'[d][j].at = "redirected"
                               => hops'[d][j].to \in Nodes \ {hops'[d][j].node}
        BY <2>2, <2>4, <3>1 DEF PlaceInv, HopIsUp, RedirectedElsewhere
      <4>1. /\ j \in 1 .. Len(hops[d])
            /\ hops'[d][j] = IF d = c /\ j = i THEN r ELSE hops[d][j]
        BY <3>5 DEF Moves
      <4>2. CASE d = c /\ j = i BY <3>1, <3>2, <3>3, <4>1, <4>2 DEF Up
      <4>3. CASE ~(d = c /\ j = i)
        BY <3>1, <4>1, <4>3 DEF PlaceInv, HopIsUp, RedirectedElsewhere, Up
      <4> QED BY <4>2, <4>3
    <3>6. ASSUME NEW m \in LiveAt(Endpoint[hops[c][i].to]), Extends(c, i, m) PROVE PlaceInv'
      <4> SUFFICES ASSUME NEW d \in Clients, NEW j \in 1 .. Len(hops'[d])
                   PROVE  /\ hops'[d][j].at # "done" => Up(hops[d][j].node)'
                          /\ hops'[d][j].at = "redirected"
                               => hops'[d][j].to \in Nodes \ {hops'[d][j].node}
        BY <2>2, <2>4, <3>1 DEF PlaceInv, HopIsUp, RedirectedElsewhere
      <4>1. m \in Nodes /\ Up(m) BY <3>6 DEF LiveAt
      <4>2. CASE d # c
        BY <3>1, <3>6, <4>2 DEF Extends, PlaceInv, HopIsUp, RedirectedElsewhere, Up
      <4>3. CASE d = c /\ j = Len(hops[c]) + 1
        <5>1. hops'[d][j] = Hop(m, "lookup") BY <3>6, <4>3 DEF Extends
        <5> QED BY <3>1, <4>1, <5>1 DEF Hop, Up
      <4>4. CASE d = c /\ j # Len(hops[c]) + 1
        <5>1. Len(hops[c]) \in Nat BY <2>1, ChainType
        <5>2. j \in 1 .. Len(hops[c]) BY <3>6, <4>4, <5>1 DEF Extends
        <5>3. hops[c][i] \in HopRecords BY <2>1, ChainType
        <5>4. hops'[c][j] = IF j = i THEN [hops[c][i] EXCEPT !.at = "dialing"] ELSE hops[c][j]
          BY <3>6, <5>2 DEF Extends
        <5>5. CASE j = i
          <6>1. hops'[c][j].at = "dialing" /\ hops'[c][j].node = hops[c][i].node
            BY <5>3, <5>4, <5>5 DEF HopRecords
          <6> QED BY <3>1, <3>3, <4>4, <6>1 DEF Up
        <5>6. CASE j # i
          BY <3>1, <4>4, <5>2, <5>4, <5>6 DEF PlaceInv, HopIsUp, RedirectedElsewhere, Up
        <5> QED BY <5>5, <5>6
      <4> QED BY <4>2, <4>3, <4>4
    <3> QED BY <3>2, <3>5, <3>6
  <2>7. ASSUME NEW n \in Nodes, Crash(n) \/ Exit(n) PROVE PlaceInv'
    <3>1. PICK how \in {"crashed", "idleExit"} : Stop(n, how) BY <2>7 DEF Crash, Exit
    <3>2. Ends(n) BY <2>1, <3>1, StopEnds
    <3>3. \A m \in Nodes : Up(m)' <=> Up(m) /\ m # n
      BY <2>1, <3>1 DEF Stop, ProcessType, Up
    <3>4. OneAtEndpoint' BY <3>3 DEF PlaceInv, OneAtEndpoint
    <3>5. ASSUME NEW d \in Clients, NEW j \in 1 .. Len(hops'[d])
          PROVE  /\ hops'[d][j].at # "done" => Up(hops[d][j].node)'
                 /\ hops'[d][j].at = "redirected"
                      => hops'[d][j].to \in Nodes \ {hops'[d][j].node}
      <4>1. j \in 1 .. Len(hops[d]) BY <3>2 DEF Ends
      <4>2. hops[d][j] \in HopRecords /\ hops[d][j].node \in Nodes BY <2>1, <4>1, ChainType
      <4>3. CASE hops[d][j].node = n
        <5>1. hops'[d][j] = [hops[d][j] EXCEPT !.at = "done"] BY <3>2, <4>1, <4>3 DEF Ends
        <5> QED BY <4>2, <5>1 DEF HopRecords
      <4>4. CASE hops[d][j].node # n
        <5>1. hops'[d][j] = hops[d][j] BY <3>2, <4>1, <4>4 DEF Ends
        <5>2. Up(hops[d][j].node)' <=> Up(hops[d][j].node) BY <3>3, <4>2, <4>4, <5>1 DEF Up
        <5> QED BY <4>1, <5>1, <5>2 DEF PlaceInv, HopIsUp, RedirectedElsewhere
      <4> QED BY <4>3, <4>4
    <3>6. HopIsUp' /\ RedirectedElsewhere' BY <3>5 DEF HopIsUp, RedirectedElsewhere
    <3> QED BY <2>2, <3>4, <3>6 DEF PlaceInv
  <2>8. ASSUME NEW n \in Nodes,
               Start(n) \/ GotSignal(n) \/ CountClients(n) \/ CountProxyClients(n)
        PROVE  PlaceInv'
    <3>1. UNCHANGED hops
      BY <2>8 DEF Start, GotSignal, CountClients, CountProxyClients, hopVars
    <3>2. \A m \in Nodes : Up(m) => Up(m)'
      BY <2>1, <2>8 DEF Start, GotSignal, CountClients, CountProxyClients, ProcessType, Up
    <3>3. \A m \in Nodes : Up(m)' => Up(m) \/ (m = n /\ LiveAt(Endpoint[n]) = {})
      BY <2>1, <2>8 DEF Start, GotSignal, CountClients, CountProxyClients, ProcessType, Up
    <3>4. OneAtEndpoint' BY <3>3 DEF PlaceInv, OneAtEndpoint, LiveAt
    <3>5. \A d \in Clients : \A j \in 1 .. Len(hops[d]) : hops[d][j].node \in Nodes BY <2>1, ChainType
    <3>6. HopIsUp' /\ RedirectedElsewhere'
      BY <3>1, <3>2, <3>5 DEF PlaceInv, HopIsUp, RedirectedElsewhere, Up
    <3> QED BY <2>2, <3>4, <3>6 DEF PlaceInv
  <2>9. ASSUME NEW c \in Clients, Leave(c) \/ Join(c) \/ JoinSession(c) PROVE PlaceInv'
    BY <2>3, <2>9 DEF Leave, Join, JoinSession, hopVars
  <2>10. ASSUME NEW s \in Sids, KeyExpires(s) PROVE PlaceInv'
    BY <2>3, <2>10 DEF KeyExpires, hopVars
  <2>11. CASE UNCHANGED vars BY <2>3, <2>11 DEF vars, hopVars
  <2> QED BY <2>5, <2>6, <2>7, <2>8, <2>9, <2>10, <2>11 DEF Next, MainLoop
<1> QED BY <1>1, <1>2, BasicTypeInvariant, PTL DEF Spec

\* The last handler of c found the session at another node.
LEMMA RedirectLoop ==
  ASSUME BasicType, NEW c \in Clients, hops[c] # << >>, LoopBound(c), SamePlaces(c),
         KeyStep(Sid[c]), Last(c).at = "lookup", Last(c)'.at = "redirected",
         Last(c)'.to = owner'[Sid[c]], owner'[Sid[c]] \in Nodes
  PROVE  LoopBound(c)'
<1> DEFINE s == Sid[c]
<1>1. ChainsType /\ DirType BY DEF BasicType
<1>2. Dials(c)' = Dials(c) /\ Dials(c) \in Int BY <1>1, DialsStay, SelfDialsFinite
<1>3. takes[s] \in Nat BY <1>1 DEF DirType
<1>4. Server(c)' = Server(c)
  BY <1>1, ServerType DEF SamePlaces, Server, NodeOf
<1>5. Ahead(c)' = Dials(c) + (IF Elsewhere(owner'[s], Server(c)) THEN 1 ELSE 0)
  BY <1>2, <1>4 DEF Ahead, Elsewhere
<1>6. Dials(c) <= takes[s] BY DEF LoopBound
<1>7. owner[s] # None /\ Elsewhere(owner[s], Server(c)) => Dials(c) + 1 <= takes[s]
  BY DEF LoopBound
<1> HIDE DEF s
<1>8. Dials(c)' <= takes'[s] /\ Ahead(c)' <= takes'[s]
  <2>1. CASE owner'[s] = owner[s] /\ takes'[s] = takes[s]
    <3>1. owner[s] # None BY <2>1 DEF s
    <3>2. Elsewhere(owner'[s], Server(c)) <=> Elsewhere(owner[s], Server(c)) BY <2>1
    <3> QED BY <1>2, <1>3, <1>5, <1>6, <1>7, <2>1, <3>1, <3>2
  <2>2. CASE takes'[s] = takes[s] + 1
    BY <1>2, <1>3, <1>5, <1>6, <2>2
  <2> QED BY <2>1, <2>2 DEF KeyStep, s
<1> QED BY <1>8 DEF LoopBound, s

\* The last handler of c dialled the endpoint of the node it was redirected to.
LEMMA ProxyLoop ==
  ASSUME BasicType, PlaceInv, NEW c \in Clients, LoopBound(c), KeyStep(Sid[c]),
         NEW i \in 1 .. Len(hops[c]), i = Len(hops[c]), hops[c][i].at = "redirected",
         NEW m \in LiveAt(Endpoint[hops[c][i].to]), Extends(c, i, m)
  PROVE  LoopBound(c)'
<1> DEFINE s == Sid[c]
           L == Len(hops[c])
           n == hops[c][i].node
           to == hops[c][i].to
<1>1. ChainsType /\ DirType BY DEF BasicType
<1>2. L \in Nat /\ hops[c][i] \in HopRecords /\ n \in Nodes BY <1>1, ChainType
<1>3. m \in Nodes /\ Up(m) /\ Endpoint[m] = Endpoint[to] BY DEF LiveAt
<1>4. Up(n) /\ to \in Nodes /\ to # n
  <2>1. Up(n) BY DEF PlaceInv, HopIsUp
  <2>2. to \in Nodes \ {n} BY DEF PlaceInv, RedirectedElsewhere
  <2> QED BY <2>1, <2>2
<1>5. m = n <=> ~Elsewhere(to, n)
  BY <1>2, <1>3, <1>4 DEF PlaceInv, OneAtEndpoint, Elsewhere
<1>6. Last(c) = hops[c][i] /\ Server(c) = n BY DEF Last, Server, NodeOf
<1>7. /\ Len(hops'[c]) = L + 1 /\ hops'[c][L + 1] = Hop(m, "lookup")
      /\ \A j \in 1 .. L : hops'[c][j].node = hops[c][j].node /\ hops'[c][j].to = hops[c][j].to
  <2>1. [hops[c][i] EXCEPT !.at = "dialing"].node = n /\ [hops[c][i] EXCEPT !.at = "dialing"].to = to
    BY <1>2 DEF HopRecords
  <2>2. \A j \in 1 .. L : hops'[c][j] = IF j = i THEN [hops[c][i] EXCEPT !.at = "dialing"] ELSE hops[c][j]
    BY DEF Extends
  <2>3. \A j \in 1 .. L : hops'[c][j].node = hops[c][j].node /\ hops'[c][j].to = hops[c][j].to
    BY <2>1, <2>2
  <2> QED BY <2>3 DEF Extends
<1>8. Last(c)'.at = "lookup" /\ Server(c)' = m BY <1>7 DEF Last, Server, NodeOf, Hop
<1>9. SelfDials(c)' = IF m = n THEN SelfDials(c) \cup {L} ELSE SelfDials(c)
  <2> DEFINE Self(j) == hops[c][j].node = hops[c][j + 1].node /\ hops[c][j].to # hops[c][j].node
  <2>1. SelfDials(c) = {j \in 1 .. L - 1 : Self(j)} BY DEF SelfDials, NodeOf
  <2>2. SelfDials(c)' = {j \in 1 .. L : hops'[c][j].node = hops'[c][j + 1].node
                                        /\ hops'[c][j].to # hops'[c][j].node}
    <3>1. Len(hops'[c]) - 1 = L BY <1>2, <1>7
    <3> QED BY <3>1 DEF SelfDials, NodeOf
  <2>3. hops'[c][L + 1].node = m BY <1>7 DEF Hop
  <2>4. \A j \in 1 .. L - 1 : j \in 1 .. L /\ j + 1 \in 1 .. L BY <1>2
  <2>5. \A j \in 1 .. L - 1 : j \in SelfDials(c)' <=> j \in SelfDials(c)
    BY <1>7, <2>1, <2>2, <2>4
  <2>6. L \in SelfDials(c)' <=> m = n
    <3>1. L \in 1 .. L /\ hops'[c][L].node = n /\ hops'[c][L].to = to BY <1>7
    <3> QED BY <1>4, <2>2, <2>3, <3>1
  <2>7. \A j \in 1 .. L : j \in 1 .. L - 1 \/ j = L BY <1>2
  <2>8. SelfDials(c) \subseteq 1 .. L - 1 /\ SelfDials(c)' \subseteq 1 .. L /\ L \notin 1 .. L - 1
    BY <1>2, <2>1, <2>2
  <2>9. L \notin SelfDials(c) BY <2>8
  <2>10. \A j : j \in SelfDials(c)' <=> (j \in SelfDials(c) \/ (j = L /\ m = n))
    <3> SUFFICES ASSUME NEW j
                 PROVE  j \in SelfDials(c)' <=> (j \in SelfDials(c) \/ (j = L /\ m = n))
      OBVIOUS
    <3>1. CASE j \in 1 .. L - 1 BY <2>5, <2>8, <3>1
    <3>2. CASE j = L BY <2>6, <2>9, <3>2
    <3>3. CASE j \notin 1 .. L BY <2>4, <2>8, <3>2, <3>3
    <3> QED BY <2>7, <3>1, <3>2, <3>3
  <2>11. CASE m = n
    <3>1. SelfDials(c)' = SelfDials(c) \cup {L} BY <2>10, <2>11
    <3> QED BY <2>11, <3>1
  <2>12. CASE m # n
    <3>1. SelfDials(c)' = SelfDials(c) BY <2>10, <2>12
    <3> QED BY <2>12, <3>1
  <2> QED BY <2>11, <2>12
<1>10. IsFiniteSet(SelfDials(c)) /\ Cardinality(SelfDials(c)) \in Nat BY <1>1, SelfDialsFinite
<1>11. Cardinality(SelfDials(c)') = Cardinality(SelfDials(c)) + (IF m = n THEN 1 ELSE 0)
  <2>1. L \notin SelfDials(c)
    BY <1>2 DEF SelfDials
  <2>2. CASE m = n BY <1>9, <1>10, <2>1, <2>2, FS_AddElement
  <2>3. CASE m # n BY <1>9, <1>10, <2>3
  <2> QED BY <2>2, <2>3
<1>12. Dials(c)' = Ahead(c) /\ Ahead(c) \in Int
  <2>1. Dials(c)' = L + 1 - 1 - Cardinality(SelfDials(c)')
    <3>1. Dials(c)' = Len(hops'[c]) - 1 - Cardinality(SelfDials(c)') BY DEF Dials
    <3>2. Len(hops'[c]) = L + 1 BY <1>7
    <3>3. Cardinality(SelfDials(c)') \in Int BY <1>10, <1>11
    <3> QED BY <1>2, <3>1, <3>2, <3>3
  <2>2. Ahead(c) = L - 1 - Cardinality(SelfDials(c)) + (IF Elsewhere(to, n) THEN 1 ELSE 0)
    BY <1>6 DEF Ahead, Dials
  <2> HIDE DEF L
  <2> QED BY <1>2, <1>5, <1>10, <1>11, <2>1, <2>2
<1>13. /\ Ahead(c) <= takes[s]
       /\ owner[s] \notin {None, to} => Ahead(c) + 1 <= takes[s]
  BY <1>6 DEF LoopBound
<1>14. takes[s] \in Nat BY <1>1 DEF DirType
<1>15. Elsewhere(owner'[s], m) => owner'[s] # to BY <1>3 DEF Elsewhere
<1> HIDE DEF s, to, n, L
<1>16. /\ Ahead(c) <= takes'[s]
       /\ owner'[s] # None /\ Elsewhere(owner'[s], m) => Ahead(c) + 1 <= takes'[s]
  BY <1>12, <1>13, <1>14, <1>15 DEF KeyStep, s
<1> QED BY <1>8, <1>12, <1>16 DEF LoopBound, Elsewhere, s

LEMMA LoopInvariant == Spec => []LoopInv
<1>1. Init => LoopInv BY DEF Init, LoopInv
<1>2. BasicType /\ OthersProxy /\ PlaceInv /\ LoopInv /\ [Next]_vars => LoopInv'
  <2> SUFFICES ASSUME BasicType, OthersProxy, PlaceInv, LoopInv, [Next]_vars,
                      NEW d \in Clients, hops'[d] # << >>
               PROVE  LoopBound(d)'
    BY DEF LoopInv
  <2>1. ChainsType /\ DirType BY DEF BasicType
  <2>2. KeyStep(Sid[d]) BY NextKeys DEF KeySteps
  <2>3. CASE hops'[d] = hops[d]
    <3>1. hops[d] # << >> /\ SamePlaces(d) /\ Last(d)' = Last(d)
      BY <2>3 DEF SamePlaces, Last
    <3> QED BY <2>2, <3>1, LoopFrame DEF LoopInv
  <2>4. ASSUME NEW c \in Clients, Dial(c) PROVE LoopBound(d)'
    <3>1. PICK m \in Nodes : Extends(c, 1, m) BY <2>1, <2>4, DialExtends DEF Dial
    <3>2. CASE d # c BY <2>3, <3>1, <3>2 DEF Extends
    <3>3. CASE d = c
      <4>1. Len(hops[c]) = 0 /\ UNCHANGED dirVars BY <2>1, <2>4, ChainType DEF Dial
      <4>2. Len(hops'[c]) = 1 /\ Last(c)'.at = "lookup"
        BY <3>1, <4>1 DEF Extends, Last, Hop
      <4>3. Dials(c)' = 0
        <5>1. \A j \in 1 .. Len(hops'[c]) - 1 : FALSE BY <4>2
        <5>2. SelfDials(c)' = {} BY <5>1 DEF SelfDials
        <5>3. Cardinality(SelfDials(c)') = 0 BY <5>2, FS_EmptySet
        <5> QED BY <4>2, <5>3 DEF Dials
      <4>4. /\ takes'[Sid[c]] \in Nat
            /\ owner'[Sid[c]] # None => 1 <= takes'[Sid[c]]
        BY <2>1, <4>1 DEF dirVars, DirType, PlaceInv, OwnedIsTaken
      <4> QED BY <3>3, <4>2, <4>3, <4>4 DEF LoopBound
    <3> QED BY <3>2, <3>3
  <2>5. ASSUME NEW c \in Clients, Handler(c) PROVE LoopBound(d)'
    <3>1. PICK i \in DOMAIN hops[c] :
            \/ Lookup(c, i) \/ LookupFails(c, i)
            \/ StartProxy(c, i) \/ DialFails(c, i) \/ ProxyUpgrades(c, i) \/ ProxyEnds(c, i)
            \/ Serve(c, i) \/ ServeEnds(c, i) \/ ClosePeer(c, i)
            \/ Unregister(c, i) \/ UnregisterFails(c, i)
      BY <2>5 DEF Handler
    <3>2. PICK r \in HopRecords :
            /\ r.node = hops[c][i].node
            /\ <<hops[c][i].at, r.at>> \in Transitions
            /\ IF r.at = "redirected" THEN r.to = owner'[Sid[c]] /\ r.to \in Nodes \ {r.node}
                                      ELSE r.to = hops[c][i].to
            /\ \/ Moves(c, i, r)
               \/ /\ hops[c][i].at = "redirected"
                  /\ \E m \in LiveAt(Endpoint[hops[c][i].to]) : Extends(c, i, m)
      BY <3>1, HandlerMoves
    <3>3. i \in 1 .. Len(hops[c]) /\ Len(hops[c]) \in Nat /\ hops[c] # << >>
      BY <2>1, ChainType
    <3>4. CASE d # c
      BY <2>3, <3>1, <3>4, LastMoves
    <3>5. CASE d = c /\ Moves(c, i, r)
      <4>1. r.at = "redirected" => hops[c][i].at = "lookup" /\ i = Len(hops[c])
        BY <2>1, <3>2, <3>3, OnlyLastServes DEF Transitions
      <4>2. SamePlaces(c)
        BY <3>2, <3>3, <3>5, <4>1 DEF SamePlaces, Moves
      <4>3. Last(c)' = IF i = Len(hops[c]) THEN r ELSE Last(c)
        BY <3>3, <3>5 DEF Moves, Last
      <4>4. r.at # "lookup" BY <3>2 DEF Transitions
      <4>5. LoopBound(c) BY <3>3 DEF LoopInv
      <4>6. CASE r.at = "redirected"
        <5>1. Last(c).at = "lookup" BY <4>1, <4>6 DEF Last
        <5> QED BY <2>2, <3>2, <3>3, <3>5, <4>1, <4>2, <4>3, <4>5, <4>6, <5>1, RedirectLoop
      <4>7. CASE r.at # "redirected"
        <5>1. Last(c)'.at \in {"lookup", "redirected"} => Last(c)' = Last(c)
          BY <4>3, <4>4, <4>7
        <5> QED BY <2>2, <3>3, <3>5, <4>2, <4>5, <5>1, LoopFrame
      <4> QED BY <4>6, <4>7
    <3>6. ASSUME d = c, hops[c][i].at = "redirected",
                 NEW m \in LiveAt(Endpoint[hops[c][i].to]), Extends(c, i, m)
          PROVE  LoopBound(d)'
      <4>1. i = Len(hops[c]) BY <2>1, <3>3, <3>6, OnlyLastServes
      <4>2. LoopBound(c) BY <3>3 DEF LoopInv
      <4> QED BY <2>2, <3>3, <3>6, <4>1, <4>2, ProxyLoop
    <3> QED BY <3>2, <3>4, <3>5, <3>6
  <2>6. ASSUME NEW n \in Nodes, Crash(n) \/ Exit(n) PROVE LoopBound(d)'
    <3>1. ChainsType' /\ Ends(n) BY <2>1, <2>6, StopEnds DEF Crash, Exit
    <3>2. Len(hops'[d]) = Len(hops[d]) BY <3>1 DEF Ends
    <3>3. Len(hops[d]) \in 1 .. Len(hops[d]) /\ hops[d] # << >>
      <4>1. Len(hops'[d]) # 0 BY <3>1, EmptySeq DEF ChainsType
      <4> QED BY <2>1, <3>2, <4>1, ChainType
    <3>4. \A j \in 1 .. Len(hops[d]) :
            /\ hops'[d][j].node = hops[d][j].node /\ hops'[d][j].to = hops[d][j].to
            /\ hops'[d][j] = hops[d][j] \/ hops'[d][j].at = "done"
      <4> SUFFICES ASSUME NEW j \in 1 .. Len(hops[d])
                   PROVE  /\ hops'[d][j].node = hops[d][j].node /\ hops'[d][j].to = hops[d][j].to
                          /\ hops'[d][j] = hops[d][j] \/ hops'[d][j].at = "done"
        OBVIOUS
      <4>1. hops[d][j] \in HopRecords BY <2>1, ChainType
      <4>2. hops'[d][j] = hops[d][j] \/ hops'[d][j] = [hops[d][j] EXCEPT !.at = "done"]
        BY <3>1 DEF Ends
      <4> QED BY <4>1, <4>2 DEF HopRecords
    <3>5. SamePlaces(d) BY <3>2, <3>4 DEF SamePlaces
    <3>6. Last(d)' = Last(d) \/ Last(d)'.at = "done" BY <3>2, <3>3, <3>4 DEF Last
    <3> QED BY <2>2, <3>3, <3>5, <3>6, LoopFrame DEF LoopInv
  <2>7. ASSUME NEW c \in Clients, Leave(c) \/ Join(c) \/ JoinSession(c) PROVE LoopBound(d)'
    BY <2>3, <2>7 DEF Leave, Join, JoinSession, hopVars
  <2>8. ASSUME NEW n \in Nodes,
               Start(n) \/ GotSignal(n) \/ CountClients(n) \/ CountProxyClients(n)
        PROVE  LoopBound(d)'
    BY <2>3, <2>8 DEF Start, GotSignal, CountClients, CountProxyClients, hopVars
  <2>9. ASSUME NEW s \in Sids, KeyExpires(s) PROVE LoopBound(d)'
    BY <2>3, <2>9 DEF KeyExpires, hopVars
  <2>10. CASE UNCHANGED vars BY <2>3, <2>10 DEF vars, hopVars
  <2> QED BY <2>4, <2>5, <2>6, <2>7, <2>8, <2>9, <2>10 DEF Next, MainLoop
<1> QED BY <1>1, <1>2, BasicTypeInvariant, OthersProxyInvariant, PlaceInvariant, PTL DEF Spec

(***************************************************************************)
(* pkg/server.go: the proxies do not chase a session in circles.  Every    *)
(* hop of a client from one process to another is accounted for by another *)
(* owner of its session, in any cluster, through any crashes and restarts  *)
(* at the same endpoint and however slow the handlers are.                 *)
(***************************************************************************)
THEOREM ChainsAreBounded == Spec => []NoProxyLoop
<1>1. BasicType /\ LoopInv => NoProxyLoop
  <2> SUFFICES ASSUME BasicType, LoopInv, NEW c \in Clients
               PROVE  Len(hops[c]) <= 1 + takes[Sid[c]] + Cardinality(SelfDials(c))
    BY DEF NoProxyLoop
  <2>1. ChainsType BY DEF BasicType
  <2>2. /\ Len(hops[c]) \in Nat /\ Cardinality(SelfDials(c)) \in Nat /\ takes[Sid[c]] \in Nat
    BY <2>1, ChainType, SelfDialsFinite DEF BasicType, DirType
  <2>3. CASE hops[c] = << >>
    <3>1. Len(hops[c]) = 0 BY <2>1, <2>3, ChainType
    <3> QED BY <2>2, <3>1
  <2>4. CASE hops[c] # << >>
    <3>1. Len(hops[c]) - 1 - Cardinality(SelfDials(c)) <= takes[Sid[c]]
      BY <2>4 DEF LoopInv, LoopBound, Dials
    <3> QED BY <2>2, <3>1
  <2> QED BY <2>3, <2>4
<1> QED BY <1>1, BasicTypeInvariant, LoopInvariant, PTL
===============================================================================
