----------------------------- MODULE Client_proofs -----------------------------
(***************************************************************************)
(* Theorems about Client, for any bounds and any faults.                   *)
(*                                                                         *)
(* Everything rests on one fact about the websocket: a goroutine has at    *)
(* most one Call under way, which is a request on its way to the server,   *)
(* the handler of join, a reply on its way back, or a reply that was read. *)
(* So an answer that a goroutine takes is the one to its own latest        *)
(* request, although the error reply to a candidate may end Join while its *)
(* Call is still under way.                                                *)
(***************************************************************************)
EXTENDS Client, SequenceTheorems, TLAPS

-------------------------------------------------------------------------------
\* The parts of the inductive invariant

ClosedIsEmpty == ~open => toServer = <<>> /\ toClient = <<>>

\* Nothing goes on before join, or if it was not sent.
NotStarted == at["main"] = "start" \/ (at["main"] = "returned" /\ localOffer = 0)

StartInv ==
  NotStarted =>
    /\ toServer = <<>> /\ toClient = <<>> /\ peer = "none" /\ serving = "idle"
    /\ localOffer = 0 /\ ~subRemote /\ ~wanted /\ ~negotiationPending

Requests == {"join", "offer", "ping"}
Replies  == {"reply", "error"}

\* No message of a kind in ms, or at most one, is for goroutine g.
Clear(q, ms, g) == \A i \in DOMAIN q : q[i].m \in ms => q[i].by # g
AtMostOne(q, ms, g) ==
  \A i, j \in DOMAIN q : {q[i].m, q[j].m} \subseteq ms /\ q[i].by = g /\ q[j].by = g => i = j

NoRequest(g) == Clear(toServer, Requests, g)
NoReply(g)   == Clear(toClient, Replies, g)

\* The error reply to a notification.
Stray(msg) == msg.m = "error" /\ msg.by = "none"

\* Nothing of a Call of g is under way.  A goroutine that returned from Join may have
\* done so too early.
CallOver(g) ==
  \/ at[g] \notin Waiting \cup {"returned"}
  \/ reply[g] # <<>> /\ reply[g][1].by = g

\* The Call of g is in one place.
OneCall(g) ==
  /\ AtMostOne(toServer, Requests, g) /\ AtMostOne(toClient, Replies, g)
  /\ NoRequest(g) \/ NoReply(g)
  /\ CallOver(g) => NoRequest(g) /\ NoReply(g)
  /\ at[g] \notin Waiting \cup {"exit"} => reply[g] = <<>>
  /\ reply[g] # <<>> => reply[g][1].by = g \/ (at[g] = "joinWait" /\ Stray(reply[g][1]))

JoinIsServed ==
  open /\ serving = "join" =>
    /\ at["main"] \in {"joinWait", "returned"} /\ ~CallOver("main")
    /\ NoRequest("main") /\ NoReply("main")

\* What a Call that is under way is about.
Asks(msg) ==
  /\ msg.m \in Requests => msg.by \in Callers
  /\ msg.m = "join"  => msg.by = "main" /\ at["main"] \in {"joinWait", "returned"}
  /\ msg.m = "offer" => at[msg.by] = "offerWait" /\ msg.n = created[msg.by]
  /\ msg.m = "ping"  => at[msg.by] = "pingWait"

Negotiating == {"joinWait", "offerWait"}

Tells(msg) ==
  /\ msg.m \in Replies => msg.by \in Callers \/ Stray(msg)
  /\ msg.m = "reply" /\ at[msg.by] \in Negotiating => msg.n = created[msg.by]

Numbers ==
  /\ \A i \in DOMAIN toServer : Asks(toServer[i])
  /\ \A i \in DOMAIN toClient : Tells(toClient[i])
  /\ \A g \in Callers : reply[g] # <<>> /\ reply[g][1].m = "reply" /\ at[g] \in Negotiating =>
       reply[g][1].n = created[g]

CallInv == (\A g \in Callers : OneCall(g)) /\ JoinIsServed /\ Numbers

\* Where the goroutines are, and what pub has been given by then.
Joining == {"start", "sendJoin", "joinWait", "joinApply"}

ThreadInv ==
  /\ at["ops"] \in {"idle", "createOffer", "setLocal", "offerWait", "exit"}
  /\ at["main"] # "idle"
  /\ at["main"] \in Joining \cup {"returned"} => at["ops"] = "idle" /\ ~callback
  /\ at["main"] \in Joining \cup {"publish"} => tracks = 0
  /\ at["main"] = "publishAudio" => tracks = 1

\* The goroutine that waits for an answer owns the local description.
OfferInv ==
  /\ at["main"] = "start" => signaling = "stable" /\ answered = 0
  /\ at["main"] \in {"sendJoin", "joinWait"} =>
       signaling = "haveLocalOffer" /\ localOffer = 1 /\ created["main"] = 1
  /\ \A g \in Callers : at[g] = "setLocal" => created[g] \in 1 .. Len(content)
  /\ \A g \in Callers : at[g] = "offerWait" =>
       signaling = "haveLocalOffer" /\ localOffer = created[g]
  /\ ~(at["main"] = "offerWait" /\ at["ops"] = "offerWait")
  /\ AnswerFitsOffer

\* The candidates of pub that were read early are in the buffer the loop of Join walks.
CandidateInv == early \subseteq buffer["pub"] /\ NoStrandedCandidate

\* join has reached the server, or is on its way to it before position i of the queue.
Known == peer # "none" \/ serving = "join" \/ "join" \in failed
Ahead(i) == Known \/ \E j \in DOMAIN toServer : j < i /\ toServer[j].m = "join"

JoinSent == at["main"] # "sendJoin" /\ ~NotStarted

TrickleInv ==
  /\ open /\ JoinSent => Ahead(Len(toServer) + 1)
  /\ \A i \in DOMAIN toServer : toServer[i].m = "trickle" =>
       /\ toServer[i].to \in Roles /\ toServer[i].n <= sent[toServer[i].to]
       /\ <<toServer[i].to, toServer[i].n>> \in late => Ahead(i)
  /\ \A p \in refused \cup late : p[2] <= sent[p[1]]
  /\ LateCandidatesAccepted

ClientInv ==
  /\ TypeOK /\ ClosedIsEmpty /\ StartInv /\ CallInv
  /\ ThreadInv /\ OfferInv /\ CandidateInv /\ TrickleInv

-------------------------------------------------------------------------------
\* Queues

LEMMA Popped ==
  ASSUME NEW S, NEW q \in Seq(S), q # <<>>
  PROVE  /\ Head(q) \in S /\ Head(q) = q[1] /\ 1 \in DOMAIN q
         /\ Tail(q) \in Seq(S) /\ Len(Tail(q)) = Len(q) - 1
         /\ DOMAIN Tail(q) = 1 .. Len(q) - 1
         /\ \A i \in DOMAIN Tail(q) : i + 1 \in DOMAIN q /\ Tail(q)[i] = q[i + 1]
<1>1. Len(q) \in Nat /\ DOMAIN q = 1 .. Len(q) /\ Len(q) # 0
  BY LenProperties, EmptySeq
<1>2. /\ Head(q) \in S /\ Head(q) = q[1]
      /\ Tail(q) \in Seq(S) /\ Len(Tail(q)) = Len(q) - 1
      /\ \A i \in 1 .. Len(Tail(q)) : Tail(q)[i] = q[i + 1]
  BY HeadTailProperties
<1>3. DOMAIN Tail(q) = 1 .. Len(q) - 1 BY <1>2, LenProperties
<1> QED BY <1>1, <1>2, <1>3

LEMMA Pushed ==
  ASSUME NEW S, NEW q \in Seq(S), NEW e \in S
  PROVE  /\ Append(q, e) \in Seq(S) /\ Len(Append(q, e)) = Len(q) + 1
         /\ DOMAIN Append(q, e) = 1 .. Len(q) + 1 /\ DOMAIN q = 1 .. Len(q) /\ Len(q) \in Nat
         /\ \A i \in DOMAIN q : i \in DOMAIN Append(q, e) /\ Append(q, e)[i] = q[i]
         /\ Append(q, e)[Len(q) + 1] = e
         /\ \A i \in DOMAIN Append(q, e) : i \in DOMAIN q \/ i = Len(q) + 1
<1>1. Len(q) \in Nat /\ DOMAIN q = 1 .. Len(q) BY LenProperties
<1>2. /\ Append(q, e) \in Seq(S) /\ Len(Append(q, e)) = Len(q) + 1
      /\ \A i \in 1 .. Len(q) : Append(q, e)[i] = q[i]
      /\ Append(q, e)[Len(q) + 1] = e
  BY AppendProperties
<1>3. DOMAIN Append(q, e) = 1 .. Len(q) + 1 BY <1>2, LenProperties
<1> QED BY <1>1, <1>2, <1>3

\* Reading the first message of a queue.
LEMMA PoppedCalls ==
  ASSUME NEW q \in Seq(Sendable), q # <<>>, NEW ms, NEW g
  PROVE  /\ Clear(q, ms, g) => Clear(Tail(q), ms, g)
         /\ AtMostOne(q, ms, g) => AtMostOne(Tail(q), ms, g)
         /\ AtMostOne(q, ms, g) /\ Head(q).m \in ms /\ Head(q).by = g => Clear(Tail(q), ms, g)
         /\ Head(q).m \in ms /\ Head(q).by = g => ~Clear(q, ms, g)
<1>1. /\ Head(q) = q[1] /\ 1 \in DOMAIN q
      /\ DOMAIN Tail(q) = 1 .. Len(q) - 1 /\ Len(q) \in Nat
      /\ \A i \in DOMAIN Tail(q) : i + 1 \in DOMAIN q /\ Tail(q)[i] = q[i + 1]
  BY Popped, LenProperties
<1>2. Clear(q, ms, g) => Clear(Tail(q), ms, g)
  BY <1>1 DEF Clear
<1>3. AtMostOne(q, ms, g) => AtMostOne(Tail(q), ms, g)
  <2> SUFFICES ASSUME AtMostOne(q, ms, g), NEW i \in DOMAIN Tail(q), NEW j \in DOMAIN Tail(q),
                      {Tail(q)[i].m, Tail(q)[j].m} \subseteq ms,
                      Tail(q)[i].by = g, Tail(q)[j].by = g
               PROVE  i = j
    BY DEF AtMostOne
  <2>1. {q[i + 1].m, q[j + 1].m} \subseteq ms /\ q[i + 1].by = g /\ q[j + 1].by = g
    BY <1>1
  <2>2. i + 1 = j + 1 BY <1>1, <2>1 DEF AtMostOne
  <2> QED BY <1>1, <2>2
<1>4. AtMostOne(q, ms, g) /\ Head(q).m \in ms /\ Head(q).by = g => Clear(Tail(q), ms, g)
  <2> SUFFICES ASSUME AtMostOne(q, ms, g), q[1].m \in ms, q[1].by = g,
                      NEW i \in DOMAIN Tail(q), Tail(q)[i].m \in ms, Tail(q)[i].by = g
               PROVE  FALSE
    BY <1>1 DEF Clear
  <2>1. 1 = i + 1 BY <1>1 DEF AtMostOne
  <2> QED BY <1>1, <2>1
<1>5. Head(q).m \in ms /\ Head(q).by = g => ~Clear(q, ms, g) BY <1>1 DEF Clear
<1> QED BY <1>2, <1>3, <1>4, <1>5

\* Adding a message to a queue.
LEMMA PushedCalls ==
  ASSUME NEW q \in Seq(Sendable), NEW e \in Sendable, NEW ms, NEW g
  PROVE  /\ ~(e.m \in ms /\ e.by = g) /\ Clear(q, ms, g) => Clear(Append(q, e), ms, g)
         /\ ~(e.m \in ms /\ e.by = g) /\ AtMostOne(q, ms, g) => AtMostOne(Append(q, e), ms, g)
         /\ Clear(q, ms, g) => AtMostOne(Append(q, e), ms, g)
<1>1. /\ \A i \in DOMAIN q : Append(q, e)[i] = q[i]
      /\ Append(q, e)[Len(q) + 1] = e
      /\ \A i \in DOMAIN Append(q, e) : i \in DOMAIN q \/ i = Len(q) + 1
  BY Pushed
<1>2. ~(e.m \in ms /\ e.by = g) /\ Clear(q, ms, g) => Clear(Append(q, e), ms, g)
  BY <1>1 DEF Clear
<1>3. ~(e.m \in ms /\ e.by = g) /\ AtMostOne(q, ms, g) => AtMostOne(Append(q, e), ms, g)
  BY <1>1 DEF AtMostOne
<1>4. Clear(q, ms, g) => AtMostOne(Append(q, e), ms, g)
  BY <1>1 DEF AtMostOne, Clear
<1> QED BY <1>2, <1>3, <1>4

LEMMA EmptyCalls == ASSUME NEW ms, NEW g PROVE Clear(<<>>, ms, g) /\ AtMostOne(<<>>, ms, g)
BY DEF Clear, AtMostOne

\* q2 has no message of a kind in ms that q has not, stray ones aside.
Fewer(q, q2, ms) ==
  /\ \A g \in Callers : /\ Clear(q, ms, g) => Clear(q2, ms, g)
                        /\ AtMostOne(q, ms, g) => AtMostOne(q2, ms, g)
  /\ \A i \in DOMAIN q2 : q2[i].m \in ms => Stray(q2[i]) \/ \E j \in DOMAIN q : q[j] = q2[i]

LEMMA FewerCases ==
  ASSUME NEW q \in Seq(Sendable), NEW q2, NEW ms,
         \/ q2 = q
         \/ q2 = <<>>
         \/ q # <<>> /\ q2 = Tail(q)
         \/ \E e \in Sendable : (e.m \notin ms \/ Stray(e)) /\ q2 = Append(q, e)
  PROVE  Fewer(q, q2, ms)
<1>1. CASE q2 = q BY <1>1 DEF Fewer
<1>2. CASE q2 = <<>> BY <1>2, EmptyCalls DEF Fewer
<1>3. CASE q # <<>> /\ q2 = Tail(q)
  <2>1. \A i \in DOMAIN Tail(q) : i + 1 \in DOMAIN q /\ Tail(q)[i] = q[i + 1] BY <1>3, Popped
  <2> QED BY <1>3, <2>1, PoppedCalls DEF Fewer
<1>4. ASSUME NEW e \in Sendable, e.m \notin ms \/ Stray(e), q2 = Append(q, e)
      PROVE  Fewer(q, q2, ms)
  <2>1. /\ \A i \in DOMAIN q : Append(q, e)[i] = q[i]
        /\ Append(q, e)[Len(q) + 1] = e
        /\ \A i \in DOMAIN Append(q, e) : i \in DOMAIN q \/ i = Len(q) + 1
    BY Pushed
  <2>2. \A g \in Callers : ~(e.m \in ms /\ e.by = g) BY <1>4 DEF Stray, Callers
  <2> QED BY <1>4, <2>1, <2>2, PushedCalls DEF Fewer
<1> QED BY <1>1, <1>2, <1>3, <1>4

-------------------------------------------------------------------------------
\* Calls

callVars == <<toServer, toClient, open, at, reply, serving, created>>

\* What CallInv needs to know of the types.
CallType ==
  /\ toServer \in Seq(Sendable) /\ toClient \in Seq(Sendable)
  /\ at \in [Callers -> Places] /\ created \in [Callers -> Nat]
  /\ reply \in [Callers -> Seq(Message)]

LEMMA TypedCalls == ASSUME TypeOK PROVE CallType
BY DEF TypeOK, NetType, ClientType, CallType

\* Nothing about a Call changes: messages that belong to none come and go.
LEMMA QuietCalls ==
  ASSUME CallInv,
         Fewer(toServer, toServer', Requests), Fewer(toClient, toClient', Replies),
         UNCHANGED <<at, reply, created>>,
         open' => open, serving' = "join" => serving = "join"
  PROVE  CallInv'
<1>1. ASSUME NEW g \in Callers PROVE OneCall(g)'
  <2>1. OneCall(g) BY DEF CallInv
  <2> QED BY <2>1 DEF OneCall, CallOver, Stray, Fewer, NoRequest, NoReply
<1>2. JoinIsServed'
  <2>1. JoinIsServed /\ "main" \in Callers BY DEF CallInv, Callers
  <2> QED BY <2>1 DEF JoinIsServed, CallOver, Fewer, NoRequest, NoReply
<1>3. \A i \in DOMAIN toServer' : Asks(toServer[i])'
  <2> SUFFICES ASSUME NEW i \in DOMAIN toServer' PROVE Asks(toServer[i])'
    OBVIOUS
  <2>1. CASE toServer'[i].m \in Requests
    <3>1. PICK j \in DOMAIN toServer : toServer[j] = toServer'[i]
      BY <2>1 DEF Fewer, Stray, Requests
    <3>2. Asks(toServer[j]) BY DEF CallInv, Numbers
    <3> QED BY <3>1, <3>2 DEF Asks
  <2>2. CASE toServer'[i].m \notin Requests BY <2>2 DEF Asks, Requests
  <2> QED BY <2>1, <2>2
<1>4. \A i \in DOMAIN toClient' : Tells(toClient[i])'
  <2> SUFFICES ASSUME NEW i \in DOMAIN toClient' PROVE Tells(toClient[i])'
    OBVIOUS
  <2>1. CASE toClient'[i].m \in Replies /\ ~Stray(toClient'[i])
    <3>1. PICK j \in DOMAIN toClient : toClient[j] = toClient'[i] BY <2>1 DEF Fewer
    <3>2. Tells(toClient[j]) BY DEF CallInv, Numbers
    <3> QED BY <3>1, <3>2 DEF Tells, Stray
  <2>2. CASE Stray(toClient'[i]) BY <2>2 DEF Tells, Stray
  <2>3. CASE toClient'[i].m \notin Replies BY <2>3 DEF Tells, Replies
  <2> QED BY <2>1, <2>2, <2>3
<1> QED BY <1>1, <1>2, <1>3, <1>4 DEF CallInv, Numbers

\* A goroutine without a Call goes on without one.
LEMMA MovesOn ==
  ASSUME CallInv, CallType, NEW g \in Callers, NEW l, l \notin Waiting \cup {"exit"},
         at' = [at EXCEPT ![g] = l], reply' = [reply EXCEPT ![g] = <<>>],
         created' \in [Callers -> Nat], \A h \in Callers \ {g} : created'[h] = created[h],
         NoRequest(g), NoReply(g), g = "main" => ~(open /\ serving = "join"),
         UNCHANGED <<toServer, toClient, open, serving>>
  PROVE  CallInv'
<1>1. /\ at'[g] = l /\ reply'[g] = <<>>
      /\ \A h \in Callers \ {g} : at'[h] = at[h] /\ reply'[h] = reply[h]
  BY DEF CallType
<1>2. ASSUME NEW h \in Callers PROVE OneCall(h)'
  <2>1. OneCall(h) BY DEF CallInv
  <2>2. CASE h = g BY <1>1, <2>1, <2>2 DEF OneCall, NoRequest, NoReply
  <2>3. CASE h # g BY <1>1, <2>1, <2>3 DEF OneCall, CallOver, Stray, NoRequest, NoReply
  <2> QED BY <2>2, <2>3
<1>3. JoinIsServed'
  <2>1. JoinIsServed /\ "main" \in Callers BY DEF CallInv, Callers
  <2>2. CASE g = "main" BY <2>2 DEF JoinIsServed
  <2>3. CASE g # "main" BY <1>1, <2>1, <2>3 DEF JoinIsServed, CallOver, NoRequest, NoReply
  <2> QED BY <2>2, <2>3
<1>4. \A i \in DOMAIN toServer' : Asks(toServer[i])'
  <2> SUFFICES ASSUME NEW i \in DOMAIN toServer PROVE Asks(toServer[i])'
    OBVIOUS
  <2>1. Asks(toServer[i]) BY DEF CallInv, Numbers
  <2>2. toServer[i].m \in Requests => toServer[i].by # g BY DEF NoRequest, Clear
  <2>3. CASE toServer[i].m \in Requests
    <3>1. toServer[i].by \in Callers \ {g} BY <2>1, <2>2, <2>3 DEF Asks
    <3>2. toServer[i].by = "main" => at'["main"] = at["main"] BY <1>1, <3>1
    <3> QED BY <1>1, <2>1, <3>1, <3>2 DEF Asks
  <2>4. CASE toServer[i].m \notin Requests BY <2>4 DEF Asks, Requests
  <2> QED BY <2>3, <2>4
<1>5. \A i \in DOMAIN toClient' : Tells(toClient[i])'
  <2> SUFFICES ASSUME NEW i \in DOMAIN toClient PROVE Tells(toClient[i])'
    OBVIOUS
  <2>1. Tells(toClient[i]) BY DEF CallInv, Numbers
  <2>2. toClient[i].m \in Replies => toClient[i].by # g BY DEF NoReply, Clear
  <2> QED BY <1>1, <2>1, <2>2 DEF Tells, Replies, Stray
<1>6. \A h \in Callers : reply'[h] # <<>> /\ reply'[h][1].m = "reply" /\ at'[h] \in Negotiating =>
        reply'[h][1].n = created'[h]
  BY <1>1 DEF CallInv, Numbers
<1> QED BY <1>2, <1>3, <1>4, <1>5, <1>6 DEF CallInv, Numbers

\* Join returns with an error, perhaps with its Call still under way.
LEMMA GivesUp ==
  ASSUME CallInv, CallType, at["main"] \in {"start", "joinWait"},
         at' = [at EXCEPT !["main"] = "returned"], reply' = [reply EXCEPT !["main"] = <<>>],
         UNCHANGED <<toServer, toClient, open, serving, created>>
  PROVE  CallInv'
<1>1. /\ "main" \in Callers /\ at'["main"] = "returned" /\ reply'["main"] = <<>>
      /\ \A h \in Callers \ {"main"} : at'[h] = at[h] /\ reply'[h] = reply[h]
  BY DEF CallType, Callers
<1>2. ASSUME NEW h \in Callers PROVE OneCall(h)'
  <2>1. OneCall(h) BY DEF CallInv
  <2>2. CASE h = "main" BY <1>1, <2>1, <2>2 DEF OneCall, CallOver, NoRequest, NoReply
  <2>3. CASE h # "main" BY <1>1, <2>1, <2>3 DEF OneCall, CallOver, Stray, NoRequest, NoReply
  <2> QED BY <2>2, <2>3
<1>3. JoinIsServed' BY <1>1 DEF CallInv, JoinIsServed, CallOver, NoRequest, NoReply
<1>4. \A i \in DOMAIN toServer' : Asks(toServer[i])'
  <2> SUFFICES ASSUME NEW i \in DOMAIN toServer PROVE Asks(toServer[i])'
    OBVIOUS
  <2>1. Asks(toServer[i]) BY DEF CallInv, Numbers
  <2>2. CASE toServer[i].m \in {"offer", "ping"}
    <3>1. toServer[i].by \in Callers \ {"main"} BY <2>1, <2>2 DEF Asks, Requests
    <3> QED BY <1>1, <2>1, <2>2, <3>1 DEF Asks
  <2>3. CASE toServer[i].m \notin {"offer", "ping"} BY <1>1, <2>1, <2>3 DEF Asks
  <2> QED BY <2>2, <2>3
<1>5. \A i \in DOMAIN toClient' : Tells(toClient[i])'
  <2> SUFFICES ASSUME NEW i \in DOMAIN toClient PROVE Tells(toClient[i])'
    OBVIOUS
  <2>1. Tells(toClient[i]) BY DEF CallInv, Numbers
  <2>2. CASE toClient[i].by = "main" BY <1>1, <2>1, <2>2 DEF Tells, Negotiating, Stray
  <2>3. CASE toClient[i].by # "main" BY <1>1, <2>1, <2>3 DEF Tells, Replies, Stray
  <2> QED BY <2>2, <2>3
<1>6. \A h \in Callers : reply'[h] # <<>> /\ reply'[h][1].m = "reply" /\ at'[h] \in Negotiating =>
        reply'[h][1].n = created'[h]
  BY <1>1 DEF CallInv, Numbers
<1> QED BY <1>2, <1>3, <1>4, <1>5, <1>6 DEF CallInv, Numbers

\* A goroutine makes a Call.
LEMMA MakesCall ==
  ASSUME CallInv, CallType, NEW g \in Callers, NEW l \in Waiting, NEW msg \in Sendable,
         at[g] \notin Waiting \cup {"exit", "returned"}, at' = [at EXCEPT ![g] = l],
         msg.m \in Requests, msg.by = g, Asks(msg)',
         ToServer(msg), UNCHANGED <<toClient, open, reply, serving, created>>
  PROVE  CallInv'
<1>1. /\ at'[g] = l
      /\ \A h \in Callers \ {g} : at'[h] = at[h]
  BY DEF CallType
<1>2. OneCall(g) BY DEF CallInv
<1>3. NoRequest(g) /\ NoReply(g) /\ reply[g] = <<>> BY <1>2 DEF OneCall, CallOver
<1>4. toServer' = toServer \/ toServer' = Append(toServer, msg) BY DEF ToServer
<1>5. /\ AtMostOne(toServer, Requests, g)'
      /\ \A h \in Callers \ {g} : /\ NoRequest(h) => NoRequest(h)'
                                  /\ AtMostOne(toServer, Requests, h) =>
                                       AtMostOne(toServer, Requests, h)'
  <2>1. CASE toServer' = toServer BY <1>2, <2>1 DEF OneCall, NoRequest
  <2>2. CASE toServer' = Append(toServer, msg)
    <3>1. AtMostOne(toServer, Requests, g)' BY <1>3, <2>2, PushedCalls DEF CallType, NoRequest
    <3>2. ASSUME NEW h \in Callers \ {g}
          PROVE  /\ NoRequest(h) => NoRequest(h)'
                 /\ AtMostOne(toServer, Requests, h) => AtMostOne(toServer, Requests, h)'
      BY <2>2, PushedCalls DEF CallType, NoRequest
    <3> QED BY <3>1, <3>2
  <2> QED BY <1>4, <2>1, <2>2
<1>6. ASSUME NEW h \in Callers PROVE OneCall(h)'
  <2>1. OneCall(h) BY DEF CallInv
  <2>2. CASE h = g BY <1>1, <1>3, <1>5, <2>1, <2>2 DEF OneCall, CallOver, NoReply
  <2>3. CASE h # g BY <1>1, <1>5, <2>1, <2>3 DEF OneCall, CallOver, Stray, NoReply
  <2> QED BY <2>2, <2>3
<1>7. JoinIsServed'
  <2>1. JoinIsServed /\ "main" \in Callers BY DEF CallInv, Callers
  <2>2. CASE g = "main" BY <2>1, <2>2 DEF JoinIsServed, Waiting
  <2>3. CASE g # "main" BY <1>1, <1>5, <2>1, <2>3 DEF JoinIsServed, CallOver, NoReply
  <2> QED BY <2>2, <2>3
<1>8. \A i \in DOMAIN toServer' : Asks(toServer[i])'
  <2> SUFFICES ASSUME NEW i \in DOMAIN toServer' PROVE Asks(toServer[i])'
    OBVIOUS
  <2>1. CASE toServer'[i] = msg BY <2>1 DEF Asks
  <2>2. CASE i \in DOMAIN toServer /\ toServer'[i] = toServer[i]
    <3>1. Asks(toServer[i]) BY <2>2 DEF CallInv, Numbers
    <3>2. toServer[i].m \in Requests => toServer[i].by # g BY <1>3, <2>2 DEF NoRequest, Clear
    <3>3. CASE toServer[i].m \in Requests
      <4>1. toServer[i].by \in Callers \ {g} BY <3>1, <3>2, <3>3 DEF Asks
      <4>2. toServer[i].by = "main" => at'["main"] = at["main"] BY <1>1, <4>1
      <4> QED BY <1>1, <2>2, <3>1, <4>1, <4>2 DEF Asks
    <3>4. CASE toServer[i].m \notin Requests BY <2>2, <3>4 DEF Asks, Requests
    <3> QED BY <3>3, <3>4
  <2>3. \/ toServer'[i] = msg
        \/ i \in DOMAIN toServer /\ toServer'[i] = toServer[i]
    <3>1. CASE toServer' = toServer BY <3>1
    <3>2. CASE toServer' = Append(toServer, msg) BY <3>2, Pushed DEF CallType
    <3> QED BY <1>4, <3>1, <3>2
  <2> QED BY <2>1, <2>2, <2>3
<1>9. \A i \in DOMAIN toClient' : Tells(toClient[i])'
  <2> SUFFICES ASSUME NEW i \in DOMAIN toClient PROVE Tells(toClient[i])'
    OBVIOUS
  <2>1. Tells(toClient[i]) BY DEF CallInv, Numbers
  <2>2. toClient[i].m \in Replies => toClient[i].by # g BY <1>3 DEF NoReply, Clear
  <2> QED BY <1>1, <2>1, <2>2 DEF Tells, Replies, Stray
<1>10. \A h \in Callers : reply'[h] # <<>> /\ reply'[h][1].m = "reply" /\ at'[h] \in Negotiating =>
        reply'[h][1].n = created'[h]
  BY <1>1, <1>3 DEF CallInv, Numbers
<1> QED BY <1>6, <1>7, <1>8, <1>9, <1>10 DEF CallInv, Numbers

\* A handler replies to the Call of g.
LEMMA RepliesToCall ==
  ASSUME CallInv, CallType, NEW g \in Callers, NEW msg \in Sendable,
         ~CallOver(g), NoReply(g), NoRequest(g)',
         msg.m \in Replies, msg.by = g, Tells(msg),
         toClient' = Append(toClient, msg), Fewer(toServer, toServer', Requests),
         UNCHANGED <<open, at, reply, created>>,
         serving' = "join" => serving = "join" /\ g # "main"
  PROVE  CallInv'
<1>1. /\ AtMostOne(toClient, Replies, g)'
      /\ \A h \in Callers \ {g} : /\ NoReply(h) => NoReply(h)'
                                  /\ AtMostOne(toClient, Replies, h) =>
                                       AtMostOne(toClient, Replies, h)'
  <2>1. AtMostOne(toClient, Replies, g)' BY PushedCalls DEF CallType, NoReply
  <2>2. ASSUME NEW h \in Callers \ {g}
        PROVE  /\ NoReply(h) => NoReply(h)'
               /\ AtMostOne(toClient, Replies, h) => AtMostOne(toClient, Replies, h)'
    BY PushedCalls DEF CallType, NoReply
  <2> QED BY <2>1, <2>2
<1>2. ASSUME NEW h \in Callers PROVE OneCall(h)'
  <2>1. OneCall(h) BY DEF CallInv
  <2>2. CASE h = g BY <1>1, <2>1, <2>2 DEF OneCall, CallOver, Stray, Fewer
  <2>3. CASE h # g BY <1>1, <2>1, <2>3 DEF OneCall, CallOver, Stray, NoRequest, Fewer
  <2> QED BY <2>2, <2>3
<1>3. JoinIsServed'
  <2>1. JoinIsServed /\ "main" \in Callers BY DEF CallInv, Callers
  <2> QED BY <1>1, <2>1 DEF JoinIsServed, CallOver, NoRequest, Fewer
<1>4. \A i \in DOMAIN toServer' : Asks(toServer[i])'
  <2> SUFFICES ASSUME NEW i \in DOMAIN toServer' PROVE Asks(toServer[i])'
    OBVIOUS
  <2>1. CASE toServer'[i].m \in Requests
    <3>1. PICK j \in DOMAIN toServer : toServer[j] = toServer'[i]
      BY <2>1 DEF Fewer, Stray, Requests
    <3>2. Asks(toServer[j]) BY DEF CallInv, Numbers
    <3> QED BY <3>1, <3>2 DEF Asks
  <2>2. CASE toServer'[i].m \notin Requests BY <2>2 DEF Asks, Requests
  <2> QED BY <2>1, <2>2
<1>5. \A i \in DOMAIN toClient' : Tells(toClient[i])'
  <2> SUFFICES ASSUME NEW i \in DOMAIN toClient' PROVE Tells(toClient[i])'
    OBVIOUS
  <2>1. CASE toClient'[i] = msg BY <2>1 DEF Tells, Stray
  <2>2. CASE i \in DOMAIN toClient /\ toClient'[i] = toClient[i]
    BY <2>2 DEF Tells, Stray, CallInv, Numbers
  <2> QED BY <2>1, <2>2, Pushed DEF CallType
<1> QED BY <1>2, <1>3, <1>4, <1>5 DEF CallInv, Numbers

\* A request that is the first message for the server.
LEMMA FirstRequest ==
  ASSUME CallInv, CallType, toServer # <<>>, Head(toServer).m \in Requests,
         toServer' = Tail(toServer)
  PROVE  \E g \in Callers :
           /\ g = Head(toServer).by /\ Asks(Head(toServer))
           /\ ~CallOver(g) /\ NoReply(g) /\ NoRequest(g)'
           /\ g = "main" => ~(open /\ serving = "join")
<1>1. Asks(Head(toServer)) BY Popped DEF CallInv, Numbers, CallType
<1>2. PICK g \in Callers : g = Head(toServer).by BY <1>1 DEF Asks
<1>3. OneCall(g) BY <1>2 DEF CallInv
<1>4. ~NoRequest(g) /\ NoRequest(g)'
  BY <1>2, <1>3, PoppedCalls DEF CallType, NoRequest, OneCall
<1>5. ~CallOver(g) /\ NoReply(g) BY <1>3, <1>4 DEF OneCall
<1>6. g = "main" => ~(open /\ serving = "join") BY <1>4 DEF CallInv, JoinIsServed
<1> QED BY <1>1, <1>2, <1>4, <1>5, <1>6

\* The read loop hands a reply to the goroutine that waits for it.
LEMMA ReplyTaken ==
  ASSUME CallInv, CallType, NEW g \in Callers,
         toClient # <<>>, Head(toClient).m \in Replies, toClient' = Tail(toClient),
         at[g] \in Waiting, reply[g] = <<>>,
         Head(toClient).by = g \/ (Stray(Head(toClient)) /\ at[g] = "joinWait"),
         reply'[g] = <<Head(toClient)>>, \A h \in Callers \ {g} : reply'[h] = reply[h],
         UNCHANGED <<toServer, open, at, created, serving>>
  PROVE  CallInv'
<1>1. Tells(Head(toClient)) BY Popped DEF CallInv, Numbers, CallType
<1>2. Fewer(toClient, toClient', Replies) BY FewerCases DEF CallType
<1>3. reply'[g][1] = Head(toClient) OBVIOUS
<1>4. Head(toClient).by # g => Head(toClient).by = "none" BY DEF Stray
<1>5. Head(toClient).by = g => NoRequest(g) /\ NoReply(g)'
  <2>1. OneCall(g) BY DEF CallInv
  <2> QED BY <2>1, PoppedCalls DEF CallType, NoReply, OneCall
<1>6. ASSUME NEW h \in Callers PROVE OneCall(h)'
  <2>1. OneCall(h) BY DEF CallInv
  <2>2. CASE h = g
    <3>1. CallOver(g)' => Head(toClient).by = g BY <1>3 DEF CallOver
    <3>2. reply'[g][1].by = g \/ (at'[g] = "joinWait" /\ Stray(reply'[g][1])) BY <1>3
    <3>3. at'[g] \in Waiting OBVIOUS
    <3> QED BY <1>2, <1>5, <2>1, <2>2, <3>1, <3>2, <3>3
            DEF OneCall, Stray, NoRequest, NoReply, Fewer
  <2>3. CASE h # g
    BY <1>2, <2>1, <2>3 DEF OneCall, CallOver, Stray, NoRequest, NoReply, Fewer
  <2> QED BY <2>2, <2>3
<1>7. JoinIsServed'
  <2>1. JoinIsServed /\ "main" \in Callers BY DEF CallInv, Callers
  <2>2. CASE g # "main"
    BY <1>2, <2>1, <2>2 DEF JoinIsServed, CallOver, NoRequest, NoReply, Fewer
  <2>3. CASE g = "main" /\ Head(toClient).by = "main"
    <3>1. ~NoReply("main") BY <2>3, PoppedCalls DEF CallType, NoReply
    <3> QED BY <2>1, <3>1 DEF JoinIsServed
  <2>4. CASE g = "main" /\ Head(toClient).by = "none"
    <3>1. ~CallOver("main")' BY <1>3, <2>4 DEF CallOver
    <3> QED BY <1>2, <2>1, <3>1 DEF JoinIsServed, NoRequest, NoReply, Fewer
  <2> QED BY <1>4, <2>2, <2>3, <2>4
<1>8. \A i \in DOMAIN toServer' : Asks(toServer[i])' BY DEF CallInv, Numbers, Asks
<1>9. \A i \in DOMAIN toClient' : Tells(toClient[i])'
  <2> SUFFICES ASSUME NEW i \in DOMAIN toClient' PROVE Tells(toClient[i])'
    OBVIOUS
  <2>1. PICK j \in DOMAIN toClient : toClient[j] = toClient'[i] BY Popped DEF CallType
  <2>2. Tells(toClient[j]) BY DEF CallInv, Numbers
  <2> QED BY <2>1, <2>2 DEF Tells, Stray
<1>10. \A h \in Callers : reply'[h] # <<>> /\ reply'[h][1].m = "reply" /\ at'[h] \in Negotiating =>
        reply'[h][1].n = created'[h]
  <2> SUFFICES ASSUME NEW h \in Callers, reply'[h] # <<>>, reply'[h][1].m = "reply",
                      at'[h] \in Negotiating
               PROVE  reply'[h][1].n = created'[h]
    OBVIOUS
  <2>1. CASE h = g BY <1>1, <1>3, <2>1 DEF Tells, Stray
  <2>2. CASE h # g BY <2>2 DEF CallInv, Numbers
  <2> QED BY <2>1, <2>2
<1> QED BY <1>6, <1>7, <1>8, <1>9, <1>10 DEF CallInv, Numbers

LEMMA ReadReplyCalls ==
  ASSUME CallInv, CallType, ThreadInv, ReadReply
  PROVE  CallInv'
<1> DEFINE msg == Head(toClient)
<1>1. /\ toClient # <<>> /\ msg.m \in Replies /\ toClient' = Tail(toClient)
      /\ reply' = [g \in Callers |-> IF Pending(msg, g) THEN <<msg>> ELSE reply[g]]
      /\ UNCHANGED <<toServer, open, at, created, serving>>
  BY DEF ReadReply, Reads, Replies, pubVars, serverVars, peerVars
<1>2. Tells(msg) BY <1>1, Popped DEF CallInv, Numbers, CallType
<1>3. ASSUME NEW g \in Callers, Pending(msg, g)
      PROVE  /\ at[g] \in Waiting /\ reply[g] = <<>>
             /\ msg.by = g \/ (Stray(msg) /\ at[g] = "joinWait")
  BY <1>1, <1>2, <1>3 DEF Pending, Tells, Stray, Callers
<1> HIDE DEF msg
<1>4. ASSUME NEW g \in Callers, Pending(msg, g), \A h \in Callers \ {g} : ~Pending(msg, h)
      PROVE  CallInv'
  <2>1. reply'[g] = <<msg>> /\ \A h \in Callers \ {g} : reply'[h] = reply[h] BY <1>1, <1>4
  <2> QED BY <1>1, <1>3, <1>4, <2>1, ReplyTaken DEF msg
<1>5. CASE \A g \in Callers : ~Pending(msg, g)
  <2>1. reply' = reply BY <1>1, <1>5 DEF CallType
  <2>2. /\ Fewer(toClient, toClient', Replies) /\ Fewer(toServer, toServer', Requests)
    BY <1>1, FewerCases DEF CallType
  <2> QED BY <1>1, <2>1, <2>2, QuietCalls
<1>6. ASSUME NEW g \in Callers, NEW h \in Callers, Pending(msg, g), Pending(msg, h) PROVE g = h
  <2>1. CASE msg.by # "none" BY <1>6, <2>1 DEF Pending
  <2>2. CASE msg.by = "none" BY <1>6, <2>2 DEF Pending, Callers, ThreadInv
  <2> QED BY <2>1, <2>2
<1> QED BY <1>4, <1>5, <1>6

\* The handler of join begins.
LEMMA HandleJoinCalls ==
  ASSUME CallInv, CallType, HandleJoin
  PROVE  CallInv'
<1>1. /\ toServer # <<>> /\ Head(toServer).m = "join" /\ toServer' = Tail(toServer)
      /\ UNCHANGED <<toClient, open, at, reply, created>>
  BY DEF HandleJoin, Handles, clientVars, pubVars
<1>2. Head(toServer).by = "main" /\ at["main"] \in {"joinWait", "returned"}
  BY <1>1, FirstRequest DEF Requests, Asks
<1>3. ~CallOver("main") /\ NoReply("main") /\ NoRequest("main")'
  BY <1>1, <1>2, FirstRequest DEF Requests
<1>4. Fewer(toServer, toServer', Requests) BY <1>1, FewerCases DEF CallType
<1>5. ASSUME NEW g \in Callers PROVE OneCall(g)'
  <2>1. OneCall(g) BY DEF CallInv
  <2> QED BY <1>1, <1>4, <2>1 DEF OneCall, CallOver, Stray, NoRequest, NoReply, Fewer
<1>6. JoinIsServed' BY <1>1, <1>2, <1>3 DEF JoinIsServed, CallOver, NoReply
<1>7. \A i \in DOMAIN toServer' : Asks(toServer[i])'
  <2> SUFFICES ASSUME NEW i \in DOMAIN toServer' PROVE Asks(toServer[i])'
    OBVIOUS
  <2>1. CASE toServer'[i].m \in Requests
    <3>1. PICK j \in DOMAIN toServer : toServer[j] = toServer'[i]
      BY <1>4, <2>1 DEF Fewer, Stray, Requests
    <3>2. Asks(toServer[j]) BY DEF CallInv, Numbers
    <3> QED BY <1>1, <3>1, <3>2 DEF Asks
  <2>2. CASE toServer'[i].m \notin Requests BY <2>2 DEF Asks, Requests
  <2> QED BY <2>1, <2>2
<1>8. /\ \A i \in DOMAIN toClient' : Tells(toClient[i])'
      /\ \A h \in Callers : reply'[h] # <<>> /\ reply'[h][1].m = "reply" /\ at'[h] \in Negotiating =>
           reply'[h][1].n = created'[h]
  BY <1>1 DEF CallInv, Numbers, Tells, Stray
<1> QED BY <1>5, <1>6, <1>7, <1>8 DEF CallInv, Numbers

LEMMA Sends ==
  ASSUME NEW m \in {"join", "offer", "answer", "trickle", "ping", "reply", "error"},
         NEW by \in Callers \cup {"none"}, NEW n \in Nat, NEW to \in Roles \cup {"none"},
         m \in {"trickle", "offer", "answer"} => n # 0
  PROVE  /\ Msg(m, by, n, to) \in Sendable
         /\ Msg(m, by, n, to).m = m /\ Msg(m, by, n, to).by = by
         /\ Msg(m, by, n, to).n = n /\ Msg(m, by, n, to).to = to
BY DEF Msg, Sendable, Message

LEMMA ReadMessage ==
  ASSUME NEW q \in Seq(Sendable), q # <<>>
  PROVE  /\ Head(q).by \in Callers \cup {"none"} /\ Head(q).n \in Nat
         /\ Head(q).to \in Roles \cup {"none"}
         /\ Head(q).m \in {"trickle", "offer", "answer"} => Head(q).n # 0
BY Popped DEF Sendable, Message

USE DEF netVars, pubVars, candVars, sentVars, subVars, peerVars, loopVars, clientVars, serverVars

\* The Call of a goroutine that does not wait, or that has its reply, is over.
LEMMA CallIsOver ==
  ASSUME CallInv, ClosedIsEmpty, NEW g \in Callers,
         \/ at[g] \notin Waiting \cup {"exit", "returned"}
         \/ reply[g] # <<>> /\ at[g] # "joinWait"
         \/ Answered(g) \/ ~open
  PROVE  NoRequest(g) /\ NoReply(g) /\ (g = "main" => ~(open /\ serving = "join"))
<1>1. OneCall(g) /\ JoinIsServed BY DEF CallInv
<1>2. CASE ~open BY <1>2, EmptyCalls DEF ClosedIsEmpty, NoRequest, NoReply
<1>3. CASE CallOver(g) BY <1>1, <1>3 DEF OneCall, JoinIsServed
<1>4. CASE reply[g] # <<>> /\ at[g] # "joinWait" BY <1>1, <1>3, <1>4 DEF OneCall, CallOver
<1>5. CASE Answered(g) BY <1>1, <1>3, <1>5 DEF OneCall, CallOver, Stray, Answered
<1>6. CASE at[g] \notin Waiting \cup {"exit", "returned"} BY <1>3, <1>6 DEF CallOver
<1> QED BY <1>2, <1>4, <1>5, <1>6

LEMMA MainCalls ==
  ASSUME TypeOK, CallInv, ClosedIsEmpty, ThreadInv, OfferInv,
         Join \/ SignalJoin \/ JoinAnswered \/ JoinApply \/ JoinFails \/ Publish \/ Ping
         \/ PingReturns \/ GotSignal \/ SignalClosed
  PROVE  CallInv'
<1>1. CallType /\ "main" \in Callers BY TypedCalls DEF Callers
<1>2. at["main"] \notin Waiting \cup {"exit"} => reply["main"] = <<>>
  BY <1>1 DEF CallInv, OneCall
<1>3. reply = [reply EXCEPT !["main"] = reply["main"]] BY <1>1 DEF CallType
<1>4. \A h \in Callers \ {"main"} : [created EXCEPT !["main"] = 1][h] = created[h]
  BY <1>1 DEF CallType
<1>5. CASE Join
  <2>1. /\ at["main"] = "start" /\ at' = [at EXCEPT !["main"] = "sendJoin"]
        /\ created' = [created EXCEPT !["main"] = 1]
        /\ UNCHANGED <<toServer, toClient, open, serving, reply>>
    BY <1>5 DEF Join, Goto
  <2>2. /\ at["main"] \notin Waiting \cup {"exit", "returned"}
        /\ "sendJoin" \notin Waiting \cup {"exit"}
    BY <2>1 DEF Waiting
  <2>3. created' \in [Callers -> Nat] BY <1>1, <2>1 DEF CallType
  <2> QED BY <1>1, <1>2, <1>3, <1>4, <2>1, <2>2, <2>3, CallIsOver, MovesOn
<1>6. CASE SignalJoin
  <2> DEFINE msg == Msg("join", "main", localOffer, "none")
  <2>1. /\ at["main"] = "sendJoin" /\ at' = [at EXCEPT !["main"] = "joinWait"]
        /\ ToServer(msg) /\ UNCHANGED <<toClient, open, reply, serving, created, localOffer>>
    BY <1>6 DEF SignalJoin, Goto
  <2>2. at["main"] \notin Waiting \cup {"exit", "returned"} /\ "joinWait" \in Waiting
    BY <2>1 DEF Waiting
  <2>3. localOffer = 1 BY <2>1 DEF OfferInv
  <2>4. msg \in Sendable /\ msg.m = "join" /\ msg.by = "main" BY <1>1, <2>3, Sends
  <2>5. PICK e \in Sendable : e = msg BY <2>4
  <2>6. Asks(e)' BY <1>1, <2>1, <2>4, <2>5 DEF Asks, CallType
  <2>7. ToServer(e) /\ e.m \in Requests /\ e.by = "main" BY <2>1, <2>4, <2>5 DEF Requests
  <2> HIDE DEF msg
  <2> QED BY <1>1, <2>1, <2>2, <2>6, <2>7, MakesCall
<1>7. CASE JoinAnswered \/ PingReturns
  <2>1. PICK l \in {"joinApply", "loop"} : at' = [at EXCEPT !["main"] = l]
    BY <1>7 DEF JoinAnswered, PingReturns, Goto
  <2>2. /\ reply' = [reply EXCEPT !["main"] = <<>>]
        /\ UNCHANGED <<toServer, toClient, open, serving, created>>
        /\ \/ reply["main"] # <<>> /\ at["main"] # "joinWait"
           \/ Answered("main") \/ ~open
    BY <1>7 DEF JoinAnswered, PingReturns, TakeReply, Failed
  <2>3. l \notin Waiting \cup {"exit"} BY DEF Waiting
  <2> QED BY <1>1, <2>1, <2>2, <2>3, CallIsOver, MovesOn DEF CallType
<1>8. CASE JoinApply \/ Publish
  <2>1. PICK l \in {"publish", "loop", "publishAudio", "createOffer"} :
          at' = [at EXCEPT !["main"] = l]
    BY <1>8 DEF JoinApply, Publish, Goto
  <2>2. /\ at["main"] \in {"joinApply", "publish", "publishAudio"}
        /\ UNCHANGED <<toServer, toClient, open, serving, created, reply>>
    BY <1>8 DEF JoinApply, Publish
  <2>3. at["main"] \notin Waiting \cup {"exit", "returned"} /\ l \notin Waiting \cup {"exit"}
    BY <2>2 DEF Waiting
  <2> QED BY <1>1, <1>2, <1>3, <2>1, <2>2, <2>3, CallIsOver, MovesOn DEF CallType
<1>9. CASE Ping
  <2> DEFINE msg == Msg("ping", "main", 0, "none")
  <2>1. /\ at["main"] = "loop" /\ at' = [at EXCEPT !["main"] = "pingWait"]
        /\ ToServer(msg) /\ UNCHANGED <<toClient, open, reply, serving, created>>
    BY <1>9 DEF Ping, Goto
  <2>2. at["main"] \notin Waiting \cup {"exit", "returned"} /\ "pingWait" \in Waiting
    BY <2>1 DEF Waiting
  <2>3. msg \in Sendable /\ msg.m = "ping" /\ msg.by = "main" BY <1>1, Sends
  <2>4. Asks(msg)' BY <1>1, <2>1, <2>3 DEF Asks, CallType, msg, Msg
  <2>5. msg.m \in Requests BY <2>3 DEF Requests
  <2> HIDE DEF msg
  <2> QED BY <1>1, <2>1, <2>2, <2>3, <2>4, <2>5, MakesCall
<1>10. CASE GotSignal
  <2>1. /\ toServer' = <<>> /\ toClient' = <<>> /\ ~open'
        /\ UNCHANGED <<at, reply, serving, created>>
    BY <1>10 DEF GotSignal, Close
  <2> QED BY <1>1, <2>1, FewerCases, QuietCalls DEF CallType
<1>11. CASE SignalClosed
  <2>1. /\ ~open /\ at' = [g \in Callers |-> "exit"]
        /\ UNCHANGED <<toServer, toClient, open, reply, serving, created>>
    BY <1>11 DEF SignalClosed
  <2>2. toServer' = <<>> /\ toClient' = <<>> BY <2>1 DEF ClosedIsEmpty
  <2>6. \A g \in Callers : reply[g] # <<>> => reply[g][1].by = g
    BY <1>2, <1>11 DEF SignalClosed, CallInv, OneCall, Callers, ThreadInv, Waiting
  <2>3. \A g \in Callers : OneCall(g)'
    BY <2>1, <2>2, <2>6, EmptyCalls DEF OneCall, NoRequest, NoReply
  <2>4. JoinIsServed' BY <2>1 DEF JoinIsServed
  <2>5. \A g \in Callers : at'[g] \notin Negotiating BY <2>1 DEF Negotiating
  <2> QED BY <2>2, <2>3, <2>4, <2>5 DEF CallInv, Numbers
<1>12. CASE JoinFails
  <2>1. /\ at["main"] \in {"start", "joinWait"} /\ at' = [at EXCEPT !["main"] = "returned"]
        /\ reply' = [reply EXCEPT !["main"] = <<>>]
        /\ UNCHANGED <<toServer, toClient, open, serving, created>>
    BY <1>12 DEF JoinFails, TakeReply, Goto
  <2> QED BY <1>1, <2>1, GivesUp
<1> QED BY <1>5, <1>6, <1>7, <1>8, <1>9, <1>10, <1>11, <1>12

LEMMA PubCalls ==
  ASSUME TypeOK, CallInv, ClosedIsEmpty, ThreadInv, OfferInv, NEW g \in Callers,
         \/ g = "ops" /\ OnNegotiationNeeded
         \/ PubNegotiationNeeded(g)
  PROVE  CallInv'
<1>1. CallType BY TypedCalls
<1>2. at[g] \notin Waiting \cup {"exit"} => reply[g] = <<>> BY DEF CallInv, OneCall
<1>3. reply = [reply EXCEPT ![g] = reply[g]] BY <1>1 DEF CallType
<1>4. CASE g = "ops" /\ OnNegotiationNeeded
  <2>1. /\ at[g] = "idle" /\ at' = [at EXCEPT ![g] = "createOffer"]
        /\ UNCHANGED <<toServer, toClient, open, serving, created, reply>>
    BY <1>4 DEF OnNegotiationNeeded, Goto
  <2>2. /\ at[g] \notin Waiting \cup {"exit", "returned"}
        /\ "createOffer" \notin Waiting \cup {"exit"}
    BY <2>1 DEF Waiting
  <2> QED BY <1>1, <1>2, <1>3, <2>1, <2>2, CallIsOver, MovesOn DEF CallType
<1>5. CASE CreateOffer(g)
  <2>1. /\ at[g] = "createOffer" /\ at' = [at EXCEPT ![g] = "setLocal"]
        /\ created' = [created EXCEPT ![g] = Len(content')] /\ content' = Append(content, tracks)
        /\ UNCHANGED <<toServer, toClient, open, serving, reply>>
    BY <1>5 DEF CreateOffer, Goto
  <2>2. /\ at[g] \notin Waiting \cup {"exit", "returned"}
        /\ "setLocal" \notin Waiting \cup {"exit"}
    BY <2>1 DEF Waiting
  <2>3. Len(content') \in Nat
    <3>1. content \in Seq(0 .. 2) /\ tracks \in 0 .. 2 BY DEF TypeOK, ClientType
    <3> QED BY <2>1, <3>1, Pushed
  <2>4. created' \in [Callers -> Nat] /\ \A h \in Callers \ {g} : created'[h] = created[h]
    BY <1>1, <2>1, <2>3 DEF CallType
  <2> QED BY <1>1, <1>2, <1>3, <2>1, <2>2, <2>4, CallIsOver, MovesOn
<1>6. CASE SetLocalDescription(g) /\ Acceptable(g)
  <2>1. /\ at[g] = "setLocal" /\ at' = [at EXCEPT ![g] = "offerWait"]
        /\ ToServer(Msg("offer", g, created[g], "none"))
        /\ UNCHANGED <<toClient, open, reply, serving, created>>
    BY <1>6 DEF SetLocalDescription, Goto
  <2>2. at[g] \notin Waiting \cup {"exit", "returned"} /\ "offerWait" \in Waiting
    BY <2>1 DEF Waiting
  <2>3. created[g] \in Nat \ {0}
    <3>1. content \in Seq(0 .. 2) /\ created[g] \in 1 .. Len(content)
      BY <2>1 DEF TypeOK, ClientType, OfferInv
    <3>2. Len(content) \in Nat BY <3>1, LenProperties
    <3> QED BY <3>1, <3>2
  <2>4. PICK n \in Nat \ {0} : n = created[g] BY <2>3
  <2> DEFINE msg == Msg("offer", g, n, "none")
  <2>5. msg \in Sendable /\ msg.m = "offer" /\ msg.by = g /\ msg.n = n BY Sends
  <2>6. ToServer(msg) BY <2>1, <2>4
  <2> HIDE DEF msg
  <2>7. at'[g] = "offerWait" BY <1>1, <2>1 DEF CallType
  <2>8. Asks(msg)' BY <2>1, <2>4, <2>5, <2>7 DEF Asks
  <2>9. msg.m \in Requests BY <2>5 DEF Requests
  <2> QED BY <1>1, <2>1, <2>2, <2>5, <2>6, <2>8, <2>9, MakesCall
<1>7. CASE SetLocalDescription(g) /\ ~Acceptable(g)
  <2>1. PICK l \in {"loop", "idle"} : at' = [at EXCEPT ![g] = l]
    BY <1>7 DEF SetLocalDescription, Done, Goto
  <2>2. at[g] = "setLocal" /\ UNCHANGED <<toServer, toClient, open, reply, serving, created>>
    BY <1>7 DEF SetLocalDescription
  <2>3. at[g] \notin Waiting \cup {"exit", "returned"} /\ l \notin Waiting \cup {"exit"}
    BY <2>2 DEF Waiting
  <2> QED BY <1>1, <1>2, <1>3, <2>1, <2>2, <2>3, CallIsOver, MovesOn DEF CallType
<1>8. CASE SetRemoteDescription(g) \/ OfferFails(g)
  <2>1. PICK l \in {"loop", "idle"} : at' = [at EXCEPT ![g] = l]
    BY <1>8 DEF SetRemoteDescription, OfferFails, Done, Goto
  <2>2. /\ reply' = [reply EXCEPT ![g] = <<>>]
        /\ \/ at[g] \notin Waiting \cup {"exit", "returned"}
           \/ reply[g] # <<>> /\ at[g] # "joinWait"
           \/ ~open
        /\ UNCHANGED <<toServer, toClient, open, serving, created>>
    BY <1>8 DEF SetRemoteDescription, OfferFails, TakeReply, Answered, Failed, Waiting
  <2>3. l \notin Waiting \cup {"exit"} BY DEF Waiting
  <2> QED BY <1>1, <2>1, <2>2, <2>3, CallIsOver, MovesOn DEF CallType
<1> QED BY <1>4, <1>5, <1>6, <1>7, <1>8 DEF PubNegotiationNeeded

LEMMA ReadCalls ==
  ASSUME TypeOK, CallInv, ThreadInv, ClientReads
  PROVE  CallInv'
<1>1. CallType BY TypedCalls
<1>2. CASE SignalOnNegotiate
  <2>1. /\ toClient # <<>> /\ Head(toClient).m = "offer" /\ toClient' = Tail(toClient)
        /\ \/ toServer' = toServer
           \/ ToServer(Msg("answer", "none", Head(toClient).n, "none"))
        /\ UNCHANGED <<open, at, reply, created, serving>>
    BY <1>2 DEF SignalOnNegotiate, Reads, SendAnswer, NotAnswered
  <2>2. Head(toClient).n \in Nat \ {0} BY <1>1, <2>1, ReadMessage DEF CallType
  <2>3. toServer' = toServer \/ \E e \in Sendable : e.m \notin Requests /\ ToServer(e)
    BY <2>1, <2>2, Sends DEF Requests
  <2>4. Fewer(toServer, toServer', Requests) BY <1>1, <2>3, FewerCases DEF CallType, ToServer
  <2>5. Fewer(toClient, toClient', Replies) BY <1>1, <2>1, FewerCases DEF CallType
  <2> QED BY <2>1, <2>4, <2>5, QuietCalls
<1>3. CASE SignalOnTrickle
  <2>1. /\ toClient # <<>> /\ toClient' = Tail(toClient)
        /\ UNCHANGED <<toServer, open, at, reply, created, serving>>
    BY <1>3 DEF SignalOnTrickle, Reads
  <2> QED BY <1>1, <2>1, FewerCases, QuietCalls DEF CallType
<1>4. CASE AppendCandidate
  <2>1. UNCHANGED callVars BY <1>4 DEF AppendCandidate, callVars
  <2> QED BY <1>1, <2>1, FewerCases, QuietCalls DEF CallType, callVars
<1> QED BY <1>1, <1>2, <1>3, <1>4, ReadReplyCalls DEF ClientReads

LEMMA ServerCalls ==
  ASSUME TypeOK, CallInv, ClosedIsEmpty, OfferInv, ServerReads
  PROVE  CallInv'
<1>1. CallType /\ "main" \in Callers BY TypedCalls DEF Callers
<1>2. CASE PeerJoin \/ SetCallbacks
  <2>1. UNCHANGED callVars BY <1>2 DEF PeerJoin, SetCallbacks, callVars
  <2> QED BY <1>1, <2>1, FewerCases, QuietCalls DEF CallType, callVars
<1>3. CASE ReplyJoin \/ JoinError
  <2>1. /\ serving = "join" /\ serving' = "idle"
        /\ UNCHANGED <<toServer, open, at, reply, created>>
    BY <1>3 DEF ReplyJoin, JoinError
  <2>2. PICK m \in Replies, n \in {0, 1} :
          ToClient(Msg(m, "main", n, "none")) /\ (m = "reply" => n = 1)
    BY <1>3 DEF ReplyJoin, JoinError, ReplyError, Replies
  <2> DEFINE msg == Msg(m, "main", n, "none")
  <2>3. msg \in Sendable /\ msg.m = m /\ msg.by = "main" /\ msg.n = n
    BY <1>1, Sends DEF Replies
  <2> HIDE DEF msg
  <2>4. CASE open
    <3>1. /\ at["main"] \in {"joinWait", "returned"} /\ ~CallOver("main")
          /\ NoRequest("main") /\ NoReply("main")
      BY <2>1, <2>4 DEF CallInv, JoinIsServed
    <3>2. Tells(msg) BY <1>1, <2>2, <2>3, <3>1 DEF Tells, OfferInv, Negotiating
    <3>3. toClient' = Append(toClient, msg) BY <2>2, <2>4 DEF ToClient, msg
    <3>4. NoRequest("main")' BY <2>1, <3>1 DEF NoRequest
    <3> QED BY <1>1, <2>1, <2>3, <3>1, <3>2, <3>3, <3>4, FewerCases, RepliesToCall DEF CallType
  <2>5. CASE ~open
    <3>1. toClient' = toClient BY <2>2, <2>5 DEF ToClient
    <3> QED BY <1>1, <2>1, <3>1, FewerCases, QuietCalls DEF CallType
  <2> QED BY <2>4, <2>5
<1>4. CASE HandleOffer \/ HandlePing
  <2>1. /\ open /\ toServer # <<>> /\ Head(toServer).m \in {"offer", "ping"}
        /\ toServer' = Tail(toServer)
        /\ UNCHANGED <<open, at, reply, created, serving>>
    BY <1>4 DEF HandleOffer, HandlePing, Handles
  <2>2. PICK g \in Callers :
           /\ g = Head(toServer).by /\ Asks(Head(toServer))
           /\ ~CallOver(g) /\ NoReply(g) /\ NoRequest(g)'
           /\ g = "main" => ~(open /\ serving = "join")
    BY <1>1, <2>1, FirstRequest DEF Requests
  <2>3. Head(toServer).n \in Nat BY <1>1, <2>1, ReadMessage DEF CallType
  <2>4. PICK m \in Replies, n \in Nat :
          /\ ToClient(Msg(m, g, n, "none"))
          /\ m = "reply" /\ Head(toServer).m = "offer" => n = Head(toServer).n
    BY <1>4, <2>2, <2>3 DEF HandleOffer, HandlePing, Handles, ReplyError, Replies
  <2> DEFINE msg == Msg(m, g, n, "none")
  <2>5. msg \in Sendable /\ msg.m = m /\ msg.by = g /\ msg.n = n BY Sends DEF Replies
  <2> HIDE DEF msg
  <2>6. Tells(msg) BY <2>1, <2>2, <2>4, <2>5 DEF Tells, Asks, Negotiating
  <2>7. toClient' = Append(toClient, msg) BY <2>1, <2>4 DEF ToClient, msg
  <2>8. Fewer(toServer, toServer', Requests) BY <1>1, <2>1, FewerCases DEF CallType
  <2> QED BY <1>1, <2>1, <2>2, <2>5, <2>6, <2>7, <2>8, RepliesToCall
<1>5. CASE HandleAnswer \/ HandleTrickle
  <2>1. /\ toServer # <<>> /\ toServer' = Tail(toServer)
        /\ toClient' = toClient \/ ToClient(Msg("error", "none", 0, "none"))
        /\ UNCHANGED <<open, at, reply, created, serving>>
    BY <1>5 DEF HandleAnswer, HandleTrickle, Handles, ReplyError
  <2>2. Msg("error", "none", 0, "none") \in Sendable /\ Stray(Msg("error", "none", 0, "none"))
    BY Sends DEF Stray
  <2>3. Fewer(toClient, toClient', Replies)
    BY <1>1, <2>1, <2>2, FewerCases DEF CallType, ToClient
  <2>4. Fewer(toServer, toServer', Requests) BY <1>1, <2>1, FewerCases DEF CallType
  <2> QED BY <2>1, <2>3, <2>4, QuietCalls
<1> QED BY <1>1, <1>2, <1>3, <1>4, <1>5, HandleJoinCalls DEF ServerReads

LEMMA OtherCalls ==
  ASSUME TypeOK, CallInv,
         \/ Change \/ Negotiate \/ Disconnect \/ Signal \/ UNCHANGED vars
         \/ \E r \in Roles : Trickle(r) \/ OnIceCandidate(r)
  PROVE  CallInv'
<1>1. CallType BY TypedCalls
<1>2. CASE Change \/ Signal \/ UNCHANGED vars
  <2>1. UNCHANGED callVars BY <1>2 DEF Change, Signal, vars, callVars
  <2> QED BY <1>1, <2>1, FewerCases, QuietCalls DEF CallType, callVars
<1>3. CASE Disconnect
  <2>1. /\ toServer' = <<>> /\ toClient' = <<>> /\ ~open'
        /\ UNCHANGED <<at, reply, serving, created>>
    BY <1>3 DEF Disconnect, Close
  <2> QED BY <1>1, <2>1, FewerCases, QuietCalls DEF CallType
<1>4. CASE Negotiate
  <2>1. UNCHANGED <<toServer, open, at, reply, serving, created>> BY <1>4 DEF Negotiate
  <2>2. \/ toClient' = toClient
        \/ ToClient(Msg("offer", "none", subOffers + 1, "none"))
    BY <1>4 DEF Negotiate
  <2>3. subOffers + 1 \in Nat \ {0} BY DEF TypeOK, ServerType
  <2>4. Msg("offer", "none", subOffers + 1, "none") \in Sendable /\
        Msg("offer", "none", subOffers + 1, "none").m \notin Replies
    BY <2>3, Sends DEF Replies
  <2>5. Fewer(toClient, toClient', Replies)
    BY <1>1, <2>2, <2>4, FewerCases DEF CallType, ToClient
  <2>6. Fewer(toServer, toServer', Requests) BY <1>1, <2>1, FewerCases DEF CallType
  <2> QED BY <2>1, <2>5, <2>6, QuietCalls
<1>5. ASSUME NEW r \in Roles, Trickle(r) PROVE CallInv'
  <2>1. /\ UNCHANGED <<toClient, open, at, reply, serving, created>>
        /\ sent' = [sent EXCEPT ![r] = @ + 1]
        /\ ToServer(Msg("trickle", "none", sent'[r], r))
    BY <1>5 DEF Trickle, SendTrickle
  <2>2. sent'[r] \in Nat \ {0} BY <2>1 DEF TypeOK, ClientType
  <2>3. \E e \in Sendable : e.m \notin Requests /\ ToServer(e) BY <2>1, <2>2, Sends DEF Requests
  <2>4. Fewer(toServer, toServer', Requests) BY <1>1, <2>3, FewerCases DEF CallType, ToServer
  <2>5. Fewer(toClient, toClient', Replies) BY <1>1, <2>1, FewerCases DEF CallType
  <2> QED BY <2>1, <2>4, <2>5, QuietCalls
<1>6. ASSUME NEW r \in Roles, OnIceCandidate(r) PROVE CallInv'
  <2>1. /\ UNCHANGED <<toServer, open, at, reply, serving, created>>
        /\ trickled' = [trickled EXCEPT ![r] = @ + 1]
        /\ toClient' = toClient \/ ToClient(Msg("trickle", "none", trickled'[r], r))
    BY <1>6 DEF OnIceCandidate
  <2>2. trickled'[r] \in Nat \ {0} BY <2>1 DEF TypeOK, ServerType
  <2>3. toClient' = toClient \/ \E e \in Sendable : e.m \notin Replies /\ ToClient(e)
    BY <2>1, <2>2, Sends DEF Replies
  <2>4. Fewer(toClient, toClient', Replies) BY <1>1, <2>3, FewerCases DEF CallType, ToClient
  <2>5. Fewer(toServer, toServer', Requests) BY <1>1, <2>1, FewerCases DEF CallType
  <2> QED BY <2>1, <2>4, <2>5, QuietCalls
<1> QED BY <1>2, <1>3, <1>4, <1>5, <1>6

-------------------------------------------------------------------------------
\* The websocket, and the type of the server's state

\* What a step does to a queue.
Flow(q, q2) ==
  \/ q2 = q
  \/ q2 = <<>>
  \/ open /\ q # <<>> /\ q2 = Tail(q)
  \/ open /\ \E e \in Sendable : q2 = Append(q, e)

NetStep ==
  /\ Flow(toServer, toServer') /\ Flow(toClient, toClient')
  /\ open' = open \/ (open' = FALSE /\ toServer' = <<>> /\ toClient' = <<>>)

LEMMA SentFlows ==
  ASSUME NEW e \in Sendable
  PROVE  /\ ToServer(e) => Flow(toServer, toServer')
         /\ ToClient(e) => Flow(toClient, toClient')
BY DEF ToServer, ToClient, Flow

LEMMA NetKeeps ==
  ASSUME NetType, ClosedIsEmpty, NetStep
  PROVE  NetType' /\ ClosedIsEmpty'
<1>1. ASSUME NEW q \in Seq(Sendable), NEW q2, Flow(q, q2) PROVE q2 \in Seq(Sendable)
  <2>1. CASE q2 = q \/ q2 = <<>> BY <2>1, EmptySeq
  <2>2. CASE q # <<>> /\ q2 = Tail(q) BY <2>2, Popped
  <2>3. ASSUME NEW e \in Sendable, q2 = Append(q, e) PROVE q2 \in Seq(Sendable) BY <2>3, Pushed
  <2> QED BY <1>1, <2>1, <2>2, <2>3 DEF Flow
<1>2. NetType' BY <1>1 DEF NetType, NetStep
<1>3. ClosedIsEmpty' BY DEF ClosedIsEmpty, NetStep, Flow
<1> QED BY <1>2, <1>3

LEMMA NetSteps ==
  ASSUME TypeOK, OfferInv, Next \/ UNCHANGED vars
  PROVE  NetStep
<1>1. /\ toServer \in Seq(Sendable) /\ toClient \in Seq(Sendable)
      /\ created \in [Callers -> Nat] /\ localOffer \in Nat
  <2>1. content \in Seq(0 .. 2) /\ localOffer \in 0 .. Len(content) BY DEF TypeOK, ClientType
  <2>2. Len(content) \in Nat BY <2>1, LenProperties
  <2> QED BY <2>1, <2>2 DEF TypeOK, NetType, ClientType
<1>2. CASE UNCHANGED <<toServer, toClient, open>> BY <1>2 DEF NetStep, Flow
<1>3. CASE Close BY <1>3 DEF Close, NetStep, Flow
<1>4. CASE SignalJoin \/ Ping
  <2>1. UNCHANGED <<toClient, open>> BY <1>4 DEF SignalJoin, Ping
  <2>2. \E e \in Sendable : ToServer(e)
    BY <1>1, <1>4, Sends DEF SignalJoin, Ping, Callers
  <2> QED BY <2>1, <2>2, SentFlows DEF NetStep, Flow
<1>5. ASSUME NEW g \in Callers, SetLocalDescription(g) PROVE NetStep
  <2>1. UNCHANGED <<toClient, open>> BY <1>5 DEF SetLocalDescription
  <2>2. created[g] \in Nat \ {0}
    <3>1. content \in Seq(0 .. 2) /\ created[g] \in 1 .. Len(content)
      BY <1>5 DEF TypeOK, ClientType, OfferInv, SetLocalDescription
    <3>2. Len(content) \in Nat BY <3>1, LenProperties
    <3> QED BY <3>1, <3>2
  <2>3. Msg("offer", g, created[g], "none") \in Sendable BY <2>2, Sends
  <2>4. toServer' = toServer \/ \E e \in Sendable : ToServer(e)
    BY <1>5, <2>3 DEF SetLocalDescription
  <2> QED BY <2>1, <2>4, SentFlows DEF NetStep, Flow
<1>6. CASE ReadReply \/ SignalOnTrickle
  BY <1>6 DEF ReadReply, SignalOnTrickle, Reads, NetStep, Flow
<1>7. CASE SignalOnNegotiate
  <2>1. /\ open /\ toClient # <<>> /\ Head(toClient).m = "offer" /\ toClient' = Tail(toClient)
        /\ \/ toServer' = toServer
           \/ ToServer(Msg("answer", "none", Head(toClient).n, "none"))
        /\ open' = open
    BY <1>7 DEF SignalOnNegotiate, Reads, SendAnswer, NotAnswered
  <2>2. Head(toClient).n \in Nat \ {0} BY <1>1, <2>1, ReadMessage
  <2>3. toServer' = toServer \/ \E e \in Sendable : ToServer(e) BY <2>1, <2>2, Sends
  <2> QED BY <2>1, <2>3, SentFlows DEF NetStep, Flow
<1>8. ASSUME NEW r \in Roles, Trickle(r) PROVE NetStep
  <2>1. /\ UNCHANGED <<toClient, open>> /\ sent' = [sent EXCEPT ![r] = @ + 1]
        /\ ToServer(Msg("trickle", "none", sent'[r], r))
    BY <1>8 DEF Trickle, SendTrickle
  <2>2. sent'[r] \in Nat \ {0} BY <2>1 DEF TypeOK, ClientType
  <2>3. \E e \in Sendable : ToServer(e) BY <2>1, <2>2, Sends
  <2> QED BY <2>1, <2>3, SentFlows DEF NetStep, Flow
<1>9. CASE HandleJoin \/ HandleAnswer \/ HandleTrickle
  <2>1. /\ open /\ toServer # <<>> /\ toServer' = Tail(toServer) /\ open' = open
        /\ toClient' = toClient \/ ToClient(Msg("error", "none", 0, "none"))
    BY <1>9 DEF HandleJoin, HandleAnswer, HandleTrickle, Handles, ReplyError
  <2>2. toClient' = toClient \/ \E e \in Sendable : ToClient(e) BY <2>1, Sends
  <2> QED BY <2>1, <2>2, SentFlows DEF NetStep, Flow
<1>10. CASE ReplyJoin \/ JoinError
  <2>1. UNCHANGED <<toServer, open>> BY <1>10 DEF ReplyJoin, JoinError
  <2>2. \E e \in Sendable : ToClient(e)
    BY <1>10, Sends DEF ReplyJoin, JoinError, ReplyError, Callers
  <2> QED BY <2>1, <2>2, SentFlows DEF NetStep, Flow
<1>11. CASE HandleOffer \/ HandlePing
  <2>1. open /\ toServer # <<>> /\ toServer' = Tail(toServer) /\ open' = open
    BY <1>11 DEF HandleOffer, HandlePing, Handles
  <2>2. Head(toServer).by \in Callers \cup {"none"} /\ Head(toServer).n \in Nat
    BY <1>1, <2>1, ReadMessage
  <2>3. /\ Msg("reply", Head(toServer).by, Head(toServer).n, "none") \in Sendable
        /\ Msg("reply", Head(toServer).by, 0, "none") \in Sendable
        /\ Msg("error", Head(toServer).by, 0, "none") \in Sendable
    BY <2>2, Sends
  <2>4. \E e \in Sendable : ToClient(e)
    BY <1>11, <2>3 DEF HandleOffer, HandlePing, ReplyError
  <2> QED BY <2>1, <2>4, SentFlows DEF NetStep, Flow
<1>12. CASE Negotiate
  <2>1. /\ UNCHANGED <<toServer, open>>
        /\ toClient' = toClient \/ ToClient(Msg("offer", "none", subOffers + 1, "none"))
    BY <1>12 DEF Negotiate
  <2>2. subOffers + 1 \in Nat \ {0} BY DEF TypeOK, ServerType
  <2>3. toClient' = toClient \/ \E e \in Sendable : ToClient(e) BY <2>1, <2>2, Sends
  <2> QED BY <2>1, <2>3, SentFlows DEF NetStep, Flow
<1>13. ASSUME NEW r \in Roles, OnIceCandidate(r) PROVE NetStep
  <2>1. /\ UNCHANGED <<toServer, open>> /\ trickled' = [trickled EXCEPT ![r] = @ + 1]
        /\ toClient' = toClient \/ ToClient(Msg("trickle", "none", trickled'[r], r))
    BY <1>13 DEF OnIceCandidate
  <2>2. trickled'[r] \in Nat \ {0} BY <2>1 DEF TypeOK, ServerType
  <2>3. toClient' = toClient \/ \E e \in Sendable : ToClient(e) BY <2>1, <2>2, Sends
  <2> QED BY <2>1, <2>3, SentFlows DEF NetStep, Flow
<1>14. CASE Join \/ JoinAnswered \/ JoinApply \/ JoinFails \/ Publish \/ PingReturns \/ SignalClosed
  BY <1>2, <1>14 DEF Join, JoinAnswered, JoinApply, JoinFails, Publish, PingReturns, SignalClosed
<1>15. ASSUME NEW g \in Callers, CreateOffer(g) \/ SetRemoteDescription(g) \/ OfferFails(g)
       PROVE  NetStep
  BY <1>2, <1>15 DEF CreateOffer, SetRemoteDescription, OfferFails
<1>16. CASE \/ OnNegotiationNeeded \/ AppendCandidate \/ PeerJoin \/ SetCallbacks \/ Change
            \/ Signal \/ UNCHANGED vars
  BY <1>2, <1>16 DEF OnNegotiationNeeded, AppendCandidate, PeerJoin, SetCallbacks, Change,
     Signal, vars
<1>17. CASE GotSignal \/ Disconnect BY <1>3, <1>17 DEF GotSignal, Disconnect
<1>18. Main \/ Ops => NetStep
  BY <1>4, <1>5, <1>14, <1>15, <1>16, <1>17 DEF Main, Ops, PubNegotiationNeeded, Callers
<1>19. ClientReads \/ ServerReads => NetStep
  BY <1>6, <1>7, <1>9, <1>10, <1>11, <1>16 DEF ClientReads, ServerReads
<1> QED BY <1>4, <1>8, <1>12, <1>13, <1>16, <1>17, <1>18, <1>19 DEF Next

LEMMA ServerTypes ==
  ASSUME TypeOK, TrickleInv, Next \/ UNCHANGED vars
  PROVE  ServerType'
<1> USE DEF ServerType
<1>1. ServerType BY DEF TypeOK
<1>2. CASE UNCHANGED serverVars BY <1>1, <1>2
<1>3. Main \/ Ops \/ ClientReads \/ Ping =>
        UNCHANGED <<peer, serving, refused, subVars>> /\ failed' \subseteq failed \cup {"offer", "answer"}
  BY DEF Main, Ops, ClientReads, Ping, PubNegotiationNeeded, Join, SignalJoin, JoinAnswered,
     JoinApply, JoinFails, Publish, CreateOffer, SetLocalDescription, SetRemoteDescription,
     OfferFails, PingReturns, GotSignal, SignalClosed, OnNegotiationNeeded, ReadReply,
     SignalOnNegotiate, NotAnswered, SignalOnTrickle, AppendCandidate
<1>10. CASE Main \/ Ops \/ ClientReads \/ Ping BY <1>1, <1>3, <1>10
<1>4. Disconnect \/ Signal \/ UNCHANGED vars \/ (\E r \in Roles : Trickle(r)) => UNCHANGED serverVars
  BY DEF Disconnect, Signal, vars, Trickle
<1>5. CASE HandleTrickle
  <2>1. /\ toServer # <<>> /\ Head(toServer).m = "trickle"
        /\ refused' \subseteq refused \cup {<<Head(toServer).to, Head(toServer).n>>}
        /\ UNCHANGED <<peer, serving, failed, subVars>>
    BY <1>5 DEF HandleTrickle, Handles
  <2>2. Head(toServer).to \in Roles /\ Head(toServer).n \in Nat
    BY <2>1, Popped, ReadMessage DEF TypeOK, NetType, TrickleInv
  <2> QED BY <1>1, <2>1, <2>2
<1>6. CASE HandleJoin \/ PeerJoin \/ SetCallbacks \/ ReplyJoin \/ JoinError
  BY <1>1, <1>6 DEF HandleJoin, PeerJoin, SetCallbacks, ReplyJoin, JoinError
<1>7. CASE HandleOffer \/ HandlePing
  BY <1>1, <1>7 DEF HandleOffer, HandlePing
<1>11. CASE HandleAnswer
  <2>1. /\ UNCHANGED <<peer, serving, refused, changes, subOffers, lostOffer, trickled>>
        /\ failed' \subseteq failed \cup {"answer"}
        /\ remoteAnswerPending' \in {remoteAnswerPending, FALSE}
        /\ negotiationPending' \in {negotiationPending, FALSE}
        /\ wanted' \in {wanted, wanted \/ negotiationPending}
    BY <1>11 DEF HandleAnswer
  <2>2. /\ remoteAnswerPending' \in BOOLEAN /\ negotiationPending' \in BOOLEAN
        /\ wanted' \in BOOLEAN
    BY <1>1, <2>1, Zenon
  <2> QED BY <1>1, <2>1, <2>2
<1>8. CASE Change \/ Negotiate
  <2>1. /\ UNCHANGED <<peerVars, trickled>> /\ wanted' \in BOOLEAN
        /\ changes' \in {changes, changes + 1} /\ subOffers' \in {subOffers, subOffers + 1}
    BY <1>8 DEF Change, Negotiate
  <2>2. /\ remoteAnswerPending' \in {remoteAnswerPending, TRUE}
        /\ negotiationPending' \in {negotiationPending, TRUE}
        /\ lostOffer' \in {lostOffer, TRUE}
    BY <1>8 DEF Change, Negotiate
  <2>3. /\ remoteAnswerPending' \in BOOLEAN /\ negotiationPending' \in BOOLEAN
        /\ lostOffer' \in BOOLEAN
    BY <1>1, <2>2, Zenon
  <2>4. changes' \in Nat /\ subOffers' \in Nat BY <1>1, <2>1
  <2>5. /\ peer' \in {"none", "joined", "ready"} /\ serving' \in {"idle", "join"}
        /\ failed' \subseteq {"join", "offer", "answer"} /\ refused' \subseteq Roles \X Nat
        /\ trickled' \in [Roles -> Nat]
    BY <1>1, <2>1
  <2> QED BY <2>1, <2>3, <2>4, <2>5
<1>9. ASSUME NEW r \in Roles, OnIceCandidate(r) PROVE ServerType'
  BY <1>1, <1>9 DEF OnIceCandidate
<1> HIDE DEF ServerType
<1> QED BY <1>2, <1>4, <1>5, <1>6, <1>7, <1>8, <1>9, <1>10, <1>11 DEF Next, ServerReads

-------------------------------------------------------------------------------
\* The goroutines of the client

\* What is not a step of the client leaves its state alone.
LEMMA ServerLeavesClient ==
  ASSUME \/ ServerReads \/ Change \/ Negotiate \/ Disconnect \/ UNCHANGED vars
         \/ \E r \in Roles : OnIceCandidate(r)
  PROVE  UNCHANGED clientVars
BY DEF ServerReads, HandleJoin, PeerJoin, SetCallbacks, ReplyJoin, JoinError, HandleOffer,
   HandleAnswer, HandleTrickle, HandlePing, Change, Negotiate, Disconnect, OnIceCandidate, vars

\* The number in the reply a negotiating goroutine takes is that of its offer.
LEMMA OwnAnswer ==
  ASSUME CallInv, ThreadInv, OfferInv, NEW g \in Callers, at[g] \in Negotiating, Answered(g)
  PROVE  reply[g][1].n = localOffer
<1>1. reply[g][1].n = created[g] BY DEF CallInv, Numbers, Answered
<1>2. at[g] = "offerWait" \/ (g = "main" /\ at[g] = "joinWait")
  BY DEF Negotiating, Callers, ThreadInv
<1>3. localOffer = created[g] BY <1>2 DEF OfferInv
<1> QED BY <1>1, <1>3

LEMMA ThreadStep ==
  ASSUME TypeOK, ThreadInv, Next \/ UNCHANGED vars
  PROVE  ThreadInv'
<1> USE DEF ThreadInv
<1>1. "main" \in Callers /\ "ops" \in Callers /\ at \in [Callers -> Places]
  BY DEF Callers, TypeOK, ClientType
<1>2. CASE UNCHANGED <<at, callback, tracks>> BY <1>2
<1>3. CASE \/ ServerReads \/ Change \/ Negotiate \/ Disconnect \/ UNCHANGED vars
           \/ \E r \in Roles : OnIceCandidate(r)
  BY <1>2, <1>3, ServerLeavesClient
<1>4. CASE ClientReads \/ Signal \/ GotSignal \/ \E r \in Roles : Trickle(r)
  BY <1>2, <1>4 DEF ClientReads, ReadReply, SignalOnNegotiate, SignalOnTrickle, AppendCandidate,
     Signal, GotSignal, Trickle
<1>5. CASE Join \/ SignalJoin \/ JoinAnswered \/ JoinFails
  BY <1>1, <1>5 DEF Join, SignalJoin, JoinAnswered, JoinFails, Goto, Joining
<1>6. CASE JoinApply BY <1>1, <1>6 DEF JoinApply, Goto, Joining
<1>7. CASE Publish BY <1>1, <1>7 DEF Publish, Goto, Joining
<1>8. CASE Ping \/ PingReturns BY <1>1, <1>8 DEF Ping, PingReturns, Goto, Joining
<1>9. CASE SignalClosed
  <2>1. at' = [g \in Callers |-> "exit"] BY <1>9 DEF SignalClosed
  <2>2. at'["main"] = "exit" /\ at'["ops"] = "exit" BY <1>1, <2>1
  <2> QED BY <2>2 DEF Joining
<1>10. CASE OnNegotiationNeeded
  BY <1>1, <1>10 DEF OnNegotiationNeeded, Goto, Joining
<1>11. ASSUME NEW g \in Callers, PubNegotiationNeeded(g) PROVE ThreadInv'
  <2>1. UNCHANGED <<callback, tracks>> /\ at[g] \in {"createOffer", "setLocal", "offerWait"}
    BY <1>11 DEF PubNegotiationNeeded, CreateOffer, SetLocalDescription, SetRemoteDescription,
       OfferFails
  <2>2. \E l \in {"setLocal", "offerWait", IF g = "main" THEN "loop" ELSE "idle"} :
          at' = [at EXCEPT ![g] = l]
    BY <1>11 DEF PubNegotiationNeeded, CreateOffer, SetLocalDescription, SetRemoteDescription,
       OfferFails, Done, Goto
  <2>3. CASE g = "main" BY <1>1, <2>1, <2>2, <2>3 DEF Joining
  <2>4. CASE g = "ops" BY <1>1, <2>1, <2>2, <2>4 DEF Joining
  <2> QED BY <2>3, <2>4 DEF Callers
<1> HIDE DEF ThreadInv
<1> QED BY <1>3, <1>4, <1>5, <1>6, <1>7, <1>8, <1>9, <1>10, <1>11 DEF Next, Main, Ops, Callers

\* A goroutine goes where it has nothing to do with an offer.
LEMMA MovesAside ==
  ASSUME OfferInv, at \in [Callers -> Places], NEW g \in Callers,
         NEW l \in Places \ {"start", "sendJoin", "joinWait", "setLocal", "offerWait"},
         at' = [at EXCEPT ![g] = l],
         UNCHANGED <<signaling, localOffer, answered, created, content>>
  PROVE  OfferInv'
<1>1. at'[g] = l /\ \A h \in Callers \ {g} : at'[h] = at[h] OBVIOUS
<1>2. "main" \in Callers /\ "ops" \in Callers BY DEF Callers
<1>3. \A p \in {"start", "sendJoin", "joinWait", "setLocal", "offerWait"} :
        \A h \in Callers : at'[h] = p => at[h] = p
  BY <1>1
<1> QED BY <1>2, <1>3 DEF OfferInv, AnswerFitsOffer

LEMMA OfferStep ==
  ASSUME TypeOK, CallInv, ThreadInv, OfferInv, Next \/ UNCHANGED vars
  PROVE  OfferInv'
<1>1. /\ "main" \in Callers /\ "ops" \in Callers /\ at \in [Callers -> Places]
      /\ content \in Seq(0 .. 2) /\ created \in [Callers -> Nat] /\ tracks \in 0 .. 2
  BY DEF Callers, TypeOK, ClientType
<1>2. CASE UNCHANGED <<at, signaling, localOffer, answered, created, content>>
  BY <1>2 DEF OfferInv, AnswerFitsOffer
<1>3. CASE \/ ServerReads \/ Change \/ Negotiate \/ Disconnect \/ UNCHANGED vars
           \/ \E r \in Roles : OnIceCandidate(r)
  BY <1>2, <1>3, ServerLeavesClient
<1>4. CASE ClientReads \/ Signal \/ GotSignal \/ \E r \in Roles : Trickle(r)
  BY <1>2, <1>4 DEF ClientReads, ReadReply, SignalOnNegotiate, SignalOnTrickle, AppendCandidate,
     Signal, GotSignal, Trickle
<1>5. CASE Join
  <2>1. /\ at["main"] = "start" /\ at' = [at EXCEPT !["main"] = "sendJoin"]
        /\ created' = [created EXCEPT !["main"] = 1]
        /\ signaling' = "haveLocalOffer" /\ localOffer' = 1
    BY <1>5 DEF Join, Goto
  <2>2. at["ops"] = "idle" BY <2>1 DEF ThreadInv, Joining
  <2>3. at'["main"] = "sendJoin" /\ at'["ops"] = "idle" /\ created'["main"] = 1
    BY <1>1, <2>1, <2>2
  <2> QED BY <2>1, <2>3 DEF OfferInv, AnswerFitsOffer, Callers
<1>6. CASE SignalJoin
  <2>1. /\ at["main"] = "sendJoin" /\ at' = [at EXCEPT !["main"] = "joinWait"]
        /\ UNCHANGED <<signaling, localOffer, answered, created, content>>
    BY <1>6 DEF SignalJoin, Goto
  <2>2. at'["main"] = "joinWait" /\ at'["ops"] = at["ops"] BY <1>1, <2>1
  <2> QED BY <2>1, <2>2 DEF OfferInv, AnswerFitsOffer, Callers
<1>7. CASE JoinAnswered
  <2>1. /\ at["main"] = "joinWait" /\ Answered("main") /\ at' = [at EXCEPT !["main"] = "joinApply"]
        /\ answered' = reply["main"][1].n /\ signaling' = "stable" /\ localOffer' = localOffer
    BY <1>7 DEF JoinAnswered, Goto
  <2>2. answered' = localOffer BY <1>1, <2>1, OwnAnswer DEF Negotiating
  <2>3. at["ops"] = "idle" BY <2>1 DEF ThreadInv, Joining
  <2>4. at'["main"] = "joinApply" /\ at'["ops"] = "idle" BY <1>1, <2>1, <2>3
  <2> QED BY <2>1, <2>2, <2>4 DEF OfferInv, AnswerFitsOffer, Callers
<1>8. CASE JoinApply \/ JoinFails \/ Publish \/ PingReturns \/ Ping
  <2>1. PICK l \in {"publish", "loop", "returned", "publishAudio", "createOffer", "pingWait"} :
          at' = [at EXCEPT !["main"] = l]
    BY <1>8 DEF JoinApply, JoinFails, Publish, PingReturns, Ping, Goto
  <2>2. UNCHANGED <<signaling, localOffer, answered, created, content>>
    BY <1>8 DEF JoinApply, JoinFails, Publish, PingReturns, Ping
  <2>3. l \in Places \ {"start", "sendJoin", "joinWait", "setLocal", "offerWait"}
    BY DEF Places, Waiting
  <2> QED BY <1>1, <2>1, <2>2, <2>3, MovesAside
<1>9. CASE SignalClosed
  <2>1. /\ at' = [g \in Callers |-> "exit"]
        /\ UNCHANGED <<signaling, localOffer, answered, created, content>>
    BY <1>9 DEF SignalClosed
  <2>2. \A g \in Callers : at'[g] = "exit" BY <2>1
  <2> QED BY <1>1, <2>1, <2>2 DEF OfferInv, AnswerFitsOffer
<1>10. CASE OnNegotiationNeeded
  <2>1. /\ at' = [at EXCEPT !["ops"] = "createOffer"]
        /\ UNCHANGED <<signaling, localOffer, answered, created, content>>
    BY <1>10 DEF OnNegotiationNeeded, Goto
  <2>2. "createOffer" \in Places \ {"start", "sendJoin", "joinWait", "setLocal", "offerWait"}
    BY DEF Places, Waiting
  <2> QED BY <1>1, <2>1, <2>2, MovesAside
<1>11. ASSUME NEW g \in Callers, PubNegotiationNeeded(g) PROVE OfferInv'
  <2>1. at["main"] \notin {"start", "sendJoin", "joinWait"} \/ g = "main"
    BY <1>11 DEF PubNegotiationNeeded, CreateOffer, SetLocalDescription, SetRemoteDescription,
       OfferFails, ThreadInv, Joining, Callers
  <2>2. CASE CreateOffer(g)
    <3>1. /\ at[g] = "createOffer" /\ at' = [at EXCEPT ![g] = "setLocal"]
          /\ content' = Append(content, tracks)
          /\ created' = [created EXCEPT ![g] = Len(content')]
          /\ UNCHANGED <<signaling, localOffer, answered>>
      BY <2>2 DEF CreateOffer, Goto
    <3>2. Len(content) \in Nat /\ Len(content') = Len(content) + 1
      BY <1>1, <3>1, Pushed
    <3>3. /\ at'[g] = "setLocal" /\ created'[g] = Len(content')
          /\ \A h \in Callers \ {g} : at'[h] = at[h] /\ created'[h] = created[h]
      BY <1>1, <3>1
    <3>4. \A h \in Callers : at'[h] = "setLocal" => created'[h] \in 1 .. Len(content')
      BY <3>2, <3>3 DEF OfferInv
    <3>5. at'["main"] \notin {"start", "sendJoin", "joinWait"} BY <1>1, <2>1, <3>3
    <3> QED BY <1>1, <3>1, <3>3, <3>4, <3>5 DEF OfferInv, AnswerFitsOffer
  <2>3. CASE SetLocalDescription(g) /\ Acceptable(g)
    <3>1. /\ at[g] = "setLocal" /\ at' = [at EXCEPT ![g] = "offerWait"]
          /\ signaling = "stable" /\ signaling' = "haveLocalOffer" /\ localOffer' = created[g]
          /\ UNCHANGED <<created, content>>
      BY <2>3 DEF SetLocalDescription, Goto, Acceptable
    <3>2. \A h \in Callers : at[h] # "offerWait" BY <3>1 DEF OfferInv
    <3>3. at'[g] = "offerWait" /\ \A h \in Callers \ {g} : at'[h] = at[h] BY <1>1, <3>1
    <3>4. at'["main"] \notin {"start", "sendJoin", "joinWait"} BY <1>1, <2>1, <3>3
    <3> QED BY <1>1, <3>1, <3>2, <3>3, <3>4 DEF OfferInv, AnswerFitsOffer, Callers
  <2>4. CASE \/ SetLocalDescription(g) /\ ~Acceptable(g)
             \/ OfferFails(g)
    <3>1. PICK l \in {"loop", "idle"} : at' = [at EXCEPT ![g] = l]
      BY <2>4 DEF SetLocalDescription, OfferFails, Done, Goto
    <3>2. UNCHANGED <<signaling, localOffer, answered, created, content>>
      BY <2>4 DEF SetLocalDescription, OfferFails
    <3>3. l \in Places \ {"start", "sendJoin", "joinWait", "setLocal", "offerWait"}
      BY DEF Places, Waiting
    <3> QED BY <1>1, <3>1, <3>2, <3>3, MovesAside
  <2>5. CASE SetRemoteDescription(g)
    <3>1. /\ at[g] = "offerWait" /\ Answered(g)
          /\ signaling = "haveLocalOffer" =>
               answered' = reply[g][1].n /\ signaling' = "stable"
          /\ UNCHANGED <<localOffer, created, content>>
      BY <2>5 DEF SetRemoteDescription
    <3>2. PICK l \in {"loop", "idle"} : at' = [at EXCEPT ![g] = l]
      BY <2>5 DEF SetRemoteDescription, Done, Goto
    <3>3. signaling = "haveLocalOffer" BY <3>1 DEF OfferInv
    <3>4. answered' = localOffer /\ signaling' = "stable"
      BY <3>1, <3>3, OwnAnswer DEF Negotiating
    <3>5. at'[g] = l /\ \A h \in Callers \ {g} : at'[h] = at[h] BY <1>1, <3>2
    <3>6. \A h \in Callers : at'[h] # "offerWait" BY <3>1, <3>5 DEF OfferInv, Callers
    <3>7. at'["main"] \notin {"start", "sendJoin", "joinWait"} BY <1>1, <2>1, <3>5
    <3>8. \A h \in Callers : at'[h] = "setLocal" => created'[h] \in 1 .. Len(content')
      BY <3>1, <3>5 DEF OfferInv
    <3> QED BY <1>1, <3>1, <3>4, <3>6, <3>7, <3>8 DEF OfferInv, AnswerFitsOffer
  <2> QED BY <1>11, <2>2, <2>3, <2>4, <2>5 DEF PubNegotiationNeeded
<1> QED BY <1>1, <1>3, <1>4, <1>5, <1>6, <1>7, <1>8, <1>9, <1>10, <1>11 DEF Next, Main, Ops

LEMMA OneMore ==
  ASSUME NEW f \in [Roles -> SUBSET Nat], NEW r, NEW n \in Nat
  PROVE  [f EXCEPT ![r] = @ \cup {n}] \in [Roles -> SUBSET Nat]
<1>1. CASE r \in Roles BY <1>1
<1>2. CASE r \notin Roles BY <1>2
<1> QED BY <1>1, <1>2

LEMMA ClientTypes ==
  ASSUME TypeOK, CallInv, ThreadInv, OfferInv, Next \/ UNCHANGED vars
  PROVE  ClientType'
<1> USE DEF ClientType
<1>1. ClientType /\ "main" \in Callers /\ "ops" \in Callers /\ "pub" \in Roles /\ "sub" \in Roles
  BY DEF TypeOK, Callers, Roles
<1>2. Len(content) \in Nat BY <1>1, LenProperties
<1>3. <<>> \in Seq(Message) BY EmptySeq
<1>4. CASE UNCHANGED clientVars BY <1>1, <1>4
<1>5. CASE \/ ServerReads \/ Change \/ Negotiate \/ Disconnect \/ UNCHANGED vars
           \/ \E r \in Roles : OnIceCandidate(r)
  BY <1>4, <1>5, ServerLeavesClient
<1>6. CASE Join
  <2>1. /\ at' = [at EXCEPT !["main"] = "sendJoin"] /\ created' = [created EXCEPT !["main"] = 1]
        /\ content' = <<0>> /\ signaling' = "haveLocalOffer" /\ localOffer' = 1
        /\ answered' = answered /\ answered = 0
    BY <1>6 DEF Join, Goto, OfferInv
  <2>2. UNCHANGED <<reply, callback, tracks, candVars, sentVars, loopVars>> BY <1>6 DEF Join
  <2>3. content' \in Seq(0 .. 2) /\ Len(content') = 1 BY <2>1
  <2>4. at' \in [Callers -> Places] BY <1>1, <2>1 DEF Places
  <2> QED BY <1>1, <2>1, <2>2, <2>3, <2>4
<1>7. CASE SignalJoin \/ Ping \/ OnNegotiationNeeded
  <2>1. /\ UNCHANGED <<reply, pubVars, candVars, sentVars, signalled>>
        /\ pings' \in {pings, pings + 1}
    BY <1>7 DEF SignalJoin, Ping, OnNegotiationNeeded
  <2>2. at' \in [Callers -> Places]
    BY <1>1, <1>7 DEF SignalJoin, Ping, OnNegotiationNeeded, Goto, Places, Waiting
  <2> QED BY <1>1, <2>1, <2>2
<1>8. CASE JoinAnswered
  <2>1. /\ at["main"] = "joinWait" /\ Answered("main") /\ at' = [at EXCEPT !["main"] = "joinApply"]
        /\ answered' = reply["main"][1].n /\ signaling' = "stable"
        /\ reply' = [reply EXCEPT !["main"] = <<>>]
        /\ UNCHANGED <<created, content, localOffer, callback, tracks, candVars, sentVars, loopVars>>
    BY <1>8 DEF JoinAnswered, Goto, TakeReply
  <2>2. answered' = localOffer BY <1>1, <2>1, OwnAnswer DEF Negotiating
  <2>3. at' \in [Callers -> Places] /\ reply' \in [Callers -> Seq(Message)]
    BY <1>1, <1>3, <2>1 DEF Places
  <2> QED BY <1>1, <2>1, <2>2, <2>3
<1>9. CASE JoinApply
  <2>1. /\ added' = [added EXCEPT !["pub"] = @ \cup buffer["pub"]] /\ callback' = TRUE
        /\ UNCHANGED <<reply, created, content, signaling, localOffer, answered, tracks, subRemote,
                       buffer, reading, early, sentVars, loopVars>>
    BY <1>9 DEF JoinApply, Buffered
  <2>2. at' \in [Callers -> Places] BY <1>1, <1>9 DEF JoinApply, Goto, Places
  <2>3. added' \in [Roles -> SUBSET Nat] BY <1>1, <2>1
  <2> QED BY <1>1, <2>1, <2>2, <2>3
<1>10. CASE JoinFails \/ PingReturns
  <2>1. /\ reply' = [reply EXCEPT !["main"] = <<>>]
        /\ UNCHANGED <<pubVars, candVars, sentVars, loopVars>>
    BY <1>10 DEF JoinFails, PingReturns, TakeReply
  <2>2. at' \in [Callers -> Places] BY <1>1, <1>10 DEF JoinFails, PingReturns, Goto, Places
  <2> QED BY <1>1, <1>3, <2>1, <2>2
<1>11. CASE Publish
  <2>1. /\ tracks' = tracks + 1 /\ tracks \in 0 .. 1
        /\ UNCHANGED <<reply, created, content, signaling, localOffer, answered, callback,
                       candVars, sentVars, loopVars>>
    BY <1>11 DEF Publish, ThreadInv
  <2>2. at' \in [Callers -> Places] BY <1>1, <1>11 DEF Publish, Goto, Places
  <2> QED BY <1>1, <2>1, <2>2
<1>12. CASE GotSignal \/ Signal
  <2>1. /\ signalled' \in BOOLEAN
        /\ UNCHANGED <<at, reply, pubVars, candVars, sentVars, pings>>
    BY <1>12 DEF GotSignal, Signal
  <2> QED BY <1>1, <2>1
<1>13. CASE SignalClosed
  <2>1. /\ at' = [g \in Callers |-> "exit"] /\ reading' = 0
        /\ UNCHANGED <<reply, pubVars, subRemote, buffer, added, early, sentVars, loopVars>>
    BY <1>13 DEF SignalClosed
  <2>2. at' \in [Callers -> Places] BY <2>1 DEF Places
  <2> QED BY <1>1, <2>1, <2>2
<1>14. ASSUME NEW g \in Callers, PubNegotiationNeeded(g) PROVE ClientType'
  <2>1. UNCHANGED <<callback, tracks, candVars, sentVars, loopVars>>
    BY <1>14 DEF PubNegotiationNeeded, CreateOffer, SetLocalDescription, SetRemoteDescription,
       OfferFails
  <2>2. at' \in [Callers -> Places]
    BY <1>1, <1>14 DEF PubNegotiationNeeded, CreateOffer, SetLocalDescription,
       SetRemoteDescription, OfferFails, Done, Goto, Places, Waiting
  <2>3. CASE CreateOffer(g)
    <3>1. /\ content' = Append(content, tracks)
          /\ created' = [created EXCEPT ![g] = Len(content')]
          /\ UNCHANGED <<reply, signaling, localOffer, answered>>
      BY <2>3 DEF CreateOffer
    <3>2. content' \in Seq(0 .. 2) /\ Len(content') = Len(content) + 1 BY <1>1, <3>1, Pushed
    <3>3. created' \in [Callers -> Nat] BY <1>1, <1>2, <3>1, <3>2
    <3>4. localOffer' \in 0 .. Len(content') /\ answered' \in 0 .. Len(content')
      BY <1>1, <1>2, <3>1, <3>2
    <3> HIDE DEF ClientType
    <3>5. /\ UNCHANGED <<reply, signaling, callback, tracks, subRemote, buffer, added, reading,
                         early, sent, late, pings, signalled>>
      BY <2>1, <3>1
    <3> QED BY <1>1, <2>2, <3>2, <3>3, <3>4, <3>5 DEF ClientType
  <2>4. CASE SetLocalDescription(g)
    <3>1. /\ UNCHANGED <<reply, created, content, answered>>
          /\ signaling' \in {signaling, "haveLocalOffer"}
          /\ localOffer' \in {localOffer, created[g]} /\ created[g] \in 1 .. Len(content)
      BY <2>4 DEF SetLocalDescription, OfferInv
    <3>2. localOffer' \in 0 .. Len(content') /\ answered' \in 0 .. Len(content')
      BY <1>1, <1>2, <3>1
    <3>3. signaling' \in {"stable", "haveLocalOffer"} BY <1>1, <3>1
    <3> QED BY <1>1, <2>1, <2>2, <3>1, <3>2, <3>3
  <2>5. CASE SetRemoteDescription(g)
    <3>1. /\ at[g] = "offerWait" /\ Answered(g) /\ reply' = [reply EXCEPT ![g] = <<>>]
          /\ answered' \in {answered, reply[g][1].n} /\ signaling' \in {signaling, "stable"}
          /\ UNCHANGED <<created, content, localOffer>>
      BY <2>5 DEF SetRemoteDescription, TakeReply
    <3>2. answered' \in {answered, localOffer} BY <3>1, OwnAnswer DEF Negotiating
    <3> QED BY <1>1, <1>3, <2>1, <2>2, <3>1, <3>2
  <2>6. CASE OfferFails(g)
    <3>1. /\ reply' = [reply EXCEPT ![g] = <<>>]
          /\ UNCHANGED <<created, content, signaling, localOffer, answered>>
      BY <2>6 DEF OfferFails, TakeReply
    <3> QED BY <1>1, <1>3, <2>1, <2>2, <3>1
  <2> QED BY <1>14, <2>3, <2>4, <2>5, <2>6 DEF PubNegotiationNeeded
<1>15. CASE ReadReply
  <2>1. /\ toClient # <<>>
        /\ reply' = [g \in Callers |-> IF Pending(Head(toClient), g)
                                         THEN <<Head(toClient)>> ELSE reply[g]]
        /\ UNCHANGED <<at, pubVars, candVars, sentVars, loopVars>>
    BY <1>15 DEF ReadReply, Reads
  <2>2. Head(toClient) \in Message BY <2>1, Popped DEF TypeOK, NetType, Sendable
  <2>3. <<Head(toClient)>> \in Seq(Message) BY <2>2
  <2> QED BY <1>1, <2>1, <2>3
<1>16. CASE SignalOnNegotiate
  <2>1. /\ subRemote' \in {subRemote, TRUE}
        /\ added' \in {added, [added EXCEPT !["sub"] = @ \cup buffer["sub"]]}
        /\ buffer' \in {buffer, [buffer EXCEPT !["sub"] = {}]}
        /\ UNCHANGED <<at, reply, pubVars, reading, early, sentVars, loopVars>>
    BY <1>16 DEF SignalOnNegotiate
  <2>2. added' \in [Roles -> SUBSET Nat] /\ buffer' \in [Roles -> SUBSET Nat] BY <1>1, <2>1
  <2> QED BY <1>1, <2>1, <2>2
<1>17. CASE SignalOnTrickle
  <2>1. toClient # <<>> /\ UNCHANGED <<at, reply, pubVars, subRemote, early, sentVars, loopVars>>
    BY <1>17 DEF SignalOnTrickle, Reads
  <2>2. Head(toClient).n \in Nat BY <2>1, ReadMessage DEF TypeOK, NetType
  <2>3. reading' \in Nat BY <1>1, <1>17, <2>2 DEF SignalOnTrickle
  <2>4. added' \in [Roles -> SUBSET Nat]
    <3>1. \/ added' = added
          \/ added' = [added EXCEPT ![Head(toClient).to] = @ \cup {Head(toClient).n}]
      BY <1>17 DEF SignalOnTrickle
    <3> HIDE DEF ClientType
    <3>2. added \in [Roles -> SUBSET Nat] BY <1>1 DEF ClientType
    <3> QED BY <2>2, <3>1, <3>2, OneMore
  <2>5. buffer' \in [Roles -> SUBSET Nat]
    <3>1. \/ buffer' = buffer
          \/ buffer' = [buffer EXCEPT ![Head(toClient).to] = @ \cup {Head(toClient).n}]
      BY <1>17 DEF SignalOnTrickle
    <3> HIDE DEF ClientType
    <3>2. buffer \in [Roles -> SUBSET Nat] BY <1>1 DEF ClientType
    <3> QED BY <2>2, <3>1, <3>2, OneMore
  <2> QED BY <1>1, <2>1, <2>3, <2>4, <2>5
<1>18. CASE AppendCandidate
  <2>1. /\ buffer' = [buffer EXCEPT !["pub"] = @ \cup {reading}]
        /\ early' \subseteq early \cup {reading} /\ reading' = 0
        /\ UNCHANGED <<at, reply, pubVars, subRemote, added, sentVars, loopVars>>
    BY <1>18 DEF AppendCandidate
  <2>2. buffer' \in [Roles -> SUBSET Nat] BY <1>1, <2>1
  <2> QED BY <1>1, <2>1, <2>2
<1>19. ASSUME NEW r \in Roles, Trickle(r) PROVE ClientType'
  <2>1. /\ sent' = [sent EXCEPT ![r] = @ + 1] /\ late' \subseteq late \cup {<<r, sent'[r]>>}
        /\ UNCHANGED <<at, reply, pubVars, candVars, loopVars>>
    BY <1>19 DEF Trickle
  <2>2. sent' \in [Roles -> Nat] BY <1>1, <2>1
  <2> QED BY <1>1, <2>1, <2>2
<1> HIDE DEF ClientType
<1> QED BY <1>1, <1>5, <1>6, <1>7, <1>8, <1>9, <1>10, <1>11, <1>12, <1>13, <1>14, <1>15, <1>16,
           <1>17, <1>18, <1>19 DEF Next, Main, Ops, ClientReads

-------------------------------------------------------------------------------
\* Candidates

LEMMA CandidateStep ==
  ASSUME TypeOK, ThreadInv, CandidateInv, Next \/ UNCHANGED vars
  PROVE  CandidateInv'
<1> USE DEF CandidateInv, NoStrandedCandidate
<1>1. /\ buffer \in [Roles -> SUBSET Nat] /\ added \in [Roles -> SUBSET Nat]
      /\ "pub" \in Roles /\ "sub" \in Roles
  BY DEF TypeOK, ClientType, Roles
<1>2. CASE UNCHANGED <<early, buffer, added, subRemote, callback>> BY <1>2
<1>3. CASE \/ ServerReads \/ Change \/ Negotiate \/ Disconnect \/ UNCHANGED vars
           \/ \E r \in Roles : OnIceCandidate(r)
  BY <1>2, <1>3, ServerLeavesClient
<1>4. CASE \/ Join \/ SignalJoin \/ JoinAnswered \/ JoinFails \/ Publish \/ PingReturns \/ GotSignal
           \/ SignalClosed \/ Ping \/ Signal \/ OnNegotiationNeeded
  BY <1>2, <1>4 DEF Join, SignalJoin, JoinAnswered, JoinFails, Publish, PingReturns, GotSignal,
     SignalClosed, Ping, Signal, OnNegotiationNeeded
<1>5. ASSUME NEW g, PubNegotiationNeeded(g) PROVE CandidateInv'
  BY <1>2, <1>5 DEF PubNegotiationNeeded, CreateOffer, SetLocalDescription, SetRemoteDescription,
     OfferFails
<1>6. CASE ReadReply \/ \E r \in Roles : Trickle(r) BY <1>2, <1>6 DEF ReadReply, Trickle
<1>7. CASE JoinApply
  <2>1. /\ added' = [added EXCEPT !["pub"] = @ \cup buffer["pub"]]
        /\ UNCHANGED <<early, buffer, subRemote>>
    BY <1>7 DEF JoinApply, Buffered
  <2> QED BY <1>1, <2>1
<1>8. CASE SignalOnNegotiate
  <2>1. /\ \/ UNCHANGED <<subRemote, added, buffer>>
           \/ /\ added' = [added EXCEPT !["sub"] = @ \cup buffer["sub"]]
              /\ buffer' = [buffer EXCEPT !["sub"] = {}]
        /\ UNCHANGED <<early, callback>>
    BY <1>8 DEF SignalOnNegotiate
  <2>2. CASE UNCHANGED <<subRemote, added, buffer>> BY <1>2, <2>1, <2>2
  <2>3. CASE /\ added' = [added EXCEPT !["sub"] = @ \cup buffer["sub"]]
             /\ buffer' = [buffer EXCEPT !["sub"] = {}]
    <3>1. buffer'["sub"] = {} /\ buffer'["pub"] = buffer["pub"] /\ added'["pub"] = added["pub"]
      BY <1>1, <2>3
    <3> QED BY <2>1, <3>1
  <2> QED BY <2>1, <2>2, <2>3
<1>9. CASE SignalOnTrickle
  <2>1. UNCHANGED <<early, callback, subRemote>> BY <1>9 DEF SignalOnTrickle
  <2>2. \A r \in Roles : added[r] \subseteq added'[r]
    <3>1. \/ added' = added
          \/ added' = [added EXCEPT ![Head(toClient).to] = @ \cup {Head(toClient).n}]
      BY <1>9 DEF SignalOnTrickle
    <3> QED BY <1>1, <3>1
  <2>3. \/ buffer' = buffer
        \/ ~subRemote /\ buffer' = [buffer EXCEPT !["sub"] = @ \cup {Head(toClient).n}]
    BY <1>9 DEF SignalOnTrickle, HasRemote
  <2>4. buffer'["pub"] = buffer["pub"] /\ (subRemote => buffer'["sub"] = buffer["sub"])
    BY <1>1, <2>3
  <2> QED BY <1>1, <2>1, <2>2, <2>4
<1>10. CASE AppendCandidate
  <2>1. /\ buffer' = [buffer EXCEPT !["pub"] = @ \cup {reading}]
        /\ early' \subseteq early \cup {reading}
        /\ early' = early \/ at["main"] = "joinWait"
        /\ UNCHANGED <<added, subRemote, callback>>
    BY <1>10 DEF AppendCandidate
  <2>2. buffer'["pub"] = buffer["pub"] \cup {reading} /\ buffer'["sub"] = buffer["sub"]
    BY <1>1, <2>1
  <2>3. callback => early' = early BY <2>1 DEF ThreadInv, Joining
  <2> QED BY <2>1, <2>2, <2>3
<1> HIDE DEF CandidateInv
<1> QED BY <1>3, <1>4, <1>5, <1>6, <1>7, <1>8, <1>9, <1>10 DEF Next, Main, Ops, ClientReads

\* The queue to the server is as it was, and so is what was sent and refused.
LEMMA TrickleFrame ==
  ASSUME TrickleInv, UNCHANGED <<toServer, sent, late, refused>>,
         Known => Known', failed \subseteq failed',
         open' /\ JoinSent' => Known' \/ (open /\ JoinSent)
  PROVE  TrickleInv'
<1>1. \A i : Ahead(i) => Ahead(i)' BY DEF Ahead
<1>2. LateCandidatesAccepted' BY DEF TrickleInv, LateCandidatesAccepted
<1>3. open' /\ JoinSent' => Ahead(Len(toServer) + 1)'
  BY DEF TrickleInv, Ahead
<1>4. \A i \in DOMAIN toServer' : toServer'[i].m = "trickle" =>
       /\ toServer'[i].to \in Roles /\ toServer'[i].n <= sent'[toServer'[i].to]
       /\ <<toServer'[i].to, toServer'[i].n>> \in late' => Ahead(i)'
  BY <1>1 DEF TrickleInv
<1> QED BY <1>2, <1>3, <1>4 DEF TrickleInv

\* A message that is no candidate is added to the queue to the server.
LEMMA TricklePushed ==
  ASSUME TrickleInv, NetType, NEW e \in Sendable, e.m # "trickle", toServer' = Append(toServer, e),
         UNCHANGED <<sent, late, refused, peer, serving>>, failed \subseteq failed',
         JoinSent' => e.m = "join" \/ (open /\ JoinSent)
  PROVE  TrickleInv'
<1>1. /\ Len(toServer) \in Nat /\ Len(toServer') = Len(toServer) + 1
      /\ DOMAIN toServer = 1 .. Len(toServer) /\ DOMAIN toServer' = 1 .. Len(toServer) + 1
      /\ \A i \in DOMAIN toServer : i \in DOMAIN toServer' /\ toServer'[i] = toServer[i]
      /\ toServer'[Len(toServer) + 1] = e
      /\ \A i \in DOMAIN toServer' : i \in DOMAIN toServer \/ i = Len(toServer) + 1
  BY Pushed DEF NetType
<1>2. \A i : Ahead(i) => Ahead(i)' BY <1>1 DEF Ahead, Known
<1>3. LateCandidatesAccepted' BY DEF TrickleInv, LateCandidatesAccepted
<1>4. JoinSent' => Ahead(Len(toServer) + 1)'
  <2>1. CASE e.m = "join"
    <3>1. Len(toServer) + 1 \in DOMAIN toServer' /\ Len(toServer) + 1 < Len(toServer') + 1
      BY <1>1
    <3> QED BY <1>1, <2>1, <3>1 DEF Ahead
  <2>2. CASE open /\ JoinSent
    <3>1. Ahead(Len(toServer) + 1) BY <2>2 DEF TrickleInv
    <3>2. \A j \in DOMAIN toServer : j < Len(toServer) + 1 => j < Len(toServer') + 1
      BY <1>1
    <3> QED BY <1>1, <3>1, <3>2 DEF Ahead, Known
  <2> QED BY <2>1, <2>2
<1>5. \A i \in DOMAIN toServer' : toServer'[i].m = "trickle" =>
       /\ toServer'[i].to \in Roles /\ toServer'[i].n <= sent'[toServer'[i].to]
       /\ <<toServer'[i].to, toServer'[i].n>> \in late' => Ahead(i)'
  BY <1>1, <1>2 DEF TrickleInv
<1> QED BY <1>3, <1>4, <1>5 DEF TrickleInv

\* The server reads a message, and refuses no candidate that was sent after join.
LEMMA TricklePopped ==
  ASSUME TrickleInv, NetType, toServer # <<>>, toServer' = Tail(toServer),
         UNCHANGED <<open, at, localOffer, sent, late>>, Known => Known', failed \subseteq failed',
         Head(toServer).m = "join" => Known',
         \A p \in refused' : p[2] <= sent[p[1]], LateCandidatesAccepted'
  PROVE  TrickleInv'
<1>1. /\ Head(toServer) = toServer[1] /\ 1 \in DOMAIN toServer /\ Len(toServer) \in Nat
      /\ Len(toServer') = Len(toServer) - 1 /\ DOMAIN toServer = 1 .. Len(toServer)
      /\ DOMAIN toServer' = 1 .. Len(toServer) - 1
      /\ \A i \in DOMAIN toServer' : i + 1 \in DOMAIN toServer /\ toServer'[i] = toServer[i + 1]
  BY Popped, LenProperties DEF NetType
<1>2. ASSUME NEW i \in Nat, Ahead(i + 1) PROVE Ahead(i)'
  <2>1. CASE Known BY <2>1 DEF Ahead
  <2>2. ASSUME NEW j \in DOMAIN toServer, j < i + 1, toServer[j].m = "join" PROVE Ahead(i)'
    <3>1. CASE j = 1 BY <1>1, <2>2, <3>1 DEF Ahead
    <3>2. CASE j # 1
      <4>1. j - 1 \in DOMAIN toServer' /\ j - 1 < i /\ (j - 1) + 1 = j BY <1>1, <2>2, <3>2
      <4>2. toServer'[j - 1].m = "join" BY <1>1, <2>2, <4>1
      <4> QED BY <4>1, <4>2 DEF Ahead
    <3> QED BY <3>1, <3>2
  <2> QED BY <1>2, <2>1, <2>2 DEF Ahead
<1>3. open' /\ JoinSent' => Ahead(Len(toServer) + 1)'
  <2>1. (Len(toServer') + 1) + 1 = Len(toServer) + 1 /\ Len(toServer') + 1 \in Nat BY <1>1
  <2>2. PICK n \in Nat : n = Len(toServer') + 1 BY <2>1
  <2>3. open' /\ JoinSent' => Ahead(n + 1)
    BY <2>1, <2>2 DEF TrickleInv, JoinSent, NotStarted
  <2>4. open' /\ JoinSent' => Ahead(n)' BY <1>2, <2>3
  <2> QED BY <2>2, <2>4 DEF Ahead
<1>4. \A i \in DOMAIN toServer' : toServer'[i].m = "trickle" =>
       /\ toServer'[i].to \in Roles /\ toServer'[i].n <= sent'[toServer'[i].to]
       /\ <<toServer'[i].to, toServer'[i].n>> \in late' => Ahead(i)'
  <2> SUFFICES ASSUME NEW i \in DOMAIN toServer', toServer'[i].m = "trickle"
               PROVE  /\ toServer'[i].to \in Roles /\ toServer'[i].n <= sent'[toServer'[i].to]
                      /\ <<toServer'[i].to, toServer'[i].n>> \in late' => Ahead(i)'
    OBVIOUS
  <2>1. i \in Nat /\ i + 1 \in DOMAIN toServer /\ toServer'[i] = toServer[i + 1] BY <1>1
  <2>2. <<toServer'[i].to, toServer'[i].n>> \in late' => Ahead(i + 1) BY <2>1 DEF TrickleInv
  <2> QED BY <1>2, <2>1, <2>2 DEF TrickleInv
<1> QED BY <1>3, <1>4 DEF TrickleInv

\* A candidate is sent: it is late only if join was sent before.
LEMMA TrickleSent ==
  ASSUME TypeOK, TrickleInv, StartInv, NEW r \in Roles, Trickle(r)
  PROVE  TrickleInv'
<1>1. /\ IF r = "pub" THEN localOffer # 0 ELSE subRemote
      /\ open /\ sent' = [sent EXCEPT ![r] = @ + 1]
      /\ late' = IF at["main"] = "sendJoin" THEN late ELSE late \cup {<<r, sent'[r]>>}
      /\ ToServer(Msg("trickle", "none", sent'[r], r))
      /\ UNCHANGED <<open, at, localOffer, refused, peer, serving, failed>>
  BY DEF Trickle, SendTrickle
<1>2. sent \in [Roles -> Nat] /\ refused \subseteq Roles \X Nat /\ late \subseteq Roles \X Nat
  BY DEF TypeOK, ClientType, ServerType
<1>3. /\ sent'[r] = sent[r] + 1 /\ sent'[r] \in Nat \ {0}
      /\ \A x \in Roles : sent[x] \in Nat /\ sent'[x] \in Nat /\ sent[x] <= sent'[x]
  BY <1>1, <1>2
<1>4. PICK n \in Nat \ {0} : n = sent'[r] BY <1>3
<1> DEFINE e == Msg("trickle", "none", n, r)
<1>5. e \in Sendable /\ e.m = "trickle" /\ e.to = r /\ e.n = n BY <1>4, Sends
<1>6. toServer' = Append(toServer, e) BY <1>1, <1>4 DEF ToServer
<1> HIDE DEF e
<1>7. /\ Len(toServer) \in Nat /\ Len(toServer') = Len(toServer) + 1
      /\ DOMAIN toServer = 1 .. Len(toServer)
      /\ \A i \in DOMAIN toServer : i \in DOMAIN toServer' /\ toServer'[i] = toServer[i]
      /\ toServer'[Len(toServer) + 1] = e
      /\ \A i \in DOMAIN toServer' : i \in DOMAIN toServer \/ i = Len(toServer) + 1
  BY <1>5, <1>6, Pushed DEF TypeOK, NetType
<1>8. ~NotStarted BY <1>1 DEF StartInv, Roles
<1>9. \A i : Ahead(i) => Ahead(i)' BY <1>1, <1>7 DEF Ahead, Known
<1>10. at["main"] # "sendJoin" =>
         Ahead(Len(toServer) + 1) /\ \A i \in Nat : i > Len(toServer) => Ahead(i)'
  <2> SUFFICES ASSUME at["main"] # "sendJoin"
               PROVE  Ahead(Len(toServer) + 1) /\ \A i \in Nat : i > Len(toServer) => Ahead(i)'
    OBVIOUS
  <2>1. Ahead(Len(toServer) + 1) BY <1>1, <1>8 DEF TrickleInv, JoinSent
  <2>2. ASSUME NEW i \in Nat, i > Len(toServer) PROVE Ahead(i)'
    <3>1. \A j \in DOMAIN toServer : j < i BY <1>7, <2>2
    <3> QED BY <1>1, <1>7, <2>1, <3>1 DEF Ahead, Known
  <2> QED BY <2>1, <2>2
<1>11. open' /\ JoinSent' => Ahead(Len(toServer) + 1)'
  <2>1. PICK k \in Nat : k = Len(toServer') + 1 /\ k > Len(toServer) BY <1>7
  <2>2. at["main"] # "sendJoin" => Ahead(k)' BY <1>10, <2>1
  <2> QED BY <1>1, <2>1, <2>2 DEF Ahead, JoinSent
<1>12. \A i \in DOMAIN toServer' : toServer'[i].m = "trickle" =>
       /\ toServer'[i].to \in Roles /\ toServer'[i].n <= sent'[toServer'[i].to]
       /\ <<toServer'[i].to, toServer'[i].n>> \in late' => Ahead(i)'
  <2> SUFFICES ASSUME NEW i \in DOMAIN toServer', toServer'[i].m = "trickle"
               PROVE  /\ toServer'[i].to \in Roles /\ toServer'[i].n <= sent'[toServer'[i].to]
                      /\ <<toServer'[i].to, toServer'[i].n>> \in late' => Ahead(i)'
    OBVIOUS
  <2>1. CASE i \in DOMAIN toServer
    <3>1. toServer'[i] = toServer[i] BY <1>7, <2>1
    <3>2. /\ toServer[i].to \in Roles /\ toServer[i].n <= sent[toServer[i].to]
          /\ <<toServer[i].to, toServer[i].n>> \in late => Ahead(i)
      BY <2>1, <3>1 DEF TrickleInv
    <3>3. toServer[i].n \in Nat
      BY <2>1, ElementOfSeq, <1>7 DEF TypeOK, NetType, Sendable, Message
    <3>4. toServer[i].n <= sent'[toServer[i].to] BY <1>3, <3>2, <3>3
    <3>5. <<toServer[i].to, toServer[i].n>> # <<r, sent'[r]>> BY <1>3, <3>2, <3>3
    <3> QED BY <1>1, <1>9, <3>1, <3>2, <3>4, <3>5
  <2>2. CASE i = Len(toServer) + 1
    <3>1. toServer'[i] = e BY <1>7, <2>2
    <3>2. i \in Nat /\ i > Len(toServer) BY <1>7, <2>2
    <3>3. at["main"] = "sendJoin" => <<r, n>> \notin late'
      BY <1>1, <1>2, <1>3, <1>4 DEF TrickleInv
    <3> QED BY <1>3, <1>4, <1>5, <1>10, <3>1, <3>2, <3>3
  <2> QED BY <1>7, <2>1, <2>2
<1>13. \A p \in refused' \cup late' : p[2] <= sent'[p[1]]
  <2>1. ASSUME NEW p \in Roles \X Nat, p[2] <= sent[p[1]] PROVE p[2] <= sent'[p[1]]
    BY <1>3, <2>1
  <2>2. \A p \in refused \cup late : p[2] <= sent'[p[1]] BY <1>2, <2>1 DEF TrickleInv
  <2>3. <<r, sent'[r]>>[2] <= sent'[<<r, sent'[r]>>[1]] BY <1>3
  <2> QED BY <1>1, <2>2, <2>3
<1>14. LateCandidatesAccepted'
  <2>1. <<r, sent'[r]>> \notin refused BY <1>2, <1>3 DEF TrickleInv
  <2> QED BY <1>1, <2>1 DEF TrickleInv, LateCandidatesAccepted
<1> QED BY <1>11, <1>12, <1>13, <1>14 DEF TrickleInv

LEMMA TrickleStep ==
  ASSUME TypeOK, StartInv, ThreadInv, OfferInv, TrickleInv, Next \/ UNCHANGED vars
  PROVE  TrickleInv'
<1>1. /\ "main" \in Callers /\ "ops" \in Callers /\ at \in [Callers -> Places]
      /\ NetType /\ localOffer \in Nat
  <2>1. content \in Seq(0 .. 2) /\ localOffer \in 0 .. Len(content) BY DEF TypeOK, ClientType
  <2>2. Len(content) \in Nat BY <2>1, LenProperties
  <2> QED BY <2>1, <2>2 DEF Callers, TypeOK, ClientType
<1>2. CASE /\ UNCHANGED <<toServer, open, sent, late, refused, peer, serving>>
           /\ failed \subseteq failed' /\ (JoinSent' => JoinSent \/ ~open)
  BY <1>2, TrickleFrame DEF Known
<1>23. UNCHANGED <<at, localOffer>> => JoinSent' = JoinSent BY DEF JoinSent, NotStarted
<1>24. at["main"] \notin {"start", "sendJoin", "returned"} => JoinSent BY DEF JoinSent, NotStarted
<1>3. CASE Close /\ UNCHANGED <<at, sentVars, peerVars>>
  <2>1. toServer' = <<>> /\ ~open' /\ UNCHANGED <<sent, late, refused, failed>> BY <1>3 DEF Close
  <2>2. DOMAIN toServer' = {} BY <2>1
  <2> QED BY <2>1, <2>2 DEF TrickleInv, LateCandidatesAccepted
<1>4. CASE Join
  <2>1. at'["main"] = "sendJoin" BY <1>1, <1>4 DEF Join, Goto
  <2> QED BY <1>2, <1>4, <2>1 DEF Join, JoinSent
<1>5. CASE JoinAnswered \/ JoinApply \/ Publish \/ PingReturns
  <2>1. at["main"] \notin {"start", "sendJoin", "returned"}
    BY <1>5 DEF JoinAnswered, JoinApply, Publish, PingReturns
  <2> QED BY <1>2, <1>5, <1>24, <2>1 DEF JoinAnswered, JoinApply, Publish, PingReturns
<1>25. CASE JoinFails
  <2>1. /\ at["main"] \in {"start", "joinWait"} /\ at'["main"] = "returned"
        /\ localOffer' = localOffer
    BY <1>1, <1>25 DEF JoinFails, Goto
  <2>2. at["main"] = "start" => ~JoinSent' BY <2>1 DEF StartInv, NotStarted, JoinSent
  <2> QED BY <1>2, <1>24, <1>25, <2>1, <2>2 DEF JoinFails
<1>6. CASE GotSignal \/ Disconnect BY <1>3, <1>6 DEF GotSignal, Disconnect
<1>7. CASE SignalClosed BY <1>2, <1>7 DEF SignalClosed
<1>8. CASE OnNegotiationNeeded
  <2>1. at'["main"] = at["main"] BY <1>1, <1>8 DEF OnNegotiationNeeded, Goto
  <2> QED BY <1>2, <1>8, <2>1 DEF OnNegotiationNeeded, JoinSent, NotStarted
<1>9. CASE SignalJoin
  <2> DEFINE e == Msg("join", "main", localOffer, "none")
  <2>1. ToServer(e) /\ UNCHANGED <<open, sent, late, refused, peer, serving, failed>>
    BY <1>9 DEF SignalJoin
  <2>2. e \in Sendable /\ e.m = "join" BY <1>1, Sends
  <2> HIDE DEF e
  <2>3. CASE open BY <1>1, <2>1, <2>2, <2>3, TricklePushed DEF ToServer
  <2>4. CASE ~open BY <2>1, <2>4, TrickleFrame DEF ToServer, Known
  <2> QED BY <2>3, <2>4
<1>10. CASE Ping
  <2> DEFINE e == Msg("ping", "main", 0, "none")
  <2>1. /\ open /\ at["main"] = "loop" /\ toServer' = Append(toServer, e)
        /\ UNCHANGED <<sent, late, refused, peer, serving, failed>>
    BY <1>10 DEF Ping, ToServer
  <2>2. e \in Sendable /\ e.m = "ping" BY <1>1, Sends
  <2> HIDE DEF e
  <2> QED BY <1>1, <1>24, <2>1, <2>2, TricklePushed
<1>11. ASSUME NEW g \in Callers, PubNegotiationNeeded(g) PROVE TrickleInv'
  <2>1. at["main"] \notin {"start", "sendJoin", "returned"}
    BY <1>11 DEF PubNegotiationNeeded, CreateOffer, SetLocalDescription, SetRemoteDescription,
       OfferFails, ThreadInv, Joining, Callers
  <2>2. UNCHANGED <<open, sent, late, refused, peer, serving>> /\ failed \subseteq failed'
    BY <1>11 DEF PubNegotiationNeeded, CreateOffer, SetLocalDescription, SetRemoteDescription,
       OfferFails
  <2>3. CASE toServer' = toServer BY <1>2, <1>24, <2>1, <2>2, <2>3
  <2>4. CASE toServer' # toServer
    <3>1. SetLocalDescription(g)
      BY <1>11, <2>4 DEF PubNegotiationNeeded, CreateOffer, SetRemoteDescription, OfferFails
    <3>2. at[g] = "setLocal" /\ open /\ toServer' = Append(toServer, Msg("offer", g, created[g], "none"))
      BY <2>4, <3>1 DEF SetLocalDescription, ToServer
    <3>3. created[g] \in Nat \ {0}
      <4>1. content \in Seq(0 .. 2) /\ created[g] \in 1 .. Len(content)
        BY <3>2 DEF TypeOK, ClientType, OfferInv
      <4>2. Len(content) \in Nat BY <4>1, LenProperties
      <4> QED BY <4>1, <4>2
    <3>4. PICK e \in Sendable : e = Msg("offer", g, created[g], "none") /\ e.m = "offer"
      BY <3>3, Sends
    <3> QED BY <1>1, <1>24, <2>1, <2>2, <3>2, <3>4, TricklePushed
  <2> QED BY <2>3, <2>4
<1>12. CASE SignalOnNegotiate
  <2>1. /\ open /\ toClient # <<>> /\ Head(toClient).m = "offer"
        /\ \/ toServer' = toServer
           \/ toServer' = Append(toServer, Msg("answer", "none", Head(toClient).n, "none"))
        /\ UNCHANGED <<open, at, localOffer, sent, late, refused, peer, serving>>
        /\ failed \subseteq failed'
    BY <1>12 DEF SignalOnNegotiate, Reads, SendAnswer, NotAnswered, ToServer
  <2>2. Head(toClient).n \in Nat \ {0} BY <1>1, <2>1, ReadMessage DEF NetType
  <2>3. PICK e \in Sendable : e = Msg("answer", "none", Head(toClient).n, "none") /\ e.m = "answer"
    BY <2>2, Sends
  <2>4. CASE toServer' = toServer BY <1>2, <1>23, <2>1, <2>4
  <2>5. CASE toServer' = Append(toServer, e) BY <1>1, <1>23, <2>1, <2>3, <2>5, TricklePushed
  <2> QED BY <2>1, <2>3, <2>4, <2>5
<1>13. CASE ReadReply \/ SignalOnTrickle \/ AppendCandidate
  BY <1>2, <1>13, <1>23 DEF ReadReply, SignalOnTrickle, AppendCandidate
<1>14. CASE Change \/ Signal \/ UNCHANGED vars
  BY <1>2, <1>14, <1>23 DEF Change, Signal, vars
<1>15. CASE Negotiate \/ \E r \in Roles : OnIceCandidate(r)
  BY <1>2, <1>15, <1>23 DEF Negotiate, OnIceCandidate
<1>16. CASE PeerJoin \/ SetCallbacks \/ ReplyJoin \/ JoinError
  <2>1. UNCHANGED <<toServer, sent, late, refused>> /\ failed \subseteq failed'
    BY <1>16 DEF PeerJoin, SetCallbacks, ReplyJoin, JoinError
  <2>2. Known' BY <1>16 DEF PeerJoin, SetCallbacks, ReplyJoin, JoinError, Known
  <2> QED BY <2>1, <2>2, TrickleFrame
<1>17. CASE HandleJoin
  <2>1. /\ toServer # <<>> /\ toServer' = Tail(toServer) /\ serving' = "join"
        /\ UNCHANGED <<open, at, localOffer, sent, late, failed, refused>>
    BY <1>17 DEF HandleJoin, Handles
  <2>2. Known' BY <2>1 DEF Known
  <2>3. LateCandidatesAccepted' BY <2>1 DEF TrickleInv, LateCandidatesAccepted
  <2>4. \A p \in refused' : p[2] <= sent[p[1]] BY <2>1 DEF TrickleInv
  <2> QED BY <1>1, <2>1, <2>2, <2>3, <2>4, TricklePopped
<1>18. CASE HandleOffer \/ HandleAnswer \/ HandlePing
  <2>1. /\ toServer # <<>> /\ toServer' = Tail(toServer) /\ Head(toServer).m # "join"
        /\ UNCHANGED <<open, at, localOffer, sent, late, refused, peer, serving>> /\ failed \subseteq failed'
    BY <1>18 DEF HandleOffer, HandleAnswer, HandlePing, Handles
  <2>2. Known => Known' BY <2>1 DEF Known
  <2>3. LateCandidatesAccepted' BY <2>1 DEF TrickleInv, LateCandidatesAccepted
  <2>4. \A p \in refused' : p[2] <= sent[p[1]] BY <2>1 DEF TrickleInv
  <2> QED BY <1>1, <2>1, <2>2, <2>3, <2>4, TricklePopped
<1>19. CASE HandleTrickle
  <2> DEFINE p == <<Head(toServer).to, Head(toServer).n>>
  <2>1. /\ toServer # <<>> /\ toServer' = Tail(toServer) /\ Head(toServer).m = "trickle"
        /\ serving = "idle" /\ refused' = IF peer = "none" THEN refused \cup {p} ELSE refused
        /\ UNCHANGED <<open, at, localOffer, sent, late, peer, serving, failed>>
    BY <1>19 DEF HandleTrickle, Handles, Refuses
  <2>2. Head(toServer) = toServer[1] /\ 1 \in DOMAIN toServer /\ DOMAIN toServer = 1 .. Len(toServer)
    BY <1>1, <2>1, Popped, LenProperties DEF NetType
  <2>3. /\ Head(toServer).n <= sent[Head(toServer).to]
        /\ p \in late => Ahead(1)
    BY <2>1, <2>2 DEF TrickleInv
  <2>4. \A x \in refused' : x[2] <= sent[x[1]] BY <2>1, <2>3 DEF TrickleInv
  <2>5. Ahead(1) => Known
    <3>1. \A j \in DOMAIN toServer : ~(j < 1) BY <2>2
    <3> QED BY <3>1 DEF Ahead
  <2>6. LateCandidatesAccepted'
    <3>1. p \in late /\ peer = "none" => "join" \in failed BY <2>1, <2>3, <2>5 DEF Known
    <3> QED BY <2>1, <3>1 DEF TrickleInv, LateCandidatesAccepted
  <2>7. Known => Known' BY <2>1 DEF Known
  <2> QED BY <1>1, <2>1, <2>4, <2>6, <2>7, TricklePopped
<1>20. ASSUME NEW r \in Roles, Trickle(r) PROVE TrickleInv' BY <1>20, TrickleSent
<1>21. Main \/ Ops => TrickleInv'
  BY <1>1, <1>4, <1>5, <1>6, <1>7, <1>8, <1>9, <1>11, <1>25 DEF Main, Ops
<1>22. ClientReads \/ ServerReads => TrickleInv'
  BY <1>12, <1>13, <1>16, <1>17, <1>18, <1>19 DEF ClientReads, ServerReads
<1> QED BY <1>6, <1>10, <1>14, <1>15, <1>20, <1>21, <1>22 DEF Next

-------------------------------------------------------------------------------
\* The invariant

LEMMA StartStep ==
  ASSUME TypeOK, StartInv, ThreadInv, OfferInv, Next \/ UNCHANGED vars
  PROVE  StartInv'
<1>1. /\ "main" \in Callers /\ "ops" \in Callers /\ at \in [Callers -> Places]
  BY DEF Callers, TypeOK, ClientType
<1> SUFFICES ASSUME NotStarted'
             PROVE  /\ toServer' = <<>> /\ toClient' = <<>> /\ peer' = "none" /\ serving' = "idle"
                    /\ localOffer' = 0 /\ ~subRemote' /\ ~wanted' /\ ~negotiationPending'
  BY DEF StartInv
<1>2. NotStarted
  <2> SUFFICES ASSUME ~NotStarted PROVE FALSE
    OBVIOUS
  <2>1. CASE at' = at /\ localOffer' = localOffer BY <2>1 DEF NotStarted
  <2>2. ASSUME NEW g \in Callers, NEW l, l \notin {"start", "returned"}, at' = [at EXCEPT ![g] = l],
               localOffer' = localOffer \/ g = "main" \/ at["main"] \notin {"start", "returned"}
        PROVE  FALSE
    BY <1>1, <2>2 DEF NotStarted
  <2>3. CASE at' = [g \in Callers |-> "exit"] BY <1>1, <2>3 DEF NotStarted
  <2>4. CASE ServerReads \/ Change \/ Negotiate \/ Disconnect \/ UNCHANGED vars \/ Signal
    BY <2>1, <2>4, ServerLeavesClient DEF Signal
  <2>5. CASE ClientReads \/ \E r \in Roles : Trickle(r) \/ OnIceCandidate(r)
    BY <2>1, <2>5 DEF ClientReads, ReadReply, SignalOnNegotiate, SignalOnTrickle, AppendCandidate,
       Trickle, OnIceCandidate
  <2>6. ASSUME NEW g \in Callers, PubNegotiationNeeded(g) PROVE FALSE
    <3>1. at["main"] \notin {"start", "returned"}
      BY <2>6 DEF PubNegotiationNeeded, CreateOffer, SetLocalDescription, SetRemoteDescription,
         OfferFails, ThreadInv, Joining, Callers
    <3> QED BY <2>2, <2>6, <3>1 DEF PubNegotiationNeeded, CreateOffer, SetLocalDescription,
          SetRemoteDescription, OfferFails, Done, Goto
  <2>7. CASE \/ SignalJoin \/ JoinAnswered \/ JoinApply \/ Publish
             \/ PingReturns \/ Ping \/ OnNegotiationNeeded
    BY <1>1, <2>2, <2>7 DEF SignalJoin, JoinAnswered, JoinApply, Publish,
       PingReturns, Ping, OnNegotiationNeeded, Goto
  <2>8. CASE GotSignal \/ SignalClosed BY <2>1, <2>3, <2>8 DEF GotSignal, SignalClosed
  <2>9. CASE Join BY <1>1, <2>2, <2>9 DEF Join, Goto
  <2>10. CASE JoinFails
    <3>1. at["main"] \in {"start", "joinWait"} /\ at'["main"] = "returned" /\ localOffer' = localOffer
      BY <1>1, <2>10 DEF JoinFails, Goto
    <3> QED BY <3>1 DEF NotStarted, OfferInv
  <2> QED BY <1>1, <2>4, <2>5, <2>6, <2>7, <2>8, <2>9, <2>10 DEF Next, Main, Ops
<1>3. /\ toServer = <<>> /\ toClient = <<>> /\ peer = "none" /\ serving = "idle"
      /\ localOffer = 0 /\ ~subRemote /\ ~wanted /\ ~negotiationPending
      /\ at["ops"] = "idle" /\ ~callback
  BY <1>2 DEF StartInv, NotStarted, ThreadInv, Joining
<1>4. CASE /\ UNCHANGED <<toServer, toClient, peer, serving, localOffer, subRemote, wanted,
                          negotiationPending>>
  BY <1>3, <1>4
<1>5. ~ClientReads \/ AppendCandidate
  BY <1>3 DEF ClientReads, ReadReply, SignalOnNegotiate, SignalOnTrickle, Reads
<1>6. ~ServerReads
  BY <1>3 DEF ServerReads, HandleJoin, PeerJoin, SetCallbacks, ReplyJoin, JoinError, HandleOffer,
     HandleAnswer, HandleTrickle, HandlePing, Handles
<1>7. ~Change /\ ~Negotiate /\ ~Ping /\ \A r \in Roles : ~Trickle(r) /\ ~OnIceCandidate(r)
  BY <1>2, <1>3 DEF NotStarted, Change, Negotiate, Ping, Trickle, OnIceCandidate, Roles
<1>8. \A g \in Callers : ~PubNegotiationNeeded(g)
  BY <1>2, <1>3 DEF NotStarted, PubNegotiationNeeded, CreateOffer, SetLocalDescription,
     SetRemoteDescription, OfferFails, Callers
<1>9. ~Ops BY <1>1, <1>3, <1>8 DEF Ops, OnNegotiationNeeded
<1>10. ~Main \/ JoinFails
  <2>1. ~Join BY <1>1 DEF Join, Goto, NotStarted
  <2> QED BY <1>1, <1>2, <1>8, <2>1 DEF NotStarted, Main, SignalJoin, JoinAnswered, JoinApply,
             Publish, PingReturns, GotSignal, SignalClosed
<1>11. CASE JoinFails \/ AppendCandidate \/ Signal \/ UNCHANGED vars
  BY <1>4, <1>11 DEF JoinFails, AppendCandidate, Signal, vars
<1>12. CASE Disconnect BY <1>3, <1>12 DEF Disconnect, Close
<1> QED BY <1>5, <1>6, <1>7, <1>9, <1>10, <1>11, <1>12 DEF Next

LEMMA ClientInvariant == Spec => []ClientInv
<1>1. Init => ClientInv
  <2> SUFFICES ASSUME Init PROVE ClientInv
    OBVIOUS
  <2>1. <<>> \in Seq(Sendable) /\ <<>> \in Seq(Message) /\ <<>> \in Seq(0 .. 2) /\ Len(<<>>) = 0
    BY EmptySeq
  <2>2. "main" \in Callers /\ "ops" \in Callers /\ "pub" \in Roles /\ "sub" \in Roles
    BY DEF Callers, Roles
  <2>3. at["main"] = "start" /\ at["ops"] = "idle" BY <2>2 DEF Init
  <2>4. NetType BY <2>1 DEF Init, NetType
  <2>5. ServerType BY DEF Init, ServerType
  <2>6. ClientType
    <3>1. at \in [Callers -> Places] BY DEF Init, Places
    <3>2. reply \in [Callers -> Seq(Message)] BY <2>1 DEF Init
    <3>3. localOffer \in 0 .. Len(content) /\ answered \in 0 .. Len(content) BY <2>1 DEF Init
    <3>4. /\ created \in [Callers -> Nat] /\ content \in Seq(0 .. 2)
          /\ signaling \in {"stable", "haveLocalOffer"} /\ tracks \in 0 .. 2
          /\ sent \in [Roles -> Nat] /\ pings \in Nat /\ reading \in Nat
      BY <2>1 DEF Init
    <3>5. buffer \in [Roles -> SUBSET Nat] /\ added \in [Roles -> SUBSET Nat] BY DEF Init
    <3>6. /\ callback \in BOOLEAN /\ subRemote \in BOOLEAN /\ signalled \in BOOLEAN
          /\ early \subseteq Nat /\ late \subseteq Roles \X Nat
      BY DEF Init
    <3> QED BY <3>1, <3>2, <3>3, <3>4, <3>5, <3>6 DEF ClientType
  <2>7. StartInv /\ ClosedIsEmpty BY DEF Init, StartInv, ClosedIsEmpty
  <2>8. CallInv
    <3>1. \A g \in Callers : reply[g] = <<>> BY DEF Init
    <3>2. \A g \in Callers : OneCall(g)
      BY <3>1, EmptyCalls DEF Init, OneCall, NoRequest, NoReply
    <3>3. JoinIsServed BY DEF Init, JoinIsServed
    <3>4. DOMAIN toServer = {} /\ DOMAIN toClient = {} BY DEF Init
    <3> QED BY <3>1, <3>2, <3>3, <3>4 DEF CallInv, Numbers
  <2>9. ThreadInv BY <2>3 DEF Init, ThreadInv, Joining
  <2>10. OfferInv BY <2>3 DEF Init, OfferInv, AnswerFitsOffer, Callers
  <2>11. CandidateInv BY <2>2 DEF Init, CandidateInv, NoStrandedCandidate
  <2>12. TrickleInv
    <3>1. DOMAIN toServer = {} /\ refused = {} /\ late = {} BY DEF Init
    <3> QED BY <2>3, <3>1 DEF TrickleInv, LateCandidatesAccepted, JoinSent, NotStarted
  <2> QED BY <2>4, <2>5, <2>6, <2>7, <2>8, <2>9, <2>10, <2>11, <2>12 DEF ClientInv, TypeOK
<1>2. ClientInv /\ [Next]_vars => ClientInv'
  <2> SUFFICES ASSUME ClientInv, Next \/ UNCHANGED vars PROVE ClientInv'
    OBVIOUS
  <2>1. /\ TypeOK /\ ClosedIsEmpty /\ StartInv /\ CallInv
        /\ ThreadInv /\ OfferInv /\ CandidateInv /\ TrickleInv
    BY DEF ClientInv
  <2>2. NetStep BY <2>1, NetSteps
  <2>3. NetType' /\ ClosedIsEmpty' BY <2>1, <2>2, NetKeeps DEF TypeOK
  <2>4. TypeOK' BY <2>1, <2>3, ServerTypes, ClientTypes DEF TypeOK
  <2>5. StartInv' BY <2>1, StartStep
  <2>6. CallInv'
    <3>1. Main \/ Ops \/ Ping => CallInv'
      BY <2>1, MainCalls, PubCalls DEF Main, Ops, Callers
    <3> QED BY <2>1, <3>1, ReadCalls, ServerCalls, OtherCalls DEF Next
  <2>7. ThreadInv' /\ OfferInv' BY <2>1, ThreadStep, OfferStep
  <2>8. CandidateInv' /\ TrickleInv' BY <2>1, CandidateStep, TrickleStep
  <2> QED BY <2>3, <2>4, <2>5, <2>6, <2>7, <2>8 DEF ClientInv
<1> QED BY <1>1, <1>2, PTL DEF Spec

(***************************************************************************)
(* The client and the server exchange only well-formed messages (every     *)
(* offer, answer and candidate carries one), and the state of both has its *)
(* type; in particular the local and the remote description of pub are     *)
(* offers that were made.                                                  *)
(***************************************************************************)
THEOREM TypeCorrect == Spec => []TypeOK
<1>1. ClientInv => TypeOK BY DEF ClientInv
<1> QED BY <1>1, ClientInvariant, PTL

(***************************************************************************)
(* pubNegotiationNeeded, in Publish and in the callback of pion: however   *)
(* the two goroutines interleave, and whatever fails, a pub PeerConnection *)
(* in the stable state has the answer to its own local description.        *)
(***************************************************************************)
THEOREM AnswersFit == Spec => []AnswerFitsOffer
<1>1. ClientInv => AnswerFitsOffer BY DEF ClientInv, OfferInv
<1> QED BY <1>1, ClientInvariant, PTL

(***************************************************************************)
(* signalOnTrickle and the loops over transport.candidates: no candidate   *)
(* is left in a buffer that nobody walks again, if it was read before the  *)
(* reply to join or is for sub.                                            *)
(***************************************************************************)
THEOREM CandidatesAreUsed == Spec => []NoStrandedCandidate
<1>1. ClientInv => NoStrandedCandidate BY DEF ClientInv, CandidateInv
<1> QED BY <1>1, ClientInvariant, PTL

(***************************************************************************)
(* JSONSignal.Handle of "trickle": a candidate that the client sent after  *)
(* join is never refused for want of a transport, however many there are,  *)
(* unless the server failed to join the peer.  This includes the           *)
(* candidates of a client that took the error reply to an earlier one for  *)
(* that to its join, and gave up although the server joined it.            *)
(***************************************************************************)
THEOREM LateCandidatesFindPeer == Spec => []LateCandidatesAccepted
<1>1. ClientInv => LateCandidatesAccepted BY DEF ClientInv, TrickleInv
<1> QED BY <1>1, ClientInvariant, PTL
===============================================================================
