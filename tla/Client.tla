-------------------------------- MODULE Client --------------------------------
(***************************************************************************)
(* The Go client (pkg/client/client.go, pkg/client/signal.go and           *)
(* cmd/client.go) at one end of a websocket, and the JSONSignal that       *)
(* serves it (pkg/server_jsonrpc.go) at the other.                         *)
(*                                                                         *)
(* The websocket is a queue in each direction.  A jsonrpc2 connection runs *)
(* the handler of a message before it reads the next one.  The client has  *)
(* three goroutines: clientThread ("main"), the operations goroutine of    *)
(* the pub PeerConnection, which calls pubNegotiationNeeded ("ops"), and   *)
(* the read loop.                                                          *)
(*                                                                         *)
(* A reply is matched with a Call by its id.  A notification has no id, so *)
(* an error reply to one carries the zero id: that of the first Call, join.*)
(*                                                                         *)
(* PeerConnection (pion) and PeerLocal (ion-sfu) are external: an offer is *)
(* its number, an answer the number of its offer, a candidate its number.  *)
(*                                                                         *)
(* Faults.  "joinError", "answerError": the server fails to join the peer  *)
(* or to answer an offer.  "descriptionError": a PeerConnection does not   *)
(* make or does not take a description.  "disconnect": the websocket       *)
(* breaks.  "signal": SIGINT or SIGTERM.                                   *)
(*                                                                         *)
(* Left out: media, data channels, what the gstreamer producer does.       *)
(***************************************************************************)
EXTENDS Naturals, Sequences

CONSTANTS MaxTrickles,   \* bounds of the model: candidates, of either side,
          MaxChanges,    \* changes of what the client subscribes to,
          MaxPings,      \* and pings
          Faults

ClientFaultKinds == {"joinError", "answerError", "descriptionError", "disconnect", "signal"}

ASSUME Bounds == MaxTrickles \in Nat /\ MaxChanges \in Nat /\ MaxPings \in Nat
ASSUME ClientFaults == Faults \subseteq ClientFaultKinds

Callers == {"main", "ops"}
Waiting == {"joinWait", "offerWait", "pingWait"}   \* where a goroutine waits for a reply
Roles   == {"pub", "sub"}

Message == [m  : {"join", "offer", "answer", "trickle", "ping", "reply", "error"},
            by : Callers \cup {"none"},    \* the goroutine that waits for the reply; a
                                           \* notification, and a reply to one: none
            n  : Nat,                      \* the offer or candidate it is about
            to : Roles \cup {"none"}]      \* the transport a candidate is for

VARIABLES
  toServer, toClient, open,   \* the websocket
  \* the client
  at,            \* where main and ops are
  reply,         \* reply[g]: what arrived for the Call of g, <<>> or <<message>>
  created,       \* created[g]: the offer g made last
  content,       \* content[k]: how many published tracks offer k describes
  signaling, localOffer, answered,   \* the pub PeerConnection; answered = 0: no
                                     \* remote description yet
  callback,      \* OnNegotiationNeeded was set
  tracks,        \* how many tracks were added to it
  subRemote,     \* the sub PeerConnection has a remote description
  buffer, added, \* transport.candidates, and what AddICECandidate was given
  reading,       \* the pub candidate the read loop is about to buffer, or 0
  early,         \* the pub candidates handled before the reply to join
  sent,          \* how many candidates were sent for a transport
  late,          \* those sent after join
  pings,
  signalled,     \* a signal waits in sigs
  \* the server
  peer,          \* "none", "joined", "ready" (its callbacks are set)
  serving,       \* the handler of join is running
  failed,        \* what went wrong: "join" (at the server), "offer" (of the client),
                 \* "answer" (to an offer of the server)
  refused,       \* the candidates Trickle refused
  wanted, changes,                    \* subscriber.negotiate was called
  remoteAnswerPending, negotiationPending, subOffers,
  lostOffer,     \* an offer was made while OnOffer was nil
  trickled       \* how many candidates the server gathered for a transport

netVars  == <<toServer, toClient, open>>
pubVars  == <<created, content, signaling, localOffer, answered, callback, tracks>>
candVars == <<subRemote, buffer, added, reading, early>>
sentVars == <<sent, late>>
subVars  == <<wanted, changes, remoteAnswerPending, negotiationPending, subOffers, lostOffer,
              trickled>>
peerVars == <<peer, serving, failed, refused>>
loopVars == <<pings, signalled>>
clientVars == <<at, reply, pubVars, candVars, sentVars, loopVars>>
serverVars == <<peerVars, subVars>>
vars     == <<netVars, clientVars, serverVars>>

Init ==
  /\ toServer = <<>> /\ toClient = <<>> /\ open = TRUE
  /\ at = [g \in Callers |-> IF g = "main" THEN "start" ELSE "idle"]
  /\ reply = [g \in Callers |-> <<>>]
  /\ created = [g \in Callers |-> 0]
  /\ content = <<>>
  /\ signaling = "stable" /\ localOffer = 0 /\ answered = 0
  /\ callback = FALSE /\ tracks = 0
  /\ subRemote = FALSE
  /\ buffer = [r \in Roles |-> {}] /\ added = [r \in Roles |-> {}]
  /\ reading = 0 /\ early = {}
  /\ sent = [r \in Roles |-> 0] /\ late = {}
  /\ pings = 0 /\ signalled = FALSE
  /\ peer = "none" /\ serving = "idle" /\ failed = {} /\ refused = {}
  /\ wanted = FALSE /\ changes = 0
  /\ remoteAnswerPending = FALSE /\ negotiationPending = FALSE
  /\ subOffers = 0 /\ lostOffer = FALSE
  /\ trickled = [r \in Roles |-> 0]

Goto(g, l) == at' = [at EXCEPT ![g] = l]
Msg(m, by, n, to) == [m |-> m, by |-> by, n |-> n, to |-> to]

\* Call and Notify write to an open connection and fail on a closed one.
ToServer(msg) == toServer' = IF open THEN Append(toServer, msg) ELSE toServer
ToClient(msg) == toClient' = IF open THEN Append(toClient, msg) ELSE toClient

\* The connection ends, and what is under way is lost.
Close == open' = FALSE /\ toServer' = <<>> /\ toClient' = <<>>

\* The Call of g has returned, with a reply or with an error.
Answered(g) == reply[g] # <<>> /\ reply[g][1].m = "reply"
Failed(g)   == IF reply[g] # <<>> THEN reply[g][1].m = "error" ELSE ~open
TakeReply(g) == reply' = [reply EXCEPT ![g] = <<>>]

DescriptionError == "descriptionError" \in Faults

-------------------------------------------------------------------------------
\* Client.Join

\* The first offer becomes the local description of pub.
Join ==
  /\ at["main"] = "start"
  /\ created' = [created EXCEPT !["main"] = 1]
  /\ content' = <<0>>
  /\ signaling' = "haveLocalOffer" /\ localOffer' = 1
  /\ Goto("main", "sendJoin")
  /\ UNCHANGED <<netVars, reply, answered, callback, tracks, candVars, sentVars, loopVars,
                 serverVars>>

SignalJoin ==
  /\ at["main"] = "sendJoin"
  /\ ToServer(Msg("join", "main", localOffer, "none"))
  /\ Goto("main", "joinWait")
  /\ UNCHANGED <<toClient, open, reply, pubVars, candVars, sentVars, loopVars, serverVars>>

JoinAnswered ==
  /\ at["main"] = "joinWait" /\ Answered("main")
  /\ answered' = reply["main"][1].n /\ signaling' = "stable"
  /\ TakeReply("main")
  /\ Goto("main", "joinApply")
  /\ UNCHANGED <<netVars, created, content, localOffer, callback, tracks, candVars,
                 sentVars, loopVars, serverVars>>

\* Seeded fault: the buffered candidates are forgotten.
Buffered_None == {}

\* What the loop over c.pub.candidates goes through, as it is when it starts.
Buffered == buffer["pub"]

\* The client goes on to publish a producer, or has none.
JoinApply ==
  /\ at["main"] = "joinApply"
  /\ added' = [added EXCEPT !["pub"] = @ \cup Buffered]
  /\ callback' = TRUE
  /\ \E l \in {"publish", "loop"} : Goto("main", l)
  /\ UNCHANGED <<netVars, reply, created, content, signaling, localOffer, answered, tracks,
                 subRemote, buffer, reading, early, sentVars, loopVars, serverVars>>

\* The error returns: CreateOffer or SetLocalDescription, signal.Join (for which the
\* error reply to a candidate may be taken), SetRemoteDescription.  clientThread
\* returns, too; the process stays in the gstreamer main loop.
JoinFails ==
  /\ \/ at["main"] = "start" /\ DescriptionError
     \/ at["main"] = "joinWait" /\ (Failed("main") \/ (Answered("main") /\ DescriptionError))
  /\ TakeReply("main")
  /\ Goto("main", "returned")
  /\ UNCHANGED <<netVars, pubVars, candVars, sentVars, loopVars, serverVars>>

-------------------------------------------------------------------------------
\* Client.Publish and pubNegotiationNeeded

\* AddTrack of the video, then of the audio; then the deferred negotiation.
Publish ==
  /\ at["main"] \in {"publish", "publishAudio"}
  /\ tracks' = tracks + 1
  /\ Goto("main", IF at["main"] = "publish" THEN "publishAudio" ELSE "createOffer")
  /\ UNCHANGED <<netVars, reply, created, content, signaling, localOffer, answered,
                 callback, candVars, sentVars, loopVars, serverVars>>

\* pion calls the callback in the stable state if the description is out of date.
Outdated == localOffer # 0 /\ content[localOffer] # tracks

OnNegotiationNeeded ==
  /\ at["ops"] = "idle" /\ callback /\ signaling = "stable" /\ Outdated
  /\ Goto("ops", "createOffer")
  /\ UNCHANGED <<netVars, reply, pubVars, candVars, sentVars, loopVars, serverVars>>

Done(g) == Goto(g, IF g = "main" THEN "loop" ELSE "idle")

CreateOffer(g) ==
  /\ at[g] = "createOffer"
  /\ content' = Append(content, tracks)
  /\ created' = [created EXCEPT ![g] = Len(content')]
  /\ Goto(g, "setLocal")
  /\ UNCHANGED <<netVars, reply, signaling, localOffer, answered, callback, tracks,
                 candVars, sentVars, loopVars, serverVars>>

\* pion takes an offer in the stable state only, and only the one made last.
Acceptable(g) == signaling = "stable" /\ created[g] = Len(content)

\* Seeded fault: the offer is sent although SetLocalDescription failed.
SetLocalDescription_NoReturn(g) ==
  /\ at[g] = "setLocal"
  /\ IF Acceptable(g)
       THEN signaling' = "haveLocalOffer" /\ localOffer' = created[g]
       ELSE UNCHANGED <<signaling, localOffer>>
  /\ ToServer(Msg("offer", g, created[g], "none"))
  /\ Goto(g, "offerWait")
  /\ UNCHANGED <<toClient, open, reply, created, content, answered, callback, tracks,
                 candVars, sentVars, loopVars, serverVars>>

\* SetLocalDescription, an early return if it fails, and the Call of "offer".
SetLocalDescription(g) ==
  /\ at[g] = "setLocal"
  /\ IF Acceptable(g)
       THEN /\ signaling' = "haveLocalOffer" /\ localOffer' = created[g]
            /\ ToServer(Msg("offer", g, created[g], "none"))
            /\ Goto(g, "offerWait")
       ELSE Done(g) /\ UNCHANGED <<signaling, localOffer, toServer>>
  /\ UNCHANGED <<toClient, open, reply, created, content, answered, callback, tracks,
                 candVars, sentVars, loopVars, serverVars>>

\* Seeded fault: the answer is not given to the PeerConnection.
SetRemoteDescription_Missing(g) ==
  /\ at[g] = "offerWait" /\ Answered(g)
  /\ TakeReply(g)
  /\ Done(g)
  /\ UNCHANGED <<netVars, pubVars, candVars, sentVars, loopVars, serverVars>>

SetRemoteDescription(g) ==
  /\ at[g] = "offerWait" /\ Answered(g)
  /\ IF signaling = "haveLocalOffer"
       THEN answered' = reply[g][1].n /\ signaling' = "stable"
       ELSE UNCHANGED <<answered, signaling>>
  /\ TakeReply(g)
  /\ Done(g)
  /\ UNCHANGED <<netVars, created, content, localOffer, callback, tracks, candVars,
                 sentVars, loopVars, serverVars>>

\* The error returns: signal.Offer, or a description the PeerConnection does not make
\* or take, once (a bound: pion may call back again and again).
OfferFails(g) ==
  /\ \/ at[g] = "offerWait" /\ Failed(g) /\ UNCHANGED failed
     \/ /\ at[g] \in {"createOffer", "setLocal"} \/ (at[g] = "offerWait" /\ Answered(g))
        /\ DescriptionError /\ "offer" \notin failed
        /\ failed' = failed \cup {"offer"}
  /\ TakeReply(g)
  /\ Done(g)
  /\ UNCHANGED <<netVars, pubVars, candVars, sentVars, loopVars, peer, serving, refused, subVars>>

-------------------------------------------------------------------------------
\* The main loop of clientThread

Ping ==
  /\ at["main"] = "loop" /\ open /\ pings < MaxPings
  /\ pings' = pings + 1
  /\ ToServer(Msg("ping", "main", 0, "none"))
  /\ Goto("main", "pingWait")
  /\ UNCHANGED <<toClient, open, reply, pubVars, candVars, sentVars, signalled, serverVars>>

\* With a pong or an error: both are logged.
PingReturns ==
  /\ at["main"] = "pingWait" /\ (Answered("main") \/ Failed("main"))
  /\ TakeReply("main")
  /\ Goto("main", "loop")
  /\ UNCHANGED <<netVars, pubVars, candVars, sentVars, loopVars, serverVars>>

\* Seeded fault: the signal is taken from sigs and nothing is closed.
GotSignal_NoClose ==
  /\ at["main"] = "loop" /\ signalled
  /\ signalled' = FALSE
  /\ UNCHANGED <<netVars, at, reply, pubVars, candVars, sentVars, pings, serverVars>>

\* case sig := <-sigs: signal.Close()
GotSignal ==
  /\ at["main"] = "loop" /\ signalled
  /\ signalled' = FALSE
  /\ Close
  /\ UNCHANGED <<at, reply, pubVars, candVars, sentVars, pings, serverVars>>

\* case <-signalClosedCh: the process ends.
SignalClosed ==
  /\ at["main"] = "loop" /\ ~open
  /\ at' = [g \in Callers |-> "exit"]
  /\ reading' = 0
  /\ UNCHANGED <<netVars, reply, pubVars, subRemote, buffer, added, early, sentVars,
                 loopVars, serverVars>>

-------------------------------------------------------------------------------
\* The read loop of the client: JSONRPCSignalClient.Handle

Reads(ms) == open /\ reading = 0 /\ toClient # <<>> /\ Head(toClient).m \in ms

\* The Call of g is the pending one with the id of the reply msg.
Pending(msg, g) ==
  /\ at[g] \in Waiting /\ reply[g] = <<>>
  /\ msg.by = g \/ (msg.by = "none" /\ at[g] = "joinWait")

\* The connection hands a reply to the goroutine that waits for it, if there is one.
ReadReply ==
  LET msg == Head(toClient) IN
  /\ Reads({"reply", "error"})
  /\ toClient' = Tail(toClient)
  /\ reply' = [g \in Callers |-> IF Pending(msg, g) THEN <<msg>> ELSE reply[g]]
  /\ UNCHANGED <<toServer, open, at, pubVars, candVars, sentVars, loopVars, serverVars>>

\* Seeded fault: the answer is not sent.
SendAnswer_Forgotten(n) == UNCHANGED toServer

\* signal.Answer
SendAnswer(n) == ToServer(Msg("answer", "none", n, "none"))

\* The early returns of SignalOnNegotiate.
NotAnswered == DescriptionError /\ failed' = failed \cup {"answer"} /\ UNCHANGED toServer

\* Only the read loop uses the sub transport.
SignalOnNegotiate ==
  /\ Reads({"offer"})
  /\ toClient' = Tail(toClient)
  /\ \/ NotAnswered /\ UNCHANGED <<subRemote, added, buffer>>
     \/ /\ subRemote' = TRUE
        /\ added' = [added EXCEPT !["sub"] = @ \cup buffer["sub"]]
        /\ buffer' = [buffer EXCEPT !["sub"] = {}]
        /\ NotAnswered \/ (SendAnswer(Head(toClient).n) /\ UNCHANGED failed)
  /\ UNCHANGED <<open, at, reply, pubVars, reading, early, sentVars, loopVars, peer, serving,
                 refused, subVars>>

HasRemote(r) == IF r = "pub" THEN answered # 0 ELSE subRemote

\* The check of RemoteDescription.  For pub, main may act before the append.
SignalOnTrickle ==
  LET msg == Head(toClient)
      r   == msg.to IN
  /\ Reads({"trickle"})
  /\ toClient' = Tail(toClient)
  /\ \/ /\ HasRemote(r)
        /\ added' = [added EXCEPT ![r] = @ \cup {msg.n}]
        /\ UNCHANGED <<buffer, reading>>
     \/ /\ ~HasRemote(r) /\ r = "sub"
        /\ buffer' = [buffer EXCEPT ![r] = @ \cup {msg.n}]
        /\ UNCHANGED <<added, reading>>
     \/ /\ ~HasRemote(r) /\ r = "pub"
        /\ reading' = msg.n
        /\ UNCHANGED <<added, buffer>>
  /\ UNCHANGED <<toServer, open, at, reply, pubVars, subRemote, early, sentVars, loopVars,
                 serverVars>>

AppendCandidate ==
  /\ reading # 0
  /\ buffer' = [buffer EXCEPT !["pub"] = @ \cup {reading}]
  /\ early' = early \cup (IF at["main"] = "joinWait" /\ reply["main"] = <<>> THEN {reading} ELSE {})
  /\ reading' = 0
  /\ UNCHANGED <<netVars, at, reply, pubVars, subRemote, added, sentVars, loopVars,
                 serverVars>>

Trickles == sent["pub"] + sent["sub"] + trickled["pub"] + trickled["sub"]

\* Seeded fault: the nil candidate that ends the gathering is sent, too.
SendTrickle_Nil(r, n) == ToServer(Msg("trickle", "none", 0, r))

\* signal.Trickle
SendTrickle(r, n) == ToServer(Msg("trickle", "none", n, r))

\* OnICECandidate of a transport: gathering starts with its local description.
Trickle(r) ==
  /\ IF r = "pub" THEN localOffer # 0 ELSE subRemote
  /\ open /\ Trickles < MaxTrickles
  /\ sent' = [sent EXCEPT ![r] = @ + 1]
  /\ late' = IF at["main"] = "sendJoin" THEN late ELSE late \cup {<<r, sent'[r]>>}
  /\ SendTrickle(r, sent'[r])
  /\ UNCHANGED <<toClient, open, at, reply, pubVars, candVars, loopVars, serverVars>>

-------------------------------------------------------------------------------
\* The server: JSONSignal.Handle

\* Seeded fault: handlers run concurrently, without p.mu.
Handles_Concurrently(m) == open /\ toServer # <<>> /\ Head(toServer).m = m

Handles(m) == open /\ serving = "idle" /\ toServer # <<>> /\ Head(toServer).m = m

HandleJoin ==
  /\ Handles("join")
  /\ serving' = "join"
  /\ toServer' = Tail(toServer)
  /\ UNCHANGED <<toClient, open, clientVars, peer, failed, refused, subVars>>

\* PeerLocal.Join and Answer ...
PeerJoin ==
  /\ serving = "join" /\ peer = "none"
  /\ peer' = "joined"
  /\ UNCHANGED <<netVars, clientVars, serving, failed, refused, subVars>>

\* ... then the callbacks ...
SetCallbacks ==
  /\ serving = "join" /\ peer = "joined"
  /\ peer' = "ready"
  /\ UNCHANGED <<netVars, clientVars, serving, failed, refused, subVars>>

\* ... the broadcast listener, and the reply.
ReplyJoin ==
  /\ serving = "join" /\ peer = "ready"
  /\ serving' = "idle"
  /\ ToClient(Msg("reply", "main", 1, "none"))
  /\ UNCHANGED <<toServer, open, clientVars, peer, failed, refused, subVars>>

\* Seeded fault: an error is only logged.
ReplyError_Logged(by) == UNCHANGED toClient

\* replyError
ReplyError(by) == ToClient(Msg("error", by, 0, "none"))

\* A redirect, or a failure of getOrCreateSession or Join, or one of Answer, which
\* leaves a peer without callbacks.
JoinError ==
  /\ serving = "join" /\ peer # "ready" /\ "joinError" \in Faults
  /\ serving' = "idle" /\ failed' = failed \cup {"join"}
  /\ ReplyError("main")
  /\ UNCHANGED <<toServer, open, clientVars, peer, refused, subVars>>

HandleOffer ==
  LET msg == Head(toServer) IN
  /\ Handles("offer")
  /\ \/ ToClient(Msg("reply", msg.by, msg.n, "none")) /\ UNCHANGED failed
     \/ /\ "answerError" \in Faults
        /\ ReplyError(msg.by)
        /\ failed' = failed \cup {"offer"}
  /\ toServer' = Tail(toServer)
  /\ UNCHANGED <<open, clientVars, peer, serving, refused, subVars>>

\* PeerLocal.SetRemoteDescription, and replyError if it fails.
HandleAnswer ==
  /\ Handles("answer")
  /\ \/ /\ remoteAnswerPending' = FALSE
        /\ negotiationPending' = FALSE
        /\ wanted' = (wanted \/ negotiationPending)
        /\ UNCHANGED <<toClient, failed>>
     \/ /\ DescriptionError
        /\ ReplyError("none")
        /\ failed' = failed \cup {"answer"}
        /\ UNCHANGED <<wanted, remoteAnswerPending, negotiationPending>>
  /\ toServer' = Tail(toServer)
  /\ UNCHANGED <<open, clientVars, peer, serving, refused, changes, subOffers, lostOffer,
                 trickled>>

Refuses == peer = "none"

\* PeerLocal.Trickle refuses a candidate as long as there are no transports.
HandleTrickle ==
  LET msg == Head(toServer) IN
  /\ Handles("trickle")
  /\ IF Refuses
       THEN refused' = refused \cup {<<msg.to, msg.n>>} /\ ReplyError("none")
       ELSE UNCHANGED <<refused, toClient>>
  /\ toServer' = Tail(toServer)
  /\ UNCHANGED <<open, clientVars, peer, serving, failed, subVars>>

HandlePing ==
  /\ Handles("ping")
  /\ ToClient(Msg("reply", Head(toServer).by, 0, "none"))
  /\ toServer' = Tail(toServer)
  /\ UNCHANGED <<open, clientVars, serverVars>>

-------------------------------------------------------------------------------
\* PeerLocal: the negotiation of the subscriber and the candidates, until the
\* end of the connection closes the peer.

\* Another peer publishes or stops publishing: subscriber.negotiate().
Change ==
  /\ open /\ peer # "none" /\ changes < MaxChanges
  /\ changes' = changes + 1 /\ wanted' = TRUE
  /\ UNCHANGED <<netVars, clientVars, peerVars, remoteAnswerPending, negotiationPending,
                 subOffers, lostOffer, trickled>>

\* One offer at a time.  It is lost if OnOffer is not set yet.
Negotiate ==
  /\ open /\ wanted
  /\ wanted' = FALSE
  /\ IF remoteAnswerPending
       THEN negotiationPending' = TRUE
              /\ UNCHANGED <<remoteAnswerPending, subOffers, lostOffer, toClient>>
       ELSE /\ remoteAnswerPending' = TRUE
            /\ subOffers' = subOffers + 1
            /\ IF peer = "ready"
                 THEN ToClient(Msg("offer", "none", subOffers', "none")) /\ UNCHANGED lostOffer
                 ELSE lostOffer' = TRUE /\ UNCHANGED toClient
            /\ UNCHANGED negotiationPending
  /\ UNCHANGED <<toServer, open, clientVars, peerVars, changes, trickled>>

\* A candidate is gathered, and sent by OnIceCandidate once that is set.
OnIceCandidate(r) ==
  /\ open /\ peer # "none" /\ (r = "sub" => subOffers > 0)
  /\ Trickles < MaxTrickles
  /\ trickled' = [trickled EXCEPT ![r] = @ + 1]
  /\ IF peer = "ready"
       THEN ToClient(Msg("trickle", "none", trickled'[r], r))
       ELSE UNCHANGED toClient
  /\ UNCHANGED <<toServer, open, clientVars, peerVars, wanted, changes, remoteAnswerPending,
                 negotiationPending, subOffers, lostOffer>>

-------------------------------------------------------------------------------
\* The environment

Disconnect ==
  /\ open /\ "disconnect" \in Faults
  /\ Close
  /\ UNCHANGED <<clientVars, serverVars>>

Signal ==
  /\ "signal" \in Faults /\ ~signalled /\ open
  /\ signalled' = TRUE
  /\ UNCHANGED <<netVars, at, reply, pubVars, candVars, sentVars, pings, serverVars>>

-------------------------------------------------------------------------------
PubNegotiationNeeded(g) ==
  CreateOffer(g) \/ SetLocalDescription(g) \/ SetRemoteDescription(g) \/ OfferFails(g)

Main ==
  \/ Join \/ SignalJoin \/ JoinAnswered \/ JoinApply \/ JoinFails \/ Publish
  \/ PubNegotiationNeeded("main")
  \/ PingReturns \/ GotSignal \/ SignalClosed

Ops == OnNegotiationNeeded \/ PubNegotiationNeeded("ops")

ClientReads == ReadReply \/ SignalOnNegotiate \/ SignalOnTrickle \/ AppendCandidate

ServerReads ==
  \/ HandleJoin \/ PeerJoin \/ SetCallbacks \/ ReplyJoin \/ JoinError
  \/ HandleOffer \/ HandleAnswer \/ HandleTrickle \/ HandlePing

Next ==
  \/ Main \/ Ops \/ ClientReads \/ ServerReads
  \/ Ping \/ Change \/ Negotiate \/ Disconnect \/ Signal
  \/ \E r \in Roles : Trickle(r) \/ OnIceCandidate(r)

Spec == Init /\ [][Next]_vars

(***************************************************************************)
(* Goroutines run, and a select does not neglect one of its cases for      *)
(* ever.  Nothing forces a ping, a candidate, a change or a fault.         *)
(***************************************************************************)
Fairness ==
  /\ WF_vars(Main) /\ WF_vars(SignalClosed) /\ WF_vars(Ops)
  /\ WF_vars(ClientReads) /\ WF_vars(ServerReads) /\ WF_vars(Negotiate)

FairSpec == Spec /\ Fairness

-------------------------------------------------------------------------------
\* Properties

Places  == {"start", "sendJoin", "joinApply", "publish", "publishAudio", "createOffer",
            "setLocal", "loop", "idle", "exit", "returned"} \cup Waiting

\* Only a reply that carries nothing has no number.
Sendable == {msg \in Message : msg.m \in {"trickle", "offer", "answer"} => msg.n # 0}

NetType == toServer \in Seq(Sendable) /\ toClient \in Seq(Sendable) /\ open \in BOOLEAN

ClientType ==
  /\ at \in [Callers -> Places]
  /\ reply \in [Callers -> Seq(Message)]
  /\ created \in [Callers -> Nat]
  /\ content \in Seq(0 .. 2)
  /\ signaling \in {"stable", "haveLocalOffer"}
  /\ localOffer \in 0 .. Len(content) /\ answered \in 0 .. Len(content)
  /\ callback \in BOOLEAN /\ tracks \in 0 .. 2 /\ subRemote \in BOOLEAN
  /\ buffer \in [Roles -> SUBSET Nat] /\ added \in [Roles -> SUBSET Nat]
  /\ reading \in Nat /\ early \subseteq Nat
  /\ sent \in [Roles -> Nat] /\ late \subseteq Roles \X Nat
  /\ pings \in Nat /\ signalled \in BOOLEAN

ServerType ==
  /\ peer \in {"none", "joined", "ready"} /\ serving \in {"idle", "join"}
  /\ failed \subseteq {"join", "offer", "answer"} /\ refused \subseteq Roles \X Nat
  /\ wanted \in BOOLEAN /\ changes \in Nat
  /\ remoteAnswerPending \in BOOLEAN /\ negotiationPending \in BOOLEAN
  /\ subOffers \in Nat /\ lostOffer \in BOOLEAN
  /\ trickled \in [Roles -> Nat]

TypeOK == NetType /\ ClientType /\ ServerType

(***************************************************************************)
(* pubNegotiationNeeded may run in two goroutines at once (Publish and the *)
(* callback).  Still, the answer pub ends up with is the one to its local  *)
(* description, not to the offer of the other goroutine.                   *)
(***************************************************************************)
AnswerFitsOffer == signaling = "stable" => answered = localOffer

(***************************************************************************)
(* No candidate stays in a buffer nobody will look at again: none for sub, *)
(* once it has a remote description, and none for pub that was handled     *)
(* before the reply to join was.                                           *)
(***************************************************************************)
NoStrandedCandidate ==
  /\ subRemote => buffer["sub"] = {}
  /\ callback => early \subseteq added["pub"]

(***************************************************************************)
(* A candidate the client sends after join finds the server's transports   *)
(* in place, unless the server failed to join the peer.                    *)
(***************************************************************************)
LateCandidatesAccepted == refused \cap late # {} => "join" \in failed

(***************************************************************************)
(* "Join a session id with an sdp offer (returns an sdp answer or error)"  *)
(* (pkg/client/signal.go:65).  A client whose Join returned an error was   *)
(* not joined by the server.  TLC refutes it: the server's error reply to  *)
(* a candidate that overtook join carries the zero id, which is the id of  *)
(* the pending join, and the answer that follows is thrown away.           *)
(***************************************************************************)
JoinErrorMeansNotJoined == open /\ at["main"] = "returned" => peer # "ready"

(***************************************************************************)
(* Every Call of the client returns: replies and errors are always sent,   *)
(* and nothing the read loop calls waits for a reply.                      *)
(***************************************************************************)
CallsReturn == \A g \in Callers : at[g] \in Waiting ~> at[g] \notin Waiting

(***************************************************************************)
(* Published tracks get negotiated, although the two goroutines may spoil  *)
(* each other's offers, unless the server or a PeerConnection fails at one *)
(* or the connection ends.                                                 *)
(***************************************************************************)
Negotiated == answered # 0 /\ content[answered] = 2

PublishIsNegotiated == tracks = 2 ~> (Negotiated \/ "offer" \in failed \/ ~open)

(***************************************************************************)
(* The subscriptions of the client catch up with every change, unless an   *)
(* offer was made before OnOffer was set, a description was not taken on   *)
(* either side (the server then waits for an answer for ever), or the      *)
(* connection ends.                                                        *)
(***************************************************************************)
Behind == wanted \/ remoteAnswerPending \/ negotiationPending

SubscriberCatchesUp == Behind ~> (~Behind \/ lostOffer \/ "answer" \in failed \/ ~open)

(***************************************************************************)
(* A signal ends a clientThread that has joined (cmd/client.go only).      *)
(***************************************************************************)
SignalEndsClient == (signalled /\ callback) ~> at["main"] = "exit"
===============================================================================
