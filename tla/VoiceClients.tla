---------------------------- MODULE VoiceClients ----------------------------
(***************************************************************************)
(* The voice half of the page: the signalling service of each browser with *)
(* its asynchronous set-up, the manager of its RTCPeerConnections and its  *)
(* audio, for browsers that call each other through the server's relay.    *)
(*                                                                         *)
(* The rest, modelled by what the page relies on:                          *)
(*  - the server: one session per client, lists of who is near, and a      *)
(*    relay; what it sends to a client arrives in order, until that client *)
(*    disconnects (modules SignalingServer and Proximity have the rest);   *)
(*  - RTCPeerConnection.  Its promises settle in any order; those of a     *)
(*    closed one are rejected or never settle; an answer that no offer     *)
(*    waits for, and a candidate of a peer other than the described one,   *)
(*    are rejected; two connections get through to each other once each    *)
(*    holds the other's description and one of them the other's candidate; *)
(*    one that is described to a peer that is gone fails.                  *)
(* What only the page shows (peerStates, names, reasons of a denial) and   *)
(* the volumes are left out.  What an RTCPeerConnection owns belongs to one *)
(* identity: it makes one description of itself and one candidate.         *)
(***************************************************************************)
EXTENDS Integers, Sequences, FiniteSets

CONSTANTS
  Clients,         \* browsers
  SessionIds,      \* positive numbers: all that matters of an id is its order
  Pcs,             \* identities of RTCPeerConnections, reused when forgotten
  MAX_CONNECTIONS,
  MaxEvents        \* bound: joins, meetings, partings, connections that fail and
                   \* ticks that come early, all together

ASSUME IdsAssumption == SessionIds \subseteq Nat \ {0} /\ 0 \notin Pcs

VARIABLES
  svc,        \* each page's service: see NewService
  pcs,        \* the open RTCPeerConnections
  ops,        \* calls on them that have not settled
  playing,    \* AudioService.remoteAudios: sessions with an audio element
  down,       \* what the server has sent to each client
  online,     \* the session the server has for each client's socket, 0 if none
  near,       \* whether the players stand close to each other
  events,     \* counts the events that MaxEvents bounds
  overtaken   \* history: clients that abandoned a set-up or began it twice

vars == <<svc, pcs, ops, playing, down, online, near, events, overtaken>>
bounds == <<near, events>>

\* sessionId "" is 0: like "" it is smaller than every id.  manager 0 is null.
NewService == [status |-> "idle", sessionId |-> 0, manager |-> 0, managers |-> 0,
               fetching |-> 0,         \* set-ups that await fetchIceServers
               asking |-> 0,           \* set-ups that await getUserMedia
               localStream |-> FALSE,  \* AudioService.localStream is set
               lostStreams |-> 0,      \* live streams that nothing refers to
               disposed |-> FALSE]

NoPc == [open |-> FALSE]
Open == {p \in Pcs : pcs[p].open}

Init ==
  /\ svc = [c \in Clients |-> NewService]
  /\ pcs = [p \in Pcs |-> NoPc]
  /\ ops = {}
  /\ playing = [c \in Clients |-> {}]
  /\ down = [c \in Clients |-> <<>>]
  /\ online = [c \in Clients |-> 0]
  /\ near = FALSE
  /\ events = 0
  /\ overtaken = {}

-----------------------------------------------------------------------------
(* WebRTCConnectionManager.                                                *)

\* The connections Map of a manager, and its entry for a session.
Connections(c, m) == {p \in Open : pcs[p].owner = c /\ pcs[p].manager = m}
PeersTo(c, m, s) == {p \in Connections(c, m) : pcs[p].to = s}

\* An identity nobody holds any more: not open, no call pending, not in a message.
Forgotten(p) ==
  /\ p \notin Open
  /\ \A q \in Open : pcs[q].remote # p /\ p \notin pcs[q].pendingCandidates
  /\ \A o \in ops : p \notin {o.pc, o.arg}
  /\ \A c \in Clients : \A i \in 1..Len(down[c]) : p # down[c][i].pc

NewPc(c, m, s) ==
  [open |-> TRUE, owner |-> c, manager |-> m, to |-> s, offering |-> FALSE,
   remote |-> 0, pendingCandidates |-> {}, heard |-> FALSE, connected |-> FALSE,
   missed |-> FALSE]

Call(kind, p, c, m, s, arg) ==
  [kind |-> kind, pc |-> p, owner |-> c, manager |-> m, to |-> s, arg |-> arg]

\* createPeer for each session of S, into the connections P.
CreatePeers(P, c, m, S, id) ==
  [p \in Pcs |-> IF \E s \in S : id[s] = p
                 THEN NewPc(c, m, CHOOSE s \in S : id[s] = p) ELSE P[p]]

\* The ways to give each session of S an unused identity of its own.
Numberings(S) ==
  {id \in [S -> {p \in Pcs : Forgotten(p)}] : \A s, t \in S : id[s] = id[t] => s = t}

\* Some choice of them, the same one every time.
Available(S) == Numberings(S) # {}
Identities(S) == CHOOSE id \in Numberings(S) : TRUE

\* disconnectFrom for the connections D of client c.
Closing(D) == [p \in Pcs |-> IF p \in D THEN NoPc ELSE pcs[p]]

\* Mutated: the audio element of a closed connection stays.
Silencing_Not(c, D) == playing

Silencing(c, D) == [playing EXCEPT ![c] = @ \ {pcs[p].to : p \in D}]

DisconnectFrom(c, D) ==
  /\ pcs' = Closing(D)
  /\ playing' = Silencing(c, D)

\* Mutated: only calls that got through are ended.
Parted_OnlyConnected(c, nearby) ==
  {p \in Connections(c, svc[c].manager) : pcs[p].to \notin nearby /\ pcs[p].connected}

\* syncConnections: whoever is no longer near goes, ...
Parted(c, nearby) == {p \in Connections(c, svc[c].manager) : pcs[p].to \notin nearby}

\* Mutated: both ends call.
Callees_Both(c, nearby) ==
  {s \in nearby : svc[c].sessionId # s /\ PeersTo(c, svc[c].manager, s) = {}}

\* Mutated: the last free connection is not used.
Callees_OneLess(c, nearby) ==
  {s \in nearby : /\ svc[c].sessionId < s /\ PeersTo(c, svc[c].manager, s) = {}
                  /\ Cardinality(Connections(c, svc[c].manager)) < MAX_CONNECTIONS - 1}

\* ... and of two the one with the smaller id calls, ...
Callees(c, nearby) ==
  {s \in nearby : svc[c].sessionId < s /\ PeersTo(c, svc[c].manager, s) = {}}

\* ... as far as MAX_CONNECTIONS leaves room.
SyncConnections(c, nearby) ==
  LET m    == svc[c].manager
      gone == Parted(c, nearby)
      new  == Callees(c, nearby)
      room == MAX_CONNECTIONS - Cardinality(Connections(c, m) \ gone)
  IN \E S \in SUBSET new :
       /\ S = new \/ Cardinality(S) = IF room > 0 THEN room ELSE 0
       /\ Cardinality(S) <= room \/ S = {}
       /\ Available(S)
       /\ pcs' = CreatePeers(Closing(gone), c, m, S, Identities(S))
       /\ ops' = ops \cup {Call("createOffer", Identities(S)[s], c, m, s, 0) : s \in S}
       /\ playing' = Silencing(c, gone)

-----------------------------------------------------------------------------
(* The server and the players.                                             *)

Msg(type, id, pc, nearby) == [type |-> type, id |-> id, pc |-> pc, nearby |-> nearby]

\* The relay: from the sender's session to the client that has session s.
Relay(c, s, types, p) ==
  down' = [d \in Clients |->
             IF online[c] # 0 /\ online[d] = s
             THEN down[d] \o [i \in 1..Len(types) |-> Msg(types[i], online[c], p, {})]
             ELSE down[d]]

\* Every call has settled and every signal has arrived ...
Settled ==
  /\ ops = {}
  /\ \A c \in Clients : \A i \in 1..Len(down[c]) : down[c][i].pc = 0

\* ... and so has everything else.
Quiet == Settled /\ \A c \in Clients : down[c] = <<>>

\* Who the server tells a client is near.
Nearby(c) ==
  {online[d] : d \in {e \in Clients \ {c} : near /\ online[c] # 0 /\ online[e] # 0}}

\* A tick of the proximity service: everyone gets a list.  Ticks are 200 ms apart:
\* all but a few find what the last one led to settled.
Tick ==
  /\ \/ Quiet /\ events' = events
     \/ ~Quiet /\ events < MaxEvents /\ events' = events + 1
  /\ down' = [c \in Clients |->
       IF online[c] = 0 THEN down[c]
       ELSE Append(down[c], Msg("nearby", 0, 0, Nearby(c)))]
  /\ UNCHANGED <<svc, pcs, ops, playing, online, near, overtaken>>

\* The players come close, or walk apart.
MeetOrPart ==
  /\ events < MaxEvents
  /\ near' = ~near
  /\ events' = events + 1
  /\ UNCHANGED <<svc, pcs, ops, playing, down, online, overtaken>>

-----------------------------------------------------------------------------
(* The signalling service.                                                 *)

Pending(c) == svc[c].fetching + svc[c].asking > 0

\* Mutated: the local stream is kept for the next time.
CleanUp_KeepsStream(c, service) ==
  /\ svc' = [svc EXCEPT ![c] = [service EXCEPT !.manager = 0]]
  /\ pcs' = Closing(Connections(c, svc[c].manager))
  /\ playing' = [playing EXCEPT ![c] = {}]
  /\ ops' = ops

\* manager.disconnectAll, manager = null, audioService.cleanup: on leaving, joining
\* and disposing alike.
CleanUp(c, service) ==
  /\ svc' = [svc EXCEPT ![c] = [service EXCEPT !.manager = 0, !.localStream = FALSE]]
  /\ pcs' = Closing(Connections(c, svc[c].manager))
  /\ playing' = [playing EXCEPT ![c] = {}]
  /\ ops' = ops

Overtake(c, early) == overtaken' = IF early THEN overtaken \cup {c} ELSE overtaken

\* Nobody has, or still refers to, a session: ids never come back.
Unused(s) ==
  /\ \A d \in Clients : s \notin {online[d], svc[d].sessionId} \cup playing[d]
  /\ s \notin {pcs[p].to : p \in Open} \cup {o.to : o \in ops}
  /\ \A d \in Clients : \A i \in 1..Len(down[d]) :
       s # down[d][i].id /\ s \notin down[d][i].nearby

\* The server lets the client in.
Admit(c, then) ==
  \E s \in SessionIds :
    /\ Unused(s)
    /\ online' = [online EXCEPT ![c] = IF then = <<>> THEN s ELSE 0]
    /\ down' = [down EXCEPT ![c] = @ \o <<Msg("connected", s, 0, {})>> \o then]

\* The server has closed the client's connection, which the client does not know yet:
\* what it emits is lost.
CutOff(c) == \E i \in 1..Len(down[c]) : down[c][i].type = "disconnect"

\* client:join: the server lets the client in, or denies it.  A client it has a session
\* of asks for a name that is taken, by itself: a join under another name on a connection
\* that is open, which the server would admit beside the first session, is left out.
GatewayJoin(c) ==
  \/ CutOff(c) /\ UNCHANGED <<online, down>>
  \/ ~CutOff(c) /\ online[c] = 0 /\ Admit(c, <<>>)
  \/ /\ ~CutOff(c)
     /\ online' = online
     /\ down' = [down EXCEPT ![c] = Append(@, Msg("denied", 0, 0, {}))]

\* client:join with forceReplace: the server replaces the session of this very socket
\* too, and then closes it.
GatewayRetry(c) ==
  \/ CutOff(c) /\ UNCHANGED <<online, down>>
  \/ ~CutOff(c) /\ Admit(c, IF online[c] = 0 THEN <<>> ELSE <<Msg("disconnect", 0, 0, {})>>)

\* join()
Join(c) ==
  /\ ~svc[c].disposed
  /\ events < MaxEvents
  /\ events' = events + 1
  /\ CleanUp(c, [svc[c] EXCEPT !.status = "connecting"])
  /\ Overtake(c, Pending(c) \/ svc[c].status = "connecting")
  /\ GatewayJoin(c)
  /\ UNCHANGED near

\* retryWithForceReplace(): cleans up nothing.
RetryWithForceReplace(c) ==
  /\ svc[c].status = "denied" /\ ~svc[c].disposed
  /\ events < MaxEvents
  /\ events' = events + 1
  /\ svc' = [svc EXCEPT ![c].status = "connecting"]
  /\ GatewayRetry(c)
  /\ UNCHANGED <<pcs, ops, playing, near, overtaken>>

\* "connected"
OnConnected(c, msg) ==
  /\ LET setUps == svc[c].fetching + (IF svc[c].manager = 0 THEN 1 ELSE 0)
     IN svc' = [svc EXCEPT ![c] = [@ EXCEPT !.status = "connected", !.sessionId = msg.id,
                                     !.fetching = setUps]]
  /\ Overtake(c, Pending(c))
  /\ UNCHANGED <<pcs, ops, playing>>

\* "connect:denied"
OnDenied(c) ==
  /\ svc' = [svc EXCEPT ![c] = [@ EXCEPT !.status = "denied", !.sessionId = 0]]
  /\ UNCHANGED <<pcs, ops, playing, overtaken>>

\* The rest of setupWebRtc, which looks no more at what happened meanwhile.
NewManager(service) ==
  [service EXCEPT !.manager = service.managers + 1, !.managers = @ + 1]

\* fetchIceServers always returns; AudioService.initialize asks for the microphone
\* unless it has it.
IceServersFetched(c) ==
  /\ svc[c].fetching > 0
  /\ LET service == [svc[c] EXCEPT !.fetching = @ - 1]
     IN svc' = [svc EXCEPT ![c] =
                  IF svc[c].localStream THEN NewManager(service)
                  ELSE [service EXCEPT !.asking = @ + 1]]
  /\ UNCHANGED <<pcs, ops, playing, down, online, bounds, overtaken>>

\* getUserMedia resolves: the set-up completes, whatever happened meanwhile.
MicrophoneGranted(c) ==
  /\ svc[c].asking > 0
  /\ LET service == [svc[c] EXCEPT !.asking = @ - 1, !.localStream = TRUE,
                        !.lostStreams = IF svc[c].localStream THEN @ + 1 ELSE @]
     IN svc' = [svc EXCEPT ![c] = NewManager(service)]
  /\ UNCHANGED <<pcs, ops, playing, down, online, bounds, overtaken>>

\* getUserMedia rejects: no voice until the next set-up.
MicrophoneDenied(c) ==
  /\ svc[c].asking > 0
  /\ svc' = [svc EXCEPT ![c].asking = @ - 1]
  /\ UNCHANGED <<pcs, ops, playing, down, online, bounds, overtaken>>

\* "disconnect", and dispose()
OnDisconnect(c, disposing) ==
  /\ CleanUp(c, [svc[c] EXCEPT !.status = "disconnected", !.sessionId = 0,
                   !.disposed = disposing])
  /\ Overtake(c, Pending(c))

HandleNearbyPlayersUpdate(c, nearby) ==
  IF svc[c].manager = 0 THEN UNCHANGED <<pcs, ops, playing>>
  ELSE SyncConnections(c, nearby)

\* "presence:nearby"
OnNearby(c, msg) ==
  /\ HandleNearbyPlayersUpdate(c, msg.nearby)
  /\ UNCHANGED <<svc, overtaken>>

\* History: nobody will answer the offer of p.
Unanswered(P, p) == IF P[p].open THEN [P EXCEPT ![p].missed = TRUE] ELSE P

\* "webrtc:offer" and handleOffer up to its first await: a page without manager
\* drops it.
OnOffer(c, msg) ==
  LET m == svc[c].manager
      S == IF PeersTo(c, m, msg.id) = {} THEN {msg.id} ELSE {}
      P == CreatePeers(pcs, c, m, S, Identities(S))
  IN /\ IF m = 0
        THEN /\ pcs' = Unanswered(pcs, msg.pc)
             /\ ops' = ops
        ELSE /\ Available(S)
             /\ pcs' = P
             /\ \E q \in {r \in Pcs : P[r].open} :
                  /\ P[q].owner = c /\ P[q].manager = m /\ P[q].to = msg.id
                  /\ ops' = ops \cup {Call("handleOffer", q, c, m, msg.id, msg.pc)}
     /\ UNCHANGED <<svc, playing, overtaken>>

\* "webrtc:answer" and handleAnswer
OnAnswer(c, msg) ==
  /\ ops' = ops \cup {Call("handleAnswer", q, c, svc[c].manager, msg.id, msg.pc) :
                        q \in PeersTo(c, svc[c].manager, msg.id)}
  /\ UNCHANGED <<svc, pcs, playing, overtaken>>

\* A description of q is being set.
Negotiating(q) == \E o \in ops : o.pc = q /\ o.kind # "createOffer"

\* addIceCandidate: kept until there is a description.  The browser itself makes it wait
\* for one that is being set.
AddIceCandidate(q, candidate) ==
  IF pcs[q].remote = 0 \/ Negotiating(q)
  THEN [pcs EXCEPT ![q].pendingCandidates = @ \cup {candidate}]
  ELSE [pcs EXCEPT ![q].heard = TRUE]

\* handleCandidate: a candidate of another peer than the described one is rejected.
HandleCandidate(c, q, candidate) ==
  IF pcs[q].remote \in {0, candidate} \/ Negotiating(q)
  THEN pcs' = AddIceCandidate(q, candidate) /\ playing' = playing
  ELSE DisconnectFrom(c, {q})

\* "webrtc:candidate"
OnCandidate(c, msg) ==
  /\ UNCHANGED <<svc, ops, overtaken>>
  /\ \/ /\ PeersTo(c, svc[c].manager, msg.id) = {}
        /\ UNCHANGED <<pcs, playing>>
     \/ \E q \in PeersTo(c, svc[c].manager, msg.id) : HandleCandidate(c, q, msg.pc)

\* Whoever is told "connected" asks for the list at once.
Answers(c, msg) ==
  IF msg.type = "connected" /\ online[c] # 0 /\ ~svc[c].disposed
  THEN <<Msg("nearby", 0, 0, Nearby(c))>> ELSE <<>>

Deliver(c) ==
  /\ down[c] # <<>>
  /\ LET msg == Head(down[c])
     IN /\ down' = [down EXCEPT ![c] = Tail(@) \o Answers(c, msg)]
        /\ \/ svc[c].disposed /\ UNCHANGED <<svc, pcs, ops, playing, overtaken>>
           \/ /\ ~svc[c].disposed
              /\ \/ msg.type = "connected" /\ OnConnected(c, msg)
                 \/ msg.type = "denied" /\ OnDenied(c)
                 \/ msg.type = "disconnect" /\ OnDisconnect(c, FALSE)
                 \/ msg.type = "nearby" /\ OnNearby(c, msg)
                 \/ msg.type = "offer" /\ OnOffer(c, msg)
                 \/ msg.type = "answer" /\ OnAnswer(c, msg)
                 \/ msg.type = "candidate" /\ OnCandidate(c, msg)
  /\ UNCHANGED <<online, bounds>>

\* The user leaves, or the connection is lost.
Disconnect(c) ==
  /\ online[c] # 0 \/ down[c] # <<>>
  /\ ~svc[c].disposed
  /\ OnDisconnect(c, FALSE)
  /\ online' = [online EXCEPT ![c] = 0]
  /\ down' = [down EXCEPT ![c] = <<>>]
  /\ UNCHANGED bounds

\* dispose() stops listening, and leaves the socket connected.
Dispose(c) ==
  /\ svc[c].status = "connected" /\ ~svc[c].disposed
  /\ OnDisconnect(c, TRUE)
  /\ UNCHANGED <<online, down, bounds>>

-----------------------------------------------------------------------------
(* What the RTCPeerConnections do.                                         *)

\* setRemoteDescription has succeeded and flushPendingCandidates runs.
Described(p, remote) ==
  [pcs EXCEPT ![p] = [@ EXCEPT !.remote = remote, !.offering = FALSE,
     !.heard = remote \in pcs[p].pendingCandidates, !.pendingCandidates = {},
     !.connected = FALSE]]

Playing(o) == [playing EXCEPT ![o.owner] = @ \cup {o.to}]

\* A candidate for another description makes the flush fail.
Applicable(o) ==
  /\ pcs[o.pc].open
  /\ o.kind # "createOffer" => pcs[o.pc].pendingCandidates \subseteq {o.arg}
  /\ o.kind = "handleAnswer" => pcs[o.pc].offering

\* connectTo after its await: the offer goes out, its candidates after it.
OfferCreated(o) ==
  /\ o.kind = "createOffer"
  /\ pcs' = [pcs EXCEPT ![o.pc].offering = TRUE]
  /\ Relay(o.owner, o.to, <<"offer", "candidate">>, o.pc)
  /\ playing' = playing

\* handleOffer after its await
OfferAnswered(o) ==
  /\ o.kind = "handleOffer"
  /\ pcs' = Described(o.pc, o.arg)
  /\ Relay(o.owner, o.to, <<"answer", "candidate">>, o.pc)
  /\ playing' = Playing(o)

\* handleAnswer after its await
AnswerApplied(o) ==
  /\ o.kind = "handleAnswer"
  /\ pcs' = Described(o.pc, o.arg)
  /\ playing' = Playing(o)
  /\ down' = down

\* The catch clauses: whatever is registered for the session goes.  Or the promise
\* of a closed RTCPeerConnection never settles.
CallFailed(o) ==
  LET D == PeersTo(o.owner, o.manager, o.to)
      left(P) == IF o.kind = "handleOffer" THEN Unanswered(P, o.arg) ELSE P
  IN /\ \/ pcs' = left(Closing(D)) /\ playing' = Silencing(o.owner, D)
        \/ ~pcs[o.pc].open /\ pcs' = left(pcs) /\ playing' = playing
     /\ down' = down

Settle(p) ==
  \E o \in ops :
    /\ o.pc = p
    /\ ops' = ops \ {o}
    /\ \/ /\ Applicable(o)
          /\ OfferCreated(o) \/ OfferAnswered(o) \/ AnswerApplied(o)
       \/ ~Applicable(o) /\ CallFailed(o)
    /\ UNCHANGED <<svc, online, bounds, overtaken>>

\* Each holds the other's description.
Matched(p, q) ==
  /\ {p, q} \subseteq Open
  /\ pcs[p].remote = q /\ pcs[q].remote = p

\* iceConnectionState "connected", on both ends
IceConnects(p) ==
  /\ \E q \in Pcs :
       /\ Matched(p, q)
       /\ ~pcs[p].connected
       /\ pcs[p].heard \/ pcs[q].heard
       /\ pcs' = [pcs EXCEPT ![p].connected = TRUE, ![q].connected = TRUE]
  /\ UNCHANGED <<svc, ops, playing, down, online, bounds, overtaken>>

\* No answer to its checks can come: the other end is gone or talks to another.  ICE
\* gives up after seconds, long after what was on its way has settled.
Hopeless(p) ==
  /\ p \in Open /\ pcs[p].remote # 0
  /\ pcs[p].remote \in Open => pcs[pcs[p].remote].remote \notin {0, p}
  /\ Settled

\* iceConnectionState "failed" or "disconnected"
IceFails(p) ==
  /\ p \in Open
  /\ \/ Hopeless(p) /\ events' = events
     \/ /\ ~Hopeless(p) /\ pcs[p].remote # 0
        /\ events < MaxEvents /\ events' = events + 1
  /\ DisconnectFrom(pcs[p].owner, {p})
  /\ UNCHANGED <<svc, ops, down, online, near, overtaken>>

Next ==
  \/ \E c \in Clients :
       \/ Join(c) \/ RetryWithForceReplace(c) \/ Disconnect(c) \/ Dispose(c) \/ Deliver(c)
       \/ IceServersFetched(c) \/ MicrophoneGranted(c) \/ MicrophoneDenied(c)
  \/ \E p \in Pcs : Settle(p) \/ IceConnects(p) \/ IceFails(p)
  \/ Tick \/ MeetOrPart

\* Messages arrive, fetches and the browser's own calls settle, the timer ticks.
\* Nobody has to join, to answer the microphone prompt, or to move.
Fairness ==
  /\ \A c \in Clients : WF_vars(Deliver(c)) /\ WF_vars(IceServersFetched(c))
  /\ \A p \in Pcs : WF_vars(Settle(p)) /\ WF_vars(IceConnects(p))
                    /\ WF_vars(Hopeless(p) /\ IceFails(p))
  /\ WF_vars(Quiet /\ Tick)

Spec == Init /\ [][Next]_vars
FairSpec == Spec /\ Fairness

-----------------------------------------------------------------------------
(* Properties.                                                             *)

Service == [status : {"idle", "connecting", "connected", "denied", "disconnected"},
            sessionId : SessionIds \cup {0}, manager : Nat, managers : Nat,
            fetching : Nat, asking : Nat, localStream : BOOLEAN,
            lostStreams : Nat, disposed : BOOLEAN]

Peer == [open : {TRUE}, owner : Clients, manager : Nat, to : SessionIds,
         offering : BOOLEAN, remote : Pcs \cup {0}, pendingCandidates : SUBSET Pcs,
         heard : BOOLEAN, connected : BOOLEAN, missed : BOOLEAN]

Calls == [kind : {"createOffer"}, pc : Pcs, owner : Clients, manager : Nat,
          to : SessionIds, arg : {0}]
    \cup [kind : {"handleOffer", "handleAnswer"}, pc : Pcs, owner : Clients,
          manager : Nat, to : SessionIds, arg : Pcs]

Messages == [type : {"connected"}, id : SessionIds, pc : {0}, nearby : {{}}]
       \cup [type : {"denied", "disconnect"}, id : {0}, pc : {0}, nearby : {{}}]
       \cup [type : {"nearby"}, id : {0}, pc : {0}, nearby : SUBSET SessionIds]
       \cup [type : {"offer", "answer", "candidate"}, id : SessionIds, pc : Pcs,
             nearby : {{}}]

TypeOK ==
  /\ svc \in [Clients -> Service]
  /\ pcs \in [Pcs -> Peer \cup {NoPc}]
  /\ ops \subseteq Calls
  /\ playing \in [Clients -> SUBSET SessionIds]
  /\ down \in [Clients -> Seq(Messages)]
  /\ online \in [Clients -> SessionIds \cup {0}]
  /\ near \in BOOLEAN /\ events \in Nat
  /\ overtaken \subseteq Clients

\* A page that is not connected (never was, left, was denied, is joining again, was
\* disposed) has no live microphone, no manager, no open connection and plays nobody,
\* whatever late promises and signals bring: unless it left, joined or was disposed
\* while its set-up was pending, which setupWebRtc does not notice.
AwayIsSilent ==
  \A c \in Clients \ overtaken :
    svc[c].status # "connected" =>
      /\ svc[c].manager = 0 /\ ~svc[c].localStream
      /\ playing[c] = {}
      /\ \A p \in Open : pcs[p].owner # c

\* Every open connection of a page is in its present manager's Map, the only one for
\* its session, and exactly the sessions with a described connection are audible: the
\* catch clauses and ICE failures, which close by session id, leak neither connections
\* nor audio elements nor streams.
PeersRegistered ==
  \A c \in Clients \ overtaken :
    /\ svc[c].lostStreams = 0
    /\ \A p, q \in Open :
         pcs[p].owner = c =>
           /\ pcs[p].manager = svc[c].manager
           /\ pcs[q].owner = c /\ pcs[q].to = pcs[p].to => p = q
    /\ playing[c] = {pcs[p].to : p \in {q \in Open : pcs[q].owner = c /\ pcs[q].remote # 0}}

\* Two pages never offer to each other at once, whatever rejoins, stale lists and
\* failures come between: the comparison of ids in syncConnections suffices.
NoGlare ==
  \A p, q \in Open :
    LET c == pcs[p].owner
        d == pcs[q].owner
    IN /\ pcs[p].offering /\ pcs[q].offering
       /\ pcs[p].to = svc[d].sessionId /\ pcs[q].to = svc[c].sessionId
       => c \in overtaken \/ d \in overtaken

\* Connected, set up, and not by two set-ups.
Ready(c) ==
  /\ svc[c].status = "connected" /\ svc[c].manager # 0 /\ online[c] = svc[c].sessionId
  /\ c \notin overtaken

Talking(c, d) ==
  \E p, q \in Open :
    /\ pcs[p].owner = c /\ pcs[q].owner = d /\ Matched(p, q)
    /\ pcs[p].connected /\ pcs[q].connected

Pairs == {D \in SUBSET Clients : Cardinality(D) = 2}
AllTalk(D) == \A c, d \in D : c # d => Talking(c, d)

\* What the page promises in its header: players who stay near each other, both set
\* up, are connected in the end.  An offer that comes before the callee is set up is
\* dropped, and its caller, whose connection then exists, never offers again.
NearbyConnect ==
  \A D \in Pairs : <>[](near /\ \A c \in D : Ready(c)) => []<>AllTalk(D)

\* They are connected in the end if no offer stays unanswered: after failures, partings,
\* rejoins, stale answers and candidates the next lists repair whatever is half open.
AnsweredConnect ==
  \A D \in Pairs :
    <>[](near /\ (\A c \in D : Ready(c)) /\ \A p \in Open : ~pcs[p].missed)
      => []<>AllTalk(D)

\* Who is left alone falls silent for good: a late offer may open a connection to a
\* player who has walked away, but the next list closes it.
PartingEndsCalls ==
  \A c \in Clients :
    <>[](~near /\ Ready(c)) => <>[](playing[c] = {} /\ \A p \in Open : pcs[p].owner # c)
=============================================================================
