-------------------------- MODULE VoiceClientsProofs --------------------------
(***************************************************************************)
(* Proofs about VoiceClients, for any number of clients, sessions and      *)
(* connections.                                                            *)
(***************************************************************************)
EXTENDS VoiceClients, TLAPS

-----------------------------------------------------------------------------
(* Types.                                                                  *)

LEMMA StatusFields ==
  ASSUME NEW service \in Service
  PROVE  /\ service.sessionId \in SessionIds \cup {0}
         /\ service.manager \in Nat /\ service.managers \in Nat
         /\ service.fetching \in Nat /\ service.asking \in Nat
         /\ service.lostStreams \in Nat
         /\ service.localStream \in BOOLEAN /\ service.disposed \in BOOLEAN
BY DEF Service

\* The connections of a client are open, and are its own.
LEMMA ConnectionsOwned ==
  ASSUME NEW c, NEW m, NEW s
  PROVE  /\ Connections(c, m) \subseteq Open /\ PeersTo(c, m, s) \subseteq Open
         /\ \A p \in Connections(c, m) : pcs[p].owner = c /\ pcs[p].manager = m
         /\ \A p \in PeersTo(c, m, s) :
              pcs[p].owner = c /\ pcs[p].manager = m /\ pcs[p].to = s
BY DEF Connections, PeersTo, Open

LEMMA OpenPeers ==
  ASSUME TypeOK, NEW p \in Open
  PROVE  p \in Pcs /\ pcs[p] \in Peer
BY DEF TypeOK, Open, NoPc

\* Each session gets a connection of its own that nobody refers to any more.
LEMMA IdentitiesFit ==
  ASSUME NEW S, Available(S)
  PROVE  /\ Identities(S) \in [S -> Pcs]
         /\ \A s \in S : Forgotten(Identities(S)[s])
         /\ \A s, t \in S : Identities(S)[s] = Identities(S)[t] => s = t
<1>1. Identities(S) \in Numberings(S)
  BY DEF Available, Identities
<1> QED  BY <1>1 DEF Numberings

\* createPeer registers a new connection for each session, and touches no other.
LEMMA CreatedPeers ==
  ASSUME NEW P, NEW c, NEW m, NEW S, NEW id \in [S -> Pcs],
         \A s, t \in S : id[s] = id[t] => s = t
  PROVE  /\ \A s \in S : CreatePeers(P, c, m, S, id)[id[s]] = NewPc(c, m, s)
         /\ \A p \in Pcs : (\A s \in S : id[s] # p) => CreatePeers(P, c, m, S, id)[p] = P[p]
<1>1. ASSUME NEW s \in S  PROVE CreatePeers(P, c, m, S, id)[id[s]] = NewPc(c, m, s)
  <2>1. (CHOOSE t \in S : id[t] = id[s]) = s
    OBVIOUS
  <2> QED  BY <2>1 DEF CreatePeers
<1>2. ASSUME NEW p \in Pcs, \A s \in S : id[s] # p
      PROVE  CreatePeers(P, c, m, S, id)[p] = P[p]
  BY <1>2 DEF CreatePeers
<1> QED  BY <1>1, <1>2

LEMMA NewPcType ==
  ASSUME NEW c \in Clients, NEW m \in Nat, NEW s \in SessionIds
  PROVE  NewPc(c, m, s) \in Peer
BY DEF NewPc, Peer

LEMMA CreatedType ==
  ASSUME NEW P \in [Pcs -> Peer \cup {NoPc}], NEW c \in Clients, NEW m \in Nat,
         NEW S \in SUBSET SessionIds, NEW id \in [S -> Pcs],
         \A s, t \in S : id[s] = id[t] => s = t
  PROVE  CreatePeers(P, c, m, S, id) \in [Pcs -> Peer \cup {NoPc}]
<1> SUFFICES ASSUME NEW p \in Pcs
             PROVE  CreatePeers(P, c, m, S, id)[p] \in Peer \cup {NoPc}
  BY DEF CreatePeers
<1>1. CASE \E s \in S : id[s] = p
  BY <1>1, CreatedPeers, NewPcType
<1>2. CASE \A s \in S : id[s] # p
  BY <1>2, CreatedPeers
<1> QED  BY <1>1, <1>2

LEMMA ClosingType ==
  ASSUME TypeOK, NEW D
  PROVE  Closing(D) \in [Pcs -> Peer \cup {NoPc}]
BY DEF Closing, TypeOK

LEMMA SilencingType ==
  ASSUME TypeOK, NEW c \in Clients, NEW D
  PROVE  Silencing(c, D) \in [Clients -> SUBSET SessionIds]
BY DEF Silencing, TypeOK

LEMMA CallType ==
  ASSUME NEW p \in Pcs, NEW c \in Clients, NEW m \in Nat, NEW s \in SessionIds
  PROVE  /\ Call("createOffer", p, c, m, s, 0) \in Calls
         /\ \A kind \in {"handleOffer", "handleAnswer"}, q \in Pcs :
              Call(kind, p, c, m, s, q) \in Calls
BY DEF Call, Calls

\* What the server sends are messages.
LEMMA MsgType ==
  /\ \A s \in SessionIds : Msg("connected", s, 0, {}) \in Messages
  /\ Msg("denied", 0, 0, {}) \in Messages /\ Msg("disconnect", 0, 0, {}) \in Messages
  /\ \A S \in SUBSET SessionIds : Msg("nearby", 0, 0, S) \in Messages
  /\ \A type \in {"offer", "answer", "candidate"}, s \in SessionIds, p \in Pcs :
       Msg(type, s, p, {}) \in Messages
BY DEF Msg, Messages

LEMMA NearbyType ==
  ASSUME TypeOK, NEW c
  PROVE  Nearby(c) \in SUBSET SessionIds
BY DEF Nearby, TypeOK

\* A queue stays one when messages are added to it.
LEMMA QueueType ==
  ASSUME TypeOK, NEW c \in Clients, NEW more \in Seq(Messages)
  PROVE  /\ down[c] \in Seq(Messages) /\ down[c] \o more \in Seq(Messages)
         /\ [down EXCEPT ![c] = @ \o more] \in [Clients -> Seq(Messages)]
BY DEF TypeOK

LEMMA RelayType ==
  ASSUME TypeOK, NEW c \in Clients, NEW s, NEW p \in Pcs,
         NEW types \in Seq({"offer", "answer", "candidate"}), Relay(c, s, types, p)
  PROVE  down' \in [Clients -> Seq(Messages)]
<1> DEFINE more == [i \in 1..Len(types) |-> Msg(types[i], online[c], p, {})]
<1>1. ASSUME online[c] # 0  PROVE more \in Seq(Messages)
  <2>1. online[c] \in SessionIds
    BY <1>1 DEF TypeOK
  <2>2. \A i \in 1..Len(types) : Msg(types[i], online[c], p, {}) \in Messages
    BY <2>1, MsgType
  <2>3. Len(types) \in Nat
    OBVIOUS
  <2> QED  BY <2>2, <2>3
<1> HIDE DEF more
<1>2. \A d \in Clients : online[c] # 0 => down[d] \o more \in Seq(Messages)
  BY <1>1, QueueType
<1>3. down' = [d \in Clients |-> IF online[c] # 0 /\ online[d] = s
                                 THEN down[d] \o more ELSE down[d]]
  BY DEF Relay, more
<1> QED  BY <1>2, <1>3 DEF TypeOK

\* A service of which some fields have changed is one.
LEMMA ServiceUpdates ==
  ASSUME NEW service \in Service, NEW n \in Nat, NEW k \in Nat, NEW b \in BOOLEAN
  PROVE  /\ [service EXCEPT !.manager = n, !.managers = k] \in Service
         /\ [service EXCEPT !.fetching = n] \in Service
         /\ [service EXCEPT !.asking = n] \in Service
         /\ [service EXCEPT !.asking = n, !.localStream = b, !.lostStreams = k] \in Service
BY DEF Service

LEMMA InitType == Init => TypeOK
<1> SUFFICES ASSUME Init PROVE TypeOK  OBVIOUS
<1>1. svc \in [Clients -> Service]
  BY DEF Init, NewService, Service
<1>2. down \in [Clients -> Seq(Messages)]
  <2>1. <<>> \in Seq(Messages)
    OBVIOUS
  <2> QED  BY <2>1 DEF Init
<1> QED  BY <1>1, <1>2 DEF Init, TypeOK

\* What a page keeps when it cleans up has its type.
LEMMA CleanUpType ==
  ASSUME TypeOK, NEW c \in Clients, NEW service \in Service, CleanUp(c, service)
  PROVE  /\ svc' \in [Clients -> Service] /\ pcs' \in [Pcs -> Peer \cup {NoPc}]
         /\ playing' \in [Clients -> SUBSET SessionIds] /\ ops' \subseteq Calls
<1>1. [service EXCEPT !.manager = 0, !.localStream = FALSE] \in Service
  BY DEF Service
<1> QED  BY <1>1, ClosingType DEF CleanUp, TypeOK

LEMMA OvertakeType ==
  ASSUME TypeOK, NEW c \in Clients, NEW early, Overtake(c, early)
  PROVE  overtaken' \subseteq Clients
BY DEF Overtake, TypeOK

LEMMA AdmitType ==
  ASSUME TypeOK, NEW c \in Clients, NEW then \in Seq(Messages), Admit(c, then)
  PROVE  online' \in [Clients -> SessionIds \cup {0}] /\ down' \in [Clients -> Seq(Messages)]
<1>1. PICK s \in SessionIds :
        /\ online' = [online EXCEPT ![c] = IF then = <<>> THEN s ELSE 0]
        /\ down' = [down EXCEPT ![c] = @ \o <<Msg("connected", s, 0, {})>> \o then]
  BY DEF Admit
<1>2. <<Msg("connected", s, 0, {})>> \in Seq(Messages)
  BY MsgType
<1>3. down[c] \o <<Msg("connected", s, 0, {})>> \o then \in Seq(Messages)
  BY <1>2, QueueType
<1> QED  BY <1>1, <1>3 DEF TypeOK

LEMMA ServerType ==
  ASSUME TypeOK, NEW c \in Clients, GatewayJoin(c) \/ GatewayRetry(c)
  PROVE  online' \in [Clients -> SessionIds \cup {0}] /\ down' \in [Clients -> Seq(Messages)]
<1>1. <<>> \in Seq(Messages) /\ <<Msg("disconnect", 0, 0, {})>> \in Seq(Messages)
  BY MsgType
<1>2. CASE UNCHANGED <<online, down>>
  BY <1>2 DEF TypeOK
<1>3. CASE Admit(c, <<>>) \/ Admit(c, <<Msg("disconnect", 0, 0, {})>>)
  BY <1>1, <1>3, AdmitType
<1>4. CASE /\ online' = online
           /\ down' = [down EXCEPT ![c] = Append(@, Msg("denied", 0, 0, {}))]
  <2>1. down[c] \in Seq(Messages) /\ Msg("denied", 0, 0, {}) \in Messages
    BY MsgType DEF TypeOK
  <2>2. Append(down[c], Msg("denied", 0, 0, {})) \in Seq(Messages)
    BY <2>1
  <2> QED  BY <1>4, <2>2 DEF TypeOK
<1> QED  BY <1>2, <1>3, <1>4 DEF GatewayJoin, GatewayRetry

\* The pages' own steps.
LEMMA PageType ==
  ASSUME TypeOK, NEW c \in Clients,
         \/ Join(c) \/ RetryWithForceReplace(c) \/ Disconnect(c) \/ Dispose(c)
         \/ IceServersFetched(c) \/ MicrophoneGranted(c) \/ MicrophoneDenied(c)
  PROVE  TypeOK'
<1>1. svc[c] \in Service /\ svc[c].disposed \in BOOLEAN
  BY StatusFields DEF TypeOK
<1>2. ASSUME NEW disposing \in BOOLEAN, OnDisconnect(c, disposing)
      PROVE  /\ svc' \in [Clients -> Service] /\ pcs' \in [Pcs -> Peer \cup {NoPc}]
             /\ playing' \in [Clients -> SUBSET SessionIds] /\ ops' \subseteq Calls
             /\ overtaken' \subseteq Clients
  <2>1. PICK service \in Service :
          service = [svc[c] EXCEPT !.status = "disconnected", !.sessionId = 0,
                                   !.disposed = disposing]
    BY <1>1 DEF Service
  <2>2. CleanUp(c, service) /\ Overtake(c, Pending(c))
    BY <1>2, <2>1 DEF OnDisconnect
  <2> QED  BY <2>2, CleanUpType, OvertakeType
<1>3. CASE Join(c)
  <2>1. PICK service \in Service : service = [svc[c] EXCEPT !.status = "connecting"]
    BY <1>1 DEF Service
  <2>2. /\ CleanUp(c, service) /\ Overtake(c, Pending(c) \/ svc[c].status = "connecting")
        /\ GatewayJoin(c)
    BY <1>3, <2>1 DEF Join
  <2>3. overtaken' \subseteq Clients
    BY <2>2, OvertakeType
  <2> QED  BY <1>3, <2>2, <2>3, CleanUpType, ServerType DEF Join, TypeOK
<1>4. CASE RetryWithForceReplace(c)
  <2>1. [svc[c] EXCEPT !.status = "connecting"] \in Service
    BY <1>1 DEF Service
  <2>2. svc' = [svc EXCEPT ![c] = [svc[c] EXCEPT !.status = "connecting"]]
    BY <1>4 DEF RetryWithForceReplace, TypeOK
  <2> QED  BY <1>4, <2>1, <2>2, ServerType DEF RetryWithForceReplace, TypeOK
<1>5. CASE Disconnect(c)
  <2>1. <<>> \in Seq(Messages)
    OBVIOUS
  <2> QED  BY <1>2, <1>5, <2>1 DEF Disconnect, TypeOK, bounds
<1>6. CASE Dispose(c)
  BY <1>2, <1>6 DEF Dispose, TypeOK, bounds
<1>7. ASSUME NEW service \in Service, svc' = [svc EXCEPT ![c] = service],
             UNCHANGED <<pcs, ops, playing, down, online, bounds, overtaken>>
      PROVE  TypeOK'
  BY <1>7 DEF TypeOK, bounds
<1>8. ASSUME NEW service \in Service  PROVE NewManager(service) \in Service
  <2>1. PICK n \in Nat : n = service.managers + 1
    BY StatusFields
  <2>2. [service EXCEPT !.manager = n, !.managers = n] \in Service
    BY ServiceUpdates
  <2> QED  BY <2>1, <2>2 DEF NewManager
<1>9. CASE IceServersFetched(c)
  <2>1. PICK service \in Service : service = [svc[c] EXCEPT !.fetching = svc[c].fetching - 1]
    <3>1. svc[c].fetching - 1 \in Nat
      BY <1>1, <1>9, StatusFields DEF IceServersFetched
    <3> QED  BY <1>1, <3>1, ServiceUpdates
  <2>2. [service EXCEPT !.asking = service.asking + 1] \in Service
    <3>1. service.asking + 1 \in Nat
      BY StatusFields
    <3> QED  BY <3>1, ServiceUpdates
  <2>3. /\ svc' = [svc EXCEPT ![c] = IF svc[c].localStream THEN NewManager(service)
                                    ELSE [service EXCEPT !.asking = service.asking + 1]]
        /\ UNCHANGED <<pcs, ops, playing, down, online, bounds, overtaken>>
    BY <1>9, <2>1 DEF IceServersFetched
  <2>4. CASE svc[c].localStream
    BY <1>7, <1>8, <2>3, <2>4
  <2>5. CASE ~svc[c].localStream
    BY <1>7, <2>2, <2>3, <2>5
  <2> QED  BY <2>4, <2>5
<1>10. CASE MicrophoneGranted(c)
  <2>1. PICK old \in Service : old = svc[c] /\ old.asking > 0
    BY <1>1, <1>10 DEF MicrophoneGranted
  <2>2. PICK left \in Nat, lost \in Nat :
          /\ left = old.asking - 1
          /\ lost = IF old.localStream THEN old.lostStreams + 1 ELSE old.lostStreams
    BY <2>1, StatusFields
  <2>3. PICK service \in Service :
          service = [old EXCEPT !.asking = left, !.localStream = TRUE, !.lostStreams = lost]
    BY ServiceUpdates
  <2>4. /\ svc' = [svc EXCEPT ![c] =
             NewManager([svc[c] EXCEPT !.asking = @ - 1, !.localStream = TRUE,
                           !.lostStreams = IF svc[c].localStream THEN @ + 1 ELSE @])]
        /\ UNCHANGED <<pcs, ops, playing, down, online, bounds, overtaken>>
    BY <1>10 DEF MicrophoneGranted
  <2>5. service = [old EXCEPT !.asking = @ - 1, !.localStream = TRUE,
                     !.lostStreams = IF old.localStream THEN @ + 1 ELSE @]
    BY <2>2, <2>3
  <2>6. svc' = [svc EXCEPT ![c] = NewManager(service)]
    BY <2>1, <2>4, <2>5
  <2> QED  BY <1>7, <1>8, <2>4, <2>6
<1>11. CASE MicrophoneDenied(c)
  <2>1. [svc[c] EXCEPT !.asking = @ - 1] \in Service
    BY <1>1, <1>11 DEF MicrophoneDenied, Service
  <2>2. svc' = [svc EXCEPT ![c] = [svc[c] EXCEPT !.asking = @ - 1]]
    BY <1>11 DEF MicrophoneDenied, TypeOK
  <2> QED  BY <1>7, <1>11, <2>1, <2>2 DEF MicrophoneDenied
<1> QED
  BY <1>3, <1>4, <1>5, <1>6, <1>9, <1>10, <1>11

\* What a list does to the connections and the calls.
LEMMA SyncType ==
  ASSUME TypeOK, NEW c \in Clients, NEW nearby \in SUBSET SessionIds,
         SyncConnections(c, nearby)
  PROVE  /\ pcs' \in [Pcs -> Peer \cup {NoPc}] /\ ops' \subseteq Calls
         /\ playing' \in [Clients -> SUBSET SessionIds]
<1>1. PICK m \in Nat : m = svc[c].manager
  BY StatusFields DEF TypeOK
<1>2. PICK gone : gone = Parted(c, nearby)
  OBVIOUS
<1>3. PICK S \in SUBSET Callees(c, nearby) :
        /\ Available(S)
        /\ pcs' = CreatePeers(Closing(gone), c, m, S, Identities(S))
        /\ ops' = ops \cup {Call("createOffer", Identities(S)[s], c, m, s, 0) : s \in S}
        /\ playing' = Silencing(c, gone)
  BY <1>1, <1>2 DEF SyncConnections
<1>4. S \in SUBSET SessionIds
  BY DEF Callees
<1>5. PICK id \in [S -> Pcs] :
        id = Identities(S) /\ \A s, t \in S : id[s] = id[t] => s = t
  BY <1>3, IdentitiesFit
<1>6. PICK P \in [Pcs -> Peer \cup {NoPc}] : P = Closing(gone)
  BY ClosingType
<1>7. pcs' \in [Pcs -> Peer \cup {NoPc}]
  BY <1>3, <1>4, <1>5, <1>6, CreatedType
<1>8. \A s \in S : Call("createOffer", id[s], c, m, s, 0) \in Calls
  BY <1>4, CallType
<1> QED  BY <1>3, <1>5, <1>7, <1>8, SilencingType DEF TypeOK

LEMMA UnansweredType ==
  ASSUME NEW P \in [Pcs -> Peer \cup {NoPc}], NEW p \in Pcs
  PROVE  Unanswered(P, p) \in [Pcs -> Peer \cup {NoPc}]
<1>1. CASE ~P[p].open
  BY <1>1 DEF Unanswered
<1>2. CASE P[p].open
  <2>1. P[p] \in Peer
    BY <1>2 DEF NoPc
  <2>2. [P[p] EXCEPT !.missed = TRUE] \in Peer
    BY <2>1 DEF Peer
  <2> QED  BY <1>2, <2>2 DEF Unanswered
<1> QED  BY <1>1, <1>2

LEMMA OfferType ==
  ASSUME TypeOK, NEW c \in Clients, NEW msg \in Messages, msg.type = "offer",
         OnOffer(c, msg)
  PROVE  pcs' \in [Pcs -> Peer \cup {NoPc}] /\ ops' \subseteq Calls
<1>1. msg.id \in SessionIds /\ msg.pc \in Pcs
  BY DEF Messages
<1>2. PICK m \in Nat : m = svc[c].manager
  BY StatusFields DEF TypeOK
<1>3. CASE m = 0
  <2>1. pcs' = Unanswered(pcs, msg.pc) /\ ops' = ops
    BY <1>2, <1>3 DEF OnOffer
  <2> QED  BY <1>1, <2>1, UnansweredType DEF TypeOK
<1>4. CASE m # 0
  <2>1. PICK S \in SUBSET SessionIds : S = IF PeersTo(c, m, msg.id) = {} THEN {msg.id} ELSE {}
    BY <1>1
  <2>2. Available(S)
    BY <1>2, <1>4, <2>1 DEF OnOffer
  <2>3. PICK id \in [S -> Pcs] :
          id = Identities(S) /\ \A s, t \in S : id[s] = id[t] => s = t
    BY <2>2, IdentitiesFit
  <2>4. PICK q \in Pcs :
          /\ pcs' = CreatePeers(pcs, c, m, S, id)
          /\ ops' = ops \cup {Call("handleOffer", q, c, m, msg.id, msg.pc)}
    BY <1>2, <1>4, <2>1, <2>3 DEF OnOffer
  <2>5. pcs' \in [Pcs -> Peer \cup {NoPc}]
    BY <2>3, <2>4, CreatedType DEF TypeOK
  <2>6. Call("handleOffer", q, c, m, msg.id, msg.pc) \in Calls
    BY <1>1, CallType
  <2> QED  BY <2>4, <2>5, <2>6 DEF TypeOK
<1> QED  BY <1>3, <1>4

LEMMA CandidateType ==
  ASSUME TypeOK, NEW c \in Clients, NEW msg \in Messages, msg.type = "candidate",
         OnCandidate(c, msg)
  PROVE  /\ pcs' \in [Pcs -> Peer \cup {NoPc}]
         /\ playing' \in [Clients -> SUBSET SessionIds]
<1>1. msg.pc \in Pcs
  BY DEF Messages
<1>2. CASE UNCHANGED <<pcs, playing>>
  BY <1>2 DEF TypeOK
<1>3. ASSUME NEW q \in PeersTo(c, svc[c].manager, msg.id), HandleCandidate(c, q, msg.pc)
      PROVE  /\ pcs' \in [Pcs -> Peer \cup {NoPc}]
             /\ playing' \in [Clients -> SUBSET SessionIds]
  <2>1. q \in Pcs /\ pcs[q] \in Peer
    BY OpenPeers, ConnectionsOwned
  <2>2. CASE DisconnectFrom(c, {q})
    BY <2>2, ClosingType, SilencingType DEF DisconnectFrom
  <2>3. CASE pcs' = AddIceCandidate(q, msg.pc) /\ playing' = playing
    <3>1. [pcs[q] EXCEPT !.pendingCandidates = @ \cup {msg.pc}] \in Peer
      BY <1>1, <2>1 DEF Peer
    <3>2. [pcs[q] EXCEPT !.heard = TRUE] \in Peer
      BY <2>1 DEF Peer
    <3>3. CASE pcs[q].remote = 0 \/ Negotiating(q)
      BY <2>3, <3>1, <3>3 DEF AddIceCandidate, TypeOK
    <3>4. CASE ~(pcs[q].remote = 0 \/ Negotiating(q))
      BY <2>3, <3>2, <3>4 DEF AddIceCandidate, TypeOK
    <3> QED  BY <3>3, <3>4
  <2> QED  BY <1>3, <2>2, <2>3 DEF HandleCandidate
<1> QED  BY <1>2, <1>3 DEF OnCandidate

\* A message that arrives.
LEMMA DeliverType ==
  ASSUME TypeOK, NEW c \in Clients, Deliver(c)
  PROVE  TypeOK'
<1>1. PICK msg \in Messages : msg = Head(down[c]) /\ down[c] # <<>>
  BY DEF Deliver, TypeOK
<1>2. /\ down' = [down EXCEPT ![c] = Tail(@) \o Answers(c, msg)]
      /\ UNCHANGED <<online, near, events>>
      /\ \/ svc[c].disposed /\ UNCHANGED <<svc, pcs, ops, playing, overtaken>>
         \/ msg.type = "connected" /\ OnConnected(c, msg)
         \/ msg.type = "denied" /\ OnDenied(c)
         \/ msg.type = "disconnect" /\ OnDisconnect(c, FALSE)
         \/ msg.type = "nearby" /\ OnNearby(c, msg)
         \/ msg.type = "offer" /\ OnOffer(c, msg)
         \/ msg.type = "answer" /\ OnAnswer(c, msg)
         \/ msg.type = "candidate" /\ OnCandidate(c, msg)
  BY <1>1 DEF Deliver, bounds
<1>3. down' \in [Clients -> Seq(Messages)]
  <2>1. <<>> \in Seq(Messages) /\ Msg("nearby", 0, 0, Nearby(c)) \in Messages
    BY NearbyType, MsgType
  <2>2. Answers(c, msg) \in Seq(Messages)
    BY <2>1 DEF Answers
  <2>3. Tail(down[c]) \in Seq(Messages)
    BY <1>1 DEF TypeOK
  <2>4. Tail(down[c]) \o Answers(c, msg) \in Seq(Messages)
    BY <2>2, <2>3
  <2> QED  BY <1>2, <2>4 DEF TypeOK
<1>4. /\ svc' \in [Clients -> Service] /\ pcs' \in [Pcs -> Peer \cup {NoPc}]
      /\ ops' \subseteq Calls /\ playing' \in [Clients -> SUBSET SessionIds]
      /\ overtaken' \subseteq Clients
  <2>0. svc[c] \in Service
    BY DEF TypeOK
  <2>1. CASE UNCHANGED <<svc, pcs, ops, playing, overtaken>>
    BY <2>1 DEF TypeOK
  <2>2. CASE msg.type = "connected" /\ OnConnected(c, msg)
    <3>1. PICK id \in SessionIds, n \in Nat :
            /\ id = msg.id
            /\ n = svc[c].fetching + (IF svc[c].manager = 0 THEN 1 ELSE 0)
      BY <2>0, <2>2, StatusFields DEF Messages
    <3>2. [svc[c] EXCEPT !.status = "connected", !.sessionId = id, !.fetching = n] \in Service
      BY <2>0 DEF Service
    <3>3. svc' = [svc EXCEPT ![c] = [@ EXCEPT !.status = "connected", !.sessionId = id,
                                       !.fetching = n]]
      BY <2>2, <3>1 DEF OnConnected
    <3>4. svc' \in [Clients -> Service]
      BY <3>2, <3>3 DEF TypeOK
    <3> QED  BY <2>2, <3>4, OvertakeType DEF OnConnected, TypeOK
  <2>3. CASE OnDenied(c)
    <3>1. [svc[c] EXCEPT !.status = "denied", !.sessionId = 0] \in Service
      BY <2>0 DEF Service
    <3> QED  BY <2>3, <3>1 DEF OnDenied, TypeOK
  <2>4. CASE OnDisconnect(c, FALSE)
    <3>1. PICK service \in Service :
            service = [svc[c] EXCEPT !.status = "disconnected", !.sessionId = 0,
                                     !.disposed = FALSE]
      BY <2>0 DEF Service
    <3>2. CleanUp(c, service) /\ Overtake(c, Pending(c))
      BY <2>4, <3>1 DEF OnDisconnect
    <3> QED  BY <3>2, CleanUpType, OvertakeType
  <2>5. CASE msg.type = "nearby" /\ OnNearby(c, msg)
    <3>1. msg.nearby \in SUBSET SessionIds
      BY <2>5 DEF Messages
    <3>2. CASE UNCHANGED <<pcs, ops, playing>>
      BY <2>5, <3>2 DEF OnNearby, TypeOK
    <3>3. CASE SyncConnections(c, msg.nearby)
      BY <2>5, <3>1, <3>3, SyncType DEF OnNearby, TypeOK
    <3> QED  BY <2>5, <3>2, <3>3 DEF OnNearby, HandleNearbyPlayersUpdate
  <2>6. CASE msg.type = "offer" /\ OnOffer(c, msg)
    BY <2>6, OfferType DEF OnOffer, TypeOK
  <2>7. CASE msg.type = "answer" /\ OnAnswer(c, msg)
    <3>1. PICK m \in Nat : m = svc[c].manager
      BY <2>0, StatusFields
    <3>2. msg.id \in SessionIds /\ msg.pc \in Pcs
      BY <2>7 DEF Messages
    <3>3. \A q \in PeersTo(c, m, msg.id) :
            Call("handleAnswer", q, c, m, msg.id, msg.pc) \in Calls
      BY <3>2, CallType, OpenPeers, ConnectionsOwned
    <3> QED  BY <2>7, <3>1, <3>3 DEF OnAnswer, TypeOK
  <2>8. CASE msg.type = "candidate" /\ OnCandidate(c, msg)
    BY <2>8, CandidateType DEF OnCandidate, TypeOK
  <2> QED  BY <1>2, <2>1, <2>2, <2>3, <2>4, <2>5, <2>6, <2>7, <2>8
<1> QED  BY <1>2, <1>3, <1>4 DEF TypeOK

LEMMA DescribedType ==
  ASSUME TypeOK, NEW p \in Open, NEW remote \in Pcs
  PROVE  Described(p, remote) \in [Pcs -> Peer \cup {NoPc}]
<1>1. p \in Pcs /\ pcs[p] \in Peer
  BY OpenPeers
<1>2. ASSUME NEW heard \in BOOLEAN
      PROVE  [pcs[p] EXCEPT !.remote = remote, !.offering = FALSE, !.heard = heard,
                            !.pendingCandidates = {}, !.connected = FALSE] \in Peer
  BY <1>1 DEF Peer
<1>3. (remote \in pcs[p].pendingCandidates) \in BOOLEAN
  OBVIOUS
<1>4. [pcs[p] EXCEPT !.remote = remote, !.offering = FALSE,
         !.heard = remote \in pcs[p].pendingCandidates,
         !.pendingCandidates = {}, !.connected = FALSE] \in Peer
  BY <1>2, <1>3, Zenon
<1> QED  BY <1>1, <1>4 DEF Described, TypeOK

LEMMA SettleType ==
  ASSUME TypeOK, NEW p, Settle(p)
  PROVE  TypeOK'
<1>1. PICK o \in Calls :
        /\ o \in ops /\ ops' = ops \ {o}
        /\ \/ /\ Applicable(o)
              /\ OfferCreated(o) \/ OfferAnswered(o) \/ AnswerApplied(o)
           \/ ~Applicable(o) /\ CallFailed(o)
        /\ UNCHANGED <<svc, online, near, events, overtaken>>
  BY DEF Settle, TypeOK, bounds
<1>2. /\ o.pc \in Pcs /\ o.owner \in Clients /\ o.to \in SessionIds
      /\ o.kind \in {"createOffer", "handleOffer", "handleAnswer"}
      /\ o.kind # "createOffer" => o.arg \in Pcs
  BY DEF Calls
<1>3. Playing(o) \in [Clients -> SUBSET SessionIds]
  BY <1>2 DEF Playing, TypeOK
<1>4. <<"offer", "candidate">> \in Seq({"offer", "answer", "candidate"})
      /\ <<"answer", "candidate">> \in Seq({"offer", "answer", "candidate"})
  OBVIOUS
<1>5. ASSUME pcs' \in [Pcs -> Peer \cup {NoPc}],
             playing' \in [Clients -> SUBSET SessionIds],
             down' \in [Clients -> Seq(Messages)]
      PROVE  TypeOK'
  BY <1>1, <1>5 DEF TypeOK
<1>6. ASSUME pcs[o.pc].open, OfferCreated(o)  PROVE TypeOK'
  <2>1. pcs[o.pc] \in Peer
    BY <1>2, <1>6 DEF TypeOK, NoPc
  <2>2. pcs' \in [Pcs -> Peer \cup {NoPc}]
    BY <1>2, <1>6, <2>1 DEF OfferCreated, TypeOK, Peer
  <2>3. down' \in [Clients -> Seq(Messages)]
    BY <1>2, <1>4, <1>6, RelayType DEF OfferCreated
  <2> QED  BY <1>5, <1>6, <2>2, <2>3 DEF OfferCreated, TypeOK
<1>7. ASSUME pcs[o.pc].open, OfferAnswered(o) \/ AnswerApplied(o)  PROVE TypeOK'
  <2>1. o.pc \in Open /\ o.arg \in Pcs
    BY <1>2, <1>7 DEF OfferAnswered, AnswerApplied, Open
  <2>2. pcs' \in [Pcs -> Peer \cup {NoPc}]
    BY <1>7, <2>1, DescribedType DEF OfferAnswered, AnswerApplied
  <2>3. CASE OfferAnswered(o)
    <3>1. down' \in [Clients -> Seq(Messages)]
      BY <1>2, <1>4, <2>3, RelayType DEF OfferAnswered
    <3> QED  BY <1>3, <1>5, <2>2, <2>3, <3>1 DEF OfferAnswered
  <2>4. CASE AnswerApplied(o)
    BY <1>3, <1>5, <2>2, <2>4 DEF AnswerApplied, TypeOK
  <2> QED  BY <1>7, <2>3, <2>4
<1>8. CASE CallFailed(o)
  <2>1. PICK P \in [Pcs -> Peer \cup {NoPc}] :
          pcs' = IF o.kind = "handleOffer" THEN Unanswered(P, o.arg) ELSE P
    <3>1. \A D : Closing(D) \in [Pcs -> Peer \cup {NoPc}]
      BY ClosingType
    <3> QED  BY <1>8, <3>1 DEF CallFailed, TypeOK
  <2>2. pcs' \in [Pcs -> Peer \cup {NoPc}]
    BY <1>2, <2>1, UnansweredType
  <2>3. playing' \in [Clients -> SUBSET SessionIds] /\ down' = down
    BY <1>2, <1>8, SilencingType DEF CallFailed, TypeOK
  <2> QED  BY <1>5, <2>2, <2>3 DEF TypeOK
<1> QED  BY <1>1, <1>6, <1>7, <1>8 DEF Applicable

\* What the connections do by themselves, and the world around the pages.
LEMMA WorldType ==
  ASSUME TypeOK,
         \/ \E p \in Pcs : IceConnects(p) \/ IceFails(p)
         \/ Tick \/ MeetOrPart
  PROVE  TypeOK'
<1>1. ASSUME NEW p \in Pcs, IceConnects(p)  PROVE TypeOK'
  <2>1. PICK q \in Pcs :
          Matched(p, q) /\ pcs' = [pcs EXCEPT ![p].connected = TRUE, ![q].connected = TRUE]
    BY <1>1 DEF IceConnects
  <2>2. pcs[p] \in Peer /\ pcs[q] \in Peer
    BY <2>1, OpenPeers DEF Matched
  <2>3. pcs' \in [Pcs -> Peer \cup {NoPc}]
    BY <2>1, <2>2 DEF TypeOK, Peer
  <2> QED  BY <1>1, <2>3 DEF IceConnects, TypeOK, bounds
<1>2. ASSUME NEW p \in Pcs, IceFails(p)  PROVE TypeOK'
  <2>1. pcs[p].owner \in Clients
    BY <1>2, OpenPeers DEF IceFails, Peer
  <2>2. /\ pcs' \in [Pcs -> Peer \cup {NoPc}]
        /\ playing' \in [Clients -> SUBSET SessionIds]
    BY <1>2, <2>1, ClosingType, SilencingType DEF IceFails, DisconnectFrom
  <2>3. events' \in Nat
    BY <1>2 DEF IceFails, TypeOK
  <2> QED  BY <1>2, <2>2, <2>3 DEF IceFails, TypeOK
<1>3. CASE Tick
  <2>1. \A c \in Clients : Append(down[c], Msg("nearby", 0, 0, Nearby(c))) \in Seq(Messages)
    <3> TAKE c \in Clients
    <3>1. Msg("nearby", 0, 0, Nearby(c)) \in Messages /\ down[c] \in Seq(Messages)
      BY NearbyType, MsgType DEF TypeOK
    <3> QED  BY <3>1
  <2>2. events' \in Nat
    BY <1>3 DEF Tick, TypeOK
  <2> QED  BY <1>3, <2>1, <2>2 DEF Tick, TypeOK
<1>4. CASE MeetOrPart
  BY <1>4 DEF MeetOrPart, TypeOK
<1> QED  BY <1>1, <1>2, <1>3, <1>4

LEMMA NextType == TypeOK /\ [Next]_vars => TypeOK'
<1> SUFFICES ASSUME TypeOK, [Next]_vars PROVE TypeOK'  OBVIOUS
<1>1. CASE UNCHANGED vars
  BY <1>1 DEF vars, bounds, TypeOK
<1> QED  BY <1>1, PageType, DeliverType, SettleType, WorldType DEF Next

\* Every service, connection, pending call and queued message keeps its type, for any
\* number of browsers.
THEOREM TypeCorrect == Spec => []TypeOK
  BY InitType, NextType, PTL DEF Spec

-----------------------------------------------------------------------------
(* The connections of one client.                                          *)

Clean == Clients \ overtaken

\* The open connections of client c among the connections P.
Mine(P, c) == {p \in Pcs : P[p].open /\ P[p].owner = c}

\* The sessions client c has a described connection to.
Spoken(P, c) == {P[p].to : p \in {q \in Mine(P, c) : P[q].remote # 0}}

\* The connection p offers, or is about to: among the calls O is one that makes an offer.
Calling(P, O, p) == P[p].offering \/ \E o \in O : o.kind = "createOffer" /\ o.pc = p

\* Client c, whose manager is m and whose session is s, keeps its connections P as it
\* should and plays the sessions L: all are its manager's, each to another session,
\* those that are described are audible, and it only calls larger ids than its own.
Kept(P, O, c, m, s, L) ==
  /\ \A p \in Mine(P, c) : P[p].manager = m /\ m # 0
  /\ \A p, q \in Mine(P, c) : P[p].to = P[q].to => p = q
  /\ L = Spoken(P, c)
  /\ \A p \in Mine(P, c) : Calling(P, O, p) => s < P[p].to

\* Two states of a connection between which nothing that Kept looks at has changed.
Alike(a, b) ==
  /\ a.manager = b.manager /\ a.to = b.to /\ a.remote = b.remote
  /\ a.offering = b.offering

\* Without a manager there is no connection and nobody is audible.
LEMMA NobodyKept ==
  ASSUME NEW P, NEW O, NEW c, NEW m, NEW s, NEW L
  PROVE  /\ Kept(P, O, c, 0, s, L) => Mine(P, c) = {} /\ L = {}
         /\ Mine(P, c) = {} /\ L = {} => Kept(P, O, c, m, s, L)
BY DEF Kept, Spoken

\* What others do to their connections, and what changes in those of c but Kept does
\* not look at.
LEMMA SameKept ==
  ASSUME NEW P, NEW Q, NEW O, NEW N, NEW c, NEW m, NEW s, NEW L,
         Kept(P, O, c, m, s, L),
         Mine(Q, c) = Mine(P, c),
         \A p \in Mine(P, c) : Alike(P[p], Q[p]),
         \A o \in N : o.kind = "createOffer" /\ o.pc \in Mine(P, c) => o \in O
  PROVE  Kept(Q, N, c, m, s, L)
<1>1. Spoken(Q, c) = Spoken(P, c)
  BY DEF Spoken, Alike
<1>2. \A p \in Mine(P, c) : Calling(Q, N, p) => Calling(P, O, p)
  BY DEF Calling, Alike
<1> QED  BY <1>1, <1>2 DEF Kept, Alike

\* Closing connections silences those who were heard through them.
LEMMA CloseKept ==
  ASSUME NEW P, NEW O, NEW c, NEW m, NEW s, NEW L, NEW D \in SUBSET Mine(P, c),
         Kept(P, O, c, m, s, L)
  PROVE  Kept([p \in Pcs |-> IF p \in D THEN NoPc ELSE P[p]], O, c, m, s,
              L \ {P[p].to : p \in D})
<1> DEFINE Q == [p \in Pcs |-> IF p \in D THEN NoPc ELSE P[p]]
<1>1. Mine(Q, c) = Mine(P, c) \ D
  BY DEF Mine, NoPc
<1>2. \A p \in Mine(Q, c) : Q[p] = P[p] /\ p \in Mine(P, c)
  BY <1>1 DEF Mine
<1> HIDE DEF Q
<1>3. Spoken(Q, c) = L \ {P[p].to : p \in D}
  BY <1>1, <1>2 DEF Spoken, Kept
<1>4. \A p \in Mine(Q, c) : Calling(Q, O, p) => Calling(P, O, p)
  BY <1>2 DEF Calling
<1>5. Kept(Q, O, c, m, s, L \ {P[p].to : p \in D})
  BY <1>2, <1>3, <1>4 DEF Kept
<1> QED  BY <1>5 DEF Q

LEMMA NewPcFields ==
  ASSUME NEW c, NEW m, NEW s
  PROVE  /\ NewPc(c, m, s).open /\ NewPc(c, m, s).owner = c /\ NewPc(c, m, s).manager = m
         /\ NewPc(c, m, s).to = s /\ NewPc(c, m, s).remote = 0
         /\ ~NewPc(c, m, s).offering
BY DEF NewPc

\* New connections, each to a session there was none to, and calls only upwards.
LEMMA CreateKept ==
  ASSUME NEW P, NEW O, NEW N, NEW c, NEW m, NEW s, NEW L, NEW S, NEW id \in [S -> Pcs],
         Kept(P, O, c, m, s, L), m # 0,
         \A t, u \in S : id[t] = id[u] => t = u,
         \A t \in S : ~P[id[t]].open,
         \A t \in S : \A o \in O : o.pc # id[t],
         \A t \in S : \A p \in Mine(P, c) : P[p].to # t,
         \A o \in N : o.kind = "createOffer" => o \in O \/ \E t \in S : o.pc = id[t] /\ s < t
  PROVE  Kept(CreatePeers(P, c, m, S, id), N, c, m, s, L)
<1> DEFINE Q == CreatePeers(P, c, m, S, id)
           New == {id[t] : t \in S}
<1>1. /\ \A t \in S : Q[id[t]] = NewPc(c, m, t)
      /\ \A p \in Pcs \ New : Q[p] = P[p]
  BY CreatedPeers
<1> HIDE DEF Q
<1>0. \A t \in S : Q[id[t]].open /\ Q[id[t]].owner = c
  BY <1>1, NewPcFields
<1>2. Mine(Q, c) = Mine(P, c) \cup New /\ Mine(P, c) \cap New = {}
  <2>1. New \subseteq Pcs /\ \A p \in New : Q[p].open /\ Q[p].owner = c /\ ~P[p].open
    BY <1>0
  <2>2. \A p \in Pcs \ New : Q[p] = P[p]
    BY <1>1
  <2> HIDE DEF New
  <2> QED  BY <2>1, <2>2 DEF Mine
<1>3. \A p \in Mine(P, c) : Q[p] = P[p]
  BY <1>1, <1>2 DEF Mine
<1>4. \A t \in S : /\ Q[id[t]].manager = m /\ Q[id[t]].to = t /\ Q[id[t]].remote = 0
                   /\ ~Q[id[t]].offering
  BY <1>1, NewPcFields
<1>5. Spoken(Q, c) = L
  BY <1>2, <1>3, <1>4 DEF Spoken, Kept
<1>6. \A p, q \in Mine(Q, c) : Q[p].to = Q[q].to => p = q
  BY <1>2, <1>3, <1>4 DEF Kept
<1>7. \A p \in Mine(P, c) : Calling(Q, N, p) => Calling(P, O, p)
  BY <1>2, <1>3 DEF Calling
<1>8. \A t \in S : Calling(Q, N, id[t]) => s < t
  BY <1>4 DEF Calling
<1>9. Kept(Q, N, c, m, s, L)
  BY <1>2, <1>3, <1>4, <1>5, <1>6, <1>7, <1>8 DEF Kept
<1> QED  BY <1>9 DEF Q

\* A connection that gets its description, and with it an audio element.
LEMMA DescribeKept ==
  ASSUME NEW P, NEW Q, NEW O, NEW c, NEW m, NEW s, NEW L, NEW p \in Mine(P, c),
         Kept(P, O, c, m, s, L),
         Mine(Q, c) = Mine(P, c),
         \A q \in Mine(P, c) \ {p} : Q[q] = P[q],
         Q[p].manager = P[p].manager, Q[p].to = P[p].to, Q[p].remote # 0, ~Q[p].offering
  PROVE  Kept(Q, O, c, m, s, L \cup {P[p].to})
<1>1. Spoken(Q, c) = L \cup {P[p].to}
  BY DEF Spoken, Kept
<1>2. \A q \in Mine(P, c) : Calling(Q, O, q) => Calling(P, O, q)
  BY DEF Calling
<1> QED  BY <1>1, <1>2 DEF Kept

\* A call that has made its offer leaves an offering connection.
LEMMA OfferKept ==
  ASSUME NEW P, NEW Q, NEW O, NEW c, NEW m, NEW s, NEW L, NEW o \in O,
         Kept(P, O, c, m, s, L), o.kind = "createOffer",
         Mine(Q, c) = Mine(P, c),
         \A q \in Mine(P, c) \ {o.pc} : Q[q] = P[q],
         Q[o.pc].manager = P[o.pc].manager, Q[o.pc].to = P[o.pc].to,
         Q[o.pc].remote = P[o.pc].remote
  PROVE  Kept(Q, O \ {o}, c, m, s, L)
<1>1. \A q \in Mine(P, c) : /\ Q[q].manager = P[q].manager /\ Q[q].to = P[q].to
                            /\ Q[q].remote = P[q].remote
  OBVIOUS
<1>2. Spoken(Q, c) = Spoken(P, c)
  BY <1>1 DEF Spoken
<1>3. \A q \in Mine(P, c) : Calling(Q, O \ {o}, q) => Calling(P, O, q)
  BY DEF Calling
<1> QED  BY <1>1, <1>2, <1>3 DEF Kept

-----------------------------------------------------------------------------
(* What is on its way to a client.                                         *)

Admission(msg) == msg.type \in {"connected", "denied"}

\* Nothing follows the notice that the server has closed the connection, and with it
\* the session is gone.
Lined(queue, session) ==
  \A i \in 1..Len(queue) : queue[i].type = "disconnect" => i = Len(queue) /\ session = 0

\* At most one answer to client:join is on its way, and only while the page waits for it.
Admitted(queue, status) ==
  \A i, j \in 1..Len(queue) :
    Admission(queue[i]) => status = "connecting" /\ (Admission(queue[j]) => i = j)

Plain(msg) == ~Admission(msg) /\ msg.type # "disconnect"

LEMMA EmptyLine ==
  ASSUME NEW session, NEW status
  PROVE  Lined(<<>>, session) /\ Admitted(<<>>, status)
BY DEF Lined, Admitted

\* Lists and signals go to those who have a session.
LEMMA PlainLine ==
  ASSUME NEW queue \in Seq(Messages), NEW more \in Seq(Messages),
         \A i \in 1..Len(more) : Plain(more[i]), NEW session, NEW status,
         more = <<>> \/ session # 0
  PROVE  /\ Lined(queue, session) => Lined(queue \o more, session)
         /\ Admitted(queue, status) => Admitted(queue \o more, status)
<1>1. /\ Len(queue \o more) = Len(queue) + Len(more)
      /\ \A i \in 1..Len(queue) : (queue \o more)[i] = queue[i]
      /\ \A i \in 1..Len(queue \o more) : i > Len(queue) => Plain((queue \o more)[i])
  OBVIOUS
<1>2. Len(queue) \in Nat /\ Len(more) \in Nat /\ (more = <<>> => queue \o more = queue)
  OBVIOUS
<1> DEFINE all == queue \o more
<1>3. /\ Len(all) = Len(queue) + Len(more)
      /\ \A i \in 1..Len(queue) : all[i] = queue[i]
      /\ \A i \in 1..Len(all) : i > Len(queue) => Plain(all[i])
  BY <1>1
<1> HIDE DEF all
<1>4. \A i \in 1..Len(all) : ~Plain(all[i]) => i \in 1..Len(queue) /\ all[i] = queue[i]
  BY <1>2, <1>3
<1>5. ASSUME Lined(queue, session)  PROVE Lined(all, session)
  <2>1. CASE more = <<>>
    BY <1>2, <1>5, <2>1 DEF all
  <2>2. CASE session # 0
    BY <1>4, <1>5, <2>2 DEF Lined, Plain
  <2> QED  BY <2>1, <2>2
<1>6. ASSUME Admitted(queue, status)  PROVE Admitted(all, status)
  BY <1>4, <1>6 DEF Admitted, Plain
<1> QED  BY <1>5, <1>6 DEF all

\* The first message is taken.
LEMMA ShorterLine ==
  ASSUME NEW queue \in Seq(Messages), queue # <<>>, NEW session, NEW status, NEW next
  PROVE  /\ Lined(queue, session) => Lined(Tail(queue), session)
         /\ Admitted(queue, status) => Admitted(Tail(queue), status)
         /\ Admitted(queue, status) /\ Admission(Head(queue)) => Admitted(Tail(queue), next)
         /\ Admitted(queue, status) /\ status # "connecting" => Admitted(Tail(queue), next)
         /\ Lined(queue, session) /\ Head(queue).type = "disconnect" => Tail(queue) = <<>>
<1> DEFINE rest == Tail(queue)
<1>0. rest \in Seq(Messages) /\ Len(queue) \in Nat \ {0} /\ Len(rest) = Len(queue) - 1
  OBVIOUS
<1>1. /\ Len(queue) \in Nat \ {0} /\ Len(rest) = Len(queue) - 1 /\ Head(queue) = queue[1]
      /\ \A i \in 1..Len(rest) : i + 1 \in 1..Len(queue) /\ rest[i] = queue[i + 1]
      /\ Len(rest) = 0 => rest = <<>>
  <2>1. \A i \in 1..Len(rest) : rest[i] = queue[i + 1]
    OBVIOUS
  <2>2. Head(queue) = queue[1]
    OBVIOUS
  <2> HIDE DEF rest
  <2>3. Len(rest) = 0 => rest = <<>>
    BY <1>0
  <2> QED  BY <1>0, <2>1, <2>2, <2>3
<1> HIDE DEF rest
<1>2. Lined(queue, session) => Lined(rest, session)
  <2> SUFFICES ASSUME Lined(queue, session), NEW i \in 1..Len(rest),
                      rest[i].type = "disconnect"
               PROVE  i = Len(rest) /\ session = 0
    BY DEF Lined
  <2>1. i + 1 \in 1..Len(queue) /\ queue[i + 1].type = "disconnect"
    BY <1>1
  <2>2. i + 1 = Len(queue) /\ session = 0
    BY <2>1 DEF Lined
  <2> QED  BY <1>1, <2>2
<1>3. ASSUME Admitted(queue, status)  PROVE Admitted(rest, status)
  <2> SUFFICES ASSUME NEW i \in 1..Len(rest), NEW j \in 1..Len(rest), Admission(rest[i])
               PROVE  status = "connecting" /\ (Admission(rest[j]) => i = j)
    BY DEF Admitted
  <2>1. i + 1 \in 1..Len(queue) /\ j + 1 \in 1..Len(queue)
        /\ rest[i] = queue[i + 1] /\ rest[j] = queue[j + 1]
    BY <1>1
  <2>2. status = "connecting" /\ (Admission(queue[j + 1]) => i + 1 = j + 1)
    BY <1>3, <2>1 DEF Admitted
  <2> QED  BY <2>1, <2>2
<1>4. ASSUME Admitted(queue, status), Admission(queue[1]) \/ status # "connecting"
      PROVE  Admitted(rest, next)
  <2> SUFFICES ASSUME NEW i \in 1..Len(rest), Admission(rest[i])  PROVE FALSE
    BY DEF Admitted
  <2>1. i + 1 \in 1..Len(queue) /\ 1 \in 1..Len(queue) /\ rest[i] = queue[i + 1] /\ i + 1 # 1
    BY <1>1
  <2> QED  BY <1>4, <2>1 DEF Admitted
<1>5. Lined(queue, session) /\ queue[1].type = "disconnect" => Len(rest) = 0
  BY <1>1 DEF Lined
<1> QED  BY <1>1, <1>2, <1>3, <1>4, <1>5 DEF rest

CutOffLine(queue) == \E i \in 1..Len(queue) : queue[i].type = "disconnect"

\* An answer to client:join.
LEMMA AdmissionLine ==
  ASSUME NEW queue \in Seq(Messages), NEW msg \in Messages, Admission(msg),
         ~CutOffLine(queue), NEW status, NEW now
  PROVE  /\ queue \o <<msg>> \in Seq(Messages) /\ ~CutOffLine(queue \o <<msg>>)
         /\ Admitted(queue, status) /\ status # "connecting" /\ now = "connecting"
              => Admitted(queue \o <<msg>>, now)
<1> DEFINE all == queue \o <<msg>>
           n == Len(queue)
<1>1. <<msg>> \in Seq(Messages) /\ Len(<<msg>>) = 1
  OBVIOUS
<1>2. all \in Seq(Messages) /\ n \in Nat
  BY <1>1
<1>3. Len(all) = n + 1 /\ all[n + 1] = msg /\ \A i \in 1..n : all[i] = queue[i]
  BY <1>1
<1> HIDE DEF all
<1>4. \A i \in 1..Len(all) : (i \in 1..n /\ all[i] = queue[i]) \/ (i = n + 1 /\ all[i] = msg)
  BY <1>2, <1>3
<1>5. ~CutOffLine(all)
  BY <1>4 DEF CutOffLine, Admission
<1>6. ASSUME Admitted(queue, status), status # "connecting", now = "connecting"
      PROVE  Admitted(all, now)
  <2>1. \A i \in 1..Len(all) : Admission(all[i]) => i = n + 1
    BY <1>4, <1>6 DEF Admitted
  <2> QED  BY <1>6, <2>1 DEF Admitted
<1> QED  BY <1>2, <1>5, <1>6 DEF all

\* The notice that the server has closed the connection.
LEMMA LastLine ==
  ASSUME NEW queue \in Seq(Messages), NEW msg \in Messages, msg.type = "disconnect",
         ~CutOffLine(queue), NEW status
  PROVE  /\ Lined(queue \o <<msg>>, 0)
         /\ Admitted(queue, status) => Admitted(queue \o <<msg>>, status)
<1> DEFINE all == queue \o <<msg>>
           n == Len(queue)
<1>1. <<msg>> \in Seq(Messages) /\ Len(<<msg>>) = 1
  OBVIOUS
<1>2. all \in Seq(Messages) /\ n \in Nat
  BY <1>1
<1>3. Len(all) = n + 1 /\ all[n + 1] = msg /\ \A i \in 1..n : all[i] = queue[i]
  BY <1>1
<1> HIDE DEF all
<1>4. \A i \in 1..Len(all) : (i \in 1..n /\ all[i] = queue[i]) \/ (i = n + 1 /\ all[i] = msg)
  BY <1>2, <1>3
<1>5. Lined(all, 0)
  BY <1>3, <1>4 DEF CutOffLine, Lined
<1>6. Admitted(queue, status) => Admitted(all, status)
  BY <1>4 DEF Admitted, Admission
<1> QED  BY <1>5, <1>6 DEF all

LEMMA OpenLine ==
  ASSUME NEW queue, ~CutOffLine(queue), NEW session
  PROVE  Lined(queue, session)
BY DEF CutOffLine, Lined

CutOffLast == \A c \in Clients : Lined(down[c], online[c])
AdmittedOnce == \A c \in Clean : Admitted(down[c], svc[c].status)

LEMMA OvertakeMarks ==
  ASSUME NEW c, NEW early, Overtake(c, early)
  PROVE  overtaken \subseteq overtaken' /\ (c \notin overtaken' => ~early)
BY DEF Overtake

\* A page that cleans up.
LEMMA CleanedUp ==
  ASSUME TypeOK, NEW c \in Clients, NEW service \in Service, CleanUp(c, service)
  PROVE  /\ \A d \in Clients \ {c} : svc'[d] = svc[d] /\ playing'[d] = playing[d]
         /\ svc'[c].status = service.status /\ svc'[c].sessionId = service.sessionId
         /\ svc'[c].fetching = service.fetching /\ svc'[c].asking = service.asking
         /\ svc'[c].lostStreams = service.lostStreams
         /\ svc'[c].manager = 0 /\ ~svc'[c].localStream /\ playing'[c] = {}
<1>1. /\ svc' = [svc EXCEPT ![c] = [service EXCEPT !.manager = 0, !.localStream = FALSE]]
      /\ playing' = [playing EXCEPT ![c] = {}]
  BY DEF CleanUp
<1>2. svc'[c] = [service EXCEPT !.manager = 0, !.localStream = FALSE]
  BY <1>1 DEF TypeOK
<1> QED  BY <1>1, <1>2 DEF TypeOK, Service

\* One that leaves, or is disposed of.
LEMMA WentAway ==
  ASSUME TypeOK, NEW c \in Clients, NEW disposing \in BOOLEAN, OnDisconnect(c, disposing)
  PROVE  /\ \A d \in Clients \ {c} : svc'[d] = svc[d] /\ playing'[d] = playing[d]
         /\ svc'[c].status = "disconnected"
         /\ svc'[c].fetching = svc[c].fetching /\ svc'[c].asking = svc[c].asking
         /\ svc'[c].lostStreams = svc[c].lostStreams
         /\ svc'[c].manager = 0 /\ ~svc'[c].localStream /\ playing'[c] = {}
         /\ pcs' = Closing(Connections(c, svc[c].manager)) /\ ops' = ops
         /\ overtaken \subseteq overtaken' /\ (c \notin overtaken' => ~Pending(c))
<1>1. PICK old \in Service : old = svc[c]
  BY DEF TypeOK
<1>2. PICK service \in Service :
        /\ service = [svc[c] EXCEPT !.status = "disconnected", !.sessionId = 0,
                                    !.disposed = disposing]
        /\ service.status = "disconnected" /\ service.fetching = svc[c].fetching
        /\ service.asking = svc[c].asking /\ service.lostStreams = svc[c].lostStreams
  <2> DEFINE new == [old EXCEPT !.status = "disconnected", !.sessionId = 0,
                                !.disposed = disposing]
  <2>1. new \in Service
    BY DEF Service
  <2>2. /\ new.status = "disconnected" /\ new.fetching = old.fetching
        /\ new.asking = old.asking /\ new.lostStreams = old.lostStreams
    BY DEF Service
  <2> QED  BY <1>1, <2>1, <2>2
<1>3. CleanUp(c, service) /\ Overtake(c, Pending(c))
  BY <1>2 DEF OnDisconnect
<1> QED  BY <1>2, <1>3, CleanedUp, OvertakeMarks DEF CleanUp

\* join() cleans up first.
LEMMA Joined ==
  ASSUME TypeOK, NEW c \in Clients, Join(c)
  PROVE  /\ \A d \in Clients \ {c} : svc'[d] = svc[d] /\ playing'[d] = playing[d]
         /\ svc'[c].status = "connecting"
         /\ svc'[c].fetching = svc[c].fetching /\ svc'[c].asking = svc[c].asking
         /\ svc'[c].lostStreams = svc[c].lostStreams
         /\ svc'[c].manager = 0 /\ ~svc'[c].localStream /\ playing'[c] = {}
         /\ pcs' = Closing(Connections(c, svc[c].manager)) /\ ops' = ops
         /\ overtaken \subseteq overtaken'
         /\ c \notin overtaken' => ~Pending(c) /\ svc[c].status # "connecting"
<1>1. PICK old \in Service : old = svc[c]
  BY DEF TypeOK
<1>2. PICK service \in Service :
        /\ service = [svc[c] EXCEPT !.status = "connecting"]
        /\ service.status = "connecting" /\ service.fetching = svc[c].fetching
        /\ service.asking = svc[c].asking /\ service.lostStreams = svc[c].lostStreams
  <2> DEFINE new == [old EXCEPT !.status = "connecting"]
  <2>1. new \in Service
    BY DEF Service
  <2>2. /\ new.status = "connecting" /\ new.fetching = old.fetching
        /\ new.asking = old.asking /\ new.lostStreams = old.lostStreams
    BY DEF Service
  <2> QED  BY <1>1, <2>1, <2>2
<1>3. CleanUp(c, service) /\ Overtake(c, Pending(c) \/ svc[c].status = "connecting")
  BY <1>2 DEF Join
<1> QED  BY <1>2, <1>3, CleanedUp, OvertakeMarks DEF CleanUp

LEMMA Retried ==
  ASSUME TypeOK, NEW c \in Clients, RetryWithForceReplace(c)
  PROVE  /\ \A d \in Clients \ {c} : svc'[d] = svc[d]
         /\ svc[c].status = "denied" /\ svc'[c].status = "connecting"
         /\ svc'[c].sessionId = svc[c].sessionId
         /\ svc'[c].fetching = svc[c].fetching /\ svc'[c].asking = svc[c].asking
         /\ svc'[c].lostStreams = svc[c].lostStreams
         /\ svc'[c].manager = svc[c].manager /\ svc'[c].localStream = svc[c].localStream
<1>1. PICK old \in Service : old = svc[c]
  BY DEF TypeOK
<1>2. svc' = [svc EXCEPT ![c] = [old EXCEPT !.status = "connecting"]]
  BY <1>1 DEF RetryWithForceReplace, TypeOK
<1>3. svc'[c] = [old EXCEPT !.status = "connecting"]
  BY <1>2 DEF TypeOK
<1> QED  BY <1>1, <1>2, <1>3 DEF RetryWithForceReplace, TypeOK, Service

LEMMA Welcomed ==
  ASSUME TypeOK, NEW c \in Clients, NEW msg \in Messages, OnConnected(c, msg)
  PROVE  /\ \A d \in Clients \ {c} : svc'[d] = svc[d]
         /\ svc'[c].status = "connected" /\ svc'[c].sessionId = msg.id
         /\ svc'[c].fetching = svc[c].fetching + (IF svc[c].manager = 0 THEN 1 ELSE 0)
         /\ svc'[c].asking = svc[c].asking /\ svc'[c].lostStreams = svc[c].lostStreams
         /\ svc'[c].manager = svc[c].manager /\ svc'[c].localStream = svc[c].localStream
         /\ overtaken \subseteq overtaken' /\ (c \notin overtaken' => ~Pending(c))
<1>1. PICK old \in Service : old = svc[c]
  BY DEF TypeOK
<1>2. PICK n : n = svc[c].fetching + (IF svc[c].manager = 0 THEN 1 ELSE 0)
  OBVIOUS
<1>3. svc' = [svc EXCEPT ![c] = [old EXCEPT !.status = "connected", !.sessionId = msg.id,
                                             !.fetching = n]]
  BY <1>1, <1>2 DEF OnConnected, TypeOK
<1>4. svc'[c] = [old EXCEPT !.status = "connected", !.sessionId = msg.id, !.fetching = n]
  BY <1>3 DEF TypeOK
<1>5. \A d \in Clients \ {c} : svc'[d] = svc[d]
  BY <1>3 DEF TypeOK
<1>6. /\ svc'[c].status = "connected" /\ svc'[c].sessionId = msg.id
      /\ svc'[c].fetching = n /\ svc'[c].asking = old.asking
      /\ svc'[c].lostStreams = old.lostStreams
      /\ svc'[c].manager = old.manager /\ svc'[c].localStream = old.localStream
  BY <1>4 DEF Service
<1>7. overtaken \subseteq overtaken' /\ (c \notin overtaken' => ~Pending(c))
  BY OvertakeMarks DEF OnConnected
<1> QED  BY <1>1, <1>2, <1>5, <1>6, <1>7

LEMMA TurnedAway ==
  ASSUME TypeOK, NEW c \in Clients, OnDenied(c)
  PROVE  /\ \A d \in Clients \ {c} : svc'[d] = svc[d]
         /\ svc'[c].status = "denied"
         /\ svc'[c].fetching = svc[c].fetching /\ svc'[c].asking = svc[c].asking
         /\ svc'[c].lostStreams = svc[c].lostStreams
         /\ svc'[c].manager = svc[c].manager /\ svc'[c].localStream = svc[c].localStream
<1>1. PICK old \in Service : old = svc[c]
  BY DEF TypeOK
<1>2. svc' = [svc EXCEPT ![c] = [old EXCEPT !.status = "denied", !.sessionId = 0]]
  BY <1>1 DEF OnDenied, TypeOK
<1>3. svc'[c] = [old EXCEPT !.status = "denied", !.sessionId = 0]
  BY <1>2 DEF TypeOK
<1> QED  BY <1>1, <1>2, <1>3 DEF Service, TypeOK

-----------------------------------------------------------------------------
(* The set-up.                                                             *)

\* At most one set-up is under way, only while connected, and until it completes there
\* is neither a manager nor a stream; no stream is ever lost.
SetUp(service) ==
  /\ service.fetching + service.asking <= 1
  /\ service.fetching + service.asking = 1 \/ service.status # "connected"
       => service.manager = 0 /\ ~service.localStream
  /\ service.status # "connected" => service.fetching + service.asking = 0
  /\ service.lostStreams = 0

SetUpOnce == \A c \in Clean : SetUp(svc[c])

\* The steps of a set-up, which is the only one.
LEMMA SetUpMoves ==
  ASSUME TypeOK, NEW c \in Clients,
         IceServersFetched(c) \/ MicrophoneGranted(c) \/ MicrophoneDenied(c)
  PROVE  /\ \A d \in Clients \ {c} : svc'[d] = svc[d]
         /\ svc'[c].status = svc[c].status /\ svc'[c].sessionId = svc[c].sessionId
         /\ SetUp(svc[c]) => SetUp(svc'[c]) /\ svc[c].manager = 0
<1>1. PICK old \in Service : old = svc[c] /\ old.fetching \in Nat /\ old.asking \in Nat
  BY StatusFields DEF TypeOK
<1>2. PICK fewer \in Int, less \in Int, more \in Int :
        fewer = old.fetching - 1 /\ less = old.asking - 1 /\ more = old.asking + 1
  <2>1. /\ old.fetching - 1 \in Int
        /\ old.asking - 1 \in Int
        /\ old.asking + 1 \in Int
    BY <1>1
  <2> USE <2>1
  <2> WITNESS old.fetching - 1 \in Int, old.asking - 1 \in Int, old.asking + 1 \in Int
  <2> QED  OBVIOUS
<1>3. CASE IceServersFetched(c) /\ svc[c].localStream
  <2>1. ~SetUp(old)
    BY <1>1, <1>3 DEF IceServersFetched, SetUp
  <2>2. svc' = [svc EXCEPT ![c] = NewManager([old EXCEPT !.fetching = fewer])]
    BY <1>1, <1>2, <1>3 DEF IceServersFetched, TypeOK
  <2>3. svc'[c] = NewManager([old EXCEPT !.fetching = fewer])
    BY <2>2 DEF TypeOK
  <2>4. svc'[c].status = old.status /\ svc'[c].sessionId = old.sessionId
    BY <2>3 DEF NewManager, Service
  <2> QED  BY <1>1, <2>1, <2>2, <2>4
<1>4. CASE IceServersFetched(c) /\ ~svc[c].localStream
  <2>1. svc' = [svc EXCEPT ![c] = [old EXCEPT !.fetching = fewer, !.asking = more]]
    BY <1>1, <1>2, <1>4 DEF IceServersFetched, TypeOK, Service
  <2>2. svc'[c] = [old EXCEPT !.fetching = fewer, !.asking = more]
    BY <2>1 DEF TypeOK
  <2>3. /\ svc'[c].status = old.status /\ svc'[c].sessionId = old.sessionId
        /\ svc'[c].fetching = fewer /\ svc'[c].asking = more
        /\ svc'[c].manager = old.manager /\ svc'[c].localStream = old.localStream
        /\ svc'[c].lostStreams = old.lostStreams
    BY <2>2 DEF Service
  <2>4. old.fetching > 0
    BY <1>1, <1>4 DEF IceServersFetched
  <2>5. fewer + more = old.fetching + old.asking
    BY <1>1, <1>2
  <2>6. SetUp(old) => SetUp(svc'[c]) /\ old.manager = 0
    BY <1>1, <2>3, <2>4, <2>5 DEF SetUp
  <2> QED  BY <1>1, <2>1, <2>3, <2>6
<1>5. CASE MicrophoneGranted(c)
  <2>1. PICK lost : lost = IF old.localStream THEN old.lostStreams + 1 ELSE old.lostStreams
    OBVIOUS
  <2>2. svc' = [svc EXCEPT ![c] = NewManager([old EXCEPT !.asking = less,
                  !.localStream = TRUE, !.lostStreams = lost])]
    BY <1>1, <1>2, <1>5, <2>1 DEF MicrophoneGranted, Service
  <2>3. svc'[c] = NewManager([old EXCEPT !.asking = less,
                    !.localStream = TRUE, !.lostStreams = lost])
    BY <2>2 DEF TypeOK
  <2>4. /\ svc'[c].status = old.status /\ svc'[c].sessionId = old.sessionId
        /\ svc'[c].fetching = old.fetching /\ svc'[c].asking = less
        /\ svc'[c].lostStreams = lost
    BY <2>3 DEF NewManager, Service
  <2>5. old.asking > 0
    BY <1>1, <1>5 DEF MicrophoneGranted
  <2>6. SetUp(old) => SetUp(svc'[c]) /\ old.manager = 0
    <3> HAVE SetUp(old)
    <3>1. old.fetching = 0 /\ old.asking = 1 /\ less = 0
      BY <1>1, <1>2, <2>5 DEF SetUp
    <3>2. old.status = "connected" /\ ~old.localStream /\ old.manager = 0
      BY <3>1 DEF SetUp
    <3> QED  BY <2>1, <2>4, <3>1, <3>2 DEF SetUp
  <2> QED  BY <1>1, <2>2, <2>4, <2>6
<1>6. CASE MicrophoneDenied(c)
  <2>1. svc' = [svc EXCEPT ![c] = [old EXCEPT !.asking = less]]
    BY <1>1, <1>2, <1>6 DEF MicrophoneDenied, TypeOK
  <2>2. svc'[c] = [old EXCEPT !.asking = less]
    BY <2>1 DEF TypeOK
  <2>3. /\ svc'[c].status = old.status /\ svc'[c].sessionId = old.sessionId
        /\ svc'[c].fetching = old.fetching /\ svc'[c].asking = less
        /\ svc'[c].manager = old.manager /\ svc'[c].localStream = old.localStream
        /\ svc'[c].lostStreams = old.lostStreams
    BY <2>2 DEF Service
  <2>4. old.asking > 0
    BY <1>1, <1>6 DEF MicrophoneDenied
  <2>5. SetUp(old) => SetUp(svc'[c]) /\ old.manager = 0
    <3> HAVE SetUp(old)
    <3>1. old.fetching = 0 /\ old.asking = 1 /\ less = 0
      BY <1>1, <1>2, <2>4 DEF SetUp
    <3>2. old.status = "connected" /\ ~old.localStream /\ old.manager = 0
      BY <3>1 DEF SetUp
    <3> QED  BY <2>3, <3>1, <3>2 DEF SetUp
  <2> QED  BY <1>1, <2>1, <2>3, <2>5
<1> QED  BY <1>3, <1>4, <1>5, <1>6

-----------------------------------------------------------------------------
(* Joining.                                                                *)

Admitting == CutOffLast /\ AdmittedOnce /\ SetUpOnce

\* A step that concerns one client.
LEMMA OneAdmitting ==
  ASSUME Admitting, NEW c \in Clients, overtaken \subseteq overtaken',
         \A d \in Clients \ {c} :
           down'[d] = down[d] /\ online'[d] = online[d] /\ svc'[d] = svc[d],
         Lined(down'[c], online'[c]),
         c \notin overtaken' =>
           Admitted(down'[c], svc'[c].status) /\ SetUp(svc'[c])
  PROVE  Admitting'
BY DEF Admitting, CutOffLast, AdmittedOnce, SetUpOnce, Clean

\* The server lets a client in.
LEMMA AdmitLine ==
  ASSUME TypeOK, NEW c \in Clients, ~CutOff(c), NEW status,
         \/ online[c] = 0 /\ Admit(c, <<>>)
         \/ Admit(c, IF online[c] = 0 THEN <<>> ELSE <<Msg("disconnect", 0, 0, {})>>)
  PROVE  /\ \A d \in Clients \ {c} : down'[d] = down[d] /\ online'[d] = online[d]
         /\ Lined(down'[c], online'[c])
         /\ Admitted(down[c], status) /\ status # "connecting"
              => Admitted(down'[c], "connecting")
<1>1. PICK s \in SessionIds, bye \in BOOLEAN :
        /\ online' = [online EXCEPT ![c] = IF bye THEN 0 ELSE s]
        /\ down' = [down EXCEPT ![c] = IF bye
             THEN @ \o <<Msg("connected", s, 0, {})>> \o <<Msg("disconnect", 0, 0, {})>>
             ELSE @ \o <<Msg("connected", s, 0, {})>> \o <<>>]
  <2>1. <<Msg("disconnect", 0, 0, {})>> # <<>>
    OBVIOUS
  <2>2. ASSUME Admit(c, <<>>)
        PROVE  \E s \in SessionIds :
                 /\ online' = [online EXCEPT ![c] = s]
                 /\ down' = [down EXCEPT ![c] = @ \o <<Msg("connected", s, 0, {})>> \o <<>>]
    BY <2>2 DEF Admit
  <2>3. ASSUME Admit(c, <<Msg("disconnect", 0, 0, {})>>)
        PROVE  \E s \in SessionIds :
                 /\ online' = [online EXCEPT ![c] = 0]
                 /\ down' = [down EXCEPT ![c] = @ \o <<Msg("connected", s, 0, {})>>
                                                  \o <<Msg("disconnect", 0, 0, {})>>]
    BY <2>1, <2>3 DEF Admit
  <2>4. CASE Admit(c, <<>>)
    BY <2>2, <2>4
  <2>5. CASE Admit(c, <<Msg("disconnect", 0, 0, {})>>)
    BY <2>3, <2>5
  <2> QED  BY <2>4, <2>5
<1>2. PICK hello \in Messages, end \in Messages :
        /\ hello = Msg("connected", s, 0, {}) /\ Admission(hello)
        /\ end = Msg("disconnect", 0, 0, {}) /\ end.type = "disconnect"
  BY MsgType DEF Msg, Admission
<1>3. PICK queue \in Seq(Messages) : queue = down[c] /\ ~CutOffLine(queue)
  BY DEF TypeOK, CutOff, CutOffLine
<1>4. PICK longer \in Seq(Messages) :
        /\ longer = queue \o <<hello>> /\ ~CutOffLine(longer)
        /\ Admitted(queue, status) /\ status # "connecting" => Admitted(longer, "connecting")
  BY <1>2, <1>3, AdmissionLine
<1>5. CASE bye
  <2>1. down'[c] = longer \o <<end>> /\ online'[c] = 0
    BY <1>1, <1>2, <1>3, <1>4, <1>5 DEF TypeOK
  <2> QED  BY <1>1, <1>2, <1>3, <1>4, <2>1, LastLine DEF TypeOK
<1>6. CASE ~bye
  <2>1. longer \o <<>> = longer
    OBVIOUS
  <2>2. down'[c] = longer
    BY <1>1, <1>2, <1>3, <1>4, <1>6, <2>1 DEF TypeOK
  <2> QED  BY <1>1, <1>3, <1>4, <2>2, OpenLine DEF TypeOK
<1> QED  BY <1>5, <1>6

\* What the server answers to client:join, if it hears it.
LEMMA ServerLine ==
  ASSUME TypeOK, CutOffLast, NEW c \in Clients, GatewayJoin(c) \/ GatewayRetry(c),
         NEW status
  PROVE  /\ \A d \in Clients \ {c} : down'[d] = down[d] /\ online'[d] = online[d]
         /\ Lined(down'[c], online'[c])
         /\ Admitted(down[c], status) /\ status # "connecting"
              => Admitted(down'[c], "connecting")
<1>1. CASE UNCHANGED <<online, down>>
  BY <1>1 DEF CutOffLast, Admitted
<1>2. CASE ~CutOff(c) /\ \/ online[c] = 0 /\ Admit(c, <<>>)
                         \/ Admit(c, IF online[c] = 0 THEN <<>>
                                     ELSE <<Msg("disconnect", 0, 0, {})>>)
  BY <1>2, AdmitLine
<1>3. CASE /\ ~CutOff(c) /\ online' = online
           /\ down' = [down EXCEPT ![c] = Append(@, Msg("denied", 0, 0, {}))]
  <2>1. PICK queue \in Seq(Messages), msg \in Messages :
          /\ queue = down[c] /\ ~CutOffLine(queue)
          /\ msg = Msg("denied", 0, 0, {}) /\ Admission(msg)
    BY <1>3, MsgType DEF TypeOK, CutOff, CutOffLine, Msg, Admission
  <2>2. Append(queue, msg) = queue \o <<msg>>
    OBVIOUS
  <2>3. down'[c] = queue \o <<msg>>
    BY <1>3, <2>1, <2>2 DEF TypeOK
  <2>4. ~CutOffLine(queue \o <<msg>>)
        /\ (Admitted(queue, status) /\ status # "connecting"
              => Admitted(queue \o <<msg>>, "connecting"))
    BY <2>1, AdmissionLine
  <2> QED  BY <1>3, <2>1, <2>3, <2>4, OpenLine DEF TypeOK
<1> QED  BY <1>1, <1>2, <1>3 DEF GatewayJoin, GatewayRetry

\* The pages' own steps.
LEMMA PageAdmitting ==
  ASSUME TypeOK, Admitting, NEW c \in Clients,
         \/ Join(c) \/ RetryWithForceReplace(c) \/ Disconnect(c) \/ Dispose(c)
         \/ IceServersFetched(c) \/ MicrophoneGranted(c) \/ MicrophoneDenied(c)
  PROVE  Admitting'
<1>1. /\ Lined(down[c], online[c]) /\ svc[c].fetching \in Nat /\ svc[c].asking \in Nat
      /\ c \notin overtaken => Admitted(down[c], svc[c].status) /\ SetUp(svc[c])
  BY StatusFields DEF TypeOK, Admitting, CutOffLast, AdmittedOnce, SetUpOnce, Clean
<1>2. ~Pending(c) => svc[c].fetching = 0 /\ svc[c].asking = 0
  BY <1>1 DEF Pending
<1>3. CASE Join(c)
  <2>1. GatewayJoin(c)
    BY <1>3 DEF Join
  <2>2. /\ \A d \in Clients \ {c} : down'[d] = down[d] /\ online'[d] = online[d]
        /\ Lined(down'[c], online'[c])
        /\ Admitted(down[c], svc[c].status) /\ svc[c].status # "connecting"
             => Admitted(down'[c], "connecting")
    BY <2>1, ServerLine DEF Admitting
  <2>3. c \notin overtaken' => Admitted(down'[c], svc'[c].status)
    BY <1>1, <1>3, <2>2, Joined
  <2>4. c \notin overtaken' => SetUp(svc'[c])
    BY <1>1, <1>2, <1>3, Joined DEF SetUp
  <2> QED  BY <1>3, <2>2, <2>3, <2>4, Joined, OneAdmitting
<1>4. CASE RetryWithForceReplace(c)
  <2>1. GatewayRetry(c) /\ overtaken' = overtaken
    BY <1>4 DEF RetryWithForceReplace
  <2>2. /\ \A d \in Clients \ {c} : down'[d] = down[d] /\ online'[d] = online[d]
        /\ Lined(down'[c], online'[c])
        /\ Admitted(down[c], svc[c].status) /\ svc[c].status # "connecting"
             => Admitted(down'[c], "connecting")
    BY <2>1, ServerLine DEF Admitting
  <2>3. c \notin overtaken' => Admitted(down'[c], svc'[c].status)
    BY <1>1, <1>4, <2>1, <2>2, Retried
  <2>4. c \notin overtaken' => SetUp(svc'[c])
    BY <1>1, <1>4, <2>1, Retried DEF SetUp
  <2> QED  BY <1>4, <2>1, <2>2, <2>3, <2>4, Retried, OneAdmitting
<1>5. ASSUME NEW disposing \in BOOLEAN, OnDisconnect(c, disposing), c \notin overtaken'
      PROVE  SetUp(svc'[c])
  <2>1. /\ svc'[c].fetching = svc[c].fetching /\ svc'[c].asking = svc[c].asking
        /\ svc'[c].lostStreams = svc[c].lostStreams
        /\ svc'[c].manager = 0 /\ ~svc'[c].localStream /\ c \notin overtaken /\ ~Pending(c)
    BY <1>5, WentAway
  <2> QED  BY <1>1, <1>2, <2>1 DEF SetUp
<1>6. CASE Disconnect(c)
  <2>1. OnDisconnect(c, FALSE)
    BY <1>6 DEF Disconnect
  <2>2. /\ \A d \in Clients \ {c} : down'[d] = down[d] /\ online'[d] = online[d]
        /\ down'[c] = <<>>
    BY <1>6 DEF Disconnect, TypeOK
  <2>3. c \notin overtaken' => SetUp(svc'[c])
    BY <1>5, <2>1
  <2> QED  BY <2>1, <2>2, <2>3, WentAway, EmptyLine, OneAdmitting
<1>7. CASE Dispose(c)
  <2>1. OnDisconnect(c, TRUE) /\ svc[c].status = "connected" /\ UNCHANGED <<online, down>>
    BY <1>7 DEF Dispose
  <2>2. c \notin overtaken' => SetUp(svc'[c])
    BY <1>5, <2>1
  <2>3. c \notin overtaken' => Admitted(down'[c], svc'[c].status)
    BY <1>1, <2>1, WentAway DEF Admitted
  <2> QED  BY <1>1, <2>1, <2>2, <2>3, WentAway, OneAdmitting
<1>8. CASE IceServersFetched(c) \/ MicrophoneGranted(c) \/ MicrophoneDenied(c)
  <2>1. UNCHANGED <<online, down, overtaken>>
    BY <1>8 DEF IceServersFetched, MicrophoneGranted, MicrophoneDenied
  <2> QED  BY <1>1, <1>8, <2>1, SetUpMoves, OneAdmitting
<1> QED
  BY <1>3, <1>4, <1>6, <1>7, <1>8

LEMMA ListPlain ==
  ASSUME TypeOK, NEW c
  PROVE  /\ Msg("nearby", 0, 0, Nearby(c)) \in Messages
         /\ Plain(Msg("nearby", 0, 0, Nearby(c)))
<1>1. Plain(Msg("nearby", 0, 0, Nearby(c)))
  BY DEF Msg, Plain, Admission
<1> QED  BY <1>1, NearbyType, MsgType

\* A message that arrives.
LEMMA DeliverAdmitting ==
  ASSUME TypeOK, Admitting, NEW c \in Clients, Deliver(c)
  PROVE  Admitting'
<1>1. PICK queue \in Seq(Messages), msg \in Messages :
        queue = down[c] /\ queue # <<>> /\ msg = Head(queue)
  BY DEF Deliver, TypeOK
<1>2. /\ down' = [down EXCEPT ![c] = Tail(queue) \o Answers(c, msg)]
      /\ online' = online
      /\ \/ UNCHANGED <<svc, overtaken>>
         \/ msg.type = "connected" /\ OnConnected(c, msg)
         \/ msg.type = "denied" /\ OnDenied(c)
         \/ msg.type = "disconnect" /\ OnDisconnect(c, FALSE)
  BY <1>1 DEF Deliver, OnNearby, OnOffer, OnAnswer, OnCandidate
<1>3. PICK more \in Seq(Messages) :
        /\ more = Answers(c, msg) /\ \A i \in 1..Len(more) : Plain(more[i])
        /\ more = <<>> \/ online[c] # 0
  <2>1. PICK list \in Messages : list = Msg("nearby", 0, 0, Nearby(c)) /\ Plain(list)
    BY ListPlain
  <2>2. CASE Answers(c, msg) = <<>>
    <3>1. PICK none \in Seq(Messages) : none = <<>> /\ Len(none) = 0
      <4>1. <<>> \in Seq(Messages)
        OBVIOUS
      <4>2. Len(<<>>) = 0
        OBVIOUS
      <4> QED  BY <4>1, <4>2, Zenon
    <3>2. \A i \in 1..Len(none) : Plain(none[i])
      BY <3>1
    <3> QED  BY <2>2, <3>1, <3>2
  <2>3. CASE Answers(c, msg) = <<list>> /\ online[c] # 0
    <3>1. <<list>> \in Seq(Messages) /\ \A i \in 1..Len(<<list>>) : Plain(<<list>>[i])
      BY <2>1
    <3> QED  BY <2>3, <3>1
  <2> QED  BY <2>1, <2>2, <2>3 DEF Answers
<1>4. Tail(queue) \in Seq(Messages)
  BY <1>1
<1>5. /\ Lined(queue, online[c]) /\ svc[c].fetching \in Nat /\ svc[c].asking \in Nat
      /\ c \notin overtaken => Admitted(queue, svc[c].status) /\ SetUp(svc[c])
  BY <1>1, StatusFields DEF TypeOK, Admitting, CutOffLast, AdmittedOnce, SetUpOnce, Clean
<1>6. down'[c] = Tail(queue) \o more /\ \A d \in Clients \ {c} : down'[d] = down[d]
  BY <1>2, <1>3 DEF TypeOK
<1>7. Lined(down'[c], online'[c])
  <2>1. Lined(Tail(queue), online[c])
    BY <1>1, <1>5, ShorterLine
  <2>2. Lined(Tail(queue) \o more, online[c])
    BY <1>3, <1>4, <2>1, PlainLine
  <2> QED  BY <1>2, <1>6, <2>2
<1>8. ASSUME NEW status, Admitted(Tail(queue), status)  PROVE Admitted(down'[c], status)
  BY <1>3, <1>4, <1>6, <1>8, PlainLine
<1>9. ASSUME \A d \in Clients \ {c} : svc'[d] = svc[d], overtaken \subseteq overtaken',
             c \notin overtaken' => Admitted(Tail(queue), svc'[c].status) /\ SetUp(svc'[c])
      PROVE  Admitting'
  BY <1>2, <1>6, <1>7, <1>8, <1>9, OneAdmitting
<1>10. c \notin overtaken =>
         /\ Admitted(Tail(queue), svc[c].status)
         /\ Admission(msg) => /\ svc[c].status = "connecting"
                              /\ Admitted(Tail(queue), "connected")
                              /\ Admitted(Tail(queue), "denied")
  <2>1. 1 \in 1..Len(queue) /\ Head(queue) = queue[1]
    BY <1>1
  <2>2. Admission(msg) /\ Admitted(queue, svc[c].status) => svc[c].status = "connecting"
    BY <1>1, <2>1 DEF Admitted
  <2> QED  BY <1>1, <1>5, <2>2, ShorterLine
<1>11. CASE UNCHANGED <<svc, overtaken>>
  BY <1>5, <1>9, <1>10, <1>11
<1>12. CASE msg.type = "connected" /\ OnConnected(c, msg)
  <2> SUFFICES ASSUME c \notin overtaken'
               PROVE  Admitted(Tail(queue), svc'[c].status) /\ SetUp(svc'[c])
    BY <1>9, <1>12, Welcomed
  <2>1. c \notin overtaken /\ ~Pending(c) /\ svc[c].status = "connecting"
    BY <1>10, <1>12, Welcomed DEF Admission
  <2>2. svc[c].fetching = 0 /\ svc[c].asking = 0 /\ SetUp(svc[c])
    BY <1>5, <2>1 DEF Pending
  <2>3. svc[c].manager = 0 /\ ~svc[c].localStream /\ svc[c].lostStreams = 0
    BY <2>1, <2>2 DEF SetUp
  <2>4. /\ svc'[c].status = "connected" /\ svc'[c].fetching = 1 /\ svc'[c].asking = 0
        /\ svc'[c].manager = 0 /\ ~svc'[c].localStream /\ svc'[c].lostStreams = 0
    BY <1>12, <2>2, <2>3, Welcomed
  <2>5. SetUp(svc'[c])
    BY <2>4 DEF SetUp
  <2> QED  BY <1>10, <1>12, <2>1, <2>4, <2>5 DEF Admission
<1>13. CASE msg.type = "denied" /\ OnDenied(c)
  <2>1. overtaken' = overtaken
    BY <1>13 DEF OnDenied
  <2> SUFFICES ASSUME c \notin overtaken
               PROVE  Admitted(Tail(queue), svc'[c].status) /\ SetUp(svc'[c])
    BY <1>9, <1>13, <2>1, TurnedAway
  <2>2. svc[c].status = "connecting" /\ SetUp(svc[c])
    BY <1>5, <1>10, <1>13 DEF Admission
  <2>3. SetUp(svc'[c])
    BY <1>13, <2>2, TurnedAway DEF SetUp
  <2> QED  BY <1>10, <1>13, <2>3, TurnedAway DEF Admission
<1>14. CASE msg.type = "disconnect" /\ OnDisconnect(c, FALSE)
  <2>1. Tail(queue) = <<>>
    BY <1>1, <1>5, <1>14, ShorterLine
  <2>2. /\ \A d \in Clients \ {c} : svc'[d] = svc[d]
        /\ svc'[c].fetching = svc[c].fetching /\ svc'[c].asking = svc[c].asking
        /\ svc'[c].lostStreams = svc[c].lostStreams
        /\ svc'[c].manager = 0 /\ ~svc'[c].localStream
        /\ overtaken \subseteq overtaken' /\ (c \notin overtaken' => ~Pending(c))
    BY <1>14, WentAway
  <2>3. c \notin overtaken' => SetUp(svc'[c])
    BY <1>5, <2>2 DEF SetUp, Pending
  <2> QED  BY <1>9, <2>1, <2>2, <2>3, EmptyLine
<1> QED  BY <1>2, <1>11, <1>12, <1>13, <1>14

\* Steps that only add lists or signals to what is on its way.
LEMMA GrownAdmitting ==
  ASSUME TypeOK, Admitting, UNCHANGED <<svc, online, overtaken>>,
         \A d \in Clients :
           \/ down'[d] = down[d]
           \/ /\ online[d] # 0
              /\ \E more \in Seq(Messages) :
                   (\A i \in 1..Len(more) : Plain(more[i])) /\ down'[d] = down[d] \o more
  PROVE  Admitting'
<1>1. ASSUME NEW d \in Clients
      PROVE  /\ Lined(down'[d], online[d])
             /\ d \notin overtaken => Admitted(down'[d], svc[d].status)
  <2>1. /\ down[d] \in Seq(Messages) /\ Lined(down[d], online[d])
        /\ d \notin overtaken => Admitted(down[d], svc[d].status)
    BY DEF TypeOK, Admitting, CutOffLast, AdmittedOnce, Clean
  <2> QED  BY <2>1, PlainLine
<1> QED  BY <1>1 DEF Admitting, CutOffLast, AdmittedOnce, SetUpOnce, Clean

LEMMA RelayedSignals ==
  ASSUME TypeOK, NEW c \in Clients, NEW s \in SessionIds, NEW p \in Pcs,
         NEW types \in Seq({"offer", "answer", "candidate"}), Relay(c, s, types, p),
         NEW d \in Clients
  PROVE  \/ down'[d] = down[d]
         \/ /\ online[d] # 0
            /\ \E more \in Seq(Messages) :
                 (\A i \in 1..Len(more) : Plain(more[i])) /\ down'[d] = down[d] \o more
<1> DEFINE more == [i \in 1..Len(types) |-> Msg(types[i], online[c], p, {})]
<1>1. ASSUME online[c] # 0
      PROVE  more \in Seq(Messages) /\ \A i \in 1..Len(more) : Plain(more[i])
  <2>1. online[c] \in SessionIds
    BY <1>1 DEF TypeOK
  <2>2. \A i \in 1..Len(types) : /\ Msg(types[i], online[c], p, {}) \in Messages
                                 /\ Plain(Msg(types[i], online[c], p, {}))
    BY <2>1, MsgType DEF Msg, Plain, Admission
  <2>3. Len(types) \in Nat
    OBVIOUS
  <2> QED  BY <2>2, <2>3
<1> HIDE DEF more
<1>2. down' = [e \in Clients |-> IF online[c] # 0 /\ online[e] = s
                                 THEN down[e] \o more ELSE down[e]]
  BY DEF Relay, more
<1>3. s # 0
  BY IdsAssumption
<1> QED  BY <1>1, <1>2, <1>3

LEMMA SettleAdmitting ==
  ASSUME TypeOK, Admitting, NEW p, Settle(p)
  PROVE  Admitting'
<1>1. PICK o \in Calls :
        /\ OfferCreated(o) \/ OfferAnswered(o) \/ AnswerApplied(o) \/ CallFailed(o)
        /\ UNCHANGED <<svc, online, overtaken>>
  BY DEF Settle, TypeOK
<1>2. o.pc \in Pcs /\ o.owner \in Clients /\ o.to \in SessionIds
  BY DEF Calls
<1>3. CASE down' = down
  BY <1>1, <1>3, GrownAdmitting
<1>4. CASE \E types \in Seq({"offer", "answer", "candidate"}) :
             Relay(o.owner, o.to, types, o.pc)
  BY <1>1, <1>2, <1>4, RelayedSignals, GrownAdmitting
<1>5. /\ <<"offer", "candidate">> \in Seq({"offer", "answer", "candidate"})
      /\ <<"answer", "candidate">> \in Seq({"offer", "answer", "candidate"})
  OBVIOUS
<1> QED
  BY <1>1, <1>3, <1>4, <1>5 DEF OfferCreated, OfferAnswered, AnswerApplied, CallFailed

LEMMA WorldAdmitting ==
  ASSUME TypeOK, Admitting,
         \/ \E p \in Pcs : IceConnects(p) \/ IceFails(p)
         \/ Tick \/ MeetOrPart
  PROVE  Admitting'
<1>1. UNCHANGED <<svc, online, overtaken>>
  BY DEF IceConnects, IceFails, Tick, MeetOrPart
<1>2. CASE down' = down
  BY <1>1, <1>2, GrownAdmitting
<1>3. CASE Tick
  <2> SUFFICES ASSUME NEW d \in Clients, online[d] # 0
               PROVE  \E more \in Seq(Messages) :
                        /\ \A i \in 1..Len(more) : Plain(more[i])
                        /\ down'[d] = down[d] \o more
    BY <1>1, <1>3, GrownAdmitting DEF Tick
  <2>1. PICK queue \in Seq(Messages), msg \in Messages :
          queue = down[d] /\ msg = Msg("nearby", 0, 0, Nearby(d)) /\ Plain(msg)
    BY ListPlain DEF TypeOK
  <2>2. down'[d] = Append(queue, msg)
    BY <1>3, <2>1 DEF Tick
  <2>3. Append(queue, msg) = queue \o <<msg>> /\ <<msg>> \in Seq(Messages)
        /\ \A i \in 1..Len(<<msg>>) : Plain(<<msg>>[i])
    BY <2>1
  <2> QED  BY <2>1, <2>2, <2>3
<1> QED  BY <1>2, <1>3 DEF IceConnects, IceFails, MeetOrPart

LEMMA AdmittingNext == TypeOK /\ Admitting /\ [Next]_vars => Admitting'
<1> SUFFICES ASSUME TypeOK, Admitting, [Next]_vars PROVE Admitting'  OBVIOUS
<1>1. CASE UNCHANGED vars
  BY <1>1 DEF vars, bounds, Admitting, CutOffLast, AdmittedOnce, SetUpOnce, Clean
<1> QED
  BY <1>1, PageAdmitting, DeliverAdmitting, SettleAdmitting, WorldAdmitting DEF Next

-----------------------------------------------------------------------------
(* The connections of all clients.                                         *)

\* The calls O belong to the connections P they were made on.
Match(P, O) ==
  \A o \in O : P[o.pc].open =>
    P[o.pc].owner = o.owner /\ P[o.pc].manager = o.manager /\ P[o.pc].to = o.to

AllKept(P, O, L) ==
  \A c \in Clean : Kept(P, O, c, svc[c].manager, svc[c].sessionId, L[c])

CallsMatch == Match(pcs, ops)
PeersKept == AllKept(pcs, ops, playing)
Connecting == CallsMatch /\ PeersKept

\* Calls that have settled, and new ones that make no offer.
LEMMA OtherCalls ==
  ASSUME NEW P, NEW O, NEW N, NEW L,
         AllKept(P, O, L), \A o \in N : o.kind = "createOffer" => o \in O
  PROVE  AllKept(P, N, L)
BY SameKept DEF AllKept, Alike

\* A connection in which something else changes than what Kept looks at.
LEMMA Retouched ==
  ASSUME NEW P \in [Pcs -> Peer \cup {NoPc}], NEW O, NEW L, NEW p \in Pcs, P[p] \in Peer,
         NEW peer \in Peer, peer.owner = P[p].owner, Alike(P[p], peer)
  PROVE  /\ AllKept(P, O, L) => AllKept([P EXCEPT ![p] = peer], O, L)
         /\ O \subseteq Calls /\ Match(P, O) => Match([P EXCEPT ![p] = peer], O)
<1> DEFINE Q == [P EXCEPT ![p] = peer]
<1>1. Q[p] = peer /\ \A q \in Pcs \ {p} : Q[q] = P[q]
  OBVIOUS
<1> HIDE DEF Q
<1>2. P[p].open /\ peer.open
  BY DEF Peer
<1>3. \A d : Mine(Q, d) = Mine(P, d)
  BY <1>1, <1>2 DEF Mine
<1>4. \A q \in Pcs : Alike(P[q], Q[q])
  BY <1>1 DEF Alike
<1>5. \A d : Mine(P, d) \subseteq Pcs
  BY DEF Mine
<1>6. AllKept(P, O, L) => AllKept(Q, O, L)
  BY <1>3, <1>4, <1>5, SameKept DEF AllKept
<1>7. ASSUME O \subseteq Calls, Match(P, O)  PROVE Match(Q, O)
  <2>1. \A o \in O : o.pc \in Pcs
    BY <1>7 DEF Calls
  <2> QED  BY <1>1, <1>2, <1>7, <2>1 DEF Match, Alike
<1> QED  BY <1>6, <1>7 DEF Q

LEMMA MissedKept ==
  ASSUME NEW P \in [Pcs -> Peer \cup {NoPc}], NEW O, NEW L, NEW p \in Pcs
  PROVE  /\ AllKept(P, O, L) => AllKept(Unanswered(P, p), O, L)
         /\ O \subseteq Calls /\ Match(P, O) => Match(Unanswered(P, p), O)
<1>1. CASE ~P[p].open
  BY <1>1 DEF Unanswered
<1>2. CASE P[p].open
  <2>1. P[p] \in Peer
    BY <1>2 DEF NoPc
  <2>2. PICK peer \in Peer :
          /\ peer = [P[p] EXCEPT !.missed = TRUE]
          /\ peer.owner = P[p].owner /\ Alike(P[p], peer)
    <3> DEFINE new == [P[p] EXCEPT !.missed = TRUE]
    <3>1. new \in Peer
      BY <2>1 DEF Peer
    <3>2. new.owner = P[p].owner /\ Alike(P[p], new)
      BY <2>1 DEF Peer, Alike
    <3> QED  BY <3>1, <3>2
  <2>3. Unanswered(P, p) = [P EXCEPT ![p] = peer]
    BY <1>2, <2>2 DEF Unanswered
  <2>4. /\ AllKept(P, O, L) => AllKept([P EXCEPT ![p] = peer], O, L)
        /\ O \subseteq Calls /\ Match(P, O) => Match([P EXCEPT ![p] = peer], O)
    BY <2>1, <2>2, Retouched
  <2> QED  BY <2>3, <2>4
<1> QED  BY <1>1, <1>2

\* A client that closes connections of its own.
LEMMA ClosingKept ==
  ASSUME TypeOK, Connecting, NEW c \in Clients, NEW D \in SUBSET Mine(pcs, c)
  PROVE  Match(Closing(D), ops) /\ AllKept(Closing(D), ops, Silencing(c, D))
<1>1. \A o \in ops : o.pc \in Pcs
  BY DEF TypeOK, Calls
<1>2. Match(Closing(D), ops)
  BY <1>1 DEF Connecting, CallsMatch, Match, Closing, NoPc
<1>3. ASSUME NEW d \in Clean
      PROVE  Kept(Closing(D), ops, d, svc[d].manager, svc[d].sessionId, Silencing(c, D)[d])
  <2>1. Kept(pcs, ops, d, svc[d].manager, svc[d].sessionId, playing[d]) /\ d \in Clients
    BY DEF Connecting, PeersKept, AllKept, Clean
  <2>2. CASE d = c
    <3>1. Silencing(c, D)[d] = playing[d] \ {pcs[p].to : p \in D}
      BY <2>2 DEF Silencing, TypeOK
    <3> QED  BY <2>1, <2>2, <3>1, CloseKept DEF Closing
  <2>3. CASE d # c
    <3>1. Silencing(c, D)[d] = playing[d]
      BY <2>1, <2>3 DEF Silencing, TypeOK
    <3>2. /\ Mine(Closing(D), d) = Mine(pcs, d)
          /\ \A p \in Mine(pcs, d) : Closing(D)[p] = pcs[p]
      BY <2>3 DEF Mine, Closing, NoPc
    <3>3. \A p \in Mine(pcs, d) : Alike(pcs[p], Closing(D)[p])
      BY <3>2 DEF Alike
    <3> QED  BY <2>1, <3>1, <3>2, <3>3, SameKept
  <2> QED  BY <2>2, <2>3
<1> QED  BY <1>2, <1>3 DEF AllKept

\* Each of the sessions S, to which client c has no connection, gets an identity of its
\* own that neither a connection nor a call has.
Fresh(P, O, c, S, id) ==
  /\ id \in [S -> Pcs]
  /\ \A t, u \in S : id[t] = id[u] => t = u
  /\ \A t \in S : ~P[id[t]].open /\ \A o \in O : o.pc # id[t]
  /\ c \in Clean => \A t \in S : \A p \in Mine(P, c) : P[p].to # t

\* The calls that are not in O make no offer, or one to a session above the client's own.
Upwards(N, O, c, S, id) ==
  \A o \in N : o.kind = "createOffer" =>
    o \in O \/ \E t \in S : o.pc = id[t] /\ svc[c].sessionId < t

\* A client that creates connections.
LEMMA CreatingKept ==
  ASSUME NEW P, NEW O \in SUBSET Calls, NEW N, NEW L, AllKept(P, O, L),
         NEW c \in Clients, NEW m, m = svc[c].manager, m # 0, NEW S, NEW id,
         Fresh(P, O, c, S, id), Upwards(N, O, c, S, id)
  PROVE  /\ AllKept(CreatePeers(P, c, m, S, id), N, L)
         /\ Match(P, O) => Match(CreatePeers(P, c, m, S, id), O)
<1> DEFINE Q == CreatePeers(P, c, m, S, id)
<1>0. /\ id \in [S -> Pcs]
      /\ \A t, u \in S : id[t] = id[u] => t = u
      /\ \A t \in S : ~P[id[t]].open
      /\ \A t \in S : \A o \in O : o.pc # id[t]
      /\ c \in Clean => \A t \in S : \A p \in Mine(P, c) : P[p].to # t
      /\ \A o \in N : o.kind = "createOffer" =>
           o \in O \/ \E t \in S : o.pc = id[t] /\ svc[c].sessionId < t
  BY DEF Fresh, Upwards
<1>1. /\ \A t \in S : Q[id[t]].open /\ Q[id[t]].owner = c
      /\ \A p \in Pcs : (\A t \in S : id[t] # p) => Q[p] = P[p]
  BY <1>0, CreatedPeers, NewPcFields
<1>2. ASSUME NEW d \in Clean
      PROVE  Kept(Q, N, d, svc[d].manager, svc[d].sessionId, L[d])
  <2>1. Kept(P, O, d, svc[d].manager, svc[d].sessionId, L[d])
    BY DEF AllKept
  <2>2. CASE d = c
    BY <1>0, <2>1, <2>2, CreateKept
  <2>3. CASE d # c
    <3> HIDE DEF Q
    <3>1. Mine(Q, d) = Mine(P, d) /\ \A p \in Mine(P, d) : Q[p] = P[p]
      BY <1>0, <1>1, <2>3 DEF Mine
    <3>2. \A p \in Mine(P, d) : Alike(P[p], Q[p])
      BY <3>1 DEF Alike
    <3>3. \A o \in N : o.kind = "createOffer" /\ o.pc \in Mine(P, d) => o \in O
      BY <1>0 DEF Mine
    <3> QED  BY <2>1, <3>1, <3>2, <3>3, SameKept
  <2> QED  BY <2>2, <2>3
<1>3. ASSUME Match(P, O)  PROVE Match(Q, O)
  <2>1. \A o \in O : o.pc \in Pcs /\ Q[o.pc] = P[o.pc]
    BY <1>0, <1>1 DEF Calls
  <2> QED  BY <1>3, <2>1 DEF Match
<1> QED  BY <1>2, <1>3 DEF AllKept

\* Nothing refers to a forgotten identity.
LEMMA ForgottenFree ==
  ASSUME NEW p \in Pcs, Forgotten(p)
  PROVE  ~pcs[p].open /\ \A o \in ops : o.pc # p
BY DEF Forgotten, Open

\* The manager's Map holds connections of the client; all of them, if it had but one
\* set-up.
LEMMA MapsOwn ==
  ASSUME Connecting, NEW c, NEW s
  PROVE  /\ Connections(c, svc[c].manager) \subseteq Mine(pcs, c)
         /\ \A m : PeersTo(c, m, s) \subseteq Mine(pcs, c)
         /\ c \in Clean =>
              /\ Connections(c, svc[c].manager) = Mine(pcs, c)
              /\ PeersTo(c, svc[c].manager, s) = {p \in Mine(pcs, c) : pcs[p].to = s}
BY DEF Connecting, PeersKept, AllKept, Kept, Connections, PeersTo, Open, Mine

\* syncConnections
LEMMA SyncKept ==
  ASSUME TypeOK, Connecting, NEW c \in Clients, NEW nearby \in SUBSET SessionIds,
         svc[c].manager # 0, SyncConnections(c, nearby)
  PROVE  AllKept(pcs', ops', playing') /\ Match(pcs', ops')
<1>1. PICK m \in Nat : m = svc[c].manager /\ m # 0
  BY StatusFields DEF TypeOK
<1>2. PICK gone \in SUBSET Mine(pcs, c) : gone = Parted(c, nearby)
  BY MapsOwn DEF Parted
<1>3. PICK S \in SUBSET Callees(c, nearby) :
        /\ Available(S)
        /\ pcs' = CreatePeers(Closing(gone), c, m, S, Identities(S))
        /\ ops' = ops \cup {Call("createOffer", Identities(S)[s], c, m, s, 0) : s \in S}
        /\ playing' = Silencing(c, gone)
  BY <1>1, <1>2 DEF SyncConnections
<1>4. PICK id \in [S -> Pcs] :
        /\ id = Identities(S)
        /\ \A t \in S : Forgotten(id[t])
        /\ \A t, u \in S : id[t] = id[u] => t = u
  BY <1>3, IdentitiesFit
<1>5. PICK P \in [Pcs -> Peer \cup {NoPc}] : P = Closing(gone)
  BY ClosingType
<1>6. AllKept(P, ops, playing') /\ Match(P, ops)
  BY <1>2, <1>3, <1>5, ClosingKept
<1>7. \A t \in S : ~P[id[t]].open /\ \A o \in ops : o.pc # id[t]
  BY <1>4, <1>5, ForgottenFree DEF Closing, NoPc
<1>8. ASSUME c \in Clean, NEW t \in S, NEW p \in Mine(P, c)  PROVE P[p].to # t
  <2>1. p \in Mine(pcs, c) /\ P[p] = pcs[p]
    BY <1>5 DEF Mine, Closing, NoPc
  <2>2. PeersTo(c, svc[c].manager, t) = {}
    BY DEF Callees
  <2> QED  BY <1>8, <2>1, <2>2, MapsOwn
<1>9. \A o \in ops' : /\ o.kind = "createOffer" =>
                           o \in ops \/ \E t \in S : o.pc = id[t] /\ svc[c].sessionId < t
                      /\ o \in ops \/ \E t \in S : /\ o.pc = id[t] /\ o.owner = c
                                                   /\ o.manager = m /\ o.to = t
  BY <1>3, <1>4 DEF Call, Callees
<1>10. PICK calls \in SUBSET Calls : calls = ops
  BY DEF TypeOK
<1>11. AllKept(pcs', ops', playing') /\ Match(pcs', ops)
  <2>1. PICK L, N : L = playing' /\ N = ops'
    OBVIOUS
  <2>2. Fresh(P, calls, c, S, id)
    BY <1>4, <1>7, <1>8, <1>10 DEF Fresh
  <2>3. Upwards(N, calls, c, S, id)
    BY <1>9, <1>10, <2>1 DEF Upwards
  <2>4. AllKept(P, calls, L) /\ Match(P, calls)
    BY <1>6, <1>10, <2>1
  <2>5. /\ AllKept(CreatePeers(P, c, m, S, id), N, L)
        /\ Match(CreatePeers(P, c, m, S, id), calls)
    BY <1>1, <2>2, <2>3, <2>4, CreatingKept
  <2> QED  BY <1>3, <1>4, <1>5, <1>10, <2>1, <2>5
<1>12. \A t \in S : /\ pcs'[id[t]].owner = c /\ pcs'[id[t]].manager = m
                    /\ pcs'[id[t]].to = t
  BY <1>3, <1>4, <1>5, CreatedPeers, NewPcFields
<1>13. Match(pcs', ops')
  BY <1>9, <1>11, <1>12 DEF Match
<1> QED  BY <1>11, <1>13

\* handleOffer up to its await
LEMMA OfferKeeps ==
  ASSUME TypeOK, Connecting, NEW c \in Clients, NEW msg \in Messages, msg.type = "offer",
         OnOffer(c, msg)
  PROVE  AllKept(pcs', ops', playing') /\ Match(pcs', ops')
<1>0. playing' = playing /\ msg.pc \in Pcs /\ msg.id \in SessionIds
  BY DEF OnOffer, Messages
<1>1. PICK m \in Nat : m = svc[c].manager
  BY StatusFields DEF TypeOK
<1>2. CASE m = 0
  <2>1. pcs' = Unanswered(pcs, msg.pc) /\ ops' = ops
    BY <1>1, <1>2 DEF OnOffer
  <2>2. AllKept(Unanswered(pcs, msg.pc), ops, playing) /\ Match(Unanswered(pcs, msg.pc), ops)
    BY <1>0, MissedKept DEF TypeOK, Connecting, CallsMatch, PeersKept
  <2> QED  BY <1>0, <2>1, <2>2
<1>3. CASE m # 0
  <2>1. PICK S \in SUBSET {msg.id} :
          /\ S = IF PeersTo(c, m, msg.id) = {} THEN {msg.id} ELSE {}
    OBVIOUS
  <2>2. Available(S)
    BY <1>1, <1>3, <2>1 DEF OnOffer
  <2>3. PICK id \in [S -> Pcs] :
          /\ id = Identities(S)
          /\ \A t \in S : Forgotten(id[t])
          /\ \A t, u \in S : id[t] = id[u] => t = u
    BY <2>2, IdentitiesFit
  <2>4. PICK Q : Q = CreatePeers(pcs, c, m, S, id)
    OBVIOUS
  <2>5. PICK q \in Pcs :
          /\ pcs' = Q
          /\ Q[q].owner = c /\ Q[q].manager = m /\ Q[q].to = msg.id
          /\ ops' = ops \cup {Call("handleOffer", q, c, m, msg.id, msg.pc)}
    <3>1. svc[c].manager # 0 /\ S = IF PeersTo(c, svc[c].manager, msg.id) = {}
                                   THEN {msg.id} ELSE {}
      BY <1>1, <1>3, <2>1
    <3>2. Q = CreatePeers(pcs, c, svc[c].manager, S, Identities(S))
      BY <1>1, <2>4, <2>3
    <3> DEFINE T == IF PeersTo(c, svc[c].manager, msg.id) = {} THEN {msg.id} ELSE {}
               P == CreatePeers(pcs, c, svc[c].manager, T, Identities(T))
    <3>3. /\ pcs' = P
          /\ \E q \in {r \in Pcs : P[r].open} :
               /\ P[q].owner = c /\ P[q].manager = svc[c].manager /\ P[q].to = msg.id
               /\ ops' = ops \cup {Call("handleOffer", q, c, svc[c].manager, msg.id, msg.pc)}
      BY <3>1 DEF OnOffer
    <3>4. P = Q
      BY <3>1, <3>2
    <3> HIDE DEF P
    <3> QED  BY <1>1, <3>3, <3>4
  <2>6. \A t \in S : ~pcs[id[t]].open /\ \A o \in ops : o.pc # id[t]
    BY <2>3, ForgottenFree
  <2>7. c \in Clean => \A t \in S : \A p \in Mine(pcs, c) : pcs[p].to # t
    BY <1>1, <2>1, MapsOwn
  <2>8. \A o \in ops' : o.kind = "createOffer" => o \in ops
    BY <2>5 DEF Call
  <2>9. PICK P \in [Pcs -> Peer \cup {NoPc}], calls \in SUBSET Calls :
           P = pcs /\ calls = ops
    BY DEF TypeOK
  <2>10. PICK N, L : N = ops' /\ L = playing
    OBVIOUS
  <2>11. AllKept(P, calls, L) /\ Match(P, calls)
    BY <2>9, <2>10 DEF Connecting, CallsMatch, PeersKept
  <2>12. AllKept(Q, N, L) /\ Match(Q, calls)
    <3>1. Fresh(P, calls, c, S, id)
      BY <2>3, <2>6, <2>7, <2>9, <2>10 DEF Fresh
    <3>2. Upwards(N, calls, c, S, id)
      BY <2>8, <2>9, <2>10 DEF Upwards
    <3>3. /\ AllKept(CreatePeers(P, c, m, S, id), N, L)
          /\ Match(CreatePeers(P, c, m, S, id), calls)
      BY <1>1, <1>3, <2>11, <3>1, <3>2, CreatingKept
    <3> QED  BY <2>4, <2>9, <2>10, <3>3
  <2>13. Match(Q, N)
    BY <2>5, <2>9, <2>10, <2>12 DEF Match, Call
  <2> QED  BY <1>0, <2>5, <2>9, <2>10, <2>12, <2>13
<1> QED  BY <1>2, <1>3

\* handleAnswer up to its await
LEMMA AnswerKeeps ==
  ASSUME TypeOK, Connecting, NEW c \in Clients, NEW msg, OnAnswer(c, msg)
  PROVE  AllKept(pcs', ops', playing') /\ Match(pcs', ops')
<1>1. PICK calls :
        /\ calls = {Call("handleAnswer", q, c, svc[c].manager, msg.id, msg.pc) :
                      q \in PeersTo(c, svc[c].manager, msg.id)}
        /\ ops' = ops \cup calls /\ pcs' = pcs /\ playing' = playing
  BY DEF OnAnswer
<1>2. \A o \in calls : /\ o.kind # "createOffer" /\ pcs[o.pc].owner = o.owner
                       /\ pcs[o.pc].manager = o.manager /\ pcs[o.pc].to = o.to
  BY <1>1, ConnectionsOwned DEF Call
<1>3. AllKept(pcs, ops, playing) /\ Match(pcs, ops)
  BY DEF Connecting, CallsMatch, PeersKept
<1>4. Match(pcs, ops')
  BY <1>1, <1>2, <1>3 DEF Match
<1>5. \A o \in ops' : o.kind = "createOffer" => o \in ops
  BY <1>1, <1>2
<1>6. AllKept(pcs, ops', playing)
  <2>1. PICK N : N = ops'
    OBVIOUS
  <2>2. AllKept(pcs, N, playing)
    BY <1>3, <1>5, <2>1, OtherCalls
  <2> QED  BY <2>1, <2>2
<1> QED  BY <1>1, <1>4, <1>6

\* handleCandidate
LEMMA CandidateKeeps ==
  ASSUME TypeOK, Connecting, NEW c \in Clients, NEW msg \in Messages,
         msg.type = "candidate", OnCandidate(c, msg)
  PROVE  AllKept(pcs', ops', playing') /\ Match(pcs', ops')
<1>0. /\ ops' = ops /\ AllKept(pcs, ops, playing) /\ Match(pcs, ops)
      /\ pcs \in [Pcs -> Peer \cup {NoPc}] /\ ops \subseteq Calls /\ msg.pc \in Pcs
  BY DEF OnCandidate, Connecting, CallsMatch, PeersKept, TypeOK, Messages
<1>1. CASE UNCHANGED <<pcs, playing>>
  BY <1>0, <1>1
<1>2. ASSUME NEW q \in PeersTo(c, svc[c].manager, msg.id), HandleCandidate(c, q, msg.pc)
      PROVE  AllKept(pcs', ops', playing') /\ Match(pcs', ops')
  <2>1. q \in Mine(pcs, c) /\ q \in Pcs /\ pcs[q] \in Peer
    BY MapsOwn, OpenPeers, ConnectionsOwned
  <2>2. CASE DisconnectFrom(c, {q})
    <3>1. {q} \in SUBSET Mine(pcs, c)
      BY <2>1
    <3>2. Match(Closing({q}), ops) /\ AllKept(Closing({q}), ops, Silencing(c, {q}))
      BY <3>1, ClosingKept
    <3> QED  BY <1>0, <2>2, <3>2 DEF DisconnectFrom
  <2>3. CASE pcs' = AddIceCandidate(q, msg.pc) /\ playing' = playing
    <3>1. PICK peer \in Peer :
            /\ pcs' = [pcs EXCEPT ![q] = peer]
            /\ peer.owner = pcs[q].owner /\ Alike(pcs[q], peer)
      <4>1. PICK old \in Peer, candidates \in SUBSET Pcs :
              old = pcs[q] /\ candidates = pcs[q].pendingCandidates \cup {msg.pc}
        BY <1>0, <2>1 DEF Peer
      <4> DEFINE kept == [old EXCEPT !.pendingCandidates = candidates]
                 heard == [old EXCEPT !.heard = TRUE]
      <4>2. pcs' = [pcs EXCEPT ![q] = kept] \/ pcs' = [pcs EXCEPT ![q] = heard]
        BY <1>0, <2>1, <2>3, <4>1 DEF AddIceCandidate
      <4>3. /\ kept \in Peer /\ kept.owner = old.owner /\ Alike(old, kept)
            /\ heard \in Peer /\ heard.owner = old.owner /\ Alike(old, heard)
        BY DEF Peer, Alike
      <4> HIDE DEF kept, heard
      <4> QED  BY <4>1, <4>2, <4>3
    <3>2. /\ AllKept([pcs EXCEPT ![q] = peer], ops, playing)
          /\ Match([pcs EXCEPT ![q] = peer], ops)
      BY <1>0, <2>1, <3>1, Retouched
    <3> QED  BY <1>0, <2>3, <3>1, <3>2
  <2> QED  BY <1>2, <2>2, <2>3 DEF HandleCandidate
<1> QED  BY <1>1, <1>2 DEF OnCandidate

\* A connection that gets a description becomes audible.
LEMMA DescribedKept ==
  ASSUME TypeOK, Connecting, NEW p \in Open, NEW remote \in Pcs
  PROVE  /\ AllKept(Described(p, remote), ops,
                    [playing EXCEPT ![pcs[p].owner] = @ \cup {pcs[p].to}])
         /\ Match(Described(p, remote), ops)
<1>1. PICK old \in Peer : old = pcs[p] /\ p \in Pcs /\ old.owner \in Clients /\ old.open
  BY OpenPeers DEF Peer
<1>2. PICK heard \in BOOLEAN : heard = (remote \in pcs[p].pendingCandidates)
  BY (remote \in pcs[p].pendingCandidates) \in BOOLEAN
<1>3. PICK new : new = [old EXCEPT !.remote = remote, !.offering = FALSE, !.heard = heard,
                          !.pendingCandidates = {}, !.connected = FALSE]
  OBVIOUS
<1>4. /\ new.open /\ new.owner = old.owner /\ new.manager = old.manager /\ new.to = old.to
      /\ new.remote = remote /\ ~new.offering
  BY <1>1, <1>3 DEF Peer
<1>5. PICK Q : Q = Described(p, remote)
  OBVIOUS
<1>6. Q[p] = new /\ \A q \in Pcs \ {p} : Q[q] = pcs[q]
  BY <1>1, <1>2, <1>3, <1>5 DEF Described, TypeOK
<1>7. \A d : Mine(Q, d) = Mine(pcs, d)
  BY <1>1, <1>4, <1>6 DEF Mine
<1>8. remote # 0
  BY IdsAssumption
<1>9. PICK L : L = [playing EXCEPT ![pcs[p].owner] = @ \cup {pcs[p].to}]
  OBVIOUS
<1>10. ASSUME NEW d \in Clean
       PROVE  Kept(Q, ops, d, svc[d].manager, svc[d].sessionId, L[d])
  <2>1. Kept(pcs, ops, d, svc[d].manager, svc[d].sessionId, playing[d]) /\ d \in Clients
    BY DEF Connecting, PeersKept, AllKept, Clean
  <2>2. Mine(pcs, d) \subseteq Pcs
    BY DEF Mine
  <2>3. CASE d = old.owner
    <3>1. p \in Mine(pcs, d) /\ L[d] = playing[d] \cup {pcs[p].to}
      BY <1>1, <1>9, <2>1, <2>3 DEF Mine, TypeOK
    <3>2. /\ \A q \in Mine(pcs, d) \ {p} : Q[q] = pcs[q]
          /\ Q[p].manager = pcs[p].manager /\ Q[p].to = pcs[p].to
          /\ Q[p].remote # 0 /\ ~Q[p].offering
      BY <1>1, <1>4, <1>6, <1>8, <2>2
    <3> QED  BY <1>7, <2>1, <3>1, <3>2, DescribeKept
  <2>4. CASE d # old.owner
    <3>1. p \notin Mine(pcs, d) /\ L[d] = playing[d]
      BY <1>1, <1>9, <2>1, <2>4 DEF Mine, TypeOK
    <3>2. \A q \in Mine(pcs, d) : Alike(pcs[q], Q[q])
      BY <1>6, <2>2, <3>1 DEF Alike
    <3> QED  BY <1>7, <2>1, <3>1, <3>2, SameKept
  <2> QED  BY <2>3, <2>4
<1>11. Match(Q, ops)
  <2>1. \A o \in ops : o.pc \in Pcs
    BY DEF TypeOK, Calls
  <2> QED  BY <1>1, <1>4, <1>6, <2>1 DEF Connecting, CallsMatch, Match
<1> QED  BY <1>5, <1>9, <1>10, <1>11 DEF AllKept

\* A call that has made its offer.
LEMMA OfferingKept ==
  ASSUME TypeOK, Connecting, NEW o \in ops, o.kind = "createOffer", o.pc \in Open
  PROVE  /\ AllKept([pcs EXCEPT ![o.pc].offering = TRUE], ops \ {o}, playing)
         /\ Match([pcs EXCEPT ![o.pc].offering = TRUE], ops \ {o})
<1>1. PICK p \in Pcs, old \in Peer : p = o.pc /\ old = pcs[p]
  BY OpenPeers
<1>2. PICK new, Q : /\ new = [old EXCEPT !.offering = TRUE]
                    /\ Q = [pcs EXCEPT ![o.pc].offering = TRUE]
  OBVIOUS
<1>3. /\ new.open /\ old.open /\ new.owner = old.owner /\ new.manager = old.manager
      /\ new.to = old.to /\ new.remote = old.remote
  BY <1>2 DEF Peer
<1>4. Q[p] = new /\ \A q \in Pcs \ {p} : Q[q] = pcs[q]
  BY <1>1, <1>2 DEF TypeOK
<1>5. \A d : Mine(Q, d) = Mine(pcs, d) /\ Mine(pcs, d) \subseteq Pcs
  BY <1>1, <1>3, <1>4 DEF Mine
<1>6. ASSUME NEW d \in Clean
      PROVE  Kept(Q, ops \ {o}, d, svc[d].manager, svc[d].sessionId, playing[d])
  <2>1. Kept(pcs, ops, d, svc[d].manager, svc[d].sessionId, playing[d])
    BY DEF Connecting, PeersKept, AllKept
  <2>2. /\ \A q \in Mine(pcs, d) \ {o.pc} : Q[q] = pcs[q]
        /\ Q[o.pc].manager = pcs[o.pc].manager /\ Q[o.pc].to = pcs[o.pc].to
        /\ Q[o.pc].remote = pcs[o.pc].remote
    BY <1>1, <1>3, <1>4, <1>5
  <2> QED  BY <1>5, <2>1, <2>2, OfferKept
<1>7. Match(Q, ops \ {o})
  <2>1. \A call \in ops : call.pc \in Pcs
    BY DEF TypeOK, Calls
  <2> QED  BY <1>1, <1>3, <1>4, <2>1 DEF Connecting, CallsMatch, Match
<1> QED  BY <1>2, <1>6, <1>7 DEF AllKept

\* Steps that leave the services alone.
LEMMA ConnectingAfter ==
  ASSUME UNCHANGED <<svc, overtaken>>, AllKept(pcs', ops', playing'), Match(pcs', ops')
  PROVE  Connecting'
BY DEF Connecting, CallsMatch, PeersKept, AllKept, Clean

LEMMA SettleConnecting ==
  ASSUME TypeOK, Connecting, NEW p, Settle(p)
  PROVE  Connecting'
<1>1. PICK o \in ops :
        /\ ops' = ops \ {o}
        /\ \/ /\ Applicable(o)
              /\ OfferCreated(o) \/ OfferAnswered(o) \/ AnswerApplied(o)
           \/ ~Applicable(o) /\ CallFailed(o)
        /\ UNCHANGED <<svc, overtaken>>
  BY DEF Settle
<1>2. /\ o \in Calls /\ o.pc \in Pcs /\ o.owner \in Clients /\ o.to \in SessionIds
      /\ o.kind # "createOffer" => o.arg \in Pcs
      /\ ops \subseteq Calls /\ Match(pcs, ops) /\ AllKept(pcs, ops, playing)
  BY DEF TypeOK, Calls, Connecting, CallsMatch, PeersKept
<1>3. ASSUME AllKept(pcs', ops, playing'), Match(pcs', ops)
      PROVE  Connecting'
  <2>1. PICK P, N, L : P = pcs' /\ N = ops' /\ L = playing'
    OBVIOUS
  <2>2. AllKept(P, N, L)
    BY <1>1, <1>3, <2>1, OtherCalls
  <2>3. Match(P, N)
    BY <1>1, <1>3, <2>1 DEF Match
  <2> QED  BY <1>1, <2>1, <2>2, <2>3, ConnectingAfter
<1>4. CASE Applicable(o) /\ OfferCreated(o)
  <2>1. o.pc \in Open /\ o.kind = "createOffer"
    BY <1>2, <1>4 DEF Applicable, OfferCreated, Open
  <2>2. /\ AllKept([pcs EXCEPT ![o.pc].offering = TRUE], ops \ {o}, playing)
        /\ Match([pcs EXCEPT ![o.pc].offering = TRUE], ops \ {o})
    BY <2>1, OfferingKept
  <2>3. AllKept(pcs', ops', playing') /\ Match(pcs', ops')
    BY <1>1, <1>4, <2>2 DEF OfferCreated
  <2> QED  BY <1>1, <2>3, ConnectingAfter
<1>5. CASE Applicable(o) /\ (OfferAnswered(o) \/ AnswerApplied(o))
  <2>1. o.pc \in Open /\ o.arg \in Pcs
    BY <1>2, <1>5 DEF Applicable, OfferAnswered, AnswerApplied, Open
  <2>2. pcs[o.pc].owner = o.owner /\ pcs[o.pc].to = o.to
    BY <1>2, <2>1 DEF Match, Open
  <2>3. pcs' = Described(o.pc, o.arg) /\ playing' = Playing(o)
    BY <1>5 DEF OfferAnswered, AnswerApplied
  <2>4. Playing(o) = [playing EXCEPT ![pcs[o.pc].owner] = @ \cup {pcs[o.pc].to}]
    BY <2>2 DEF Playing
  <2>5. AllKept(Described(o.pc, o.arg), ops, Playing(o)) /\ Match(Described(o.pc, o.arg), ops)
    BY <2>1, <2>4, DescribedKept
  <2> QED  BY <1>3, <2>3, <2>5
<1>6. CASE CallFailed(o)
  <2>1. PICK P \in [Pcs -> Peer \cup {NoPc}] :
          /\ pcs' = IF o.kind = "handleOffer" THEN Unanswered(P, o.arg) ELSE P
          /\ AllKept(P, ops, playing') /\ Match(P, ops)
    <3> DEFINE D == PeersTo(o.owner, o.manager, o.to)
    <3>1. D \in SUBSET Mine(pcs, o.owner)
      BY MapsOwn
    <3>2. CASE /\ pcs' = IF o.kind = "handleOffer" THEN Unanswered(Closing(D), o.arg)
                         ELSE Closing(D)
               /\ playing' = Silencing(o.owner, D)
      <4>1. Match(Closing(D), ops) /\ AllKept(Closing(D), ops, Silencing(o.owner, D))
        BY <1>2, <3>1, ClosingKept
      <4>2. Closing(D) \in [Pcs -> Peer \cup {NoPc}]
        BY ClosingType
      <4> HIDE DEF D
      <4> QED  BY <3>2, <4>1, <4>2
    <3>3. CASE /\ pcs' = IF o.kind = "handleOffer" THEN Unanswered(pcs, o.arg) ELSE pcs
               /\ playing' = playing
      BY <1>2, <3>3 DEF TypeOK
    <3> QED  BY <1>6, <3>2, <3>3 DEF CallFailed
  <2>2. CASE o.kind = "handleOffer"
    <3>1. PICK L : L = playing'
      OBVIOUS
    <3>2. AllKept(Unanswered(P, o.arg), ops, L) /\ Match(Unanswered(P, o.arg), ops)
      BY <1>2, <2>1, <2>2, <3>1, MissedKept
    <3> QED  BY <1>3, <2>1, <2>2, <3>1, <3>2
  <2>3. CASE o.kind # "handleOffer"
    BY <1>3, <2>1, <2>3
  <2> QED  BY <2>2, <2>3
<1> QED  BY <1>1, <1>4, <1>5, <1>6

LEMMA WorldConnecting ==
  ASSUME TypeOK, Connecting,
         \/ \E p \in Pcs : IceConnects(p) \/ IceFails(p)
         \/ Tick \/ MeetOrPart
  PROVE  Connecting'
<1>0. /\ Match(pcs, ops) /\ AllKept(pcs, ops, playing) /\ ops \subseteq Calls
      /\ pcs \in [Pcs -> Peer \cup {NoPc}]
  BY DEF Connecting, CallsMatch, PeersKept, TypeOK
<1>1. ASSUME NEW p \in Pcs, IceConnects(p)  PROVE Connecting'
  <2>1. PICK q \in Pcs :
          Matched(p, q) /\ pcs' = [pcs EXCEPT ![p].connected = TRUE, ![q].connected = TRUE]
    BY <1>1 DEF IceConnects
  <2>2. pcs[p] \in Peer /\ pcs[q] \in Peer
    BY <2>1, OpenPeers DEF Matched
  <2>3. \A peer \in Peer : LET new == [peer EXCEPT !.connected = TRUE]
                           IN new \in Peer /\ new.owner = peer.owner /\ Alike(peer, new)
    BY DEF Peer, Alike
  <2>4. PICK first \in Peer :
          /\ first = [pcs[p] EXCEPT !.connected = TRUE]
          /\ first.owner = pcs[p].owner /\ Alike(pcs[p], first)
    BY <2>2, <2>3
  <2>5. PICK P \in [Pcs -> Peer \cup {NoPc}] : P = [pcs EXCEPT ![p] = first]
    BY <1>0
  <2>6. AllKept(P, ops, playing) /\ Match(P, ops)
    BY <1>0, <2>2, <2>4, <2>5, Retouched
  <2>7. P[q] \in Peer
    BY <1>0, <2>2, <2>5
  <2>8. PICK second \in Peer :
          /\ second = [P[q] EXCEPT !.connected = TRUE]
          /\ second.owner = P[q].owner /\ Alike(P[q], second)
    BY <2>3, <2>7
  <2>9. pcs' = [P EXCEPT ![q] = second]
    BY <1>0, <2>1, <2>4, <2>5, <2>8
  <2>10. AllKept([P EXCEPT ![q] = second], ops, playing)
         /\ Match([P EXCEPT ![q] = second], ops)
    BY <1>0, <2>6, <2>7, <2>8, Retouched
  <2>11. UNCHANGED <<svc, overtaken>> /\ ops' = ops /\ playing' = playing
    BY <1>1 DEF IceConnects
  <2>12. AllKept(pcs', ops', playing') /\ Match(pcs', ops')
    BY <2>9, <2>10, <2>11
  <2> QED  BY <2>11, <2>12, ConnectingAfter
<1>2. ASSUME NEW p \in Pcs, IceFails(p)  PROVE Connecting'
  <2>1. p \in Open /\ DisconnectFrom(pcs[p].owner, {p})
        /\ UNCHANGED <<svc, ops, overtaken>>
    BY <1>2 DEF IceFails
  <2>2. pcs[p].owner \in Clients /\ {p} \in SUBSET Mine(pcs, pcs[p].owner)
    BY <2>1, OpenPeers DEF Peer, Mine, Open
  <2>3. Match(Closing({p}), ops) /\ AllKept(Closing({p}), ops, Silencing(pcs[p].owner, {p}))
    BY <2>2, ClosingKept
  <2>4. AllKept(pcs', ops', playing') /\ Match(pcs', ops')
    BY <2>1, <2>3 DEF DisconnectFrom
  <2> QED  BY <2>1, <2>4, ConnectingAfter
<1>3. CASE Tick \/ MeetOrPart
  <2>1. UNCHANGED <<svc, pcs, ops, playing, overtaken>>
    BY <1>3 DEF Tick, MeetOrPart
  <2>2. AllKept(pcs', ops', playing') /\ Match(pcs', ops')
    BY <1>0, <2>1
  <2> QED  BY <2>1, <2>2, ConnectingAfter
<1> QED  BY <1>1, <1>2, <1>3

\* A client all of whose connections are closed.
LEMMA ClearedConnecting ==
  ASSUME TypeOK, Connecting, NEW c \in Clients,
         pcs' = Closing(Connections(c, svc[c].manager)), ops' = ops,
         \A d \in Clients \ {c} : svc'[d] = svc[d] /\ playing'[d] = playing[d],
         playing'[c] = {}, overtaken \subseteq overtaken'
  PROVE  Connecting'
<1>1. PICK D \in SUBSET Mine(pcs, c) : D = Connections(c, svc[c].manager)
  BY MapsOwn
<1>2. Match(Closing(D), ops) /\ AllKept(Closing(D), ops, Silencing(c, D))
  BY <1>1, ClosingKept
<1>3. Match(pcs', ops')
  BY <1>1, <1>2
<1>4. ASSUME NEW d \in Clients \ overtaken'
      PROVE  Kept(Closing(D), ops, d, svc'[d].manager, svc'[d].sessionId, playing'[d])
  <2>1. d \in Clean
    BY <1>4 DEF Clean
  <2>2. CASE d = c
    <3>1. D = Mine(pcs, c)
      BY <1>1, <2>1, <2>2, MapsOwn
    <3>2. Mine(Closing(D), c) = {}
      BY <3>1 DEF Mine, Closing, NoPc
    <3>3. PICK m, s : m = svc'[d].manager /\ s = svc'[d].sessionId
      OBVIOUS
    <3> QED  BY <2>2, <3>2, <3>3, NobodyKept
  <2>3. CASE d # c
    <3>1. Kept(Closing(D), ops, d, svc[d].manager, svc[d].sessionId, Silencing(c, D)[d])
      BY <1>2, <2>1 DEF AllKept
    <3>2. Silencing(c, D)[d] = playing[d]
      BY <2>3 DEF Silencing, TypeOK
    <3> QED  BY <2>3, <3>1, <3>2
  <2> QED  BY <2>2, <2>3
<1>5. PeersKept'
  BY <1>1, <1>4 DEF PeersKept, AllKept, Clean
<1> QED  BY <1>3, <1>5 DEF Connecting, CallsMatch

\* A client whose service changes, but not its manager and its session as long as it has
\* connections.
LEMMA ServiceConnecting ==
  ASSUME TypeOK, Connecting, NEW c \in Clients, UNCHANGED <<pcs, ops, playing>>,
         \A d \in Clients \ {c} : svc'[d] = svc[d], overtaken \subseteq overtaken',
         c \notin overtaken' =>
           \/ svc[c].manager = 0
           \/ svc'[c].manager = svc[c].manager /\ svc'[c].sessionId = svc[c].sessionId
  PROVE  Connecting'
<1>1. ASSUME NEW d \in Clients \ overtaken'
      PROVE  Kept(pcs, ops, d, svc'[d].manager, svc'[d].sessionId, playing[d])
  <2>1. Kept(pcs, ops, d, svc[d].manager, svc[d].sessionId, playing[d])
    BY <1>1 DEF Connecting, PeersKept, AllKept, Clean
  <2>2. CASE d = c /\ svc[c].manager = 0
    <3>1. Mine(pcs, d) = {} /\ playing[d] = {}
      BY <2>1, <2>2, NobodyKept
    <3>2. PICK m, s : m = svc'[d].manager /\ s = svc'[d].sessionId
      OBVIOUS
    <3> QED  BY <3>1, <3>2, NobodyKept
  <2>3. CASE svc'[d].manager = svc[d].manager /\ svc'[d].sessionId = svc[d].sessionId
    BY <2>1, <2>3
  <2> QED  BY <2>2, <2>3
<1>2. PeersKept'
  BY <1>1 DEF PeersKept, AllKept, Clean
<1>3. CallsMatch'
  BY DEF Connecting, CallsMatch, Match
<1> QED  BY <1>2, <1>3 DEF Connecting

\* The pages' own steps.
LEMMA PageConnecting ==
  ASSUME TypeOK, Admitting, Connecting, NEW c \in Clients,
         \/ Join(c) \/ RetryWithForceReplace(c) \/ Disconnect(c) \/ Dispose(c)
         \/ IceServersFetched(c) \/ MicrophoneGranted(c) \/ MicrophoneDenied(c)
  PROVE  Connecting'
<1>1. CASE Join(c)
  BY <1>1, Joined, ClearedConnecting
<1>2. CASE RetryWithForceReplace(c)
  <2>1. UNCHANGED <<pcs, ops, playing, overtaken>>
    BY <1>2 DEF RetryWithForceReplace
  <2> QED  BY <1>2, <2>1, Retried, ServiceConnecting
<1>3. CASE Disconnect(c) \/ Dispose(c)
  <2>1. PICK disposing \in BOOLEAN : OnDisconnect(c, disposing)
    BY <1>3 DEF Disconnect, Dispose
  <2> QED  BY <2>1, WentAway, ClearedConnecting
<1>4. CASE IceServersFetched(c) \/ MicrophoneGranted(c) \/ MicrophoneDenied(c)
  <2>1. UNCHANGED <<pcs, ops, playing, overtaken>>
    BY <1>4 DEF IceServersFetched, MicrophoneGranted, MicrophoneDenied
  <2>2. c \notin overtaken => SetUp(svc[c])
    BY DEF Admitting, SetUpOnce, Clean
  <2>3. /\ \A d \in Clients \ {c} : svc'[d] = svc[d]
        /\ c \notin overtaken' => svc[c].manager = 0
    BY <1>4, <2>1, <2>2, SetUpMoves
  <2> QED  BY <2>1, <2>3, ServiceConnecting
<1> QED  BY <1>1, <1>2, <1>3, <1>4

\* A page that is told "connected" or "denied" has no manager.
LEMMA AnsweredWithout ==
  ASSUME TypeOK, Admitting, NEW c \in Clean, down[c] # <<>>, Admission(Head(down[c]))
  PROVE  svc[c].manager = 0
<1>1. Admitted(down[c], svc[c].status) /\ SetUp(svc[c]) /\ down[c] \in Seq(Messages)
  BY DEF Admitting, AdmittedOnce, SetUpOnce, TypeOK, Clean
<1>2. 1 \in 1..Len(down[c]) /\ Head(down[c]) = down[c][1]
  BY <1>1
<1>3. svc[c].status = "connecting"
  BY <1>1, <1>2 DEF Admitted
<1> QED  BY <1>1, <1>3 DEF SetUp

\* A message that arrives.
LEMMA DeliverConnecting ==
  ASSUME TypeOK, Admitting, Connecting, NEW c \in Clients, Deliver(c)
  PROVE  Connecting'
<1>1. PICK msg \in Messages : msg = Head(down[c]) /\ down[c] # <<>>
  BY DEF Deliver, TypeOK
<1>2. \/ UNCHANGED <<svc, pcs, ops, playing, overtaken>>
      \/ msg.type = "connected" /\ OnConnected(c, msg)
      \/ msg.type = "denied" /\ OnDenied(c)
      \/ msg.type = "disconnect" /\ OnDisconnect(c, FALSE)
      \/ msg.type = "nearby" /\ OnNearby(c, msg)
      \/ msg.type = "offer" /\ OnOffer(c, msg)
      \/ msg.type = "answer" /\ OnAnswer(c, msg)
      \/ msg.type = "candidate" /\ OnCandidate(c, msg)
  BY <1>1 DEF Deliver
<1>3. AllKept(pcs, ops, playing) /\ Match(pcs, ops)
  BY DEF Connecting, CallsMatch, PeersKept
<1>4. ASSUME UNCHANGED <<svc, pcs, ops, playing, overtaken>>  PROVE Connecting'
  <2>1. AllKept(pcs', ops', playing') /\ Match(pcs', ops')
    BY <1>3, <1>4
  <2> QED  BY <1>4, <2>1, ConnectingAfter
<1>5. CASE msg.type = "connected" /\ OnConnected(c, msg)
  <2>1. c \notin overtaken' => svc[c].manager = 0
    BY <1>1, <1>5, Welcomed, AnsweredWithout DEF Clean, Admission
  <2>2. UNCHANGED <<pcs, ops, playing>>
    BY <1>5 DEF OnConnected
  <2> QED  BY <1>5, <2>1, <2>2, Welcomed, ServiceConnecting
<1>6. CASE msg.type = "denied" /\ OnDenied(c)
  <2>1. UNCHANGED <<pcs, ops, playing, overtaken>>
    BY <1>6 DEF OnDenied
  <2>2. c \notin overtaken' => svc[c].manager = 0
    BY <1>1, <1>6, <2>1, AnsweredWithout DEF Clean, Admission
  <2> QED  BY <1>6, <2>1, <2>2, TurnedAway, ServiceConnecting
<1>7. CASE OnDisconnect(c, FALSE)
  BY <1>7, WentAway, ClearedConnecting
<1>8. CASE msg.type = "nearby" /\ OnNearby(c, msg)
  <2>1. msg.nearby \in SUBSET SessionIds /\ UNCHANGED <<svc, overtaken>>
    BY <1>8 DEF Messages, OnNearby
  <2>2. CASE UNCHANGED <<pcs, ops, playing>>
    BY <1>4, <2>1, <2>2
  <2>3. CASE svc[c].manager # 0 /\ SyncConnections(c, msg.nearby)
    BY <2>1, <2>3, SyncKept, ConnectingAfter
  <2> QED  BY <1>8, <2>2, <2>3 DEF OnNearby, HandleNearbyPlayersUpdate
<1>9. CASE msg.type = "offer" /\ OnOffer(c, msg)
  BY <1>9, OfferKeeps, ConnectingAfter DEF OnOffer
<1>10. CASE msg.type = "answer" /\ OnAnswer(c, msg)
  BY <1>10, AnswerKeeps, ConnectingAfter DEF OnAnswer
<1>11. CASE msg.type = "candidate" /\ OnCandidate(c, msg)
  BY <1>11, CandidateKeeps, ConnectingAfter DEF OnCandidate
<1> QED  BY <1>2, <1>4, <1>5, <1>6, <1>7, <1>8, <1>9, <1>10, <1>11

LEMMA ConnectingNext == TypeOK /\ Admitting /\ Connecting /\ [Next]_vars => Connecting'
<1> SUFFICES ASSUME TypeOK, Admitting, Connecting, [Next]_vars PROVE Connecting'  OBVIOUS
<1>1. CASE UNCHANGED vars
  BY <1>1 DEF vars, bounds, Connecting, CallsMatch, PeersKept, AllKept, Match, Clean
<1> QED
  BY <1>1, PageConnecting, DeliverConnecting, SettleConnecting, WorldConnecting DEF Next

-----------------------------------------------------------------------------
(* The invariant, and what it implies.                                     *)

IInv == TypeOK /\ Admitting /\ Connecting

LEMMA InitIInv == Init => IInv
<1> SUFFICES ASSUME Init PROVE IInv  OBVIOUS
<1>1. TypeOK
  BY InitType
<1>2. \A c \in Clients :
        /\ down[c] = <<>> /\ playing[c] = {} /\ svc[c].status = "idle"
        /\ svc[c].fetching = 0 /\ svc[c].asking = 0 /\ svc[c].manager = 0
        /\ ~svc[c].localStream /\ svc[c].lostStreams = 0
  BY DEF Init, NewService
<1>3. Admitting
  <2>1. CutOffLast /\ AdmittedOnce
    BY <1>2, EmptyLine DEF CutOffLast, AdmittedOnce, Clean
  <2>2. SetUpOnce
    BY <1>2 DEF SetUpOnce, SetUp, Clean
  <2> QED  BY <2>1, <2>2 DEF Admitting
<1>4. \A c : Mine(pcs, c) = {}
  BY DEF Init, Mine, NoPc
<1>5. PeersKept
  <2> SUFFICES ASSUME NEW c \in Clean
               PROVE  Kept(pcs, ops, c, svc[c].manager, svc[c].sessionId, playing[c])
    BY DEF PeersKept, AllKept
  <2>1. PICK m, s : m = svc[c].manager /\ s = svc[c].sessionId
    OBVIOUS
  <2> QED  BY <1>2, <1>4, <2>1, NobodyKept DEF Clean
<1>6. CallsMatch
  BY DEF Init, CallsMatch, Match
<1> QED  BY <1>1, <1>3, <1>5, <1>6 DEF IInv, Connecting

\* The invariant holds however many browsers, sessions and connections there are.
THEOREM Invariance == Spec => []IInv
<1>1. IInv /\ [Next]_vars => IInv'
  BY NextType, AdmittingNext, ConnectingNext DEF IInv
<1> QED  BY InitIInv, <1>1, PTL DEF Spec

\* A page that is not connected keeps no manager, no microphone, no connection and no
\* audio element, unless it abandoned a set-up (property AwayIsSilent): the cleanUp of
\* join, disconnect and dispose, and the order in which answers to client:join arrive,
\* leave nothing behind.
THEOREM AwayPagesAreSilent == Spec => []AwayIsSilent
<1>1. IInv => AwayIsSilent
  <2> SUFFICES ASSUME IInv, NEW c \in Clean, svc[c].status # "connected"
               PROVE  /\ svc[c].manager = 0 /\ ~svc[c].localStream
                      /\ playing[c] = {}
                      /\ \A p \in Open : pcs[p].owner # c
    BY DEF AwayIsSilent, Clean
  <2>1. svc[c].manager = 0 /\ ~svc[c].localStream
    BY DEF IInv, Admitting, SetUpOnce, SetUp
  <2>2. Kept(pcs, ops, c, 0, svc[c].sessionId, playing[c])
    BY <2>1 DEF IInv, Connecting, PeersKept, AllKept
  <2>3. Mine(pcs, c) = {} /\ playing[c] = {}
    BY <2>2, NobodyKept
  <2> QED  BY <2>1, <2>3 DEF Mine, Open
<1> QED  BY Invariance, <1>1, PTL

\* Every open connection is in its page's present manager's Map, alone for its session,
\* and the described ones are exactly those that are audible (property
\* PeersRegistered): nothing that closes by session id leaks.
THEOREM NothingLeaks == Spec => []PeersRegistered
<1>1. IInv => PeersRegistered
  <2> SUFFICES ASSUME IInv, NEW c \in Clean
               PROVE  /\ svc[c].lostStreams = 0
                      /\ \A p, q \in Open :
                           pcs[p].owner = c =>
                             /\ pcs[p].manager = svc[c].manager
                             /\ pcs[q].owner = c /\ pcs[q].to = pcs[p].to => p = q
                      /\ playing[c] = {pcs[p].to :
                           p \in {q \in Open : pcs[q].owner = c /\ pcs[q].remote # 0}}
    BY DEF PeersRegistered, Clean
  <2>1. svc[c].lostStreams = 0
    BY DEF IInv, Admitting, SetUpOnce, SetUp
  <2>2. Kept(pcs, ops, c, svc[c].manager, svc[c].sessionId, playing[c])
    BY DEF IInv, Connecting, PeersKept, AllKept
  <2>3. Mine(pcs, c) = {p \in Open : pcs[p].owner = c}
    BY DEF Mine, Open
  <2>4. {q \in Open : pcs[q].owner = c /\ pcs[q].remote # 0}
          = {q \in Mine(pcs, c) : pcs[q].remote # 0}
    BY <2>3
  <2> QED  BY <2>1, <2>2, <2>3, <2>4 DEF Kept, Spoken
<1> QED  BY Invariance, <1>1, PTL

\* Two pages never offer to each other at once (property NoGlare): each only calls
\* sessions above its own.
THEOREM OffersNeverCross == Spec => []NoGlare
<1>1. IInv => NoGlare
  <2> SUFFICES ASSUME IInv, NEW p \in Open, NEW q \in Open, NEW c, NEW d,
                      c = pcs[p].owner, d = pcs[q].owner,
                      pcs[p].offering, pcs[q].offering,
                      pcs[p].to = svc[d].sessionId, pcs[q].to = svc[c].sessionId,
                      c \notin overtaken, d \notin overtaken
               PROVE  FALSE
    BY DEF NoGlare
  <2>1. c \in Clean /\ d \in Clean /\ p \in Mine(pcs, c) /\ q \in Mine(pcs, d)
    BY OpenPeers DEF IInv, Peer, Clean, Mine, Open
  <2>2. svc[c].sessionId < pcs[p].to /\ svc[d].sessionId < pcs[q].to
    BY <2>1 DEF IInv, Connecting, PeersKept, AllKept, Kept, Calling
  <2>3. svc[c].sessionId \in Nat /\ svc[d].sessionId \in Nat
    <3>1. svc[c] \in Service /\ svc[d] \in Service
      BY <2>1 DEF IInv, TypeOK, Clean
    <3>2. SessionIds \cup {0} \subseteq Nat
      BY IdsAssumption
    <3> QED  BY <3>1, <3>2, StatusFields
  <2> QED  BY <2>2, <2>3
<1> QED  BY Invariance, <1>1, PTL
=============================================================================
