--------------------------- MODULE SignalingServer ---------------------------
(***************************************************************************)
(* The player-facing half of backend/src/signaling/createSocketServer.ts:  *)
(* client sockets join under a player name, may take a name over from an   *)
(* older connection, relay WebRTC signals to each other and disconnect.    *)
(*                                                                         *)
(* Node runs each event handler to completion, so one action is one        *)
(* handler.  Interleaving comes from the order in which the events of      *)
(* different sockets, and the loss of their connections, reach the server. *)
(*                                                                         *)
(* Socket.IO is external and modelled by what the server relies on:        *)
(*   - an id names one connection and is never used again;                 *)
(*   - a connection whose peer vanished ("lost") stays in                  *)
(*     io.sockets.sockets until the heartbeat times out;                   *)
(*   - emitting to a lost or closed connection delivers nothing;           *)
(*   - socket.disconnect(true) closes the connection and runs its          *)
(*     "disconnect" handler before it returns;                             *)
(*   - no event of a closed connection is dispatched.                      *)
(***************************************************************************)
EXTENDS SessionStore, Naturals

CONSTANTS
  BadToken,                \* a token validatePlayerToken refuses
  RequirePlayerTokenAuth,  \* config.authVerificationEnabled
  ForceFlags,              \* the values of forceReplace clients send
  JoinsPerSocket           \* how many accepted joins a client makes on one connection

ASSUME ConfigAssumption ==
  /\ RequirePlayerTokenAuth \in BOOLEAN
  /\ ForceFlags \subseteq BOOLEAN
  /\ JoinsPerSocket \in Nat

VARIABLES
  conn,               \* Socket.IO's view of each connection
  dataSessionId,      \* socket.data.sessionId
  store,              \* the SessionStore
  socketIdBySessionId,
  issued,             \* session ids randomUUID() has returned
  joins,              \* accepted joins of each connection
  told,               \* the session id the client last received in "connected"
  delivered           \* what the last handler delivered to clients

vars == <<conn, dataSessionId, store, socketIdBySessionId, issued, joins, told,
          delivered>>

ConnState == {"new", "client", "lost", "closed"}

\* io.sockets.sockets
Attached == {x \in Sockets : conn[x] \in {"client", "lost"}}

\* Of a batch of emitted messages, those whose connection can carry them.
Deliverable(batch) == {m \in batch : conn[m.to] = "client"}

Init ==
  /\ conn = [x \in Sockets |-> "new"]
  /\ dataSessionId = [x \in Sockets |-> None]
  /\ store = EmptyStore
  /\ socketIdBySessionId = [s \in SessionIds |-> None]
  /\ issued = {}
  /\ joins = [x \in Sockets |-> 0]
  /\ told = [x \in Sockets |-> None]
  /\ delivered = {}

-----------------------------------------------------------------------------
(* Connections come and go.                                                *)

\* io.on("connection") for a handshake that is not the bridge's.
Connect(x) ==
  /\ conn[x] = "new"
  /\ conn' = [conn EXCEPT ![x] = "client"]
  /\ delivered' = {}
  /\ UNCHANGED <<dataSessionId, store, socketIdBySessionId, issued, joins, told>>

\* The peer vanishes without a close: the server does not know yet.
LoseLink(x) ==
  /\ conn[x] = "client"
  /\ conn' = [conn EXCEPT ![x] = "lost"]
  /\ delivered' = {}
  /\ UNCHANGED <<dataSessionId, store, socketIdBySessionId, issued, joins, told>>

\* Mutated: the route is left behind.
HandleDisconnect_KeepsRoute(x) ==
  /\ conn' = [conn EXCEPT ![x] = "closed"]
  /\ store' = IF dataSessionId[x] = None THEN store
              ELSE RemoveById(store, dataSessionId[x])
  /\ delivered' = {}
  /\ UNCHANGED <<dataSessionId, socketIdBySessionId, issued, joins, told>>

\* Mutated: the handler does not remove the session.
HandleDisconnect_KeepsSession(x) ==
  /\ conn' = [conn EXCEPT ![x] = "closed"]
  /\ delivered' = {}
  /\ UNCHANGED <<dataSessionId, store, socketIdBySessionId, issued, joins, told>>

\* The "disconnect" handler: only the session socket.data names is cleaned up.
HandleDisconnect(x) ==
  /\ conn' = [conn EXCEPT ![x] = "closed"]
  /\ IF dataSessionId[x] = None
     THEN UNCHANGED <<store, socketIdBySessionId>>
     ELSE /\ store' = RemoveById(store, dataSessionId[x])
          /\ socketIdBySessionId' =
               [socketIdBySessionId EXCEPT ![dataSessionId[x]] = None]
  /\ delivered' = {}
  /\ UNCHANGED <<dataSessionId, issued, joins, told>>

\* The client closes the connection, or its transport reports the close.
Disconnect(x) ==
  /\ conn[x] = "client"
  /\ HandleDisconnect(x)

\* The heartbeat of a lost connection times out.
PingTimeout(x) ==
  /\ conn[x] = "lost"
  /\ HandleDisconnect(x)

\* The process restarts: every Map is empty again and every connection is gone.
Restart ==
  /\ conn' = [x \in Sockets |-> IF conn[x] = "new" THEN "new" ELSE "closed"]
  /\ store' = EmptyStore
  /\ socketIdBySessionId' = [s \in SessionIds |-> None]
  /\ delivered' = {}
  /\ UNCHANGED <<dataSessionId, issued, joins, told>>

-----------------------------------------------------------------------------
(* client:join                                                             *)

\* Why handleClientJoin refuses, in the order of its checks; None if it does
\* not.  An empty name and a missing token are None; any other token but
\* BadToken is the name it was issued for.
DenyReason(name, token, forceReplace) ==
  IF name = None THEN "INVALID_PAYLOAD"
  ELSE IF RequirePlayerTokenAuth /\ token = None THEN "TOKEN_MISSING"
  ELSE IF RequirePlayerTokenAuth /\ token = BadToken THEN "TOKEN_INVALID"
  ELSE IF RequirePlayerTokenAuth /\ token # name THEN "TOKEN_PLAYER_MISMATCH"
  ELSE IF GetByPlayerName(store, name) # None /\ ~forceReplace
       THEN "FORCE_REPLACE_REQUIRED"
  ELSE None

JoinDenied(x, name, token, forceReplace) ==
  /\ conn[x] = "client"
  /\ DenyReason(name, token, forceReplace) # None
  /\ delivered' = Deliverable({[event |-> "connect:denied", to |-> x,
                                reason |-> DenyReason(name, token, forceReplace)]})
  /\ UNCHANGED <<conn, dataSessionId, store, socketIdBySessionId, issued, joins, told>>

\* What every accepted join does: a fresh id, and "connected" to the joiner.
Accept(x, name, token, forceReplace, id) ==
  /\ conn[x] = "client"
  /\ joins[x] < JoinsPerSocket
  /\ name # None
  /\ DenyReason(name, token, forceReplace) = None
  /\ id \notin issued
  /\ issued' = issued \cup {id}
  /\ joins' = [joins EXCEPT ![x] = @ + 1]
  /\ told' = [told EXCEPT ![x] = id]
  /\ delivered' = Deliverable({[event |-> "connected", to |-> x, sessionId |-> id]})

\* Mutated: the route is stored under the wrong value.
JoinFresh_RoutesToId(x, name, token, forceReplace, id) ==
  /\ Accept(x, name, token, forceReplace, id)
  /\ GetByPlayerName(store, name) = None
  /\ store' = CreateSession(store, id, name, x)
  /\ dataSessionId' = [dataSessionId EXCEPT ![x] = id]
  /\ socketIdBySessionId' = [socketIdBySessionId EXCEPT ![id] = id]
  /\ UNCHANGED conn

JoinFresh(x, name, token, forceReplace, id) ==
  /\ Accept(x, name, token, forceReplace, id)
  /\ GetByPlayerName(store, name) = None
  /\ store' = CreateSession(store, id, name, x)
  /\ dataSessionId' = [dataSessionId EXCEPT ![x] = id]
  /\ socketIdBySessionId' = [socketIdBySessionId EXCEPT ![id] = x]
  /\ UNCHANGED conn

\* The connection a replaced session runs on: the routing index first, the
\* session record when the index has no entry.
SocketOf(s) ==
  IF socketIdBySessionId[s] # None
  THEN socketIdBySessionId[s]
  ELSE store.sessionsById[s].socketId

\* Mutated: the replaced connection is left open and keeps its session id.
JoinReplace_KeepsOldConnection(x, name, token, forceReplace, id) ==
  LET old == GetByPlayerName(store, name)
  IN  /\ Accept(x, name, token, forceReplace, id)
      /\ old # None
      /\ store' = RemoveById(CreateSession(RemoveById(store, old), id, name, x), old)
      /\ socketIdBySessionId' =
           [socketIdBySessionId EXCEPT ![id] = x, ![old] = None]
      /\ dataSessionId' = [dataSessionId EXCEPT ![x] = id]
      /\ UNCHANGED conn

\* Mutated: the joiner's connection is dropped instead of the old one.
JoinReplace_DropsJoiner(x, name, token, forceReplace, id) ==
  LET old == GetByPlayerName(store, name)
  IN  /\ Accept(x, name, token, forceReplace, id)
      /\ old # None
      /\ store' = RemoveById(CreateSession(RemoveById(store, old), id, name, x), old)
      /\ socketIdBySessionId' =
           [socketIdBySessionId EXCEPT ![id] = x, ![old] = None]
      /\ dataSessionId' = [dataSessionId EXCEPT ![x] = None]
      /\ conn' = [conn EXCEPT ![x] = "closed"]

\* Mutated: the replaced connection forgets its session but stays open.
JoinReplace_OnlyForgets(x, name, token, forceReplace, id) ==
  LET old == GetByPlayerName(store, name)
  IN  /\ Accept(x, name, token, forceReplace, id)
      /\ old # None
      /\ store' = RemoveById(CreateSession(RemoveById(store, old), id, name, x), old)
      /\ socketIdBySessionId' =
           [socketIdBySessionId EXCEPT ![id] = x, ![old] = None]
      /\ dataSessionId' = [y \in Sockets |-> IF y = SocketOf(old) THEN None
                                             ELSE IF y = x THEN id
                                             ELSE dataSessionId[y]]
      /\ UNCHANGED conn

\* Mutated: every other connection is dropped, not only the old session's.
JoinReplace_DropsAllOthers(x, name, token, forceReplace, id) ==
  LET old == GetByPlayerName(store, name)
  IN  /\ Accept(x, name, token, forceReplace, id)
      /\ old # None
      /\ store' = RemoveById(CreateSession(RemoveById(store, old), id, name, x), old)
      /\ socketIdBySessionId' =
           [socketIdBySessionId EXCEPT ![id] = x, ![old] = None]
      /\ dataSessionId' = [y \in Sockets |-> IF y = x THEN id ELSE None]
      /\ conn' = [y \in Sockets |-> IF y \in Attached \ {x} THEN "closed" ELSE conn[y]]

\* The new session is created and routed before the old one's connection is
\* dropped, and that connection has forgotten its session by the time its
\* "disconnect" handler runs.
JoinReplace(x, name, token, forceReplace, id) ==
  LET old  == GetByPlayerName(store, name)
      gone == {SocketOf(old)} \cap Attached
  IN  /\ Accept(x, name, token, forceReplace, id)
      /\ old # None
      /\ store' = RemoveById(CreateSession(RemoveById(store, old), id, name, x), old)
      /\ socketIdBySessionId' =
           [socketIdBySessionId EXCEPT ![id] = x, ![old] = None]
      /\ dataSessionId' = [y \in Sockets |-> IF y \in gone THEN None
                                             ELSE IF y = x THEN id
                                             ELSE dataSessionId[y]]
      /\ conn' = [y \in Sockets |-> IF y \in gone THEN "closed" ELSE conn[y]]

-----------------------------------------------------------------------------
(* webrtc:offer, webrtc:answer and webrtc:candidate are relayed alike.     *)

\* Mutated: the signal is emitted to everybody.
Relay_Broadcast(x, target) ==
  /\ conn[x] = "client"
  /\ dataSessionId[x] # None
  /\ store.sessionsById[target] # None
  /\ delivered' = Deliverable({[event |-> "webrtc", to |-> y, from |-> dataSessionId[x],
                                for |-> target, by |-> x] : y \in Sockets})
  /\ UNCHANGED <<conn, dataSessionId, store, socketIdBySessionId, issued, joins, told>>

\* The receiver sees only who sent it; "for" is the session the sender named.
Relay(x, target) ==
  LET from == dataSessionId[x]
      dest == socketIdBySessionId[target]
  IN  /\ conn[x] = "client"
      /\ from # None
      /\ store.sessionsById[target] # None
      /\ dest # None
      /\ delivered' = Deliverable({[event |-> "webrtc", to |-> dest, from |-> from,
                                    for |-> target, by |-> x]})
      /\ UNCHANGED <<conn, dataSessionId, store, socketIdBySessionId, issued, joins,
                     told>>

\* A signal of a socket without a session, or to a session nobody holds.
RelayDropped(x, target) ==
  /\ conn[x] = "client"
  /\ \/ dataSessionId[x] = None
     \/ store.sessionsById[target] = None
     \/ socketIdBySessionId[target] = None
  /\ delivered' = {}
  /\ UNCHANGED <<conn, dataSessionId, store, socketIdBySessionId, issued, joins, told>>

-----------------------------------------------------------------------------
Join(x) ==
  \E name \in Players \cup {None}, token \in Players \cup {None, BadToken},
     forceReplace \in ForceFlags :
    \/ JoinDenied(x, name, token, forceReplace)
    \/ \E id \in SessionIds : JoinFresh(x, name, token, forceReplace, id)
    \/ \E id \in SessionIds : JoinReplace(x, name, token, forceReplace, id)

Next ==
  \/ \E x \in Sockets :
       \/ Connect(x)
       \/ LoseLink(x)
       \/ Disconnect(x)
       \/ PingTimeout(x)
       \/ Join(x)
       \/ \E target \in SessionIds : Relay(x, target) \/ RelayDropped(x, target)
  \/ Restart

Spec == Init /\ [][Next]_vars

\* Engine.IO's heartbeat timer always fires: a lost connection does not stay.
Fairness == \A x \in Sockets : WF_vars(PingTimeout(x))

FairSpec == Spec /\ Fairness

-----------------------------------------------------------------------------
(* Safety.                                                                 *)

\* Every variable keeps its type; a delivered message names its parts.
TypeOK ==
  /\ conn \in [Sockets -> ConnState]
  /\ dataSessionId \in [Sockets -> SessionIds \cup {None}]
  /\ store \in Store
  /\ socketIdBySessionId \in [SessionIds -> Sockets \cup {None}]
  /\ issued \in SUBSET SessionIds
  /\ joins \in [Sockets -> 0..JoinsPerSocket]
  /\ told \in [Sockets -> SessionIds \cup {None}]
  /\ \A m \in delivered : m.to \in Sockets

\* The two indexes of the SessionStore describe the same sessions at all times.
IndexesAgree == Consistent(store)

\* A player is online at most once, whatever joins, takeovers and disconnects
\* of however many connections came before.
OneSessionPerPlayer ==
  \A s, t \in Online(store) :
    store.sessionsById[s].playerName = store.sessionsById[t].playerName => s = t

\* The server's own index, kept beside the store and updated by different lines,
\* routes exactly the sessions that are online, each to its own connection.
RoutesAgree ==
  \A s \in SessionIds :
    socketIdBySessionId[s] = IF store.sessionsById[s] = None
                             THEN None
                             ELSE store.sessionsById[s].socketId

\* A connection that can still send speaks for a session that is online and
\* runs on it: whoever was replaced is not heard any more.
SendersOnline ==
  \A x \in Attached :
    dataSessionId[x] # None =>
      /\ dataSessionId[x] \in Online(store)
      /\ store.sessionsById[dataSessionId[x]].socketId = x

\* Nothing the server holds refers to a session id that was never issued.
OnlyIssuedIds ==
  /\ Online(store) \subseteq issued
  /\ \A x \in Sockets : dataSessionId[x] # None => dataSessionId[x] \in issued

\* A connection that was just made has no session, and has not joined.
FreshConnections ==
  \A x \in Sockets : conn[x] = "new" => dataSessionId[x] = None /\ joins[x] = 0

\* The inductive invariant behind the theorems of SignalingServerProofs.
IInv ==
  /\ TypeOK
  /\ IndexesAgree
  /\ RoutesAgree
  /\ SendersOnline
  /\ OnlyIssuedIds
  /\ FreshConnections

\* The comment at createSocketServer.ts:263: a disconnect cleans up, no dirty
\* session stays behind.  Whoever is online has a connection that is attached.
NoGhostSession == \A s \in Online(store) : SocketOf(s) \in Attached

\* Every session that is online is the one its connection speaks for, so a client
\* is not listed to others under a name it no longer uses.
OneIdentity == \A s \in Online(store) : dataSessionId[SocketOf(s)] = s

\* A connection that speaks for a session has joined, and its client was told.
SpeakersKnow ==
  \A x \in Sockets :
    dataSessionId[x] # None => joins[x] > 0 /\ told[x] = dataSessionId[x]

\* The inductive invariant when no connection joins twice.
OnceInv == IInv /\ SpeakersKnow /\ NoGhostSession /\ OneIdentity

\* A relayed signal reaches the client that was told it is the addressee, and
\* names the sender by the id the sender was told.
SignalsReachAddressee ==
  \A m \in delivered :
    m.event = "webrtc" => told[m.to] = m.for /\ told[m.by] = m.from

\* When a name changes hands in one step, the connection of the session that
\* lost it is closed by the end of that step (createSocketServer.ts:227).
TakeoverDropsOldConnection ==
  [][\A p \in Players :
       LET s == store.sessionIdByPlayerName[p]
           t == store'.sessionIdByPlayerName[p]
       IN  s # None /\ t # None /\ s # t => conn'[SocketOf(s)] = "closed"]_vars

\* A takeover drops the old connection, not the one that takes over: whoever
\* was accepted is connected when the handler returns.
JoinerStaysConnected ==
  [][\A x \in Sockets : joins'[x] # joins[x] => conn'[x] = "client"]_vars

\* A join closes no connection but that of the session it takes over, and that
\* connection speaks for the joiner's name at that moment
\* (createSocketServer.ts:223-237): neither the joiner nor a third client, who may
\* go by another name by now, is cut off by it.
TakeoverSparesOthers ==
  [][\A x, y \in Sockets :
       joins'[x] # joins[x] /\ conn'[y] # conn[y] =>
         /\ y # x /\ dataSessionId[y] # None
         /\ store.sessionsById[dataSessionId[y]].playerName =
              store'.sessionsById[dataSessionId'[x]].playerName]_vars

\* A client that stays connected keeps the session it has until it joins again
\* itself: nothing another client does changes who it is.
ConnectedKeepsSession ==
  [][\A x \in Sockets :
       /\ conn[x] \in {"client", "lost"} /\ conn'[x] = conn[x]
       /\ dataSessionId'[x] # dataSessionId[x]
       => joins'[x] = joins[x] + 1]_vars

-----------------------------------------------------------------------------
(* Refinement and liveness.                                                *)

Retired == {s \in issued : store.sessionsById[s] = None}

Registry == INSTANCE SessionRegistry WITH
  holder <- store.sessionIdByPlayerName, retired <- Retired

\* The two Maps implement the abstract registry of names.
ImplementsRegistry == Registry!Spec

\* A player whose link is gone is not shown as online for ever.
LostPlayersLeave ==
  \A s \in SessionIds :
    (s \in Online(store) /\ conn[SocketOf(s)] # "client") ~> (s \notin Online(store))
=============================================================================
