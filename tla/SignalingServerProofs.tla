------------------------ MODULE SignalingServerProofs ------------------------
(***************************************************************************)
(* Invariants of the signalling server for every number of players,        *)
(* connections and session ids, and the refinement of SessionRegistry.     *)
(*                                                                         *)
(* Only the inductive invariant needs thought.  That a player is online    *)
(* once follows from the agreement of the store's two indexes; a takeover  *)
(* preserves that because the old session runs where the server's routing  *)
(* index says, which needs RoutesAgree; and RoutesAgree survives a         *)
(* disconnect because the session a connection speaks for runs on that     *)
(* connection, which is SendersOnline.                                     *)
(***************************************************************************)
EXTENDS SignalingServer, SessionStoreProofs

-----------------------------------------------------------------------------
(* Types.                                                                  *)

LEMMA InitType == Init => TypeOK
BY EmptyStoreType, ConfigAssumption DEF Init, TypeOK, ConnState

\* The session that SocketOf looks up, and the connection it returns, exist.
LEMMA SocketOfType ==
  ASSUME TypeOK, NEW s \in Online(store)
  PROVE  s \in SessionIds /\ SocketOf(s) \in Sockets
BY DEF TypeOK, Store, Session, SocketOf, Online

LEMMA HandleDisconnectType ==
  ASSUME TypeOK, NEW x \in Sockets, HandleDisconnect(x)
  PROVE  TypeOK'
<1>1. dataSessionId[x] \in SessionIds \cup {None}
  BY DEF TypeOK
<1>2. store' \in Store
  BY <1>1, RemoveByIdType DEF HandleDisconnect, TypeOK
<1>3. QED BY <1>1, <1>2 DEF HandleDisconnect, TypeOK, ConnState

LEMMA AcceptType ==
  ASSUME TypeOK, NEW x \in Sockets, NEW name \in Players \cup {None}, NEW token,
         NEW forceReplace, NEW id \in SessionIds,
         Accept(x, name, token, forceReplace, id)
  PROVE  /\ name \in Players
         /\ issued' \in SUBSET SessionIds
         /\ joins' \in [Sockets -> 0..JoinsPerSocket]
         /\ told' \in [Sockets -> SessionIds \cup {None}]
         /\ \A m \in delivered' : m.to \in Sockets
BY ConfigAssumption DEF Accept, TypeOK, Deliverable

LEMMA NextType == TypeOK /\ [Next]_vars => TypeOK'
<1> SUFFICES ASSUME TypeOK, [Next]_vars PROVE TypeOK'
  OBVIOUS
<1>1. CASE UNCHANGED vars
  BY <1>1 DEF vars, TypeOK
<1>2. ASSUME NEW x \in Sockets, Connect(x) PROVE TypeOK'
  BY <1>2 DEF Connect, TypeOK, ConnState
<1>3. ASSUME NEW x \in Sockets, LoseLink(x) PROVE TypeOK'
  BY <1>3 DEF LoseLink, TypeOK, ConnState
<1>4. ASSUME NEW x \in Sockets, Disconnect(x) \/ PingTimeout(x) PROVE TypeOK'
  BY <1>4, HandleDisconnectType DEF Disconnect, PingTimeout
<1>5. ASSUME NEW x \in Sockets, NEW name \in Players \cup {None},
             NEW token \in Players \cup {None, BadToken}, NEW forceReplace \in ForceFlags
      PROVE  /\ JoinDenied(x, name, token, forceReplace) => TypeOK'
             /\ \A id \in SessionIds :
                  JoinFresh(x, name, token, forceReplace, id) => TypeOK'
             /\ \A id \in SessionIds :
                  JoinReplace(x, name, token, forceReplace, id) => TypeOK'
  <2>1. ASSUME JoinDenied(x, name, token, forceReplace) PROVE TypeOK'
    BY <2>1 DEF JoinDenied, Deliverable, TypeOK
  <2>2. ASSUME NEW id \in SessionIds, JoinFresh(x, name, token, forceReplace, id)
        PROVE  TypeOK'
    <3>1. Accept(x, name, token, forceReplace, id)
      BY <2>2 DEF JoinFresh
    <3>2. store' \in Store
      BY <2>2, <3>1, AcceptType, CreateSessionType DEF JoinFresh, TypeOK
    <3>3. QED BY <2>2, <3>1, <3>2, AcceptType DEF JoinFresh, TypeOK
  <2>3. ASSUME NEW id \in SessionIds, JoinReplace(x, name, token, forceReplace, id)
        PROVE  TypeOK'
    <3> DEFINE old == GetByPlayerName(store, name)
    <3>1. Accept(x, name, token, forceReplace, id)
      BY <2>3 DEF JoinReplace
    <3>2. name \in Players /\ old \in SessionIds
      BY <2>3, <3>1, AcceptType DEF JoinReplace, GetByPlayerName, TypeOK, Store
    <3>3. store' = RemoveById(CreateSession(RemoveById(store, old), id, name, x), old)
      BY <2>3 DEF JoinReplace
    <3>4. store' \in Store
      <4>. HIDE DEF old
      <4>. QED BY <3>2, <3>3, RemoveByIdType, CreateSessionType DEF TypeOK
    <3>5. conn' \in [Sockets -> ConnState]
      BY <2>3 DEF JoinReplace, TypeOK, ConnState
    <3>6. dataSessionId' \in [Sockets -> SessionIds \cup {None}]
      BY <2>3 DEF JoinReplace, TypeOK
    <3>7. socketIdBySessionId' \in [SessionIds -> Sockets \cup {None}]
      BY <2>3, <3>2 DEF JoinReplace, TypeOK
    <3>8. QED BY <3>1, <3>4, <3>5, <3>6, <3>7, AcceptType DEF TypeOK
  <2>4. QED BY <2>1, <2>2, <2>3
<1>6. ASSUME NEW x \in Sockets, NEW target \in SessionIds, Relay(x, target) PROVE TypeOK'
  BY <1>6 DEF Relay, Deliverable, TypeOK
<1>7. ASSUME NEW x \in Sockets, NEW target \in SessionIds, RelayDropped(x, target)
      PROVE  TypeOK'
  BY <1>7 DEF RelayDropped, TypeOK
<1>8. CASE Restart
  BY <1>8, EmptyStoreType DEF Restart, TypeOK, ConnState
<1>9. QED
  BY <1>1, <1>2, <1>3, <1>4, <1>5, <1>6, <1>7, <1>8 DEF Next, Join

\* Every variable has its type in every reachable state.
THEOREM TypeCorrect == Spec => []TypeOK
<1>1. Init => TypeOK
  BY InitType
<1>2. TypeOK /\ [Next]_vars => TypeOK'
  BY NextType
<1>3. QED BY <1>1, <1>2, PTL DEF Spec

-----------------------------------------------------------------------------
(* The inductive invariant.                                                *)

LEMMA InitInv == Init => IInv
<1> SUFFICES ASSUME Init PROVE IInv
  OBVIOUS
<1>1. TypeOK
  BY InitType
<1>2. Online(store) = {} /\ IndexesAgree
  BY EmptyStoreType DEF Init, IndexesAgree, Online, EmptyStore
<1>3. RoutesAgree
  BY DEF Init, RoutesAgree, EmptyStore
<1>4. SendersOnline /\ OnlyIssuedIds /\ FreshConnections
  <2>1. \A x \in Sockets : dataSessionId[x] = None /\ joins[x] = 0
    BY DEF Init
  <2>2. QED BY <1>2, <2>1 DEF SendersOnline, OnlyIssuedIds, FreshConnections, Attached
<1>5. QED BY <1>1, <1>2, <1>3, <1>4 DEF IInv

\* Steps that leave the sessions alone and do not attach a connection that
\* already speaks for one.
LEMMA IdleInv ==
  ASSUME IInv, TypeOK',
         UNCHANGED <<store, socketIdBySessionId, dataSessionId, issued, joins>>,
         \A x \in Sockets : conn'[x] = "new" => conn[x] = "new",
         \A x \in Attached' : x \in Attached \/ dataSessionId[x] = None
  PROVE  IInv'
BY DEF IInv, IndexesAgree, RoutesAgree, SendersOnline, OnlyIssuedIds, FreshConnections

\* A closed connection takes at most its own session with it: any other session
\* runs on another connection.
LEMMA HandleDisconnectInv ==
  ASSUME IInv, NEW x \in Attached, HandleDisconnect(x)
  PROVE  IInv'
<1>1. TypeOK'
  BY HandleDisconnectType DEF IInv, Attached
<1>2. Attached' = Attached \ {x} /\ UNCHANGED <<dataSessionId, issued>>
  BY DEF HandleDisconnect, Attached, IInv, TypeOK
<1>3. CASE dataSessionId[x] = None
  BY <1>1, <1>2, <1>3, IdleInv DEF HandleDisconnect
<1>4. CASE dataSessionId[x] # None
  <2> DEFINE s == dataSessionId[x]
  <2>1. s \in Online(store) /\ s \in SessionIds /\ store.sessionsById[s].socketId = x
    BY <1>4 DEF IInv, SendersOnline, Online
  <2>2. store' = RemoveById(store, s)
        /\ socketIdBySessionId' = [socketIdBySessionId EXCEPT ![s] = None]
    BY <1>4 DEF HandleDisconnect
  <2>3. /\ Consistent(store') /\ Online(store') = Online(store) \ {s}
        /\ store'.sessionsById[s] = None
        /\ \A t \in SessionIds \ {s} : store'.sessionsById[t] = store.sessionsById[t]
    BY <2>1, <2>2, RemoveByIdConsistent DEF IInv, TypeOK, IndexesAgree
  <2>4. RoutesAgree'
    BY <2>1, <2>2, <2>3 DEF IInv, TypeOK, RoutesAgree
  <2>5. SendersOnline'
    BY <1>2, <2>1, <2>3 DEF IInv, SendersOnline, Online
  <2>6. OnlyIssuedIds'
    BY <1>2, <2>3 DEF IInv, OnlyIssuedIds
  <2>7. FreshConnections'
    BY DEF HandleDisconnect, IInv, TypeOK, FreshConnections
  <2>8. QED BY <1>1, <2>3, <2>4, <2>5, <2>6, <2>7 DEF IInv, IndexesAgree
<1>5. QED BY <1>3, <1>4

\* Nothing refers to an id that was never issued.
LEMMA NewId ==
  ASSUME IInv, NEW id \in SessionIds, id \notin issued
  PROVE  store.sessionsById[id] = None
BY DEF IInv, OnlyIssuedIds, Online

LEMMA JoinFreshInv ==
  ASSUME IInv, TypeOK', NEW x \in Sockets, NEW name \in Players, NEW token,
         NEW forceReplace, NEW id \in SessionIds,
         JoinFresh(x, name, token, forceReplace, id)
  PROVE  IInv'
<1>1. /\ id \notin issued /\ issued' = issued \cup {id} /\ id # None
      /\ GetByPlayerName(store, name) = None
      /\ store' = CreateSession(store, id, name, x)
      /\ Attached' = Attached
  BY NoneAssumption DEF JoinFresh, Accept, Attached
<1>2. Consistent(store') /\ Online(store') = Online(store) \cup {id}
  BY <1>1, NewId, CreateSessionConsistent DEF IInv, TypeOK, IndexesAgree
<1>3. store'.sessionsById = [store.sessionsById EXCEPT
                               ![id] = [playerName |-> name, socketId |-> x]]
  BY <1>1 DEF CreateSession
<1>4. [playerName |-> name, socketId |-> x] # None
  BY NoneAssumption DEF Session
<1>5. RoutesAgree'
  BY <1>1, <1>3, <1>4 DEF JoinFresh, IInv, TypeOK, RoutesAgree, Store
<1>6. SendersOnline'
  <2> SUFFICES ASSUME NEW y \in Attached, dataSessionId'[y] # None
               PROVE  /\ dataSessionId'[y] \in Online(store')
                      /\ store'.sessionsById[dataSessionId'[y]].socketId = y
    BY <1>1 DEF SendersOnline
  <2>1. CASE y = x
    BY <1>2, <1>3, <2>1 DEF JoinFresh, IInv, TypeOK, Store
  <2>2. CASE y # x
    <3>1. dataSessionId'[y] = dataSessionId[y]
      BY <2>2 DEF JoinFresh, Attached, IInv, TypeOK
    <3>2. dataSessionId[y] \in Online(store) /\ dataSessionId[y] # id
      BY <1>1, <3>1 DEF IInv, SendersOnline, OnlyIssuedIds
    <3>3. QED BY <1>2, <1>3, <3>1, <3>2 DEF IInv, TypeOK, SendersOnline, Store, Online
  <2>3. QED BY <2>1, <2>2
<1>7. OnlyIssuedIds'
  BY <1>1, <1>2 DEF JoinFresh, IInv, TypeOK, OnlyIssuedIds
<1>8. FreshConnections'
  BY DEF JoinFresh, Accept, IInv, TypeOK, FreshConnections
<1>9. QED BY <1>2, <1>5, <1>6, <1>7, <1>8 DEF IInv, IndexesAgree

\* What a takeover of name from the session old by the session id of x leaves
\* behind: the old session is gone, and so is the connection it ran on.
TakenOver(x, name, id, old) ==
  /\ old # None /\ old # id /\ old \in Online(store) /\ old \in SessionIds
  /\ id \notin issued /\ issued' = issued \cup {id} /\ id # None
  /\ store.sessionsById[old].playerName = name
  /\ SocketOf(old) = store.sessionsById[old].socketId
  /\ store' \in Store /\ Consistent(store')
  /\ Online(store') = (Online(store) \ {old}) \cup {id}
  /\ store'.sessionsById = [store.sessionsById EXCEPT
         ![id] = [playerName |-> name, socketId |-> x], ![old] = None]
  /\ store'.sessionIdByPlayerName =
       [store.sessionIdByPlayerName EXCEPT ![name] = id]
  /\ Attached' = Attached \ {SocketOf(old)}

LEMMA JoinReplaceEffect ==
  ASSUME IInv, NEW x \in Sockets, NEW name \in Players, NEW token,
         NEW forceReplace, NEW id \in SessionIds,
         JoinReplace(x, name, token, forceReplace, id)
  PROVE  TakenOver(x, name, id, GetByPlayerName(store, name))
<1> DEFINE old == GetByPlayerName(store, name)
<1>1. /\ id \notin issued /\ issued' = issued \cup {id} /\ id # None /\ old # None
      /\ store' = RemoveById(CreateSession(RemoveById(store, old), id, name, x), old)
  BY NoneAssumption DEF JoinReplace, Accept
<1>2. store.sessionsById[id] = None
  BY <1>1, NewId
<1>3. /\ store' \in Store /\ Consistent(store')
      /\ old \in Online(store) /\ old # id
      /\ store.sessionsById[old].playerName = name
      /\ Online(store') = (Online(store) \ {old}) \cup {id}
      /\ store'.sessionsById = [store.sessionsById EXCEPT
             ![id] = [playerName |-> name, socketId |-> x], ![old] = None]
      /\ store'.sessionIdByPlayerName =
           [store.sessionIdByPlayerName EXCEPT ![name] = id]
  <2>1. store \in Store /\ Consistent(store)
    BY DEF IInv, TypeOK, IndexesAgree
  <2>2. GetByPlayerName(store, name) # None
    BY <1>1
  <2>3. QED BY <1>1, <1>2, <2>1, <2>2, ReplaceSession
<1>4. SocketOf(old) = store.sessionsById[old].socketId
  BY <1>3 DEF SocketOf, IInv, RoutesAgree, Online
<1>5. Attached' = Attached \ {SocketOf(old)}
  BY DEF JoinReplace, Attached, IInv, TypeOK
<1>6. QED BY <1>1, <1>3, <1>4, <1>5 DEF TakenOver, Online

LEMMA JoinReplaceInv ==
  ASSUME IInv, TypeOK', NEW x \in Sockets, NEW name \in Players, NEW token,
         NEW forceReplace, NEW id \in SessionIds,
         JoinReplace(x, name, token, forceReplace, id)
  PROVE  IInv'
<1> DEFINE old == GetByPlayerName(store, name)
           joined == [playerName |-> name, socketId |-> x]
<1>1. TakenOver(x, name, id, old)
  BY JoinReplaceEffect
<1>2. joined # None /\ joined.socketId = x /\ joined = [playerName |-> name, socketId |-> x]
  BY NoneAssumption DEF Session
<1>3. socketIdBySessionId' = [socketIdBySessionId EXCEPT ![id] = x, ![old] = None]
  BY DEF JoinReplace
<1>4. dataSessionId' = [y \in Sockets |->
                          IF y \in {SocketOf(old)} \cap Attached THEN None
                          ELSE IF y = x THEN id ELSE dataSessionId[y]]
  BY DEF JoinReplace
<1> HIDE DEF old, joined
<1> USE DEF TakenOver
<1>5. RoutesAgree'
  BY <1>1, <1>2, <1>3 DEF IInv, TypeOK, RoutesAgree, Store
<1>6. SendersOnline'
  <2> SUFFICES ASSUME NEW y \in Attached, y # SocketOf(old), dataSessionId'[y] # None
               PROVE  /\ dataSessionId'[y] \in Online(store')
                      /\ store'.sessionsById[dataSessionId'[y]].socketId = y
    BY <1>1 DEF SendersOnline
  <2>1. y \in Sockets
    BY DEF Attached
  <2>2. CASE y = x
    BY <1>1, <1>2, <1>4, <2>1, <2>2 DEF IInv, TypeOK, Store
  <2>3. CASE y # x
    <3>1. dataSessionId'[y] = dataSessionId[y]
      BY <1>4, <2>1, <2>3
    <3>2. /\ dataSessionId[y] \in Online(store)
          /\ store.sessionsById[dataSessionId[y]].socketId = y
          /\ dataSessionId[y] # id /\ dataSessionId[y] # old
      BY <1>1, <3>1 DEF IInv, SendersOnline, OnlyIssuedIds
    <3>3. store'.sessionsById[dataSessionId[y]] = store.sessionsById[dataSessionId[y]]
      BY <1>1, <3>2 DEF IInv, TypeOK, Store, Online
    <3>4. QED BY <1>1, <3>1, <3>2, <3>3
  <2>4. QED BY <2>2, <2>3
<1>7. OnlyIssuedIds'
  BY <1>1, <1>4 DEF IInv, OnlyIssuedIds
<1>8. FreshConnections'
  BY DEF JoinReplace, Accept, IInv, TypeOK, FreshConnections
<1>9. QED BY <1>1, <1>5, <1>6, <1>7, <1>8 DEF IInv, IndexesAgree

LEMMA NextInv == IInv /\ [Next]_vars => IInv'
<1> SUFFICES ASSUME IInv, [Next]_vars PROVE IInv'
  OBVIOUS
<1>1. TypeOK'
  BY NextType DEF IInv
<1>2. CASE UNCHANGED vars
  BY <1>1, <1>2, IdleInv DEF vars, Attached
<1>3. ASSUME NEW x \in Sockets, Connect(x) PROVE IInv'
  <2>1. dataSessionId[x] = None
    BY <1>3 DEF Connect, IInv, FreshConnections
  <2>2. QED BY <1>1, <1>3, <2>1, IdleInv DEF Connect, Attached, IInv, TypeOK
<1>4. ASSUME NEW x \in Sockets, LoseLink(x) PROVE IInv'
  BY <1>1, <1>4, IdleInv DEF LoseLink, Attached, IInv, TypeOK
<1>5. ASSUME NEW x \in Sockets, Disconnect(x) \/ PingTimeout(x) PROVE IInv'
  BY <1>5, HandleDisconnectInv DEF Disconnect, PingTimeout, Attached
<1>6. ASSUME NEW x \in Sockets, Join(x) PROVE IInv'
  <2> PICK name \in Players \cup {None}, token \in Players \cup {None, BadToken},
           forceReplace \in ForceFlags :
         \/ JoinDenied(x, name, token, forceReplace)
         \/ \E id \in SessionIds : JoinFresh(x, name, token, forceReplace, id)
         \/ \E id \in SessionIds : JoinReplace(x, name, token, forceReplace, id)
    BY <1>6 DEF Join
  <2>1. CASE JoinDenied(x, name, token, forceReplace)
    BY <1>1, <2>1, IdleInv DEF JoinDenied, Attached
  <2>2. ASSUME NEW id \in SessionIds, JoinFresh(x, name, token, forceReplace, id)
        PROVE  IInv'
    <3>1. name \in Players
      BY <2>2 DEF JoinFresh, Accept
    <3>2. QED BY <1>1, <2>2, <3>1, JoinFreshInv
  <2>3. ASSUME NEW id \in SessionIds, JoinReplace(x, name, token, forceReplace, id)
        PROVE  IInv'
    <3>1. name \in Players
      BY <2>3 DEF JoinReplace, Accept
    <3>2. QED BY <1>1, <2>3, <3>1, JoinReplaceInv
  <2>4. QED BY <2>1, <2>2, <2>3
<1>7. ASSUME NEW x \in Sockets, NEW target \in SessionIds,
             Relay(x, target) \/ RelayDropped(x, target)
      PROVE  IInv'
  BY <1>1, <1>7, IdleInv DEF Relay, RelayDropped, Attached
<1>8. CASE Restart
  <2>1. Attached' = {} /\ Online(store') = {} /\ Consistent(store')
    BY <1>8, EmptyStoreType DEF Restart, Attached, Online, EmptyStore
  <2>2. RoutesAgree'
    BY <1>8 DEF Restart, RoutesAgree, EmptyStore
  <2>3. OnlyIssuedIds'
    BY <1>8, <2>1 DEF Restart, IInv, OnlyIssuedIds
  <2>4. FreshConnections'
    BY <1>8 DEF Restart, IInv, FreshConnections
  <2>5. QED BY <1>1, <2>1, <2>2, <2>3, <2>4 DEF IInv, IndexesAgree, SendersOnline
<1>9. QED
  BY <1>2, <1>3, <1>4, <1>5, <1>6, <1>7, <1>8 DEF Next

THEOREM Invariance == Spec => []IInv
<1>1. Init => IInv
  BY InitInv
<1>2. IInv /\ [Next]_vars => IInv'
  BY NextInv
<1>3. QED BY <1>1, <1>2, PTL DEF Spec

\* No sequence of joins, takeovers, disconnects and restarts puts a player
\* online twice.
THEOREM PlayersOnlineOnce == Spec => []OneSessionPerPlayer
<1>1. IInv => OneSessionPerPlayer
  BY ConsistentUnique DEF IInv, TypeOK, IndexesAgree, OneSessionPerPlayer
<1>2. QED BY <1>1, Invariance, PTL

\* The store's two Maps never disagree, whatever the handlers do to them.
THEOREM IndexesStayInStep == Spec => []IndexesAgree
<1>1. IInv => IndexesAgree
  BY DEF IInv
<1>2. QED BY <1>1, Invariance, PTL

\* Nor does the routing index, which other lines of the server keep: it leads
\* to exactly the online sessions, each on the connection the store names.
THEOREM RoutesStayInStep == Spec => []RoutesAgree
<1>1. IInv => RoutesAgree
  BY DEF IInv
<1>2. QED BY <1>1, Invariance, PTL

\* A connection that was replaced, or whose session ended, is not heard again.
THEOREM OnlyOnlineSessionsSpeak == Spec => []SendersOnline
<1>1. IInv => SendersOnline
  BY DEF IInv
<1>2. QED BY <1>1, Invariance, PTL

-----------------------------------------------------------------------------
(* Action properties.                                                      *)

\* The steps that matter to the sessions; all others leave the sessions alone
\* and close no connection.
LEMMA StepCases ==
  ASSUME TypeOK, [Next]_vars
  PROVE  \/ /\ UNCHANGED <<store, socketIdBySessionId, dataSessionId, issued, joins, told>>
            /\ Attached \subseteq Attached'
         \/ \E x \in Attached : HandleDisconnect(x)
         \/ \E x \in Sockets, name \in Players, token \in Players \cup {None, BadToken},
               forceReplace \in ForceFlags, id \in SessionIds :
              \/ JoinFresh(x, name, token, forceReplace, id)
              \/ JoinReplace(x, name, token, forceReplace, id)
         \/ Restart
<1> DEFINE Idle ==
      /\ UNCHANGED <<store, socketIdBySessionId, dataSessionId, issued, joins, told>>
      /\ Attached \subseteq Attached'
<1>1. UNCHANGED vars => Idle
  BY DEF vars, Attached
<1>2. ASSUME NEW x \in Sockets, Connect(x) \/ LoseLink(x) PROVE Idle
  BY <1>2 DEF Connect, LoseLink, Attached, TypeOK
<1>3. ASSUME NEW x \in Sockets, Disconnect(x) \/ PingTimeout(x)
      PROVE  x \in Attached /\ HandleDisconnect(x)
  BY <1>3 DEF Disconnect, PingTimeout, Attached
<1>4. ASSUME NEW x \in Sockets, NEW target \in SessionIds,
             Relay(x, target) \/ RelayDropped(x, target)
      PROVE  Idle
  BY <1>4 DEF Relay, RelayDropped, Attached
<1>5. ASSUME NEW x, NEW name, NEW token, NEW forceReplace,
             JoinDenied(x, name, token, forceReplace)
      PROVE  Idle
  BY <1>5 DEF JoinDenied, Attached
<1>6. ASSUME NEW x, NEW name \in Players \cup {None}, NEW token, NEW forceReplace, NEW id,
             JoinFresh(x, name, token, forceReplace, id)
             \/ JoinReplace(x, name, token, forceReplace, id)
      PROVE  name \in Players
  BY <1>6 DEF JoinFresh, JoinReplace, Accept
<1> HIDE DEF Idle
<1>7. CASE Next
  BY <1>2, <1>3, <1>4, <1>5, <1>6, <1>7 DEF Next, Join, Idle
<1>8. QED BY <1>1, <1>7 DEF Idle

\* Only a join gives a connection that stays open another session.
THEOREM SessionsAreKept == Spec => ConnectedKeepsSession
<1> DEFINE Kept(x) ==
      /\ conn[x] \in {"client", "lost"} /\ conn'[x] = conn[x]
      /\ dataSessionId'[x] # dataSessionId[x]
      => joins'[x] = joins[x] + 1
<1>1. TypeOK /\ [Next]_vars => [\A x \in Sockets : Kept(x)]_vars
  <2> SUFFICES ASSUME TypeOK, Next, NEW y \in Sockets, conn'[y] = conn[y],
                      conn[y] \in {"client", "lost"},
                      dataSessionId'[y] # dataSessionId[y]
               PROVE  joins'[y] = joins[y] + 1
    OBVIOUS
  <2>1. ASSUME NEW x \in Sockets, NEW name \in Players \cup {None}, NEW token,
               NEW forceReplace, NEW id \in SessionIds,
               JoinFresh(x, name, token, forceReplace, id)
        PROVE  joins'[y] = joins[y] + 1
    BY <2>1 DEF JoinFresh, Accept, TypeOK
  <2>2. ASSUME NEW x \in Sockets, NEW name \in Players \cup {None}, NEW token,
               NEW forceReplace, NEW id \in SessionIds,
               JoinReplace(x, name, token, forceReplace, id)
        PROVE  joins'[y] = joins[y] + 1
    <3> DEFINE gone == {SocketOf(GetByPlayerName(store, name))} \cap Attached
    <3>1. /\ conn'[y] = IF y \in gone THEN "closed" ELSE conn[y]
          /\ dataSessionId'[y] = IF y \in gone THEN None
                                 ELSE IF y = x THEN id ELSE dataSessionId[y]
      BY <2>2 DEF JoinReplace
    <3>2. y \notin gone /\ y = x
      <4>. HIDE DEF gone
      <4>. QED BY <3>1
    <3>3. QED BY <2>2, <3>2 DEF JoinReplace, Accept, TypeOK
  <2>3. ASSUME NEW x \in Sockets, HandleDisconnect(x) \/ Restart PROVE FALSE
    BY <2>3 DEF HandleDisconnect, Restart
  <2>4. QED BY <2>1, <2>2, <2>3, StepCases DEF Attached
<1>2. QED BY <1>1, TypeCorrect, PTL DEF Spec, ConnectedKeepsSession

\* A session runs on a connection that was opened, so one that is not attached
\* any more is closed.  TakeoverDropsOldConnection needs it: the takeover closes
\* the connections it finds attached and leaves the others as they are.
SessionsOpened ==
  \A s \in Online(store) : conn[store.sessionsById[s].socketId] # "new"

LEMMA SessionsOpenedStep ==
  ASSUME IInv, SessionsOpened, [Next]_vars
  PROVE  SessionsOpened'
<1>1. TypeOK /\ TypeOK'
  BY NextInv DEF IInv
<1>2. \A x \in Sockets : conn'[x] = "new" => conn[x] = "new"
  <2>1. ASSUME NEW x \in Sockets,
               Connect(x) \/ LoseLink(x) \/ HandleDisconnect(x)
        PROVE  \A y \in Sockets : conn'[y] = "new" => conn[y] = "new"
    BY <1>1, <2>1 DEF Connect, LoseLink, HandleDisconnect, TypeOK
  <2>2. ASSUME NEW x \in Sockets, Join(x)
        PROVE  \A y \in Sockets : conn'[y] = "new" => conn[y] = "new"
    BY <2>2 DEF Join, JoinDenied, JoinFresh, JoinReplace
  <2>3. CASE Restart
    BY <2>3 DEF Restart
  <2>4. QED
    BY <2>1, <2>2, <2>3 DEF Next, vars, Disconnect, PingTimeout, Relay, RelayDropped
<1>3. ASSUME NEW s \in Online(store'),
             \/ /\ s \in Online(store)
                /\ store'.sessionsById[s] = store.sessionsById[s]
             \/ conn[store'.sessionsById[s].socketId] = "client"
      PROVE  conn'[store'.sessionsById[s].socketId] # "new"
  <2>1. store'.sessionsById[s].socketId \in Sockets
    BY <1>1 DEF TypeOK, Store, Session, Online
  <2>2. conn[store'.sessionsById[s].socketId] # "new"
    BY <1>3 DEF SessionsOpened
  <2>3. QED BY <1>2, <2>1, <2>2
<1>4. CASE UNCHANGED store
  BY <1>3, <1>4
     DEF SessionsOpened, Online
<1>5. ASSUME NEW x \in Attached, HandleDisconnect(x) PROVE SessionsOpened'
  <2>1. CASE dataSessionId[x] = None
    BY <1>4, <1>5, <2>1 DEF HandleDisconnect
  <2>2. CASE dataSessionId[x] # None
    <3>1. dataSessionId[x] \in SessionIds /\ store' = RemoveById(store, dataSessionId[x])
      BY <1>1, <1>5, <2>2 DEF HandleDisconnect, TypeOK, Attached
    <3>2. \A s \in Online(store') :
            s \in Online(store) /\ store'.sessionsById[s] = store.sessionsById[s]
      BY <1>1, <3>1, RemoveByIdConsistent DEF IInv, IndexesAgree, TypeOK, Online
    <3>3. QED BY <1>3, <3>2 DEF SessionsOpened
  <2>3. QED BY <2>1, <2>2
<1>6. ASSUME NEW x \in Sockets, NEW name \in Players, NEW token, NEW forceReplace,
             NEW id \in SessionIds, JoinFresh(x, name, token, forceReplace, id)
      PROVE  SessionsOpened'
  <2>1. /\ conn[x] = "client"
        /\ store'.sessionsById = [store.sessionsById EXCEPT
                                    ![id] = [playerName |-> name, socketId |-> x]]
    BY <1>6 DEF JoinFresh, Accept, CreateSession
  <2>2. \A s \in Online(store') :
          \/ s \in Online(store) /\ store'.sessionsById[s] = store.sessionsById[s]
          \/ store'.sessionsById[s].socketId = x
    BY <1>1, <2>1 DEF TypeOK, Store, Online
  <2>3. QED BY <1>3, <2>1, <2>2 DEF SessionsOpened
<1>7. ASSUME NEW x \in Sockets, NEW name \in Players, NEW token, NEW forceReplace,
             NEW id \in SessionIds, JoinReplace(x, name, token, forceReplace, id)
      PROVE  SessionsOpened'
  <2> DEFINE old == GetByPlayerName(store, name)
             joined == [playerName |-> name, socketId |-> x]
  <2>1. TakenOver(x, name, id, old)
    BY <1>7, JoinReplaceEffect
  <2>2. /\ joined = [playerName |-> name, socketId |-> x]
        /\ joined.socketId = x /\ conn[x] = "client"
    BY <1>7 DEF JoinReplace, Accept
  <2> HIDE DEF old, joined
  <2> USE DEF TakenOver
  <2>3. \A s \in Online(store') :
          \/ s \in Online(store) /\ store'.sessionsById[s] = store.sessionsById[s]
          \/ store'.sessionsById[s] = joined
    BY <1>1, <2>1, <2>2 DEF TypeOK, Store, Online
  <2>4. QED BY <1>3, <2>2, <2>3 DEF SessionsOpened
<1>8. CASE Restart
  BY <1>8 DEF Restart, SessionsOpened, Online, EmptyStore
<1>9. QED BY <1>1, <1>4, <1>5, <1>6, <1>7, <1>8, StepCases

\* Only a takeover passes a name on in one step, and it leaves no connection
\* behind under which the loser of the name is still heard.
LEMMA TakeoverDrops ==
  ASSUME IInv, SessionsOpened, [Next]_vars, NEW p \in Players,
         store.sessionIdByPlayerName[p] # None,
         store'.sessionIdByPlayerName[p] # None,
         store'.sessionIdByPlayerName[p] # store.sessionIdByPlayerName[p]
  PROVE  conn'[SocketOf(store.sessionIdByPlayerName[p])] = "closed"
<1>1. TypeOK /\ store \in Store /\ Consistent(store)
  BY DEF IInv, TypeOK, IndexesAgree
<1>2. ASSUME NEW x \in Attached, HandleDisconnect(x) PROVE FALSE
  BY <1>1, <1>2 DEF HandleDisconnect, RemoveById, Store
<1>3. ASSUME NEW x \in Sockets, NEW name \in Players, NEW token, NEW forceReplace,
             NEW id \in SessionIds, JoinFresh(x, name, token, forceReplace, id)
      PROVE  FALSE
  <2>1. store.sessionIdByPlayerName[name] = None
    BY <1>1, <1>3, GetByPlayerNameFinds DEF JoinFresh
  <2>2. store'.sessionIdByPlayerName = [store.sessionIdByPlayerName EXCEPT ![name] = id]
    BY <1>3 DEF JoinFresh, CreateSession
  <2>3. QED BY <1>1, <2>1, <2>2 DEF Store
<1>4. ASSUME NEW x \in Sockets, NEW name \in Players, NEW token, NEW forceReplace,
             NEW id \in SessionIds, JoinReplace(x, name, token, forceReplace, id)
      PROVE  conn'[SocketOf(store.sessionIdByPlayerName[p])] = "closed"
  <2> DEFINE old == GetByPlayerName(store, name)
  <2>1. TakenOver(x, name, id, old)
    BY <1>4, JoinReplaceEffect
  <2>2. p = name /\ old = store.sessionIdByPlayerName[p]
    BY <1>1, <2>1, GetByPlayerNameFinds DEF TakenOver, Store
  <2>3. SocketOf(old) \in Sockets /\ conn[SocketOf(old)] \in ConnState \ {"new"}
    BY <1>1, <2>1, SocketOfType DEF TakenOver, SessionsOpened, TypeOK
  <2>4. conn' = [y \in Sockets |-> IF y \in {SocketOf(old)} \cap Attached
                                   THEN "closed" ELSE conn[y]]
    BY <1>4 DEF JoinReplace
  <2> HIDE DEF old
  <2> USE DEF TakenOver
  <2>5. conn'[SocketOf(old)] = "closed"
    BY <2>3, <2>4 DEF Attached, ConnState
  <2>6. QED BY <2>2, <2>5
<1>5. CASE Restart
  BY <1>5 DEF Restart, EmptyStore
<1>6. QED BY <1>1, <1>2, <1>3, <1>4, <1>5, StepCases

\* Whoever loses his name to a newcomer is disconnected by the end of that step.
THEOREM TakeoversDropTheLoser == Spec => TakeoverDropsOldConnection
<1> DEFINE Dropped(p) ==
      LET s == store.sessionIdByPlayerName[p]
          t == store'.sessionIdByPlayerName[p]
      IN  s # None /\ t # None /\ s # t => conn'[SocketOf(s)] = "closed"
<1>1. Init => SessionsOpened
  BY DEF Init, SessionsOpened, Online, EmptyStore
<1>2. IInv /\ SessionsOpened /\ [Next]_vars => SessionsOpened'
  BY SessionsOpenedStep
<1>3. IInv /\ SessionsOpened /\ [Next]_vars => [\A p \in Players : Dropped(p)]_vars
  BY TakeoverDrops
<1>4. QED
  BY <1>1, <1>2, <1>3, Invariance, PTL DEF Spec, TakeoverDropsOldConnection

-----------------------------------------------------------------------------
(* Clients that join once per connection.                                  *)

LEMMA SocketOfRecord ==
  ASSUME IInv, NEW s \in Online(store)
  PROVE  SocketOf(s) = store.sessionsById[s].socketId /\ s \in SessionIds
BY DEF SocketOf, IInv, RoutesAgree, Online

\* Steps that leave sessions alone and close no connection.
LEMMA IdleOnce ==
  ASSUME OnceInv, IInv',
         UNCHANGED <<store, socketIdBySessionId, dataSessionId, joins, told>>,
         Attached \subseteq Attached'
  PROVE  OnceInv'
BY DEF OnceInv, SpeakersKnow, NoGhostSession, OneIdentity, SocketOf

LEMMA HandleDisconnectOnce ==
  ASSUME OnceInv, IInv', NEW x \in Attached, HandleDisconnect(x)
  PROVE  OnceInv'
<1>1. /\ Attached' = Attached \ {x} /\ x \in Sockets
      /\ UNCHANGED <<dataSessionId, joins, told>>
  BY DEF HandleDisconnect, Attached, OnceInv, IInv, TypeOK
<1>2. SpeakersKnow'
  BY <1>1 DEF OnceInv, SpeakersKnow
<1>3. \A s \in Online(store') :
        /\ s \in Online(store) /\ s # dataSessionId[x]
        /\ store'.sessionsById[s] = store.sessionsById[s]
  <2>1. CASE dataSessionId[x] = None
    BY <2>1, NoneAssumption DEF HandleDisconnect, Online
  <2>2. CASE dataSessionId[x] # None
    <3>1. dataSessionId[x] \in SessionIds
      BY <1>1, <2>2 DEF OnceInv, IInv, TypeOK
    <3>2. store' = RemoveById(store, dataSessionId[x])
      BY <2>2 DEF HandleDisconnect
    <3>3. store \in Store /\ Consistent(store)
      BY DEF OnceInv, IInv, TypeOK, IndexesAgree
    <3>4. QED BY <3>1, <3>2, <3>3, RemoveByIdConsistent DEF Online
  <2>3. QED BY <2>1, <2>2
<1>4. ASSUME NEW s \in Online(store')
      PROVE  SocketOf(s)' \in Attached' /\ dataSessionId'[SocketOf(s)'] = s
  <2>1. SocketOf(s)' = SocketOf(s)
    BY <1>3, <1>4, SocketOfRecord DEF OnceInv, SocketOf, IInv, RoutesAgree, Online
  <2>2. SocketOf(s) \in Attached /\ dataSessionId[SocketOf(s)] = s /\ SocketOf(s) # x
    BY <1>3, <1>4 DEF OnceInv, NoGhostSession, OneIdentity
  <2>3. QED BY <1>1, <2>1, <2>2
<1>5. QED BY <1>2, <1>4 DEF OnceInv, NoGhostSession, OneIdentity

\* A connection that may still join has no session yet, so nobody is online on it.
LEMMA JoinerIsNew ==
  ASSUME OnceInv, JoinsPerSocket = 1, NEW x \in Sockets, joins[x] < JoinsPerSocket
  PROVE  /\ dataSessionId[x] = None
         /\ \A s \in Online(store) : SocketOf(s) # x
<1>1. joins[x] = 0
  BY DEF OnceInv, IInv, TypeOK
<1>2. dataSessionId[x] = None
  BY <1>1 DEF OnceInv, SpeakersKnow
<1>3. QED BY <1>2, NoneAssumption DEF OnceInv, OneIdentity, Online

LEMMA JoinFreshOnce ==
  ASSUME OnceInv, IInv', JoinsPerSocket = 1, NEW x \in Sockets, NEW name \in Players,
         NEW token, NEW forceReplace, NEW id \in SessionIds,
         JoinFresh(x, name, token, forceReplace, id)
  PROVE  OnceInv'
<1>1. /\ conn[x] = "client" /\ joins[x] < JoinsPerSocket /\ id \notin issued
      /\ joins' = [joins EXCEPT ![x] = @ + 1] /\ told' = [told EXCEPT ![x] = id]
      /\ store' = CreateSession(store, id, name, x)
      /\ dataSessionId' = [dataSessionId EXCEPT ![x] = id]
      /\ UNCHANGED conn /\ Attached' = Attached
  BY DEF JoinFresh, Accept, Attached
<1>2. dataSessionId[x] = None /\ \A s \in Online(store) : SocketOf(s) # x
  BY <1>1, JoinerIsNew
<1>3. SpeakersKnow'
  BY <1>1 DEF OnceInv, IInv, TypeOK, SpeakersKnow
<1>4. store'.sessionsById = [store.sessionsById EXCEPT
                               ![id] = [playerName |-> name, socketId |-> x]]
  BY <1>1 DEF CreateSession
<1>5. ASSUME NEW s \in Online(store')
      PROVE  SocketOf(s)' \in Attached' /\ dataSessionId'[SocketOf(s)'] = s
  <2>1. SocketOf(s)' = store'.sessionsById[s].socketId /\ s \in SessionIds
    BY <1>5, SocketOfRecord DEF SocketOf, IInv, RoutesAgree, Online
  <2>2. CASE s = id
    BY <1>1, <1>4, <2>1, <2>2 DEF OnceInv, IInv, TypeOK, Store, Attached
  <2>3. CASE s # id
    <3>1. store'.sessionsById[s] = store.sessionsById[s] /\ s \in Online(store)
      BY <1>4, <1>5, <2>1, <2>3 DEF OnceInv, IInv, TypeOK, Store, Online
    <3>2. SocketOf(s)' = SocketOf(s)
      BY <2>1, <3>1, SocketOfRecord DEF OnceInv
    <3>3. SocketOf(s) # x /\ SocketOf(s) \in Attached /\ dataSessionId[SocketOf(s)] = s
      BY <1>2, <3>1 DEF OnceInv, NoGhostSession, OneIdentity
    <3>4. QED BY <1>1, <3>2, <3>3 DEF OnceInv, IInv, TypeOK, Attached
  <2>4. QED BY <2>2, <2>3
<1>6. QED BY <1>3, <1>5 DEF OnceInv, NoGhostSession, OneIdentity

LEMMA JoinReplaceOnce ==
  ASSUME OnceInv, IInv', JoinsPerSocket = 1, NEW x \in Sockets, NEW name \in Players,
         NEW token, NEW forceReplace, NEW id \in SessionIds,
         JoinReplace(x, name, token, forceReplace, id)
  PROVE  OnceInv' /\ conn'[x] = "client"
<1> DEFINE old == GetByPlayerName(store, name)
           joined == [playerName |-> name, socketId |-> x]
<1>1. TakenOver(x, name, id, old)
  <2>. IInv
    BY DEF OnceInv
  <2>. QED BY JoinReplaceEffect
<1>2. /\ conn[x] = "client" /\ joins[x] < JoinsPerSocket
      /\ joins' = [joins EXCEPT ![x] = @ + 1] /\ told' = [told EXCEPT ![x] = id]
  BY DEF JoinReplace, Accept
<1>3. dataSessionId[x] = None /\ \A s \in Online(store) : SocketOf(s) # x
  BY <1>2, JoinerIsNew
<1>4. /\ dataSessionId' = [y \in Sockets |->
                             IF y \in {SocketOf(old)} \cap Attached THEN None
                             ELSE IF y = x THEN id ELSE dataSessionId[y]]
      /\ conn' = [y \in Sockets |-> IF y \in {SocketOf(old)} \cap Attached
                                    THEN "closed" ELSE conn[y]]
  BY DEF JoinReplace
<1>5. store'.sessionsById = [store.sessionsById EXCEPT ![id] = joined, ![old] = None]
      /\ joined.socketId = x
  BY <1>1 DEF TakenOver
<1> HIDE DEF old, joined
<1> USE DEF TakenOver
<1>6. SpeakersKnow'
  BY <1>2, <1>4 DEF OnceInv, IInv, TypeOK, SpeakersKnow
<1>7. ASSUME NEW s \in Online(store')
      PROVE  SocketOf(s)' \in Attached' /\ dataSessionId'[SocketOf(s)'] = s
  <2>1. SocketOf(s)' = store'.sessionsById[s].socketId /\ s \in SessionIds
    BY <1>7, SocketOfRecord DEF SocketOf, IInv, RoutesAgree, Online
  <2>2. CASE s = id
    <3>1. SocketOf(s)' = x /\ SocketOf(old) # x
      BY <1>1, <1>3, <1>5, <2>1, <2>2 DEF OnceInv, IInv, TypeOK, Store
    <3>2. QED BY <1>1, <1>2, <1>4, <2>2, <3>1 DEF Attached
  <2>3. CASE s # id
    <3>1. /\ s \in Online(store) /\ s # old
          /\ store'.sessionsById[s] = store.sessionsById[s]
      <4>1. s \in Online(store) /\ s # old
        BY <1>1, <1>7, <2>3
      <4>2. QED BY <1>5, <2>1, <2>3, <4>1 DEF OnceInv, IInv, TypeOK, Store
    <3>2. SocketOf(s)' = SocketOf(s)
      BY <2>1, <3>1, SocketOfRecord DEF OnceInv
    <3>3. /\ SocketOf(s) # x /\ SocketOf(s) \in Attached
          /\ dataSessionId[SocketOf(s)] = s /\ dataSessionId[SocketOf(old)] = old
      BY <1>1, <1>3, <3>1 DEF OnceInv, NoGhostSession, OneIdentity
    <3>4. SocketOf(s) # SocketOf(old) /\ SocketOf(s) \in Sockets
      BY <3>1, <3>3 DEF Attached
    <3>5. QED BY <1>1, <1>4, <3>2, <3>3, <3>4
  <2>4. QED BY <2>2, <2>3
<1>8. conn'[x] = "client"
  BY <1>1, <1>2, <1>3, <1>4
<1>9. QED BY <1>6, <1>7, <1>8 DEF OnceInv, NoGhostSession, OneIdentity

LEMMA InitOnce == Init => OnceInv
<1> SUFFICES ASSUME Init PROVE OnceInv
  OBVIOUS
<1>1. Online(store) = {}
  BY DEF Init, Online, EmptyStore
<1>2. SpeakersKnow
  BY DEF Init, SpeakersKnow
<1>3. QED BY <1>1, <1>2, InitInv DEF OnceInv, NoGhostSession, OneIdentity

LEMMA NextOnce ==
  ASSUME JoinsPerSocket = 1, OnceInv, [Next]_vars
  PROVE  OnceInv'
<1>1. IInv' /\ TypeOK
  BY NextInv DEF OnceInv, IInv
<1>2. CASE Restart
  <2>1. Online(store') = {}
    BY <1>2 DEF Restart, Online, EmptyStore
  <2>2. SpeakersKnow'
    BY <1>2 DEF Restart, OnceInv, SpeakersKnow
  <2>3. QED BY <1>1, <2>1, <2>2 DEF OnceInv, NoGhostSession, OneIdentity
<1>3. QED
  BY <1>1, <1>2, StepCases, IdleOnce, HandleDisconnectOnce, JoinFreshOnce, JoinReplaceOnce

THEOREM OnceInvariance ==
  ASSUME JoinsPerSocket = 1
  PROVE  Spec => []OnceInv
<1>1. Init => OnceInv
  BY InitOnce
<1>2. OnceInv /\ [Next]_vars => OnceInv'
  BY NextOnce
<1>3. QED BY <1>1, <1>2, PTL DEF Spec

\* As long as no client joins twice on one connection, a session is online only
\* while a connection that the server still holds open can end it.
THEOREM NoGhosts ==
  ASSUME JoinsPerSocket = 1
  PROVE  Spec => []NoGhostSession
<1>1. OnceInv => NoGhostSession
  BY DEF OnceInv
<1>2. QED BY <1>1, OnceInvariance, PTL

\* And then it is the one session its connection speaks for: nobody is listed
\* under a name his connection has given up.
THEOREM NamesMatchSpeakers ==
  ASSUME JoinsPerSocket = 1
  PROVE  Spec => []OneIdentity
<1>1. OnceInv => OneIdentity
  BY DEF OnceInv
<1>2. QED BY <1>1, OnceInvariance, PTL

\* Under the same assumption a relayed signal reaches the client it was meant
\* for, under the name the sender goes by.
THEOREM SignalsReach ==
  ASSUME JoinsPerSocket = 1
  PROVE  Spec => []SignalsReachAddressee
<1>1. Init => OnceInv /\ SignalsReachAddressee
  BY InitOnce DEF Init, SignalsReachAddressee
<1>2. ASSUME OnceInv, SignalsReachAddressee, [Next]_vars
      PROVE  SignalsReachAddressee'
  <2>1. CASE UNCHANGED vars
    BY <1>2, <2>1 DEF vars, SignalsReachAddressee
  <2>2. ASSUME NEW x \in Sockets, NEW target \in SessionIds, Relay(x, target)
        PROVE  SignalsReachAddressee'
    <3>1. /\ dataSessionId[x] # None /\ store.sessionsById[target] # None
          /\ UNCHANGED told
          /\ delivered' = Deliverable({[event |-> "webrtc",
                                       to |-> socketIdBySessionId[target],
                                       from |-> dataSessionId[x], for |-> target, by |-> x]})
      BY <2>2 DEF Relay
    <3>2. target \in Online(store) /\ SocketOf(target) = socketIdBySessionId[target]
      BY <2>2 DEF Relay, SocketOf, Online
    <3>3. told[x] = dataSessionId[x]
      BY <1>2, <3>1 DEF OnceInv, SpeakersKnow
    <3>4. dataSessionId[SocketOf(target)] = target /\ SocketOf(target) \in Sockets
      BY <1>2, <3>2 DEF OnceInv, OneIdentity, NoGhostSession, Attached
    <3>5. target # None
      BY NoneAssumption
    <3>6. told[SocketOf(target)] = target
      BY <1>2, <3>4, <3>5 DEF OnceInv, SpeakersKnow
    <3>7. \A m \in delivered' : m = [event |-> "webrtc", to |-> SocketOf(target),
                                    from |-> dataSessionId[x], for |-> target, by |-> x]
      BY <3>1, <3>2 DEF Deliverable
    <3>8. QED BY <1>2, <3>1, <3>3, <3>6, <3>7 DEF SignalsReachAddressee, OnceInv, SpeakersKnow
  <2>3. ASSUME \A m \in delivered' : m.event # "webrtc"
        PROVE  SignalsReachAddressee'
    BY <2>3 DEF SignalsReachAddressee
  <2>4. ASSUME NEW x \in Sockets,
               \/ Connect(x) \/ LoseLink(x) \/ Disconnect(x) \/ PingTimeout(x) \/ Restart
               \/ \E target \in SessionIds : RelayDropped(x, target)
        PROVE  \A m \in delivered' : m.event # "webrtc"
    BY <2>4 DEF Connect, LoseLink, Disconnect, PingTimeout, HandleDisconnect, Restart,
                RelayDropped
  <2>5. ASSUME NEW x \in Sockets, Join(x)
        PROVE  \A m \in delivered' : m.event # "webrtc"
    BY <2>5 DEF Join, JoinDenied, JoinFresh, JoinReplace, Accept, Deliverable
  <2>6. CASE Restart
    BY <2>3, <2>6 DEF Restart
  <2>7. QED BY <1>2, <2>1, <2>2, <2>3, <2>4, <2>5, <2>6 DEF Next
<1>3. OnceInv /\ [Next]_vars => OnceInv'
  BY NextOnce
<1>4. QED BY <1>1, <1>2, <1>3, PTL DEF Spec

\* And whoever takes a name over is still connected afterwards.
THEOREM JoinersStayConnected ==
  ASSUME JoinsPerSocket = 1
  PROVE  Spec => JoinerStaysConnected
<1>1. OnceInv /\ [Next]_vars
        => [\A x \in Sockets : joins'[x] # joins[x] => conn'[x] = "client"]_vars
  <2> SUFFICES ASSUME OnceInv, Next, NEW y \in Sockets, joins'[y] # joins[y]
               PROVE  conn'[y] = "client"
    OBVIOUS
  <2>1. TypeOK /\ IInv'
    BY NextInv DEF OnceInv, IInv
  <2>2. ASSUME NEW x \in Sockets, NEW name \in Players, NEW token, NEW forceReplace,
               NEW id \in SessionIds, JoinFresh(x, name, token, forceReplace, id)
        PROVE  conn'[y] = "client"
    BY <2>1, <2>2 DEF JoinFresh, Accept, TypeOK
  <2>3. ASSUME NEW x \in Sockets, NEW name \in Players, NEW token, NEW forceReplace,
               NEW id \in SessionIds, JoinReplace(x, name, token, forceReplace, id)
        PROVE  conn'[y] = "client"
    <3>1. y = x
      BY <2>1, <2>3 DEF JoinReplace, Accept, TypeOK
    <3>2. QED BY <2>1, <2>3, <3>1, JoinReplaceOnce
  <2>4. ASSUME NEW x \in Sockets, HandleDisconnect(x) \/ Restart PROVE FALSE
    BY <2>4 DEF HandleDisconnect, Restart
  <2>5. QED BY <2>1, <2>2, <2>3, <2>4, StepCases DEF Attached
<1>2. Init => OnceInv
  BY InitOnce
<1>3. OnceInv /\ [Next]_vars => OnceInv'
  BY NextOnce
<1>4. QED BY <1>1, <1>2, <1>3, PTL DEF Spec, JoinerStaysConnected

\* And a takeover closes no connection but the one that speaks for its name.
LEMMA JoinReplaceSpares ==
  ASSUME OnceInv, JoinsPerSocket = 1, NEW x \in Sockets, NEW name \in Players,
         NEW token, NEW forceReplace, NEW id \in SessionIds,
         JoinReplace(x, name, token, forceReplace, id),
         NEW y \in Sockets, conn'[y] # conn[y]
  PROVE  /\ y # x /\ dataSessionId[y] # None
         /\ store.sessionsById[dataSessionId[y]].playerName =
              store'.sessionsById[dataSessionId'[x]].playerName
<1> DEFINE old == GetByPlayerName(store, name)
<1>1. TakenOver(x, name, id, old)
  <2>. IInv
    BY DEF OnceInv
  <2>. QED BY JoinReplaceEffect
<1>2. conn[x] = "client" /\ joins[x] < JoinsPerSocket
  BY DEF JoinReplace, Accept
<1>3. \A s \in Online(store) : SocketOf(s) # x
  BY <1>2, JoinerIsNew
<1>4. /\ dataSessionId' = [z \in Sockets |->
                             IF z \in {SocketOf(old)} \cap Attached THEN None
                             ELSE IF z = x THEN id ELSE dataSessionId[z]]
      /\ conn' = [z \in Sockets |-> IF z \in {SocketOf(old)} \cap Attached
                                    THEN "closed" ELSE conn[z]]
  BY DEF JoinReplace
<1> HIDE DEF old
<1> USE DEF TakenOver
<1>5. y = SocketOf(old) /\ y # x
  BY <1>1, <1>3, <1>4
<1>6. dataSessionId[y] = old /\ old # None
  BY <1>1, <1>5 DEF OnceInv, OneIdentity
<1>7. dataSessionId'[x] = id
  BY <1>4, <1>5
<1>8. store'.sessionsById[id].playerName = name
  BY <1>1 DEF OnceInv, IInv, TypeOK, Store
<1>9. QED BY <1>1, <1>5, <1>6, <1>7, <1>8

\* So nobody but the client that loses his name is cut off by a takeover.
THEOREM OthersAreSpared ==
  ASSUME JoinsPerSocket = 1
  PROVE  Spec => TakeoverSparesOthers
<1> DEFINE Spared(x, y) ==
      /\ y # x /\ dataSessionId[y] # None
      /\ store.sessionsById[dataSessionId[y]].playerName =
           store'.sessionsById[dataSessionId'[x]].playerName
<1>1. OnceInv /\ [Next]_vars
        => [\A x, y \in Sockets :
              joins'[x] # joins[x] /\ conn'[y] # conn[y] => Spared(x, y)]_vars
  <2> SUFFICES ASSUME OnceInv, Next, NEW x \in Sockets, NEW y \in Sockets,
                      joins'[x] # joins[x], conn'[y] # conn[y]
               PROVE  Spared(x, y)
    OBVIOUS
  <2>1. TypeOK
    BY DEF OnceInv, IInv
  <2>2. ASSUME NEW z \in Sockets, NEW name \in Players, NEW token, NEW forceReplace,
               NEW id \in SessionIds, JoinReplace(z, name, token, forceReplace, id)
        PROVE  Spared(x, y)
    <3>1. x = z
      BY <2>1, <2>2 DEF JoinReplace, Accept, TypeOK
    <3>2. QED BY <2>2, <3>1, JoinReplaceSpares
  <2>3. ASSUME NEW z, NEW name, NEW token, NEW forceReplace, NEW id,
               JoinFresh(z, name, token, forceReplace, id)
        PROVE  FALSE
    BY <2>3 DEF JoinFresh
  <2>4. ASSUME NEW z, HandleDisconnect(z) \/ Restart
        PROVE  FALSE
    BY <2>4 DEF HandleDisconnect, Restart
  <2> HIDE DEF Spared
  <2>5. QED BY <2>1, <2>2, <2>3, <2>4, StepCases
<1>2. Init => OnceInv
  BY InitOnce
<1>3. OnceInv /\ [Next]_vars => OnceInv'
  BY NextOnce
<1>4. QED BY <1>1, <1>2, <1>3, PTL DEF Spec, TakeoverSparesOthers

-----------------------------------------------------------------------------
(* The Maps implement the abstract registry.                               *)

\* A name is held by its online session; an id not issued is neither held nor
\* retired.
LEMMA HoldersOnline ==
  ASSUME IInv
  PROVE  /\ Registry!Holding = Online(store)
         /\ Retired = issued \ Online(store)
<1>1. store \in Store /\ Consistent(store)
  BY DEF IInv, TypeOK, IndexesAgree
<1>2. Registry!Holding = {store.sessionIdByPlayerName[p] : p \in Players} \ {None}
  BY DEF Registry!Holding
<1>3. ASSUME NEW p \in Players, store.sessionIdByPlayerName[p] # None
      PROVE  store.sessionIdByPlayerName[p] \in Online(store)
  BY <1>1, <1>3 DEF Consistent, Online, Store
<1>4. ASSUME NEW s \in Online(store)
      PROVE  \E p \in Players : store.sessionIdByPlayerName[p] = s /\ s # None
  <2>1. store.sessionsById[s].playerName \in Players
    BY <1>1 DEF Online, Store, Session
  <2>2. QED BY <1>1, <2>1, NoneAssumption DEF Consistent, Online
<1>5. Registry!Holding = Online(store)
  BY <1>2, <1>3, <1>4
<1>6. Retired = issued \ Online(store)
  BY DEF IInv, TypeOK, Retired, Online
<1>7. QED BY <1>5, <1>6

\* Every step of the server is a step of the registry, or none.
LEMMA StepRefines ==
  ASSUME IInv, IInv', [Next]_vars
  PROVE  [Registry!Next]_(Registry!regVars)
<1> DEFINE holder == store.sessionIdByPlayerName
<1>1. /\ Retired = issued \ Online(store) /\ Retired' = issued' \ Online(store')
      /\ Registry!Holding = Online(store) /\ Online(store) \subseteq issued
      /\ store \in Store /\ Consistent(store) /\ TypeOK
  <2>1. Retired' = issued' \ Online(store')
    BY DEF IInv, TypeOK, Retired, Online
  <2>2. Online(store) \subseteq issued /\ store \in Store /\ Consistent(store) /\ TypeOK
    BY DEF IInv, TypeOK, IndexesAgree, OnlyIssuedIds
  <2>3. QED BY <2>1, <2>2, HoldersOnline
<1>2. ASSUME UNCHANGED <<store, issued>>
      PROVE  UNCHANGED Registry!regVars
  BY <1>1, <1>2 DEF Registry!regVars
<1>3. ASSUME NEW x \in Attached, HandleDisconnect(x)
      PROVE  [Registry!Next]_(Registry!regVars)
  <2>1. CASE dataSessionId[x] = None
    BY <1>2, <1>3, <2>1 DEF HandleDisconnect
  <2>2. CASE dataSessionId[x] # None
    <3> DEFINE s == dataSessionId[x]
               p == store.sessionsById[s].playerName
    <3>1. s \in Online(store) /\ s \in SessionIds /\ s # None
      BY <2>2 DEF IInv, SendersOnline, Online
    <3>2. p \in Players /\ holder[p] = s
      BY <1>1, <3>1 DEF Consistent, Online, Store, Session
    <3>3. store' = RemoveById(store, s) /\ UNCHANGED issued
      BY <1>3, <2>2 DEF HandleDisconnect
    <3>4. holder' = [holder EXCEPT ![p] = None]
      BY <3>1, <3>2, <3>3 DEF RemoveById, Online
    <3>5. Online(store') = Online(store) \ {s}
      BY <1>1, <3>1, <3>3, RemoveByIdConsistent
    <3>6. Retired' = Retired \cup {s}
      BY <1>1, <3>1, <3>3, <3>5
    <3>7. Registry!Leave(p)
      BY <3>1, <3>2, <3>4, <3>6 DEF Registry!Leave
    <3>8. QED BY <3>2, <3>7 DEF Registry!Next
  <2>3. QED BY <2>1, <2>2
<1>4. ASSUME NEW x \in Sockets, NEW name \in Players, NEW token, NEW forceReplace,
             NEW id \in SessionIds, JoinFresh(x, name, token, forceReplace, id)
      PROVE  Registry!Claim(name, id)
  <2>1. /\ id \notin issued /\ issued' = issued \cup {id}
        /\ GetByPlayerName(store, name) = None
        /\ store' = CreateSession(store, id, name, x)
    BY <1>4 DEF JoinFresh, Accept
  <2>2. holder[name] = None
    BY <1>1, <2>1, GetByPlayerNameFinds
  <2>3. holder' = [holder EXCEPT ![name] = id]
    BY <2>1 DEF CreateSession
  <2>4. Online(store') = Online(store) \cup {id}
    BY <1>1, <2>1, NewId, CreateSessionConsistent
  <2>5. Retired' = Retired /\ id \notin Registry!Holding \cup Retired
    BY <1>1, <2>1, <2>4
  <2>6. QED BY <2>2, <2>3, <2>5 DEF Registry!Claim
<1>5. ASSUME NEW x \in Sockets, NEW name \in Players, NEW token, NEW forceReplace,
             NEW id \in SessionIds, JoinReplace(x, name, token, forceReplace, id)
      PROVE  Registry!TakeOver(name, id)
  <2> DEFINE old == GetByPlayerName(store, name)
             joined == [playerName |-> name, socketId |-> x]
  <2>1. TakenOver(x, name, id, old)
    BY <1>5, JoinReplaceEffect
  <2>2. holder[name] = old
    BY <1>1, GetByPlayerNameFinds
  <2> HIDE DEF old
  <2> USE DEF TakenOver
  <2>3. Retired' = Retired \cup {old} /\ id \notin Registry!Holding \cup Retired
    BY <1>1, <2>1
  <2>4. QED BY <2>1, <2>2, <2>3 DEF Registry!TakeOver
<1>6. CASE Restart
  <2>1. Online(store') = {} /\ holder' = [p \in Players |-> None] /\ UNCHANGED issued
    BY <1>6 DEF Restart, Online, EmptyStore
  <2>2. Retired' = Retired \cup Registry!Holding
    BY <1>1, <2>1
  <2>3. Registry!Clear
    BY <2>1, <2>2 DEF Registry!Clear
  <2>4. QED BY <2>3 DEF Registry!Next
<1>7. QED
  BY <1>1, <1>2, <1>3, <1>4, <1>5, <1>6, StepCases DEF Registry!Next

\* The server implements the abstract registry: a name has one holder, and a
\* session that lost its name never gets one back.
THEOREM Refinement == Spec => ImplementsRegistry
<1>1. Init => Registry!Init
  BY DEF Init, Registry!Init, Retired, EmptyStore
<1>2. IInv /\ IInv' /\ [Next]_vars => [Registry!Next]_(Registry!regVars)
  BY StepRefines
<1>3. QED
  BY <1>1, <1>2, Invariance, PTL DEF Spec, Registry!Spec, ImplementsRegistry
=============================================================================
