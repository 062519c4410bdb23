--------------------------- MODULE ProximityProofs ---------------------------
(***************************************************************************)
(* Proofs about Proximity, for any number of players and sessions, any     *)
(* set of positions and any TTL, interval and lag of the timer.            *)
(***************************************************************************)
EXTENDS Proximity, SessionStoreProofs

-----------------------------------------------------------------------------
(* Sessions.                                                               *)

\* What handleClientJoin leaves in the store, with or without a takeover: the new
\* session, and all others but the one of the same player.
LEMMA JoinStore ==
  ASSUME store \in Store, Consistent(store), NEW name \in Players,
         NEW id \in SessionIds, id \notin Online(store), NEW x \in Sockets
  PROVE  LET old == GetByPlayerName(store, name)
             new == CreateSession(IF old = None THEN store ELSE RemoveById(store, old),
                                  id, name, x)
         IN  /\ new \in Store /\ Consistent(new)
             /\ Online(new) = (Online(store) \ {old}) \cup {id}
             /\ new.sessionsById[id].playerName = name
             /\ \A s \in Online(store) \ {old} :
                  /\ new.sessionsById[s] = store.sessionsById[s]
                  /\ store.sessionsById[s].playerName # name
<1> DEFINE old == GetByPlayerName(store, name)
           rest == IF old = None THEN store ELSE RemoveById(store, old)
           new == CreateSession(rest, id, name, x)
<1>1. /\ old # None => old \in Online(store) /\ store.sessionsById[old].playerName = name
      /\ old = None => \A s \in Online(store) : store.sessionsById[s].playerName # name
  BY GetByPlayerNameFinds
<1>2. None \notin SessionIds /\ Online(store) \subseteq SessionIds
  BY NoneAssumption DEF Online
<1> HIDE DEF old
<1>3. /\ rest \in Store /\ Consistent(rest)
      /\ Online(rest) = Online(store) \ {old}
      /\ \A s \in Online(store) \ {old} : rest.sessionsById[s] = store.sessionsById[s]
  <2>1. CASE old = None
    BY <2>1, <1>2
  <2>2. CASE old # None
    BY <2>2, <1>1, <1>2, RemoveByIdType, RemoveByIdConsistent
  <2> QED  BY <2>1, <2>2
<1>4. \A s \in Online(store) \ {old} : store.sessionsById[s].playerName # name
  <2> SUFFICES ASSUME NEW s \in Online(store) \ {old},
                      store.sessionsById[s].playerName = name
               PROVE  FALSE
    OBVIOUS
  <2>1. CASE old = None
    BY <2>1, <1>1
  <2>2. CASE old # None
    BY <2>2, <1>1, ConsistentUnique
  <2> QED  BY <2>1, <2>2
<1> HIDE DEF rest
<1>5. GetByPlayerName(rest, name) = None
  <2>1. SUFFICES ASSUME GetByPlayerName(rest, name) # None  PROVE FALSE
    OBVIOUS
  <2>2. /\ GetByPlayerName(rest, name) \in Online(rest)
        /\ rest.sessionsById[GetByPlayerName(rest, name)].playerName = name
    BY <2>1, <1>3, GetByPlayerNameFinds
  <2> QED  BY <2>2, <1>3, <1>4
<1>6. rest.sessionsById[id] = None
  <2>1. id \notin Online(rest)
    BY <1>3
  <2> QED  BY <2>1 DEF Online
<1>7. /\ new \in Store /\ Consistent(new)
      /\ Online(new) = Online(rest) \cup {id}
  BY <1>3, <1>5, <1>6, CreateSessionType, CreateSessionConsistent
<1>8. /\ new.sessionsById[id].playerName = name
      /\ \A s \in Online(store) \ {old} : new.sessionsById[s] = rest.sessionsById[s]
  BY <1>3, <1>2 DEF CreateSession, Store
<1>9. QED  BY <1>3, <1>4, <1>7, <1>8 DEF rest, old

-----------------------------------------------------------------------------
(* Lists.                                                                  *)

\* Hearing is mutual: neither the distance nor the dimension rule prefers a side.
LEMMA CanConnectSymmetric ==
  ASSUME NEW a \in PlayerState, NEW b \in PlayerState
  PROVE  CanConnect(a, b) <=> CanConnect(b, a)
<1>1. a.position \in Int /\ b.position \in Int
  BY ProximityAssumption DEF PlayerState
<1>2. (a.position - b.position) * (a.position - b.position)
        = (b.position - a.position) * (b.position - a.position)
  BY <1>1
<1>3. InRange(a, b) <=> InRange(b, a)
  BY <1>2 DEF InRange
<1> QED  BY <1>3 DEF CanConnect

\* Whom collectNearbyPlayers lists for a session.
LEMMA CollectedItems ==
  ASSUME store \in Store, NEW players, NEW id \in Online(store),
         NEW item \in CollectNearbyPlayers(id, players)
  PROVE  LET other == item.sessionId
             name == store.sessionsById[other].playerName
             self == players[store.sessionsById[id].playerName]
         IN  /\ other \in Online(store) \ {id}
             /\ item = ItemOf(other) /\ item \in Item
             /\ item.playerName = name /\ name \in Players
             /\ players[name] # None /\ self # None
             /\ CanConnect(self, players[name])
<1>1. PICK s \in Online(store) \ {id} :
        /\ item = ItemOf(s)
        /\ players[store.sessionsById[id].playerName] # None
        /\ players[store.sessionsById[s].playerName] # None
        /\ CanConnect(players[store.sessionsById[id].playerName],
                      players[store.sessionsById[s].playerName])
  BY DEF CollectNearbyPlayers
<1>2. s \in SessionIds /\ store.sessionsById[s] \in Session
  BY DEF Online, Store
<1>3. item.sessionId = s /\ item.playerName = store.sessionsById[s].playerName
  BY <1>1 DEF ItemOf
<1> QED  BY <1>1, <1>2, <1>3 DEF ItemOf, Item, Session

-----------------------------------------------------------------------------
(* The inductive invariant.                                                *)

\* Sessions that ended show nothing.
EndedShowNothing == \A s \in SessionIds \ Online(store) : nearby[s] = {}

\* What the last tick left was no older than the TTL then.
AgesBounded ==
  \A p \in Players : playersByName[p] # None =>
    playersByName[p].age <= PlayerTtl + sinceTick

IInv ==
  /\ TypeOK
  /\ Consistent(store)
  /\ EndedShowNothing
  /\ AgesBounded
  /\ MutualNeighbours
  /\ FreshNeighbours
  /\ NobodyTwice

\* Nobody is online, nobody is known, nobody is shown anything.
LEMMA InitInvariant == Init => IInv
<1> SUFFICES ASSUME Init  PROVE IInv
  OBVIOUS
<1> USE ProximityAssumption DEF Init
<1>1. store \in Store /\ Consistent(store)
  BY EmptyStoreType
<1>2. TypeOK
  BY <1>1 DEF TypeOK
<1>3. EndedShowNothing /\ AgesBounded /\ MutualNeighbours /\ FreshNeighbours
  BY DEF EndedShowNothing, AgesBounded, MutualNeighbours, FreshNeighbours
<1>4. NobodyTwice
  BY DEF NobodyTwice, Online, EmptyStore
<1> QED  BY <1>1, <1>2, <1>3, <1>4 DEF IInv

\* A join, with or without a takeover, keeps the invariant: the lists that remain
\* belong to sessions that remain, under the names they had.
LEMMA JoinInvariant ==
  ASSUME IInv, NEW name \in Players, NEW id \in SessionIds, NEW x \in Sockets,
         Join(name, id, x)
  PROVE  IInv'
<1> DEFINE old == GetByPlayerName(store, name)
<1> USE DEF IInv
<1>1. /\ id \notin Online(store)
      /\ nearby' = [s \in SessionIds |-> IF s \in {old} THEN {} ELSE nearby[s]]
      /\ told' = told \ {old}
      /\ UNCHANGED <<playersByName, sinceTick>>
  BY DEF Join, Unused, Forget
<1>2. store' = CreateSession(IF old = None THEN store ELSE RemoveById(store, old),
                             id, name, x)
  BY DEF Join
<1>3. /\ store' \in Store /\ Consistent(store')
      /\ Online(store') = (Online(store) \ {old}) \cup {id}
      /\ \A s \in Online(store) \ {old} :
           store'.sessionsById[s] = store.sessionsById[s]
  BY <1>1, <1>2, JoinStore DEF TypeOK
<1> HIDE DEF old
<1>4. Online(store) \subseteq SessionIds
  BY DEF Online
<1>5. TypeOK'
  BY <1>1, <1>3 DEF TypeOK
<1>6. EndedShowNothing'
  BY <1>1, <1>3, <1>4 DEF EndedShowNothing
<1>7. AgesBounded'
  BY <1>1 DEF AgesBounded
<1>8. MutualNeighbours'
  BY <1>1, <1>4 DEF MutualNeighbours, Listed, TypeOK
<1>9. FreshNeighbours'
  BY <1>1 DEF FreshNeighbours
<1>10. NobodyTwice'
  <2>1. nearby'[id] = {}
    BY <1>1 DEF EndedShowNothing
  <2>2. \A s \in Online(store) \ {old} : nearby'[s] = nearby[s]
    BY <1>1, <1>4
  <2> QED  BY <1>3, <2>1, <2>2 DEF NobodyTwice
<1> QED  BY <1>3, <1>5, <1>6, <1>7, <1>8, <1>9, <1>10

\* A session that ends takes its list along.
LEMMA LeaveInvariant ==
  ASSUME IInv, NEW id \in SessionIds, Leave(id)
  PROVE  IInv'
<1> USE DEF IInv
<1>1. /\ nearby' = [s \in SessionIds |-> IF s \in {id} THEN {} ELSE nearby[s]]
      /\ told' = told \ {id}
      /\ UNCHANGED <<playersByName, sinceTick>>
      /\ store' = RemoveById(store, id)
  BY DEF Leave, Forget
<1>2. /\ store' \in Store /\ Consistent(store')
      /\ Online(store') = Online(store) \ {id}
      /\ \A s \in SessionIds \ {id} : store'.sessionsById[s] = store.sessionsById[s]
  BY <1>1, RemoveByIdType, RemoveByIdConsistent DEF TypeOK
<1>3. Online(store) \subseteq SessionIds
  BY DEF Online
<1>4. TypeOK'
  BY <1>1, <1>2 DEF TypeOK
<1>5. EndedShowNothing'
  BY <1>1, <1>2 DEF EndedShowNothing
<1>6. AgesBounded'
  BY <1>1 DEF AgesBounded
<1>7. MutualNeighbours'
  BY <1>1, <1>3 DEF MutualNeighbours, Listed, TypeOK
<1>8. FreshNeighbours'
  BY <1>1 DEF FreshNeighbours
<1>9. NobodyTwice'
  BY <1>1, <1>2, <1>3 DEF NobodyTwice
<1> QED  BY <1>2, <1>4, <1>5, <1>6, <1>7, <1>8, <1>9

\* A report makes a player younger, and known.
LEMMA PositionInvariant ==
  ASSUME IInv, NEW name \in Players, NEW event \in TransformEvents,
         PlayerTransform(name, event)
  PROVE  IInv'
<1> DEFINE new == [position |-> event.position, dim |-> event.dim, age |-> 0]
<1> USE DEF IInv
<1>0. event.position \in Positions /\ event.dim \in Dims \cup {None}
  BY DEF PlayerTransform, TryParseTransform, TransformEvents
<1>1. new \in PlayerState /\ new # None
  BY <1>0, ProximityAssumption DEF PlayerState, MaxAge
<1>2. /\ playersByName' = [playersByName EXCEPT ![name] = new]
      /\ new.age = 0
      /\ UNCHANGED <<store, sinceTick, nearby, told>>
  BY DEF PlayerTransform, PositionUpdate, UpsertPlayer
<1> HIDE DEF new
<1>3. sinceTick \in Nat /\ PlayerTtl \in Nat
  BY ProximityAssumption DEF TypeOK
<1>4. TypeOK'
  BY <1>1, <1>2 DEF TypeOK
<1>5. EndedShowNothing'
  BY <1>2 DEF EndedShowNothing
<1>6. AgesBounded'
  BY <1>1, <1>2, <1>3 DEF AgesBounded, TypeOK
<1>7. MutualNeighbours'
  BY <1>2 DEF MutualNeighbours, Listed
<1>8. FreshNeighbours'
  BY <1>1, <1>2, <1>3 DEF FreshNeighbours, TypeOK, Item
<1>9. NobodyTwice'
  BY <1>2 DEF NobodyTwice
<1> QED  BY <1>2, <1>4, <1>5, <1>6, <1>7, <1>8, <1>9

\* Time passes for all players alike, as for the timer.
LEMMA TimeInvariant ==
  ASSUME IInv, TimePasses
  PROVE  IInv'
<1> USE DEF IInv
<1>1. /\ sinceTick \in 0 .. (TickMs + MaxLag - 1) /\ sinceTick' = sinceTick + 1
      /\ PlayerTtl \in Nat /\ TickMs \in Nat /\ MaxLag \in Nat
      /\ UNCHANGED <<store, nearby, told>>
  BY ProximityAssumption DEF TypeOK, TimePasses
<1>2. \A p \in Players :
        /\ playersByName[p] = None => playersByName'[p] = None
        /\ playersByName[p] # None =>
             /\ playersByName[p].age \in Nat
             /\ playersByName[p].age <= PlayerTtl + sinceTick
             /\ playersByName'[p] \in PlayerState /\ playersByName'[p] # None
             /\ playersByName'[p].age = playersByName[p].age + 1
  <2> SUFFICES ASSUME NEW p \in Players, playersByName[p] # None
               PROVE  /\ playersByName[p].age \in Nat
                      /\ playersByName[p].age <= PlayerTtl + sinceTick
                      /\ playersByName'[p] \in PlayerState /\ playersByName'[p] # None
                      /\ playersByName'[p].age = playersByName[p].age + 1
    BY DEF TimePasses
  <2> DEFINE old == playersByName[p]
             new == [old EXCEPT !.age = @ + 1]
  <2>1. playersByName'[p] = new
    BY DEF TimePasses
  <2>2. old \in PlayerState /\ old.age <= PlayerTtl + sinceTick
    BY DEF TypeOK, AgesBounded
  <2>3. old.age \in Nat /\ old.age + 1 \in 0 .. MaxAge
    BY <2>2, <1>1 DEF PlayerState, MaxAge
  <2>4. new \in PlayerState /\ new.age = old.age + 1
    BY <2>2, <2>3 DEF PlayerState
  <2> QED  BY <2>1, <2>2, <2>3, <2>4, ProximityAssumption
<1>3. TypeOK'
  <2>1. playersByName' \in [Players -> PlayerState \cup {None}]
    BY <1>2 DEF TimePasses
  <2> QED  BY <2>1, <1>1 DEF TypeOK
<1>4. EndedShowNothing'
  BY <1>1 DEF EndedShowNothing
<1>5. AgesBounded'
  BY <1>1, <1>2 DEF AgesBounded
<1>6. MutualNeighbours'
  BY <1>1 DEF MutualNeighbours, Listed
<1>7. FreshNeighbours'
  <2> SUFFICES ASSUME NEW s \in SessionIds, NEW item \in nearby[s]
               PROVE  /\ playersByName'[item.playerName] # None
                      /\ playersByName'[item.playerName].age <= PlayerTtl + sinceTick'
    BY <1>1 DEF FreshNeighbours
  <2>1. item.playerName \in Players
    BY DEF TypeOK, Item
  <2>2. /\ playersByName[item.playerName] # None
        /\ playersByName[item.playerName].age <= PlayerTtl + sinceTick
    BY DEF FreshNeighbours
  <2> QED  BY <1>1, <1>2, <2>1, <2>2
<1>8. NobodyTwice'
  BY <1>1 DEF NobodyTwice
<1> QED  BY <1>1, <1>3, <1>4, <1>5, <1>6, <1>7, <1>8

\* prunePlayers leaves the players that are young enough, as they were.
LEMMA PruneType ==
  ASSUME playersByName \in [Players -> PlayerState \cup {None}], NEW p \in Players
  PROVE  /\ Prune(playersByName) \in [Players -> PlayerState \cup {None}]
         /\ Prune(playersByName)[p] # None =>
              /\ Prune(playersByName)[p] \in PlayerState
              /\ Prune(playersByName)[p].age <= PlayerTtl
<1>1. \A q \in Players : playersByName[q] # None => playersByName[q].age \in Int
  BY ProximityAssumption DEF PlayerState, MaxAge
<1> QED  BY <1>1, ProximityAssumption DEF Prune

\* The timer's callback builds all lists from the same positions.
LEMMA TickInvariant ==
  ASSUME IInv, Tick
  PROVE  IInv'
<1> DEFINE left == Prune(playersByName)
           Player(s) == left[store.sessionsById[s].playerName]
           Heard(s, t) == /\ s # t
                          /\ Player(s) # None /\ Player(t) # None
                          /\ CanConnect(Player(s), Player(t))
<1> USE DEF IInv
<1>1. /\ playersByName' = left /\ sinceTick' = 0
      /\ told' = Online(store) /\ store' = store
      /\ \A s \in Online(store) : nearby'[s] = CollectNearbyPlayers(s, left)
      /\ \A s \in SessionIds \ Online(store) : nearby'[s] = nearby[s]
      /\ nearby' = [s \in SessionIds |->
           IF s \in Online(store) THEN CollectNearbyPlayers(s, left) ELSE nearby[s]]
  BY DEF Tick, Online
<1>2. /\ left \in [Players -> PlayerState \cup {None}]
      /\ \A p \in Players : left[p] # None =>
           left[p] \in PlayerState /\ left[p].age <= PlayerTtl
  <2>1. ASSUME NEW p \in Players
        PROVE  /\ left \in [Players -> PlayerState \cup {None}]
               /\ left[p] # None => left[p] \in PlayerState /\ left[p].age <= PlayerTtl
    BY PruneType DEF TypeOK
  <2>2. left \in [Players -> PlayerState \cup {None}]
    BY DEF Prune, TypeOK
  <2> QED  BY <2>1, <2>2
<1>3. \A s \in Online(store) :
        s \in SessionIds /\ store.sessionsById[s].playerName \in Players
  BY DEF TypeOK, Store, Session, Online
<1> HIDE DEF left
<1>4. ASSUME NEW s \in Online(store), NEW item \in nearby'[s]
      PROVE  /\ item.sessionId \in Online(store) \ {s}
             /\ item = ItemOf(item.sessionId) /\ item \in Item
             /\ item.playerName = store.sessionsById[item.sessionId].playerName
             /\ item.playerName \in Players
             /\ left[item.playerName] # None
             /\ Heard(s, item.sessionId)
  <2>1. item \in CollectNearbyPlayers(s, left)
    BY <1>1
  <2> QED  BY <2>1, CollectedItems DEF TypeOK
<1>5. TypeOK'
  <2>1. nearby' \in [SessionIds -> SUBSET Item]
    BY <1>1, <1>4 DEF TypeOK
  <2> QED  BY <2>1, <1>1, <1>2, ProximityAssumption DEF TypeOK
<1>6. EndedShowNothing'
  BY <1>1 DEF EndedShowNothing
<1>7. AgesBounded'
  BY <1>1, <1>2, ProximityAssumption DEF AgesBounded, PlayerState, MaxAge
<1>8. ASSUME NEW s \in Online(store), NEW t \in Online(store)
      PROVE  Listed(s, t)' <=> Heard(s, t)
  <2>1. ASSUME Listed(s, t)'  PROVE Heard(s, t)
    BY <2>1, <1>4 DEF Listed
  <2>2. ASSUME Heard(s, t)  PROVE Listed(s, t)'
    <3>1. ItemOf(t) \in CollectNearbyPlayers(s, left)
      BY <2>2 DEF CollectNearbyPlayers
    <3>2. ItemOf(t).sessionId = t
      BY DEF ItemOf
    <3> QED  BY <3>1, <3>2, <1>1 DEF Listed
  <2> QED  BY <2>1, <2>2
<1>9. MutualNeighbours'
  <2> SUFFICES ASSUME NEW s \in Online(store), NEW t \in Online(store)
               PROVE  Listed(s, t)' <=> Listed(t, s)'
    BY <1>1 DEF MutualNeighbours
  <2>1. Heard(s, t) <=> Heard(t, s)
    <3>1. /\ Player(s) # None => Player(s) \in PlayerState
          /\ Player(t) # None => Player(t) \in PlayerState
      BY <1>2, <1>3
    <3> HIDE DEF Player
    <3> QED  BY <3>1, CanConnectSymmetric
  <2> HIDE DEF Heard
  <2> QED  BY <2>1, <1>8
<1>10. FreshNeighbours'
  <2> SUFFICES ASSUME NEW s \in SessionIds, NEW item \in nearby'[s]
               PROVE  /\ playersByName'[item.playerName] # None
                      /\ playersByName'[item.playerName].age <= PlayerTtl + sinceTick'
    BY DEF FreshNeighbours
  <2>1. s \in Online(store)
    BY <1>1 DEF EndedShowNothing
  <2>2. /\ item.playerName \in Players
        /\ left[item.playerName] # None
    BY <2>1, <1>4
  <2>3. left[item.playerName].age <= PlayerTtl
    BY <2>2, <1>2
  <2> QED  BY <2>2, <2>3, <1>1, ProximityAssumption
<1>11. NobodyTwice'
  <2> SUFFICES ASSUME NEW s \in Online(store)
               PROVE  /\ \A item \in nearby'[s] :
                           item.playerName # store.sessionsById[s].playerName
                      /\ \A i, j \in nearby'[s] : i.playerName = j.playerName => i = j
    BY <1>1 DEF NobodyTwice
  <2>1. ASSUME NEW item \in nearby'[s]
        PROVE  item.playerName # store.sessionsById[s].playerName
    BY <1>4, ConsistentUnique DEF TypeOK
  <2>2. ASSUME NEW i \in nearby'[s], NEW j \in nearby'[s], i.playerName = j.playerName
        PROVE  i = j
    <3>1. /\ i.sessionId \in Online(store) /\ i = ItemOf(i.sessionId)
          /\ i.playerName = store.sessionsById[i.sessionId].playerName
          /\ j.sessionId \in Online(store) /\ j = ItemOf(j.sessionId)
          /\ j.playerName = store.sessionsById[j.sessionId].playerName
      BY <1>4
    <3>2. i.sessionId = j.sessionId
      BY <3>1, <2>2, ConsistentUnique DEF TypeOK
    <3> QED  BY <3>1, <3>2
  <2> QED  BY <2>1, <2>2
<1> QED  BY <1>1, <1>5, <1>6, <1>7, <1>9, <1>10, <1>11

\* Every step keeps the invariant.
LEMMA NextInvariant == IInv /\ [Next]_vars => IInv'
<1> SUFFICES ASSUME IInv, [Next]_vars  PROVE IInv'
  OBVIOUS
<1>1. CASE Next
  BY <1>1, JoinInvariant, LeaveInvariant, PositionInvariant, TickInvariant,
     TimeInvariant DEF Next
<1>2. CASE UNCHANGED vars
  BY <1>2 DEF vars, IInv, TypeOK, EndedShowNothing, AgesBounded, MutualNeighbours,
              Listed, FreshNeighbours, NobodyTwice
<1> QED  BY <1>1, <1>2

-----------------------------------------------------------------------------
(* Theorems.                                                               *)

\* The invariant holds in every reachable state.
THEOREM Invariance == Spec => []IInv
  BY InitInvariant, NextInvariant, PTL DEF Spec

\* Every variable keeps its type, and no position grows older than TTL, interval and lag.
THEOREM TypeCorrect == Spec => []TypeOK
<1>1. IInv => TypeOK  BY DEF IInv
<1> QED  BY <1>1, Invariance, PTL

\* Two sessions that the same tick reached were shown each other or not at all.
THEOREM ListsAreMutual == Spec => []MutualNeighbours
<1>1. IInv => MutualNeighbours  BY DEF IInv
<1> QED  BY <1>1, Invariance, PTL

\* Nobody is shown who was last seen longer ago than the TTL and the time since the tick.
THEOREM ListsAreFresh == Spec => []FreshNeighbours
<1>1. IInv => FreshNeighbours  BY DEF IInv
<1> QED  BY <1>1, Invariance, PTL

\* Nobody is shown its own player, or another one twice, across joins and takeovers.
THEOREM ListsNameNobodyTwice == Spec => []NobodyTwice
<1>1. IInv => NobodyTwice  BY DEF IInv
<1> QED  BY <1>1, Invariance, PTL

\* What a tick sends, a presence request at that moment would answer too.
THEOREM TicksMatchPresence == Spec => TickMatchesPresence
<1> DEFINE Matches == sinceTick' < sinceTick =>
             \A s \in Online(store) : nearby'[s] \subseteq PresenceList(s)'
<1>1. ASSUME IInv, [Next]_vars  PROVE Matches
  <2> SUFFICES ASSUME sinceTick' < sinceTick, NEW s \in Online(store),
                      NEW item \in nearby'[s]
               PROVE  item \in PresenceList(s)'
    OBVIOUS
  <2>1. sinceTick \in Int
    BY <1>1, ProximityAssumption DEF IInv, TypeOK
  <2>2. Tick
    <3>1. ~(sinceTick' = sinceTick)
      BY <2>1
    <3>2. ASSUME TimePasses  PROVE FALSE
      BY <2>1, <3>2 DEF TimePasses
    <3>3. ASSUME NEW p \in Players, NEW t \in SessionIds, NEW x \in Sockets, Join(p, t, x)
          PROVE  FALSE
      BY <3>1, <3>3 DEF Join
    <3>4. ASSUME NEW t \in SessionIds, Leave(t)  PROVE FALSE
      BY <3>1, <3>4 DEF Leave
    <3>5. ASSUME NEW p \in Players, NEW event \in TransformEvents,
                 PlayerTransform(p, event)
          PROVE  FALSE
      BY <3>1, <3>5 DEF PlayerTransform, PositionUpdate
    <3>6. ~ UNCHANGED vars
      BY <3>1 DEF vars
    <3> QED  BY <1>1, <3>2, <3>3, <3>4, <3>5, <3>6 DEF Next
  <2>3. /\ store' = store /\ s \in SessionIds
        /\ item \in CollectNearbyPlayers(s, playersByName')
    BY <2>2 DEF Tick, Online
  <2>4. PICK t \in Online(store) \ {s} :
          /\ item = ItemOf(t)
          /\ playersByName'[store.sessionsById[s].playerName] # None
          /\ playersByName'[store.sessionsById[t].playerName] # None
          /\ CanConnect(playersByName'[store.sessionsById[s].playerName],
                        playersByName'[store.sessionsById[t].playerName])
    BY <2>3 DEF CollectNearbyPlayers
  <2> QED  BY <2>3, <2>4 DEF PresenceList, PlayerOf, ItemOf, CanConnect
<1>2. IInv /\ [Next]_vars => [Matches]_vars
  BY <1>1
<1>3. [][Matches]_vars => TickMatchesPresence
  BY DEF TickMatchesPresence
<1> HIDE DEF Matches
<1> QED  BY <1>2, <1>3, Invariance, PTL DEF Spec
=============================================================================
