------------------------- MODULE SessionStoreProofs -------------------------
(***************************************************************************)
(* What the operations of SessionStore preserve and return.                *)
(***************************************************************************)
EXTENDS SessionStore, TLAPS

\* The empty store is a consistent one.
LEMMA EmptyStoreType == EmptyStore \in Store /\ Consistent(EmptyStore)
BY NoneAssumption DEF EmptyStore, Store, Consistent, Online

\* Creating a session yields a store again.
LEMMA CreateSessionType ==
  ASSUME NEW st \in Store, NEW id \in SessionIds, NEW name \in Players,
         NEW x \in Sockets
  PROVE  CreateSession(st, id, name, x) \in Store
BY DEF CreateSession, Store, Session

\* Removing a session yields a store again.
LEMMA RemoveByIdType ==
  ASSUME NEW st \in Store, NEW id \in SessionIds
  PROVE  RemoveById(st, id) \in Store
BY NoneAssumption DEF RemoveById, Store, Session

\* createSession keeps the indexes consistent when the player is not online and
\* the id is new, which is what handleClientJoin makes sure of before calling it.
LEMMA CreateSessionConsistent ==
  ASSUME NEW st \in Store, NEW id \in SessionIds, NEW name \in Players,
         NEW x \in Sockets, Consistent(st),
         GetByPlayerName(st, name) = None, st.sessionsById[id] = None
  PROVE  /\ Consistent(CreateSession(st, id, name, x))
         /\ Online(CreateSession(st, id, name, x)) = Online(st) \cup {id}
<1> DEFINE new == CreateSession(st, id, name, x)
<1>1. st.sessionIdByPlayerName[name] = None
  BY NoneAssumption DEF GetByPlayerName, Consistent, Store
<1>2. /\ new.sessionsById = [st.sessionsById EXCEPT
                               ![id] = [playerName |-> name, socketId |-> x]]
      /\ new.sessionIdByPlayerName = [st.sessionIdByPlayerName EXCEPT ![name] = id]
  BY DEF CreateSession
<1>3. [playerName |-> name, socketId |-> x] # None
  BY NoneAssumption DEF Session
<1>4. Online(new) = Online(st) \cup {id}
  BY <1>2, <1>3 DEF Online, Store
<1>5. ASSUME NEW p \in Players, new.sessionIdByPlayerName[p] # None
      PROVE  /\ new.sessionsById[new.sessionIdByPlayerName[p]] # None
             /\ new.sessionsById[new.sessionIdByPlayerName[p]].playerName = p
  <2>1. CASE p = name
    BY <1>2, <1>3, <2>1 DEF Store
  <2>2. CASE p # name
    <3>1. st.sessionIdByPlayerName[p] # None /\ st.sessionIdByPlayerName[p] \in SessionIds
      BY <1>2, <1>5, <2>2 DEF Store
    <3>2. st.sessionIdByPlayerName[p] # id
      BY <3>1 DEF Consistent
    <3>3. QED BY <1>2, <2>2, <3>1, <3>2 DEF Consistent, Store
  <2>3. QED BY <2>1, <2>2
<1>6. ASSUME NEW s \in Online(new)
      PROVE  new.sessionIdByPlayerName[new.sessionsById[s].playerName] = s
  <2>1. CASE s = id
    BY <1>2, <2>1 DEF Store
  <2>2. CASE s # id
    <3>1. s \in Online(st) /\ new.sessionsById[s] = st.sessionsById[s]
      BY <1>2, <1>4, <1>6, <2>2 DEF Online, Store
    <3>2. st.sessionIdByPlayerName[st.sessionsById[s].playerName] = s
      BY <3>1 DEF Consistent
    <3>3. st.sessionsById[s].playerName \in Players
      BY <3>1 DEF Online, Store, Session
    <3>4. st.sessionsById[s].playerName # name
      BY <1>1, <3>1, <3>2, NoneAssumption DEF Online
    <3>5. QED BY <1>2, <3>1, <3>2, <3>3, <3>4 DEF Store
  <2>3. QED BY <2>1, <2>2
<1>7. QED BY <1>4, <1>5, <1>6 DEF Consistent

\* removeById takes exactly one session out and keeps the indexes consistent;
\* its player is no longer found.
LEMMA RemoveByIdConsistent ==
  ASSUME NEW st \in Store, NEW id \in SessionIds, Consistent(st)
  PROVE  /\ Consistent(RemoveById(st, id))
         /\ Online(RemoveById(st, id)) = Online(st) \ {id}
         /\ \A s \in SessionIds \ {id} :
              RemoveById(st, id).sessionsById[s] = st.sessionsById[s]
         /\ RemoveById(st, id).sessionsById[id] = None
<1> DEFINE new == RemoveById(st, id)
           gone == st.sessionsById[id].playerName
<1>1. CASE st.sessionsById[id] = None
  BY <1>1 DEF RemoveById, Online
<1>2. CASE st.sessionsById[id] # None
  <2>1. gone \in Players /\ st.sessionIdByPlayerName[gone] = id
    BY <1>2 DEF Consistent, Online, Store, Session
  <2>2. /\ new.sessionsById = [st.sessionsById EXCEPT ![id] = None]
        /\ new.sessionIdByPlayerName = [st.sessionIdByPlayerName EXCEPT ![gone] = None]
    BY <1>2, <2>1 DEF RemoveById
  <2>3. Online(new) = Online(st) \ {id}
    BY <2>2 DEF Online, Store
  <2>4. ASSUME NEW p \in Players, new.sessionIdByPlayerName[p] # None
        PROVE  /\ new.sessionsById[new.sessionIdByPlayerName[p]] # None
               /\ new.sessionsById[new.sessionIdByPlayerName[p]].playerName = p
    <3>1. p # gone /\ new.sessionIdByPlayerName[p] = st.sessionIdByPlayerName[p]
      BY <2>1, <2>2, <2>4 DEF Store
    <3>2. /\ st.sessionsById[st.sessionIdByPlayerName[p]] # None
          /\ st.sessionsById[st.sessionIdByPlayerName[p]].playerName = p
      BY <2>4, <3>1 DEF Consistent
    <3>3. st.sessionIdByPlayerName[p] # id
      BY <3>1, <3>2
    <3>4. st.sessionIdByPlayerName[p] \in SessionIds
      BY <2>4, <3>1 DEF Store
    <3>5. QED BY <2>2, <3>1, <3>2, <3>3, <3>4 DEF Store
  <2>5. ASSUME NEW s \in Online(new)
        PROVE  new.sessionIdByPlayerName[new.sessionsById[s].playerName] = s
    <3>1. s \in Online(st) /\ s # id /\ new.sessionsById[s] = st.sessionsById[s]
      BY <2>2, <2>3, <2>5 DEF Online, Store
    <3>2. st.sessionIdByPlayerName[st.sessionsById[s].playerName] = s
      BY <3>1 DEF Consistent
    <3>3. st.sessionsById[s].playerName \in Players /\ st.sessionsById[s].playerName # gone
      BY <2>1, <3>1, <3>2 DEF Online, Store, Session
    <3>4. QED BY <2>2, <3>1, <3>2, <3>3 DEF Store
  <2>6. QED BY <2>2, <2>3, <2>4, <2>5 DEF Consistent, Store
<1>3. QED BY <1>1, <1>2

\* A player has at most one session in a consistent store.
LEMMA ConsistentUnique ==
  ASSUME NEW st \in Store, Consistent(st), NEW s \in Online(st), NEW t \in Online(st),
         st.sessionsById[s].playerName = st.sessionsById[t].playerName
  PROVE  s = t
BY DEF Consistent

\* getByPlayerName finds the player's session exactly when there is one.
LEMMA GetByPlayerNameFinds ==
  ASSUME NEW st \in Store, Consistent(st), NEW name \in Players
  PROVE  /\ GetByPlayerName(st, name) = st.sessionIdByPlayerName[name]
         /\ GetByPlayerName(st, name) # None =>
              /\ GetByPlayerName(st, name) \in Online(st)
              /\ st.sessionsById[GetByPlayerName(st, name)].playerName = name
         /\ GetByPlayerName(st, name) = None =>
              \A s \in Online(st) : st.sessionsById[s].playerName # name
<1>1. st.sessionIdByPlayerName[name] \in SessionIds \cup {None}
  BY DEF Store
<1>2. GetByPlayerName(st, name) = st.sessionIdByPlayerName[name]
  BY DEF GetByPlayerName, Consistent
<1>3. ASSUME GetByPlayerName(st, name) # None
      PROVE  /\ GetByPlayerName(st, name) \in Online(st)
             /\ st.sessionsById[GetByPlayerName(st, name)].playerName = name
  BY <1>1, <1>2, <1>3 DEF Consistent, Online
<1>4. ASSUME GetByPlayerName(st, name) = None, NEW s \in Online(st),
             st.sessionsById[s].playerName = name
      PROVE  FALSE
  BY <1>2, <1>4, NoneAssumption DEF Consistent, Online
<1>5. QED BY <1>2, <1>3, <1>4

\* A takeover as the server performs it (remove, create, remove again) exchanges
\* the player's session for the new one and touches no other.
LEMMA ReplaceSession ==
  ASSUME NEW st \in Store, Consistent(st), NEW name \in Players, NEW x \in Sockets,
         NEW id \in SessionIds, st.sessionsById[id] = None,
         GetByPlayerName(st, name) # None
  PROVE  LET old == GetByPlayerName(st, name)
             new == RemoveById(CreateSession(RemoveById(st, old), id, name, x), old)
         IN  /\ new \in Store /\ Consistent(new)
             /\ old \in Online(st) /\ old # id
             /\ st.sessionsById[old].playerName = name
             /\ Online(new) = (Online(st) \ {old}) \cup {id}
             /\ new.sessionsById = [st.sessionsById EXCEPT
                    ![id] = [playerName |-> name, socketId |-> x], ![old] = None]
             /\ new.sessionIdByPlayerName =
                  [st.sessionIdByPlayerName EXCEPT ![name] = id]
<1> DEFINE old == GetByPlayerName(st, name)
           new == RemoveById(CreateSession(RemoveById(st, old), id, name, x), old)
           st1 == RemoveById(st, old)
           st2 == CreateSession(st1, id, name, x)
<1>1. /\ old \in Online(st) /\ old \in SessionIds /\ old # id
      /\ st.sessionsById[old].playerName = name
      /\ st.sessionIdByPlayerName[name] = old
  BY GetByPlayerNameFinds DEF Online
<1>2. st1 \in Store
  BY <1>1, RemoveByIdType
<1>3. /\ Consistent(st1) /\ Online(st1) = Online(st) \ {old}
      /\ st1.sessionsById[id] = None /\ st1.sessionsById[old] = None
  BY <1>1, RemoveByIdConsistent
<1>4. /\ st1.sessionsById = [st.sessionsById EXCEPT ![old] = None]
      /\ st1.sessionIdByPlayerName = [st.sessionIdByPlayerName EXCEPT ![name] = None]
  BY <1>1 DEF RemoveById, Online
<1>5. GetByPlayerName(st1, name) = None
  BY <1>4 DEF GetByPlayerName, Store
<1>6. Consistent(st2) /\ Online(st2) = (Online(st) \ {old}) \cup {id}
  <2>. HIDE DEF st1
  <2>. QED BY <1>2, <1>3, <1>5, CreateSessionConsistent
<1>7. st2 \in Store
  <2>. HIDE DEF st1
  <2>. QED BY <1>2, CreateSessionType
<1>8. /\ st2.sessionsById = [st.sessionsById EXCEPT
              ![id] = [playerName |-> name, socketId |-> x], ![old] = None]
      /\ st2.sessionIdByPlayerName = [st.sessionIdByPlayerName EXCEPT ![name] = id]
  <2>1. /\ st2.sessionsById = [st1.sessionsById EXCEPT
                                 ![id] = [playerName |-> name, socketId |-> x]]
        /\ st2.sessionIdByPlayerName = [st1.sessionIdByPlayerName EXCEPT ![name] = id]
    BY DEF CreateSession
  <2>2. st.sessionIdByPlayerName \in [Players -> SessionIds \cup {None}]
        /\ st.sessionsById \in [SessionIds -> Session \cup {None}]
    BY DEF Store
  <2>. HIDE DEF st1, st2
  <2>. QED BY <1>1, <1>4, <2>1, <2>2
<1>9. new = st2
  <2>1. st2.sessionsById[old] = None
    <3>. HIDE DEF st2
    <3>. QED BY <1>1, <1>8 DEF Store
  <2>2. QED BY <2>1 DEF RemoveById
<1>10. QED
  <2>. HIDE DEF st2
  <2>. QED BY <1>1, <1>6, <1>7, <1>8, <1>9
=============================================================================
