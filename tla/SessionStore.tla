---------------------------- MODULE SessionStore ----------------------------
(***************************************************************************)
(* The session registry of the backend, backend/src/domain/session/        *)
(* SessionStore.ts, as a value and pure operations on it.                  *)
(*                                                                         *)
(* The class keeps two JavaScript Maps: sessionsById and, for look-ups by  *)
(* player, sessionIdByPlayerName.  A Map is a total function here, with    *)
(* None for a missing key.  Names are already trimmed: every caller trims  *)
(* before it calls.  connectedAt is dropped, nothing reads it.             *)
(***************************************************************************)
CONSTANTS
  Players,      \* player names
  SessionIds,   \* values randomUUID() can return
  Sockets,      \* Socket.IO connections, one id per connection
  None          \* undefined / null

Session == [playerName : Players, socketId : Sockets]

ASSUME NoneAssumption ==
  /\ None \notin Players
  /\ None \notin SessionIds
  /\ None \notin Sockets
  /\ None \notin Session

Store == [ sessionsById          : [SessionIds -> Session \cup {None}],
           sessionIdByPlayerName : [Players -> SessionIds \cup {None}] ]

EmptyStore ==
  [ sessionsById          |-> [s \in SessionIds |-> None],
    sessionIdByPlayerName |-> [p \in Players |-> None] ]

\* createSession overwrites both indexes without looking at them.
CreateSession(st, id, name, socket) ==
  [ sessionsById |->
      [st.sessionsById EXCEPT ![id] = [playerName |-> name, socketId |-> socket]],
    sessionIdByPlayerName |->
      [st.sessionIdByPlayerName EXCEPT ![name] = id] ]

\* Mutated: no player is ever found.
GetByPlayerName_Blind(st, name) == None

\* The identifier of the session getByPlayerName finds, or None.
GetByPlayerName(st, name) ==
  LET id == st.sessionIdByPlayerName[name]
  IN  IF id = None \/ st.sessionsById[id] = None THEN None ELSE id

\* Mutated: the name index is left alone.
RemoveById_KeepsName(st, id) ==
  [st EXCEPT !.sessionsById[id] = None]

\* removeById clears the name index only while it still names this session.
RemoveById(st, id) ==
  IF st.sessionsById[id] = None
  THEN st
  ELSE LET name == st.sessionsById[id].playerName
       IN  [ sessionsById |-> [st.sessionsById EXCEPT ![id] = None],
             sessionIdByPlayerName |->
               IF st.sessionIdByPlayerName[name] = id
               THEN [st.sessionIdByPlayerName EXCEPT ![name] = None]
               ELSE st.sessionIdByPlayerName ]

\* The keys of sessionsById, what listOnlineSessions ranges over.
Online(st) == {s \in SessionIds : st.sessionsById[s] # None}

\* The two indexes describe the same sessions: the name index names a stored
\* session of that player, and a stored session is the one its name leads to.
Consistent(st) ==
  /\ \A p \in Players :
       LET s == st.sessionIdByPlayerName[p]
       IN  s # None => /\ st.sessionsById[s] # None
                       /\ st.sessionsById[s].playerName = p
  /\ \A s \in Online(st) :
       st.sessionIdByPlayerName[st.sessionsById[s].playerName] = s

=============================================================================
