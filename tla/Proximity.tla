------------------------------ MODULE Proximity ------------------------------
(***************************************************************************)
(* Who hears whom: backend/src/domain/proximity/startProximityService.ts,  *)
(* the StateStore it reads (domain/state/StateStore.ts), the positions     *)
(* that fill it, from the game's events (tryParseTransform of mcwss's      *)
(* mcGateway.ts) by way of signaling/handlers/bridgePosition.ts, and the   *)
(* presence requests that read it (signaling/handlers/presence.ts), over   *)
(* the sessions of SessionStore.                                           *)
(*                                                                         *)
(* Instead of lastSeenAt and the clock, a player's state holds its age.    *)
(* The timer fires when TickMs have passed, or up to MaxLag later, when    *)
(* the event loop is busy.  One coordinate stands for three.               *)
(***************************************************************************)
EXTENDS SessionStore, Integers

CONSTANTS
  Positions,   \* where players may be
  Dims,        \* dimensions of the game
  OutOfRange,  \* what an event may name that is none of them
  CallRadius,
  PlayerTtl,   \* gamePlayerTtlMs
  TickMs,
  MaxLag       \* how late the timer may fire

MaxAge == PlayerTtl + TickMs + MaxLag

PlayerState == [position : Positions, dim : Dims \cup {None}, age : 0 .. MaxAge]

ASSUME ProximityAssumption ==
  /\ Positions \subseteq Int /\ None \notin Positions
  /\ None \notin Dims /\ OutOfRange \notin Dims \cup {None}
  /\ None \notin PlayerState
  /\ CallRadius \in Nat
  /\ PlayerTtl \in Nat
  /\ TickMs \in Nat \ {0}
  /\ MaxLag \in Nat

VARIABLES
  store,          \* the SessionStore
  playersByName,  \* the StateStore
  sinceTick,      \* time since the timer last fired
  nearby,         \* the list each session's client was sent last
  told            \* the sessions the last tick reached that still exist

vars == <<store, playersByName, sinceTick, nearby, told>>

\* NearbyPlayerItem, its position left out.
Item == [sessionId : SessionIds, playerName : Players]

ItemOf(id) == [sessionId |-> id, playerName |-> store.sessionsById[id].playerName]

\* getPlayerByName(session.playerName)
PlayerOf(id) == playersByName[store.sessionsById[id].playerName]

Init ==
  /\ store = EmptyStore
  /\ playersByName = [p \in Players |-> None]
  /\ sinceTick = 0
  /\ nearby = [s \in SessionIds |-> {}]
  /\ told = {}

-----------------------------------------------------------------------------
(* Sessions come and go (handleClientJoin, the disconnect handler).        *)

\* randomUUID() returns an id that nobody holds or remembers.
Unused(id) ==
  /\ id \notin Online(store)
  /\ \A s \in SessionIds : \A item \in nearby[s] : item.sessionId # id

\* The client of a session that ends is shown nothing any more.
Forget(ids) ==
  /\ nearby' = [s \in SessionIds |-> IF s \in ids THEN {} ELSE nearby[s]]
  /\ told' = told \ ids

\* Mutated: the session that is taken over stays.
Join_KeepsOld(name, id, socket) ==
  /\ Unused(id)
  /\ store' = CreateSession(store, id, name, socket)
  /\ UNCHANGED <<playersByName, sinceTick, nearby, told>>

Join(name, id, socket) ==
  LET old == GetByPlayerName(store, name)
  IN  /\ Unused(id)
      /\ store' = CreateSession(IF old = None THEN store ELSE RemoveById(store, old),
                                id, name, socket)
      /\ Forget({old})
      /\ UNCHANGED <<playersByName, sinceTick>>

Leave(id) ==
  /\ id \in Online(store)
  /\ store' = RemoveById(store, id)
  /\ Forget({id})
  /\ UNCHANGED <<playersByName, sinceTick>>

-----------------------------------------------------------------------------
(* Positions.                                                              *)

\* What a PlayerTransform event may hold: a position that may be unusable, a dimension
\* that may be missing.
TransformEvents ==
  [position : Positions \cup {None}, dim : Dims \cup {None, OutOfRange}]

\* tryParseTransform: which events pass.
TryParseTransform(event) == event.position # None /\ event.dim # OutOfRange

UpsertPlayer(players, name, position, dim) ==
  [players EXCEPT ![name] = [position |-> position, dim |-> dim, age |-> 0]]

\* handleBridgePositionUpdate: mcwss always sends a position and a dim, maybe null.
PositionUpdate(name, position, dim) ==
  /\ playersByName' = UpsertPlayer(playersByName, name, position, dim)
  /\ UNCHANGED <<store, sinceTick, nearby, told>>

\* The game's event, when the bridge is connected (sendPositionUpdate).
PlayerTransform(name, event) ==
  /\ TryParseTransform(event)
  /\ PositionUpdate(name, event.position, event.dim)

\* Mutated: the difference is taken the wrong way round, nothing is ever too old.
Prune_Swapped(players) == players

\* prunePlayers
Prune(players) ==
  [p \in Players |-> IF players[p] # None /\ players[p].age > PlayerTtl
                     THEN None ELSE players[p]]

InRange(self, other) ==
  (self.position - other.position) * (self.position - other.position)
    <= CallRadius * CallRadius

\* Mutated: an unknown dimension of the other player does not count as any.
CanConnect_SelfDim(self, other) ==
  /\ self.dim = None \/ self.dim = other.dim
  /\ InRange(self, other)

\* An unknown dimension is compatible with every other.
CanConnect(self, other) ==
  /\ self.dim = None \/ other.dim = None \/ self.dim = other.dim
  /\ InRange(self, other)

\* collectNearbyPlayers, with the players that prunePlayers has left.
CollectNearbyPlayers(id, players) ==
  LET Player(s) == players[store.sessionsById[s].playerName]
  IN  {ItemOf(other) : other \in {s \in Online(store) \ {id} :
         /\ Player(id) # None
         /\ Player(s) # None
         /\ CanConnect(Player(id), Player(s))}}

\* Mutated: empty lists are not sent.
Tick_SkipsEmpty ==
  /\ sinceTick >= TickMs
  /\ sinceTick' = 0
  /\ playersByName' = Prune(playersByName)
  /\ nearby' = [s \in SessionIds |->
       IF s \in Online(store) /\ CollectNearbyPlayers(s, playersByName') # {}
       THEN CollectNearbyPlayers(s, playersByName') ELSE nearby[s]]
  /\ told' = Online(store)
  /\ UNCHANGED store

\* The timer's callback: prune, then send every session its list.
Tick ==
  /\ sinceTick >= TickMs
  /\ sinceTick' = 0
  /\ playersByName' = Prune(playersByName)
  /\ nearby' = [s \in SessionIds |->
       IF s \in Online(store) THEN CollectNearbyPlayers(s, playersByName')
       ELSE nearby[s]]
  /\ told' = Online(store)
  /\ UNCHANGED store

TimePasses ==
  /\ sinceTick < TickMs + MaxLag
  /\ sinceTick' = sinceTick + 1
  /\ playersByName' = [p \in Players |->
       IF playersByName[p] = None THEN None
       ELSE [playersByName[p] EXCEPT !.age = @ + 1]]
  /\ UNCHANGED <<store, nearby, told>>

\* handlePresenceListReq: the answer to presence:list:req, which changes nothing.
PresenceList(id) ==
  {ItemOf(other) : other \in {s \in Online(store) \ {id} :
     /\ id \in Online(store)
     /\ PlayerOf(id) # None
     /\ PlayerOf(s) # None
     /\ PlayerOf(id).dim # None /\ PlayerOf(s).dim # None
          => PlayerOf(id).dim = PlayerOf(s).dim}}

-----------------------------------------------------------------------------
Next ==
  \/ \E p \in Players, s \in SessionIds, x \in Sockets : Join(p, s, x)
  \/ \E s \in SessionIds : Leave(s)
  \/ \E p \in Players, event \in TransformEvents : PlayerTransform(p, event)
  \/ Tick
  \/ TimePasses

Spec == Init /\ [][Next]_vars

\* Time passes, and setInterval goes on firing.
FairSpec == Spec /\ WF_vars(Tick) /\ WF_vars(TimePasses)

-----------------------------------------------------------------------------
(* Properties.                                                             *)

\* Every variable keeps its type; no position survives MaxAge.
TypeOK ==
  /\ store \in Store
  /\ playersByName \in [Players -> PlayerState \cup {None}]
  /\ sinceTick \in 0 .. (TickMs + MaxLag)
  /\ nearby \in [SessionIds -> SUBSET Item]
  /\ told \in SUBSET Online(store)

Listed(s, t) == \E item \in nearby[s] : item.sessionId = t

\* A call is opened by one side only, chosen by session id (createSignalingService.ts),
\* so two sessions that the same tick reached must have been shown each other or not
\* at all.
MutualNeighbours == \A s, t \in told : Listed(s, t) <=> Listed(t, s)

\* Whoever a client is shown was seen in the game no longer ago than the TTL and one
\* interval of the timer, whatever was reported, pruned or left in between.
FreshNeighbours ==
  \A s \in SessionIds : \A item \in nearby[s] :
    /\ playersByName[item.playerName] # None
    /\ playersByName[item.playerName].age <= PlayerTtl + sinceTick

\* A client is never shown its own player, nor another player twice: the sessions a
\* takeover leaves behind do not linger in the lists.
NobodyTwice ==
  \A s \in Online(store) :
    /\ \A item \in nearby[s] : item.playerName # store.sessionsById[s].playerName
    /\ \A i, j \in nearby[s] : i.playerName = j.playerName => i = j

\* presence.ts and startProximityService.ts filter sessions independently: what a tick
\* sends is what a presence request at that moment answers, within the call radius.
TickMatchesPresence ==
  [][sinceTick' < sinceTick =>
       \A s \in Online(store) : nearby'[s] \subseteq PresenceList(s)']_vars

\* Two sessions that can hear each other, by the presence list and the call radius.
Near(s, t) ==
  /\ {s, t} \subseteq Online(store)
  /\ ItemOf(t) \in PresenceList(s)
  /\ InRange(PlayerOf(s), PlayerOf(t))

\* Players who stay near each other are shown each other, and it stays so.
NearAreListed ==
  \A s, t \in SessionIds : s # t => (<>[]Near(s, t) => <>[]Listed(s, t))

\* The comment at startProximityService.ts:77, every tick sends: players who part, or
\* are not seen any more, or leave, disappear from the lists.
PartedAreDropped ==
  \A s, t \in SessionIds :
    s # t => (<>[](s \in Online(store) /\ ~Near(s, t)) => <>[]~Listed(s, t))
=============================================================================
