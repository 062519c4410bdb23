# A verification model of MCBEWebRTC

MCBEWebRTC gives Minecraft Bedrock players proximity voice chat. This directory holds TLA+ modules that
model the program's own logic, TLC configurations that check them on small instances, and proofs checked
by TLAPS. Source paths are relative to `src/`.

## The system

| Component | Source | State | Operations |
|---|---|---|---|
| Session registry | `backend/src/domain/session/SessionStore.ts` | two Maps: sessions by id, id by player name | create, look up, list, remove |
| Signalling server | `backend/src/signaling/createSocketServer.ts`, `signaling/handlers/*` | `socketIdBySessionId`, `socket.data` of each socket, Socket.IO's own sockets | `client:join` with takeover, relay of `webrtc:*`, `presence:list:req`, `disconnect`, bridge events |
| Rate limiter | `backend/src/domain/auth/AuthRateLimiter.ts` | timestamps of allowed requests per player | `check` |
| Player verification | `backend/src/domain/auth/*`, `http/routes/auth.ts`, `server.ts` | verification records in two Maps, token whitelist | start/finish (tell), start/matched/confirm (manual), validate |
| Proximity | `backend/src/domain/proximity`, `domain/state` | last known position of each player | position updates, a tick every 200 ms that prunes and pushes `presence:nearby` |
| Bridge admission | `backend/src/signaling/middleware/authBridge.ts` | none (role and expiry are stored on the socket) | accept or reject a gateway |
| Minecraft gateway | `mcwss/src/mcGateway.ts` | the game's socket, pending commands | connection takeover, commands and responses, chat and movement events, stop |
| Signalling bridge | `mcwss/src/signalingBridge.ts`, `services/command/*` | Socket.IO client, its token and timer, watched challenges | start, stop, token rotation, `/tell`, manual watches |
| Browser signalling | `frontend/src/signaling/*` | session id, peer manager, audio | join, force-replace, nearby updates, offers/answers/candidates, leave |
| Browser WebRTC | `frontend/src/webrtc/*` | map of peers, queued candidates | connect, answer, close, volumes |
| Browser audio | `frontend/src/audio/*` | microphone stream, one element per remote | initialise, play, stop |
| Shell | `App.tsx`, `network/*`, `config/*`, `http/createApp.ts`, `shared/` | React state, configuration | rendering, fetches, parsing |
| Legacy demo | `demo/` | the first version of server and gateway | superseded by the packages above |

How they interact. The game opens a WebSocket to **mcwss**, which forwards positions and chat matches over
one Socket.IO connection to the **backend**. A browser first proves who it is over HTTP (*tell*: a code is
sent into the game; *manual*: the player types a challenge in the game and mcwss reports it), gets a player
token, joins over Socket.IO with it, receives who is near every 200 ms, and sets up WebRTC connections
with them through the backend's relay. Backend, gateway and browser are each single threaded: what is
concurrent is the order in which events of different sockets, timers and promises are handled.

What is hard in it, with the property that makes each component correct:

* **Session registry and signalling server.** Three indexes (sessions by id, id by name, socket by
  session) and `socket.data.sessionId` describe the same fact and are updated by different lines. A
  takeover removes the old session twice and runs the old socket's disconnect handler in the middle.
  Correct: the indexes agree, a player is online once, whoever was replaced is silent, a signal reaches
  the client it is meant for, nobody stays online without a connection.
* **Rate limiter.** Forgets everything but the last window. Correct: no window ever holds too many grants,
  and `resetAt` is exact.
* **Verification.** Two Maps of shared mutable records with lazy cleanup in one of them, tokens that
  outlive the process, reports that arrive late or twice, clocks in seconds and in milliseconds. Correct:
  a token is earned, once per verification, from the player's latest one, and is good until it expires.
* **Proximity.** Pruning against a stream of updates; a browser acts on a list that may be 200 ms old.
* **Gateway.** A new game connection replaces the old one while commands are pending.
* **Signalling bridge.** Token refresh, rejection and reconnect race; watch events are lost when offline,
  reports are late. Correct: the bridge is not rejected and comes back, it watches for what the backend waits
  for, and a player is confirmed exactly if that player said the challenge.
* **Browser.** `setupWebRtc` awaits the microphone and the ICE servers while signals, disconnects and
  further joins arrive; who calls whom is decided by comparing session ids; failures close by session id.
  Correct: who is away neither hears nor is heard, connections, audio elements and streams are not leaked,
  neighbours get connected and parted players disconnected.

`PROJECT.json` lists these hazards at the line where each bites, with the properties that cover them.

## Modules

| Module | Models | Notes |
|---|---|---|
| `SessionStore` | `SessionStore.ts` | the two Maps as a value, one operator per method |
| `SessionRegistry` | abstract | who holds each name; claim, take over, leave, clear; an id once retired never returns |
| `SignalingServer` | `createSocketServer.ts` (player side), `clientJoin.ts`, `webrtcRelay.ts` | composes `SessionStore`; implements `SessionRegistry` |
| `AuthRateLimiter` | `AuthRateLimiter.ts` | |
| `PlayerAuth` | `PlayerAuthService.ts`, its two stores, `http/routes/auth.ts`, `jwt.ts`, `server.ts` wiring | implements `VerificationBook` |
| `VerificationBook` | abstract | one line per player: open, seen, closed |
| `Proximity` | `startProximityService.ts`, `StateStore.ts`, `presence.ts`, `bridgePosition.ts`, `tryParseTransform` | composes `SessionStore` |
| `McGateway` | `mcwss/src/mcGateway.ts` | connections and commands |
| `SignalingBridge` | `mcwss/src/signalingBridge.ts`, `manualAuthWatcher.ts`, `authBridge.ts`, the coordinator in `createSocketServer.ts` | both ends of the link between mcwss and backend, with the manual sessions of `PlayerAuth` reduced to their challenge |
| `VoiceClients` | `createSignalingService.ts`, `createSocketGateway.ts`, `WebRTCConnectionManager.ts`, `PeerConnection.ts`, `AudioService.ts` | several browsers over a relay; `SignalingServer` and `Proximity` reduced to what the page relies on |
| `MC*` | | instances for TLC |
| `*Proofs` | | theorems and their lemmas |

**Correspondence.** One action is one event handler or one HTTP request. Node runs a handler to completion,
and the promises awaited in `startTellVerification` and `startManualVerification` are resolved before the
next event (the bridge only has messages emitted to it), so these are single actions too. Definitions keep
the names of the code. In `SignalingServer`:

* `conn` is Socket.IO's view of a connection. `LoseLink` is a client that vanishes without a close: it
  stays in `io.sockets.sockets` ("lost") until `PingTimeout`. `Disconnect` is an orderly close.
* `JoinReplace` is the whole handler for a takeover: the session is removed, created, routed, the old route
  and session removed, the old socket's `data.sessionId` reset, then the socket closed; its "disconnect"
  handler runs inside that call and finds no session.
* tokens are abstract: `None`, `BadToken` or the name of the player it was issued to. With tokens switched
  off (`RequirePlayerTokenAuth = FALSE`) the check is skipped, as in the code.
* `delivered` holds what the last handler sent to clients; `told`, `issued` and `joins` are history.

In `PlayerAuth`, `records` is the heap of verification records and the two Maps hold indices into it,
because the code mutates records that both Maps share. `PostTellStart` and its like are the requests, each
with the route's own guard and, for the manual confirmation, the wrapper of `server.ts` that stops the watch.
A refused request is an action only where it
emits to the bridge. Each start may be refused by the limiter, which is the same as the request not being
made. `toBridge` is what the last handler emitted to the bridges.

In `Proximity` a player's state holds its age instead of `lastSeenAt`, and `sinceTick` the time since the
timer last fired; the timer fires after `TickMs`, or up to `MaxLag` later when the event loop is busy.
`Tick` is the whole callback: it prunes, then builds every list from what is left. `PlayerTransform` is the
way of a position from the game's event to the store: an event without a usable position, or with a dimension
outside the game's three, is dropped whole (`TryParseTransform`), one without a dimension passes. An id that no session
and no list holds any more may be drawn again, so sessions come and go without end. A presence request
changes nothing; `PresenceList` is its answer.

In `McGateway`, `promise[c]` is what the caller of `sendCommand` holds, `pendingCommandByRequestId` the set
of commands with a resolver, `conn` the state ws keeps for each game connection. `GameConnects` closes the
served connection and replaces it; its "close" event comes later, as `HandleClose`, while both connections
still deliver what the game sends. `SendCommand` on a connection that ws is already closing loses the
message silently, as `send` does. `HandleClose` fails every pending command, also those sent on the
connection that took over: a caller may then be told "failed" although the game runs the command. The
comment at `mcGateway.ts:166` asks for exactly that, and the backend takes no notice of a failed `/tell`,
so no property forbids it; what is required is that a call is answered once, a response that comes after the
answer changes nothing, a reported success is real (`OneTrueAnswer`), and nobody is forgotten (`WaitersRemembered`).
`promise[c]` is what the resolver was last told, so a second call of it would show.

In `SignalingBridge`, `tokenLeft` and `timer` count down instead of instants, `down` is the queue of watch
messages to the bridge, `up` the reports on the present connection (or kept by socket.io for the next), `late`
those on connections that the bridge has given up but the backend still reads. `stale` says that the backend
has such a connection: `collectBridgeSockets` counts it, so a start can succeed with nobody to watch.
A connection is made in two steps, because it takes a round trip: `Answer` is the backend taking or refusing the
token of a handshake (`authBridge`), `Connect` the bridge's "connect" event; between them (`answered`) a refresh, a
loss or a restart may give the handshake up. `reconnectWithFreshToken` is one action: rotate, schedule,
disconnect, start a handshake that takes its time. `session[p]` is the
challenge of a player's last manual verification until it is ended with a stop or superseded; a `/tell`
verification (`StartTell`) supersedes it and tells the bridge nothing, and expiry (`Expire`) is noticed only by
the next report or confirmation, so a watch may go on for a session that is over. `missed` remembers whose last
start or end the bridge was not told of.

In `VoiceClients`, `svc[c]` is the state of a page's `createSignalingService`, `pcs` the open
RTCPeerConnections, each with the manager and the session it is registered under, `ops` the promises on them.
A handler runs up to its first `await` as one action; what follows it is an action of its own (`Settle`,
`IceServersFetched`, `MicrophoneGranted`), which finds whatever the others have left. Session ids are numbers
because `syncConnections` compares them; 0 is the empty string. `down[c]` is the queue of events from the
server to a page. The server answers `client:join` by its own rules, reduced to one session per client, unless
it has closed the page's connection and the page does not know yet (`CutOff`): then the join is lost. `Tick`
sends the lists. `overtaken` collects the pages that left, joined again or were disposed while a set-up was
pending, see *Known gaps* below.

Operators whose names carry an underscore (`JoinReplace_DropsJoiner`, `Allows_OneMore`) are the same
definition with a plausible mistake in it. They are used by no specification; they serve to show that the
properties notice such a mistake.

## Runs

| Run | Bounds | Shows |
|---|---|---|
| `signaling_once` | 2 players, 3 connections, 3 session ids, tokens required, each connection joins once, fair heartbeat | every online session has an attached connection that speaks for it; signals arrive where they are meant to; a takeover closes no connection but the one it takes the name from; `ImplementsRegistry`; a lost player leaves |
| `signaling_rejoin` | 2 players, 4 connections, 4 session ids, no tokens, up to 3 joins per connection | the indexes agree, one session per player, replaced connections are silent and closed, nobody loses a session to someone else's join |
| `signaling_ghost` | 1 connection, 2 names, 2 joins | counterexample to `NoGhostSession` |
| `signaling_self_replace` | 1 connection, 1 name, 2 joins | counterexample to `JoinerStaysConnected` |
| `rate_limiter` | 2 players, window 3, 2 requests, time to 6 | window bound and exact `resetAt`; two full windows fit into the run |
| `player_auth` | 2 players, 2 codes, 3 verifications, time to 3, a restart; tell codes live 1 tick, manual ones 2, tokens a second of 2 ticks | tokens are earned, single, from the latest verification, and live exactly as long as they should; `ImplementsBook` |
| `player_auth_cleanup` | 1 player, 1 verification, the clock runs on | counterexample to the documented cleanup |
| `proximity` | 2 players, 3 session ids, 3 positions (in range, exactly at the radius, out of it), 2 dimensions, the unknown one and an invalid one, TTL 1, interval 1, lag 1 | lists of a tick are symmetric, fresh and agree with presence requests; who stays near gets listed, who parts or vanishes gets dropped |
| `mc_gateway` | 3 game connections, 2 commands | the newest connection stays served, a call is answered once and truthfully, no caller is forgotten, a closed connection leaves nobody waiting |
| `signaling_bridge` | 1 player, 3 challenges, lifetimes 2 (too short), 5 and 11 (overflows the timer), 2 losses or restarts | the bridge is not rejected if its tokens live long enough, and comes back unless they overflow the timer, watches follow the sessions, and only and all players who say their challenge are confirmed |
| `voice_clients` | 2 pages, 3 session ids, 4 connections, 4 joins, retries, meetings, partings, failures and early ticks in any mixture | who is away is silent, nothing leaks, no glare, answered calls get through, who is left alone falls silent |
| `voice_nearby` | the same with 3 events | counterexample to `NearbyConnect` |

Four connections are enough for a takeover of a takeover while a bystander signals, three when each joins
once (claim, takeover, leave and re-claim of one name). Three verifications allow one player to supersede a
verification while another player's start triggers the cleanup; the times are chosen so that a code,
a token and the run end at different instants and every boundary is hit. A third
session id lets a takeover happen while another player is listed; lists are built pair by pair, so two
players meet every case. A third game connection replaces one that is still closing.
Players' watches do not interact, so one player is enough in `signaling_bridge`; a third challenge lets a report of
the first and a watch for the second coexist with the session of the third, and two faults are a loss after
a restart. The refresh constants keep the order of the code's (delay, least and greatest time ahead), scaled
down. In `voice_clients` four events are two joins, a meeting, and one more of any kind (a rejoin, a parting,
a failure, an early list); lists, set-ups and signals are not bounded. Connections, commands
and the signalling runs' session ids are used once and finite, so these runs may stop and deadlock is not
checked there.

**Fairness.** `SignalingServer` assumes only that Engine.IO's heartbeat timer fires for a lost connection
(weak fairness of `PingTimeout`). `PlayerAuth` assumes, for the cleanup run, that the clock advances.
`Proximity`
assumes that time passes and that `setInterval` keeps firing. `McGateway` assumes that ws ends a close
handshake, by its own timeout if need be, and reads what has arrived; the game need not answer.
Clients owe nothing.
`SignalingBridge` assumes that socket.io goes on trying and that a handshake nobody interrupts is answered and
completed (weak fairness of `Answer` and `Connect`). A refresh interrupts it. That it nevertheless gets through
in the end is assumed (strong fairness) only for steps taken while the refresh timer still runs and the token is
good: handshakes are tried every few seconds, and the timer runs for `MIN_REFRESH_DELAY_MS` at least. Of a timer
that is always due (`SetTimeout` of a delay that overflows) nothing of the kind is assumed. Further, messages
arrive and timers fire on time (`Tick` waits for a timer that is due), and, for `SaidIsConfirmed` only, the player
repeats the challenge. `VoiceClients` assumes that messages arrive, that `fetchIceServers` and the browser's
calls settle, that ICE connects what it can and gives up what is hopeless, and that the timer ticks. Nobody has
to join, to move or to answer the microphone prompt. Its ticks come when what the last one led to has
settled (they are 200 ms apart), except for the few that `MaxEvents` allows to come early; ICE gives up (which
takes seconds) only when all signals have arrived.

**What the counterexamples mean.**

* *Ghost sessions* (`createSocketServer.ts:219`). A client that joins as `alice` and then, on the same
  connection, as `bob` leaves `alice` online: `socket.data.sessionId` is overwritten, and a disconnect only
  removes the session it names. `alice` is then shown to others, and can only be joined with forceReplace.
* *Self-replacement* (`createSocketServer.ts:230`). Joining again under the same name with forceReplace, as
  the browser's force-replace button does on its open connection, disconnects the joiner itself, and
  since its `data.sessionId` was reset first, its new session becomes a ghost.
* *Cleanup* (`backend/README.md:80`). `AUTH_VERIFY_SESSION_CLEANUP_INTERVAL_MS` (and its token sibling) is
  parsed and documented, but nothing schedules the cleanup; records are dropped only when another
  verification starts.
* *Neighbours without a call* (`createSignalingService.ts:377`). A page that has joined but still waits for
  the microphone has no manager and drops an offer. The caller's connection stays in its Map, so
  `syncConnections` does not offer again, and since the callee has the greater id it does not call either.
  The page promises to connect nearby players (`App.tsx:269`). `AnsweredConnect` shows that this
  is the only way to fail: as long as no offer is dropped or left unanswered, calls get through in the end.

**Known gaps in the code, seen while modelling, that no property claims.** A set-up that completes after the
page has left or been disposed installs its manager and keeps the microphone open
(`createSignalingService.ts:213`); a second set-up replaces the first manager and leaks its stream. A page that
joins twice at once is denied because of itself and shows "denied" while its session lives. The properties of
`VoiceClients` leave such pages out (`overtaken`) and hold for all others. A rejection that a fresh token does
not cure makes the bridge reconnect without pause (`signalingBridge.ts:142`). With `JWT_EXPIRES_IN` above 24.8
days the delay of the refresh timer overflows `setTimeout` (`signalingBridge.ts:254`): it fires after a
millisecond, renews the token and gives up the connection or the handshake under way, again and again, and
nothing ensures that the bridge ever gets through. `BridgeComesBack` and `SaidIsConfirmed` leave such lifetimes out
(`ShortEnough`); without that premise TLC finds both violated for lifetime 11, in a cycle of handshakes that
are answered and given up. The safety properties hold for such lifetimes too.

A ghost session has a further victim. The connection that joined as `alice` and then as `bob` is still the one
that `alice` runs on, so whoever takes `alice` over disconnects it, and `bob` with it: with two joins per connection
`TakeoverSparesOthers` fails, as `NoGhostSession` does, and for the same reason. With one join it holds.

## Proofs

All theorems hold for every value of the constants that satisfies the named assumptions.

* `SessionStoreProofs`: what each store operation preserves. `ReplaceSession` describes the remove, create,
  remove of a takeover as one step; `ConsistentUnique` turns index consistency into one session per player.
* `SignalingServerProofs`: the inductive invariant is `IInv`. `IndexesAgree` and `RoutesAgree` alone are not
  inductive: to know that the joiner does not hold a reused id, one needs `OnlyIssuedIds`; to know that the
  replaced connection's handler leaves the others alone, `SendersOnline`; and `FreshConnections` says that a
  new connection brings no old session. From it: `TypeCorrect`, `PlayersOnlineOnce`, `IndexesStayInStep`,
  `OnlyOnlineSessionsSpeak`, `SessionsAreKept`, and the step simulation behind `Refinement`. With the
  assumption `JoinsPerSocket = 1`, which is what the counterexamples above show to be necessary, `OnceInv`
  is inductive as well and gives `NoGhosts`, `SignalsReach`, `NamesMatchSpeakers`, `JoinersStayConnected` and
  `OthersAreSpared`: the connection a takeover closes is the one that speaks for the name, because of `OneIdentity`.
  `RoutesStayInStep` is the server's own index. `TakeoversDropTheLoser`, an action property, also needs
  `SessionsOpened`: an online session's connection has been opened, and only such a one can be
  closed.
* `AuthRateLimiterProofs`: `IInv` adds to the window bound that what the limiter still remembers is enough
  (`HistoryOK`) and that after a refusal it remembers exactly `MaxRequests` requests, the first of which
  leaves at `resetAt` (`RefusalOK`). A grant can only overfill windows that end now or later, and these hold
  remembered requests only. From it: `TypeCorrect`, `WindowsBounded`, `ResetIsExact`.
* `McGatewayProofs`: to `LatestServed`, `SuccessIsTrue` and `WaitersRemembered` (resolvers are kept for exactly
  those who wait), `IInv` adds that the served
  connection's close is still to come (`ServedIsConnected`; without it a command could be sent on a
  connection that no close will answer for) and that successes on their way were earned
  (`ResponsesAreTrue`). `NobodyWaits` says why failing all pending commands is enough. `AnsweredOnce`,
  an action property, holds because whoever has a resolver still waits (`WaitersRemembered`).
* `ProximityProofs`: `IInv` adds to the properties of the lists that the store's indexes are consistent
  (`NobodyTwice` rests on it), that ended sessions show nothing, and that no position is older than the TTL
  and the time since the tick (`AgesBounded`). `JoinStore` describes what a join leaves in the store;
  `CanConnectSymmetric` is why the lists of a tick agree. `TicksMatchPresence` is an action property.
* `SignalingBridgeProofs`: `TokenInv` says that the refresh timer runs out before the token, if tokens live
  longer than the least delay and jsonwebtoken's rounding; `RefreshedInTime` derives it from the arithmetic
  of `computeRefreshDelay`, for all constants. From it `NeverRejectedTheorem`. `ReportsInv` adds to
  `ReportsGenuine` that every report under way about the challenge of a present session comes from its
  player's own words; `Fresh`, that codes are not drawn again while something refers to them, keeps it.
  `WatchesFollow` alone is not inductive, since it speaks only of players with no message on its way; `Follows`
  adds that the last message on its way to a bridge leads to the session the player has (`Outcome`), from which
  `WatchesFollowTheorem`. `TypeCorrect` is its type invariant.
* `PlayerAuthProofs`: `LookupsAgree` is what lets the service mark a record through one Map and judge it through
  the other. One token per verification follows because a record that gave a token is `verified` for good
  (`GrantedAreVerified`) and nothing that is verified is granted again; a manual token is earned because what is
  confirmed was reported (`ConfirmedWereReported`), and belongs to the player's newest verification because the
  service's own Map never goes back (`CurrentIsLatest`). For the verdicts, `EntriesBacked` and `TokensListed`
  frame the whitelist from both sides: it has entries of this process only, and all of them until they expire,
  whatever the lazy cleanup removes; `TokenIdsUnique` and `TokensOfThePast` keep entries and processes apart.
  `Refinement` maps the two Maps to one line per player (`LineOf`).
* `VoiceClientsProofs`: two halves. `Admitting` is about one page and its server: after the notice that the
  connection was closed nothing follows (`CutOffLast`), one answer to `client:join` at most is on its way
  (`AdmittedOnce`), and so one set-up at most is under way, during which there is neither manager nor stream
  (`SetUpOnce`). `Connecting` is about connections: each promise belongs to the manager and the session of its
  connection (`CallsMatch`), and a page's open connections are all its present manager's, one for each session,
  audible exactly if described, and calling larger ids only (`Kept`). `NoGlare` needs the last clause for both
  pages at once. From it: `TypeCorrect`, `AwayPagesAreSilent`, `NothingLeaks`, `OffersNeverCross`, for any number
  of pages, sessions and connections.

  The attempt to prove `AdmittedOnce` showed the model to be wrong: it let the server answer a `client:join`
  on a connection that it had already closed, so a page could be admitted twice. Four events were too few for
  TLC to meet the case. A join is now lost if the page has been cut off (`CutOff`), as in Socket.IO, and the
  run's properties are checked on the corrected model.

Every invariant and every safety action property of every passing run has a theorem. **Only model-checked** is
liveness, which is out of the prover's reach: `LostPlayersLeave`, `NearAreListed`, `PartedAreDropped`,
`ClosedLeaveNobodyWaiting`, `SaidIsConfirmed`, `BridgeComesBack`, `AnsweredConnect`, `PartingEndsCalls`.

## Abstractions

* Names, ids and codes are atoms; trimming happens at every entry of the code and is not modelled.
* `randomUUID` never repeats; a verification code never repeats for one player (one in 900 000 per pair).
* `Date.now()` does not run backwards.
* Socket.IO and Engine.IO are external, modelled by what the server relies on: ids are never reused, a
  closed connection dispatches nothing more, `disconnect(true)` runs the disconnect handler before it
  returns, an emit to a lost or closed connection delivers nothing.
* ws and the game are external to `McGateway`: an accepted socket has exactly one "close" event, and a
  command is answered once at most, on the connection it was sent on. Request ids never repeat.
* socket.io's client, in `SignalingBridge`, keeps what is emitted while it is not connected and sends it on the
  next connection; the server loses what it sent on a connection that the client has given up. One bridge;
  backend and bridge have the same secret and clocks that run alike.
* `VoiceClients`' server has one session per client: a page may join again under its own name, but a join under
  another name on a connection that is open, which `createSocketServer.ts:204` admits and the page offers
  (`App.tsx:309`), is left out (`GatewayJoin` only ever denies a join of a page that is online). What it leaves
  at the server, a ghost that is listed and called in vain, is in `SignalingServer`; its effect on other pages is not modelled.
* RTCPeerConnection and ICE are external: the head of `VoiceClients` lists what is relied on. A connection
  makes one description and one candidate. A session id is not drawn again while anything refers to it.
* Positions have one coordinate instead of three, in whole numbers; JavaScript's rounding is left out.
* The order in which `listOnlineSessions` lists, timestamps that nothing reads, HTTP status codes, message
  texts and logging are left out.

## Not modelled

* Configuration parsing, `createApp.ts`, the ICE route, Docker files: no state that changes.
* `App.tsx` and `network/auth.ts`: rendering and fetch wrappers. Its state machine is the page's own; requests
  in any order are what `PlayerAuth` is checked with.
* What only the page shows (`peerStates`, names, reasons of a denial) and the volumes, which are floating
  point arithmetic on positions.
* `handleTellSend` of the bridge: its reports are ignored by the backend; its command is in `McGateway`.
* The legacy demo, which the other packages replace.
* More clients than `MAX_CONNECTIONS` + 1, hence the limit on connections when called (`WebRTCConnectionManager.ts:61`).

## Plan

1. Tokens and joins together (`PlayerAuth` with `SignalingServer`), and the limiter in front of starts.
2. Two bridges at one backend.
3. The refinement from `VoiceClients`' reduced server to `SignalingServer`, so that what the browsers rely on
   rests on the server's own theorems.
