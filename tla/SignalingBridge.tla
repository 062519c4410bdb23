--------------------------- MODULE SignalingBridge ---------------------------
(***************************************************************************)
(* The link between mcwss and the backend: mcwss/src/signalingBridge.ts    *)
(* with its token that is renewed before it expires, the admission of      *)
(* bridges and the coordinator of createSocketServer.ts, and the watches   *)
(* of manualAuthWatcher.ts, which wait for a player to say a challenge in  *)
(* the game.  Module PlayerAuth has the verifications themselves.          *)
(*                                                                         *)
(* socket.io is external, modelled by what the code relies on: a client    *)
(* that has lost its connection tries again with the same token, and keeps *)
(* what it emits meanwhile; what the backend has sent on a connection that *)
(* the client gives up is lost; the backend may notice the end of a        *)
(* connection later than the client.  Both clocks run alike and timers are *)
(* on time.  Position updates, and what the bridge reports of tell         *)
(* commands, which the backend ignores, are left out.                      *)
(***************************************************************************)
EXTENDS Integers, Sequences

CONSTANTS
  Players,
  Challenges,
  None,
  \* JWT_EXPIRES_IN, and the constants of SignalingBridge, in units of time of a
  \* second or more
  Lifetimes,
  MIN_REFRESH_DELAY, MIN_REFRESH_AHEAD, MAX_REFRESH_AHEAD,
  AheadShare,      \* a tenth of the remaining time: 10
  MaxTimeout,      \* what setTimeout takes: 2^31 - 1 ms
  MaxFaults        \* bound: lost connections and restarts

\* A token that lives no longer than jsonwebtoken's rounding is never valid.
ASSUME LifetimesAssumption == Lifetimes \subseteq Nat \ {0, 1}
\* The time to refresh ahead is longer than the rounding.
ASSUME RefreshAssumption ==
  /\ {MIN_REFRESH_DELAY, AheadShare} \subseteq Nat \ {0}
  /\ {MIN_REFRESH_AHEAD, MAX_REFRESH_AHEAD} \subseteq Nat \ {0, 1}
  /\ MaxTimeout \in Nat
ASSUME NoneAssumption == None \notin Challenges

VARIABLES
  lifetime,    \* jwtExpiresIn
  tokenLeft,   \* how long the backend still takes bridgeAuthToken
  timer,       \* how long refreshTimer still runs
  connected,   \* socket.connected
  answered,    \* the backend has answered a handshake, which the bridge has not seen
  admitted,    \* the backend has taken this connection for a bridge
  stale,       \* it still has an earlier connection of the bridge
  down,        \* watch messages on their way to the bridge
  up, late,    \* reports on this connection (or kept for it), on earlier ones
  watched,     \* watchedChallengeByPlayerName
  session,     \* the challenge of each player's manual verification at the backend
  expired,     \* players whose session has run out of time
  confirmed,   \* players whose session is confirmed in the game
  missed,      \* history: players of whose last start or end the bridge was not told
  said,        \* history: players who have said the challenge of their session
  faults       \* counts the faults that MaxFaults bounds

vars == <<lifetime, tokenLeft, timer, connected, answered, admitted, stale, down, up,
          late, watched, session, expired, confirmed, missed, said, faults>>
clock == <<lifetime, tokenLeft, timer>>
link == <<connected, answered, admitted, stale>>
Reports == [player : Players, challenge : Challenges]
backend == <<session, expired, confirmed, said>>

Lower(a, b) == IF a < b THEN a ELSE b
Higher(a, b) == IF a > b THEN a ELSE b

-----------------------------------------------------------------------------
(* The token (rotateToken, scheduleTokenRefresh, computeRefreshDelay).     *)

\* Mutated: a token is replaced when it has expired.
ComputeRefreshDelay_NoAhead(remaining) == Higher(MIN_REFRESH_DELAY, remaining)

ComputeRefreshDelay(remaining) ==
  LET ahead == Higher(MIN_REFRESH_AHEAD, remaining \div AheadShare)
  IN Higher(MIN_REFRESH_DELAY, remaining - Lower(MAX_REFRESH_AHEAD, ahead))

\* A delay that setTimeout does not take becomes one millisecond.
SetTimeout(delay) == IF delay > MaxTimeout THEN 0 ELSE delay

\* A token counts in whole seconds from the last one: it may expire one early.
IssueBridgeJwt(life) == {life - 1, life}

RotateToken(life) ==
  /\ tokenLeft' \in IssueBridgeJwt(life)
  /\ timer' = SetTimeout(ComputeRefreshDelay(life))
  /\ lifetime' = life

Init ==
  /\ lifetime \in Lifetimes
  /\ tokenLeft \in IssueBridgeJwt(lifetime)
  /\ timer = SetTimeout(ComputeRefreshDelay(lifetime))
  /\ connected = FALSE /\ answered = FALSE /\ admitted = FALSE /\ stale = FALSE
  /\ down = <<>> /\ up = {} /\ late = {}
  /\ watched = [p \in Players |-> None]
  /\ session = [p \in Players |-> None]
  /\ expired = {} /\ confirmed = {} /\ missed = {} /\ said = {}
  /\ faults = 0

\* Timers run on time: none waits while time passes.
Tick ==
  /\ timer > 0
  /\ timer' = timer - 1
  /\ tokenLeft' = Higher(0, tokenLeft - 1)
  /\ UNCHANGED <<lifetime, link, down, up, late, watched, backend, missed, faults>>

-----------------------------------------------------------------------------
(* The connection.                                                         *)

Addressees(messages) == {messages[i].player : i \in 1..Len(messages)}

\* The end of a connection, or of its handshake: the backend does not know yet if it
\* had taken it, and what was on its way to the bridge is lost.
Leave ==
  /\ connected' = FALSE /\ answered' = FALSE /\ admitted' = FALSE
  /\ stale' = (stale \/ admitted)
  /\ down' = <<>>
  /\ missed' = missed \cup Addressees(down)

\* The only way for a bridge's token to be bad (verifyBridgeJwtToken).
Authorized == tokenLeft > 0

\* The backend admits whose token is good (authBridge), and tells the bridge.
Answer ==
  /\ ~connected /\ ~answered
  /\ answered' = TRUE
  /\ admitted' = Authorized
  /\ UNCHANGED <<clock, connected, stale, down, up, late, watched, backend, missed, faults>>

\* "connect": the handshake is complete.  Reports that were kept are sent at once, in
\* vain if the backend has not admitted the bridge.
Connect ==
  /\ answered
  /\ connected' = TRUE /\ answered' = FALSE
  /\ up' = IF admitted THEN up ELSE {}
  /\ UNCHANGED <<clock, admitted, stale, down, late, watched, backend, missed, faults>>

\* Mutated: the token of the first connection is used for ever.
ReconnectWithFreshToken_OldToken ==
  /\ Leave
  /\ timer' = SetTimeout(ComputeRefreshDelay(lifetime))
  /\ late' = IF connected /\ admitted THEN late \cup up ELSE late
  /\ up' = IF connected THEN {} ELSE up
  /\ UNCHANGED <<lifetime, tokenLeft, watched, backend, faults>>

\* reconnectWithFreshToken: whatever is connected is given up, after what it has sent,
\* and a handshake under way is given up too.
ReconnectWithFreshToken ==
  /\ RotateToken(lifetime)
  /\ Leave
  /\ late' = IF connected /\ admitted THEN late \cup up ELSE late
  /\ up' = IF connected THEN {} ELSE up
  /\ UNCHANGED <<watched, backend, faults>>

\* refreshTimer fires.
Refresh ==
  /\ timer = 0
  /\ ReconnectWithFreshToken

\* "auth:rejected"
AuthRejected ==
  /\ connected /\ ~admitted
  /\ ReconnectWithFreshToken

\* The connection is lost, with the reports on it, or its handshake fails.
LoseConnection ==
  /\ connected \/ answered
  /\ faults < MaxFaults /\ faults' = faults + 1
  /\ Leave
  /\ up' = IF connected THEN {} ELSE up
  /\ UNCHANGED <<clock, late, watched, backend>>

\* The backend notices that an earlier connection has ended.
NoticeEnd ==
  /\ stale /\ late = {}
  /\ stale' = FALSE
  /\ UNCHANGED <<clock, connected, answered, admitted, down, up, late, watched, backend>>
  /\ UNCHANGED <<missed, faults>>

\* mcwss restarts: stop() or a crash, and start().
RestartBridge ==
  /\ faults < MaxFaults /\ faults' = faults + 1
  /\ RotateToken(lifetime)
  /\ connected' = FALSE /\ answered' = FALSE /\ admitted' = FALSE
  /\ stale' = (stale \/ admitted)
  /\ down' = <<>> /\ up' = {}
  /\ watched' = [p \in Players |-> None]
  /\ missed' = missed \cup Addressees(down) \cup {p \in Players : watched[p] # None}
  /\ UNCHANGED <<late, backend>>

\* The backend restarts, and forgets what it had in memory.
RestartBackend ==
  /\ faults < MaxFaults /\ faults' = faults + 1
  /\ connected' = FALSE /\ answered' = FALSE /\ admitted' = FALSE /\ stale' = FALSE
  /\ down' = <<>> /\ late' = {}
  /\ up' = IF connected THEN {} ELSE up
  /\ session' = [p \in Players |-> None]
  /\ expired' = {} /\ confirmed' = {} /\ said' = {}
  /\ missed' = Players
  /\ UNCHANGED <<clock, watched>>

-----------------------------------------------------------------------------
(* Watches.                                                                *)

Msg(type, p, c) == [type |-> type, player |-> p, challenge |-> c]

\* The coordinator sends to all it takes for bridges, those that are gone as well.
Broadcast(p, messages) ==
  IF admitted THEN down' = down \o messages /\ missed' = missed \ {p}
  ELSE down' = down /\ missed' = missed \cup {p}

\* Mutated: a restarted watch does not end the one before.
StartManualWatch_Swapped(p, c) ==
  Broadcast(p, <<Msg("start", p, c), Msg("stop", p, None)>>)

StartManualWatch(p, c) == Broadcast(p, <<Msg("stop", p, None), Msg("start", p, c)>>)

StopManualWatch(p) == Broadcast(p, <<Msg("stop", p, None)>>)

\* A code that nothing refers to.
Fresh(c) ==
  /\ \A p \in Players : c \notin {watched[p], session[p]}
  /\ \A report \in up \cup late : report.challenge # c
  /\ \A i \in 1..Len(down) : down[i].challenge # c

\* The player's session at the backend becomes c, or ends.
Replace(p, c) ==
  /\ session' = [session EXCEPT ![p] = c]
  /\ expired' = expired \ {p} /\ confirmed' = confirmed \ {p} /\ said' = said \ {p}

\* startManualVerification: nothing changes without a bridge.
StartManual(p) ==
  /\ admitted \/ stale
  /\ \E c \in Challenges :
       /\ Fresh(c)
       /\ StartManualWatch(p, c)
       /\ Replace(p, c)
  /\ UNCHANGED <<clock, link, up, late, watched, faults>>

\* startTellVerification supersedes a manual session, whose watch goes on.
StartTell(p) ==
  /\ admitted \/ stale
  /\ session[p] # None
  /\ Replace(p, None)
  /\ missed' = missed \cup {p}
  /\ UNCHANGED <<clock, link, down, up, late, watched, faults>>

\* confirmManualVerification: a confirmed or an expired session ends, with its watch.
ConfirmManual(p) ==
  /\ p \in confirmed \cup expired
  /\ Replace(p, None)
  /\ StopManualWatch(p)
  /\ UNCHANGED <<clock, link, up, late, watched, faults>>

\* Its time is up, which nobody looks at until a report or a confirmation comes.
Expire(p) ==
  /\ session[p] # None /\ p \notin expired
  /\ expired' = expired \cup {p}
  /\ UNCHANGED <<clock, link, down, up, late, watched, session, confirmed, missed, said>>
  /\ UNCHANGED faults

StartWatch(msg) == [watched EXCEPT ![msg.player] = msg.challenge]
StopWatch(msg) == [watched EXCEPT ![msg.player] = None]

\* bridge:auth:manual:watch:start and :stop
Deliver ==
  /\ connected /\ down # <<>>
  /\ LET msg == Head(down)
     IN watched' = IF msg.type = "start" THEN StartWatch(msg) ELSE StopWatch(msg)
  /\ down' = Tail(down)
  /\ UNCHANGED <<clock, link, up, late, backend, missed, faults>>

\* Mutated: any message of a watched player counts.
Matches_Any(p, message) == watched[p] # None

Matches(p, message) == watched[p] # None /\ watched[p] = message

\* onMatched emits a report, connected or not.
HandlePlayerMessage(p, message) ==
  up' = IF Matches(p, message) THEN up \cup {[player |-> p, challenge |-> watched[p]]}
        ELSE up

\* A player's chat message; the gateway drops an empty one (None) before.
Say(p, message) ==
  /\ message # None
  /\ HandlePlayerMessage(p, message)
  /\ said' = IF session[p] = message THEN said \cup {p} ELSE said
  /\ UNCHANGED <<clock, link, down, late, watched, session, expired, confirmed>>
  /\ UNCHANGED <<missed, faults>>

\* Mutated: the code is compared with its prefix.
HandleManualMatched_Prefix(report) ==
  UNCHANGED <<down, session, expired, confirmed, missed, said>>

\* bridge:auth:manual:matched, handleManualGameMatched: a report about another
\* challenge than the session's changes nothing, one about an expired session stops
\* its watch, unless deleteExpired has removed the session.
HandleManualMatched(report) ==
  LET p == report.player
  IN \/ /\ session[p] = report.challenge /\ p \notin expired
        /\ confirmed' = confirmed \cup {p}
        /\ UNCHANGED <<down, session, expired, missed, said>>
     \/ /\ session[p] = report.challenge /\ p \in expired \ confirmed
        /\ Replace(p, None)
        /\ StopManualWatch(p)
     \/ /\ session[p] # report.challenge \/ p \in expired
        /\ UNCHANGED <<down, session, expired, confirmed, missed, said>>

ReceiveReport(report) ==
  /\ \/ /\ report \in up /\ connected /\ admitted
        /\ up' = up \ {report} /\ late' = late
     \/ report \in late /\ late' = late \ {report} /\ up' = up
  /\ HandleManualMatched(report)
  /\ UNCHANGED <<clock, link, watched, faults>>

-----------------------------------------------------------------------------
Next ==
  \/ Tick \/ Answer \/ Connect \/ Refresh \/ AuthRejected \/ LoseConnection \/ NoticeEnd
  \/ RestartBridge \/ RestartBackend \/ Deliver
  \/ \E report \in Reports : ReceiveReport(report)
  \/ \E p \in Players :
       \/ StartManual(p) \/ StartTell(p) \/ ConfirmManual(p) \/ Expire(p)
       \/ \E message \in Challenges \cup {None} : Say(p, message)

\* socket.io tries again and again and delivers, timers fire, and a player says the
\* challenge of his session again and again.  A handshake takes a few round trips, and
\* a refresh comes MIN_REFRESH_DELAY_MS after the last one at the earliest: in the end
\* a handshake completes between two of them.  When a refresh is always due, because
\* setTimeout has made its delay one millisecond, nothing says that it does.
Fairness ==
  /\ WF_vars(Answer) /\ SF_vars(timer > 0 /\ Authorized /\ Answer)
  /\ WF_vars(Connect) /\ SF_vars(timer > 0 /\ admitted /\ Connect)
  /\ WF_vars(Refresh) /\ WF_vars(AuthRejected) /\ WF_vars(Deliver)
  /\ \A report \in Reports : WF_vars(ReceiveReport(report))
  /\ \A p \in Players :
       WF_vars(session[p] # None /\ Say(p, session[p]))

Spec == Init /\ [][Next]_vars
FairSpec == Spec /\ Fairness

-----------------------------------------------------------------------------
(* Properties.                                                             *)

Messages == [type : {"start", "stop"}, player : Players, challenge : Challenges \cup {None}]

TypeOK ==
  /\ lifetime \in Lifetimes /\ tokenLeft \in Nat /\ timer \in Nat
  /\ connected \in BOOLEAN /\ answered \in BOOLEAN
  /\ admitted \in BOOLEAN /\ stale \in BOOLEAN
  /\ down \in Seq(Messages)
  /\ up \cup late \subseteq Reports
  /\ watched \in [Players -> Challenges \cup {None}]
  /\ session \in [Players -> Challenges \cup {None}]
  /\ confirmed \cup expired \cup missed \cup said \subseteq Players

\* A lifetime beyond the least delay and the rounding.
LongEnough == lifetime > MIN_REFRESH_DELAY + 1

\* A lifetime whose refresh setTimeout can wait for.
ShortEnough == ComputeRefreshDelay(lifetime) <= MaxTimeout

\* The backend rejects no bridge whose tokens live long enough: whenever a handshake
\* reaches it, after losses, restarts and refreshes, the refresh timer has not let the
\* token expire.
NeverRejected == LongEnough /\ (answered \/ connected) => admitted

\* A bridge that was told of the last start and end of a player's session watches for
\* the session's challenge, and for none without one: a watch that another one
\* replaced, or that outlived its session, comes from a lost message, a restart or an
\* end that is not told (StartTell) alone.
WatchesFollow ==
  \A p \in Players :
    connected /\ p \notin missed /\ p \notin Addressees(down) => watched[p] = session[p]

\* Only a session whose challenge the player has said since it began is confirmed,
\* however late a report arrives: kept while offline, sent on an earlier connection,
\* made for an earlier challenge.
ReportsGenuine == confirmed \subseteq said

\* A player who goes on saying the challenge of a session that the bridge was told of,
\* and that lasts, is confirmed: refreshes, losses and restarts of the bridge only
\* delay the report.
SaidIsConfirmed ==
  \A p \in Players, c \in Challenges :
    LongEnough /\ ShortEnough /\ <>[](session[p] = c /\ p \notin missed \cup expired)
      => <>[](p \in confirmed)

\* After whatever fails the bridge is connected and admitted again: refreshes, which
\* abort handshakes, rejections of tokens that live too short, and the retries of
\* socket.io do not keep it out, as long as setTimeout can wait for the refresh.
BridgeComesBack == ShortEnough => []<>(connected /\ admitted)
=============================================================================
