----------------------------- MODULE PlayerAuth -----------------------------
(***************************************************************************)
(* Player verification and player tokens of the backend:                   *)
(* domain/auth/PlayerAuthService.ts with InMemoryVerificationSessionStore  *)
(* and InMemoryPlayerTokenWhitelistStore, wired in server.ts and called by *)
(* http/routes/auth.ts, by the bridge socket and by client:join.           *)
(*                                                                         *)
(* A handler's awaits resolve in microtasks (the bridge only has messages  *)
(* emitted to it), so one action is one request or one bridge event.       *)
(*                                                                         *)
(* The two Maps of verification records share their record objects, which  *)
(* are mutated in place.  "records" is that heap, in order of creation; a  *)
(* Map holds indices into it, 0 for a missing key.                         *)
(*                                                                         *)
(* A refused request changes nothing here and is no action, unless it      *)
(* tells the bridge to stop a watch.  AuthRateLimiter may refuse any start *)
(* and is modelled on its own.  A player is never given the same code      *)
(* twice; two players may be (randomInt(100000, 1000000)).                 *)
(***************************************************************************)
EXTENDS Integers, Sequences, FiniteSets

CONSTANTS
  Players,            \* player names
  Codes,              \* verification codes
  Modes,              \* the enabled modes, out of "tell" and "manual"
  CodeTtlMs,          \* authTell.codeTtlMs and authManual.codeTtlMs, by mode
  MsPerSecond,        \* clock ticks in a second: JWTs count in seconds
  TokenTtlSeconds,    \* playerJwt.expiresIn
  MaxTime,            \* bound: the last instant
  MaxVerifications,   \* bound: verifications started
  MaxRestarts         \* bound: restarts of the process

ASSUME AuthAssumption ==
  /\ Modes \subseteq {"tell", "manual"}
  /\ CodeTtlMs \in [{"tell", "manual"} -> Nat \ {0}]
  /\ MsPerSecond \in Nat \ {0}
  /\ TokenTtlSeconds \in Nat \ {0}
  /\ MaxTime \in Nat /\ MaxVerifications \in Nat /\ MaxRestarts \in Nat

VARIABLES
  now,                     \* Date.now()
  bridgeOnline,            \* collectBridgeSockets() is not empty
  records,                 \* every VerificationSessionRecord created so far
  sessionByPlayerName,     \* the VerificationSessionStore's Map
  currentSessionByPlayer,  \* the service's own Map
  tokens,                  \* every token issued: its claims, and where it came from
  whitelist,               \* the PlayerTokenWhitelistStore's records
  process,                 \* how often the process has been restarted
  reported,                \* history: verifications whose challenge the bridge
                           \* reported in time
  toBridge                 \* what the last handler emitted to the bridges

vars == <<now, bridgeOnline, records, sessionByPlayerName, currentSessionByPlayer,
          tokens, whitelist, process, reported, toBridge>>

Verifications == 1..MaxVerifications

Status == {"active", "game_confirmed", "frontend_confirmed", "verified", "superseded"}

Record == [playerName : Players, mode : {"tell", "manual"}, code : Codes,
           status : Status, expiresAt : Nat]

NoSessions == [p \in Players |-> 0]

Init ==
  /\ now = 0
  /\ bridgeOnline = FALSE
  /\ records = <<>>
  /\ sessionByPlayerName = NoSessions
  /\ currentSessionByPlayer = NoSessions
  /\ tokens = {}
  /\ whitelist = {}
  /\ process = 0
  /\ reported = {}
  /\ toBridge = <<>>

\* isExpired: at expiresAt itself a record is still good.
IsExpired(v) == now > records[v].expiresAt

\* What reaches the bridges, if any is connected.
Emit(messages) == toBridge' = IF bridgeOnline THEN messages ELSE <<>>

StopWatch(p) == [event |-> "watch:stop", playerName |-> p]

-----------------------------------------------------------------------------
(* Starting a verification.                                                *)

\* applySuperseded: createOrReplace closes the player's last session unless it
\* was verified.
Superseded(p) ==
  LET v == sessionByPlayerName[p]
  IN  IF v # 0 /\ records[v].status # "verified"
      THEN [records EXCEPT ![v].status = "superseded"]
      ELSE records

\* Mutated: a session is dropped at its last good instant.
DeleteExpired_Inclusive(p, sessions) ==
  [q \in Players |-> IF q # p /\ sessions[q] # 0 /\ now >= records[sessions[q]].expiresAt
                     THEN 0 ELSE sessions[q]]

\* The lazy cleanup: the sessions of other players that have expired are dropped.
DeleteExpired(p, sessions) ==
  [q \in Players |-> IF q # p /\ sessions[q] # 0 /\ IsExpired(sessions[q])
                     THEN 0 ELSE sessions[q]]

\* Mutated: a session that is still active is kept in the store.
CreateOrReplace_KeepsActive(p, mode, code) ==
  LET v == sessionByPlayerName[p]
      w == Len(records) + 1
      record == [playerName |-> p, mode |-> mode, code |-> code, status |-> "active",
                 expiresAt |-> now + CodeTtlMs[mode]]
  IN  /\ records' = Append(records, record)
      /\ sessionByPlayerName' =
           IF v # 0 /\ records[v].status = "active" THEN sessionByPlayerName
           ELSE [sessionByPlayerName EXCEPT ![p] = w]
      /\ currentSessionByPlayer' = [currentSessionByPlayer EXCEPT ![p] = w]

\* createOrReplace, and the service's currentSessionByPlayer.set after it.
CreateOrReplace(p, mode, code) ==
  LET v == Len(records) + 1
      record == [playerName |-> p, mode |-> mode, code |-> code, status |-> "active",
                 expiresAt |-> now + CodeTtlMs[mode]]
  IN  /\ records' = Append(Superseded(p), record)
      /\ sessionByPlayerName' = DeleteExpired(p, [sessionByPlayerName EXCEPT ![p] = v])
      /\ currentSessionByPlayer' = [currentSessionByPlayer EXCEPT ![p] = v]

\* createVerificationCode, within the bound on verifications.
FreshCode(p, code) ==
  /\ Len(records) < MaxVerifications
  /\ \A v \in 1..Len(records) : records[v].playerName = p => records[v].code # code

StartTellVerification(p, code) ==
  /\ bridgeOnline
  /\ FreshCode(p, code)
  /\ CreateOrReplace(p, "tell", code)
  /\ Emit(<<[event |-> "tell:send", playerName |-> p, code |-> code]>>)
  /\ UNCHANGED <<now, bridgeOnline, tokens, whitelist, process, reported>>

\* The bridge is told to drop the player's old watch before it gets the new one.
StartManualVerification(p, code) ==
  /\ bridgeOnline
  /\ FreshCode(p, code)
  /\ CreateOrReplace(p, "manual", code)
  /\ Emit(<<StopWatch(p), [event |-> "watch:start", playerName |-> p, code |-> code]>>)
  /\ UNCHANGED <<now, bridgeOnline, tokens, whitelist, process, reported>>

-----------------------------------------------------------------------------
(* Tokens.                                                                 *)

NowSeconds == now \div MsPerSecond

\* Mutated: the whitelist is given seconds where it counts milliseconds.
WhitelistEntry_Seconds(jti, exp) == [jti |-> jti, expiresAt |-> exp]

\* The JWT's exp in milliseconds.
WhitelistEntry(jti, exp) == [jti |-> jti, expiresAt |-> exp * MsPerSecond]

\* The whitelist's deleteExpired.
Unexpired(entries) == {w \in entries : now <= w.expiresAt}

\* The whitelist's issue: it sheds what has expired.
IssueEntry(jti, exp) == whitelist' = Unexpired(whitelist \cup {WhitelistEntry(jti, exp)})

\* issuePlayerJwtToken: the claims, and where the token came from.
PlayerJwt(p, v) ==
  [jti |-> Cardinality(tokens) + 1, playerName |-> p, exp |-> NowSeconds + TokenTtlSeconds,
   issuedAt |-> now, of |-> v, process |-> process]

\* issuePlayerToken: a fresh jti goes into the token and the whitelist.
IssuePlayerToken(p, v) ==
  LET t == PlayerJwt(p, v)
  IN  tokens' = tokens \cup {t} /\ IssueEntry(t.jti, t.exp)

\* isActive; revoke and revokeAllForPlayerName are never called.
IsActive(jti) == \E w \in Unexpired(whitelist) : w.jti = jti

\* verifyPlayerJwtToken and isActive, as validatePlayerToken combines them.
Verdict(t) ==
  IF NowSeconds >= t.exp THEN "TOKEN_EXPIRED"
  ELSE IF IsActive(t.jti) THEN "OK" ELSE "TOKEN_REVOKED"

\* getByJti: a look-up drops the entry it finds expired.
AfterLookUp(jti) == {w \in whitelist : w.jti = jti => now <= w.expiresAt}

ValidatePlayerToken(t) ==
  /\ Emit(<<>>)
  /\ whitelist' = IF Verdict(t) = "TOKEN_EXPIRED" THEN whitelist ELSE AfterLookUp(t.jti)
  /\ UNCHANGED <<now, bridgeOnline, records, sessionByPlayerName,
                 currentSessionByPlayer, tokens, process, reported>>

\* getActiveByPlayerName
IsActiveSession(v) == v # 0 /\ records[v].status = "active"

FinishTellVerification(p, code) ==
  LET v == sessionByPlayerName[p]
  IN  /\ IsActiveSession(v)
      /\ records[v].mode = "tell"
      /\ records[v].code = code
      /\ ~IsExpired(v)
      /\ records' = [records EXCEPT ![v].status = "verified"]
      /\ IssuePlayerToken(p, v)
      /\ Emit(<<>>)
      /\ UNCHANGED <<now, bridgeOnline, sessionByPlayerName, currentSessionByPlayer,
                     process, reported>>

-----------------------------------------------------------------------------
(* Manual verification: the bridge reports what the player typed, and the  *)
(* page asks for the token.                                                *)

\* The verifications a report of this code by this player answers in time.
AnsweredBy(p, code) ==
  {v \in 1..Len(records) : /\ records[v].playerName = p
                           /\ records[v].mode = "manual"
                           /\ records[v].code = code
                           /\ ~IsExpired(v)}

\* Mutated: the new status is misspelled.
MarkGameConfirmed_Misspelled(v) == [records EXCEPT ![v].status = "gameConfirmed"]

MarkGameConfirmed(v) == [records EXCEPT ![v].status = "game_confirmed"]

\* bridge:auth:manual:matched.  A report may be late, repeated or for a challenge
\* nobody waits for any more.
HandleManualGameMatched(p, code) ==
  LET v == sessionByPlayerName[p]
      matches == /\ IsActiveSession(v)
                 /\ records[v].mode = "manual"
                 /\ records[v].code = code
  IN  /\ bridgeOnline
      /\ reported' = reported \cup AnsweredBy(p, code)
      /\ \/ /\ matches /\ ~IsExpired(v)
            /\ records' = MarkGameConfirmed(v)
            /\ currentSessionByPlayer' = [currentSessionByPlayer EXCEPT ![p] = v]
            /\ Emit(<<>>)
         \/ /\ matches /\ IsExpired(v)
            /\ Emit(<<StopWatch(p)>>)
            /\ UNCHANGED <<records, currentSessionByPlayer>>
         \/ /\ ~matches
            /\ Emit(<<>>)
            /\ UNCHANGED <<records, currentSessionByPlayer>>
      /\ UNCHANGED <<now, bridgeOnline, sessionByPlayerName, tokens, whitelist, process>>

\* markFrontendConfirmed and markVerified act on whatever record the store holds,
\* which need not be the one the service looked at.
MarkVerified(p) ==
  IF sessionByPlayerName[p] = 0 THEN records
  ELSE [records EXCEPT ![sessionByPlayerName[p]].status = "verified"]

\* Mutated: the page's word is enough, whatever happened in the game.
ConfirmManualVerification_Trusting(p, code) ==
  LET v == currentSessionByPlayer[p]
  IN  /\ v # 0
      /\ records[v].mode = "manual"
      /\ records[v].code = code
      /\ ~IsExpired(v)
      /\ records[v].status \in {"active", "game_confirmed"}
      /\ records' = MarkVerified(p)
      /\ IssuePlayerToken(p, v)
      /\ UNCHANGED <<now, bridgeOnline, sessionByPlayerName, currentSessionByPlayer,
                     process, reported>>

\* confirmManualVerification, granting the token.
ConfirmManualVerification(p, code) ==
  LET v == currentSessionByPlayer[p]
  IN  /\ v # 0
      /\ records[v].mode = "manual"
      /\ records[v].code = code
      /\ ~IsExpired(v)
      /\ records[v].status = "game_confirmed"
      /\ records' = MarkVerified(p)
      /\ IssuePlayerToken(p, v)
      /\ UNCHANGED <<now, bridgeOnline, sessionByPlayerName, currentSessionByPlayer,
                     process, reported>>

\* A confirmation that comes too late is refused and stops the watch.
ConfirmManualExpired(p, code) ==
  LET v == currentSessionByPlayer[p]
  IN  /\ v # 0
      /\ records[v].mode = "manual"
      /\ records[v].code = code
      /\ IsExpired(v)
      /\ Emit(<<StopWatch(p)>>)
      /\ UNCHANGED <<now, bridgeOnline, records, sessionByPlayerName,
                     currentSessionByPlayer, tokens, whitelist, process, reported>>

\* The wrapper in server.ts stops the watch after a success.
ConfirmAndStopWatch(p, code) ==
  \/ ConfirmManualVerification(p, code) /\ Emit(<<StopWatch(p)>>)
  \/ ConfirmManualExpired(p, code)

-----------------------------------------------------------------------------
(* The requests of http/routes/auth.ts, with a name and, where it is       *)
(* needed, a code in their body.                                           *)

\* ensureTellEnabled, ensureManualEnabled
TellEnabled == "tell" \in Modes
ManualEnabled == "manual" \in Modes

PostTellStart(p, code) == TellEnabled /\ StartTellVerification(p, code)

PostTellFinish(p, code) == TellEnabled /\ FinishTellVerification(p, code)

PostManualStart(p, code) == ManualEnabled /\ StartManualVerification(p, code)

PostManualConfirm(p, code) == ManualEnabled /\ ConfirmAndStopWatch(p, code)

-----------------------------------------------------------------------------
(* The environment.                                                        *)

Tick ==
  /\ now < MaxTime
  /\ now' = now + 1
  /\ toBridge' = <<>>
  /\ UNCHANGED <<bridgeOnline, records, sessionByPlayerName, currentSessionByPlayer,
                 tokens, whitelist, process, reported>>

BridgeConnects ==
  /\ ~bridgeOnline
  /\ bridgeOnline' = TRUE
  /\ toBridge' = <<>>
  /\ UNCHANGED <<now, records, sessionByPlayerName, currentSessionByPlayer, tokens,
                 whitelist, process, reported>>

BridgeDisconnects ==
  /\ bridgeOnline
  /\ bridgeOnline' = FALSE
  /\ toBridge' = <<>>
  /\ UNCHANGED <<now, records, sessionByPlayerName, currentSessionByPlayer, tokens,
                 whitelist, process, reported>>

\* Every store is in memory: a restart loses sessions and whitelist, while the
\* tokens stay with their players.
Restart ==
  /\ process < MaxRestarts
  /\ process' = process + 1
  /\ bridgeOnline' = FALSE
  /\ sessionByPlayerName' = NoSessions
  /\ currentSessionByPlayer' = NoSessions
  /\ whitelist' = {}
  /\ toBridge' = <<>>
  /\ UNCHANGED <<now, records, tokens, reported>>

Next ==
  \/ \E p \in Players, code \in Codes :
       \/ PostTellStart(p, code)
       \/ PostTellFinish(p, code)
       \/ PostManualStart(p, code)
       \/ PostManualConfirm(p, code)
       \/ HandleManualGameMatched(p, code)
  \/ \E t \in tokens : ValidatePlayerToken(t)
  \/ Tick
  \/ BridgeConnects
  \/ BridgeDisconnects
  \/ Restart

Spec == Init /\ [][Next]_vars

\* The clock runs on.
FairSpec == Spec /\ WF_vars(Tick)

-----------------------------------------------------------------------------
(* Safety.                                                                 *)

Token == [jti : Nat, playerName : Players, exp : Nat, issuedAt : Nat,
          of : Verifications, process : 0..MaxRestarts]

\* Every variable keeps its type.
TypeOK ==
  /\ now \in 0..MaxTime
  /\ bridgeOnline \in BOOLEAN
  /\ records \in Seq(Record) /\ Len(records) <= MaxVerifications
  /\ sessionByPlayerName \in [Players -> 0..Len(records)]
  /\ currentSessionByPlayer \in [Players -> 0..Len(records)]
  /\ tokens \in SUBSET Token
  /\ whitelist \in SUBSET [jti : Nat, expiresAt : Nat]
  /\ process \in 0..MaxRestarts
  /\ reported \in SUBSET Verifications
  /\ \A m \in 1..Len(toBridge) : toBridge[m].playerName \in Players

\* The service reads a verification through two Maps, and only one of them is ever
\* cleaned up.  They name the same record, except that the store may have dropped
\* one that has expired.
LookupsAgree ==
  \A p \in Players :
    \/ sessionByPlayerName[p] = currentSessionByPlayer[p]
    \/ sessionByPlayerName[p] = 0 /\ IsExpired(currentSessionByPlayer[p])

\* A verification yields one token at most, however often and in whatever order it
\* is reported, confirmed and finished.
OneTokenPerVerification == \A t, u \in tokens : t.of = u.of => t = u

\* Every token was earned: by the player it names, in time, and a manual one only
\* after the player was seen to type that very challenge in the game.
TokensEarned ==
  \A t \in tokens :
    LET r == records[t.of]
    IN  /\ r.playerName = t.playerName
        /\ t.issuedAt <= r.expiresAt
        /\ r.mode = "manual" => t.of \in reported

\* What became of a token depends on its age and on restarts only: it is good to the
\* last second in the process that issued it, and refused as revoked by any later
\* one, whatever the lazy cleanup of the whitelist did meanwhile.
TokenVerdicts ==
  \A t \in tokens :
    Verdict(t) = IF NowSeconds >= t.exp THEN "TOKEN_EXPIRED"
                 ELSE IF t.process = process THEN "OK" ELSE "TOKEN_REVOKED"

\* A new verification ends the ones before it: a token is only ever issued for the
\* last one its player has started.
OnlyLatestGrants ==
  [][\A t \in tokens' \ tokens, v \in 1..Len(records) :
       records[v].playerName = t.playerName => v <= t.of]_vars

\* The documented cleanup (backend/README.md:80, "Verify session cleanup interval"):
\* a session that has expired does not stay in memory for ever.
ExpiredSessionsCleaned ==
  \A p \in Players :
    [](sessionByPlayerName[p] # 0 /\ IsExpired(sessionByPlayerName[p])
       => <>(sessionByPlayerName[p] = 0 \/ ~IsExpired(sessionByPlayerName[p])))

-----------------------------------------------------------------------------
(* Refinement.                                                             *)

\* The one record per player the abstract book keeps, read off the service's Map.
LatestOf(p) ==
  LET v == currentSessionByPlayer[p]
  IN  IF v = 0 THEN {}
      ELSE {[ id |-> v, mode |-> records[v].mode, expiresAt |-> records[v].expiresAt,
              stage |-> CASE records[v].status = "active" -> "open"
                          [] records[v].status = "game_confirmed" -> "seen"
                          [] OTHER -> "closed" ]}

Book == INSTANCE VerificationBook WITH
  latest  <- [p \in Players |-> LatestOf(p)],
  granted <- {[playerName |-> t.playerName, id |-> t.of] : t \in tokens},
  Ids     <- Verifications

\* Two Maps with lazy cleanup behave like one book with a line for each player.
ImplementsBook == Book!Spec
=============================================================================
