-------------------------- MODULE PlayerAuthProofs --------------------------
(***************************************************************************)
(* Proofs about PlayerAuth, for any players, codes, lifetimes, and bounds  *)
(* on time, verifications and restarts: its invariants, the action         *)
(* property, and that it implements VerificationBook.                      *)
(***************************************************************************)
EXTENDS PlayerAuth, FiniteSetTheorems, TLAPS

-----------------------------------------------------------------------------
(* Clocks.                                                                 *)

\* The clock of the tokens does not run backwards.
LEMMA SecondsPass ==
  ASSUME NEW n \in Nat, NEW m \in Nat \ {0}
  PROVE  n \div m \in Nat /\ n \div m <= (n + 1) \div m
OBVIOUS

\* Until the second in which a token expires, its instant of expiry is to come.
LEMMA SecondsLeft ==
  ASSUME NEW n \in Nat, NEW m \in Nat \ {0}, NEW e \in Nat, n \div m < e
  PROVE  n < e * m
OBVIOUS

-----------------------------------------------------------------------------
(* Records.                                                                *)

\* The parts of a record.
LEMMA RecordTypes ==
  ASSUME TypeOK, NEW v \in 1..Len(records)
  PROVE  /\ records[v].playerName \in Players /\ records[v].mode \in {"tell", "manual"}
         /\ records[v].code \in Codes /\ records[v].status \in Status
         /\ records[v].expiresAt \in Nat
<1>1. records[v] \in Record
  BY DEF TypeOK
<1> QED  BY <1>1 DEF Record

\* The heap with another status for one record: what markGameConfirmed,
\* markVerified and applySuperseded do.
Marked(v, status) == [records EXCEPT ![v].status = status]

\* Marking keeps everything but that status.
LEMMA MarkedRecords ==
  ASSUME records \in Seq(Record), NEW v \in 1..Len(records), NEW status \in Status
  PROVE  /\ Marked(v, status) \in Seq(Record)
         /\ Len(Marked(v, status)) = Len(records)
         /\ \A w \in 1..Len(records) :
              Marked(v, status)[w] = IF w = v THEN [records[w] EXCEPT !.status = status]
                                     ELSE records[w]
<1>1. records[v] \in Record
  OBVIOUS
<1>2. [records[v] EXCEPT !.status = status] \in Record
  BY <1>1 DEF Record
<1>3. Marked(v, status) = [w \in 1..Len(records) |->
          IF w = v THEN [records[w] EXCEPT !.status = status] ELSE records[w]]
  BY DEF Marked
<1>4. \A w \in 1..Len(records) : records[w] \in Record
  OBVIOUS
<1> HIDE DEF Record
<1> QED  BY <1>2, <1>3, <1>4

\* What no step changes of the records there are, and that a verified one stays
\* verified.
HistoryKept ==
  /\ Len(records) <= Len(records')
  /\ \A v \in 1..Len(records) :
       /\ records'[v].playerName = records[v].playerName
       /\ records'[v].mode = records[v].mode
       /\ records'[v].code = records[v].code
       /\ records'[v].expiresAt = records[v].expiresAt
       /\ records[v].status = "verified" => records'[v].status = "verified"

-----------------------------------------------------------------------------
(* The inductive invariant.                                                *)

\* Both Maps hold records of the player they are asked for.
EntriesOwned ==
  \A p \in Players :
    /\ sessionByPlayerName[p] # 0 => records[sessionByPlayerName[p]].playerName = p
    /\ currentSessionByPlayer[p] # 0 => records[currentSessionByPlayer[p]].playerName = p

\* The service's own Map has the player's newest verification, or none.
CurrentIsLatest ==
  \A v \in 1..Len(records) :
    LET c == currentSessionByPlayer[records[v].playerName]
    IN  c # 0 => v <= c

\* A verification that gave a token is over.
GrantedAreVerified ==
  \A t \in tokens : t.of \in 1..Len(records) /\ records[t.of].status = "verified"

\* Only what was seen in the game in time is confirmed.
ConfirmedWereReported ==
  \A v \in 1..Len(records) : records[v].status = "game_confirmed" => v \in reported

\* Token ids are unique: the next one is not in use.
TokenIdsUnique ==
  /\ IsFiniteSet(tokens)
  /\ \A t \in tokens : t.jti <= Cardinality(tokens)
  /\ \A t, u \in tokens : t.jti = u.jti => t = u

\* The whitelist has entries of this process's tokens only ...
EntriesBacked ==
  \A w \in whitelist :
    \E t \in tokens : t.process = process /\ w = WhitelistEntry(t.jti, t.exp)

\* ... and of all that have not expired.
TokensListed ==
  \A t \in tokens :
    t.process = process /\ NowSeconds < t.exp => WhitelistEntry(t.jti, t.exp) \in whitelist

\* No token comes from a process yet to start.
TokensOfThePast == \A t \in tokens : t.process <= process

IInv ==
  /\ TypeOK
  /\ LookupsAgree /\ EntriesOwned /\ CurrentIsLatest
  /\ GrantedAreVerified /\ ConfirmedWereReported
  /\ OneTokenPerVerification /\ TokensEarned
  /\ TokenIdsUnique /\ EntriesBacked /\ TokensListed /\ TokensOfThePast

\* It holds at the start.
LEMMA InitInv == Init => IInv
<1> SUFFICES ASSUME Init PROVE IInv  OBVIOUS
<1>1. TypeOK
  <2>1. <<>> \in Seq(Record) /\ Len(<<>>) = 0
    OBVIOUS
  <2>2. /\ tokens = {} /\ whitelist = {} /\ reported = {}
        /\ records = <<>> /\ toBridge = <<>> /\ bridgeOnline \in BOOLEAN
    BY DEF Init
  <2>5. now \in 0..MaxTime /\ process \in 0..MaxRestarts
    BY AuthAssumption DEF Init
  <2>3. Len(records) <= MaxVerifications /\ Len(toBridge) = 0
    BY <2>1, <2>2, AuthAssumption
  <2>4. /\ sessionByPlayerName \in [Players -> 0..Len(records)]
        /\ currentSessionByPlayer \in [Players -> 0..Len(records)]
    BY <2>1, <2>2 DEF Init, NoSessions
  <2> QED  BY <2>1, <2>2, <2>3, <2>4, <2>5 DEF TypeOK
<1>2. LookupsAgree /\ EntriesOwned /\ CurrentIsLatest /\ ConfirmedWereReported
  <2>1. Len(records) = 0
    BY DEF Init
  <2> QED
    BY <2>1 DEF Init, NoSessions, LookupsAgree, EntriesOwned, CurrentIsLatest,
                ConfirmedWereReported
<1>3. TokenIdsUnique
  BY FS_EmptySet DEF Init, TokenIdsUnique
<1> QED
  BY <1>1, <1>2, <1>3 DEF IInv, Init, GrantedAreVerified, OneTokenPerVerification,
     TokensEarned, EntriesBacked, TokensListed, TokensOfThePast

-----------------------------------------------------------------------------
(* What steps leave alone.                                                 *)

\* Records that stay as they are keep their history.
LEMMA SameRecords == records' = records => HistoryKept
BY DEF HistoryKept

\* Marking a record rewrites no history, unless it reopens a verified one.
LEMMA MarkedHistory ==
  ASSUME TypeOK, NEW v \in 1..Len(records), NEW status \in Status,
         records' = Marked(v, status),
         records[v].status = "verified" => status = "verified"
  PROVE  /\ HistoryKept
         /\ records' \in Seq(Record) /\ Len(records') = Len(records)
         /\ records'[v].status = status
         /\ \A w \in 1..Len(records) \ {v} : records'[w] = records[w]
<1>1. \A w \in 1..Len(records) : records[w] \in Record
  BY DEF TypeOK
<1>2. /\ records' \in Seq(Record) /\ Len(records') = Len(records)
      /\ \A w \in 1..Len(records) :
           records'[w] = IF w = v THEN [records[w] EXCEPT !.status = status] ELSE records[w]
  BY MarkedRecords DEF TypeOK
<1>3. records'[v].status = status
  BY <1>1, <1>2 DEF Record
<1>4. Len(records) \in Nat
  BY DEF TypeOK
<1>5. HistoryKept
  <2>1. \A w \in 1..Len(records) \ {v} : records'[w] = records[w]
    BY <1>2
  <2>2. /\ records'[v].playerName = records[v].playerName
        /\ records'[v].mode = records[v].mode
        /\ records'[v].code = records[v].code
        /\ records'[v].expiresAt = records[v].expiresAt
    BY <1>1, <1>2 DEF Record
  <2> QED  BY <1>2, <1>3, <1>4, <2>1, <2>2 DEF HistoryKept
<1> QED  BY <1>2, <1>3, <1>5

\* The Maps stay right when no record is added and the clock runs forward.
LEMMA LookupsKept ==
  ASSUME IInv, now' \in Nat, now' >= now, HistoryKept, Len(records') = Len(records),
         UNCHANGED <<sessionByPlayerName, currentSessionByPlayer>>
  PROVE  LookupsAgree' /\ EntriesOwned' /\ CurrentIsLatest'
<1>0. \A v \in 1..Len(records) :
        records[v].expiresAt \in Nat /\ records[v].playerName \in Players
  BY RecordTypes DEF IInv
<1>1. /\ now \in Nat /\ Len(records) \in Nat
      /\ \A p \in Players : /\ sessionByPlayerName[p] \in 0..Len(records)
                            /\ currentSessionByPlayer[p] \in 0..Len(records)
  BY DEF IInv, TypeOK
<1>2. LookupsAgree'
  <2> SUFFICES ASSUME NEW p \in Players,
                      sessionByPlayerName[p] # currentSessionByPlayer[p]
               PROVE  sessionByPlayerName[p] = 0 /\ IsExpired(currentSessionByPlayer[p])'
    BY DEF LookupsAgree
  <2>1. /\ sessionByPlayerName[p] = 0 /\ IsExpired(currentSessionByPlayer[p])
        /\ currentSessionByPlayer[p] \in 1..Len(records)
    BY <1>1 DEF IInv, LookupsAgree
  <2> QED  BY <1>0, <1>1, <2>1 DEF IsExpired, HistoryKept
<1>3. EntriesOwned'
  BY <1>0, <1>1 DEF IInv, EntriesOwned, HistoryKept
<1>4. CurrentIsLatest'
  BY <1>0, <1>1 DEF IInv, CurrentIsLatest, HistoryKept
<1> QED  BY <1>2, <1>3, <1>4

\* Tokens stay earned, and single, when none is issued.
LEMMA TokensKept ==
  ASSUME IInv, HistoryKept, UNCHANGED tokens, reported \subseteq reported'
  PROVE  GrantedAreVerified' /\ OneTokenPerVerification' /\ TokensEarned'
<1>1. Len(records) \in Nat /\ \A t \in tokens : t.of \in 1..Len(records)
  BY DEF IInv, TypeOK, GrantedAreVerified
<1>2. GrantedAreVerified'
  <2>1. \A t \in tokens : records[t.of].status = "verified"
    BY DEF IInv, GrantedAreVerified
  <2>2. Len(records) <= Len(records') /\ \A t \in tokens : records'[t.of].status = "verified"
    BY <1>1, <2>1 DEF HistoryKept
  <2> QED  BY <1>1, <2>2 DEF GrantedAreVerified
<1>3. OneTokenPerVerification'
  BY DEF IInv, OneTokenPerVerification
<1>4. TokensEarned'
  BY <1>1 DEF IInv, TokensEarned, HistoryKept
<1> QED  BY <1>2, <1>3, <1>4

\* So does the whitelist, when time passes or not.
LEMMA WhitelistKept ==
  ASSUME IInv, now' \in {now, now + 1}, UNCHANGED <<tokens, whitelist, process>>
  PROVE  TokenIdsUnique' /\ EntriesBacked' /\ TokensListed' /\ TokensOfThePast'
<1>1. now \in Nat /\ \A t \in tokens : t.exp \in Nat
  BY DEF IInv, TypeOK, Token
<1>2. NowSeconds \in Nat /\ NowSeconds' \in Nat /\ NowSeconds <= NowSeconds'
  <2>1. MsPerSecond \in Nat \ {0}
    BY AuthAssumption
  <2>2. /\ now \div MsPerSecond \in Nat /\ (now + 1) \div MsPerSecond \in Nat
        /\ now \div MsPerSecond <= (now + 1) \div MsPerSecond
    BY <1>1, <2>1, SecondsPass
  <2>3. CASE now' = now
    BY <2>2, <2>3 DEF NowSeconds
  <2>4. CASE now' = now + 1
    BY <2>2, <2>4 DEF NowSeconds
  <2> QED  BY <2>3, <2>4
<1>3. TokensListed'
  BY <1>1, <1>2 DEF IInv, TokensListed, WhitelistEntry
<1> QED
  BY <1>3 DEF IInv, TokenIdsUnique, EntriesBacked, TokensOfThePast, WhitelistEntry

-----------------------------------------------------------------------------
(* One lemma for each kind of step.                                        *)

\* What the bridges are told is about a player.
BridgeMessages == \A m \in 1..Len(toBridge) : toBridge[m].playerName \in Players

\* So it is whatever a handler emits.
LEMMA EmitType ==
  ASSUME NEW p \in Players, NEW code
  PROVE  /\ Emit(<<>>) => BridgeMessages'
         /\ Emit(<<StopWatch(p)>>) => BridgeMessages'
         /\ Emit(<<[event |-> "tell:send", playerName |-> p, code |-> code]>>)
              => BridgeMessages'
         /\ Emit(<<StopWatch(p),
                   [event |-> "watch:start", playerName |-> p, code |-> code]>>)
              => BridgeMessages'
BY DEF Emit, StopWatch, BridgeMessages

\* Steps that at most let time pass, let a bridge come or go, or tell it something.
LEMMA ClockInv ==
  ASSUME IInv, BridgeMessages', bridgeOnline' \in BOOLEAN,
         now' \in 0..MaxTime, now' \in {now, now + 1},
         UNCHANGED <<records, sessionByPlayerName, currentSessionByPlayer, tokens,
                     whitelist, process, reported>>
  PROVE  IInv'
<1>1. TypeOK'
  BY DEF IInv, TypeOK, BridgeMessages
<1>2. now \in Nat /\ now' \in Nat /\ now' >= now
  BY DEF IInv, TypeOK
<1>3. HistoryKept
  BY SameRecords
<1>4. LookupsAgree' /\ EntriesOwned' /\ CurrentIsLatest'
  BY <1>2, <1>3, LookupsKept
<1>5. GrantedAreVerified' /\ OneTokenPerVerification' /\ TokensEarned'
  BY <1>3, TokensKept
<1>6. TokenIdsUnique' /\ EntriesBacked' /\ TokensListed' /\ TokensOfThePast'
  BY WhitelistKept
<1>7. ConfirmedWereReported'
  BY DEF IInv, ConfirmedWereReported
<1> QED  BY <1>1, <1>4, <1>5, <1>6, <1>7 DEF IInv

\* A look-up drops the entry of no token that is still good.
LEMMA ValidateInv ==
  ASSUME IInv, NEW t \in tokens, ValidatePlayerToken(t)
  PROVE  IInv'
<1>1. /\ UNCHANGED <<now, bridgeOnline, records, sessionByPlayerName,
                     currentSessionByPlayer, tokens, process, reported>>
      /\ whitelist' \subseteq whitelist
      /\ \A w \in whitelist : now <= w.expiresAt => w \in whitelist'
  BY DEF ValidatePlayerToken, AfterLookUp
<1>2. BridgeMessages'
  BY DEF ValidatePlayerToken, Emit, BridgeMessages
<1>3. TypeOK'
  BY <1>1, <1>2 DEF IInv, TypeOK, BridgeMessages
<1>4. now \in Nat /\ HistoryKept
  BY <1>1, SameRecords DEF IInv, TypeOK
<1>5. LookupsAgree' /\ EntriesOwned' /\ CurrentIsLatest'
  BY <1>1, <1>4, LookupsKept
<1>6. GrantedAreVerified' /\ OneTokenPerVerification' /\ TokensEarned'
  BY <1>1, <1>4, TokensKept
<1>7. ConfirmedWereReported' /\ TokenIdsUnique' /\ TokensOfThePast'
  BY <1>1 DEF IInv, ConfirmedWereReported, TokenIdsUnique, TokensOfThePast
<1>8. EntriesBacked'
  BY <1>1 DEF IInv, EntriesBacked, WhitelistEntry
<1>9. TokensListed'
  <2> SUFFICES ASSUME NEW u \in tokens, u.process = process, NowSeconds < u.exp
               PROVE  WhitelistEntry(u.jti, u.exp) \in whitelist'
    BY <1>1 DEF TokensListed, NowSeconds, WhitelistEntry
  <2>1. WhitelistEntry(u.jti, u.exp) \in whitelist
    BY DEF IInv, TokensListed
  <2>2. u.exp \in Nat
    BY DEF IInv, TypeOK, Token
  <2>3. now < u.exp * MsPerSecond
    BY <1>4, <2>2, AuthAssumption, SecondsLeft DEF NowSeconds
  <2>4. u.exp * MsPerSecond \in Nat
    BY <2>2, AuthAssumption
  <2>5. WhitelistEntry(u.jti, u.exp).expiresAt = u.exp * MsPerSecond
    BY DEF WhitelistEntry
  <2> QED  BY <1>1, <1>4, <2>1, <2>3, <2>4, <2>5
<1> QED  BY <1>3, <1>5, <1>6, <1>7, <1>8, <1>9 DEF IInv

\* Whatever a restart forgets, no token of the next process is confused with an
\* earlier one's.
LEMMA RestartInv ==
  ASSUME IInv, Restart
  PROVE  IInv'
<1>1. /\ process' = process + 1 /\ process < MaxRestarts /\ process \in 0..MaxRestarts
      /\ bridgeOnline' = FALSE /\ whitelist' = {} /\ toBridge' = <<>>
      /\ sessionByPlayerName' = NoSessions /\ currentSessionByPlayer' = NoSessions
      /\ UNCHANGED <<now, records, tokens, reported>>
  BY DEF Restart, IInv, TypeOK
<1>2. HistoryKept
  BY <1>1, SameRecords
<1>3. TypeOK'
  <2>1. process' \in 0..MaxRestarts
    BY <1>1, AuthAssumption
  <2>2. Len(records) \in Nat
    BY DEF IInv, TypeOK
  <2>3. /\ sessionByPlayerName' \in [Players -> 0..Len(records')]
        /\ currentSessionByPlayer' \in [Players -> 0..Len(records')]
    BY <1>1, <2>2 DEF NoSessions
  <2>4. bridgeOnline' \in BOOLEAN /\ Len(toBridge') = 0
    BY <1>1
  <2>5. records \in Seq(Record) /\ Len(records) <= MaxVerifications
        /\ now \in 0..MaxTime /\ tokens \in SUBSET Token /\ reported \in SUBSET Verifications
    BY DEF IInv, TypeOK
  <2> QED  BY <1>1, <2>1, <2>3, <2>4, <2>5 DEF TypeOK
<1>4. LookupsAgree' /\ EntriesOwned'
  BY <1>1 DEF LookupsAgree, EntriesOwned, NoSessions
<1>5. CurrentIsLatest'
  <2>1. \A v \in 1..Len(records) : records[v].playerName \in Players
    BY RecordTypes DEF IInv
  <2> QED  BY <1>1, <2>1 DEF CurrentIsLatest, NoSessions
<1>6. GrantedAreVerified' /\ OneTokenPerVerification' /\ TokensEarned'
  BY <1>1, <1>2, TokensKept
<1>7. ConfirmedWereReported' /\ TokenIdsUnique' /\ EntriesBacked'
  BY <1>1 DEF IInv, ConfirmedWereReported, TokenIdsUnique, EntriesBacked
<1>8. TokensOfThePast' /\ \A t \in tokens' : t.process # process'
  <2>1. \A t \in tokens : t.process \in Nat /\ t.process <= process
    BY DEF IInv, TypeOK, Token, TokensOfThePast
  <2> QED  BY <1>1, <2>1 DEF TokensOfThePast
<1>9. TokensListed'
  BY <1>8 DEF TokensListed
<1> QED  BY <1>3, <1>4, <1>5, <1>6, <1>7, <1>8, <1>9 DEF IInv

\* applySuperseded rewrites no history, and confirms nothing.
LEMMA SupersededRecords ==
  ASSUME TypeOK, NEW p \in Players
  PROVE  LET R == Superseded(p) IN
         /\ R \in Seq(Record) /\ Len(R) = Len(records)
         /\ \A v \in 1..Len(records) :
              /\ R[v].playerName = records[v].playerName
              /\ R[v].mode = records[v].mode
              /\ R[v].code = records[v].code
              /\ R[v].expiresAt = records[v].expiresAt
              /\ records[v].status = "verified" => R[v].status = "verified"
              /\ R[v].status = "game_confirmed" => records[v].status = "game_confirmed"
              /\ v # sessionByPlayerName[p] => R[v] = records[v]
<1> DEFINE s == sessionByPlayerName[p]
<1>1. CASE s # 0 /\ records[s].status # "verified"
  <2>1. s \in 1..Len(records)
    BY <1>1 DEF TypeOK
  <2>2. Superseded(p) = Marked(s, "superseded")
    BY <1>1 DEF Superseded, Marked
  <2>3. records \in Seq(Record) /\ "superseded" \in Status
    BY DEF TypeOK, Status
  <2>4. /\ Marked(s, "superseded") \in Seq(Record)
        /\ Len(Marked(s, "superseded")) = Len(records)
        /\ \A v \in 1..Len(records) :
             Marked(s, "superseded")[v] =
               IF v = s THEN [records[v] EXCEPT !.status = "superseded"] ELSE records[v]
    BY <2>1, <2>3, MarkedRecords
  <2>5. \A v \in 1..Len(records) : records[v] \in Record
    BY DEF TypeOK
  <2>6. /\ Marked(s, "superseded")[s].playerName = records[s].playerName
        /\ Marked(s, "superseded")[s].mode = records[s].mode
        /\ Marked(s, "superseded")[s].code = records[s].code
        /\ Marked(s, "superseded")[s].expiresAt = records[s].expiresAt
        /\ Marked(s, "superseded")[s].status = "superseded"
    BY <2>1, <2>4, <2>5 DEF Record
  <2> HIDE DEF s
  <2> QED  BY <1>1, <2>1, <2>2, <2>4, <2>6 DEF s
<1>2. CASE ~(s # 0 /\ records[s].status # "verified")
  <2>1. Superseded(p) = records
    BY <1>2 DEF Superseded
  <2> QED  BY <2>1 DEF TypeOK
<1> QED  BY <1>1, <1>2

\* A start: of either mode.
Starting(p, mode, code) ==
  /\ FreshCode(p, code)
  /\ CreateOrReplace(p, mode, code)
  /\ BridgeMessages'
  /\ UNCHANGED <<now, bridgeOnline, tokens, whitelist, process, reported>>

\* What a start does to the heap and the Maps.
LEMMA StartEffect ==
  ASSUME IInv, NEW p \in Players, NEW mode \in {"tell", "manual"}, NEW code \in Codes,
         Starting(p, mode, code)
  PROVE  LET n == Len(records) + 1 IN
         /\ n \in Verifications
         /\ records' \in Seq(Record) /\ Len(records') = n
         /\ records'[n] = [playerName |-> p, mode |-> mode, code |-> code,
                           status |-> "active", expiresAt |-> now + CodeTtlMs[mode]]
         /\ \A v \in 1..Len(records) : records'[v] = Superseded(p)[v]
         /\ HistoryKept
         /\ sessionByPlayerName' =
              [q \in Players |-> IF q = p THEN n
                 ELSE IF sessionByPlayerName[q] # 0 /\ IsExpired(sessionByPlayerName[q])
                      THEN 0 ELSE sessionByPlayerName[q]]
         /\ currentSessionByPlayer' =
              [q \in Players |-> IF q = p THEN n ELSE currentSessionByPlayer[q]]
<1> DEFINE n == Len(records) + 1
           R == Superseded(p)
           record == [playerName |-> p, mode |-> mode, code |-> code,
                      status |-> "active", expiresAt |-> now + CodeTtlMs[mode]]
<1>1. Len(records) \in Nat /\ Len(records) < MaxVerifications /\ now \in Nat
  BY DEF Starting, FreshCode, IInv, TypeOK
<1>2. R \in Seq(Record) /\ Len(R) = Len(records)
  BY SupersededRecords DEF IInv
<1>3. record \in Record
  BY <1>1, AuthAssumption DEF Record, Status
<1>4. records' = Append(R, record)
  BY DEF Starting, CreateOrReplace
<1> HIDE DEF record, R
<1>5. /\ records' \in Seq(Record) /\ Len(records') = n /\ records'[n] = record
      /\ \A v \in 1..Len(records) : records'[v] = R[v]
  BY <1>1, <1>2, <1>3, <1>4
<1>6. HistoryKept
  BY <1>1, <1>5, SupersededRecords DEF HistoryKept, R, IInv
<1>7. /\ currentSessionByPlayer' = [currentSessionByPlayer EXCEPT ![p] = n]
      /\ sessionByPlayerName' = DeleteExpired(p, [sessionByPlayerName EXCEPT ![p] = n])
  BY DEF Starting, CreateOrReplace
<1>8. currentSessionByPlayer' =
        [q \in Players |-> IF q = p THEN n ELSE currentSessionByPlayer[q]]
  BY <1>7 DEF IInv, TypeOK
<1>9. sessionByPlayerName' =
        [q \in Players |-> IF q = p THEN n
           ELSE IF sessionByPlayerName[q] # 0 /\ IsExpired(sessionByPlayerName[q])
                THEN 0 ELSE sessionByPlayerName[q]]
  BY <1>7 DEF DeleteExpired, IInv, TypeOK
<1>10. n \in Verifications
  BY <1>1, AuthAssumption DEF Verifications
<1> QED  BY <1>5, <1>6, <1>8, <1>9, <1>10 DEF record, R

\* A start takes over the player's line, and cleans up after the others.
LEMMA StartInv ==
  ASSUME IInv, NEW p \in Players, NEW mode \in {"tell", "manual"}, NEW code \in Codes,
         Starting(p, mode, code)
  PROVE  IInv'
<1> DEFINE n == Len(records) + 1
<1>1. /\ n \in Verifications
      /\ records' \in Seq(Record) /\ Len(records') = n
      /\ records'[n].playerName = p /\ records'[n].status = "active"
      /\ \A v \in 1..Len(records) : records'[v] = Superseded(p)[v]
      /\ HistoryKept
      /\ sessionByPlayerName' =
           [q \in Players |-> IF q = p THEN n
              ELSE IF sessionByPlayerName[q] # 0 /\ IsExpired(sessionByPlayerName[q])
                   THEN 0 ELSE sessionByPlayerName[q]]
      /\ currentSessionByPlayer' =
           [q \in Players |-> IF q = p THEN n ELSE currentSessionByPlayer[q]]
  <2>1. records'[n] = [playerName |-> p, mode |-> mode, code |-> code,
                       status |-> "active", expiresAt |-> now + CodeTtlMs[mode]]
    BY StartEffect
  <2>2. records'[n].playerName = p /\ records'[n].status = "active"
    BY <2>1
  <2> QED  BY <2>2, StartEffect
<1>2. /\ Len(records) \in Nat /\ now \in Nat
      /\ \A q \in Players : /\ sessionByPlayerName[q] \in 0..Len(records)
                            /\ currentSessionByPlayer[q] \in 0..Len(records)
  BY DEF IInv, TypeOK
<1>3. UNCHANGED <<now, bridgeOnline, tokens, whitelist, process, reported>> /\ BridgeMessages'
  BY DEF Starting
<1>4. TypeOK'
  <2>1. /\ sessionByPlayerName' \in [Players -> 0..n]
        /\ currentSessionByPlayer' \in [Players -> 0..n]
    BY <1>1, <1>2
  <2>2. n <= MaxVerifications
    BY <1>1, AuthAssumption DEF Verifications
  <2> QED  BY <1>1, <1>3, <2>1, <2>2 DEF IInv, TypeOK, BridgeMessages
<1>5. LookupsAgree'
  <2> SUFFICES ASSUME NEW q \in Players, sessionByPlayerName'[q] # currentSessionByPlayer'[q]
               PROVE  sessionByPlayerName'[q] = 0 /\ IsExpired(currentSessionByPlayer[q])'
    BY DEF LookupsAgree
  <2>1. /\ q # p /\ currentSessionByPlayer'[q] = currentSessionByPlayer[q]
        /\ \/ sessionByPlayerName'[q] = sessionByPlayerName[q]
           \/ sessionByPlayerName'[q] = 0 /\ IsExpired(sessionByPlayerName[q])
    BY <1>1
  <2>2. /\ sessionByPlayerName'[q] = 0 /\ IsExpired(currentSessionByPlayer[q])
        /\ currentSessionByPlayer[q] \in 1..Len(records)
    BY <1>2, <2>1 DEF IInv, LookupsAgree
  <2>3. records'[currentSessionByPlayer[q]].expiresAt
          = records[currentSessionByPlayer[q]].expiresAt
    BY <1>1, <2>2 DEF HistoryKept
  <2> QED  BY <1>3, <2>1, <2>2, <2>3 DEF IsExpired
<1>6. EntriesOwned'
  BY <1>1, <1>2 DEF IInv, EntriesOwned, HistoryKept
<1>7. CurrentIsLatest'
  <2> SUFFICES ASSUME NEW v \in 1..n, currentSessionByPlayer'[records'[v].playerName] # 0
               PROVE  v <= currentSessionByPlayer'[records'[v].playerName]
    BY <1>1 DEF CurrentIsLatest
  <2>2. CASE records'[v].playerName = p
    BY <1>1, <1>2, <2>2
  <2>3. CASE records'[v].playerName # p
    <3>1. v \in 1..Len(records)
      BY <1>1, <1>2, <2>3
    <3>2. records'[v].playerName = records[v].playerName
      BY <1>1, <3>1 DEF HistoryKept
    <3>3. records[v].playerName \in Players
      BY <3>1, RecordTypes DEF IInv
    <3> QED  BY <1>1, <2>3, <3>1, <3>2, <3>3 DEF IInv, CurrentIsLatest
  <2> QED  BY <2>2, <2>3
<1>8. GrantedAreVerified' /\ OneTokenPerVerification' /\ TokensEarned'
  BY <1>1, <1>3, TokensKept
<1>9. ConfirmedWereReported'
  <2>1. \A v \in 1..Len(records) :
          records'[v].status = "game_confirmed" => records[v].status = "game_confirmed"
    BY <1>1, SupersededRecords DEF IInv
  <2> QED  BY <1>1, <1>2, <1>3, <2>1 DEF IInv, ConfirmedWereReported
<1>10. TokenIdsUnique' /\ EntriesBacked' /\ TokensListed' /\ TokensOfThePast'
  BY <1>3, WhitelistKept
<1> QED  BY <1>4, <1>5, <1>6, <1>7, <1>8, <1>9, <1>10 DEF IInv

\* A report confirms the session it is about, if it is in time, and no other.
LEMMA MatchInv ==
  ASSUME IInv, NEW p \in Players, NEW code \in Codes, HandleManualGameMatched(p, code)
  PROVE  IInv'
<1> DEFINE v == sessionByPlayerName[p]
<1>1. /\ UNCHANGED <<now, bridgeOnline, sessionByPlayerName, tokens, whitelist, process>>
      /\ reported' = reported \cup AnsweredBy(p, code)
  BY DEF HandleManualGameMatched
<1>2. /\ Len(records) \in Nat /\ now \in Nat /\ records \in Seq(Record)
      /\ Len(records) <= MaxVerifications
      /\ \A q \in Players : /\ sessionByPlayerName[q] \in 0..Len(records)
                            /\ currentSessionByPlayer[q] \in 0..Len(records)
  BY DEF IInv, TypeOK
<1>3. reported \subseteq reported' /\ reported' \subseteq Verifications
  <2>1. AnsweredBy(p, code) \subseteq Verifications
    BY <1>2, AuthAssumption DEF AnsweredBy, Verifications
  <2> QED  BY <1>1, <2>1 DEF IInv, TypeOK
<1>4. BridgeMessages'
  BY EmitType DEF HandleManualGameMatched
<1>5. /\ HistoryKept /\ records' \in Seq(Record) /\ Len(records') = Len(records)
      /\ UNCHANGED currentSessionByPlayer
      /\ \A w \in 1..Len(records) :
           records'[w].status = "game_confirmed" =>
             records[w].status = "game_confirmed" \/ w \in reported'
  <2>1. CASE UNCHANGED <<records, currentSessionByPlayer>>
    BY <1>2, <2>1, SameRecords
  <2>2. CASE /\ IsActiveSession(v) /\ records[v].mode = "manual" /\ records[v].code = code
             /\ ~IsExpired(v)
             /\ records' = MarkGameConfirmed(v)
             /\ currentSessionByPlayer' = [currentSessionByPlayer EXCEPT ![p] = v]
    <3>1. /\ v \in 1..Len(records) /\ records[v].status = "active"
          /\ records[v].playerName = p
      BY <1>2, <2>2 DEF IsActiveSession, IInv, EntriesOwned
    <3>2. v \in reported'
      BY <1>1, <2>2, <3>1 DEF AnsweredBy
    <3>3. currentSessionByPlayer[p] = v
      BY <3>1 DEF IInv, LookupsAgree
    <3>4. UNCHANGED currentSessionByPlayer
      BY <2>2, <3>3 DEF IInv, TypeOK
    <3>5. records' = Marked(v, "game_confirmed") /\ "game_confirmed" \in Status
      BY <2>2 DEF MarkGameConfirmed, Marked, Status
    <3>6. /\ HistoryKept /\ records' \in Seq(Record) /\ Len(records') = Len(records)
          /\ \A w \in 1..Len(records) \ {v} : records'[w] = records[w]
      <4> HIDE DEF v
      <4> QED  BY <3>1, <3>5, MarkedHistory DEF IInv
    <3> QED  BY <3>2, <3>4, <3>6
  <2> QED  BY <2>1, <2>2 DEF HandleManualGameMatched
<1>6. TypeOK'
  BY <1>1, <1>2, <1>3, <1>4, <1>5 DEF IInv, TypeOK, BridgeMessages
<1>7. LookupsAgree' /\ EntriesOwned' /\ CurrentIsLatest'
  BY <1>1, <1>2, <1>5, LookupsKept
<1>8. GrantedAreVerified' /\ OneTokenPerVerification' /\ TokensEarned'
  BY <1>1, <1>3, <1>5, TokensKept
<1>9. ConfirmedWereReported'
  BY <1>3, <1>5 DEF IInv, ConfirmedWereReported
<1>10. TokenIdsUnique' /\ EntriesBacked' /\ TokensListed' /\ TokensOfThePast'
  BY <1>1, WhitelistKept
<1> QED  BY <1>6, <1>7, <1>8, <1>9, <1>10 DEF IInv

-----------------------------------------------------------------------------
(* Granting a token.                                                       *)

\* Player p gets a token for verification v, which both Maps hold.
Granting(p, v) ==
  /\ v \in 1..Len(records)
  /\ sessionByPlayerName[p] = v /\ currentSessionByPlayer[p] = v
  /\ records[v].playerName = p
  /\ records[v].status = IF records[v].mode = "tell" THEN "active" ELSE "game_confirmed"
  /\ ~IsExpired(v)
  /\ records' = Marked(v, "verified")
  /\ IssuePlayerToken(p, v)
  /\ UNCHANGED <<now, bridgeOnline, sessionByPlayerName, currentSessionByPlayer, process,
                 reported>>

\* Although the service looks at one Map and marks in the other, a token is only granted
\* for a record that both of them hold, and that very record is closed.
LEMMA GrantsAgree ==
  ASSUME IInv, NEW p \in Players, NEW code \in Codes,
         FinishTellVerification(p, code) \/ ConfirmManualVerification(p, code)
  PROVE  Granting(p, currentSessionByPlayer[p])
<1>1. /\ sessionByPlayerName[p] \in 0..Len(records)
      /\ currentSessionByPlayer[p] \in 0..Len(records)
      /\ Len(records) \in Nat
  BY DEF IInv, TypeOK
<1>2. CASE FinishTellVerification(p, code)
  <2>1. sessionByPlayerName[p] # 0
    BY <1>2 DEF FinishTellVerification, IsActiveSession
  <2>2. currentSessionByPlayer[p] = sessionByPlayerName[p]
    BY <2>1 DEF IInv, LookupsAgree
  <2>3. records[sessionByPlayerName[p]].playerName = p
    BY <2>1 DEF IInv, EntriesOwned
  <2> QED
    BY <1>1, <1>2, <2>1, <2>2, <2>3
    DEF FinishTellVerification, IsActiveSession, Granting, Marked
<1>3. CASE ConfirmManualVerification(p, code)
  <2> DEFINE v == currentSessionByPlayer[p]
  <2>1. /\ v # 0 /\ ~IsExpired(v) /\ records[v].mode = "manual"
        /\ records[v].status = "game_confirmed"
        /\ records' = MarkVerified(p) /\ IssuePlayerToken(p, v)
        /\ UNCHANGED <<now, bridgeOnline, sessionByPlayerName, currentSessionByPlayer,
                       process, reported>>
    BY <1>3 DEF ConfirmManualVerification
  <2>2. sessionByPlayerName[p] = v
    BY <2>1 DEF IInv, LookupsAgree
  <2>3. records[v].playerName = p
    BY <2>1 DEF IInv, EntriesOwned
  <2>4. records' = Marked(v, "verified")
    BY <2>1, <2>2 DEF MarkVerified, Marked
  <2> QED  BY <1>1, <2>1, <2>2, <2>3, <2>4 DEF Granting
<1> QED  BY <1>2, <1>3

\* The token that is granted is new, and listed.
LEMMA GrantEffect ==
  ASSUME IInv, NEW p \in Players, NEW v, Granting(p, v)
  PROVE  LET t == PlayerJwt(p, v) IN
         /\ t \in Token /\ t.of = v /\ t.playerName = p /\ t.issuedAt = now
         /\ t.process = process /\ NowSeconds < t.exp
         /\ t.jti = Cardinality(tokens) + 1 /\ \A u \in tokens : u.jti # t.jti
         /\ tokens' = tokens \cup {t}
         /\ IsFiniteSet(tokens') /\ Cardinality(tokens') = Cardinality(tokens) + 1
         /\ whitelist' = Unexpired(whitelist \cup {WhitelistEntry(t.jti, t.exp)})
<1> DEFINE t == PlayerJwt(p, v)
<1>1. /\ now \in Nat /\ v \in Verifications /\ process \in 0..MaxRestarts
      /\ Len(records) \in Nat
  BY AuthAssumption DEF Granting, IInv, TypeOK, Verifications
<1>2. Cardinality(tokens) \in Nat /\ IsFiniteSet(tokens)
  BY FS_CardinalityType DEF IInv, TokenIdsUnique
<1>3. NowSeconds \in Nat
  BY <1>1, SecondsPass, AuthAssumption DEF NowSeconds
<1>4. /\ t \in Token /\ t.of = v /\ t.playerName = p /\ t.issuedAt = now
      /\ t.process = process /\ NowSeconds < t.exp /\ t.jti = Cardinality(tokens) + 1
  BY <1>1, <1>2, <1>3, AuthAssumption DEF PlayerJwt, Token
<1>5. tokens' = tokens \cup {t}
      /\ whitelist' = Unexpired(whitelist \cup {WhitelistEntry(t.jti, t.exp)})
  BY DEF Granting, IssuePlayerToken, IssueEntry
<1>6. \A u \in tokens : u.jti # t.jti
  <2>1. \A u \in tokens : u.jti \in Nat /\ u.jti <= Cardinality(tokens)
    BY DEF IInv, TypeOK, Token, TokenIdsUnique
  <2> QED  BY <1>2, <1>4, <2>1
<1> HIDE DEF t
<1>7. IsFiniteSet(tokens') /\ Cardinality(tokens') = Cardinality(tokens) + 1
  BY <1>2, <1>5, <1>6, FS_AddElement
<1> QED  BY <1>4, <1>5, <1>6, <1>7 DEF t

\* A grant closes its verification, and the whitelist sheds nothing that is still good.
LEMMA GrantInv ==
  ASSUME IInv, NEW p \in Players, NEW v, Granting(p, v), BridgeMessages'
  PROVE  IInv'
<1> DEFINE t == PlayerJwt(p, v)
<1>1. /\ v \in 1..Len(records) /\ records[v].playerName = p
      /\ records[v].status \in {"active", "game_confirmed"}
      /\ records[v].mode = "manual" => records[v].status = "game_confirmed"
      /\ ~IsExpired(v)
      /\ UNCHANGED <<now, bridgeOnline, sessionByPlayerName, currentSessionByPlayer,
                     process, reported>>
  BY DEF Granting
<1>2. /\ t \in Token /\ t.of = v /\ t.playerName = p /\ t.issuedAt = now
      /\ t.process = process /\ NowSeconds < t.exp
      /\ t.jti = Cardinality(tokens) + 1 /\ \A u \in tokens : u.jti # t.jti
      /\ tokens' = tokens \cup {t}
      /\ IsFiniteSet(tokens') /\ Cardinality(tokens') = Cardinality(tokens) + 1
      /\ whitelist' = Unexpired(whitelist \cup {WhitelistEntry(t.jti, t.exp)})
  BY GrantEffect
<1>3. /\ HistoryKept /\ records' \in Seq(Record) /\ Len(records') = Len(records)
      /\ records'[v].status = "verified"
      /\ \A w \in 1..Len(records) \ {v} : records'[w] = records[w]
  BY <1>1, MarkedHistory DEF IInv, Granting, Status
<1>4. now \in Nat /\ Cardinality(tokens) \in Nat /\ Len(records) \in Nat
  BY FS_CardinalityType DEF IInv, TypeOK, TokenIdsUnique
<1>5. \A u \in tokens : /\ u \in Token /\ u.of \in 1..Len(records) /\ u.of # v
                        /\ u.jti <= Cardinality(tokens) /\ u.jti \in Nat
  BY <1>1 DEF IInv, TypeOK, GrantedAreVerified, TokenIdsUnique, Token
<1> HIDE DEF t
<1>6. TypeOK'
  <2>1. t.exp * MsPerSecond \in Nat /\ t.jti \in Nat
    BY <1>2, AuthAssumption DEF Token
  <2>2. whitelist' \in SUBSET [jti : Nat, expiresAt : Nat]
    BY <1>2, <2>1 DEF Unexpired, WhitelistEntry, IInv, TypeOK
  <2> QED  BY <1>1, <1>2, <1>3, <2>2 DEF IInv, TypeOK, BridgeMessages
<1>7. LookupsAgree' /\ EntriesOwned' /\ CurrentIsLatest'
  BY <1>1, <1>3, <1>4, LookupsKept
<1>8. GrantedAreVerified'
  BY <1>1, <1>2, <1>3, <1>5 DEF IInv, GrantedAreVerified
<1>9. OneTokenPerVerification'
  BY <1>2, <1>5 DEF IInv, OneTokenPerVerification
<1>10. TokensEarned'
  <2>1. \A u \in tokens : /\ records'[u.of].playerName = u.playerName
                          /\ u.issuedAt <= records'[u.of].expiresAt
                          /\ records'[u.of].mode = "manual" => u.of \in reported'
    BY <1>1, <1>3, <1>5 DEF IInv, TokensEarned
  <2>2. records[v].expiresAt \in Nat
    BY <1>1, RecordTypes DEF IInv
  <2>3. /\ records'[v].playerName = p /\ now <= records'[v].expiresAt
        /\ records'[v].mode = "manual" => v \in reported'
    BY <1>1, <1>3, <1>4, <2>2 DEF IInv, HistoryKept, IsExpired, ConfirmedWereReported
  <2> QED  BY <1>2, <2>1, <2>3 DEF TokensEarned
<1>11. ConfirmedWereReported'
  BY <1>1, <1>3 DEF IInv, ConfirmedWereReported
<1>12. TokenIdsUnique'
  BY <1>2, <1>4, <1>5 DEF IInv, TokenIdsUnique
<1>13. EntriesBacked'
  BY <1>1, <1>2 DEF IInv, EntriesBacked, Unexpired, WhitelistEntry
<1>14. TokensListed'
  <2> SUFFICES ASSUME NEW u \in tokens', u.process = process, NowSeconds < u.exp
               PROVE  WhitelistEntry(u.jti, u.exp) \in whitelist'
    BY <1>1 DEF TokensListed, NowSeconds, WhitelistEntry
  <2>1. WhitelistEntry(u.jti, u.exp) \in whitelist \cup {WhitelistEntry(t.jti, t.exp)}
    BY <1>2 DEF IInv, TokensListed
  <2>2. u.exp \in Nat
    BY <1>2, <1>5 DEF Token
  <2>3. now < u.exp * MsPerSecond /\ u.exp * MsPerSecond \in Nat
    BY <1>4, <2>2, AuthAssumption, SecondsLeft DEF NowSeconds
  <2>4. now <= WhitelistEntry(u.jti, u.exp).expiresAt
    BY <1>4, <2>3 DEF WhitelistEntry
  <2> QED  BY <1>2, <2>1, <2>4 DEF Unexpired
<1>15. TokensOfThePast'
  BY <1>1, <1>2 DEF IInv, TypeOK, TokensOfThePast
<1> QED
  BY <1>6, <1>7, <1>8, <1>9, <1>10, <1>11, <1>12, <1>13, <1>14, <1>15 DEF IInv

-----------------------------------------------------------------------------
(* The invariants.                                                         *)

\* Every step is of one of the kinds above.
LEMMA StepKinds ==
  ASSUME IInv, Next
  PROVE  \/ \E p \in Players, mode \in {"tell", "manual"}, code \in Codes :
              Starting(p, mode, code)
         \/ \E p \in Players, code \in Codes : HandleManualGameMatched(p, code)
         \/ \E p \in Players : Granting(p, currentSessionByPlayer[p]) /\ BridgeMessages'
         \/ \E t \in tokens : ValidatePlayerToken(t)
         \/ Restart
         \/ /\ BridgeMessages' /\ bridgeOnline' \in BOOLEAN
            /\ now' \in 0..MaxTime /\ now' \in {now, now + 1}
            /\ UNCHANGED <<records, sessionByPlayerName, currentSessionByPlayer, tokens,
                           whitelist, process, reported>>
<1>1. now \in 0..MaxTime /\ bridgeOnline \in BOOLEAN
  BY DEF IInv, TypeOK
<1>2. ASSUME NEW p \in Players, NEW code \in Codes, PostTellStart(p, code)
      PROVE  Starting(p, "tell", code)
  BY <1>2, EmitType DEF PostTellStart, StartTellVerification, Starting
<1>3. ASSUME NEW p \in Players, NEW code \in Codes, PostManualStart(p, code)
      PROVE  Starting(p, "manual", code)
  BY <1>3, EmitType DEF PostManualStart, StartManualVerification, Starting
<1>4. ASSUME NEW p \in Players, NEW code \in Codes, PostTellFinish(p, code)
      PROVE  Granting(p, currentSessionByPlayer[p]) /\ BridgeMessages'
  <2>1. FinishTellVerification(p, code)
    BY <1>4 DEF PostTellFinish
  <2>2. BridgeMessages'
    BY <2>1, EmitType DEF FinishTellVerification
  <2> QED  BY <2>1, <2>2, GrantsAgree
<1>5. ASSUME NEW p \in Players, NEW code \in Codes, PostManualConfirm(p, code)
      PROVE  \/ Granting(p, currentSessionByPlayer[p]) /\ BridgeMessages'
             \/ /\ BridgeMessages'
                /\ UNCHANGED <<now, bridgeOnline, records, sessionByPlayerName,
                               currentSessionByPlayer, tokens, whitelist, process, reported>>
  <2>1. CASE ConfirmManualVerification(p, code) /\ Emit(<<StopWatch(p)>>)
    BY <2>1, EmitType, GrantsAgree
  <2>2. CASE ConfirmManualExpired(p, code)
    BY <2>2, EmitType DEF ConfirmManualExpired
  <2> QED  BY <1>5, <2>1, <2>2 DEF PostManualConfirm, ConfirmAndStopWatch
<1>6. toBridge' = <<>> => BridgeMessages'
  BY DEF BridgeMessages
<1>7. CASE Tick
  <2>1. now' = now + 1 /\ now < MaxTime /\ toBridge' = <<>> /\ bridgeOnline' = bridgeOnline
    BY <1>7 DEF Tick
  <2>2. now' \in 0..MaxTime
    BY <1>1, <2>1, AuthAssumption
  <2> QED  BY <1>1, <1>6, <1>7, <2>1, <2>2 DEF Tick
<1>8. CASE BridgeConnects \/ BridgeDisconnects
  <2>1. bridgeOnline' \in BOOLEAN /\ toBridge' = <<>> /\ now' = now
    BY <1>8 DEF BridgeConnects, BridgeDisconnects
  <2> QED  BY <1>1, <1>6, <1>8, <2>1 DEF BridgeConnects, BridgeDisconnects
<1> QED
  BY <1>1, <1>2, <1>3, <1>4, <1>5, <1>7, <1>8 DEF Next

\* Every step keeps the invariant.
LEMMA NextInv == IInv /\ [Next]_vars => IInv'
<1> SUFFICES ASSUME IInv, [Next]_vars PROVE IInv'  OBVIOUS
<1>1. CASE UNCHANGED vars
  <2>1. BridgeMessages' /\ bridgeOnline' \in BOOLEAN /\ now' \in 0..MaxTime
    BY <1>1 DEF vars, IInv, TypeOK, BridgeMessages
  <2> QED  BY <1>1, <2>1, ClockInv DEF vars
<1>2. CASE Next
  BY <1>2, StepKinds, StartInv, MatchInv, GrantInv, ValidateInv, RestartInv, ClockInv
<1> QED  BY <1>1, <1>2

\* The inductive invariant holds in every reachable state: what the two Maps, the shared
\* records, the tokens and the whitelist have to do with each other.
THEOREM Invariance == Spec => []IInv
<1> QED  BY InitInv, NextInv, PTL DEF Spec

\* The variables keep their types.
THEOREM TypeCorrect == Spec => []TypeOK
<1>1. IInv => TypeOK
  BY DEF IInv
<1> QED  BY <1>1, Invariance, PTL

\* The two Maps of verifications, one cleaned up and one not, never contradict each
\* other about one that is still good.
THEOREM MapsAgree == Spec => []LookupsAgree
<1>1. IInv => LookupsAgree
  BY DEF IInv
<1> QED  BY <1>1, Invariance, PTL

\* No order of reports, confirmations, starts and restarts makes two tokens out of one
\* verification.
THEOREM OneTokenEach == Spec => []OneTokenPerVerification
<1>1. IInv => OneTokenPerVerification
  BY DEF IInv
<1> QED  BY <1>1, Invariance, PTL

\* Nobody gets a token without the code, or without having been seen to type it, in time.
THEOREM EveryTokenEarned == Spec => []TokensEarned
<1>1. IInv => TokensEarned
  BY DEF IInv
<1> QED  BY <1>1, Invariance, PTL

\* A token is good in the process that issued it until it expires, and in no other.
THEOREM VerdictsAreFair == Spec => []TokenVerdicts
<1>1. IInv => TokenVerdicts
  <2> SUFFICES ASSUME IInv PROVE TokenVerdicts  OBVIOUS
  <2>3. NowSeconds \in Nat /\ \A u \in tokens : u.exp \in Nat
    <3>1. now \in Nat /\ \A u \in tokens : u.exp \in Nat
      BY DEF IInv, TypeOK, Token
    <3> QED  BY <3>1, SecondsPass, AuthAssumption DEF NowSeconds
  <2> SUFFICES ASSUME NEW t \in tokens, NowSeconds < t.exp
               PROVE  IsActive(t.jti) <=> t.process = process
    BY <2>3 DEF TokenVerdicts, Verdict
  <2>1. ASSUME IsActive(t.jti)  PROVE t.process = process
    <3>1. PICK w \in whitelist : w.jti = t.jti
      BY <2>1 DEF IsActive, Unexpired
    <3>2. PICK u \in tokens : u.process = process /\ w = WhitelistEntry(u.jti, u.exp)
      BY DEF IInv, EntriesBacked
    <3>3. u = t
      BY <3>1, <3>2 DEF WhitelistEntry, IInv, TokenIdsUnique
    <3> QED  BY <3>2, <3>3
  <2>2. ASSUME t.process = process  PROVE IsActive(t.jti)
    <3> DEFINE w == WhitelistEntry(t.jti, t.exp)
    <3>1. w \in whitelist
      BY <2>2 DEF IInv, TokensListed
    <3>2. now \in Nat /\ t.exp \in Nat
      BY DEF IInv, TypeOK, Token
    <3>3. now < t.exp * MsPerSecond /\ t.exp * MsPerSecond \in Nat
      BY <3>2, AuthAssumption, SecondsLeft DEF NowSeconds
    <3>4. w.jti = t.jti /\ now <= w.expiresAt
      BY <3>2, <3>3 DEF WhitelistEntry
    <3> QED  BY <3>1, <3>4 DEF IsActive, Unexpired
  <2> QED  BY <2>1, <2>2
<1> QED  BY <1>1, Invariance, PTL

-----------------------------------------------------------------------------
(* Steps.                                                                  *)

\* No step that is not a grant issues a token.
LEMMA OnlyGrantsIssue ==
  ASSUME IInv, [Next]_vars, tokens' # tokens
  PROVE  \E p \in Players, v \in 1..Len(records) : Granting(p, v)
<1>1. CASE UNCHANGED vars
  BY <1>1 DEF vars
<1>2. CASE Next
  <2>1. PICK p \in Players : Granting(p, currentSessionByPlayer[p])
    BY <1>2, StepKinds DEF Starting, HandleManualGameMatched, ValidatePlayerToken, Restart
  <2> QED  BY <2>1 DEF Granting
<1> QED  BY <1>1, <1>2

\* A verification that a newer one of its player has superseded grants nothing any more.
THEOREM LatestOnly == Spec => OnlyLatestGrants
<1> DEFINE A == \A t \in tokens' \ tokens, v \in 1..Len(records) :
                  records[v].playerName = t.playerName => v <= t.of
<1>1. IInv /\ [Next]_vars => A
  <2> SUFFICES ASSUME IInv, [Next]_vars, NEW t \in tokens' \ tokens,
                      NEW v \in 1..Len(records), records[v].playerName = t.playerName
               PROVE  v <= t.of
    OBVIOUS
  <2>1. PICK p \in Players, w \in 1..Len(records) : Granting(p, w)
    BY OnlyGrantsIssue
  <2>2. t.of = w /\ t.playerName = p
    <3>1. t = PlayerJwt(p, w)
      BY <2>1 DEF Granting, IssuePlayerToken
    <3> QED  BY <3>1 DEF PlayerJwt
  <2>3. currentSessionByPlayer[p] = w /\ w # 0
    BY <2>1 DEF Granting, IInv, TypeOK
  <2> QED  BY <2>2, <2>3 DEF IInv, CurrentIsLatest
<1>2. IInv /\ [Next]_vars => [A]_vars
  BY <1>1
<1> QED  BY <1>2, Invariance, PTL DEF Spec, OnlyLatestGrants

-----------------------------------------------------------------------------
(* The abstract book.                                                      *)

\* How the line of a player is read off the Maps.
Lines == [p \in Players |-> LatestOf(p)]
Granted == {[playerName |-> t.playerName, id |-> t.of] : t \in tokens}

\* What is in a player's line, as a set of one record.
LEMMA LineOf ==
  ASSUME IInv, NEW p \in Players
  PROVE  LET v == currentSessionByPlayer[p] IN
         /\ Lines[p] = LatestOf(p)
         /\ v = 0 => Lines[p] = {}
         /\ v # 0 => /\ v \in 1..Len(records) /\ records[v].playerName = p
                     /\ \A r \in Lines[p] : r.id = v
<1>1. currentSessionByPlayer[p] \in 0..Len(records) /\ Len(records) \in Nat
  BY DEF IInv, TypeOK
<1>2. Lines[p] = LatestOf(p)
  BY DEF Lines
<1> QED  BY <1>1, <1>2 DEF LatestOf, IInv, EntriesOwned

\* A player's line depends on one record only.
LEMMA LineKept ==
  ASSUME IInv, NEW p \in Players, UNCHANGED currentSessionByPlayer[p],
         currentSessionByPlayer[p] # 0 =>
           records'[currentSessionByPlayer[p]] = records[currentSessionByPlayer[p]]
  PROVE  Lines'[p] = Lines[p]
BY DEF Lines, LatestOf

\* A start begins a new line under a new id.
LEMMA StartRefines ==
  ASSUME IInv, NEW p \in Players, NEW mode \in {"tell", "manual"}, NEW code \in Codes,
         Starting(p, mode, code)
  PROVE  Book!Start(p)
<1> DEFINE n == Len(records) + 1
           line == [id |-> n, mode |-> mode, expiresAt |-> now + CodeTtlMs[mode],
                    stage |-> "open"]
<1>1. /\ n \in Verifications
      /\ records'[n] = [playerName |-> p, mode |-> mode, code |-> code,
                        status |-> "active", expiresAt |-> now + CodeTtlMs[mode]]
      /\ \A v \in 1..Len(records) : records'[v] = Superseded(p)[v]
      /\ currentSessionByPlayer' =
           [q \in Players |-> IF q = p THEN n ELSE currentSessionByPlayer[q]]
  BY StartEffect
<1>2. Len(records) \in Nat
  BY DEF IInv, TypeOK
<1>3. \A q \in Players : \A r \in Lines[q] : r.id < n
  BY <1>2, LineOf
<1>4. Lines'[p] = {line}
  <2>1. currentSessionByPlayer'[p] = n /\ n # 0
    BY <1>1, <1>2
  <2>2. records'[n].mode = mode /\ records'[n].expiresAt = now + CodeTtlMs[mode]
        /\ records'[n].status = "active"
    BY <1>1
  <2> QED  BY <2>1, <2>2 DEF Lines, LatestOf
<1>5. ASSUME NEW q \in Players \ {p}  PROVE Lines'[q] = Lines[q]
  <2>1. currentSessionByPlayer'[q] = currentSessionByPlayer[q]
    BY <1>1
  <2>2. ASSUME currentSessionByPlayer[q] # 0
        PROVE  records'[currentSessionByPlayer[q]] = records[currentSessionByPlayer[q]]
    <3>1. /\ currentSessionByPlayer[q] \in 1..Len(records)
          /\ records[currentSessionByPlayer[q]].playerName = q
      BY <2>2, LineOf
    <3>2. currentSessionByPlayer[q] # sessionByPlayerName[p]
      BY <2>2, <3>1 DEF IInv, EntriesOwned
    <3> QED  BY <1>1, <3>1, <3>2, SupersededRecords DEF IInv
  <2> QED  BY <2>1, <2>2, LineKept
<1>6. Lines' = [Lines EXCEPT ![p] = {line}]
  BY <1>4, <1>5 DEF Lines
<1>7. UNCHANGED <<now, Granted>>
  BY DEF Starting, Granted
<1> QED
  BY <1>1, <1>3, <1>6, <1>7 DEF Book!Start, Lines, Granted

\* A report in time marks the line of its player as seen; any other changes none.
LEMMA MatchRefines ==
  ASSUME IInv, NEW p \in Players, NEW code \in Codes, HandleManualGameMatched(p, code)
  PROVE  Book!See(p) \/ UNCHANGED <<now, Lines, Granted>>
<1> DEFINE v == sessionByPlayerName[p]
<1>1. UNCHANGED <<now, Granted>>
  BY DEF HandleManualGameMatched, Granted
<1>2. CASE UNCHANGED <<records, currentSessionByPlayer>>
  BY <1>1, <1>2 DEF Lines, LatestOf
<1>3. CASE /\ IsActiveSession(v) /\ records[v].mode = "manual" /\ records[v].code = code
           /\ ~IsExpired(v)
           /\ records' = MarkGameConfirmed(v)
           /\ currentSessionByPlayer' = [currentSessionByPlayer EXCEPT ![p] = v]
  <2>1. v \in 1..Len(records) /\ Len(records) \in Nat /\ now \in Nat
    BY <1>3 DEF IsActiveSession, IInv, TypeOK
  <2>2. /\ currentSessionByPlayer[p] = v /\ records[v].status = "active"
        /\ records[v].playerName = p
    BY <1>3, <2>1 DEF IsActiveSession, IInv, LookupsAgree, EntriesOwned
  <2>3. UNCHANGED currentSessionByPlayer
    BY <1>3, <2>2 DEF IInv, TypeOK
  <2>4. records' = Marked(v, "game_confirmed") /\ "game_confirmed" \in Status
    BY <1>3 DEF MarkGameConfirmed, Marked, Status
  <2>5. records[v].expiresAt \in Nat
    BY <2>1, RecordTypes DEF IInv
  <2> HIDE DEF v
  <2>6. /\ HistoryKept /\ records'[v].status = "game_confirmed"
        /\ \A w \in 1..Len(records) \ {v} : records'[w] = records[w]
    BY <2>1, <2>2, <2>4, MarkedHistory DEF IInv
  <2> DEFINE r == [id |-> v, mode |-> "manual", expiresAt |-> records[v].expiresAt,
                   stage |-> "open"]
             s == [id |-> v, mode |-> "manual", expiresAt |-> records[v].expiresAt,
                   stage |-> "seen"]
  <2>7. Lines[p] = {r}
    BY <1>3, <2>1, <2>2 DEF Lines, LatestOf
  <2>8. Lines'[p] = {s}
    <3>1. currentSessionByPlayer'[p] = v /\ v # 0
      BY <2>1, <2>2, <2>3
    <3>2. records'[v].mode = "manual" /\ records'[v].expiresAt = records[v].expiresAt
      BY <1>3, <2>1, <2>6 DEF HistoryKept
    <3> QED  BY <2>6, <3>1, <3>2 DEF Lines, LatestOf
  <2>9. ASSUME NEW q \in Players \ {p}  PROVE Lines'[q] = Lines[q]
    <3>1. ASSUME currentSessionByPlayer[q] # 0
          PROVE  records'[currentSessionByPlayer[q]] = records[currentSessionByPlayer[q]]
      BY <2>2, <2>6, <3>1, LineOf
    <3> QED  BY <2>3, <3>1, LineKept
  <2>10. Lines' = [Lines EXCEPT ![p] = {s}]
    BY <2>8, <2>9 DEF Lines
  <2>11. now <= r.expiresAt /\ s = [r EXCEPT !.stage = "seen"]
    BY <1>3, <2>1, <2>5 DEF IsExpired
  <2>12. r.mode = "manual" /\ r.stage = "open"
    OBVIOUS
  <2> HIDE DEF r, s
  <2> QED
    BY <1>1, <2>7, <2>10, <2>11, <2>12 DEF Book!See, Lines, Granted
<1> QED
  BY <1>2, <1>3 DEF HandleManualGameMatched

\* A grant closes its player's line.
LEMMA GrantRefines ==
  ASSUME IInv, NEW p \in Players, NEW v, Granting(p, v)
  PROVE  Book!Grant(p)
<1>1. /\ v \in 1..Len(records) /\ records[v].playerName = p
      /\ currentSessionByPlayer[p] = v /\ ~IsExpired(v)
      /\ records[v].status = IF records[v].mode = "tell" THEN "active" ELSE "game_confirmed"
      /\ UNCHANGED <<now, currentSessionByPlayer>>
  BY DEF Granting
<1>2. /\ Len(records) \in Nat /\ now \in Nat
      /\ records[v].mode \in {"tell", "manual"} /\ records[v].expiresAt \in Nat
  BY <1>1, RecordTypes DEF IInv, TypeOK
<1>3. /\ HistoryKept /\ records'[v].status = "verified"
      /\ \A w \in 1..Len(records) \ {v} : records'[w] = records[w]
  BY <1>1, MarkedHistory DEF IInv, Granting, Status
<1> DEFINE r == [id |-> v, mode |-> records[v].mode, expiresAt |-> records[v].expiresAt,
                 stage |-> IF records[v].mode = "tell" THEN "open" ELSE "seen"]
           s == [id |-> v, mode |-> records[v].mode, expiresAt |-> records[v].expiresAt,
                 stage |-> "closed"]
<1>4. Lines[p] = {r}
  <2>1. CASE records[v].mode = "tell"
    BY <1>1, <1>2, <2>1 DEF Lines, LatestOf
  <2>2. CASE records[v].mode = "manual"
    BY <1>1, <1>2, <2>2 DEF Lines, LatestOf
  <2> QED  BY <1>2, <2>1, <2>2
<1>5. Lines'[p] = {s}
  <2>1. currentSessionByPlayer'[p] = v /\ v # 0
    BY <1>1
  <2>2. records'[v].mode = records[v].mode /\ records'[v].expiresAt = records[v].expiresAt
    BY <1>1, <1>3 DEF HistoryKept
  <2> QED  BY <1>3, <2>1, <2>2 DEF Lines, LatestOf
<1>6. ASSUME NEW q \in Players \ {p}  PROVE Lines'[q] = Lines[q]
  <2>1. ASSUME currentSessionByPlayer[q] # 0
        PROVE  records'[currentSessionByPlayer[q]] = records[currentSessionByPlayer[q]]
    BY <1>1, <1>3, <2>1, LineOf
  <2> QED  BY <1>1, <2>1, LineKept
<1>7. Lines' = [Lines EXCEPT ![p] = {s}]
  BY <1>5, <1>6 DEF Lines
<1>8. now <= r.expiresAt /\ s = [r EXCEPT !.stage = "closed"]
  BY <1>1, <1>2 DEF IsExpired
<1>9. r.id = v /\ r.stage = IF r.mode = "tell" THEN "open" ELSE "seen"
  OBVIOUS
<1>10. Granted' = Granted \cup {[playerName |-> p, id |-> v]}
  <2>1. tokens' = tokens \cup {PlayerJwt(p, v)}
    BY DEF Granting, IssuePlayerToken
  <2>2. PlayerJwt(p, v).playerName = p /\ PlayerJwt(p, v).of = v
    BY DEF PlayerJwt
  <2> QED  BY <2>1, <2>2 DEF Granted
<1> HIDE DEF r, s
<1> QED
  BY <1>1, <1>4, <1>7, <1>8, <1>9, <1>10 DEF Book!Grant, Lines, Granted

\* Every step is a step of the book or leaves it alone.
LEMMA StepRefines == IInv /\ [Next]_vars => [Book!Next]_(Book!vars)
<1> SUFFICES ASSUME IInv, [Next]_vars PROVE Book!Next \/ UNCHANGED <<now, Lines, Granted>>
  BY DEF Book!vars, Lines, Granted
<1>1. ASSUME UNCHANGED <<records, currentSessionByPlayer, tokens>>
      PROVE  UNCHANGED <<Lines, Granted>>
  BY <1>1 DEF Lines, LatestOf, Granted
<1>2. CASE UNCHANGED vars
  BY <1>1, <1>2 DEF vars
<1>3. ASSUME NEW p \in Players, NEW mode \in {"tell", "manual"}, NEW code \in Codes,
             Starting(p, mode, code)
      PROVE  Book!Next
  BY <1>3, StartRefines DEF Book!Next
<1>4. ASSUME NEW p \in Players, NEW code \in Codes, HandleManualGameMatched(p, code)
      PROVE  Book!Next \/ UNCHANGED <<now, Lines, Granted>>
  BY <1>4, MatchRefines DEF Book!Next
<1>5. ASSUME NEW p \in Players, Granting(p, currentSessionByPlayer[p])
      PROVE  Book!Next
  BY <1>5, GrantRefines DEF Book!Next
<1>6. ASSUME NEW t \in tokens, ValidatePlayerToken(t)
      PROVE  UNCHANGED <<now, Lines, Granted>>
  BY <1>1, <1>6 DEF ValidatePlayerToken
<1>7. CASE Restart
  <2>1. Lines' = [p \in Players |-> {}]
    BY <1>7 DEF Restart, NoSessions, Lines, LatestOf
  <2>2. UNCHANGED <<now, Granted>>
    BY <1>7 DEF Restart, Granted
  <2>3. Book!Lose
    BY <2>1, <2>2 DEF Book!Lose, Lines, Granted
  <2> QED  BY <2>3 DEF Book!Next
<1>8. CASE /\ now' \in {now, now + 1}
           /\ UNCHANGED <<records, sessionByPlayerName, currentSessionByPlayer, tokens>>
  <2>1. now \in Nat
    BY DEF IInv, TypeOK
  <2>2. CASE now' = now
    BY <1>1, <1>8, <2>2
  <2>3. CASE now' = now + 1
    <3>1. Book!Pass
      BY <1>1, <1>8, <2>1, <2>3 DEF Book!Pass, Lines, Granted
    <3> QED  BY <3>1 DEF Book!Next
  <2> QED  BY <1>8, <2>2, <2>3
<1> QED
  BY <1>2, <1>3, <1>4, <1>5, <1>6, <1>7, <1>8, StepKinds

\* The service with its two Maps, shared records and lazy cleanup behaves like a book
\* with one line for each player.
THEOREM Refinement == Spec => ImplementsBook
<1>1. Init => Book!Init
  BY DEF Init, Book!Init, NoSessions, LatestOf
<1>2. IInv /\ [Next]_vars => [Book!Next]_(Book!vars)
  BY StepRefines
<1> QED  BY <1>1, <1>2, Invariance, PTL DEF Spec, Book!Spec, ImplementsBook
=============================================================================
