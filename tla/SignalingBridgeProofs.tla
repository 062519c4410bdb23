------------------------ MODULE SignalingBridgeProofs ------------------------
(***************************************************************************)
(* Proofs about SignalingBridge, for every choice of token lifetimes and   *)
(* refresh times, and any number of players and challenges.                *)
(***************************************************************************)
EXTENDS SignalingBridge, TLAPS

\* The times a refresh may wait for are times.
LEMMA RefreshDelayType ==
  ASSUME NEW life \in Lifetimes
  PROVE  /\ life \in Nat /\ life >= 2
         /\ ComputeRefreshDelay(life) \in Nat
         /\ SetTimeout(ComputeRefreshDelay(life)) \in Nat
<1>1. life \in Nat /\ life >= 2
  BY LifetimesAssumption
<1>2. life \div AheadShare \in Nat
  BY <1>1, RefreshAssumption
<1> QED
  BY <1>1, <1>2, RefreshAssumption DEF ComputeRefreshDelay, SetTimeout, Higher, Lower

\* A token that lives long enough is replaced while it is good, wherever jsonwebtoken
\* rounds its expiry to.
LEMMA RefreshedInTime ==
  ASSUME NEW life \in Lifetimes, life > MIN_REFRESH_DELAY + 1
  PROVE  SetTimeout(ComputeRefreshDelay(life)) < life - 1
<1>1. life \in Nat /\ life >= 2
  BY LifetimesAssumption
<1>2. life \div AheadShare \in Nat
  BY <1>1, RefreshAssumption
<1>3. ComputeRefreshDelay(life) < life - 1
  BY <1>1, <1>2, RefreshAssumption DEF ComputeRefreshDelay, Higher, Lower
<1> QED
  BY <1>1, <1>3, RefreshAssumption, RefreshDelayType DEF SetTimeout

-----------------------------------------------------------------------------
\* The inductive invariant of the token: its timer runs out before it.
TokenInv ==
  /\ lifetime \in Lifetimes /\ tokenLeft \in Nat /\ timer \in Nat
  /\ LongEnough => timer < tokenLeft
  /\ NeverRejected

\* A fresh token and its timer are as the invariant says.
LEMMA RotateTokenInvariant ==
  ASSUME lifetime \in Lifetimes, RotateToken(lifetime)
  PROVE  /\ lifetime' = lifetime /\ tokenLeft' \in Nat /\ timer' \in Nat
         /\ LongEnough' => timer' < tokenLeft'
<1>1. lifetime \in Nat /\ lifetime >= 2 /\ timer' \in Nat
  BY RefreshDelayType DEF RotateToken
<1>2. lifetime' = lifetime /\ tokenLeft' \in {lifetime - 1, lifetime}
  BY DEF RotateToken, IssueBridgeJwt
<1>3. ASSUME LongEnough  PROVE timer' < lifetime - 1
  BY <1>3, RefreshedInTime DEF RotateToken, LongEnough
<1> QED  BY <1>1, <1>2, <1>3 DEF LongEnough

\* It holds at the start.
LEMMA TokenInit == Init => TokenInv
<1> SUFFICES ASSUME Init PROVE TokenInv  OBVIOUS
<1>1. lifetime \in Nat /\ lifetime >= 2 /\ timer \in Nat
  BY RefreshDelayType DEF Init
<1>2. ASSUME LongEnough  PROVE timer < lifetime - 1
  BY <1>2, RefreshedInTime DEF Init, LongEnough
<1> QED  BY <1>1, <1>2 DEF Init, IssueBridgeJwt, TokenInv, NeverRejected, LongEnough

\* Every step keeps it.
LEMMA TokenNext == TokenInv /\ [Next]_vars => TokenInv'
<1> SUFFICES ASSUME TokenInv, [Next]_vars PROVE TokenInv'  OBVIOUS
<1>0. ASSUME UNCHANGED <<clock, connected, answered, admitted>>  PROVE TokenInv'
  BY <1>0 DEF TokenInv, NeverRejected, LongEnough, clock
<1>1. ASSUME RotateToken(lifetime), ~connected', ~answered'  PROVE TokenInv'
  BY <1>1, RotateTokenInvariant DEF TokenInv, NeverRejected
<1>2. CASE Tick
  <2>1. /\ lifetime' = lifetime /\ UNCHANGED <<connected, answered, admitted>>
        /\ timer > 0 /\ timer' = timer - 1 /\ tokenLeft' = Higher(0, tokenLeft - 1)
    BY <1>2 DEF Tick, link
  <2>2. /\ timer' \in Nat /\ tokenLeft' \in Nat
        /\ timer < tokenLeft => timer' < tokenLeft'
    BY <2>1 DEF TokenInv, Higher
  <2>3. LongEnough' = LongEnough /\ NeverRejected' = NeverRejected
    BY <2>1 DEF LongEnough, NeverRejected
  <2> QED  BY <2>1, <2>2, <2>3 DEF TokenInv
<1>3. CASE Answer
  <2>1. /\ lifetime' = lifetime /\ tokenLeft' = tokenLeft /\ timer' = timer
        /\ admitted' = (tokenLeft > 0)
    BY <1>3 DEF Answer, Authorized, clock
  <2>2. LongEnough' = LongEnough
    BY <2>1 DEF LongEnough
  <2>3. LongEnough => tokenLeft > 0
    BY DEF TokenInv
  <2> QED  BY <2>1, <2>2, <2>3 DEF TokenInv, NeverRejected
<1>4. CASE Connect
  <2>1. answered /\ UNCHANGED <<lifetime, tokenLeft, timer, admitted>>
    BY <1>4 DEF Connect, clock
  <2>2. LongEnough' = LongEnough
    BY <2>1 DEF LongEnough
  <2> QED  BY <2>1, <2>2 DEF TokenInv, NeverRejected
<1>5. CASE Refresh \/ AuthRejected
  BY <1>5, <1>1 DEF Refresh, AuthRejected, ReconnectWithFreshToken, Leave
<1>6. CASE LoseConnection
  BY <1>6 DEF LoseConnection, Leave, clock, TokenInv, NeverRejected, LongEnough
<1>7. CASE RestartBridge
  BY <1>7, <1>1 DEF RestartBridge
<1>8. CASE RestartBackend
  BY <1>8 DEF RestartBackend, clock, TokenInv, NeverRejected, LongEnough
<1>9. CASE NoticeEnd \/ Deliver \/ \E report \in Reports : ReceiveReport(report)
  BY <1>9, <1>0 DEF NoticeEnd, Deliver, ReceiveReport, link
<1>10. ASSUME NEW p \in Players,
              StartManual(p) \/ StartTell(p) \/ ConfirmManual(p) \/ Expire(p)
                \/ \E message \in Challenges \cup {None} : Say(p, message)
       PROVE  TokenInv'
  BY <1>10, <1>0 DEF StartManual, StartTell, ConfirmManual, Expire, Say, link
<1>11. CASE UNCHANGED vars
  BY <1>11, <1>0 DEF vars, clock
<1> QED
  BY <1>2, <1>3, <1>4, <1>5, <1>6, <1>7, <1>8, <1>9, <1>10, <1>11 DEF Next

\* The backend rejects no bridge whose tokens live longer than the least refresh delay
\* and the rounding, whatever is lost or restarted: scheduleTokenRefresh is in time.
THEOREM NeverRejectedTheorem == Spec => []NeverRejected
<1>1. TokenInv => NeverRejected
  BY DEF TokenInv
<1> QED  BY <1>1, TokenInit, TokenNext, PTL DEF Spec

-----------------------------------------------------------------------------
\* The inductive invariant of the reports: those about the challenge of a session
\* come from its player's own words.
ReportsInv ==
  /\ ReportsGenuine
  /\ None \notin Challenges
  /\ \A p \in Players : session[p] \in Challenges \cup {None}
  /\ DOMAIN session = Players
  /\ up \cup late \subseteq Reports
  /\ \A report \in up \cup late :
       session[report.player] = report.challenge => report.player \in said

\* It holds at the start.
LEMMA ReportsInit == Init => ReportsInv
  BY NoneAssumption DEF Init, ReportsInv, ReportsGenuine

\* Every step keeps it.
LEMMA ReportsNext == ReportsInv /\ [Next]_vars => ReportsInv'
<1> SUFFICES ASSUME ReportsInv, [Next]_vars PROVE ReportsInv'  OBVIOUS
<1>0. ASSUME UNCHANGED <<session, confirmed, said>>, up' \cup late' \subseteq up \cup late
      PROVE  ReportsInv'
  BY <1>0 DEF ReportsInv, ReportsGenuine
<1>1. CASE Tick \/ Answer \/ Connect \/ LoseConnection \/ NoticeEnd \/ Deliver
           \/ RestartBridge
  BY <1>1, <1>0
     DEF Tick, Answer, Connect, LoseConnection, NoticeEnd, Deliver, RestartBridge, backend
<1>2. CASE Refresh \/ AuthRejected
  BY <1>2, <1>0 DEF Refresh, AuthRejected, ReconnectWithFreshToken, backend
<1>3. CASE RestartBackend
  BY <1>3 DEF RestartBackend, ReportsInv, ReportsGenuine, Reports
<1>4. ASSUME NEW report \in Reports, ReceiveReport(report)  PROVE ReportsInv'
  <2>1. /\ up' \cup late' \subseteq up \cup late /\ report \in up \cup late
        /\ HandleManualMatched(report)
    BY <1>4 DEF ReceiveReport
  <2>2. CASE UNCHANGED <<session, expired, confirmed, said>>
    BY <1>0, <2>1, <2>2
  <2>3. CASE /\ session[report.player] = report.challenge
             /\ confirmed' = confirmed \cup {report.player}
             /\ UNCHANGED <<session, said>>
    BY <2>1, <2>3 DEF ReportsInv, ReportsGenuine
  <2>4. CASE Replace(report.player, None)
    BY <2>1, <2>4 DEF Replace, ReportsInv, ReportsGenuine, Reports
  <2> QED  BY <2>1, <2>2, <2>3, <2>4 DEF HandleManualMatched
<1>5. ASSUME NEW p \in Players, StartManual(p)  PROVE ReportsInv'
  BY <1>5 DEF StartManual, Replace, Fresh, ReportsInv, ReportsGenuine, Reports
<1>6. ASSUME NEW p \in Players, StartTell(p) \/ ConfirmManual(p)  PROVE ReportsInv'
  BY <1>6 DEF StartTell, ConfirmManual, Replace, ReportsInv, ReportsGenuine, Reports
<1>7. ASSUME NEW p \in Players, Expire(p)  PROVE ReportsInv'
  BY <1>7, <1>0 DEF Expire
<1>8. ASSUME NEW p \in Players, NEW message \in Challenges \cup {None}, Say(p, message)
      PROVE  ReportsInv'
  BY <1>8 DEF Say, HandlePlayerMessage, Matches, ReportsInv, ReportsGenuine, Reports
<1>9. CASE UNCHANGED vars
  BY <1>9, <1>0 DEF vars
<1> QED
  BY <1>1, <1>2, <1>3, <1>4, <1>5, <1>6, <1>7, <1>8, <1>9 DEF Next

\* No session is confirmed whose challenge its player has not said since it began,
\* however many connections, restarts and earlier challenges its report outlived.
THEOREM ReportsGenuineTheorem == Spec => []ReportsGenuine
<1>1. ReportsInv => ReportsGenuine
  BY DEF ReportsInv
<1> QED  BY <1>1, ReportsInit, ReportsNext, PTL DEF Spec
-----------------------------------------------------------------------------
\* What the coordinator sends are messages.
LEMMA BroadcastType ==
  ASSUME TypeOK, NEW p \in Players, NEW messages \in Seq(Messages),
         Broadcast(p, messages)
  PROVE  down' \in Seq(Messages) /\ missed' \subseteq Players
<1>1. down \in Seq(Messages) /\ missed \subseteq Players
  BY DEF TypeOK
<1>2. down \o messages \in Seq(Messages)
  BY <1>1
<1>3. CASE admitted
  BY <1>1, <1>2, <1>3 DEF Broadcast
<1>4. CASE ~admitted
  BY <1>1, <1>4 DEF Broadcast
<1> QED  BY <1>3, <1>4

\* The bridge's messages name players.
LEMMA AddresseesType ==
  ASSUME NEW messages \in Seq(Messages)
  PROVE  Addressees(messages) \subseteq Players
<1> SUFFICES ASSUME NEW i \in 1..Len(messages)
             PROVE  messages[i].player \in Players
  BY DEF Addressees
<1>1. messages[i] \in Messages
  OBVIOUS
<1> QED  BY <1>1 DEF Messages

\* A session that is replaced leaves the backend's tables typed.
LEMMA ReplaceType ==
  ASSUME TypeOK, NEW p \in Players, NEW c \in Challenges \cup {None}, Replace(p, c)
  PROVE  /\ session' \in [Players -> Challenges \cup {None}]
         /\ expired' \subseteq Players /\ confirmed' \subseteq Players
         /\ said' \subseteq Players
BY DEF TypeOK, Replace

\* The variables have their types at the start.
LEMMA InitType == Init => TypeOK
<1> SUFFICES ASSUME Init PROVE TypeOK  OBVIOUS
<1>1. lifetime \in Lifetimes /\ timer \in Nat
  BY RefreshDelayType DEF Init
<1>2. tokenLeft \in Nat
  BY LifetimesAssumption DEF Init, IssueBridgeJwt
<1>3. down \in Seq(Messages)
  <2>1. <<>> \in Seq(Messages)
    OBVIOUS
  <2> QED  BY <2>1 DEF Init
<1> QED  BY <1>1, <1>2, <1>3 DEF Init, TypeOK

\* Every step of the link keeps them.
LEMMA LinkType ==
  ASSUME TypeOK,
         \/ Tick \/ Answer \/ Connect \/ Refresh \/ AuthRejected \/ LoseConnection \/ NoticeEnd
         \/ RestartBridge \/ RestartBackend
  PROVE  TypeOK'
<1>1. ASSUME RotateToken(lifetime)
      PROVE  lifetime' \in Lifetimes /\ tokenLeft' \in Nat /\ timer' \in Nat
  <2>1. timer' \in Nat
    BY <1>1, RefreshDelayType DEF RotateToken, TypeOK
  <2> QED
    BY <1>1, <2>1, LifetimesAssumption DEF RotateToken, IssueBridgeJwt, TypeOK
<1>2. Addressees(down) \subseteq Players /\ <<>> \in Seq(Messages)
  BY AddresseesType DEF TypeOK
<1>3. ASSUME Leave
      PROVE  /\ connected' \in BOOLEAN /\ answered' \in BOOLEAN
             /\ admitted' \in BOOLEAN /\ stale' \in BOOLEAN
             /\ down' \in Seq(Messages) /\ missed' \subseteq Players
  BY <1>2, <1>3 DEF Leave, TypeOK
<1>4. CASE Tick
  BY <1>4 DEF Tick, TypeOK, Higher, link, backend
<1>5. CASE Answer \/ Connect
  <2>1. admitted' \in BOOLEAN
    <3>1. Authorized \in BOOLEAN
      BY DEF Authorized
    <3>2. CASE Answer
      BY <3>1, <3>2 DEF Answer
    <3>3. CASE Connect
      BY <3>3 DEF Connect, TypeOK
    <3> QED  BY <1>5, <3>2, <3>3
  <2>2. connected' \in BOOLEAN /\ answered' \in BOOLEAN /\ up' \subseteq Reports
    BY <1>5 DEF Answer, Connect, TypeOK
  <2> QED  BY <1>5, <2>1, <2>2 DEF Answer, Connect, TypeOK, clock, backend
<1>6. CASE Refresh \/ AuthRejected
  <2>1. RotateToken(lifetime) /\ Leave
    BY <1>6 DEF Refresh, AuthRejected, ReconnectWithFreshToken
  <2>2. up' \cup late' \subseteq Reports
    BY <1>6 DEF Refresh, AuthRejected, ReconnectWithFreshToken, TypeOK
  <2>3. UNCHANGED <<watched, backend>>
    BY <1>6 DEF Refresh, AuthRejected, ReconnectWithFreshToken
  <2> QED  BY <1>1, <1>3, <2>1, <2>2, <2>3 DEF TypeOK, backend
<1>7. CASE LoseConnection
  BY <1>7, <1>3 DEF LoseConnection, TypeOK, clock, backend
<1>8. CASE NoticeEnd
  BY <1>8 DEF NoticeEnd, TypeOK, clock, backend
<1>9. CASE RestartBridge
  <2>1. /\ connected' \in BOOLEAN /\ answered' \in BOOLEAN
        /\ admitted' \in BOOLEAN /\ stale' \in BOOLEAN
        /\ missed' \subseteq Players
    BY <1>9, <1>2 DEF RestartBridge, TypeOK
  <2> QED  BY <1>9, <1>1, <2>1 DEF RestartBridge, TypeOK, backend
<1>10. CASE RestartBackend
  BY <1>2, <1>10 DEF RestartBackend, TypeOK, clock
<1> QED
  BY <1>4, <1>5, <1>6, <1>7, <1>8, <1>9, <1>10

\* So does every step of the watches.
LEMMA WatchType ==
  ASSUME TypeOK,
         \/ Deliver
         \/ \E report \in Reports : ReceiveReport(report)
         \/ \E p \in Players :
              \/ StartManual(p) \/ StartTell(p) \/ ConfirmManual(p) \/ Expire(p)
              \/ \E message \in Challenges \cup {None} : Say(p, message)
  PROVE  TypeOK'
<1>1. ASSUME NEW p \in Players, StopManualWatch(p)
      PROVE  down' \in Seq(Messages) /\ missed' \subseteq Players
  <2>1. <<Msg("stop", p, None)>> \in Seq(Messages)
    BY DEF Msg, Messages
  <2> QED  BY <1>1, <2>1, BroadcastType DEF StopManualWatch
<1>2. CASE Deliver
  <2>1. Head(down) \in Messages /\ Tail(down) \in Seq(Messages)
    BY <1>2 DEF Deliver, TypeOK
  <2>2. watched' \in [Players -> Challenges \cup {None}]
    BY <1>2, <2>1 DEF Deliver, StartWatch, StopWatch, Messages, TypeOK
  <2> QED  BY <1>2, <2>1, <2>2 DEF Deliver, TypeOK, clock, link, backend
<1>3. ASSUME NEW report \in Reports, ReceiveReport(report)  PROVE TypeOK'
  <2>1. report.player \in Players
    BY DEF Reports
  <2>2. /\ down' \in Seq(Messages) /\ missed' \subseteq Players
        /\ session' \in [Players -> Challenges \cup {None}]
        /\ expired' \subseteq Players /\ confirmed' \subseteq Players
        /\ said' \subseteq Players
    <3>1. CASE Replace(report.player, None) /\ StopManualWatch(report.player)
      BY <2>1, <3>1, <1>1, ReplaceType
    <3>2. CASE confirmed' = confirmed \cup {report.player}
               /\ UNCHANGED <<down, session, expired, missed, said>>
      BY <2>1, <3>2 DEF TypeOK
    <3>3. CASE UNCHANGED <<down, session, expired, confirmed, missed, said>>
      BY <3>3 DEF TypeOK
    <3> QED
      BY <1>3, <3>1, <3>2, <3>3 DEF ReceiveReport, HandleManualMatched
  <2>3. up' \cup late' \subseteq Reports
    BY <1>3 DEF ReceiveReport, TypeOK
  <2> QED  BY <1>3, <2>2, <2>3 DEF ReceiveReport, TypeOK, clock, link
<1>4. ASSUME NEW p \in Players, StartManual(p)  PROVE TypeOK'
  <2>1. PICK c \in Challenges : StartManualWatch(p, c) /\ Replace(p, c)
    BY <1>4 DEF StartManual
  <2>2. <<Msg("stop", p, None), Msg("start", p, c)>> \in Seq(Messages)
    BY DEF Msg, Messages
  <2>3. down' \in Seq(Messages) /\ missed' \subseteq Players
    BY <2>1, <2>2, BroadcastType DEF StartManualWatch
  <2> QED  BY <1>4, <2>1, <2>3, ReplaceType DEF StartManual, TypeOK, clock, link
<1>5. ASSUME NEW p \in Players, StartTell(p)  PROVE TypeOK'
  <2>1. Replace(p, None) /\ missed' \subseteq Players
    BY <1>5 DEF StartTell, TypeOK
  <2> QED  BY <1>5, <2>1, ReplaceType DEF StartTell, TypeOK, clock, link
<1>6. ASSUME NEW p \in Players, ConfirmManual(p)  PROVE TypeOK'
  <2>1. Replace(p, None) /\ StopManualWatch(p)
    BY <1>6 DEF ConfirmManual
  <2> QED  BY <1>6, <1>1, <2>1, ReplaceType DEF ConfirmManual, TypeOK, clock, link
<1>7. ASSUME NEW p \in Players, Expire(p)  PROVE TypeOK'
  BY <1>7 DEF Expire, TypeOK, clock, link
<1>8. ASSUME NEW p \in Players, NEW message \in Challenges \cup {None}, Say(p, message)
      PROVE  TypeOK'
  <2>1. watched[p] # None => [player |-> p, challenge |-> watched[p]] \in Reports
    BY DEF TypeOK, Reports
  <2>2. up' \subseteq Reports /\ said' \subseteq Players
    BY <1>8, <2>1 DEF Say, HandlePlayerMessage, Matches, TypeOK
  <2> QED  BY <1>8, <2>2 DEF Say, TypeOK, clock, link
<1> QED
  BY <1>2, <1>3, <1>4, <1>5, <1>6, <1>7, <1>8

\* The model's variables, the queue of watch messages and the reports among them, keep
\* their types through every loss and restart.
THEOREM TypeCorrect == Spec => []TypeOK
<1>1. TypeOK /\ [Next]_vars => TypeOK'
  <2> SUFFICES ASSUME TypeOK, [Next]_vars PROVE TypeOK'  OBVIOUS
  <2>1. CASE UNCHANGED vars
    BY <2>1 DEF vars, TypeOK
  <2> QED  BY <2>1, LinkType, WatchType DEF Next
<1> QED  BY <1>1, InitType, PTL DEF Spec

-----------------------------------------------------------------------------
\* What the bridge watches for after a message.
Outcome(msg) == IF msg.type = "start" THEN msg.challenge ELSE None

\* The inductive invariant of the watches.  WatchesFollow speaks of players with no
\* message on its way, and a message that arrives makes its player one of them; so it
\* takes what the last message on its way will do, and no connection.
Follows ==
  \A p \in Players \ missed :
    /\ p \notin Addressees(down) => watched[p] = session[p]
    /\ \A i \in 1..Len(down) :
         /\ down[i].player = p
         /\ \A j \in i+1..Len(down) : down[j].player # p
         => Outcome(down[i]) = session[p]

\* Steps that neither tell the bridge anything nor change what it was told about.
LEMMA SilentFollows ==
  ASSUME Follows, UNCHANGED <<down, watched, session, missed>>
  PROVE  Follows'
BY DEF Follows, Addressees

\* Nobody who was told is left out when the connection ends: his messages are his last.
LEMMA LeaveFollows ==
  ASSUME Follows, Leave, UNCHANGED <<watched, session>>
  PROVE  Follows'
<1>1. down' = <<>> /\ missed' = missed \cup Addressees(down)
  BY DEF Leave
<1>2. \A p \in Players \ missed' : watched'[p] = session'[p]
  BY <1>1 DEF Follows
<1>3. Len(down') = 0
  BY <1>1
<1> QED  BY <1>2, <1>3 DEF Follows

\* A player whose session changes while the coordinator broadcasts it is followed: the
\* last message is about the new session, or the bridge is known to have missed it.
LEMMA BroadcastFollows ==
  ASSUME TypeOK, Follows, NEW p \in Players, NEW c,
         NEW messages \in Seq(Messages), messages # <<>>,
         \A i \in 1..Len(messages) : messages[i].player = p,
         Outcome(messages[Len(messages)]) = c,
         Broadcast(p, messages),
         session' = [session EXCEPT ![p] = c], UNCHANGED watched
  PROVE  Follows'
<1> SUFFICES ASSUME NEW q \in Players \ missed'
             PROVE  /\ q \notin Addressees(down') => watched'[q] = session'[q]
                    /\ \A i \in 1..Len(down') :
                         /\ down'[i].player = q
                         /\ \A j \in i+1..Len(down') : down'[j].player # q
                         => Outcome(down'[i]) = session'[q]
  BY DEF Follows
<1>1. /\ down \in Seq(Messages) /\ Len(down) \in Nat /\ Len(messages) \in Nat \ {0}
      /\ session \in [Players -> Challenges \cup {None}]
  BY DEF TypeOK
<1>2. CASE q # p
  <2>1. q \notin missed /\ session'[q] = session[q]
    BY <1>1, <1>2 DEF Broadcast
  <2>2. CASE ~admitted
    BY <2>1, <2>2 DEF Broadcast, Follows, Addressees
  <2>3. CASE admitted
    <3>1. /\ down' = down \o messages
          /\ Len(down') = Len(down) + Len(messages)
          /\ \A i \in 1..Len(down) : down'[i] = down[i]
          /\ \A i \in Len(down)+1..Len(down') : down'[i] = messages[i - Len(down)]
      BY <1>1, <2>3 DEF Broadcast
    <3>2. \A i \in 1..Len(down') :
            down'[i].player = q => i \in 1..Len(down) /\ down[i].player = q
      <4> SUFFICES ASSUME NEW i \in 1..Len(down'), down'[i].player = q
                   PROVE  i \in 1..Len(down) /\ down[i].player = q
        OBVIOUS
      <4>1. i \in 1..Len(down)
        <5> SUFFICES ASSUME i \in Len(down)+1..Len(down') PROVE FALSE
          BY <1>1, <3>1
        <5>1. i - Len(down) \in 1..Len(messages)
          BY <1>1, <3>1
        <5> QED  BY <1>2, <3>1, <5>1
      <4> QED  BY <3>1, <4>1
    <3>3. \A i \in 1..Len(down) : i \in 1..Len(down') /\ down'[i] = down[i]
      BY <1>1, <3>1
    <3>4. q \notin Addressees(down') => q \notin Addressees(down)
      BY <3>3 DEF Addressees
    <3>5. ASSUME NEW i \in 1..Len(down'), down'[i].player = q,
                 \A j \in i+1..Len(down') : down'[j].player # q
          PROVE  Outcome(down'[i]) = session'[q]
      <4>1. i \in 1..Len(down) /\ down[i].player = q /\ down'[i] = down[i]
        BY <3>2, <3>3, <3>5
      <4>2. \A j \in i+1..Len(down) : down[j].player # q
        BY <1>1, <3>1, <3>3, <3>5
      <4> QED  BY <2>1, <4>1, <4>2 DEF Follows
    <3> QED  BY <2>1, <3>4, <3>5 DEF Follows
  <2> QED  BY <2>2, <2>3
<1>3. CASE q = p
  <2>1. admitted /\ session'[q] = c
    BY <1>1, <1>3 DEF Broadcast
  <2> DEFINE last == Len(down) + Len(messages)
  <2>2. /\ last \in 1..Len(down') /\ last = Len(down')
        /\ down'[last] = messages[Len(messages)]
    BY <1>1, <2>1 DEF Broadcast
  <2>3. down'[last].player = p /\ Outcome(down'[last]) = c
    BY <1>1, <2>2
  <2> HIDE DEF last
  <2>4. ASSUME NEW i \in 1..Len(down'), \A j \in i+1..Len(down') : down'[j].player # q
        PROVE  i = last
    BY <1>3, <2>2, <2>3, <2>4
  <2>5. q \in Addressees(down')
    BY <1>3, <2>2, <2>3 DEF Addressees
  <2> QED  BY <2>1, <2>3, <2>4, <2>5
<1> QED  BY <1>2, <1>3

\* The end of a session is broadcast as one message.
LEMMA StopFollows ==
  ASSUME TypeOK, Follows, NEW p \in Players, StopManualWatch(p),
         session' = [session EXCEPT ![p] = None], UNCHANGED watched
  PROVE  Follows'
<1> DEFINE messages == <<Msg("stop", p, None)>>
<1>1. messages \in Seq(Messages)
  BY DEF Msg, Messages
<1>2. /\ messages # <<>> /\ \A i \in 1..Len(messages) : messages[i].player = p
      /\ Outcome(messages[Len(messages)]) = None
  BY DEF Msg, Outcome
<1>3. Broadcast(p, messages)
  BY DEF StopManualWatch
<1> HIDE DEF messages
<1> QED  BY <1>1, <1>2, <1>3, BroadcastFollows

\* The bridge does what the first message says, which is the last of its player's or not.
LEMMA DeliverFollows ==
  ASSUME TypeOK, Follows, Deliver
  PROVE  Follows'
<1> DEFINE first == Head(down)
<1>1. /\ down \in Seq(Messages) /\ down # <<>> /\ Len(down) \in Nat \ {0}
      /\ first \in Messages /\ first = down[1]
      /\ down' = Tail(down) /\ Len(down') = Len(down) - 1
      /\ \A i \in 1..Len(down') : down'[i] = down[i + 1]
  BY DEF Deliver, TypeOK
<1>2. watched' = [watched EXCEPT ![first.player] = Outcome(first)]
  BY <1>1 DEF Deliver, StartWatch, StopWatch, Outcome, Messages
<1>3. watched \in [Players -> Challenges \cup {None}] /\ UNCHANGED <<session, missed>>
  BY DEF Deliver, TypeOK, backend
<1> HIDE DEF first
<1> SUFFICES ASSUME NEW p \in Players \ missed
             PROVE  /\ p \notin Addressees(down') => watched'[p] = session[p]
                    /\ \A i \in 1..Len(down') :
                         /\ down'[i].player = p
                         /\ \A j \in i+1..Len(down') : down'[j].player # p
                         => Outcome(down'[i]) = session[p]
  BY <1>3 DEF Follows
<1>4. ASSUME p \notin Addressees(down')  PROVE watched'[p] = session[p]
  <2>1. \A j \in 2..Len(down) : down[j].player # p
    <3> SUFFICES ASSUME NEW j \in 2..Len(down), down[j].player = p PROVE FALSE
      OBVIOUS
    <3>1. j - 1 \in 1..Len(down') /\ down'[j - 1] = down[j]
      BY <1>1
    <3> QED  BY <1>4, <3>1 DEF Addressees
  <2>2. CASE first.player = p
    <3>1. 1 \in 1..Len(down) /\ 1 + 1 = 2 /\ Outcome(down[1]) = session[p]
      BY <1>1, <2>1, <2>2 DEF Follows
    <3> QED  BY <1>1, <1>2, <1>3, <2>2, <3>1
  <2>3. CASE first.player # p
    <3>1. \A j \in 1..Len(down) : down[j].player # p
      BY <1>1, <2>1, <2>3
    <3>2. p \notin Addressees(down)
      BY <3>1 DEF Addressees
    <3> QED  BY <1>2, <1>3, <2>3, <3>2 DEF Follows
  <2> QED  BY <2>2, <2>3
<1>5. ASSUME NEW i \in 1..Len(down'), down'[i].player = p,
             \A j \in i+1..Len(down') : down'[j].player # p
      PROVE  Outcome(down'[i]) = session[p]
  <2>1. i + 1 \in 1..Len(down) /\ down'[i] = down[i + 1]
    BY <1>1
  <2>2. ASSUME NEW j \in (i+1)+1..Len(down)  PROVE down[j].player # p
    <3>1. j - 1 \in i+1..Len(down') /\ j - 1 \in 1..Len(down') /\ (j - 1) + 1 = j
      BY <1>1
    <3> QED  BY <1>1, <1>5, <3>1
  <2> QED  BY <1>5, <2>1, <2>2 DEF Follows
<1> QED  BY <1>4, <1>5

\* Every step keeps the invariant.
LEMMA FollowsNext == TypeOK /\ Follows /\ [Next]_vars => Follows'
<1> SUFFICES ASSUME TypeOK, Follows, [Next]_vars PROVE Follows'  OBVIOUS
<1>1. CASE Tick \/ Answer \/ Connect \/ NoticeEnd
  BY <1>1, SilentFollows DEF Tick, Answer, Connect, NoticeEnd, backend
<1>2. CASE Refresh \/ AuthRejected \/ LoseConnection
  BY <1>2, LeaveFollows
     DEF Refresh, AuthRejected, ReconnectWithFreshToken, LoseConnection, backend
<1>3. CASE RestartBridge
  <2>1. /\ down' = <<>> /\ watched' = [p \in Players |-> None] /\ session' = session
        /\ missed' = missed \cup Addressees(down) \cup {p \in Players : watched[p] # None}
    BY <1>3 DEF RestartBridge, backend
  <2>2. \A p \in Players \ missed' : watched[p] = session[p] /\ watched[p] = None
    BY <2>1 DEF Follows
  <2>3. \A p \in Players \ missed' : watched'[p] = session'[p]
    BY <2>1, <2>2
  <2>4. Len(down') = 0
    BY <2>1
  <2> QED  BY <2>3, <2>4 DEF Follows
<1>4. CASE RestartBackend
  BY <1>4 DEF RestartBackend, Follows
<1>5. CASE Deliver
  BY <1>5, DeliverFollows
<1>6. ASSUME NEW report \in Reports, ReceiveReport(report)  PROVE Follows'
  <2>1. report.player \in Players /\ UNCHANGED watched
    BY <1>6 DEF Reports, ReceiveReport
  <2>2. CASE UNCHANGED <<down, session, missed>>
    BY <2>1, <2>2, SilentFollows
  <2>3. CASE Replace(report.player, None) /\ StopManualWatch(report.player)
    BY <2>1, <2>3, StopFollows DEF Replace
  <2> QED  BY <1>6, <2>2, <2>3 DEF ReceiveReport, HandleManualMatched
<1>7. ASSUME NEW p \in Players, StartManual(p)  PROVE Follows'
  <2>1. PICK c \in Challenges : StartManualWatch(p, c) /\ Replace(p, c)
    BY <1>7 DEF StartManual
  <2> DEFINE messages == <<Msg("stop", p, None), Msg("start", p, c)>>
  <2>2. messages \in Seq(Messages)
    BY DEF Msg, Messages
  <2>3. /\ messages # <<>> /\ \A i \in 1..Len(messages) : messages[i].player = p
        /\ Outcome(messages[Len(messages)]) = c
    BY DEF Msg, Outcome
  <2>4. Broadcast(p, messages)
    BY <2>1 DEF StartManualWatch
  <2>5. session' = [session EXCEPT ![p] = c] /\ UNCHANGED watched
    BY <1>7, <2>1 DEF StartManual, Replace
  <2> HIDE DEF messages
  <2> QED  BY <2>2, <2>3, <2>4, <2>5, BroadcastFollows
<1>8. ASSUME NEW p \in Players, StartTell(p)  PROVE Follows'
  <2>1. /\ missed' = missed \cup {p} /\ UNCHANGED <<down, watched>>
        /\ session' = [session EXCEPT ![p] = None]
    BY <1>8 DEF StartTell, Replace
  <2>2. \A q \in Players \ missed' : q \in Players \ missed /\ session'[q] = session[q]
    BY <2>1 DEF TypeOK
  <2> QED  BY <2>1, <2>2 DEF Follows, Addressees
<1>9. ASSUME NEW p \in Players, ConfirmManual(p)  PROVE Follows'
  BY <1>9, StopFollows DEF ConfirmManual, Replace
<1>10. ASSUME NEW p \in Players,
              Expire(p) \/ \E message \in Challenges \cup {None} : Say(p, message)
       PROVE  Follows'
  BY <1>10, SilentFollows DEF Expire, Say
<1>11. CASE UNCHANGED vars
  BY <1>11, SilentFollows DEF vars, backend
<1> QED
  BY <1>1, <1>2, <1>3, <1>4, <1>5, <1>6, <1>7, <1>8, <1>9, <1>10, <1>11 DEF Next

\* The bridge watches for the session of every player it was last told of, and for
\* nobody else: only a lost message, a restart or an end nobody tells it of can leave
\* a watch behind, for any number of players, challenges and messages on their way.
THEOREM WatchesFollowTheorem == Spec => []WatchesFollow
<1>1. Init => Follows
  <2> SUFFICES ASSUME Init PROVE Follows  OBVIOUS
  <2>1. \A p \in Players : watched[p] = session[p]
    BY DEF Init
  <2>2. 1..Len(down) = {}
    BY DEF Init
  <2> QED  BY <2>1, <2>2 DEF Follows
<1>2. Follows => WatchesFollow
  BY DEF Follows, WatchesFollow
<1> QED  BY <1>1, <1>2, FollowsNext, TypeCorrect, PTL DEF Spec
=============================================================================
