--------------------------- MODULE McGatewayProofs ---------------------------
(***************************************************************************)
(* Proofs about McGateway, for any number of connections and commands.     *)
(***************************************************************************)
EXTENDS McGateway, TLAPS

\* A connection that is served has been accepted and its close is still to come.
ServedIsConnected == mcSocket # None => conn[mcSocket] \in {"open", "closing"}

\* A success on its way to the gateway was earned in the game.
ResponsesAreTrue ==
  \A x \in Sockets : \A r \in fromGame[x] : r.success => r.command \in executed

\* The inductive invariant.
IInv ==
  /\ TypeOK
  /\ ServedIsConnected
  /\ ResponsesAreTrue
  /\ LatestServed
  /\ SuccessIsTrue
  /\ WaitersRemembered

\* The gateway starts with nothing pending and nobody connected.
LEMMA InitInvariant == Init => IInv
  BY NoneAssumption
  DEF Init, IInv, TypeOK, ServedIsConnected, ResponsesAreTrue, LatestServed,
      SuccessIsTrue, WaitersRemembered, Response

\* Accepting, replacing and losing connections keeps the invariant.
LEMMA ConnectionsInvariant ==
  ASSUME IInv, NEW x \in Sockets, GameConnects(x) \/ LinkCloses(x)
  PROVE  IInv'
<1> USE NoneAssumption DEF IInv
<1>1. CASE GameConnects(x)
  <2> USE <1>1 DEF GameConnects, net
  <2>1. TypeOK'  BY DEF TypeOK
  <2>2. ServedIsConnected'  BY DEF TypeOK, ServedIsConnected
  <2>3. ResponsesAreTrue'  BY DEF ResponsesAreTrue
  <2>4. LatestServed'  BY DEF LatestServed
  <2>5. SuccessIsTrue'  BY DEF SuccessIsTrue
  <2>6. WaitersRemembered'  BY DEF TypeOK, WaitersRemembered
  <2> QED  BY <2>1, <2>2, <2>3, <2>4, <2>5, <2>6
<1>2. CASE LinkCloses(x)
  <2> USE <1>2 DEF LinkCloses, net
  <2>1. TypeOK'  BY DEF TypeOK
  <2>2. ServedIsConnected'  BY DEF TypeOK, ServedIsConnected
  <2>3. ResponsesAreTrue'  BY DEF ResponsesAreTrue
  <2>4. LatestServed'  BY DEF TypeOK, LatestServed
  <2>5. SuccessIsTrue'  BY DEF SuccessIsTrue
  <2>6. WaitersRemembered'  BY DEF TypeOK, WaitersRemembered
  <2> QED  BY <2>1, <2>2, <2>3, <2>4, <2>5, <2>6
<1> QED  BY <1>1, <1>2

\* After resolveAllPendingCommands(false) nobody waits: whoever waited had a resolver.
LEMMA NobodyWaits ==
  ASSUME TypeOK, WaitersRemembered, FailAllPending
  PROVE  /\ \A c \in Commands : promise'[c] # "waiting"
         /\ promise' \in [Commands -> {"none", "waiting", "ok", "failed"}]
         /\ \A c \in Commands : promise'[c] = "ok" => promise[c] = "ok"
         /\ pendingCommandByRequestId' = {}
  BY DEF TypeOK, WaitersRemembered, FailAllPending

\* Closes, of the served connection or of a replaced one, and stop keep the invariant.
LEMMA ClosesInvariant ==
  ASSUME IInv, (\E x \in Sockets : HandleClose(x)) \/ Stop
  PROVE  IInv'
<1> USE NoneAssumption DEF IInv
<1>1. ASSUME NEW x \in Sockets, HandleClose(x)  PROVE IInv'
  <2> USE <1>1 DEF HandleClose
  <2>0. /\ \A c \in Commands : promise'[c] # "waiting"
        /\ promise' \in [Commands -> {"none", "waiting", "ok", "failed"}]
        /\ \A c \in Commands : promise'[c] = "ok" => promise[c] = "ok"
        /\ pendingCommandByRequestId' = {}
    BY NobodyWaits
  <2> HIDE DEF FailAllPending
  <2>1. TypeOK'  BY <2>0 DEF TypeOK
  <2>2. ServedIsConnected'  BY DEF TypeOK, ServedIsConnected
  <2>3. ResponsesAreTrue'  BY DEF TypeOK, ResponsesAreTrue
  <2>4. LatestServed'  BY DEF TypeOK, LatestServed
  <2>5. SuccessIsTrue'  BY <2>0 DEF SuccessIsTrue
  <2>6. WaitersRemembered'  BY <2>0 DEF WaitersRemembered
  <2> QED  BY <2>1, <2>2, <2>3, <2>4, <2>5, <2>6
<1>2. CASE Stop
  <2> USE <1>2 DEF Stop, net
  <2>0. /\ \A c \in Commands : promise'[c] # "waiting"
        /\ promise' \in [Commands -> {"none", "waiting", "ok", "failed"}]
        /\ \A c \in Commands : promise'[c] = "ok" => promise[c] = "ok"
        /\ pendingCommandByRequestId' = {}
    BY NobodyWaits
  <2>1. TypeOK'  BY <2>0 DEF TypeOK
  <2>2. ServedIsConnected'  BY DEF ServedIsConnected
  <2>3. ResponsesAreTrue'  BY DEF ResponsesAreTrue
  <2>4. LatestServed'  BY DEF LatestServed
  <2>5. SuccessIsTrue'  BY <2>0 DEF SuccessIsTrue
  <2>6. WaitersRemembered'  BY <2>0 DEF WaitersRemembered
  <2> QED  BY <2>1, <2>2, <2>3, <2>4, <2>5, <2>6
<1> QED  BY <1>1, <1>2

\* Sending a command, or failing to, keeps the invariant.
LEMMA SendInvariant ==
  ASSUME IInv, NEW c \in Commands, SendCommand(c) \/ SendCommandFails(c)
  PROVE  IInv'
<1> USE NoneAssumption DEF IInv
<1>1. CASE SendCommand(c)
  <2> USE <1>1 DEF SendCommand
  <2>1. TypeOK'  BY DEF TypeOK
  <2>2. ServedIsConnected'  BY DEF ServedIsConnected
  <2>3. ResponsesAreTrue'  BY DEF ResponsesAreTrue
  <2>4. LatestServed'  BY DEF LatestServed
  <2>5. SuccessIsTrue'  BY DEF TypeOK, SuccessIsTrue
  <2>6. WaitersRemembered'  BY DEF TypeOK, WaitersRemembered, ServedIsConnected
  <2> QED  BY <2>1, <2>2, <2>3, <2>4, <2>5, <2>6
<1>2. CASE SendCommandFails(c)
  <2> USE <1>2 DEF SendCommandFails, net
  <2>1. TypeOK'  BY DEF TypeOK
  <2>2. ServedIsConnected'  BY DEF ServedIsConnected
  <2>3. ResponsesAreTrue'  BY DEF ResponsesAreTrue
  <2>4. LatestServed'  BY DEF LatestServed
  <2>5. SuccessIsTrue'  BY DEF TypeOK, SuccessIsTrue
  <2>6. WaitersRemembered'  BY DEF TypeOK, WaitersRemembered
  <2> QED  BY <2>1, <2>2, <2>3, <2>4, <2>5, <2>6
<1> QED  BY <1>1, <1>2

\* The game's answers, and their arrival, keep the invariant.
LEMMA ResponseInvariant ==
  ASSUME IInv, NEW x \in Sockets,
         \/ \E c \in Commands, success \in BOOLEAN : GameAnswers(x, c, success)
         \/ \E response \in fromGame[x] : HandleCommandResponse(x, response)
  PROVE  IInv'
<1> USE NoneAssumption DEF IInv
<1>1. ASSUME NEW c \in Commands, NEW success \in BOOLEAN, GameAnswers(x, c, success)
      PROVE  IInv'
  <2> USE <1>1 DEF GameAnswers
  <2>1. TypeOK'  BY DEF TypeOK, Response
  <2>2. ServedIsConnected'  BY DEF ServedIsConnected
  <2>3. ResponsesAreTrue'  BY DEF TypeOK, ResponsesAreTrue
  <2>4. LatestServed'  BY DEF LatestServed
  <2>5. SuccessIsTrue'  BY DEF SuccessIsTrue
  <2>6. WaitersRemembered'  BY DEF WaitersRemembered
  <2> QED  BY <2>1, <2>2, <2>3, <2>4, <2>5, <2>6
<1>2. ASSUME NEW response \in fromGame[x], HandleCommandResponse(x, response)
      PROVE  IInv'
  <2> USE <1>2 DEF HandleCommandResponse
  <2>0. response.command \in Commands  BY DEF TypeOK, Response
  <2>1. TypeOK'  BY <2>0 DEF TypeOK
  <2>2. ServedIsConnected'  BY DEF ServedIsConnected
  <2>3. ResponsesAreTrue'  BY DEF TypeOK, ResponsesAreTrue
  <2>4. LatestServed'  BY DEF LatestServed
  <2>5. SuccessIsTrue'  BY <2>0 DEF TypeOK, SuccessIsTrue, ResponsesAreTrue
  <2>6. WaitersRemembered'  BY <2>0 DEF TypeOK, WaitersRemembered
  <2> QED  BY <2>1, <2>2, <2>3, <2>4, <2>5, <2>6
<1> QED  BY <1>1, <1>2

\* Every step keeps the invariant.
LEMMA NextInvariant == IInv /\ [Next]_vars => IInv'
<1> SUFFICES ASSUME IInv, [Next]_vars  PROVE IInv'
  OBVIOUS
<1>1. CASE Next
  BY <1>1, ConnectionsInvariant, ClosesInvariant, SendInvariant, ResponseInvariant DEF Next
<1>2. CASE UNCHANGED vars
  BY <1>2 DEF vars, IInv, TypeOK, ServedIsConnected, ResponsesAreTrue, LatestServed,
              SuccessIsTrue, WaitersRemembered
<1> QED  BY <1>1, <1>2

\* The invariant holds in every reachable state.
THEOREM Invariance == Spec => []IInv
  BY InitInvariant, NextInvariant, PTL DEF Spec

\* Every variable of the gateway keeps its type.
THEOREM TypeCorrect == Spec => []TypeOK
<1>1. IInv => TypeOK  BY DEF IInv
<1> QED  BY <1>1, Invariance, PTL

\* However many connections replace one another and however late the old ones close,
\* the last one to connect is served until its own close.
THEOREM NewestIsServed == Spec => []LatestServed
<1>1. IInv => LatestServed  BY DEF IInv
<1> QED  BY <1>1, Invariance, PTL

\* A promise that is resolved with true stands for a command the game has executed.
THEOREM SuccessesAreTrue == Spec => []SuccessIsTrue
<1>1. IInv => SuccessIsTrue  BY DEF IInv
<1> QED  BY <1>1, Invariance, PTL

\* However closes, replacements and responses interleave, a promise is resolved once
\* (property OneTrueAnswer): a close forgets the resolvers it calls, and a response
\* finds none but that of a caller who still waits.
THEOREM AnsweredOnce == Spec => OneTrueAnswer
<1> DEFINE Truly(c) ==
      promise'[c] # promise[c] =>
        /\ promise[c] \in {"none", "waiting"}
        /\ promise'[c] = "ok" => c \in executed
<1>1. IInv /\ [Next]_vars => [\A c \in Commands : Truly(c)]_vars
  <2> SUFFICES ASSUME IInv, Next, NEW c \in Commands, promise'[c] # promise[c]
               PROVE  /\ promise[c] \in {"none", "waiting"}
                      /\ promise'[c] = "ok" => c \in executed
    OBVIOUS
  <2>1. c \in pendingCommandByRequestId => promise[c] = "waiting"
    BY DEF IInv, WaitersRemembered
  <2>2. CASE FailAllPending
    BY <2>1, <2>2 DEF FailAllPending
  <2>3. ASSUME NEW d \in Commands, SendCommand(d) \/ SendCommandFails(d)
        PROVE  /\ promise[c] \in {"none", "waiting"}
               /\ promise'[c] = "ok" => c \in executed
    BY <2>3 DEF SendCommand, SendCommandFails, IInv, TypeOK
  <2>4. ASSUME NEW x \in Sockets, NEW response \in fromGame[x],
               HandleCommandResponse(x, response)
        PROVE  /\ promise[c] \in {"none", "waiting"}
               /\ promise'[c] = "ok" => c \in executed
    <3>1. response.success => response.command \in executed
      BY DEF IInv, ResponsesAreTrue
    <3>2. c = response.command /\ c \in pendingCommandByRequestId
      BY <2>4 DEF HandleCommandResponse, IInv, TypeOK
    <3> QED  BY <2>1, <2>4, <3>1, <3>2 DEF HandleCommandResponse, IInv, TypeOK
  <2>5. ASSUME UNCHANGED promise  PROVE FALSE
    BY <2>5
  <2> QED
    BY <2>2, <2>3, <2>4, <2>5
       DEF Next, GameConnects, LinkCloses, HandleClose, GameAnswers, Stop
<1> QED  BY <1>1, Invariance, PTL DEF Spec, OneTrueAnswer

\* The resolvers are those of the callers that wait, each on a connection whose close
\* will call it.
THEOREM NobodyIsForgotten == Spec => []WaitersRemembered
<1>1. IInv => WaitersRemembered  BY DEF IInv
<1> QED  BY <1>1, Invariance, PTL
=============================================================================
