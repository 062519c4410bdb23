------------------------------ MODULE McGateway ------------------------------
(***************************************************************************)
(* The Minecraft side of mcwss, mcwss/src/mcGateway.ts: a WebSocket server *)
(* that serves one game connection at a time, sends it commands and        *)
(* resolves each caller's promise with the game's response.                *)
(*                                                                         *)
(* The ws library and the game are external, modelled by what the gateway  *)
(* relies on: a closing socket still delivers what arrives before its      *)
(* "close" event, sending on it loses the message without an error, every  *)
(* accepted socket has exactly one "close" event, and a command is         *)
(* answered once at most, on the connection it was sent on.                *)
(* Movement and chat events change nothing in the gateway, and are not     *)
(* modelled here.                                                          *)
(***************************************************************************)
EXTENDS FiniteSets

CONSTANTS
  Sockets,   \* game connections
  Commands,  \* calls of sendCommand, each with its own requestId
  None       \* null

ASSUME NoneAssumption == None \notin Sockets

VARIABLES
  listening,                  \* start() was called and stop() was not
  mcSocket,                   \* the connection that is served
  pendingCommandByRequestId,  \* the keys of the Map: commands with a resolver
  conn,                       \* ws's state of each connection
  promise,                    \* of each sendCommand, what its resolver was last told
  sentOn,                     \* the connection a command was sent on
  toGame,                     \* commands on their way, by connection
  fromGame,                   \* responses on their way, by connection
  executed,                   \* history: commands the game has executed
  latest                      \* history: the last connection that was accepted

vars == <<listening, mcSocket, pendingCommandByRequestId, conn, promise, sentOn,
          toGame, fromGame, executed, latest>>

net == <<toGame, fromGame, executed>>

Response == [command : Commands, success : BOOLEAN]

Init ==
  /\ listening = TRUE
  /\ mcSocket = None
  /\ pendingCommandByRequestId = {}
  /\ conn = [x \in Sockets |-> "new"]
  /\ promise = [c \in Commands |-> "none"]
  /\ sentOn = [c \in Commands |-> None]
  /\ toGame = [x \in Sockets |-> {}]
  /\ fromGame = [x \in Sockets |-> {}]
  /\ executed = {}
  /\ latest = None

-----------------------------------------------------------------------------
(* Connections.                                                            *)

\* wss.on("connection"): the newest connection is served, the one before it closed.
GameConnects(x) ==
  /\ listening
  /\ conn[x] = "new"
  /\ conn' = [y \in Sockets |-> IF y = x THEN "open"
                                ELSE IF y = mcSocket /\ conn[y] = "open" THEN "closing"
                                ELSE conn[y]]
  /\ mcSocket' = x
  /\ latest' = x
  /\ UNCHANGED <<listening, pendingCommandByRequestId, promise, sentOn, net>>

\* The game starts to close, or its link breaks: ws knows, the gateway does not yet.
LinkCloses(x) ==
  /\ conn[x] = "open"
  /\ conn' = [conn EXCEPT ![x] = "closing"]
  /\ UNCHANGED <<listening, mcSocket, pendingCommandByRequestId, promise, sentOn, net,
                 latest>>

\* Mutated: the Map keeps the resolvers it has called.
FailAllPending_KeepsResolvers ==
  /\ promise' = [c \in Commands |-> IF c \in pendingCommandByRequestId
                                    THEN "failed" ELSE promise[c]]
  /\ pendingCommandByRequestId' = pendingCommandByRequestId

\* resolveAllPendingCommands(false)
FailAllPending ==
  /\ promise' = [c \in Commands |-> IF c \in pendingCommandByRequestId
                                    THEN "failed" ELSE promise[c]]
  /\ pendingCommandByRequestId' = {}

\* Mutated: whichever connection closes, none is served any more.
HandleClose_ServesNone(x) ==
  /\ conn[x] = "closing"
  /\ conn' = [conn EXCEPT ![x] = "closed"]
  /\ mcSocket' = None
  /\ FailAllPending
  /\ toGame' = [toGame EXCEPT ![x] = {}]
  /\ fromGame' = [fromGame EXCEPT ![x] = {}]
  /\ UNCHANGED <<listening, sentOn, executed, latest>>

\* Mutated: only the close of the connection that is served fails commands.
HandleClose_ServedOnly(x) ==
  /\ conn[x] = "closing"
  /\ conn' = [conn EXCEPT ![x] = "closed"]
  /\ mcSocket' = IF mcSocket = x THEN None ELSE mcSocket
  /\ IF mcSocket = x THEN FailAllPending
     ELSE UNCHANGED <<promise, pendingCommandByRequestId>>
  /\ toGame' = [toGame EXCEPT ![x] = {}]
  /\ fromGame' = [fromGame EXCEPT ![x] = {}]
  /\ UNCHANGED <<listening, sentOn, executed, latest>>

\* socket.on("close"): every pending command fails, those another connection
\* carries too.
HandleClose(x) ==
  /\ conn[x] = "closing"
  /\ conn' = [conn EXCEPT ![x] = "closed"]
  /\ mcSocket' = IF mcSocket = x THEN None ELSE mcSocket
  /\ FailAllPending
  /\ toGame' = [toGame EXCEPT ![x] = {}]
  /\ fromGame' = [fromGame EXCEPT ![x] = {}]
  /\ UNCHANGED <<listening, sentOn, executed, latest>>

\* stop() closes the listener and leaves open connections alone.
Stop ==
  /\ listening
  /\ listening' = FALSE
  /\ mcSocket' = None
  /\ FailAllPending
  /\ UNCHANGED <<conn, sentOn, net, latest>>

-----------------------------------------------------------------------------
(* Commands.                                                               *)

\* Mutated: the socket is checked before the command is remembered.
SendCommand_ChecksOpen(c) ==
  /\ promise[c] = "none"
  /\ mcSocket # None
  /\ promise' = [promise EXCEPT ![c] = "waiting"]
  /\ pendingCommandByRequestId' =
       IF conn[mcSocket] = "open" THEN pendingCommandByRequestId \cup {c}
       ELSE pendingCommandByRequestId
  /\ sentOn' = [sentOn EXCEPT ![c] = mcSocket]
  /\ toGame' = IF conn[mcSocket] = "open"
               THEN [toGame EXCEPT ![mcSocket] = @ \cup {c}] ELSE toGame
  /\ UNCHANGED <<listening, mcSocket, conn, fromGame, executed, latest>>

SendCommand(c) ==
  /\ promise[c] = "none"
  /\ mcSocket # None
  /\ promise' = [promise EXCEPT ![c] = "waiting"]
  /\ pendingCommandByRequestId' = pendingCommandByRequestId \cup {c}
  /\ sentOn' = [sentOn EXCEPT ![c] = mcSocket]
  /\ toGame' = IF conn[mcSocket] = "open"
               THEN [toGame EXCEPT ![mcSocket] = @ \cup {c}] ELSE toGame
  /\ UNCHANGED <<listening, mcSocket, conn, fromGame, executed, latest>>

\* No connection, or send throws: the promise is resolved at once.
SendCommandFails(c) ==
  /\ promise[c] = "none"
  /\ promise' = [promise EXCEPT ![c] = "failed"]
  /\ UNCHANGED <<listening, mcSocket, pendingCommandByRequestId, conn, sentOn, net,
                 latest>>

\* The game executes a command, or refuses it, and answers if it still can.
GameAnswers(x, c, success) ==
  /\ c \in toGame[x]
  /\ toGame' = [toGame EXCEPT ![x] = @ \ {c}]
  /\ executed' = IF success THEN executed \cup {c} ELSE executed
  /\ fromGame' = [fromGame EXCEPT ![x] = @ \cup {[command |-> c, success |-> success]}]
  /\ UNCHANGED <<listening, mcSocket, pendingCommandByRequestId, conn, promise, sentOn,
                 latest>>

\* Mutated: a refused command rejects its promise.
HandleCommandResponse_Rejects(x, response) ==
  LET c == response.command
  IN  /\ response \in fromGame[x]
      /\ fromGame' = [fromGame EXCEPT ![x] = @ \ {response}]
      /\ pendingCommandByRequestId' = pendingCommandByRequestId \ {c}
      /\ promise' = IF c \in pendingCommandByRequestId
                    THEN [promise EXCEPT ![c] = IF response.success THEN "ok" ELSE "rejected"]
                    ELSE promise
      /\ UNCHANGED <<listening, mcSocket, conn, sentOn, toGame, executed, latest>>

\* tryHandleCommandResponse: a response nobody waits for any more is ignored.
HandleCommandResponse(x, response) ==
  LET c == response.command
  IN  /\ response \in fromGame[x]
      /\ fromGame' = [fromGame EXCEPT ![x] = @ \ {response}]
      /\ pendingCommandByRequestId' = pendingCommandByRequestId \ {c}
      /\ promise' = IF c \in pendingCommandByRequestId
                    THEN [promise EXCEPT ![c] = IF response.success THEN "ok" ELSE "failed"]
                    ELSE promise
      /\ UNCHANGED <<listening, mcSocket, conn, sentOn, toGame, executed, latest>>

-----------------------------------------------------------------------------
Next ==
  \/ \E x \in Sockets :
       \/ GameConnects(x)
       \/ LinkCloses(x)
       \/ HandleClose(x)
       \/ \E c \in Commands, success \in BOOLEAN : GameAnswers(x, c, success)
       \/ \E response \in fromGame[x] : HandleCommandResponse(x, response)
  \/ \E c \in Commands : SendCommand(c) \/ SendCommandFails(c)
  \/ Stop

Spec == Init /\ [][Next]_vars

\* ws ends a close handshake by itself after its timeout, and what the game sent on
\* a connection is read.
Fairness ==
  /\ \A x \in Sockets : WF_vars(HandleClose(x))
  /\ \A x \in Sockets :
       WF_vars(\E response \in fromGame[x] : HandleCommandResponse(x, response))

FairSpec == Spec /\ Fairness

-----------------------------------------------------------------------------
(* Properties.                                                             *)

\* Every variable keeps its type.
TypeOK ==
  /\ listening \in BOOLEAN
  /\ mcSocket \in Sockets \cup {None}
  /\ pendingCommandByRequestId \in SUBSET Commands
  /\ conn \in [Sockets -> {"new", "open", "closing", "closed"}]
  /\ promise \in [Commands -> {"none", "waiting", "ok", "failed"}]
  /\ sentOn \in [Commands -> Sockets \cup {None}]
  /\ toGame \in [Sockets -> SUBSET Commands]
  /\ fromGame \in [Sockets -> SUBSET Response]
  /\ executed \in SUBSET Commands
  /\ latest \in Sockets \cup {None}

\* The game that connected last is served until it goes itself: the late close of
\* the connection it replaced does not cut it off.
LatestServed ==
  listening /\ latest # None /\ conn[latest] # "closed" => mcSocket = latest

\* A caller that is told "sent" is told the truth: the game executed its command.
SuccessIsTrue == \A c \in Commands : promise[c] = "ok" => c \in executed

\* The resolvers that are kept are those of the callers that wait: no promise is
\* forgotten, and none that a close has failed is left for a late response to find.
\* Whoever waits does so on a connection whose close has not been handled.
WaitersRemembered ==
  /\ pendingCommandByRequestId = {c \in Commands : promise[c] = "waiting"}
  /\ \A c \in pendingCommandByRequestId :
       sentOn[c] # None /\ conn[sentOn[c]] \in {"open", "closing"}

\* Every resolver is called once, and truly: whatever is still on its way when a close,
\* of whichever connection, fails the command is ignored, and no response, on the
\* connection that is served or on one it replaced, reports a success the game did not
\* have.  (JavaScript would drop the second answer; the code never gives one.)
OneTrueAnswer ==
  [][\A c \in Commands :
       promise'[c] # promise[c] =>
         /\ promise[c] \in {"none", "waiting"}
         /\ promise'[c] = "ok" => c \in executed]_vars

\* The comment at mcGateway.ts:166: a connection that closes, whether it is still
\* the one that is served or not, leaves nobody waiting for ever.
ClosedLeaveNobodyWaiting ==
  \A c \in Commands :
    promise[c] = "waiting" /\ conn[sentOn[c]] # "open" ~> promise[c] # "waiting"
=============================================================================
