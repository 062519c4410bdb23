-------------------------- MODULE VerificationBook --------------------------
(***************************************************************************)
(* What player verification promises: a book with one line per player, the *)
(* verification the player started last.  It is open, then (in manual      *)
(* mode) seen in the game, then closed; a token is granted as it closes,   *)
(* while it has not expired, and nothing else closes it but a newer one.   *)
(***************************************************************************)
EXTENDS Integers

CONSTANTS
  Players,    \* player names
  Ids,        \* verifications
  CodeTtlMs   \* how long a verification is good for, by mode

VARIABLES
  now,      \* the clock
  latest,   \* each player's line: the set of one verification, or the empty set
  granted   \* who got a token for which verification

vars == <<now, latest, granted>>

Init ==
  /\ now = 0
  /\ latest = [p \in Players |-> {}]
  /\ granted = {}

\* A new verification takes over the player's line.
Start(p) ==
  /\ \E id \in Ids, mode \in {"tell", "manual"} :
       /\ \A q \in Players : \A r \in latest[q] : r.id < id
       /\ latest' = [latest EXCEPT ![p] =
            {[id |-> id, mode |-> mode, expiresAt |-> now + CodeTtlMs[mode],
              stage |-> "open"]}]
  /\ UNCHANGED <<now, granted>>

\* The player typed the challenge in the game.
See(p) ==
  /\ \E r \in latest[p] :
       /\ r.mode = "manual" /\ r.stage = "open" /\ now <= r.expiresAt
       /\ latest' = [latest EXCEPT ![p] = {[r EXCEPT !.stage = "seen"]}]
  /\ UNCHANGED <<now, granted>>

\* The page gets its token.
Grant(p) ==
  /\ \E r \in latest[p] :
       /\ r.stage = IF r.mode = "tell" THEN "open" ELSE "seen"
       /\ now <= r.expiresAt
       /\ latest' = [latest EXCEPT ![p] = {[r EXCEPT !.stage = "closed"]}]
       /\ granted' = granted \cup {[playerName |-> p, id |-> r.id]}
  /\ UNCHANGED now

\* Time passes.
Pass ==
  /\ now' > now
  /\ UNCHANGED <<latest, granted>>

\* The book is lost; what was granted stays granted.
Lose ==
  /\ latest' = [p \in Players |-> {}]
  /\ UNCHANGED <<now, granted>>

Next == Pass \/ Lose \/ \E p \in Players : Start(p) \/ See(p) \/ Grant(p)

Spec == Init /\ [][Next]_vars
=============================================================================
