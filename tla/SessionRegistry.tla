--------------------------- MODULE SessionRegistry ---------------------------
(***************************************************************************)
(* What the signalling server promises about player names, and nothing     *)
(* about how: a name is held by at most one session, a session that gave   *)
(* its name up, by leaving or to a newer session, never holds one again.   *)
(***************************************************************************)
CONSTANTS Players, SessionIds, None

VARIABLES
  holder,   \* the session that holds each name, or None
  retired   \* sessions that held a name once and no longer do

regVars == <<holder, retired>>

Holding == {holder[p] : p \in Players} \ {None}

Init ==
  /\ holder = [p \in Players |-> None]
  /\ retired = {}

\* A free name is claimed by a session that never held one.
Claim(p, s) ==
  /\ holder[p] = None
  /\ s \notin Holding \cup retired
  /\ holder' = [holder EXCEPT ![p] = s]
  /\ UNCHANGED retired

\* A held name changes hands: the old session retires in the same step.
TakeOver(p, s) ==
  /\ holder[p] # None
  /\ s \notin Holding \cup retired
  /\ holder' = [holder EXCEPT ![p] = s]
  /\ retired' = retired \cup {holder[p]}

Leave(p) ==
  /\ holder[p] # None
  /\ holder' = [holder EXCEPT ![p] = None]
  /\ retired' = retired \cup {holder[p]}

\* A restart of the server: everybody leaves at once.
Clear ==
  /\ holder' = [p \in Players |-> None]
  /\ retired' = retired \cup Holding

Next ==
  \/ \E p \in Players :
       \/ Leave(p)
       \/ \E s \in SessionIds : Claim(p, s) \/ TakeOver(p, s)
  \/ Clear

Spec == Init /\ [][Next]_regVars
=============================================================================
