--------------------------- MODULE AuthRateLimiter ---------------------------
(***************************************************************************)
(* backend/src/domain/auth/AuthRateLimiter.ts: a sliding window of the     *)
(* requests that were allowed, per identifier.                             *)
(*                                                                         *)
(* A request is a record of the time it was allowed at and its number; the *)
(* number only keeps two requests of one millisecond apart.  The array of  *)
(* timestamps is a set: the code reads its length and its oldest element.  *)
(* Date.now() is taken not to run backwards.                               *)
(***************************************************************************)
EXTENDS Integers, FiniteSets

CONSTANTS
  Identifiers,   \* player names
  WindowMs,      \* rateLimitWindowMs
  MaxRequests,   \* rateLimitMax
  MaxTime        \* bound: the last instant of a behaviour

ASSUME LimiterAssumption ==
  /\ WindowMs \in Nat \ {0}
  /\ MaxRequests \in Nat \ {0}
  /\ MaxTime \in Nat

Request == [at : Nat, n : Nat]

VARIABLES
  now,                   \* Date.now()
  requestsByIdentifier,  \* the limiter's Map: requests still remembered
  granted,               \* history: every request that was allowed
  resetAt                \* the resetAt of the last refusal since the last grant, or 0

vars == <<now, requestsByIdentifier, granted, resetAt>>

Init ==
  /\ now = 0
  /\ requestsByIdentifier = [k \in Identifiers |-> {}]
  /\ granted = [k \in Identifiers |-> {}]
  /\ resetAt = [k \in Identifiers |-> 0]

\* Mutated: a request exactly one window old still counts.
Active_Inclusive(k) == {r \in requestsByIdentifier[k] : r.at + WindowMs >= now}

\* activeTimestamps: what is left of the history inside the window.
Active(k) == {r \in requestsByIdentifier[k] : r.at + WindowMs > now}

\* Mutated: one request too many is allowed.
Allows_OneMore(k) == Cardinality(Active(k)) <= MaxRequests

Allows(k) == Cardinality(Active(k)) < MaxRequests

\* The earliest of the requests in the window, the head of the array.
Oldest(k) == CHOOSE r \in Active(k) : \A q \in Active(k) : r.at <= q.at

CheckAllowed(k) ==
  LET request == [at |-> now, n |-> Cardinality(granted[k])]
  IN  /\ Allows(k)
      /\ requestsByIdentifier' =
           [requestsByIdentifier EXCEPT ![k] = Active(k) \cup {request}]
      /\ granted' = [granted EXCEPT ![k] = @ \cup {request}]
      /\ resetAt' = [resetAt EXCEPT ![k] = 0]
      /\ UNCHANGED now

\* Mutated: the end of the window is computed backwards.
CheckRefused_Backwards(k) ==
  /\ ~Allows(k)
  /\ resetAt' = [resetAt EXCEPT ![k] = Oldest(k).at - WindowMs]
  /\ UNCHANGED <<now, requestsByIdentifier, granted>>

\* A refusal returns without storing the filtered history.
CheckRefused(k) ==
  /\ ~Allows(k)
  /\ resetAt' = [resetAt EXCEPT ![k] = Oldest(k).at + WindowMs]
  /\ UNCHANGED <<now, requestsByIdentifier, granted>>

Check(k) == CheckAllowed(k) \/ CheckRefused(k)

Tick ==
  /\ now < MaxTime
  /\ now' = now + 1
  /\ UNCHANGED <<requestsByIdentifier, granted, resetAt>>

Next == Tick \/ \E k \in Identifiers : Check(k)

Spec == Init /\ [][Next]_vars

-----------------------------------------------------------------------------
TypeOK ==
  /\ now \in 0..MaxTime
  /\ requestsByIdentifier \in [Identifiers -> SUBSET Request]
  /\ granted \in [Identifiers -> SUBSET Request]
  /\ resetAt \in [Identifiers -> Nat]

\* Requests of k allowed in the window of WindowMs that ends with instant a.
GrantedIn(k, a) == {r \in granted[k] : a < r.at + WindowMs /\ r.at <= a}

\* No window of WindowMs, wherever it starts, holds more than MaxRequests allowed
\* requests of one identifier, although the limiter forgets most of the history.
WindowBound ==
  \A k \in Identifiers, a \in 0..MaxTime : Cardinality(GrantedIn(k, a)) <= MaxRequests

\* A refused caller is told exactly when to come back: refused before that
\* instant, allowed from then on.
ResetAtExact ==
  \A k \in Identifiers : resetAt[k] # 0 => (Allows(k) <=> now >= resetAt[k])

-----------------------------------------------------------------------------
(* The inductive invariant behind the theorems of AuthRateLimiterProofs.   *)

\* What the limiter still remembers is enough: it was granted, and nothing inside
\* the current window is forgotten.
HistoryOK ==
  \A k \in Identifiers :
    /\ IsFiniteSet(granted[k])
    /\ requestsByIdentifier[k] \subseteq granted[k]
    /\ \A r \in granted[k] : r.at <= now
    /\ \A r \in granted[k] : r.at + WindowMs > now => r \in requestsByIdentifier[k]

\* At most MaxRequests are remembered; after a refusal exactly that many, and
\* resetAt is the instant the first of them leaves the window.
RefusalOK ==
  \A k \in Identifiers :
    /\ Cardinality(requestsByIdentifier[k]) <= MaxRequests
    /\ resetAt[k] # 0 =>
         /\ Cardinality(requestsByIdentifier[k]) = MaxRequests
         /\ \A r \in requestsByIdentifier[k] : r.at + WindowMs >= resetAt[k]
         /\ \E r \in requestsByIdentifier[k] : r.at + WindowMs = resetAt[k]

IInv == TypeOK /\ HistoryOK /\ RefusalOK /\ WindowBound
=============================================================================
