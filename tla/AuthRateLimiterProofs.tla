------------------------ MODULE AuthRateLimiterProofs ------------------------
(***************************************************************************)
(* The limiter keeps its promise for every window length, every maximum    *)
(* and every number of callers.                                            *)
(*                                                                         *)
(* The limiter remembers only what was in the window at the last grant.    *)
(* That is enough because time does not run backwards: what has left the   *)
(* window never comes back (HistoryOK).  A grant at the present instant    *)
(* can only overfill a window that ends now or later, and such a window    *)
(* holds nothing the limiter has forgotten.                                *)
(***************************************************************************)
EXTENDS AuthRateLimiter, FiniteSetTheorems, WellFoundedInduction, TLAPS

USE LimiterAssumption

-----------------------------------------------------------------------------
(* The set of requests in the window.                                      *)

\* What is in the window is a finite part of what is remembered.
LEMMA ActiveType ==
  ASSUME TypeOK, HistoryOK, NEW k \in Identifiers
  PROVE  /\ Active(k) \subseteq requestsByIdentifier[k]
         /\ Active(k) \subseteq Request
         /\ IsFiniteSet(requestsByIdentifier[k])
         /\ IsFiniteSet(Active(k))
         /\ Cardinality(Active(k)) \in Nat
         /\ Cardinality(requestsByIdentifier[k]) \in Nat
         /\ Cardinality(Active(k)) <= Cardinality(requestsByIdentifier[k])
         /\ Cardinality(Active(k)) = Cardinality(requestsByIdentifier[k])
              => Active(k) = requestsByIdentifier[k]
<1>1. IsFiniteSet(requestsByIdentifier[k])
  BY FS_Subset DEF HistoryOK
<1>2. Active(k) \subseteq requestsByIdentifier[k]
  BY DEF Active
<1>3. IsFiniteSet(Active(k))
  BY <1>1, <1>2, FS_Subset
<1>4. Active(k) \subseteq Request
  BY <1>2 DEF TypeOK
<1>5. QED BY <1>1, <1>2, <1>3, <1>4, FS_Subset, FS_CardinalityType

\* A window that is not empty has an earliest request.
LEMMA OldestType ==
  ASSUME TypeOK, HistoryOK, NEW k \in Identifiers, Active(k) # {}
  PROVE  /\ Oldest(k) \in Active(k)
         /\ \A q \in Active(k) : Oldest(k).at <= q.at
<1> DEFINE T == {r.at : r \in Active(k)}
<1>1. T \subseteq Nat /\ T # {}
  BY ActiveType DEF Request
<1> DEFINE Less == {ss \in Nat \X Nat : ss[1] < ss[2]}
<1>0. IsWellFoundedOn(Less, Nat)
  BY NatLessThanWellFounded DEF OpToRel
<1> HIDE DEF T
<1>2. PICK a \in T : \A b \in T : <<b, a>> \notin Less
  <2> HIDE DEF Less
  <2>1. QED BY <1>0, <1>1, WFMin
<1>3. \A b \in T : a <= b
  <2>1. \A b, c \in Nat : b < c => <<b, c>> \in Less
    OBVIOUS
  <2> HIDE DEF Less
  <2>2. ASSUME NEW b \in T PROVE a <= b
    <3>1. a \in Nat /\ b \in Nat
      BY <1>1
    <3>2. ~ (b < a)
      BY <1>2, <2>1, <3>1
    <3>3. QED BY <3>1, <3>2
  <2>3. QED BY <2>2
<1> USE DEF T
<1>4. \E r \in Active(k) : \A q \in Active(k) : r.at <= q.at
  BY <1>3
<1>5. QED BY <1>4 DEF Oldest

-----------------------------------------------------------------------------
(* The inductive invariant.                                                *)

LEMMA InitInv == Init => IInv
<1> SUFFICES ASSUME Init PROVE IInv
  OBVIOUS
<1>1. TypeOK
  BY DEF Init, TypeOK
<1>2. HistoryOK
  BY FS_EmptySet DEF Init, HistoryOK
<1>3. RefusalOK
  BY FS_EmptySet DEF Init, RefusalOK
<1>4. ASSUME NEW k \in Identifiers, NEW a \in 0..MaxTime
      PROVE  Cardinality(GrantedIn(k, a)) <= MaxRequests
  <2>1. GrantedIn(k, a) = {}
    BY DEF Init, GrantedIn
  <2>2. QED BY <2>1, FS_EmptySet
<1>5. QED BY <1>1, <1>2, <1>3, <1>4 DEF IInv, WindowBound

\* Time passes: windows stay what they were, and the history is still enough.
LEMMA TickInv == IInv /\ Tick => IInv'
<1> SUFFICES ASSUME IInv, Tick PROVE IInv'
  OBVIOUS
<1>1. TypeOK'
  BY DEF IInv, TypeOK, Tick
<1>2. HistoryOK'
  BY DEF IInv, TypeOK, HistoryOK, Tick, Request
<1>3. RefusalOK'
  BY DEF IInv, RefusalOK, Tick
<1>4. WindowBound'
  BY DEF IInv, WindowBound, GrantedIn, Tick
<1>5. QED BY <1>1, <1>2, <1>3, <1>4 DEF IInv

\* A refusal finds the window full of everything that is remembered, so its
\* answer is the instant the first of these leaves.
LEMMA RefusedInv ==
  ASSUME IInv, NEW k \in Identifiers, CheckRefused(k)
  PROVE  IInv'
<1> USE DEF IInv
<1> DEFINE stored == requestsByIdentifier[k]
<1>1. Active(k) = stored /\ Cardinality(stored) = MaxRequests /\ Active(k) # {}
  <2>1. Cardinality(Active(k)) >= MaxRequests /\ Cardinality(stored) <= MaxRequests
    BY ActiveType DEF CheckRefused, Allows, RefusalOK
  <2>2. QED BY <2>1, ActiveType, FS_EmptySet
<1>2. /\ Oldest(k) \in stored
      /\ Oldest(k).at \in Nat
      /\ \A q \in stored : q.at \in Nat /\ Oldest(k).at <= q.at
  BY <1>1, OldestType, ActiveType DEF Request
<1>3. TypeOK'
  BY <1>2 DEF TypeOK, CheckRefused
<1>4. HistoryOK'
  BY DEF HistoryOK, CheckRefused
<1>5. RefusalOK'
  <2>1. requestsByIdentifier' = requestsByIdentifier
    BY DEF CheckRefused
  <2>2. ASSUME NEW j \in Identifiers, j # k PROVE resetAt'[j] = resetAt[j]
    BY <2>2 DEF CheckRefused, TypeOK
  <2>3. resetAt'[k] = Oldest(k).at + WindowMs
    BY DEF CheckRefused, TypeOK
  <2>4. \A r \in stored : r.at + WindowMs >= resetAt'[k]
    BY <1>2, <2>3
  <2>5. \E r \in stored : r.at + WindowMs = resetAt'[k]
    BY <1>2, <2>3
  <2>6. QED BY <1>1, <2>1, <2>2, <2>4, <2>5 DEF RefusalOK
<1>6. WindowBound'
  BY DEF WindowBound, GrantedIn, CheckRefused
<1>7. QED BY <1>3, <1>4, <1>5, <1>6

\* A grant: the window that ends now, or later, holds remembered requests only.
LEMMA AllowedInv ==
  ASSUME IInv, NEW k \in Identifiers, CheckAllowed(k)
  PROVE  IInv'
<1> USE DEF IInv
<1> DEFINE request == [at |-> now, n |-> Cardinality(granted[k])]
           stored  == Active(k) \cup {request}
<1>0. /\ requestsByIdentifier' = [requestsByIdentifier EXCEPT ![k] = stored]
      /\ granted' = [granted EXCEPT ![k] = @ \cup {request}]
      /\ resetAt' = [resetAt EXCEPT ![k] = 0]
      /\ now' = now
      /\ Cardinality(Active(k)) < MaxRequests
  BY DEF CheckAllowed, Allows
<1>1. request \in Request /\ request.at = now
  BY FS_CardinalityType DEF TypeOK, HistoryOK, Request
<1>2. /\ requestsByIdentifier'[k] = stored
      /\ granted'[k] = granted[k] \cup {request}
      /\ resetAt'[k] = 0
  BY <1>0 DEF TypeOK
<1>3. ASSUME NEW j \in Identifiers, j # k
      PROVE  /\ requestsByIdentifier'[j] = requestsByIdentifier[j]
             /\ granted'[j] = granted[j]
             /\ resetAt'[j] = resetAt[j]
  BY <1>0, <1>3 DEF TypeOK
<1> HIDE DEF request
<1>4. IsFiniteSet(stored) /\ Cardinality(stored) \in Nat
      /\ Cardinality(stored) <= MaxRequests
  <2>1. /\ IsFiniteSet(Active(k))
        /\ Cardinality(Active(k)) \in Nat
    BY ActiveType
  <2>2. /\ IsFiniteSet(stored)
        /\ Cardinality(stored) = IF request \in Active(k)
                                 THEN Cardinality(Active(k))
                                 ELSE Cardinality(Active(k)) + 1
    BY <2>1, FS_AddElement
  <2>3. QED BY <1>0, <2>1, <2>2
<1>5. TypeOK'
  <2>1. stored \subseteq Request
    BY <1>1, ActiveType
  <2>2. QED BY <1>0, <1>1, <2>1 DEF TypeOK
<1>6. HistoryOK'
  <2>1. IsFiniteSet(granted'[k])
    <3>1. IsFiniteSet(granted[k])
      BY DEF HistoryOK
    <3>2. IsFiniteSet(granted[k] \cup {request})
      BY <3>1, FS_AddElement
    <3>3. QED BY <3>2, <1>2
  <2>2. stored \subseteq granted'[k]
    BY <1>2 DEF HistoryOK, Active
  <2>3. ASSUME NEW r \in granted'[k]
        PROVE  r.at <= now /\ (r.at + WindowMs > now => r \in stored)
    <3>1. CASE r = request
      BY <3>1, <1>1 DEF TypeOK
    <3>2. CASE r \in granted[k]
      BY <3>2 DEF HistoryOK, Active
    <3>3. QED BY <1>2, <3>1, <3>2
  <2>4. QED BY <1>0, <1>2, <1>3, <2>1, <2>2, <2>3 DEF HistoryOK
<1>7. RefusalOK'
  BY <1>2, <1>3, <1>4 DEF RefusalOK
<1>8. WindowBound'
  <2> SUFFICES ASSUME NEW j \in Identifiers, NEW a \in 0..MaxTime
               PROVE  Cardinality(GrantedIn(j, a)') <= MaxRequests
    BY DEF WindowBound
  <2>1. CASE j # k \/ a < now
    <3>1. GrantedIn(j, a)' = GrantedIn(j, a)
      BY <2>1, <1>1, <1>2, <1>3 DEF GrantedIn, TypeOK
    <3>2. QED BY <3>1 DEF WindowBound
  <2>2. CASE j = k /\ a >= now
    <3>1. GrantedIn(k, a)' \in SUBSET stored
      <4> SUFFICES ASSUME NEW r \in GrantedIn(k, a)' PROVE r \in stored
        OBVIOUS
      <4>1. r \in granted'[k] /\ a < r.at + WindowMs
        BY DEF GrantedIn
      <4>2. CASE r \in granted[k]
        <5>1. r.at \in Nat /\ r.at + WindowMs > now
          BY <4>1, <4>2, <2>2 DEF TypeOK, Request
        <5>2. QED BY <4>2, <5>1 DEF HistoryOK, Active
      <4>3. QED BY <4>1, <4>2, <1>2
    <3>2. /\ Cardinality(GrantedIn(k, a)') <= Cardinality(stored)
          /\ Cardinality(GrantedIn(k, a)') \in Nat
      BY <3>1, <1>4, FS_Subset, FS_CardinalityType
    <3>3. QED BY <2>2, <3>2, <1>4
  <2>3. QED BY <2>1, <2>2 DEF TypeOK
<1>9. QED BY <1>5, <1>6, <1>7, <1>8

THEOREM Invariance == Spec => []IInv
<1>1. IInv /\ [Next]_vars => IInv'
  <2> SUFFICES ASSUME IInv, [Next]_vars PROVE IInv'
    OBVIOUS
  <2>1. CASE Tick
    BY <2>1, TickInv
  <2>2. ASSUME NEW k \in Identifiers, Check(k) PROVE IInv'
    BY <2>2, AllowedInv, RefusedInv DEF Check
  <2>3. CASE UNCHANGED vars
    BY <2>3 DEF vars, IInv, TypeOK, HistoryOK, RefusalOK, WindowBound, GrantedIn
  <2>4. QED BY <2>1, <2>2, <2>3 DEF Next
<1>2. QED BY InitInv, <1>1, PTL DEF Spec

-----------------------------------------------------------------------------
(* What the callers of the limiter rely on.                                *)

\* Every variable of the limiter keeps its type.
THEOREM TypeCorrect == Spec => []TypeOK
<1>1. IInv => TypeOK
  BY DEF IInv
<1>2. QED BY Invariance, <1>1, PTL

\* AuthRateLimiter.check never lets more than MaxRequests of one player through
\* in any WindowMs, for every window length and every maximum.
THEOREM WindowsBounded == Spec => []WindowBound
<1>1. IInv => WindowBound
  BY DEF IInv
<1>2. QED BY Invariance, <1>1, PTL

\* resetAt is exact: before it every request is refused, from it on the next one
\* is allowed.
THEOREM ResetIsExact == Spec => []ResetAtExact
<1>1. IInv => ResetAtExact
  <2> SUFFICES ASSUME IInv, NEW k \in Identifiers, resetAt[k] # 0
               PROVE  Allows(k) <=> now >= resetAt[k]
    BY DEF ResetAtExact
  <2> USE DEF IInv
  <2> DEFINE stored == requestsByIdentifier[k]
  <2>1. /\ Cardinality(stored) = MaxRequests
        /\ \A r \in stored : r.at + WindowMs >= resetAt[k]
        /\ \E r \in stored : r.at + WindowMs = resetAt[k]
    BY DEF RefusalOK
  <2>2. now \in Nat /\ resetAt[k] \in Nat /\ \A r \in stored : r.at \in Nat
    BY DEF TypeOK, Request
  <2>3. CASE now >= resetAt[k]
    <3>1. PICK r \in stored : r.at + WindowMs = resetAt[k]
      BY <2>1
    <3>2. r \notin Active(k)
      BY <2>2, <2>3, <3>1 DEF Active
    <3>3. Active(k) # stored
      BY <3>1, <3>2
    <3>4. QED BY <2>1, <2>3, <3>3, ActiveType DEF Allows
  <2>4. CASE now < resetAt[k]
    <3>1. Active(k) = stored
      BY <2>1, <2>2, <2>4 DEF Active
    <3>2. QED BY <2>1, <2>2, <2>4, <3>1, ActiveType DEF Allows
  <2>5. QED BY <2>2, <2>3, <2>4
<1>2. QED BY Invariance, <1>1, PTL
=============================================================================
