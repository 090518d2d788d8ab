--------------------------- MODULE ChatQuota_proofs ---------------------------
(***************************************************************************)
(* Proofs about ChatQuota, for any windows, limits and number of requests  *)
(* in flight: the quotas are exceeded by no more than one call for each    *)
(* further request, so requests that do not overlap keep them.             *)
(***************************************************************************)
EXTENDS ChatQuota, FiniteSetTheorems, TLAPS

\* The requests that have taken a place in a window: those that are past its
\* count. The last of them to pass still saw fewer rows than the limit, and all
\* others without a row were in flight beside it.
Placed(past, t, width) ==
    {q \in Requests : pc[q] \in past /\ t <= now[q] /\ now[q] <= t + width}

PastMinute == {"minute", "day", "logged"}
PastDay    == {"day", "logged"}

IInv ==
    /\ TypeOK
    /\ Cardinality(InFlight) <= MaxInFlight
    /\ \A t \in Ticks :
          /\ Cardinality(Placed(PastMinute, t, Minute)) <= MinuteLimit - 1 + MaxInFlight
          /\ Cardinality(Placed(PastDay, t, Day)) <= DayLimit - 1 + MaxInFlight

-----------------------------------------------------------------------------
(* Counting *)

LEMMA Smaller ==
    ASSUME NEW T \in SUBSET Requests, NEW S \in SUBSET T, NEW n \in Int,
           Cardinality(T) <= n
    PROVE  Cardinality(S) <= n
<1>1. IsFiniteSet(T)
  BY FS_Subset, QuotaAssumption
<1>2. Cardinality(S) <= Cardinality(T) /\ Cardinality(S) \in Nat /\ Cardinality(T) \in Nat
  BY <1>1, FS_Subset, FS_CardinalityType
<1> QED
  BY <1>2

LEMMA SumBound ==
    ASSUME NEW A \in SUBSET Requests, NEW B \in SUBSET Requests,
           NEW S \in SUBSET (A \cup B), NEW m \in Int, NEW n \in Int,
           Cardinality(A) <= m, Cardinality(B) <= n
    PROVE  Cardinality(S) <= m + n
<1>1. IsFiniteSet(A) /\ IsFiniteSet(B)
  BY FS_Subset, QuotaAssumption
<1>2. IsFiniteSet(A \cap B)
  BY <1>1, FS_Subset
<1>3. /\ Cardinality(A) \in Nat /\ Cardinality(B) \in Nat
      /\ Cardinality(A \cap B) \in Nat
  BY <1>1, <1>2, FS_CardinalityType
<1>4. Cardinality(A \cup B) = Cardinality(A) + Cardinality(B) - Cardinality(A \cap B)
  BY <1>1, FS_Union
<1>5. Cardinality(A \cup B) <= m + n
  BY <1>3, <1>4
<1> QED
  BY <1>5, Smaller

-----------------------------------------------------------------------------
(* The steps *)

\* A request that passes a count of fewer than limit rows, with the others in
\* flight beside it.
LEMMA PassCount ==
    ASSUME IInv, NEW q \in InFlight, NEW past, NEW width \in Nat, NEW limit \in Nat \ {0},
           past \in {PastMinute, PastDay},
           Cardinality(LoggedSince(now[q] - width)) < limit,
           NEW t \in Ticks, t <= now[q], now[q] <= t + width,
           NEW S \in SUBSET (Placed(past, t, width) \cup {q})
    PROVE  Cardinality(S) <= limit - 1 + MaxInFlight
<1>1. Placed(past, t, width) \cup {q} \subseteq LoggedSince(now[q] - width) \cup InFlight
  BY DEF Placed, LoggedSince, InFlight, PastMinute, PastDay, IInv, TypeOK, Ticks
<1>2. LoggedSince(now[q] - width) \in SUBSET Requests /\ InFlight \in SUBSET Requests
  BY DEF LoggedSince, InFlight
<1>3. Cardinality(LoggedSince(now[q] - width)) <= limit - 1
  <2>1. IsFiniteSet(LoggedSince(now[q] - width))
    BY <1>2, FS_Subset, QuotaAssumption
  <2>2. Cardinality(LoggedSince(now[q] - width)) \in Nat
    BY <2>1, FS_CardinalityType
  <2> QED BY <2>2
<1>4. S \in SUBSET (LoggedSince(now[q] - width) \cup InFlight)
  BY <1>1
<1>5. Cardinality(InFlight) <= MaxInFlight /\ MaxInFlight \in Int /\ limit - 1 \in Int
  BY QuotaAssumption DEF IInv
<1>6. Cardinality(S) <= (limit - 1) + MaxInFlight
  BY <1>2, <1>3, <1>4, <1>5, SumBound
<1> QED
  BY <1>6

LEMMA InitIInv == Init => IInv
<1> SUFFICES ASSUME Init PROVE IInv
  OBVIOUS
<1>1. InFlight = {}
  BY DEF Init, InFlight
<1>2. ASSUME NEW t \in Ticks
      PROVE  Placed(PastMinute, t, Minute) = {} /\ Placed(PastDay, t, Day) = {}
  BY DEF Init, Placed, PastMinute, PastDay
<1>3. TypeOK
  BY QuotaAssumption DEF Init, TypeOK, Ticks
<1> QED
  BY <1>1, <1>2, <1>3, FS_EmptySet, QuotaAssumption DEF IInv

\* A step that lets no request pass a count.
LEMMA NobodyPasses ==
    ASSUME IInv, TypeOK', InFlight' \subseteq InFlight,
           \A t \in Ticks :
               /\ Placed(PastMinute, t, Minute)' \subseteq Placed(PastMinute, t, Minute)
               /\ Placed(PastDay, t, Day)' \subseteq Placed(PastDay, t, Day)
    PROVE  IInv'
<1>1. Cardinality(InFlight)' <= MaxInFlight
  BY Smaller, QuotaAssumption DEF IInv, InFlight
<1>2. ASSUME NEW t \in Ticks
      PROVE  /\ Cardinality(Placed(PastMinute, t, Minute))' <= MinuteLimit - 1 + MaxInFlight
             /\ Cardinality(Placed(PastDay, t, Day))' <= DayLimit - 1 + MaxInFlight
  <2>1. Placed(PastMinute, t, Minute) \in SUBSET Requests /\ Placed(PastDay, t, Day) \in SUBSET Requests
    BY DEF Placed
  <2> QED BY <2>1, Smaller, QuotaAssumption DEF IInv
<1> QED
  BY <1>1, <1>2 DEF IInv

LEMMA AskIInv ==
    ASSUME IInv, NEW q \in Requests, Ask(q)
    PROVE  IInv'
<1>1. TypeOK'
  BY DEF IInv, TypeOK, Ask
<1>2. Cardinality(InFlight)' <= MaxInFlight
  <2>1. InFlight' = InFlight \cup {q} /\ q \notin InFlight
    BY DEF Ask, InFlight, IInv, TypeOK
  <2>2. IsFiniteSet(InFlight)
    BY FS_Subset, QuotaAssumption DEF InFlight
  <2>3. Cardinality(InFlight)' = Cardinality(InFlight) + 1 /\ Cardinality(InFlight) \in Nat
    BY <2>1, <2>2, FS_AddElement, FS_CardinalityType
  <2> QED BY <2>3, QuotaAssumption DEF Ask
<1>3. ASSUME NEW t \in Ticks
      PROVE  /\ Placed(PastMinute, t, Minute)' = Placed(PastMinute, t, Minute)
             /\ Placed(PastDay, t, Day)' = Placed(PastDay, t, Day)
  BY DEF Ask, Placed, PastMinute, PastDay, IInv, TypeOK
<1> QED
  BY <1>1, <1>2, <1>3 DEF IInv

LEMMA CountMinuteIInv ==
    ASSUME IInv, NEW q \in Requests, CountMinute(q)
    PROVE  IInv'
<1>1. TypeOK'
  BY DEF IInv, TypeOK, CountMinute, Move
<1>2. CASE Cardinality(LoggedSince(now[q] - Minute)) >= MinuteLimit
  <2>1. pc' = [pc EXCEPT ![q] = "refused"] /\ now' = now
    BY <1>2 DEF CountMinute, Move
  <2> QED BY <1>1, <2>1, NobodyPasses
          DEF Placed, PastMinute, PastDay, InFlight, IInv, TypeOK
<1>3. CASE ~(Cardinality(LoggedSince(now[q] - Minute)) >= MinuteLimit)
  <2>1. pc[q] = "asked" /\ pc' = [pc EXCEPT ![q] = "minute"] /\ now' = now
    BY <1>3 DEF CountMinute, Move
  <2>2. InFlight' = InFlight /\ q \in InFlight
    BY <2>1 DEF InFlight, IInv, TypeOK
  <2>3. Cardinality(LoggedSince(now[q] - Minute)) < MinuteLimit
    <3>1. IsFiniteSet(LoggedSince(now[q] - Minute))
      BY FS_Subset, QuotaAssumption DEF LoggedSince
    <3> QED BY <1>3, <3>1, FS_CardinalityType, QuotaAssumption
  <2>4. ASSUME NEW t \in Ticks
        PROVE  /\ Cardinality(Placed(PastMinute, t, Minute))' <= MinuteLimit - 1 + MaxInFlight
               /\ Placed(PastDay, t, Day)' = Placed(PastDay, t, Day)
    <3>1. Placed(PastDay, t, Day)' = Placed(PastDay, t, Day)
      BY <2>1 DEF Placed, PastDay, IInv, TypeOK
    <3>2. CASE t <= now[q] /\ now[q] <= t + Minute
      <4>1. Placed(PastMinute, t, Minute)' \subseteq Placed(PastMinute, t, Minute) \cup {q}
        BY <2>1 DEF Placed, PastMinute, IInv, TypeOK
      <4> QED BY <2>2, <2>3, <3>1, <3>2, <4>1, PassCount, QuotaAssumption
    <3>3. CASE ~(t <= now[q] /\ now[q] <= t + Minute)
      <4>1. Placed(PastMinute, t, Minute)' = Placed(PastMinute, t, Minute)
        BY <2>1, <3>3 DEF Placed, PastMinute, IInv, TypeOK
      <4> QED BY <3>1, <4>1 DEF IInv
    <3> QED BY <3>2, <3>3
  <2> QED BY <1>1, <2>2, <2>4 DEF IInv
<1> QED
  BY <1>2, <1>3

LEMMA CountDayIInv ==
    ASSUME IInv, NEW q \in Requests, CountDay(q)
    PROVE  IInv'
<1>1. TypeOK'
  BY DEF IInv, TypeOK, CountDay, Move
<1>2. CASE Cardinality(LoggedSince(now[q] - Day)) >= DayLimit
  <2>1. pc' = [pc EXCEPT ![q] = "refused"] /\ now' = now
    BY <1>2 DEF CountDay, Move
  <2> QED BY <1>1, <2>1, NobodyPasses
          DEF Placed, PastMinute, PastDay, InFlight, IInv, TypeOK
<1>3. CASE ~(Cardinality(LoggedSince(now[q] - Day)) >= DayLimit)
  <2>1. pc[q] = "minute" /\ pc' = [pc EXCEPT ![q] = "day"] /\ now' = now
    BY <1>3 DEF CountDay, Move
  <2>2. InFlight' = InFlight /\ q \in InFlight
    BY <2>1 DEF InFlight, IInv, TypeOK
  <2>3. Cardinality(LoggedSince(now[q] - Day)) < DayLimit
    <3>1. IsFiniteSet(LoggedSince(now[q] - Day))
      BY FS_Subset, QuotaAssumption DEF LoggedSince
    <3> QED BY <1>3, <3>1, FS_CardinalityType, QuotaAssumption
  <2>4. ASSUME NEW t \in Ticks
        PROVE  /\ Placed(PastMinute, t, Minute)' = Placed(PastMinute, t, Minute)
               /\ Cardinality(Placed(PastDay, t, Day))' <= DayLimit - 1 + MaxInFlight
    <3>1. Placed(PastMinute, t, Minute)' = Placed(PastMinute, t, Minute)
      BY <2>1 DEF Placed, PastMinute, IInv, TypeOK
    <3>2. CASE t <= now[q] /\ now[q] <= t + Day
      <4>1. Placed(PastDay, t, Day)' \subseteq Placed(PastDay, t, Day) \cup {q}
        BY <2>1 DEF Placed, PastDay, IInv, TypeOK
      <4> QED BY <2>2, <2>3, <3>1, <3>2, <4>1, PassCount, QuotaAssumption
    <3>3. CASE ~(t <= now[q] /\ now[q] <= t + Day)
      <4>1. Placed(PastDay, t, Day)' = Placed(PastDay, t, Day)
        BY <2>1, <3>3 DEF Placed, PastDay, IInv, TypeOK
      <4> QED BY <3>1, <4>1 DEF IInv
    <3> QED BY <3>2, <3>3
  <2> QED BY <1>1, <2>2, <2>4 DEF IInv
<1> QED
  BY <1>2, <1>3

LEMMA NextIInv == IInv /\ [Next]_vars => IInv'
<1> SUFFICES ASSUME IInv, [Next]_vars PROVE IInv'
  OBVIOUS
<1>1. ASSUME NEW q \in Requests, LogCall(q) PROVE IInv'
  <2>1. TypeOK'
    BY <1>1 DEF IInv, TypeOK, LogCall, Move
  <2>2. pc[q] = "day" /\ pc' = [pc EXCEPT ![q] = "logged"] /\ now' = now
    BY <1>1 DEF LogCall, Move
  <2> QED BY <2>1, <2>2, NobodyPasses
          DEF Placed, PastMinute, PastDay, InFlight, IInv, TypeOK
<1>2. ASSUME NEW q \in Requests, Fail(q) PROVE IInv'
  <2>1. TypeOK'
    BY <1>2 DEF IInv, TypeOK, Fail, Move
  <2>2. pc' = [pc EXCEPT ![q] = "refused"] /\ now' = now
    BY <1>2 DEF Fail, Move
  <2> QED BY <2>1, <2>2, NobodyPasses
          DEF Placed, PastMinute, PastDay, InFlight, IInv, TypeOK
<1>3. CASE Tick \/ UNCHANGED vars
  <2>1. TypeOK'
    BY <1>3, QuotaAssumption DEF IInv, TypeOK, Tick, vars, Ticks
  <2> QED BY <1>3, <2>1, NobodyPasses DEF Placed, InFlight, Tick, vars
<1> QED
  BY <1>1, <1>2, <1>3, AskIInv, CountMinuteIInv, CountDayIInv DEF Next

LEMMA Invariant == Spec => []IInv
BY InitIInv, NextIInv, PTL DEF Spec

-----------------------------------------------------------------------------

\* However many requests overlap, a minute and 24 hours have no more calls than
\* the limit and one for each further request in flight.
THEOREM ExcessIsBounded == Spec => []ExcessBounded
<1>1. ASSUME IInv, NEW t \in Ticks
      PROVE  /\ Cardinality(LoggedWithin(t, t + Minute)) <= MinuteLimit - 1 + MaxInFlight
             /\ Cardinality(LoggedWithin(t, t + Day)) <= DayLimit - 1 + MaxInFlight
  <2>1. /\ LoggedWithin(t, t + Minute) \subseteq Placed(PastMinute, t, Minute)
        /\ LoggedWithin(t, t + Day) \subseteq Placed(PastDay, t, Day)
    BY <1>1 DEF LoggedWithin, LoggedSince, Placed, PastMinute, PastDay, IInv, TypeOK, Ticks
  <2>2. /\ Placed(PastMinute, t, Minute) \in SUBSET Requests
        /\ Placed(PastDay, t, Day) \in SUBSET Requests
    BY DEF Placed
  <2> QED BY <1>1, <2>1, <2>2, Smaller, QuotaAssumption DEF IInv
<1>2. \A n \in Nat : n - 1 + MaxInFlight = n + (MaxInFlight - 1)
  BY QuotaAssumption
<1>3. IInv => ExcessBounded
  BY <1>1, <1>2, QuotaAssumption DEF ExcessBounded
<1> QED
  BY <1>3, Invariant, PTL

\* One request at a time keeps the documented quota.
THEOREM SerialQuotaKept ==
    ASSUME MaxInFlight = 1
    PROVE  Spec => []QuotaKept
<1>1. ExcessBounded => QuotaKept
  BY QuotaAssumption DEF ExcessBounded, QuotaKept
<1> QED
  BY <1>1, ExcessIsBounded, PTL
=============================================================================
