------------------------------ MODULE ChatQuota ------------------------------
(***************************************************************************)
(* The quota of calls to the language model that one user has: the start   *)
(* of ask_question in app/modules/chatbot/service.py, from await to await. *)
(* A request takes the time, counts the logged calls of the last minute    *)
(* and of the last day, and logs its own call under the time it took.      *)
(* Requests overlap, and nothing locks the log between count and insert.   *)
(***************************************************************************)
EXTENDS Integers, FiniteSets

CONSTANTS
    Requests,     \* bound: the requests the user makes, each once
    MaxInFlight,  \* requests between their start and the commit of their call
    Minute, Day,  \* the two windows, in ticks
    MinuteLimit,  \* calls in a minute: 1
    DayLimit,     \* calls in 24 hours: 10
    LastTick      \* bound: the clock stops here

ASSUME QuotaAssumption ==
    /\ IsFiniteSet(Requests)
    /\ MaxInFlight \in Nat \ {0}
    /\ Minute \in Nat /\ Day \in Nat
    /\ MinuteLimit \in Nat \ {0} /\ DayLimit \in Nat \ {0}
    /\ LastTick \in Nat

Ticks == 0 .. LastTick

VARIABLES
    clock,    \* datetime.utcnow()
    pc,       \* where each request is; "logged" is a chatbot_query_logs row
    now       \* the time a request took, which is created_at of its row

vars == <<clock, pc, now>>

InFlight == {q \in Requests : pc[q] \in {"asked", "minute", "day"}}

\* The rows a request counts: created_at >= from.
LoggedSince(from) == {q \in Requests : pc[q] = "logged" /\ now[q] >= from}

-----------------------------------------------------------------------------
(* ask_question *)

Move(q, to) == pc' = [pc EXCEPT ![q] = to] /\ UNCHANGED <<clock, now>>

Ask(q) ==
    /\ pc[q] = "new"
    /\ Cardinality(InFlight) < MaxInFlight
    /\ pc' = [pc EXCEPT ![q] = "asked"]
    /\ now' = [now EXCEPT ![q] = clock]
    /\ UNCHANGED clock

FaultyCountMinute(q) ==
    /\ pc[q] = "asked"
    /\ Move(q, IF Cardinality(LoggedSince(now[q] - Minute)) > MinuteLimit
               THEN "refused" ELSE "minute")

CountMinute(q) ==
    /\ pc[q] = "asked"
    /\ Move(q, IF Cardinality(LoggedSince(now[q] - Minute)) >= MinuteLimit
               THEN "refused" ELSE "minute")

CountDay(q) ==
    /\ pc[q] = "minute"
    /\ Move(q, IF Cardinality(LoggedSince(now[q] - Day)) >= DayLimit
               THEN "refused" ELSE "day")

\* The row is committed before the model is called.
LogCall(q) == pc[q] = "day" /\ Move(q, "logged")

\* An exception, a lost connection: no row.
Fail(q) == q \in InFlight /\ Move(q, "refused")

Tick == clock < LastTick /\ clock' = clock + 1 /\ UNCHANGED <<pc, now>>

Init ==
    /\ clock = 0
    /\ pc = [q \in Requests |-> "new"]
    /\ now = [q \in Requests |-> 0]

Next ==
    \/ \E q \in Requests :
          Ask(q) \/ CountMinute(q) \/ CountDay(q) \/ LogCall(q) \/ Fail(q)
    \/ Tick

Spec == Init /\ [][Next]_vars

-----------------------------------------------------------------------------
(* Properties *)

TypeOK ==
    /\ clock \in Ticks
    /\ pc \in [Requests -> {"new", "asked", "minute", "day", "logged", "refused"}]
    /\ now \in [Requests -> Ticks]

LoggedWithin(from, to) == {q \in LoggedSince(from) : now[q] <= to}

\* The documented quota (README.md: "1 call/min, 10 calls/24h"): no minute, and
\* no 24 hours, have more calls than the limit. The count and the row are two
\* steps, so requests that come one at a time keep it and overlapping ones do not.
QuotaKept ==
    \A t \in Ticks :
        /\ Cardinality(LoggedWithin(t, t + Minute)) <= MinuteLimit
        /\ Cardinality(LoggedWithin(t, t + Day)) <= DayLimit

\* How far overlapping requests exceed it: by no more calls than there are
\* further requests in flight, however many are made.
ExcessBounded ==
    \A t \in Ticks :
        /\ Cardinality(LoggedWithin(t, t + Minute)) <= MinuteLimit + (MaxInFlight - 1)
        /\ Cardinality(LoggedWithin(t, t + Day)) <= DayLimit + (MaxInFlight - 1)
=============================================================================
