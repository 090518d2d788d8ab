---------------------------- MODULE CheckInSessions ----------------------------
(***************************************************************************)
(* Check-ins of one user for one active daily goal, taken apart at their   *)
(* awaits. Every request has a database session of its own (READ           *)
(* COMMITTED); between two awaits of one, the event loop runs others. The  *)
(* daily reconciliation job is a further process.                          *)
(*                                                                         *)
(* add_reflection reads the progress event and the streak row early and    *)
(* writes them back at the commit, after the call to the embedding         *)
(* service. The ORM writes only the columns whose value it changed. Rows   *)
(* written before the commit are locked until the session ends.            *)
(***************************************************************************)
EXTENDS Streaks, FiniteSets

CONSTANTS
    Sessions,       \* request handlers
    Reflections,    \* bound: the identifiers new reflections draw from, each
                    \* once; an event row is named by the reflection it was
                    \* inserted with
    None,           \* no row, no reflection
    MaxInFlight     \* bound: transactions in progress at a time

ASSUME SessionAssumption ==
    /\ None \notin Reflections
    /\ MaxInFlight \in Nat \ {0}

VARIABLES
    today,       \* date.today() of the server
    reflection,  \* committed reflections: id -> [date, said]; Unused, or Gone
                 \* when it is not committed, rolled back or deleted
    event,       \* committed goal_progress_events: id -> [date, done, by], or Gone
    hasStreak,   \* whether the goal_streaks row exists (only the goal's
                 \* creator gets one with the goal)
    streak,      \* committed goal_streaks row
    everDone,    \* history: dates a completion was recorded for
    session,     \* what each request handler has read and not yet committed
    job,         \* the streak row the reconciliation job has read, or Idle
    solo         \* history: no two transactions were ever in progress together

tables == <<today, reflection, event, hasStreak, streak, everDone, session, job>>
vars   == <<tables, solo>>

Gone   == [date |-> NoDate]
Unused == [date |-> NoDate - 1]
Idle   == [pc |-> "idle"]

Stored(r) == reflection[r] \notin {Gone, Unused}

\* rid, date, done: the request. seen: the event row found, None for none;
\* wasDone: its completed column then. read, fresh: the streak row as read and
\* whether the session inserted it.
Begun(r, d, b) ==
    [pc |-> "begun", rid |-> r, date |-> d, done |-> b,
     seen |-> None, wasDone |-> FALSE, read |-> NewStreak, fresh |-> FALSE]

Busy(p)  == session[p] # Idle
InFlight == Cardinality({p \in Sessions : Busy(p)}) + IF job = Idle THEN 0 ELSE 1

RowsOf(d) == {x \in Reflections : event[x].date = d}

FaultyLocksEvent(p, x) ==
    Busy(p) /\ session[p].pc \in {"found", "streak", "ready"} /\ session[p].seen = x

\* An update is flushed by the query for the streak, an insert of a streak row
\* by the flush after it: from then on others wait for the row.
LocksEvent(p, x) == Busy(p) /\ session[p].pc \in {"streak", "ready"} /\ session[p].seen = x
InsertsStreak(p) == session[p].pc = "ready" /\ session[p].fresh

LockedEvent(x)   == x # None /\ \E p \in Sessions : LocksEvent(p, x)

-----------------------------------------------------------------------------
(* add_reflection *)

\* Up to the flush of the new reflection, under an identifier of its own.
Begin(p, r, d, b) ==
    /\ ~Busy(p)
    /\ InFlight < MaxInFlight
    /\ reflection[r] = Unused
    /\ reflection' = [reflection EXCEPT ![r] = Gone]
    /\ session' = [session EXCEPT ![p] = Begun(r, d, b)]
    /\ UNCHANGED <<today, event, hasStreak, streak, everDone, job>>

\* select(GoalProgressEvent): several rows raise MultipleResultsFound and end
\* the request; a completed one skips the goal.
FindEvent(p) ==
    /\ session[p].pc = "begun"
    /\ LET rows == RowsOf(session[p].date)
       IN  \/ /\ Cardinality(rows) > 1
              /\ session' = [session EXCEPT ![p] = Idle]
           \/ /\ rows = {}
              /\ session' = [session EXCEPT ![p].pc = "found"]
           \/ \E x \in rows :
                 /\ rows = {x}
                 /\ session' =
                      [session EXCEPT ![p] =
                          [@ EXCEPT !.seen = x, !.wasDone = event[x].done,
                                    !.pc = IF event[x].done THEN "skip" ELSE "found"]]
    /\ UNCHANGED <<today, reflection, event, hasStreak, streak, everDone, job>>

FaultyReadStreak(p) ==
    /\ session[p].pc = "found"
    /\ session' = [session EXCEPT ![p].pc = IF hasStreak THEN "ready" ELSE "streak",
                                  ![p].read = streak]
    /\ UNCHANGED <<today, reflection, event, hasStreak, streak, everDone, job>>

\* The query for the streak flushes the event first: the UPDATE of a row waits
\* for its lock and fails if the row is gone by then.
ReadStreak(p) ==
    /\ session[p].pc = "found"
    /\ \A q \in Sessions \ {p} :
          session[p].seen # None => ~LocksEvent(q, session[p].seen)
    /\ session' =
         [session EXCEPT ![p] =
            IF @.seen # None /\ event[@.seen] = Gone THEN Idle
            ELSE [@ EXCEPT !.pc = IF hasStreak THEN "ready" ELSE "streak", !.read = streak]]
    /\ UNCHANGED <<today, reflection, event, hasStreak, streak, everDone, job>>

\* No row was read: insert one. The unique constraint makes a second insert
\* wait for the first and fail if that one commits.
InsertStreak(p) ==
    /\ session[p].pc = "streak"
    /\ \A q \in Sessions \ {p} : ~InsertsStreak(q)
    /\ session' = [session EXCEPT ![p] =
                      IF hasStreak THEN Idle
                      ELSE [@ EXCEPT !.pc = "ready", !.fresh = TRUE]]
    /\ UNCHANGED <<today, reflection, event, hasStreak, streak, everDone, job>>

FaultyWritten(new, old, stored) == new

\* The columns a session sends: those whose new value differs from the one read.
Written(new, old, stored) == IF new = old THEN stored ELSE new

MergeStreak(new, old, stored) ==
    [cur     |-> Written(new.cur, old.cur, stored.cur),
     longest |-> Written(new.longest, old.longest, stored.longest),
     last    |-> Written(new.last, old.last, stored.last)]

\* After the embedding call: flush what is left, commit, release the locks.
Commit(p) ==
    LET s == session[p]
        id == IF s.seen = None THEN s.rid ELSE s.seen
        done == IF s.seen = None THEN s.done ELSE Written(s.done, s.wasDone, event[s.seen].done)
    IN  /\ s.pc = "ready"
        /\ reflection' = [reflection EXCEPT ![s.rid] = [date |-> s.date, said |-> {s.done}]]
        /\ event' = [event EXCEPT ![id] = [date |-> s.date, done |-> done, by |-> s.rid]]
        /\ hasStreak' = TRUE
        /\ streak' = MergeStreak(UpdateStreak("daily", s.read, s.date, s.done), s.read, streak)
        /\ everDone' = IF s.done THEN everDone \cup {s.date} ELSE everDone
        /\ session' = [session EXCEPT ![p] = Idle]
        /\ UNCHANGED <<today, job>>

FaultyCommitSkipped(p) ==
    LET s == session[p]
    IN  /\ s.pc = "skip"
        /\ reflection' = [reflection EXCEPT ![s.rid] = [date |-> s.date, said |-> {s.done}]]
        /\ session' = [session EXCEPT ![p] = Idle]
        /\ UNCHANGED <<today, event, hasStreak, streak, everDone, job>>

\* A skipped goal leaves only the reflection to commit.
CommitSkipped(p) ==
    LET s == session[p]
    IN  /\ s.pc = "skip"
        /\ reflection' = [reflection EXCEPT ![s.rid] = [date |-> s.date, said |-> {}]]
        /\ session' = [session EXCEPT ![p] = Idle]
        /\ UNCHANGED <<today, event, hasStreak, streak, everDone, job>>

\* An exception, a lost connection, a server restart: the session rolls back.
Abort(p) ==
    /\ Busy(p)
    /\ session' = [session EXCEPT ![p] = Idle]
    /\ UNCHANGED <<today, reflection, event, hasStreak, streak, everDone, job>>

-----------------------------------------------------------------------------
(* delete_reflection *)

FaultyDeleteReflection(r) ==
    /\ Stored(r)
    /\ InFlight < MaxInFlight
    /\ reflection' = [reflection EXCEPT ![r] = Gone]
    /\ UNCHANGED <<today, event, hasStreak, streak, everDone, session, job>>

FaultyCascade(r) ==
    /\ Stored(r)
    /\ InFlight < MaxInFlight
    /\ reflection' = [reflection EXCEPT ![r] = Gone]
    /\ event' = [x \in Reflections |->
                    IF event[x] # Gone /\ event[x].by = r THEN Gone ELSE event[x]]
    /\ hasStreak' = FALSE
    /\ UNCHANGED <<today, streak, everDone, session, job>>

\* The cascade to the events of the reflection waits for a locked one.
DeleteReflection(r) ==
    /\ Stored(r)
    /\ InFlight < MaxInFlight
    /\ \A x \in Reflections : event[x] # Gone /\ event[x].by = r => ~LockedEvent(x)
    /\ reflection' = [reflection EXCEPT ![r] = Gone]
    /\ event' = [x \in Reflections |->
                    IF event[x] # Gone /\ event[x].by = r THEN Gone ELSE event[x]]
    /\ UNCHANGED <<today, hasStreak, streak, everDone, session, job>>

-----------------------------------------------------------------------------
(* GoalStreakReconciliationServiceDaily *)

JobRead ==
    /\ job = Idle
    /\ InFlight < MaxInFlight
    /\ streak.last # NoDate /\ streak.last < today - 2 /\ streak.cur > 0
    /\ job' = [pc |-> "read", read |-> streak]
    /\ UNCHANGED <<today, reflection, event, hasStreak, streak, everDone, session>>

JobWrite ==
    /\ job # Idle
    /\ streak' = MergeStreak(Reset(job.read), job.read, streak)
    /\ job' = Idle
    /\ UNCHANGED <<today, reflection, event, hasStreak, everDone, session>>

NextDay ==
    /\ today < LastDay
    /\ today' = today + 1
    /\ UNCHANGED <<reflection, event, hasStreak, streak, everDone, session, job>>

-----------------------------------------------------------------------------

Init ==
    /\ today = 0
    /\ reflection = [r \in Reflections |-> Unused]
    /\ event = [r \in Reflections |-> Gone]
    /\ hasStreak \in BOOLEAN
    /\ streak = NewStreak
    /\ everDone = {}
    /\ session = [p \in Sessions |-> Idle]
    /\ job = Idle
    /\ solo = TRUE

Proceed(p) == FindEvent(p) \/ ReadStreak(p) \/ InsertStreak(p) \/ Commit(p) \/ CommitSkipped(p)

Step ==
    \/ \E p \in Sessions, r \in Reflections, d \in Days, b \in BOOLEAN : Begin(p, r, d, b)
    \/ \E p \in Sessions : Proceed(p) \/ Abort(p)
    \/ \E r \in Reflections : DeleteReflection(r)
    \/ JobRead \/ JobWrite \/ NextDay

Watch == solo' = (solo /\ InFlight' <= 1)

Next == Step /\ Watch

Spec == Init /\ [][Next]_vars

\* A request that can go on is served, and one that waits for a row gets it in
\* turn: PostgreSQL queues the waiters of a lock. Nothing makes clients begin.
FairSpec == Spec /\ \A p \in Sessions : SF_vars(Proceed(p) /\ Watch)

-----------------------------------------------------------------------------
(* Properties *)

\* Rows and sessions have the columns and fields they should have.
TypeOK ==
    /\ today \in Days
    /\ \A r \in Reflections :
          /\ Stored(r) =>
                reflection[r] \in [date : Days, said : SUBSET BOOLEAN]
          /\ event[r] # Gone => event[r] \in [date : Days, done : BOOLEAN, by : Reflections]
    /\ hasStreak \in BOOLEAN /\ solo \in BOOLEAN
    /\ streak \in StreakRow
    /\ ~hasStreak => streak = NewStreak
    /\ everDone \subseteq Days
    /\ \A p \in Sessions : Busy(p) =>
          /\ session[p].pc \in {"begun", "found", "streak", "ready", "skip"}
          /\ session[p].rid \in Reflections /\ session[p].date \in Days
          /\ session[p].seen \in Reflections \cup {None}
          /\ session[p].read \in StreakRow

\* As long as no two transactions overlapped, the steps between the awaits add
\* up to what CheckIn does in one: every step is a step of it or changes none of
\* its rows.
EventOn(d) ==
    LET row == event[CHOOSE x \in RowsOf(d) : TRUE]
    IN  IF RowsOf(d) = {} THEN [mark |-> "none", by |-> None]
        ELSE [mark |-> IF row.done THEN "yes" ELSE "no", by |-> row.by]

ReflectionRow(r) ==
    IF ~Stored(r) THEN [owner |-> "nobody", date |-> NoDate, said |-> {}]
    ELSE [owner |-> "user", date |-> reflection[r].date, said |-> {"goal"} \X reflection[r].said]

Atomic == INSTANCE CheckIn WITH
    Goals <- {"goal"}, Users <- {"user"}, Movers <- {}, NoUser <- "nobody",
    NoReflection <- None, FreqValues <- {1}, CreateTypes <- {"daily"},
    PatchTypes <- {"unset"}, PatchStatuses <- {"unset"}, MaxRepeats <- 1,
    members <- {"user"}, status <- [g \in {"goal"} |-> "active"],
    ftype <- [g \in {"goal"} |-> "daily"], fvalue <- [g \in {"goal"} |-> 1],
    creator <- [g \in {"goal"} |-> "user"], everTypes <- [g \in {"goal"} |-> {"daily"}],
    event <- [g \in {"goal"} |-> [u \in {"user"} |-> [d \in Days |-> EventOn(d)]]],
    streak <- [g \in {"goal"} |-> [u \in {"user"} |-> streak]],
    everDone <- [g \in {"goal"} |-> [u \in {"user"} |-> everDone]],
    reflection <- [r \in Reflections |-> ReflectionRow(r)]

ImplementsCheckIn == [][solo' => [Atomic!Next]_(Atomic!vars)]_vars

\* A row is held by one session at a time: no two sessions have both flushed an
\* update of one event or both inserted the streak row, and a held event is
\* there, on the session's date, when the session commits over it.
LocksExclusive ==
    /\ \A p, q \in Sessions : p # q =>
          /\ \A x \in Reflections : ~(LocksEvent(p, x) /\ LocksEvent(q, x))
          /\ ~(InsertsStreak(p) /\ InsertsStreak(q))
    /\ \A p \in Sessions, x \in Reflections :
          LocksEvent(p, x) => event[x].date = session[p].date

\* Whatever overlaps, an event row is tied to a live reflection of its date.
EventTied ==
    \A x \in Reflections : event[x] # Gone =>
        Stored(event[x].by) /\ reflection[event[x].by].date = event[x].date

\* A committed completion outlives the check-ins that overlap it: one that read
\* the row before, and says the goal was not completed, leaves the column alone.
CompletionKept ==
    [][\A x \in Reflections :
          event[x] # Gone /\ event[x].done => event'[x] = Gone \/ event'[x].done]_vars

\* Every request ends: waiting for a row never becomes waiting for ever.
RequestsEnd == \A p \in Sessions : Busy(p) ~> ~Busy(p)

-----------------------------------------------------------------------------
(* What comments and documents say, and overlapping requests break *)

\* "upsert GoalProgressEvent": one event per goal, user and date.
AtMostOneEvent == \A d \in Days : Cardinality(RowsOf(d)) <= 1

\* The streak stays within the completions, as it does in CheckIn.
StreakEarned == streak.cur <= Cardinality({d \in everDone : d <= streak.last})
=============================================================================
