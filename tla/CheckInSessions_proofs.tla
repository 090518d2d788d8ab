------------------------ MODULE CheckInSessions_proofs ------------------------
(***************************************************************************)
(* Proofs about CheckInSessions, for any number of sessions, reflections   *)
(* and transactions in progress.                                           *)
(***************************************************************************)
EXTENDS CheckInSessions, Streaks_proofs

-----------------------------------------------------------------------------
(* The invariant *)

Stages == {"begun", "found", "streak", "ready", "skip"}

SessionRow == [pc : Stages, rid : Reflections, date : Days, done : BOOLEAN,
               seen : Reflections \cup {None}, wasDone : BOOLEAN, read : StreakRow,
               fresh : BOOLEAN]
StoredRow  == [date : Days, said : SUBSET BOOLEAN]
EventRow   == [date : Days, done : BOOLEAN, by : Reflections]
JobRow     == [pc : {"read"}, read : StreakRow]

Tables ==
    /\ today \in Days
    /\ reflection \in [Reflections -> {Gone, Unused} \cup StoredRow]
    /\ event \in [Reflections -> {Gone} \cup EventRow]
    /\ hasStreak \in BOOLEAN /\ solo \in BOOLEAN
    /\ streak \in StreakRow
    /\ everDone \subseteq Days
    /\ session \in [Sessions -> {Idle} \cup SessionRow]
    /\ job \in {Idle} \cup JobRow
    /\ ~hasStreak => streak = NewStreak /\ job = Idle

\* An event row is named by a reflection that was begun.
Named == \A x \in Reflections : event[x] # Gone => reflection[x] # Unused

\* A session's own reflection is in no table yet. The event row it has found
\* may be deleted, until the session holds it, but is no other row by then.
SessionOK(p) ==
    LET s == session[p]
    IN  s # Idle =>
            /\ reflection[s.rid] = Gone /\ event[s.rid] = Gone
            /\ s.seen # None =>
                  /\ reflection[s.seen] # Unused
                  /\ event[s.seen] # Gone => event[s.seen].date = s.date
                  /\ s.pc \in {"streak", "ready"} => event[s.seen] # Gone
            /\ s.pc # "skip" => ~s.wasDone
            /\ s.pc # "ready" => ~s.fresh

\* No two sessions have one reflection, or hold one row.
Apart(s, t) ==
    s # Idle /\ t # Idle =>
        /\ s.rid # t.rid /\ s.seen # t.rid /\ t.seen # s.rid
        /\ ~ (s.pc = "ready" /\ s.fresh /\ t.pc = "ready" /\ t.fresh)
        /\ s.seen # None /\ s.seen = t.seen =>
              ~ (s.pc \in {"streak", "ready"} /\ t.pc \in {"streak", "ready"})

Inv ==
    /\ Tables /\ EventTied /\ Named
    /\ \A p \in Sessions : SessionOK(p)
    /\ \A p, q \in Sessions : p # q => Apart(session[p], session[q])

-----------------------------------------------------------------------------
(* Rows *)

LEMMA Kinds ==
    /\ Gone # Unused /\ Gone \notin StoredRow /\ Unused \notin StoredRow
    /\ Gone \notin EventRow /\ Idle \notin SessionRow /\ Idle \notin JobRow
    /\ Gone.date = NoDate /\ NoDate \notin Days /\ Idle.pc = "idle"
<1>1. NoDate \in Int /\ NoDate - 1 # NoDate /\ NoDate \notin Days /\ NoDate - 1 \notin Days
  BY CalendarAssumption DEF NoDate, Days
<1>2. Gone.date = NoDate /\ Unused.date = NoDate - 1 /\ Idle.pc = "idle"
  BY DEF Gone, Unused, Idle
<1>3. /\ \A r \in StoredRow : r.date \in Days
      /\ \A r \in EventRow : r.date \in Days
      /\ \A r \in SessionRow : r.pc # "idle"
      /\ \A r \in JobRow : r.pc # "idle"
  BY DEF StoredRow, EventRow, SessionRow, JobRow, Stages
<1> QED
  BY <1>1, <1>2, <1>3

LEMMA RowTypes ==
    ASSUME Inv
    PROVE  /\ \A r \in Reflections : Stored(r) <=> reflection[r] \in StoredRow
           /\ \A x \in Reflections : event[x] # Gone <=> event[x] \in EventRow
           /\ \A x \in Reflections : event[x] # Gone <=> event[x].date \in Days
           /\ \A p \in Sessions : session[p] # Idle <=> session[p] \in SessionRow
           /\ job # Idle <=> job \in JobRow
<1>1. \A r \in Reflections : Stored(r) <=> reflection[r] \in StoredRow
  BY Kinds DEF Inv, Tables, Stored
<1>2. \A x \in Reflections : event[x] # Gone <=> event[x] \in EventRow
  BY Kinds DEF Inv, Tables
<1>3. \A x \in Reflections : event[x] \in EventRow => event[x].date \in Days
  BY DEF EventRow
<1>4. \A p \in Sessions : session[p] # Idle <=> session[p] \in SessionRow
  BY Kinds DEF Inv, Tables
<1>5. job # Idle <=> job \in JobRow
  BY Kinds DEF Inv, Tables
<1> QED
  BY <1>1, <1>2, <1>3, <1>4, <1>5, Kinds

\* What each kind of step makes of a session row.
LEMMA Onward ==
    ASSUME NEW s \in SessionRow, NEW pc \in Stages
    PROVE  LET t == [s EXCEPT !.pc = pc]
           IN  /\ t \in SessionRow /\ t.pc = pc /\ t.rid = s.rid /\ t.date = s.date
               /\ t.seen = s.seen /\ (t.wasDone <=> s.wasDone) /\ (t.fresh <=> s.fresh)
               /\ (t.done <=> s.done) /\ t.read = s.read
BY DEF SessionRow

Found(s, x, e) == [s EXCEPT !.seen = x, !.wasDone = e.done,
                            !.pc = IF e.done THEN "skip" ELSE "found"]

LEMMA OnwardFound ==
    ASSUME NEW s \in SessionRow, NEW x \in Reflections, NEW e \in EventRow
    PROVE  LET t == Found(s, x, e)
           IN  /\ t \in SessionRow /\ t.pc \in {"skip", "found"}
               /\ (t.pc = "skip" <=> e.done) /\ t.rid = s.rid /\ t.date = s.date
               /\ t.seen = x /\ (t.wasDone <=> e.done) /\ (t.fresh <=> s.fresh)
               /\ (t.done <=> s.done) /\ t.read = s.read
BY DEF SessionRow, EventRow, Stages, Found

ReadRow(s, pc, r) == [s EXCEPT !.pc = pc, !.read = r]

LEMMA OnwardRead ==
    ASSUME NEW s \in SessionRow, NEW pc \in Stages, NEW r \in StreakRow
    PROVE  LET t == ReadRow(s, pc, r)
           IN  /\ t \in SessionRow /\ t.pc = pc /\ t.rid = s.rid /\ t.date = s.date
               /\ t.seen = s.seen /\ (t.wasDone <=> s.wasDone) /\ (t.fresh <=> s.fresh)
               /\ (t.done <=> s.done) /\ t.read = r
BY DEF SessionRow, ReadRow

LEMMA OnwardFresh ==
    ASSUME NEW s \in SessionRow, NEW pc \in Stages
    PROVE  LET t == [s EXCEPT !.pc = pc, !.fresh = TRUE]
           IN  /\ t \in SessionRow /\ t.pc = pc /\ t.rid = s.rid /\ t.date = s.date
               /\ t.seen = s.seen /\ (t.wasDone <=> s.wasDone) /\ t.fresh
               /\ (t.done <=> s.done) /\ t.read = s.read
BY DEF SessionRow

LEMMA BegunRow ==
    ASSUME NEW r \in Reflections, NEW d \in Days, NEW b \in BOOLEAN
    PROVE  LET t == Begun(r, d, b)
           IN  /\ t \in SessionRow /\ t.pc = "begun" /\ t.rid = r /\ t.date = d /\ (t.done <=> b)
               /\ t.seen = None /\ ~t.wasDone /\ ~t.fresh
<1>1. NewStreak \in StreakRow /\ "begun" \in Stages
  BY DEF NewStreak, StreakRow, Stages
<1> QED
  BY <1>1 DEF Begun, SessionRow

LEMMA WatchType == Inv /\ Watch => solo' \in BOOLEAN
BY DEF Inv, Tables, Watch

-----------------------------------------------------------------------------
(* Steps of one session *)

\* A session that goes on or ends, and changes no table.
LEMMA SessionMoves ==
    ASSUME Inv, NEW p \in Sessions, NEW t \in {Idle} \cup SessionRow,
           session' = [session EXCEPT ![p] = t],
           UNCHANGED <<today, reflection, event, hasStreak, streak, everDone, job>>,
           solo' \in BOOLEAN,
           SessionOK(p)',
           \A q \in Sessions : q # p => Apart(t, session[q]) /\ Apart(session[q], t)
    PROVE  Inv'
<1>1. /\ session'[p] = t /\ session' \in [Sessions -> {Idle} \cup SessionRow]
      /\ \A q \in Sessions : q # p => session'[q] = session[q]
  BY DEF Inv, Tables
<1>2. Tables'
  BY <1>1 DEF Inv, Tables
<1>3. EventTied' /\ Named'
  BY DEF Inv, EventTied, Named, Stored
<1>4. \A q \in Sessions : q # p => SessionOK(q)'
  BY <1>1 DEF Inv, SessionOK
<1>5. \A q, r \in Sessions : q # r => Apart(session[q], session[r])'
  BY <1>1 DEF Inv, Apart
<1> QED
  BY <1>2, <1>3, <1>4, <1>5 DEF Inv

LEMMA EndsInv ==
    ASSUME Inv, NEW p \in Sessions, session' = [session EXCEPT ![p] = Idle],
           UNCHANGED <<today, reflection, event, hasStreak, streak, everDone, job>>,
           solo' \in BOOLEAN
    PROVE  Inv'
<1>1. session'[p] = Idle
  BY DEF Inv, Tables
<1>2. SessionOK(p)'
  BY <1>1 DEF SessionOK
<1> QED
  BY <1>2, SessionMoves DEF Apart

\* One that is at work.
LEMMA AtWork ==
    ASSUME Inv, NEW p \in Sessions, session[p].pc \in Stages
    PROVE  session[p] # Idle /\ session[p] \in SessionRow
<1>1. "idle" \notin Stages
  BY DEF Stages
<1> QED
  BY <1>1, Kinds, RowTypes

LEMMA FindEventInv ==
    ASSUME Inv, NEW p \in Sessions, FindEvent(p), solo' \in BOOLEAN
    PROVE  Inv'
<1> DEFINE s == session[p]
<1>1. s.pc = "begun" /\ UNCHANGED <<today, reflection, event, hasStreak, streak, everDone, job>>
  BY DEF FindEvent
<1>2. s # Idle /\ s \in SessionRow
  BY <1>1, AtWork DEF Stages
<1>3. CASE session' = [session EXCEPT ![p] = Idle]
  BY <1>1, <1>3, EndsInv
<1>4. CASE session' = [session EXCEPT ![p].pc = "found"]
  <2> DEFINE t == [s EXCEPT !.pc = "found"]
  <2>1. /\ t \in SessionRow /\ t.pc = "found" /\ t.rid = s.rid /\ t.date = s.date
        /\ t.seen = s.seen /\ (t.wasDone <=> s.wasDone) /\ (t.fresh <=> s.fresh)
    BY <1>2, Onward DEF Stages
  <2>2. session' = [session EXCEPT ![p] = t]
    BY <1>4
  <2> HIDE DEF t
  <2>3. session'[p] = t
    BY <2>2 DEF Inv, Tables
  <2>4. SessionOK(p)'
    <3>1. SessionOK(p)
      BY DEF Inv
    <3> QED
      BY <1>1, <1>2, <2>1, <2>3, <3>1 DEF SessionOK
  <2>5. ASSUME NEW q \in Sessions, q # p PROVE Apart(t, session[q]) /\ Apart(session[q], t)
    <3>1. Apart(s, session[q]) /\ Apart(session[q], s)
      BY <2>5 DEF Inv
    <3> QED
      BY <1>1, <1>2, <2>1, <3>1 DEF Apart
  <2> QED
    BY <1>1, <2>1, <2>2, <2>4, <2>5, SessionMoves
<1>5. CASE \E x \in RowsOf(s.date) :
              session' = [session EXCEPT ![p] =
                             [@ EXCEPT !.seen = x, !.wasDone = event[x].done,
                                       !.pc = IF event[x].done THEN "skip" ELSE "found"]]
  <2>1. PICK x \in RowsOf(s.date) :
              session' = [session EXCEPT ![p] =
                             [@ EXCEPT !.seen = x, !.wasDone = event[x].done,
                                       !.pc = IF event[x].done THEN "skip" ELSE "found"]]
    BY <1>5
  <2>2. x \in Reflections /\ event[x].date = s.date /\ event[x] # Gone /\ reflection[x] # Unused
    <3>1. x \in Reflections /\ event[x].date = s.date /\ s.date \in Days
      BY <1>2 DEF RowsOf, SessionRow
    <3> QED
      BY <3>1, Kinds DEF Inv, Named
  <2>3. PICK e \in EventRow : e = event[x]
    BY <2>2, RowTypes
  <2> DEFINE t == Found(s, x, e)
  <2>4. session' = [session EXCEPT ![p] = t]
    BY <2>1, <2>3 DEF Found
  <2>5. /\ t \in SessionRow /\ t.pc \in {"skip", "found"} /\ (t.pc = "skip" <=> e.done)
        /\ t.rid = s.rid /\ t.date = s.date
        /\ t.seen = x /\ (t.wasDone <=> e.done) /\ (t.fresh <=> s.fresh)
    BY <1>2, <2>2, OnwardFound
  <2> HIDE DEF t
  <2>6. session'[p] = t
    BY <2>4 DEF Inv, Tables
  <2>7. SessionOK(p)'
    <3>1. SessionOK(p)
      BY DEF Inv
    <3> QED
      BY <1>1, <1>2, <2>2, <2>5, <2>6, <3>1 DEF SessionOK
  <2>8. ASSUME NEW q \in Sessions, q # p PROVE Apart(t, session[q]) /\ Apart(session[q], t)
    <3>1. Apart(s, session[q]) /\ Apart(session[q], s) /\ SessionOK(q)
      BY <2>8 DEF Inv
    <3>2. session[q] # Idle => session[q].rid # x
      BY <2>2, <3>1 DEF SessionOK
    <3> QED
      BY <1>1, <1>2, <2>5, <3>1, <3>2 DEF Apart
  <2> QED
    BY <1>1, <2>4, <2>5, <2>7, <2>8, SessionMoves
<1> QED
  BY <1>3, <1>4, <1>5 DEF FindEvent

LEMMA ReadStreakInv ==
    ASSUME Inv, NEW p \in Sessions, ReadStreak(p), solo' \in BOOLEAN
    PROVE  Inv'
<1> DEFINE s == session[p]
<1>1. PICK pc \in {"streak", "ready"} : pc = IF hasStreak THEN "ready" ELSE "streak"
  OBVIOUS
<1> DEFINE t == ReadRow(s, pc, streak)
<1>2. s.pc = "found" /\ UNCHANGED <<today, reflection, event, hasStreak, streak, everDone, job>>
  BY DEF ReadStreak
<1>3. s # Idle /\ s \in SessionRow /\ SessionOK(p)
  BY <1>2, AtWork DEF Stages, Inv
<1>4. CASE session' = [session EXCEPT ![p] = Idle]
  BY <1>2, <1>4, EndsInv
<1>5. CASE /\ session' = [session EXCEPT ![p] = t]
           /\ s.seen # None => event[s.seen] # Gone
  <2>1. pc \in Stages /\ pc \in {"streak", "ready"} /\ streak \in StreakRow
    BY DEF Stages, Inv, Tables
  <2>2. /\ t \in SessionRow /\ t.pc = pc /\ t.rid = s.rid /\ t.date = s.date
        /\ t.seen = s.seen /\ (t.wasDone <=> s.wasDone) /\ (t.fresh <=> s.fresh)
    BY <1>3, <2>1, OnwardRead
  <2> HIDE DEF t
  <2>3. session'[p] = t
    BY <1>5 DEF Inv, Tables
  <2>4. SessionOK(p)'
    BY <1>2, <1>3, <1>5, <2>1, <2>2, <2>3 DEF SessionOK
  <2>5. ASSUME NEW q \in Sessions, q # p PROVE Apart(t, session[q]) /\ Apart(session[q], t)
    <3>1. Apart(s, session[q]) /\ Apart(session[q], s)
      BY <2>5 DEF Inv
    <3>2. ~s.fresh
      BY <1>2, <1>3 DEF SessionOK
    <3>3. s.seen # None => ~LocksEvent(q, s.seen)
      BY <2>5 DEF ReadStreak
    <3> QED
      BY <1>2, <1>3, <2>1, <2>2, <3>1, <3>2, <3>3 DEF Apart, LocksEvent, Busy
  <2> QED
    BY <1>2, <1>5, <2>2, <2>4, <2>5, SessionMoves
<1>6. \/ session' = [session EXCEPT ![p] = Idle]
      \/ /\ session' = [session EXCEPT ![p] = t]
         /\ s.seen # None => event[s.seen] # Gone
  BY <1>1 DEF ReadStreak, ReadRow
<1> QED
  BY <1>4, <1>5, <1>6

LEMMA InsertStreakInv ==
    ASSUME Inv, NEW p \in Sessions, InsertStreak(p), solo' \in BOOLEAN
    PROVE  Inv'
<1> DEFINE s == session[p]
           t == [s EXCEPT !.pc = "ready", !.fresh = TRUE]
<1>1. s.pc = "streak" /\ UNCHANGED <<today, reflection, event, hasStreak, streak, everDone, job>>
  BY DEF InsertStreak
<1>2. s # Idle /\ s \in SessionRow /\ SessionOK(p)
  BY <1>1, AtWork DEF Stages, Inv
<1>3. CASE session' = [session EXCEPT ![p] = Idle]
  BY <1>1, <1>3, EndsInv
<1>4. CASE session' = [session EXCEPT ![p] = t]
  <2>1. /\ t \in SessionRow /\ t.pc = "ready" /\ t.rid = s.rid /\ t.date = s.date
        /\ t.seen = s.seen /\ (t.wasDone <=> s.wasDone) /\ t.fresh
    BY <1>2, OnwardFresh DEF Stages
  <2> HIDE DEF t
  <2>2. session'[p] = t
    BY <1>4 DEF Inv, Tables
  <2>3. SessionOK(p)'
    BY <1>1, <1>2, <2>1, <2>2 DEF SessionOK
  <2>4. ASSUME NEW q \in Sessions, q # p PROVE Apart(t, session[q]) /\ Apart(session[q], t)
    <3>1. Apart(s, session[q]) /\ Apart(session[q], s)
      BY <2>4 DEF Inv
    <3>2. ~InsertsStreak(q)
      BY <2>4 DEF InsertStreak
    <3> QED
      BY <1>1, <1>2, <2>1, <3>1, <3>2 DEF Apart, InsertsStreak
  <2> QED
    BY <1>1, <1>4, <2>1, <2>3, <2>4, SessionMoves
<1>5. session' = [session EXCEPT ![p] = Idle] \/ session' = [session EXCEPT ![p] = t]
  BY DEF InsertStreak
<1> QED
  BY <1>3, <1>4, <1>5

\* A new session takes an identifier that no row has had.
LEMMA BeginInv ==
    ASSUME Inv, NEW p \in Sessions, NEW r \in Reflections, NEW d \in Days, NEW b \in BOOLEAN,
           Begin(p, r, d, b), solo' \in BOOLEAN
    PROVE  Inv'
<1> DEFINE t == Begun(r, d, b)
<1>1. /\ session[p] = Idle /\ reflection[r] = Unused
      /\ reflection' = [reflection EXCEPT ![r] = Gone] /\ session' = [session EXCEPT ![p] = t]
      /\ UNCHANGED <<today, event, hasStreak, streak, everDone, job>>
  BY DEF Begin, Busy
<1>2. /\ t \in SessionRow /\ t.pc = "begun" /\ t.rid = r /\ t.date = d
      /\ t.seen = None /\ ~t.wasDone /\ ~t.fresh
  BY BegunRow
<1> HIDE DEF t
<1>3. /\ session'[p] = t /\ session' \in [Sessions -> {Idle} \cup SessionRow]
      /\ \A q \in Sessions : q # p => session'[q] = session[q]
  BY <1>1, <1>2 DEF Inv, Tables
<1>4. /\ reflection'[r] = Gone /\ reflection' \in [Reflections -> {Gone, Unused} \cup StoredRow]
      /\ \A x \in Reflections : x # r => reflection'[x] = reflection[x]
  BY <1>1 DEF Inv, Tables
<1>5. event[r] = Gone /\ ~Stored(r)
  BY <1>1 DEF Inv, Named, Stored
<1>6. Tables'
  BY <1>1, <1>3, <1>4 DEF Inv, Tables
<1>7. EventTied'
  <2> SUFFICES ASSUME NEW x \in Reflections, event[x] # Gone
               PROVE  Stored(event[x].by)' /\ reflection'[event[x].by].date = event[x].date
    BY <1>1 DEF EventTied
  <2>1. Stored(event[x].by) /\ reflection[event[x].by].date = event[x].date
    BY DEF Inv, EventTied
  <2>2. event[x].by \in Reflections
    BY RowTypes DEF EventRow
  <2>3. event[x].by # r
    BY <1>5, <2>1
  <2> QED
    BY <1>1, <1>4, <2>1, <2>2, <2>3 DEF Stored
<1>8. Named'
  BY <1>1, <1>4, <1>5 DEF Inv, Named
<1>9. ASSUME NEW q \in Sessions, q # p
      PROVE  SessionOK(q)' /\ Apart(t, session[q]) /\ Apart(session[q], t)
  <2>1. SessionOK(q) /\ session'[q] = session[q]
    BY <1>3, <1>9 DEF Inv
  <2>2. session[q] # Idle =>
            /\ session[q].rid \in Reflections /\ session[q].seen \in Reflections \cup {None}
            /\ session[q].rid # r /\ session[q].seen # r
    BY <1>1, <2>1, Kinds, RowTypes, SessionAssumption DEF SessionOK, SessionRow
  <2>3. SessionOK(q)'
    BY <1>1, <1>4, <2>1, <2>2 DEF SessionOK
  <2> QED
    BY <1>2, <2>2, <2>3, SessionAssumption DEF Apart
<1>10. SessionOK(p)'
  BY <1>1, <1>2, <1>3, <1>4, <1>5 DEF SessionOK
<1>11. \A q, o \in Sessions : q # o => Apart(session[q], session[o])'
  BY <1>3, <1>9 DEF Inv, Apart
<1> QED
  BY <1>6, <1>7, <1>8, <1>9, <1>10, <1>11 DEF Inv

-----------------------------------------------------------------------------
(* Commits and deletions *)

\* The session that commits ends; it may store its reflection, and one event
\* that is its own or that it holds.
LEMMA CommitsInv ==
    ASSUME Inv, NEW p \in Sessions, session[p] # Idle,
           session' = [session EXCEPT ![p] = Idle],
           NEW row \in StoredRow, row.date = session[p].date,
           reflection' = [reflection EXCEPT ![session[p].rid] = row],
           \/ event' = event
           \/ \E e \in EventRow :
                 /\ e.date = session[p].date /\ e.by = session[p].rid
                 /\ \/ /\ session[p].seen = None
                       /\ event' = [event EXCEPT ![session[p].rid] = e]
                    \/ /\ session[p].seen # None /\ session[p].pc = "ready"
                       /\ event' = [event EXCEPT ![session[p].seen] = e],
           Tables'
    PROVE  Inv'
<1> DEFINE s == session[p]
<1>1. /\ s \in SessionRow /\ SessionOK(p) /\ s.rid \in Reflections
      /\ s.seen \in Reflections \cup {None}
  BY RowTypes DEF Inv, SessionRow
<1>2. session'[p] = Idle /\ \A q \in Sessions : q # p => session'[q] = session[q]
  BY DEF Inv, Tables
<1>3. /\ reflection'[s.rid] = row
      /\ \A x \in Reflections : x # s.rid => reflection'[x] = reflection[x]
  BY <1>1 DEF Inv, Tables
<1>4. row # Gone /\ row # Unused /\ row.date = s.date
  BY Kinds
<1>5. ASSUME NEW x \in Reflections
      PROVE  \/ event'[x] = event[x]
             \/ /\ x = s.rid \/ (x = s.seen /\ event[x] # Gone /\ event[x].date = s.date)
                /\ event'[x] # Gone /\ event'[x].date = s.date /\ event'[x].by = s.rid
  <2>1. CASE event' = event
    BY <2>1
  <2>2. CASE \E e \in EventRow : /\ e.date = s.date /\ e.by = s.rid
                                 /\ event' = [event EXCEPT ![s.rid] = e]
    BY <1>1, <2>2, Kinds DEF Inv, Tables
  <2>3. CASE \E e \in EventRow : /\ e.date = s.date /\ e.by = s.rid
                                 /\ s.seen # None /\ s.pc = "ready"
                                 /\ event' = [event EXCEPT ![s.seen] = e]
    <3>1. event[s.seen] # Gone /\ event[s.seen].date = s.date
      BY <1>1, <2>3 DEF SessionOK
    <3> QED
      BY <1>1, <2>3, <3>1, Kinds DEF Inv, Tables
  <2> QED
    BY <2>1, <2>2, <2>3
<1>6. EventTied'
  <2> SUFFICES ASSUME NEW x \in Reflections, event'[x] # Gone
               PROVE  Stored(event[x].by)' /\ reflection'[event'[x].by].date = event'[x].date
    BY Zenon DEF EventTied
  <2>1. CASE event'[x] = event[x]
    <3>1. Stored(event[x].by) /\ reflection[event[x].by].date = event[x].date
      BY <2>1 DEF Inv, EventTied
    <3>2. event[x].by \in Reflections
      BY <2>1, RowTypes DEF EventRow
    <3>3. event[x].by # s.rid
      BY <1>1, <3>1 DEF SessionOK, Stored
    <3>4. reflection'[event'[x].by] = reflection[event[x].by]
      BY <1>3, <2>1, <3>2, <3>3
    <3> QED
      BY <2>1, <3>1, <3>4 DEF Stored
  <2>2. CASE event'[x].date = s.date /\ event'[x].by = s.rid
    <3>1. reflection'[event'[x].by] = row
      BY <1>3, <2>2
    <3> QED
      BY <1>4, <2>2, <3>1 DEF Stored
  <2> QED
    BY <1>5, <2>1, <2>2
<1>7. Named'
  <2> SUFFICES ASSUME NEW x \in Reflections, event'[x] # Gone PROVE reflection'[x] # Unused
    BY DEF Named
  <2> QED
    BY <1>3, <1>4, <1>5 DEF Inv, Named
<1>8. ASSUME NEW q \in Sessions PROVE SessionOK(q)'
  <2>1. CASE q = p
    BY <1>2, <2>1 DEF SessionOK
  <2>2. CASE q # p /\ session[q] # Idle
    <3>1. session'[q] = session[q] /\ SessionOK(q) /\ Apart(s, session[q])
      BY <1>2, <2>2 DEF Inv
    <3>2. session[q].rid \in Reflections /\ session[q].seen \in Reflections \cup {None}
      BY <2>2, RowTypes DEF SessionRow
    <3>3. session[q].rid # s.rid /\ session[q].rid # s.seen /\ session[q].seen # s.rid
      BY <2>2, <3>1 DEF Apart
    <3>4. reflection'[session[q].rid] = Gone /\ event'[session[q].rid] = Gone
      BY <1>3, <1>5, <2>2, <3>1, <3>2, <3>3 DEF SessionOK
    <3>5. session[q].seen # None =>
              /\ reflection'[session[q].seen] # Unused
              /\ event'[session[q].seen] # Gone => event'[session[q].seen].date = session[q].date
              /\ event[session[q].seen] # Gone => event'[session[q].seen] # Gone
      BY <1>3, <1>5, <2>2, <3>1, <3>2, <3>3 DEF SessionOK
    <3> QED
      BY <2>2, <3>1, <3>4, <3>5 DEF SessionOK
  <2>3. CASE q # p /\ session[q] = Idle
    BY <1>2, <2>3 DEF SessionOK
  <2> QED
    BY <2>1, <2>2, <2>3
<1>9. \A q, o \in Sessions : q # o => Apart(session[q], session[o])'
  BY <1>2 DEF Inv, Apart
<1> QED
  BY <1>6, <1>7, <1>8, <1>9 DEF Inv

LEMMA MergeType ==
    ASSUME NEW n \in StreakRow, NEW o \in StreakRow, NEW r \in StreakRow
    PROVE  MergeStreak(n, o, r) \in StreakRow
BY DEF MergeStreak, Written, StreakRow

\* A session that holds a row it found open leaves a completion in it.
LEMMA WrittenDone ==
    ASSUME NEW b \in BOOLEAN, NEW w \in BOOLEAN, NEW c \in BOOLEAN
    PROVE  /\ Written(b, w, c) \in BOOLEAN
           /\ ~w /\ c => Written(b, w, c)
           /\ ~w /\ ~c => (Written(b, w, c) <=> b)
BY DEF Written

CommittedEvent(s, e) == [date |-> s.date, by |-> s.rid,
    done |-> IF s.seen = None THEN s.done ELSE Written(s.done, s.wasDone, e.done)]

LEMMA CommittedType ==
    ASSUME NEW s \in SessionRow, NEW e \in EventRow
    PROVE  LET c == CommittedEvent(s, e)
           IN  /\ c \in EventRow /\ c.date = s.date /\ c.by = s.rid
               /\ s.seen # None /\ ~s.wasDone /\ e.done => c.done
               /\ ~s.wasDone /\ ~e.done => (c.done <=> s.done)
<1>1. /\ s.done \in BOOLEAN /\ s.wasDone \in BOOLEAN /\ s.date \in Days /\ s.rid \in Reflections
      /\ e.done \in BOOLEAN
  BY DEF SessionRow, EventRow
<1>2. /\ Written(s.done, s.wasDone, e.done) \in BOOLEAN
      /\ ~s.wasDone /\ e.done => Written(s.done, s.wasDone, e.done)
      /\ ~s.wasDone /\ ~e.done => (Written(s.done, s.wasDone, e.done) <=> s.done)
  BY <1>1, WrittenDone
<1> QED
  BY <1>1, <1>2 DEF CommittedEvent, EventRow

\* What Commit does to the tables.
LEMMA CommitDoes ==
    ASSUME Inv, NEW p \in Sessions, Commit(p)
    PROVE  LET s == session[p]
           IN  /\ s \in SessionRow /\ s.pc = "ready"
               /\ \E row \in StoredRow : /\ row.date = s.date
                                         /\ reflection' = [reflection EXCEPT ![s.rid] = row]
               /\ \E c \in EventRow :
                     /\ c.date = s.date /\ c.by = s.rid
                     /\ s.seen = None => /\ event' = [event EXCEPT ![s.rid] = c]
                                         /\ c.done <=> s.done
                     /\ s.seen # None => /\ event' = [event EXCEPT ![s.seen] = c]
                                         /\ event[s.seen].done => c.done
                                         /\ ~event[s.seen].done => (c.done <=> s.done)
<1> DEFINE s == session[p]
           row == [date |-> s.date, said |-> {s.done}]
<1>1. s.pc = "ready" /\ reflection' = [reflection EXCEPT ![s.rid] = row]
  BY DEF Commit
<1>2. s # Idle /\ s \in SessionRow /\ SessionOK(p)
  BY <1>1, AtWork DEF Stages, Inv
<1>3. row \in StoredRow /\ row.date = s.date
  BY <1>2 DEF SessionRow, StoredRow
<1>4. CASE s.seen = None
  <2> DEFINE c == [date |-> s.date, done |-> s.done, by |-> s.rid]
  <2>1. event' = [event EXCEPT ![s.rid] = c]
    BY <1>4 DEF Commit
  <2>2. c \in EventRow /\ c.date = s.date /\ c.by = s.rid /\ (c.done <=> s.done)
    BY <1>2 DEF SessionRow, EventRow
  <2> HIDE DEF c, row
  <2> QED
    BY <1>1, <1>2, <1>3, <1>4, <2>1, <2>2
<1>5. CASE s.seen # None
  <2>1. PICK e \in EventRow : e = event[s.seen]
    <3>1. s.seen \in Reflections /\ event[s.seen] # Gone
      BY <1>1, <1>2, <1>5 DEF SessionOK, SessionRow
    <3> QED
      BY <3>1, RowTypes
  <2> DEFINE c == CommittedEvent(s, e)
  <2>2. event' = [event EXCEPT ![s.seen] = c]
    <3>1. c = [date |-> s.date, done |-> Written(s.done, s.wasDone, e.done), by |-> s.rid]
      BY <1>5 DEF CommittedEvent
    <3> HIDE DEF c
    <3> QED
      BY Zenon, <1>5, <2>1, <3>1 DEF Commit
  <2>3. /\ c \in EventRow /\ c.date = s.date /\ c.by = s.rid
        /\ e.done => c.done
        /\ ~e.done => (c.done <=> s.done)
    <3>1. ~s.wasDone
      BY <1>1, <1>2 DEF SessionOK
    <3> QED
      BY <1>2, <1>5, <3>1, CommittedType
  <2> HIDE DEF c, row
  <2> QED
    BY <1>1, <1>2, <1>3, <1>5, <2>1, <2>2, <2>3
<1> QED
  BY <1>4, <1>5

LEMMA CommitInv ==
    ASSUME Inv, NEW p \in Sessions, Commit(p), solo' \in BOOLEAN
    PROVE  Inv'
<1> DEFINE s == session[p]
<1>1. s \in SessionRow /\ s.pc = "ready" /\ s # Idle /\ session' = [session EXCEPT ![p] = Idle]
  BY CommitDoes, RowTypes DEF Commit
<1>2. PICK row \in StoredRow : /\ row.date = s.date
                               /\ reflection' = [reflection EXCEPT ![s.rid] = row]
  BY CommitDoes
<1>3. PICK c \in EventRow :
          /\ c.date = s.date /\ c.by = s.rid
          /\ \/ s.seen = None /\ event' = [event EXCEPT ![s.rid] = c]
             \/ s.seen # None /\ event' = [event EXCEPT ![s.seen] = c]
  BY CommitDoes
<1>4. /\ s.rid \in Reflections /\ s.seen \in Reflections \cup {None} /\ s.date \in Days
      /\ s.done \in BOOLEAN /\ s.read \in StreakRow
  BY <1>1 DEF SessionRow
<1>5. streak' \in StreakRow
  <2>1. UpdateStreak("daily", s.read, s.date, s.done) \in StreakRow
    BY <1>4, UpdateStreakType
  <2>2. streak \in StreakRow
    BY DEF Inv, Tables
  <2> QED
    BY <1>4, <2>1, <2>2, MergeType DEF Commit
<1>6. Tables'
  <2>1. reflection' \in [Reflections -> {Gone, Unused} \cup StoredRow]
    BY <1>2, <1>4 DEF Inv, Tables
  <2>2. event' \in [Reflections -> {Gone} \cup EventRow]
    BY <1>3, <1>4 DEF Inv, Tables
  <2>3. session' \in [Sessions -> {Idle} \cup SessionRow]
    BY <1>1 DEF Inv, Tables
  <2>4. everDone' \subseteq Days
    BY <1>4 DEF Inv, Tables, Commit
  <2>5. hasStreak' = TRUE /\ today' = today /\ job' = job
    BY DEF Commit
  <2> QED
    BY <1>5, <2>1, <2>2, <2>3, <2>4, <2>5 DEF Inv, Tables
<1> QED
  BY <1>1, <1>2, <1>3, <1>6, CommitsInv

LEMMA CommitSkippedInv ==
    ASSUME Inv, NEW p \in Sessions, CommitSkipped(p), solo' \in BOOLEAN
    PROVE  Inv'
<1> DEFINE s == session[p]
           row == [date |-> s.date, said |-> {}]
<1>1. /\ s.pc = "skip" /\ session' = [session EXCEPT ![p] = Idle]
      /\ reflection' = [reflection EXCEPT ![s.rid] = row]
      /\ UNCHANGED <<today, event, hasStreak, streak, everDone, job>>
  BY DEF CommitSkipped
<1>2. s # Idle /\ s \in SessionRow
  BY <1>1, AtWork DEF Stages
<1>3. row \in StoredRow /\ row.date = s.date /\ s.rid \in Reflections
  BY <1>2 DEF SessionRow, StoredRow
<1> HIDE DEF row
<1>4. Tables'
  BY <1>1, <1>3 DEF Inv, Tables
<1> QED
  BY <1>1, <1>2, <1>3, <1>4, CommitsInv

\* The events of a reflection go with it, unless a session holds one.
LEMMA DeleteReflectionInv ==
    ASSUME Inv, NEW r \in Reflections, DeleteReflection(r), solo' \in BOOLEAN
    PROVE  Inv'
<1>1. /\ Stored(r) /\ reflection' = [reflection EXCEPT ![r] = Gone]
      /\ event' = [x \in Reflections |->
                      IF event[x] # Gone /\ event[x].by = r THEN Gone ELSE event[x]]
      /\ UNCHANGED <<today, hasStreak, streak, everDone, session, job>>
  BY DEF DeleteReflection
<1>2. /\ reflection'[r] = Gone
      /\ \A x \in Reflections : x # r => reflection'[x] = reflection[x]
      /\ \A x \in Reflections : /\ event[x] = Gone => event'[x] = Gone
                                /\ event'[x] # Gone => event'[x] = event[x] /\ event[x].by # r
                                /\ event'[x] = Gone \/ event'[x] = event[x]
  BY <1>1 DEF Inv, Tables
<1>3. Tables'
  BY <1>1 DEF Inv, Tables
<1>4. EventTied'
  <2> SUFFICES ASSUME NEW x \in Reflections, event'[x] # Gone
               PROVE  Stored(event[x].by)' /\ reflection'[event'[x].by].date = event'[x].date
    BY Zenon DEF EventTied
  <2>1. /\ event'[x] = event[x] /\ event[x].by # r
        /\ Stored(event[x].by) /\ reflection[event[x].by].date = event[x].date
    BY <1>2 DEF Inv, EventTied
  <2>2. event[x].by \in Reflections
    BY <2>1, RowTypes DEF EventRow
  <2>3. reflection'[event'[x].by] = reflection[event[x].by]
    BY <1>2, <2>1, <2>2
  <2> QED
    BY <2>1, <2>3 DEF Stored
<1>5. Named'
  BY <1>2, Kinds DEF Inv, Named
<1>6. ASSUME NEW p \in Sessions, session[p] # Idle PROVE SessionOK(p)'
  <2>1. /\ SessionOK(p) /\ session'[p] = session[p] /\ session[p].rid \in Reflections
        /\ session[p].seen \in Reflections \cup {None}
    BY <1>1, <1>6, RowTypes DEF Inv, SessionRow
  <2>2. reflection'[session[p].rid] = Gone /\ event'[session[p].rid] = Gone
    BY <1>1, <1>2, <1>6, <2>1 DEF SessionOK
  <2>3. ASSUME session[p].seen # None
        PROVE  /\ reflection'[session[p].seen] # Unused
               /\ event'[session[p].seen] # Gone => event'[session[p].seen].date = session[p].date
    BY <1>2, <1>6, <2>1, <2>3, Kinds DEF SessionOK
  <2>4. ASSUME session[p].seen # None, session[p].pc \in {"streak", "ready"}
        PROVE  event'[session[p].seen] # Gone
    <3>1. event[session[p].seen] # Gone /\ LockedEvent(session[p].seen)
      BY <1>6, <2>1, <2>4 DEF SessionOK, LockedEvent, LocksEvent, Busy
    <3>2. event[session[p].seen].by # r
      BY <2>1, <2>4, <3>1 DEF DeleteReflection
    <3> QED
      BY <1>1, <2>1, <2>4, <3>1, <3>2
  <2> QED
    BY <1>6, <2>1, <2>2, <2>3, <2>4 DEF SessionOK
<1>7. \A p \in Sessions : session[p] = Idle => SessionOK(p)'
  BY <1>1 DEF SessionOK
<1>8. \A q, o \in Sessions : q # o => Apart(session[q], session[o])'
  BY <1>1 DEF Inv, Apart
<1> QED
  BY <1>3, <1>4, <1>5, <1>6, <1>7, <1>8 DEF Inv

-----------------------------------------------------------------------------
(* The theorems *)

\* The job and the calendar touch neither reflections, events nor sessions.
LEMMA OthersInv ==
    ASSUME Inv, UNCHANGED <<reflection, event, session>>, Tables'
    PROVE  Inv'
<1>1. EventTied' /\ Named'
  BY DEF Inv, EventTied, Named, Stored
<1>2. \A p \in Sessions : SessionOK(p)'
  BY DEF Inv, SessionOK
<1>3. \A p, q \in Sessions : p # q => Apart(session[p], session[q])'
  BY DEF Inv, Apart
<1> QED
  BY <1>1, <1>2, <1>3 DEF Inv

LEMMA JobReadInv == ASSUME Inv, JobRead, solo' \in BOOLEAN PROVE Inv'
<1>1. hasStreak
  BY DEF Inv, Tables, NewStreak, JobRead
<1>2. job' \in JobRow
  BY DEF Inv, Tables, JobRow, JobRead
<1>3. Tables'
  BY <1>1, <1>2 DEF Inv, Tables, JobRead
<1> QED
  BY <1>3, OthersInv DEF JobRead

LEMMA JobWriteInv == ASSUME Inv, JobWrite, solo' \in BOOLEAN PROVE Inv'
<1>1. job # Idle /\ job \in JobRow /\ hasStreak
  BY RowTypes DEF Inv, Tables, JobWrite
<1>2. job.read \in StreakRow
  BY <1>1 DEF JobRow
<1>3. Reset(job.read) \in StreakRow
  BY <1>2 DEF Reset, StreakRow
<1>4. streak' \in StreakRow
  BY <1>2, <1>3, MergeType DEF Inv, Tables, JobWrite
<1>5. Tables'
  BY <1>1, <1>4 DEF Inv, Tables, JobWrite
<1> QED
  BY <1>5, OthersInv DEF JobWrite

LEMMA NextDayInv == ASSUME Inv, NextDay, solo' \in BOOLEAN PROVE Inv'
<1>1. today' \in Days
  BY CalendarAssumption DEF Inv, Tables, NextDay, Days
<1>2. Tables'
  BY <1>1 DEF Inv, Tables, NextDay
<1> QED
  BY <1>2, OthersInv DEF NextDay

LEMMA StepInv == Inv /\ [Next]_vars => Inv'
<1> SUFFICES ASSUME Inv, [Next]_vars PROVE Inv'
  OBVIOUS
<1>1. CASE UNCHANGED vars
  BY <1>1, OthersInv DEF Inv, Tables, vars, tables
<1>2. CASE Next
  <2>1. solo' \in BOOLEAN
    BY <1>2, WatchType DEF Next
  <2>2. CASE \E p \in Sessions, r \in Reflections, d \in Days, b \in BOOLEAN : Begin(p, r, d, b)
    BY <2>1, <2>2, BeginInv
  <2>3. CASE \E p \in Sessions : Proceed(p)
    BY <2>1, <2>3, FindEventInv, ReadStreakInv, InsertStreakInv, CommitInv, CommitSkippedInv
       DEF Proceed
  <2>4. CASE \E p \in Sessions : Abort(p)
    BY <2>1, <2>4, EndsInv DEF Abort
  <2>5. CASE \E r \in Reflections : DeleteReflection(r)
    BY <2>1, <2>5, DeleteReflectionInv
  <2> QED
    BY <1>2, <2>1, <2>2, <2>3, <2>4, <2>5, JobReadInv, JobWriteInv, NextDayInv DEF Next, Step
<1> QED
  BY <1>1, <1>2

LEMMA InitInv == Init => Inv
<1> SUFFICES ASSUME Init PROVE Inv
  OBVIOUS
<1>1. Tables
  BY CalendarAssumption DEF Init, Tables, Days, NewStreak, StreakRow
<1>2. EventTied /\ Named
  BY DEF Init, EventTied, Named
<1>3. \A p \in Sessions : SessionOK(p)
  BY DEF Init, SessionOK
<1>4. \A p, q \in Sessions : p # q => Apart(session[p], session[q])
  BY DEF Init, Apart
<1> QED
  BY <1>1, <1>2, <1>3, <1>4 DEF Inv

LEMMA InvAlways == Spec => []Inv
BY InitInv, StepInv, PTL DEF Spec

\* Rows and sessions have the columns and fields they should have, and a missing
\* streak row has never been written.
THEOREM TypeCorrect == Spec => []TypeOK
<1>1. ASSUME Inv PROVE TypeOK
  <2>1. \A r \in Reflections :
            Stored(r) => reflection[r] \in [date : Days, said : SUBSET BOOLEAN]
    BY <1>1, RowTypes DEF StoredRow
  <2>2. \A x \in Reflections :
            event[x] # Gone => event[x] \in [date : Days, done : BOOLEAN, by : Reflections]
    BY <1>1, RowTypes DEF EventRow
  <2>3. \A p \in Sessions : Busy(p) =>
            /\ session[p].pc \in {"begun", "found", "streak", "ready", "skip"}
            /\ session[p].rid \in Reflections /\ session[p].date \in Days
            /\ session[p].seen \in Reflections \cup {None}
            /\ session[p].read \in StreakRow
    BY <1>1, RowTypes DEF SessionRow, Stages, Busy
  <2> QED
    BY <1>1, <2>1, <2>2, <2>3 DEF Inv, Tables, TypeOK
<1> QED
  BY <1>1, InvAlways, PTL

\* Two check-ins under way never hold one event row, nor both insert the streak,
\* and the row a session holds is there, and of its date, until it commits.
THEOREM RowsHeldByOne == Spec => []LocksExclusive
<1>1. ASSUME Inv PROVE LocksExclusive
  <2>1. ASSUME NEW p \in Sessions, NEW q \in Sessions, p # q
        PROVE  /\ \A x \in Reflections : ~(LocksEvent(p, x) /\ LocksEvent(q, x))
               /\ ~(InsertsStreak(p) /\ InsertsStreak(q))
    <3>1. Apart(session[p], session[q])
      BY <1>1, <2>1 DEF Inv
    <3>2. \A s : s.pc = "ready" => s # Idle
      BY Kinds
    <3> QED
      BY <3>1, <3>2, SessionAssumption DEF Apart, LocksEvent, InsertsStreak, Busy
  <2>2. ASSUME NEW p \in Sessions, NEW x \in Reflections, LocksEvent(p, x)
        PROVE  event[x].date = session[p].date
    BY <1>1, <2>2, SessionAssumption DEF Inv, SessionOK, LocksEvent, Busy
  <2> QED
    BY <2>1, <2>2 DEF LocksExclusive
<1> QED
  BY <1>1, InvAlways, PTL

\* However check-ins and deletions overlap, an event row has a reflection of its
\* date: the cascade of a deletion misses no row that a session still writes.
THEOREM EventsStayTied == Spec => []EventTied
<1>1. Inv => EventTied
  BY DEF Inv
<1> QED
  BY <1>1, InvAlways, PTL

LEMMA CommitKeepsDone ==
    ASSUME Inv, NEW p \in Sessions, Commit(p), NEW x \in Reflections,
           event[x] # Gone, event[x].done
    PROVE  event'[x].done
<1> DEFINE s == session[p]
<1>1. s \in SessionRow /\ s # Idle /\ SessionOK(p)
  BY CommitDoes, RowTypes DEF Inv
<1>2. PICK c \in EventRow :
          /\ s.seen = None => event' = [event EXCEPT ![s.rid] = c]
          /\ s.seen # None => /\ event' = [event EXCEPT ![s.seen] = c]
                              /\ event[s.seen].done => c.done
  BY CommitDoes
<1>3. x # s.rid
  BY <1>1 DEF SessionOK
<1> QED
  BY <1>2, <1>3 DEF Inv, Tables

\* A check-in that read the row before another completed it does not take the
\* completion back when it commits.
THEOREM CompletionsKept == Spec => CompletionKept
<1>1. ASSUME Inv, [Next]_vars, NEW x \in Reflections, event[x] # Gone, event[x].done
      PROVE  event'[x] = Gone \/ event'[x].done
  <2>1. CASE \E p \in Sessions : Commit(p)
    BY <1>1, <2>1, CommitKeepsDone
  <2>2. CASE \E r \in Reflections : DeleteReflection(r)
    BY <1>1, <2>2 DEF DeleteReflection
  <2>3. CASE event' = event
    BY <1>1, <2>3
  <2>4. \/ \E p \in Sessions : Commit(p)
        \/ \E r \in Reflections : DeleteReflection(r)
        \/ event' = event
    BY <1>1 DEF Next, Step, Proceed, Begin, FindEvent, ReadStreak, InsertStreak, CommitSkipped,
       Abort, JobRead, JobWrite, NextDay, vars, tables
  <2> QED
    BY <2>1, <2>2, <2>3, <2>4
<1>2. Inv /\ [Next]_vars =>
          [\A x \in Reflections :
              event[x] # Gone /\ event[x].done => event'[x] = Gone \/ event'[x].done]_vars
  BY <1>1
<1> QED
  BY <1>2, InvAlways, PTL DEF Spec, CompletionKept

-----------------------------------------------------------------------------
(* As long as no two transactions overlapped *)

BusySet(ses) == {p \in Sessions : ses[p] # Idle}

\* The event row of a date, if there is one, is the one the session has found,
\* and still open; the streak is as the session has read it.
Current(s) ==
    /\ s.pc = "begun" => s.seen = None
    /\ s.pc \in {"found", "streak", "ready"} =>
          /\ RowsOf(s.date) \subseteq {s.seen}
          /\ \A x \in RowsOf(s.date) : ~event[x].done
    /\ s.pc \in {"streak", "ready"} => s.read = streak

LapsedStreak(s) == s.last # NoDate /\ s.last < today - 2 /\ s.cur > 0

Serial ==
    /\ \A p, q \in Sessions : session[p] # Idle /\ session[q] # Idle => p = q
    /\ job # Idle => \A p \in Sessions : session[p] = Idle
    /\ \A d \in Days : \A x, y \in RowsOf(d) : x = y
    /\ \A p \in Sessions : Current(session[p])
    /\ job # Idle => job.read = streak /\ LapsedStreak(streak)

\* Whatever overlaps, history has the completions that the events show.
Recorded == \A x \in Reflections :
    event[x] # Gone /\ event[x].done => event[x].date \in everDone

SoloInv == Inv /\ IsFiniteSet(BusySet(session)) /\ Recorded /\ (solo => Serial)

Unfinished(ses, j) == Cardinality(BusySet(ses)) + IF j = Idle THEN 0 ELSE 1

LEMMA AtMostOne ==
    ASSUME NEW ses, NEW j, IsFiniteSet(BusySet(ses)), Unfinished(ses, j) <= 1
    PROVE  /\ \A p, q \in Sessions : ses[p] # Idle /\ ses[q] # Idle => p = q
           /\ j # Idle => \A p \in Sessions : ses[p] = Idle
<1> DEFINE B == BusySet(ses)
<1>1. Cardinality(B) \in Nat /\ Cardinality(B) <= 1
  BY FS_CardinalityType DEF Unfinished
<1>2. ASSUME NEW p \in B, NEW q \in B, p # q PROVE FALSE
  <2>1. IsFiniteSet({p}) /\ Cardinality({p}) = 1
    BY FS_Singleton
  <2>2. Cardinality({p} \cup {q}) = 2
    BY <1>2, <2>1, FS_AddElement
  <2>3. {p} \cup {q} \subseteq B
    OBVIOUS
  <2>4. Cardinality({p} \cup {q}) <= Cardinality(B)
    BY <2>3, FS_Subset
  <2> QED
    BY <1>1, <2>2, <2>4
<1>3. j # Idle => B = {}
  <2>1. j # Idle => Cardinality(B) = 0
    BY <1>1 DEF Unfinished
  <2> QED
    BY <2>1, FS_EmptySet
<1> QED
  BY <1>2, <1>3 DEF BusySet

LEMMA SessionsFinite ==
    ASSUME Inv, IsFiniteSet(BusySet(session)), [Next]_vars
    PROVE  IsFiniteSet(BusySet(session'))
<1>1. session' = session \/ \E p \in Sessions : \E t : session' = [session EXCEPT ![p] = t]
  BY Zenon DEF Next, Step, Proceed, Begin, FindEvent, ReadStreak, InsertStreak, Commit, CommitSkipped,
     Abort, DeleteReflection, JobRead, JobWrite, NextDay, vars, tables
<1>2. CASE session' = session
  BY <1>2
<1>3. ASSUME NEW p \in Sessions, NEW t, session' = [session EXCEPT ![p] = t]
      PROVE  IsFiniteSet(BusySet(session'))
  <2>1. BusySet(session') \subseteq BusySet(session) \cup {p}
    BY <1>3 DEF BusySet, Inv, Tables
  <2>2. IsFiniteSet(BusySet(session) \cup {p})
    BY FS_AddElement
  <2> QED
    BY <2>1, <2>2, FS_Subset
<1> QED
  BY <1>1, <1>2, <1>3

\* A step after which no two transactions have overlapped.
LEMMA SoloStep ==
    ASSUME SoloInv, Next, solo'
    PROVE  /\ solo /\ Serial
           /\ \A p, q \in Sessions : session'[p] # Idle /\ session'[q] # Idle => p = q
           /\ job' # Idle => \A p \in Sessions : session'[p] = Idle
<1>1. solo /\ InFlight' <= 1
  BY DEF Next, Watch
<1>2. InFlight' = Unfinished(session', job')
  BY DEF InFlight, Unfinished, BusySet, Busy
<1>3. IsFiniteSet(BusySet(session'))
  BY SessionsFinite DEF SoloInv
<1> QED
  BY <1>1, <1>2, <1>3, AtMostOne DEF SoloInv

LEMMA CurrentStays ==
    ASSUME NEW p \in Sessions, Current(session[p]), session'[p] = session[p], streak' = streak,
           \A x \in Reflections : event'[x] = Gone \/ event'[x] = event[x],
           session[p] = Idle \/ session[p].date \in Days
    PROVE  Current(session[p])'
<1>1. CASE session[p] = Idle
  BY <1>1, Kinds DEF Current
<1>2. CASE session[p].date \in Days
  <2>1. RowsOf(session[p].date)' \subseteq RowsOf(session[p].date)
    BY <1>2, Kinds DEF RowsOf
  <2>2. \A x \in RowsOf(session[p].date)' : event'[x] = event[x]
    BY <1>2, Kinds DEF RowsOf
  <2> QED
    BY <2>1, <2>2 DEF Current
<1> QED
  BY <1>1, <1>2

LEMMA DatesStay ==
    ASSUME Serial, \A x \in Reflections : event'[x] = Gone \/ event'[x] = event[x]
    PROVE  \A d \in Days : \A x, y \in RowsOf(d)' : x = y
<1>1. \A d \in Days : RowsOf(d)' \subseteq RowsOf(d)
  BY Kinds DEF RowsOf
<1> QED
  BY <1>1 DEF Serial

\* What is left to show of a step that changes one session and no table.
LEMMA SerialMoves ==
    ASSUME Inv, Serial, NEW p \in Sessions, NEW t, session' = [session EXCEPT ![p] = t],
           UNCHANGED <<today, event, streak, job>>,
           t = Idle \/ Current(t)',
           \A q, r \in Sessions : session'[q] # Idle /\ session'[r] # Idle => q = r,
           job' # Idle => \A q \in Sessions : session'[q] = Idle
    PROVE  Serial'
<1>1. session'[p] = t /\ \A q \in Sessions : q # p => session'[q] = session[q]
  BY DEF Inv, Tables
<1>2. ASSUME NEW q \in Sessions PROVE Current(session[q])'
  <2>1. CASE q # p
    <3>1. session[q] = Idle \/ session[q].date \in Days
      BY RowTypes DEF SessionRow
    <3> QED
      BY <1>1, <2>1, <3>1, CurrentStays DEF Serial
  <2>2. CASE q = p /\ t = Idle
    BY <1>1, <2>2, Kinds DEF Current
  <2>3. CASE q = p /\ Current(t)'
    BY <1>1, <2>3 DEF Current
  <2> QED
    BY <2>1, <2>2, <2>3
<1>3. \A d \in Days : \A x, y \in RowsOf(d)' : x = y
  BY DatesStay
<1>4. job' # Idle => job'.read = streak' /\ LapsedStreak(streak)'
  BY DEF Serial, LapsedStreak
<1> QED
  BY <1>2, <1>3, <1>4 DEF Serial

LEMMA FindEventSerial ==
    ASSUME SoloInv, Serial, NEW p \in Sessions, FindEvent(p),
           \A q, r \in Sessions : session'[q] # Idle /\ session'[r] # Idle => q = r,
           job' # Idle => \A q \in Sessions : session'[q] = Idle
    PROVE  Serial'
<1> DEFINE s == session[p]
<1>1. /\ s.pc = "begun" /\ UNCHANGED <<today, event, streak, job>>
  BY DEF FindEvent
<1>2. Inv /\ s \in SessionRow /\ s.seen = None
  BY <1>1, AtWork DEF SoloInv, Stages, Serial, Current
<1>3. CASE session' = [session EXCEPT ![p] = Idle]
  BY <1>1, <1>2, <1>3, SerialMoves
<1>4. CASE session' = [session EXCEPT ![p].pc = "found"] /\ RowsOf(s.date) = {}
  <2> DEFINE t == [s EXCEPT !.pc = "found"]
  <2>1. t.pc = "found" /\ t.date = s.date /\ session' = [session EXCEPT ![p] = t]
    BY <1>2, <1>4, Onward DEF Stages
  <2> HIDE DEF t
  <2>2. RowsOf(s.date) = {} /\ event' = event
    BY <1>1, <1>4
  <2>3. \A x \in Reflections : event'[x].date # s.date
    BY <2>2 DEF RowsOf
  <2>4. PICK u : u = t
    OBVIOUS
  <2>5. Current(u)'
    BY <2>1, <2>3, <2>4 DEF Current, RowsOf
  <2> QED
    BY <1>1, <1>2, <2>1, <2>4, <2>5, SerialMoves
<1>5. CASE \E x \in RowsOf(s.date) :
              /\ RowsOf(s.date) = {x}
              /\ session' = [session EXCEPT ![p] =
                                [@ EXCEPT !.seen = x, !.wasDone = event[x].done,
                                          !.pc = IF event[x].done THEN "skip" ELSE "found"]]
  <2>1. PICK x \in RowsOf(s.date) :
              /\ RowsOf(s.date) = {x}
              /\ session' = [session EXCEPT ![p] =
                                [@ EXCEPT !.seen = x, !.wasDone = event[x].done,
                                          !.pc = IF event[x].done THEN "skip" ELSE "found"]]
    BY <1>5
  <2>2. x \in Reflections /\ event[x] # Gone
    BY <1>2, <2>1, Kinds DEF RowsOf, SessionRow
  <2>3. PICK e \in EventRow : e = event[x]
    BY <1>2, <2>2, RowTypes
  <2> DEFINE t == Found(s, x, e)
  <2>4. session' = [session EXCEPT ![p] = t]
    BY <2>1, <2>3 DEF Found
  <2>5. t.pc \in {"skip", "found"} /\ (t.pc = "skip" <=> e.done) /\ t.date = s.date /\ t.seen = x
    BY <1>2, <2>2, OnwardFound
  <2> HIDE DEF t
  <2>6. PICK u : u = t
    OBVIOUS
  <2>7. u.pc = "found" => RowsOf(u.date)' = {u.seen} /\ \A y \in RowsOf(u.date)' : ~event'[y].done
    BY <1>1, <2>1, <2>3, <2>5, <2>6 DEF RowsOf
  <2>8. Current(u)'
    BY <2>5, <2>6, <2>7 DEF Current
  <2> QED
    BY <1>1, <1>2, <2>4, <2>6, <2>8, SerialMoves
<1> QED
  BY <1>3, <1>4, <1>5 DEF FindEvent

LEMMA ReadStreakSerial ==
    ASSUME SoloInv, Serial, NEW p \in Sessions, ReadStreak(p),
           \A q, r \in Sessions : session'[q] # Idle /\ session'[r] # Idle => q = r,
           job' # Idle => \A q \in Sessions : session'[q] = Idle
    PROVE  Serial'
<1> DEFINE s == session[p]
<1>1. PICK pc \in {"streak", "ready"} : pc = IF hasStreak THEN "ready" ELSE "streak"
  OBVIOUS
<1> DEFINE t == ReadRow(s, pc, streak)
<1>2. /\ s.pc = "found" /\ UNCHANGED <<today, event, streak, job>>
  BY DEF ReadStreak
<1>3. Inv /\ s \in SessionRow /\ Current(s) /\ streak \in StreakRow
  BY <1>2, AtWork DEF SoloInv, Stages, Serial, Inv, Tables
<1>4. session' = [session EXCEPT ![p] = Idle] \/ session' = [session EXCEPT ![p] = t]
  BY <1>1 DEF ReadStreak, ReadRow
<1>5. t.pc = pc /\ t.date = s.date /\ t.seen = s.seen /\ t.read = streak
  <2>1. pc \in Stages
    BY <1>1 DEF Stages
  <2> QED
    BY <1>3, <2>1, OnwardRead
<1> HIDE DEF t
<1>6. PICK u : u = t
  OBVIOUS
<1>7. PICK d : d = s.date
  OBVIOUS
<1>8. RowsOf(d)' = RowsOf(d)
  BY <1>2 DEF RowsOf
<1>9. Current(u)'
  BY <1>1, <1>2, <1>3, <1>5, <1>6, <1>7, <1>8 DEF Current
<1> QED
  BY <1>2, <1>3, <1>4, <1>6, <1>9, SerialMoves

LEMMA InsertStreakSerial ==
    ASSUME SoloInv, Serial, NEW p \in Sessions, InsertStreak(p),
           \A q, r \in Sessions : session'[q] # Idle /\ session'[r] # Idle => q = r,
           job' # Idle => \A q \in Sessions : session'[q] = Idle
    PROVE  Serial'
<1> DEFINE s == session[p]
           t == [s EXCEPT !.pc = "ready", !.fresh = TRUE]
<1>1. /\ s.pc = "streak" /\ UNCHANGED <<today, event, streak, job>>
  BY DEF InsertStreak
<1>2. Inv /\ s \in SessionRow /\ Current(s)
  BY <1>1, AtWork DEF SoloInv, Stages, Serial
<1>3. session' = [session EXCEPT ![p] = Idle] \/ session' = [session EXCEPT ![p] = t]
  BY DEF InsertStreak
<1>4. t.pc = "ready" /\ t.date = s.date /\ t.seen = s.seen /\ t.read = s.read
  BY <1>2, OnwardFresh DEF Stages
<1> HIDE DEF t
<1>5. PICK u : u = t
  OBVIOUS
<1>6. PICK d : d = s.date
  OBVIOUS
<1>7. RowsOf(d)' = RowsOf(d)
  BY <1>1 DEF RowsOf
<1>8. Current(u)'
  BY <1>1, <1>2, <1>4, <1>5, <1>6, <1>7 DEF Current
<1> QED
  BY <1>1, <1>2, <1>3, <1>5, <1>8, SerialMoves

LEMMA BeginSerial ==
    ASSUME SoloInv, Serial, NEW p \in Sessions, NEW r \in Reflections, NEW d \in Days,
           NEW b \in BOOLEAN, Begin(p, r, d, b),
           \A q, o \in Sessions : session'[q] # Idle /\ session'[o] # Idle => q = o,
           job' # Idle => \A q \in Sessions : session'[q] = Idle
    PROVE  Serial'
<1> DEFINE t == Begun(r, d, b)
<1>1. t.pc = "begun" /\ t.seen = None
  BY BegunRow
<1>2. session' = [session EXCEPT ![p] = t] /\ UNCHANGED <<today, event, streak, job>>
  BY DEF Begin
<1> HIDE DEF t
<1>3. PICK u : u = t
  OBVIOUS
<1>4. Current(u)'
  BY <1>1, <1>3 DEF Current
<1> QED
  BY <1>2, <1>3, <1>4, SerialMoves DEF SoloInv

\* A commit under a lone session: the date has its one event row.
LEMMA CommitSerial ==
    ASSUME SoloInv, Serial, NEW p \in Sessions, Commit(p),
           \A q, r \in Sessions : session'[q] # Idle /\ session'[r] # Idle => q = r,
           job' # Idle => \A q \in Sessions : session'[q] = Idle
    PROVE  Serial'
<1> DEFINE s == session[p]
<1>1. /\ s.pc = "ready" /\ s \in SessionRow /\ s # Idle /\ Current(s) /\ Inv
      /\ session' = [session EXCEPT ![p] = Idle] /\ job' = job
  BY CommitDoes, RowTypes DEF SoloInv, Serial, Commit
<1>2. PICK c \in EventRow :
          /\ c.date = s.date
          /\ s.seen = None => event' = [event EXCEPT ![s.rid] = c]
          /\ s.seen # None => event' = [event EXCEPT ![s.seen] = c]
  BY <1>1, CommitDoes
<1>3. PICK x \in Reflections : /\ event' = [event EXCEPT ![x] = c]
                               /\ RowsOf(s.date) \subseteq {x}
  <2>1. s.rid \in Reflections /\ s.seen \in Reflections \cup {None}
    BY <1>1 DEF SessionRow
  <2>2. RowsOf(s.date) \subseteq {s.seen}
    BY <1>1 DEF Current
  <2>3. s.seen = None => RowsOf(s.date) \subseteq {s.rid}
    BY <2>2, SessionAssumption DEF RowsOf
  <2> QED
    BY <1>2, <2>1, <2>2, <2>3
<1>4. \A y \in Reflections : event'[y] = IF y = x THEN c ELSE event[y]
  BY <1>1, <1>3 DEF Inv, Tables
<1>5. ASSUME NEW d \in Days, NEW y \in RowsOf(d)', NEW z \in RowsOf(d)' PROVE y = z
  <2>1. y \in Reflections /\ event'[y].date = d /\ z \in Reflections /\ event'[z].date = d
    BY DEF RowsOf
  <2>2. CASE d = s.date
    <3>1. \A v \in Reflections : event[v].date = d => v = x
      BY <1>3, <2>2 DEF RowsOf
    <3> QED
      BY <1>4, <2>1, <3>1
  <2>3. CASE d # s.date
    <3>1. y # x /\ z # x
      BY <1>2, <1>4, <2>1, <2>3
    <3>2. y \in RowsOf(d) /\ z \in RowsOf(d)
      BY <1>4, <2>1, <3>1 DEF RowsOf
    <3> QED
      BY <3>2 DEF Serial
  <2> QED
    BY <2>2, <2>3
<1>6. \A q \in Sessions : session'[q] = Idle
  BY <1>1 DEF Inv, Tables, Serial
<1>7. \A q \in Sessions : Current(session[q])'
  BY <1>6, Kinds DEF Current
<1>8. job' = Idle
  BY <1>1 DEF Serial
<1> QED
  BY <1>5, <1>6, <1>7, <1>8 DEF Serial

LEMMA DeleteSerial ==
    ASSUME SoloInv, Serial, NEW r \in Reflections, DeleteReflection(r)
    PROVE  Serial'
<1>1. /\ UNCHANGED <<today, streak, session, job>>
      /\ \A x \in Reflections : event'[x] = Gone \/ event'[x] = event[x]
  BY DEF DeleteReflection
<1>2. ASSUME NEW p \in Sessions PROVE Current(session[p])'
  <2>1. session[p] = Idle \/ session[p].date \in Days
    BY RowTypes DEF SoloInv, SessionRow
  <2> QED
    BY <1>1, <2>1, CurrentStays DEF Serial
<1>3. \A d \in Days : \A x, y \in RowsOf(d)' : x = y
  BY <1>1, DatesStay
<1>4. job' # Idle => job'.read = streak' /\ LapsedStreak(streak)'
  BY <1>1 DEF Serial, LapsedStreak
<1> QED
  BY <1>1, <1>2, <1>3, <1>4 DEF Serial

\* The job and the calendar.
LEMMA OthersSerial ==
    ASSUME SoloInv, Serial, JobRead \/ JobWrite \/ NextDay,
           job' # Idle => \A q \in Sessions : session'[q] = Idle
    PROVE  Serial'
<1>1. event' = event /\ session' = session
  BY DEF JobRead, JobWrite, NextDay
<1>2. \A d \in Days : \A x, y \in RowsOf(d)' : x = y
  BY <1>1, DatesStay
<1>3. ASSUME NEW p \in Sessions PROVE Current(session[p])'
  <2>1. CASE streak' = streak
    <3>1. session[p] = Idle \/ session[p].date \in Days
      BY RowTypes DEF SoloInv, SessionRow
    <3> QED
      BY <1>1, <2>1, <3>1, CurrentStays DEF Serial
  <2>2. CASE JobWrite
    <3>1. session'[p] = Idle
      BY <1>1, <2>2 DEF Serial, JobWrite
    <3> QED
      BY <3>1, Kinds DEF Current
  <2> QED
    BY <2>1, <2>2 DEF JobRead, NextDay
<1>4. job' # Idle => job'.read = streak' /\ LapsedStreak(streak)'
  <2>1. CASE JobRead
    BY <2>1 DEF JobRead, LapsedStreak
  <2>2. CASE JobWrite
    BY <2>2 DEF JobWrite
  <2>3. CASE NextDay
    <3>1. streak.last \in Int /\ today \in Int
      BY CalendarAssumption DEF SoloInv, Inv, Tables, StreakRow, Days, NoDate
    <3> QED
      BY <2>3, <3>1 DEF NextDay, LapsedStreak, Serial
  <2> QED
    BY <2>1, <2>2, <2>3
<1> QED
  BY <1>1, <1>2, <1>3, <1>4 DEF Serial

LEMMA SerialStep ==
    ASSUME SoloInv, Next, solo'
    PROVE  Serial'
<1>1. /\ Serial /\ Inv
      /\ \A q, r \in Sessions : session'[q] # Idle /\ session'[r] # Idle => q = r
      /\ job' # Idle => \A q \in Sessions : session'[q] = Idle
  BY SoloStep DEF SoloInv
<1>2. CASE \E p \in Sessions, r \in Reflections, d \in Days, b \in BOOLEAN : Begin(p, r, d, b)
  BY <1>1, <1>2, BeginSerial
<1>3. CASE \E p \in Sessions : FindEvent(p) \/ ReadStreak(p) \/ InsertStreak(p) \/ Commit(p)
  BY <1>1, <1>3, FindEventSerial, ReadStreakSerial, InsertStreakSerial, CommitSerial
<1>4. CASE \E p \in Sessions : CommitSkipped(p) \/ Abort(p)
  BY <1>1, <1>4, SerialMoves DEF CommitSkipped, Abort
<1>5. CASE \E r \in Reflections : DeleteReflection(r)
  BY <1>1, <1>5, DeleteSerial
<1>6. CASE JobRead \/ JobWrite \/ NextDay
  BY <1>1, <1>6, OthersSerial
<1> QED
  BY <1>2, <1>3, <1>4, <1>5, <1>6 DEF Next, Step, Proceed

LEMMA RecordedStep ==
    ASSUME Inv, Recorded, [Next]_vars
    PROVE  Recorded'
<1>1. CASE \E p \in Sessions : Commit(p)
  <2> SUFFICES ASSUME NEW p \in Sessions, Commit(p),
                      NEW x \in Reflections, event'[x] # Gone, event'[x].done
               PROVE  event'[x].date \in everDone'
    BY <1>1 DEF Recorded
  <2> DEFINE s == session[p]
  <2>1. /\ s \in SessionRow /\ s # Idle /\ SessionOK(p) /\ s.pc = "ready"
        /\ everDone' = IF s.done THEN everDone \cup {s.date} ELSE everDone
    BY CommitDoes, RowTypes DEF Inv, Commit
  <2>2. PICK c \in EventRow :
            /\ c.date = s.date
            /\ s.seen = None => event' = [event EXCEPT ![s.rid] = c] /\ (c.done <=> s.done)
            /\ s.seen # None => /\ event' = [event EXCEPT ![s.seen] = c]
                                /\ ~event[s.seen].done => (c.done <=> s.done)
    BY CommitDoes
  <2>3. CASE event'[x] = event[x]
    BY <2>1, <2>3 DEF Recorded
  <2>4. CASE event'[x] # event[x]
    <3>1. event'[x] = c /\ (s.seen = None \/ x = s.seen)
      BY <2>2, <2>4 DEF Inv, Tables
    <3>2. c.done => s.done \/ (s.seen # None /\ event[s.seen].done)
      BY <2>2
    <3>3. s.seen # None =>
              event[s.seen] # Gone /\ event[s.seen].date = s.date /\ s.seen \in Reflections
      BY <2>1 DEF SessionOK, SessionRow
    <3> QED
      BY <2>1, <2>2, <3>1, <3>2, <3>3 DEF Recorded
  <2> QED
    BY <2>3, <2>4
<1>2. CASE \E r \in Reflections : DeleteReflection(r)
  BY <1>2 DEF Recorded, DeleteReflection
<1>3. CASE event' = event /\ everDone' = everDone
  BY <1>3 DEF Recorded
<1>4. \/ \E p \in Sessions : Commit(p)
      \/ \E r \in Reflections : DeleteReflection(r)
      \/ event' = event /\ everDone' = everDone
  BY DEF Next, Step, Proceed, Begin, FindEvent, ReadStreak, InsertStreak, CommitSkipped,
     Abort, JobRead, JobWrite, NextDay, vars, tables
<1> QED
  BY <1>1, <1>2, <1>3, <1>4

LEMMA SoloInvStep == SoloInv /\ [Next]_vars => SoloInv'
<1> SUFFICES ASSUME SoloInv, [Next]_vars PROVE SoloInv'
  OBVIOUS
<1>1. Inv'
  BY StepInv DEF SoloInv
<1>2. IsFiniteSet(BusySet(session))'
  <2>1. IsFiniteSet(BusySet(session'))
    BY SessionsFinite DEF SoloInv
  <2> QED
    BY <2>1
<1>3. ASSUME solo' PROVE Serial'
  <2>1. CASE Next
    BY <1>3, <2>1, SerialStep
  <2>2. CASE UNCHANGED vars
    <3>1. solo /\ UNCHANGED <<today, event, streak, session, job>>
      BY <1>3, <2>2 DEF vars, tables
    <3> QED
      BY <3>1 DEF SoloInv, Serial, Current, RowsOf, LapsedStreak
  <2> QED
    BY <2>1, <2>2
<1>4. Recorded'
  BY RecordedStep DEF SoloInv
<1> QED
  BY <1>1, <1>2, <1>3, <1>4 DEF SoloInv

LEMMA SoloInvInit == Init => SoloInv
<1> SUFFICES ASSUME Init PROVE SoloInv
  OBVIOUS
<1>1. BusySet(session) = {}
  BY DEF Init, BusySet
<1>2. IsFiniteSet(BusySet(session))
  BY <1>1, FS_EmptySet
<1>3. Serial
  <2>1. \A p \in Sessions : session[p] = Idle
    BY DEF Init
  <2>2. \A d \in Days : RowsOf(d) = {}
    BY Kinds DEF Init, RowsOf
  <2>3. \A p \in Sessions : Current(session[p])
    BY <2>1, Kinds DEF Current
  <2> QED
    BY <2>1, <2>2, <2>3 DEF Init, Serial
<1>4. Recorded
  BY DEF Init, Recorded
<1> QED
  BY <1>2, <1>3, <1>4, InitInv DEF SoloInv

LEMMA SoloInvAlways == Spec => []SoloInv
BY SoloInvInit, SoloInvStep, PTL DEF Spec

-----------------------------------------------------------------------------
(* The steps between the awaits implement CheckIn *)

\* EventOn and ReflectionRow of any tables.
OnDate(ev, d) ==
    LET rows == {x \in Reflections : ev[x].date = d}
        row  == ev[CHOOSE x \in rows : TRUE]
    IN  IF rows = {} THEN [mark |-> "none", by |-> None]
        ELSE [mark |-> IF row.done THEN "yes" ELSE "no", by |-> row.by]

LEMMA OnDateIs ==
    /\ \A d : EventOn(d) = OnDate(event, d)
    /\ \A d : EventOn(d)' = OnDate(event', d)
BY DEF EventOn, OnDate, RowsOf

LEMMA OnDateOne ==
    ASSUME NEW ev, NEW d, NEW x \in Reflections,
           \A y \in Reflections : ev[y].date = d <=> y = x
    PROVE  OnDate(ev, d) = [mark |-> IF ev[x].done THEN "yes" ELSE "no", by |-> ev[x].by]
<1>1. {y \in Reflections : ev[y].date = d} = {x}
  OBVIOUS
<1>2. (CHOOSE y \in {x} : TRUE) = x
  OBVIOUS
<1> QED
  BY <1>1, <1>2 DEF OnDate

LEMMA OnDateNone ==
    ASSUME NEW ev, NEW d, \A y \in Reflections : ev[y].date # d
    PROVE  OnDate(ev, d) = [mark |-> "none", by |-> None]
<1>1. {y \in Reflections : ev[y].date = d} = {}
  OBVIOUS
<1> QED
  BY <1>1 DEF OnDate

\* Steps that CheckIn does not see.
LEMMA Stutters ==
    ASSUME UNCHANGED <<today, event, streak, everDone>>,
           \A r \in Reflections : ReflectionRow(r)' = ReflectionRow(r)
    PROVE  UNCHANGED (Atomic!vars)
<1>1. \A d : EventOn(d)' = EventOn(d)
  BY OnDateIs
<1> QED
  BY <1>1 DEF Atomic!vars, Atomic!goalVars, Atomic!checkInVars

LEMMA NextDayMaps ==
    ASSUME NextDay
    PROVE  Atomic!NextDay
<1>1. \A d : EventOn(d)' = EventOn(d)
  BY OnDateIs DEF NextDay
<1>2. \A r : ReflectionRow(r)' = ReflectionRow(r)
  BY DEF NextDay, ReflectionRow, Stored
<1> QED
  BY <1>1, <1>2 DEF NextDay, Atomic!NextDay, Atomic!goalVars, Atomic!checkInVars

LEMMA MergeAlone ==
    ASSUME NEW n \in StreakRow, NEW o
    PROVE  MergeStreak(n, o, o) = n
BY DEF MergeStreak, Written, StreakRow

LEMMA SameStreaks ==
    /\ Atomic!Days = Days /\ Atomic!NoDate = NoDate
    /\ \A s, d, b : Atomic!UpdateStreak("daily", s, d, b) = UpdateStreak("daily", s, d, b)
    /\ \A s : Atomic!Reset(s) = Reset(s)
<1>1. Atomic!Days = Days /\ Atomic!NoDate = NoDate
  BY DEF Atomic!Days, Days, Atomic!NoDate, NoDate
<1>2. ASSUME NEW s, NEW d, NEW b
      PROVE  Atomic!UpdateStreak("daily", s, d, b) = UpdateStreak("daily", s, d, b)
  <2>1. \A l, c : /\ Atomic!Extend(s, d, l) = Extend(s, d, l)
                  /\ Atomic!FollowsDay(c, d) = FollowsDay(c, d)
    BY DEF Atomic!Extend, Extend, Atomic!Larger, Larger, Atomic!FollowsDay, FollowsDay
  <2> QED
    BY <2>1 DEF Atomic!UpdateStreak, UpdateStreak, Atomic!DailyStreak, DailyStreak
<1>3. \A s : Atomic!Reset(s) = Reset(s)
  BY DEF Atomic!Reset, Reset, Atomic!NoDate, NoDate
<1> QED
  BY <1>1, <1>2, <1>3

\* The job writes back what it has read, which is what is there.
LEMMA JobWriteMaps ==
    ASSUME SoloInv, Serial, JobWrite
    PROVE  Atomic!ReconcileDaily
<1>1. /\ UNCHANGED <<today, reflection, event, everDone>> /\ job # Idle
      /\ streak' = MergeStreak(Reset(job.read), job.read, streak)
  BY DEF JobWrite
<1>2. job.read = streak /\ LapsedStreak(streak) /\ streak \in StreakRow
  BY <1>1 DEF Serial, SoloInv, Inv, Tables
<1>3. Reset(streak) \in StreakRow
  BY <1>2 DEF Reset, StreakRow
<1>4. streak' = Reset(streak)
  BY <1>1, <1>2, <1>3, MergeAlone
<1>5. Atomic!Lapsed("goal", "user")
  BY <1>2, SameStreaks DEF Atomic!Lapsed, LapsedStreak
<1>6. \A d : EventOn(d)' = EventOn(d)
  BY <1>1, OnDateIs
<1>7. \A r : ReflectionRow(r)' = ReflectionRow(r)
  BY <1>1 DEF ReflectionRow, Stored
<1> QED
  BY <1>1, <1>4, <1>5, <1>6, <1>7, SameStreaks
     DEF Atomic!ReconcileDaily, Atomic!ResetWhere, Atomic!goalVars

\* The event of a date after a deletion.
LEMMA DeleteOnDate ==
    ASSUME SoloInv, Serial, NEW r \in Reflections, DeleteReflection(r), NEW d \in Days
    PROVE  EventOn(d)' = IF EventOn(d).by = r THEN [mark |-> "none", by |-> None] ELSE EventOn(d)
<1>1. \A x \in Reflections :
          event'[x] = IF event[x] # Gone /\ event[x].by = r THEN Gone ELSE event[x]
  BY DEF DeleteReflection
<1>2. CASE RowsOf(d) = {}
  <2>1. \A x \in Reflections : event[x].date # d /\ event'[x].date # d
    BY <1>1, <1>2, Kinds DEF RowsOf
  <2>2. OnDate(event, d) = [mark |-> "none", by |-> None]
    BY <2>1, OnDateNone
  <2>3. OnDate(event', d) = [mark |-> "none", by |-> None]
    BY <2>1, OnDateNone
  <2> QED
    BY <2>2, <2>3, OnDateIs
<1>3. ASSUME NEW x \in RowsOf(d)
      PROVE  EventOn(d)' = IF EventOn(d).by = r THEN [mark |-> "none", by |-> None] ELSE EventOn(d)
  <2>1. x \in Reflections /\ event[x] # Gone /\ \A y \in Reflections : event[y].date = d <=> y = x
    BY <1>3, Kinds DEF Serial, RowsOf
  <2>2. OnDate(event, d) = [mark |-> IF event[x].done THEN "yes" ELSE "no", by |-> event[x].by]
    BY <2>1, OnDateOne
  <2>3. CASE event[x].by = r
    <3>1. \A y \in Reflections : event'[y].date # d
      BY <1>1, <2>1, <2>3, Kinds
    <3>2. OnDate(event', d) = [mark |-> "none", by |-> None]
      BY <3>1, OnDateNone
    <3> QED
      BY <2>2, <2>3, <3>2, OnDateIs
  <2>4. CASE event[x].by # r
    <3>1. event'[x] = event[x] /\ \A y \in Reflections : event'[y].date = d <=> y = x
      BY <1>1, <2>1, <2>4, Kinds
    <3>2. OnDate(event', d) = [mark |-> IF event'[x].done THEN "yes" ELSE "no",
                               by |-> event'[x].by]
      BY <2>1, <3>1, OnDateOne
    <3> QED
      BY <2>2, <2>4, <3>1, <3>2, OnDateIs
  <2> QED
    BY <2>3, <2>4
<1> QED
  BY <1>2, <1>3

LEMMA DeleteMaps ==
    ASSUME SoloInv, Serial, NEW r \in Reflections, DeleteReflection(r)
    PROVE  Atomic!ModerateReflection(r)
<1>1. /\ Stored(r) /\ UNCHANGED <<today, streak, everDone>>
      /\ reflection' = [reflection EXCEPT ![r] = Gone]
  BY DEF DeleteReflection
<1>2. reflection'[r] = Gone /\ \A x \in Reflections : x # r => reflection'[x] = reflection[x]
  BY <1>1 DEF SoloInv, Inv, Tables
<1>3. \A x \in Reflections : ReflectionRow(x)' =
          IF x = r THEN [owner |-> "nobody", date |-> NoDate, said |-> {}] ELSE ReflectionRow(x)
  BY <1>2 DEF ReflectionRow, Stored
<1>4. ReflectionRow(r).owner # "nobody"
  BY <1>1 DEF ReflectionRow
<1>5. Atomic!Exists(r)
  BY <1>4 DEF Atomic!Exists
<1>6. \A d \in Days :
          EventOn(d)' = IF EventOn(d).by = r THEN [mark |-> "none", by |-> None] ELSE EventOn(d)
  BY DeleteOnDate
<1> QED
  BY <1>1, <1>3, <1>5, <1>6, SameStreaks
     DEF Atomic!ModerateReflection, Atomic!RemoveReflection, Atomic!goalVars, Atomic!Absent,
         Atomic!NoEvent

LEMMA OnDateOpen ==
    ASSUME NEW ev, NEW d, \A x \in Reflections : ev[x].date = d => ~ev[x].done
    PROVE  OnDate(ev, d).mark # "yes"
<1> DEFINE rows == {x \in Reflections : ev[x].date = d}
           y    == CHOOSE x \in rows : TRUE
<1>1. CASE rows = {}
  BY <1>1 DEF OnDate
<1>2. CASE rows # {}
  <2>1. y \in rows
    BY <1>2
  <2>2. ~ev[y].done
    BY <2>1
  <2>3. OnDate(ev, d) = [mark |-> IF ev[y].done THEN "yes" ELSE "no", by |-> ev[y].by]
    BY <1>2 DEF OnDate
  <2> QED
    BY <2>2, <2>3
<1> QED
  BY <1>1, <1>2

LEMMA OnDateSame ==
    ASSUME NEW ev, NEW new, NEW d,
           \A x \in Reflections : ev[x].date = d \/ new[x].date = d => new[x] = ev[x]
    PROVE  OnDate(new, d) = OnDate(ev, d)
<1> DEFINE rows == {x \in Reflections : ev[x].date = d}
           y    == CHOOSE x \in rows : TRUE
<1>1. {x \in Reflections : new[x].date = d} = rows
  OBVIOUS
<1>2. rows # {} => y \in rows
  OBVIOUS
<1>3. rows # {} => new[y] = ev[y]
  BY <1>2
<1> QED
  BY <1>1, <1>3 DEF OnDate

\* An event that says yes is in the history.
LEMMA OnDateDone ==
    ASSUME SoloInv, NEW d \in Days, EventOn(d).mark = "yes"
    PROVE  d \in everDone
<1>1. ~ \A x \in Reflections : event[x].date = d => ~event[x].done
  BY OnDateOpen, OnDateIs
<1>2. PICK x \in Reflections : event[x].date = d /\ event[x].done
  BY <1>1
<1> QED
  BY <1>2, Kinds DEF SoloInv, Recorded

Payload(flags) == [g \in {"goal"} |-> flags]

\* What AddReflection makes of the goal's rows for one flag, and for none.
LEMMA CellOpen ==
    ASSUME NEW r, NEW d \in Days, NEW b \in BOOLEAN, EventOn(d).mark # "yes"
    PROVE  Atomic!Cell("goal", "user", r, d, <<b>>) =
               [event  |-> [mark |-> IF b THEN "yes" ELSE "no", by |-> r],
                streak |-> UpdateStreak("daily", streak, d, b),
                said   |-> {b}]
<1> DEFINE c == [event |-> EventOn(d), streak |-> streak, said |-> {}]
<1>1. Atomic!Cell("goal", "user", r, d, <<b>>) = Atomic!CheckInEntries(c, "daily", r, d, <<b>>)
  BY SameStreaks DEF Atomic!Cell
<1>2. Atomic!CheckInEntries(c, "daily", r, d, <<b>>) = Atomic!CheckInEntry(c, "daily", r, d, b)
  BY DEF Atomic!CheckInEntries
<1>3. ~Atomic!AlreadyDone(c.event) /\ c.streak = streak /\ c.said \cup {b} = {b}
  BY DEF Atomic!AlreadyDone
<1> HIDE DEF c
<1>4. Atomic!CheckInEntry(c, "daily", r, d, b) =
          [event  |-> [mark |-> IF b THEN "yes" ELSE "no", by |-> r],
           streak |-> UpdateStreak("daily", streak, d, b),
           said   |-> {b}]
  BY <1>3, SameStreaks DEF Atomic!CheckInEntry
<1> QED
  BY <1>1, <1>2, <1>4

LEMMA CellNone ==
    ASSUME NEW r, NEW d \in Days
    PROVE  Atomic!Cell("goal", "user", r, d, <<>>) =
               [event |-> EventOn(d), streak |-> streak, said |-> {}]
BY SameStreaks DEF Atomic!Cell, Atomic!CheckInEntries

\* AddReflection, on the rows of the one goal and user.
LEMMA AddMaps ==
    ASSUME NEW r \in Reflections, NEW d \in Days, NEW flags, NEW cell,
           Atomic!Cell("goal", "user", r, d, flags) = cell, cell.said \subseteq BOOLEAN,
           ~Stored(r), today' = today, streak' = cell.streak,
           \A e \in Days : EventOn(e)' = IF e = d THEN cell.event ELSE EventOn(e),
           \A x \in Reflections : ReflectionRow(x)' =
               IF x = r THEN [owner |-> "user", date |-> d, said |-> {"goal"} \X cell.said]
               ELSE ReflectionRow(x),
           everDone' = IF cell.event.mark = "yes" THEN everDone \cup {d} ELSE everDone
    PROVE  Atomic!AddReflection("user", r, d, Payload(flags))
<1>1. Payload(flags)["goal"] = flags
  BY DEF Payload
<1>2. Atomic!Accepted("user", Payload(flags))
  BY DEF Atomic!Accepted
<1>3. ~Atomic!Exists(r)
  BY DEF Atomic!Exists, ReflectionRow
<1>4. {p \in {"goal"} \X BOOLEAN :
           p[2] \in Atomic!Cell(p[1], "user", r, d, Payload(flags)[p[1]]).said}
          = {"goal"} \X cell.said
  <2>1. \A p \in {"goal"} \X BOOLEAN : p[1] = "goal"
    OBVIOUS
  <2>2. \A p \in {"goal"} \X BOOLEAN :
            Atomic!Cell(p[1], "user", r, d, Payload(flags)[p[1]]) = cell
    BY <1>1, <2>1
  <2> QED
    BY <2>2
<1>5. ASSUME NEW g \in {"goal"}
      PROVE  Atomic!Cell(g, "user", r, d, Payload(flags)[g]) = cell
  BY <1>1
<1> DEFINE A == [g \in {"goal"} |-> [u \in {"user"} |-> [e \in Days |-> EventOn(e)]]]
           S == [g \in {"goal"} |-> [u \in {"user"} |-> streak]]
           H == [g \in {"goal"} |-> [u \in {"user"} |-> everDone]]
           R == [x \in Reflections |-> ReflectionRow(x)]
<1>6. A' = [g \in {"goal"} |-> [A[g] EXCEPT !["user"][d] =
                Atomic!Cell(g, "user", r, d, Payload(flags)[g]).event]]
  <2>1. [g \in {"goal"} |-> [A[g] EXCEPT !["user"][d] =
                Atomic!Cell(g, "user", r, d, Payload(flags)[g]).event]]
            = [g \in {"goal"} |-> [A[g] EXCEPT !["user"][d] = cell.event]]
    BY <1>5
  <2>2. A' = [g \in {"goal"} |-> [A[g] EXCEPT !["user"][d] = cell.event]]
    OBVIOUS
  <2> QED
    BY <2>1, <2>2
<1>7. S' = [g \in {"goal"} |-> [S[g] EXCEPT !["user"] =
                Atomic!Cell(g, "user", r, d, Payload(flags)[g]).streak]]
  BY <1>5
<1>8. R' = [R EXCEPT ![r] = [owner |-> "user", date |-> d,
                             said |-> {p \in {"goal"} \X BOOLEAN :
                                 p[2] \in Atomic!Cell(p[1], "user", r, d,
                                                      Payload(flags)[p[1]]).said}]]
  BY <1>4
<1>9. H' = [g \in {"goal"} |-> [H[g] EXCEPT !["user"] =
                IF Atomic!AlreadyDone(A[g]["user"][d])' THEN @ \cup {d} ELSE @]]
  BY DEF Atomic!AlreadyDone
<1>10. UNCHANGED <<today, {"user"}, Atomic!goalVars>>
  BY DEF Atomic!goalVars
<1> QED
  BY Zenon, <1>2, <1>3, <1>6, <1>7, <1>8, <1>9, <1>10 DEF Atomic!AddReflection

\* The row that a lone session writes is the one of its date.
LEMMA CommitOne ==
    ASSUME SoloInv, Serial, NEW p \in Sessions, Commit(p)
    PROVE  LET s == session[p]
           IN  \E x \in Reflections, c \in EventRow :
                  /\ event' = [event EXCEPT ![x] = c]
                  /\ c.date = s.date /\ c.by = s.rid /\ (c.done <=> s.done)
                  /\ \A y \in Reflections : event[y].date = s.date => y = x /\ ~event[y].done
                  /\ event[x] = Gone \/ event[x].date = s.date
<1> DEFINE s == session[p]
<1>1. s \in SessionRow /\ s # Idle /\ s.pc = "ready" /\ SessionOK(p) /\ Current(s)
  BY CommitDoes, RowTypes DEF SoloInv, Inv, Serial
<1>2. \A y \in Reflections : event[y].date = s.date => y = s.seen /\ ~event[y].done
  BY <1>1 DEF Current, RowsOf
<1>3. PICK c \in EventRow :
          /\ c.date = s.date /\ c.by = s.rid
          /\ s.seen = None => event' = [event EXCEPT ![s.rid] = c] /\ (c.done <=> s.done)
          /\ s.seen # None => /\ event' = [event EXCEPT ![s.seen] = c]
                              /\ ~event[s.seen].done => (c.done <=> s.done)
  BY CommitDoes DEF SoloInv
<1>4. CASE s.seen = None
  <2>1. \A y \in Reflections : event[y].date # s.date
    BY <1>2, <1>4, SessionAssumption
  <2>2. s.rid \in Reflections /\ event[s.rid] = Gone
    BY <1>1 DEF SessionOK, SessionRow
  <2> QED
    BY <1>3, <1>4, <2>1, <2>2
<1>5. CASE s.seen # None
  <2>1. s.seen \in Reflections /\ event[s.seen].date = s.date
    BY <1>1, <1>5 DEF SessionOK, SessionRow
  <2> QED
    BY <1>2, <1>3, <1>5, <2>1
<1> QED
  BY <1>4, <1>5

LEMMA CommitMaps ==
    ASSUME SoloInv, Serial, NEW p \in Sessions, Commit(p)
    PROVE  \E r \in Reflections, d \in Days, b \in BOOLEAN :
               Atomic!AddReflection("user", r, d, Payload(<<b>>))
<1>1. PICK s : s = session[p]
  OBVIOUS
<1>2. /\ s \in SessionRow /\ s # Idle /\ s.pc = "ready" /\ SessionOK(p) /\ Current(s)
      /\ Inv /\ streak \in StreakRow
  BY <1>1, CommitDoes, RowTypes DEF SoloInv, Inv, Serial, Tables
<1>3. /\ reflection' = [reflection EXCEPT ![s.rid] = [date |-> s.date, said |-> {s.done}]]
      /\ streak' = MergeStreak(UpdateStreak("daily", s.read, s.date, s.done), s.read, streak)
      /\ everDone' = IF s.done THEN everDone \cup {s.date} ELSE everDone
      /\ today' = today
  BY <1>1 DEF Commit
<1>4. PICK r \in Reflections : r = s.rid
  BY <1>2 DEF SessionRow
<1>5. PICK d \in Days : d = s.date
  BY <1>2 DEF SessionRow
<1>6. PICK b \in BOOLEAN : b = s.done
  BY <1>2 DEF SessionRow
<1>7. PICK x \in Reflections, c \in EventRow :
          /\ event' = [event EXCEPT ![x] = c]
          /\ c.date = d /\ c.by = r /\ (c.done <=> s.done)
          /\ \A y \in Reflections : event[y].date = d => y = x /\ ~event[y].done
          /\ event[x] = Gone \/ event[x].date = d
  BY <1>1, <1>4, <1>5, CommitOne
<1>8. \A y \in Reflections : event'[y] = IF y = x THEN c ELSE event[y]
  BY <1>2, <1>7 DEF Inv, Tables
<1> DEFINE cell == [event  |-> [mark |-> IF b THEN "yes" ELSE "no", by |-> r],
                    streak |-> UpdateStreak("daily", streak, d, b),
                    said   |-> {b}]
<1>9. Atomic!Cell("goal", "user", r, d, <<b>>) = cell
  <2>1. OnDate(event, d).mark # "yes"
    BY <1>7, OnDateOpen
  <2> QED
    BY <2>1, OnDateIs, CellOpen
<1>10. ASSUME NEW e \in Days
       PROVE  EventOn(e)' = IF e = d THEN [mark |-> IF b THEN "yes" ELSE "no", by |-> r]
                            ELSE EventOn(e)
  <2>1. CASE e = d
    <3>1. \A y \in Reflections : event'[y].date = d <=> y = x
      BY <1>7, <1>8
    <3>2. OnDate(event', d) = [mark |-> IF event'[x].done THEN "yes" ELSE "no",
                               by |-> event'[x].by]
      BY <3>1, OnDateOne
    <3>3. event'[x].by = r /\ (event'[x].done <=> b)
      BY <1>6, <1>7, <1>8
    <3>4. OnDate(event', d) = [mark |-> IF b THEN "yes" ELSE "no", by |-> r]
      BY <3>2, <3>3
    <3> QED
      BY <2>1, <3>4, OnDateIs
  <2>2. CASE e # d
    <3>1. \A y \in Reflections : event[y].date = e \/ event'[y].date = e => event'[y] = event[y]
      BY <1>7, <1>8, <2>2, Kinds
    <3>2. OnDate(event', e) = OnDate(event, e)
      BY <3>1, OnDateSame
    <3> QED
      BY <2>2, <3>2, OnDateIs
  <2> QED
    BY <2>1, <2>2
<1>11. streak' = UpdateStreak("daily", streak, d, b)
  <2>1. s.read = streak
    BY <1>2 DEF Current
  <2>2. UpdateStreak("daily", streak, d, b) \in StreakRow
    BY <1>2, UpdateStreakType
  <2> QED
    BY <1>3, <1>5, <1>6, <2>1, <2>2, MergeAlone
<1>12. ~Stored(r)
  BY <1>1, <1>2, <1>4 DEF SessionOK, Stored
<1>13. ASSUME NEW y \in Reflections
       PROVE  ReflectionRow(y)' = IF y = r
                   THEN [owner |-> "user", date |-> d, said |-> {"goal"} \X {b}]
                   ELSE ReflectionRow(y)
  <2>1. CASE y = r
    <3> DEFINE row == [date |-> d, said |-> {b}]
    <3>1. reflection'[r] = row
      BY <1>2, <1>3, <1>4, <1>5, <1>6 DEF Inv, Tables
    <3>2. row.date = d /\ row.said = {b}
      OBVIOUS
    <3> HIDE DEF row
    <3>3. reflection'[r] \notin {Gone, Unused}
      BY <3>1, <3>2, CalendarAssumption DEF Gone, Unused, Days, NoDate
    <3> QED
      BY <2>1, <3>1, <3>2, <3>3 DEF ReflectionRow, Stored
  <2>2. CASE y # r
    <3>1. reflection'[y] = reflection[y]
      BY <1>2, <1>3, <1>4, <2>2 DEF Inv, Tables
    <3> QED
      BY <2>2, <3>1 DEF ReflectionRow, Stored
  <2> QED
    BY <2>1, <2>2
<1>14. everDone' = IF (IF b THEN "yes" ELSE "no") = "yes" THEN everDone \cup {d} ELSE everDone
  BY <1>3, <1>5, <1>6
<1>15. /\ cell.event = [mark |-> IF b THEN "yes" ELSE "no", by |-> r]
       /\ cell.event.mark = IF b THEN "yes" ELSE "no"
       /\ cell.streak = UpdateStreak("daily", streak, d, b) /\ cell.said = {b}
  OBVIOUS
<1> HIDE DEF cell
<1>16. Atomic!AddReflection("user", r, d, Payload(<<b>>))
  BY <1>3, <1>9, <1>10, <1>11, <1>12, <1>13, <1>14, <1>15, AddMaps
<1> QED
  BY <1>16

\* A skipped goal: the reflection is added, with no snapshot.
LEMMA CommitSkippedMaps ==
    ASSUME SoloInv, NEW p \in Sessions, CommitSkipped(p)
    PROVE  \E r \in Reflections, d \in Days :
               Atomic!AddReflection("user", r, d, Payload(<<>>))
<1>1. PICK s : s = session[p]
  OBVIOUS
<1>2. s.pc = "skip" /\ Inv
  BY <1>1 DEF CommitSkipped, SoloInv
<1>3. s \in SessionRow /\ s # Idle /\ SessionOK(p)
  BY <1>1, <1>2, AtWork DEF Stages, Inv
<1>4. PICK r \in Reflections : r = s.rid
  BY <1>3 DEF SessionRow
<1>5. PICK d \in Days : d = s.date
  BY <1>3 DEF SessionRow
<1>6. /\ reflection' = [reflection EXCEPT ![r] = [date |-> d, said |-> {}]]
      /\ UNCHANGED <<today, event, streak, everDone>>
  BY <1>1, <1>4, <1>5 DEF CommitSkipped
<1> DEFINE cell == [event |-> EventOn(d), streak |-> streak, said |-> {}]
<1>7. Atomic!Cell("goal", "user", r, d, <<>>) = cell
  BY CellNone
<1>8. \A e \in Days : EventOn(e)' = IF e = d THEN EventOn(d) ELSE EventOn(e)
  BY <1>6, OnDateIs
<1>9. ~Stored(r)
  BY <1>1, <1>3, <1>4 DEF SessionOK, Stored
<1>10. ASSUME NEW y \in Reflections
       PROVE  ReflectionRow(y)' = IF y = r
                   THEN [owner |-> "user", date |-> d, said |-> {"goal"} \X {}]
                   ELSE ReflectionRow(y)
  <2>1. CASE y = r
    <3> DEFINE row == [date |-> d, said |-> {}]
    <3>1. reflection'[r] = row
      BY <1>2, <1>6 DEF Inv, Tables
    <3>2. row.date = d /\ row.said = {}
      OBVIOUS
    <3> HIDE DEF row
    <3>3. reflection'[r] \notin {Gone, Unused}
      BY <3>1, <3>2, CalendarAssumption DEF Gone, Unused, Days, NoDate
    <3> QED
      BY <2>1, <3>1, <3>2, <3>3 DEF ReflectionRow, Stored
  <2>2. CASE y # r
    <3>1. reflection'[y] = reflection[y]
      BY <1>2, <1>6, <2>2 DEF Inv, Tables
    <3> QED
      BY <2>2, <3>1 DEF ReflectionRow, Stored
  <2> QED
    BY <2>1, <2>2
<1>11. everDone' = IF EventOn(d).mark = "yes" THEN everDone \cup {d} ELSE everDone
  BY <1>6, OnDateDone
<1>12. /\ cell.event = EventOn(d) /\ cell.streak = streak /\ cell.said = {}
  OBVIOUS
<1> HIDE DEF cell
<1>13. /\ streak' = cell.streak /\ cell.said \subseteq BOOLEAN /\ today' = today
       /\ \A e \in Days : EventOn(e)' = IF e = d THEN cell.event ELSE EventOn(e)
       /\ \A x \in Reflections : ReflectionRow(x)' =
               IF x = r THEN [owner |-> "user", date |-> d, said |-> {"goal"} \X cell.said]
               ELSE ReflectionRow(x)
       /\ everDone' = IF cell.event.mark = "yes" THEN everDone \cup {d} ELSE everDone
  BY <1>6, <1>8, <1>10, <1>11, <1>12
<1>14. Atomic!AddReflection("user", r, d, Payload(<<>>))
  BY <1>7, <1>9, <1>13, AddMaps
<1> QED
  BY <1>14

\* A session's steps up to its commit show in no row that CheckIn has.
LEMMA SessionStutters ==
    ASSUME \/ \E p \in Sessions, r \in Reflections, d \in Days, b \in BOOLEAN : Begin(p, r, d, b)
           \/ \E p \in Sessions : \/ FindEvent(p) \/ ReadStreak(p) \/ InsertStreak(p) \/ Abort(p)
           \/ JobRead,
           Inv
    PROVE  UNCHANGED (Atomic!vars)
<1>1. UNCHANGED <<today, event, streak, everDone>>
  BY DEF Begin, FindEvent, ReadStreak, InsertStreak, Abort, JobRead
<1>2. \/ reflection' = reflection
      \/ \E r \in Reflections : reflection[r] = Unused /\ reflection' = [reflection EXCEPT ![r] = Gone]
  BY DEF Begin, FindEvent, ReadStreak, InsertStreak, Abort, JobRead
<1>3. \A r \in Reflections : ReflectionRow(r)' = ReflectionRow(r)
  BY <1>2 DEF Inv, Tables, ReflectionRow, Stored
<1> QED
  BY <1>1, <1>3, Stutters

LEMMA AddIsNext ==
    ASSUME NEW r \in Reflections, NEW d \in Days, NEW flags \in Atomic!Flags,
           Atomic!AddReflection("user", r, d, Payload(flags))
    PROVE  Atomic!Next
<1>1. Payload(flags) \in [{"goal"} -> Atomic!Flags] /\ "user" \in {"user"} /\ d \in Atomic!Days
  BY SameStreaks DEF Payload
<1> QED
  BY Zenon, <1>1 DEF Atomic!Next

LEMMA SimulationStep ==
    ASSUME SoloInv, Next, solo'
    PROVE  Atomic!Next \/ UNCHANGED (Atomic!vars)
<1>1. Serial /\ Inv
  BY SoloStep DEF SoloInv
<1>2. ASSUME NEW p \in Sessions, Commit(p) PROVE Atomic!Next
  <2>1. PICK r \in Reflections, d \in Days, b \in BOOLEAN :
            Atomic!AddReflection("user", r, d, Payload(<<b>>))
    BY <1>1, <1>2, CommitMaps
  <2>2. <<b>> \in Atomic!Flags
    BY DEF Atomic!Flags
  <2> QED
    BY <2>1, <2>2, AddIsNext
<1>3. ASSUME NEW p \in Sessions, CommitSkipped(p) PROVE Atomic!Next
  <2>1. PICK r \in Reflections, d \in Days : Atomic!AddReflection("user", r, d, Payload(<<>>))
    BY <1>3, CommitSkippedMaps
  <2>2. <<>> \in Atomic!Flags
    BY DEF Atomic!Flags
  <2> QED
    BY <2>1, <2>2, AddIsNext
<1>4. ASSUME NEW r \in Reflections, DeleteReflection(r) PROVE Atomic!Next
  BY Zenon, <1>1, <1>4, DeleteMaps DEF Atomic!Next
<1>5. CASE JobWrite
  BY Zenon, <1>1, <1>5, JobWriteMaps DEF Atomic!Next
<1>6. CASE NextDay
  BY Zenon, <1>6, NextDayMaps DEF Atomic!Next
<1>7. CASE \/ \E p \in Sessions, r \in Reflections, d \in Days, b \in BOOLEAN : Begin(p, r, d, b)
           \/ \E p \in Sessions : \/ FindEvent(p) \/ ReadStreak(p) \/ InsertStreak(p) \/ Abort(p)
           \/ JobRead
  BY <1>1, <1>7, SessionStutters
<1> QED
  BY <1>2, <1>3, <1>4, <1>5, <1>6, <1>7 DEF Next, Step, Proceed

\* The steps between the awaits add up to what CheckIn does in one: while no two
\* transactions have overlapped, every step of add_reflection, of a deletion and
\* of the daily job is a step of CheckIn or leaves all its rows as they are.
THEOREM SerialStepsAreAtomic == Spec => ImplementsCheckIn
<1>1. SoloInv /\ [Next]_vars => [solo' => [Atomic!Next]_(Atomic!vars)]_vars
  BY SimulationStep
<1> QED
  BY <1>1, SoloInvAlways, PTL DEF Spec, ImplementsCheckIn
=============================================================================
