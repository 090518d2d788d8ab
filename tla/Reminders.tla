------------------------------- MODULE Reminders ------------------------------
(***************************************************************************)
(* The two reminder jobs and their text messages, while accounts come, go  *)
(* and change their preferences:                                           *)
(*   app/modules/reminders/service.py, app/modules/sms/twilio_service.py,  *)
(*   app/cli/run_checkin_reminders.py, app/cli/run_evening_reminder.py.    *)
(*                                                                         *)
(* A job is a process of its own. It reads its recipients once and then    *)
(* takes them in the order the database gave them. The handler of the      *)
(* event it emits writes in the session of the job: an insert that fails   *)
(* is caught there, but has expired every row the job holds, and the next  *)
(* one it touches ends it.                                                 *)
(***************************************************************************)
EXTENDS Accounts

CONSTANTS
    Jobs,           \* runs of a reminder command
    LastDay         \* bound: the last day of the clock

ASSUME RemindersAssumption ==
    /\ Jobs \cap Ids = {} /\ None \notin Jobs
    /\ LastDay \in Nat

VARIABLES
    day,         \* today, in UTC
    reflected,   \* reflections: users.id and reflection_date
    notes,       \* notifications of the reminder types
    smsLog,      \* sms_logs
    job,         \* the progress of each job
    overlapped,  \* history: kinds of which two jobs ran at a time
    killed       \* history: jobs that were killed

tables == <<reflected, notes, smsLog>>
reminderVars == <<accountVars, tables, day, job, overlapped, killed>>

Kinds == {"checkin", "evening"}

NoJob == [pc |-> "idle", kind |-> "none", day |-> 0, rows |-> {}, due |-> {}, left |-> {},
          at |-> None]
Running(j) == job[j].pc \notin {"idle", "done", "dead"}

Put(j, s) == job' = [job EXCEPT ![j] = s]
Go(j, pc) == Put(j, [job[j] EXCEPT !.pc = pc])

\* The rows of the join of users and user_preferences, as they are now.
Recipients(k) ==
    {[id |-> users[e].id, reminder |-> prefs[users[e].id].reminder,
      sms |-> prefs[users[e].id].sms, phone |-> users[e].phone] :
        e \in {x \in People : /\ users[x] # None
                              /\ prefs[users[x].id] # None
                              /\ IF k = "checkin" THEN prefs[users[x].id].checkin
                                 ELSE prefs[users[x].id].reminder}}

\* Whose hour and day it is by checkin_time and checkin_frequency. The evening
\* job has no such thing.
DueSets(k) == IF k = "checkin" THEN SUBSET Recipients(k) ELSE {Recipients(k)}

\* The job records who is due, but nothing looks at it: both comparisons are
\* commented out.
Start(j, k) ==
    /\ job[j] = NoJob
    /\ \E due \in DueSets(k) :
          Put(j, [NoJob EXCEPT !.pc = "next", !.kind = k, !.day = day, !.due = due,
                               !.rows = Recipients(k), !.left = Recipients(k)])
    /\ overlapped' = IF \E i \in Jobs : Running(i) /\ job[i].kind = k
                     THEN overlapped \cup {k} ELSE overlapped
    /\ UNCHANGED <<accountVars, tables, day, killed>>

\* The next recipient; a check-in reminder is only for those who want it and have
\* not checked in for today.
Look(j) ==
    LET s == job[j]
    IN  /\ s.pc = "next"
        /\ \/ s.left = {} /\ Go(j, "done")
           \/ \E c \in s.left :
                 LET skip == s.kind = "checkin" /\ (~c.reminder \/ <<c.id, s.day>> \in reflected)
                 IN  Put(j, [s EXCEPT !.left = @ \ {c}, !.at = IF skip THEN None ELSE c,
                                      !.pc = IF skip THEN "next" ELSE "reminded"])
        /\ UNCHANGED <<accountVars, tables, day, overlapped, killed>>

FaultyReminded(s) == \E n \in notes : n.id = s.at.id /\ n.day = s.day
FaultyRemindedEver(s) == FALSE

\* A notification of this kind dated on the day the job began.
Reminded(s) == \E n \in notes : n.id = s.at.id /\ n.kind = s.kind /\ n.day = s.day

\* The evening reminder is for those who want text messages.
Decide(j) ==
    LET s == job[j]
        wanted == s.kind = "evening" => s.at.sms
    IN  /\ s.pc = "reminded"
        /\ Go(j, IF wanted /\ ~Reminded(s) THEN "emit" ELSE "next")
        /\ UNCHANGED <<accountVars, tables, day, overlapped, killed>>

\* The notification has the date of the moment. A text message follows, by what
\* was read when the job began.
Emit(j) ==
    LET s == job[j]
    IN  /\ s.pc = "emit"
        /\ IF Live(s.at.id)
           THEN /\ notes' = notes \cup {[id |-> s.at.id, kind |-> s.kind, day |-> day, job |-> j]}
                /\ Go(j, IF s.at.sms /\ s.at.phone THEN "log" ELSE "next")
           ELSE Go(j, "dead") /\ UNCHANGED notes
        /\ UNCHANGED <<accountVars, reflected, smsLog, day, overlapped, killed>>

\* send_sms logs the message whether Twilio took it or refused it. A log row of a
\* deleted account fails, and nobody catches that.
LogSms(j) ==
    /\ job[j].pc = "log"
    /\ IF Live(job[j].at.id)
       THEN /\ smsLog' = smsLog \cup {[id |-> job[j].at.id, kind |-> job[j].kind, job |-> j]}
            /\ Go(j, "next")
       ELSE Go(j, "dead") /\ UNCHANGED smsLog
    /\ UNCHANGED <<accountVars, reflected, notes, day, overlapped, killed>>

Kill(j) ==
    /\ Running(j) /\ killed = {}
    /\ killed' = {j}
    /\ Go(j, "dead")
    /\ UNCHANGED <<accountVars, tables, day, overlapped>>

\* A reflection of some day. Its deletion is left out: to a job that has looked it
\* makes no difference, to one that looks later it is as if it had not been.
Reflect(e, d) ==
    /\ users[e] # None
    /\ reflected' = reflected \cup {<<users[e].id, d>>}
    /\ UNCHANGED <<accountVars, notes, smsLog, day, job, overlapped, killed>>

NextDay ==
    /\ day < LastDay /\ day' = day + 1
    /\ UNCHANGED <<accountVars, tables, job, overlapped, killed>>

\* Rows go with their account (ON DELETE CASCADE).
Cascade ==
    /\ notes' = {n \in notes : Live(n.id)'}
    /\ smsLog' = {n \in smsLog : Live(n.id)'}
    /\ reflected' = {x \in reflected : Live(x[1])'}

ReminderInit ==
    /\ AccountInit
    /\ day = 0 /\ reflected = {} /\ notes = {} /\ smsLog = {}
    /\ job = [j \in Jobs |-> NoJob]
    /\ overlapped = {} /\ killed = {}

JobStep(j) == Look(j) \/ Decide(j) \/ Emit(j) \/ LogSms(j) \/ Kill(j)

ReminderNext ==
    \/ /\ AccountStep \/ \E r \in Requests : Arrive(r)
       /\ Cascade
       /\ UNCHANGED <<day, job, overlapped, killed>>
    \/ \E j \in Jobs, k \in Kinds : Start(j, k)
    \/ \E j \in Jobs : JobStep(j)
    \/ \E e \in Movers, d \in 0 .. LastDay : Reflect(e, d)
    \/ NextDay

-----------------------------------------------------------------------------
(* Properties *)

\* Every row has an account: the deletion of one leaves nothing behind.
ReminderTypeOK ==
    /\ AccountTypeOK
    /\ day \in 0 .. LastDay
    /\ \A n \in notes : Live(n.id) /\ n.kind \in Kinds /\ n.day \in 0 .. day
    /\ \A n \in smsLog : Live(n.id)
    /\ \A x \in reflected : Live(x[1])
    /\ \A j \in Jobs : job[j].left \subseteq job[j].rows

\* One reminder of a kind a day, however often its job is run, also past
\* midnight, as long as no two jobs of the kind ran at a time.
OnceADay ==
    \A m, n \in notes :
        m.id = n.id /\ m.kind = n.kind /\ m.day = n.day /\ m.kind \notin overlapped => m = n

Wants(c, k) == IF k = "checkin" THEN c.reminder ELSE c.sms

Answered(j, c) ==
    \/ \E n \in notes : n.id = c.id /\ n.kind = job[j].kind /\ n.day >= job[j].day
    \/ job[j].kind = "checkin" /\ <<c.id, job[j].day>> \in reflected
    \/ ~Live(c.id)

\* A job that comes to its end has left out nobody of those it had read: whoever
\* was due and wanted the reminder, by what was read then, has it, had checked in
\* for the day, or has no account any more. And one that dies was killed, or has
\* met a recipient whose account had gone.
NobodyLeftOut ==
    \A j \in Jobs :
        /\ job[j].pc = "done" =>
              \A c \in job[j].due : Wants(c, job[j].kind) => Answered(j, c)
        /\ job[j].pc = "dead" => j \in killed \/ ~Live(job[j].at.id)
=============================================================================
