# GoalCrew in TLA+

A formal model of the GoalCrew backend (`src/`): TLA+ modules that follow its services, TLC runs on
small instances, and TLAPS proofs for every value of the constants. The backend is a FastAPI
application over PostgreSQL. Members of a *pod* set *goals*, *check in* every day or week by
submitting a *reflection*, and keep *streaks*.

## 1. The system

### Components

| Component | State it keeps | Operations | Correct when |
|---|---|---|---|
| Check-ins (`modules/reflections`, `modules/pod_updates`) | `reflections`, `reflection_goals` (snapshots), `goal_progress_events` | `add_reflection`, `delete_reflection`, `delete_pod_update` | events, snapshots and reflections agree; one date is completed once; a completion is taken back only by deleting it |
| Streaks (`update_goal_streak`) | `goal_streaks` | called by `add_reflection` for each goal | a streak counts each date or week once, without a gap, and `longest_streak` never falls |
| Streak reconciliation (`services/goal_streak_reconciliation_*`) | `goal_streaks` | a daily and a weekly job | breaks the streaks that can no longer be extended, of active goals |
| Goals (`modules/goals`) | `pod_goals`, `pod_goal_participants` | create, batch, update, delete; two lists and a detail page | frequency rules; deletion leaves no rows; the pages agree with each other and with the jobs |
| Pods and membership (`modules/pods`) | `pods`, `pod_members` | create, join, leave, change role, activate and deactivate, delete | a pod keeps an active member and an owner; ownership is handed over |
| Administration (`modules/admin`) | the same tables and `users` | delete accounts, pods, goals, check-ins, comments, log entries; remove members | deletion leaves no pod without a row and no row without its account |
| Chatbot (`modules/chatbot`) | `chatbot_query_logs` | `ask_question` | no minute and no day has more calls than the quota |
| Events and notifications (`modules/events`, `modules/notifications`), activity log | `notifications`, `activity_logs` | `emit`, `handle_event`, mark as read | whoever is concerned is told, once, of what was committed and of nothing else |
| Reactions, comments (`modules/reflections_likes`, `modules/reflections_comments`) | their tables | toggle, remove, comment, delete | at most one reaction per user and post; rows go with their post and their author |
| Accounts (`modules/users`, `firebase`), preferences | `users`, `user_preferences`, Firebase | register, sign in, delete, change preferences | an account is announced once it is there; preferences go with it |
| Reminders and SMS (`modules/reminders`, `modules/sms`) | `notifications`, `sms_logs` | two commands | one reminder a day, at the hour one chose, for everybody who wants it; every text message is logged |
| Photos and their cleanup (`add_reflection_attachment`, `services/attachment_cleanup_service.py`) | files and `reflection_attachments` | upload; a cron command | a photo is kept as long as its owner wished; a row has its file |
| Statistics and pages (`modules/pod_stats`, the lists of `modules/pods`, `modules/pod_updates`, `modules/admin`) | – | read | the pages agree with each other |
| Cron (`docker/cron`), reports, analytics, migrations | – | a table of commands, PDF rendering, stubs, generated code | – |

`PROJECT.json` lists every component with its sources and status, and under `hazards` each place
where this code is hard to test.

### How the components interact

* **Requests are transactions.** Every request gets an `AsyncSession` of its own
  (`app/db/session.py`), at PostgreSQL's READ COMMITTED level, and most services commit once at the
  end. A refused request, or an exception caught by the service, rolls back.
* **Every `await` is an interleaving point.** A service that reads, awaits and writes may write over
  what others committed meanwhile. The ORM sends only the columns whose value changed, rows written
  before the commit are locked until the session ends, and nothing locks rows that were only read.
* **Shared tables.** `add_reflection`, the three ways of deleting a reflection, goal deletion and
  both reconciliation jobs write the same event and streak rows; the goal pages read
  them by two different routes (events, snapshots).
* **Callbacks.** A service that has committed emits an event. The handler runs within the same
  request, awaited by it, but in a database session of its own (`app/main.py`); it writes the
  activity log, selects the receivers and writes the notifications. Nothing keeps an event that was
  not handled. In the reminder jobs the handler gets the session of the job itself.
* **Two stores.** Firebase and the file system are written by calls that no rollback takes back.
* **Jobs** run as processes of their own, beside the server. `docker/cron/cleanup-jobs` starts the
  photo cleanup and names a reconciliation command that does not exist; no file of the repository
  starts the other jobs.

What is hard here: overlapping requests on one row (check-ins of one date, members who leave
together, questions at one moment), long sequences of legal calls (backfills, corrections, frequency
changes, owners who leave and return), calendar boundaries (ISO weeks and years, the last closed
week, the two-day cutoff), failures between flushes or between two stores, a restart between a
commit and its event, jobs that work on what they read at their start, and several readings of the
same data.

## 2. The modules

| Module | Models | Correspondence |
|---|---|---|
| `Streaks` | one `goal_streaks` row and the calendar | `UpdateStreak` is `update_goal_streak`, by frequency type; `IsoWeek` is `iso_week`; `Reset` is what both jobs write |
| `CheckIn` | goals, reflections, events and streaks of one pod, each request as one transaction | one action per request: `AddReflection`, `DeleteReflection`, `ModerateReflection`, `DeleteCheckin`, `CreateGoal`, `CreateGoalsBatch`, `UpdateGoal`, `DeleteGoal`, `AdminDeleteGoal`; `ReconcileDaily`, `ReconcileWeekly`; the calendar and the membership as environment |
| `GoalViews` | what the goal lists and the goal page show of those rows | `MyTodayStatus`, `PodTodayStatus` are the two lists, of the goals that are `Listed`; `Level`, `Last7` are the page of `get_goal` over its thirty days, `UpdateLevels`, `UpdateLast7` the same in the answer to `update_goal` |
| `CheckInSessions` | the check-ins of one user for one goal, from await to await, with the daily job | `Begin`, `FindEvent`, `ReadStreak`, `InsertStreak`, `Commit` are the stretches of `add_reflection` between its awaits; `Abort` is a rollback |
| `Membership` | accounts, pods and `pod_members`, each request as one transaction | one action per request of `modules/pods` that changes rows, and the account and pod deletions of `modules/admin` |
| `MembershipSessions` | `leave_pod`, `toggle_member_active` and account deletion from await to await | `Leave…`, `Toggle…` with `Find`, `Count`, `Heir`, `Commit`; `DeleteFind`, `DeleteScan` (one pod), `DeleteCommit`; the requests that decide on one row stay `Whole` |
| `ChatQuota` | one user's calls of the language model | `Ask`, `CountMinute`, `CountDay`, `LogCall` are `ask_question` up to its commit |
| `PodViews` | what statistics, heat map, leaderboard, feed, posts and admin pages show of the rows of `CheckIn` | `WeeklyCheckIns`, `Contribution`, `Score`, `Feed`, `PostGoals`, `AdminLast7`, … are the queries of these pages; `Items` is one feed item per photo |
| `Engagement` | reactions, comments, joining and new goals in one pod, with the events they raise | `ToggleRead`, `ReactFirst`, `CommentWrite`, … are the stretches of a request up to its commit; `LogAct`, `Choose`, `Notify` those of `handle_event`; leaving, preferences, deletions and a restart come in between |
| `Accounts` | Firebase, `users` and `user_preferences` | `RegisterRead`, `RegisterFirebase`, `Insert`, `Announce`; `SignIn`, `ByEmail`, `Link`; `DeleteRead`, `DeleteFirebase`, `DeleteRow`; `PrefsRead`, `PrefsWrite`; `SignUp` and `Restart` |
| `Reminders` | both reminder jobs and their text messages, among the accounts | `Start`, `Look`, `Decide`, `Emit`, `LogSms` for one recipient after the other; `Kill` |
| `Attachments` | photos, their files and rows, and the cleanup job, among all this | `Upload`, `InsertPhoto`; `StartCleanup`, `CleanupNext`, `CleanupEnd`, `KillCleanup`; `SetExpiry`, `DeletePost` |

`CheckIn` extends `Streaks`, `GoalViews` extends `CheckIn`, `PodViews` extends `GoalViews`; `Reminders`
extends `Accounts` and `Attachments` extends `Reminders`, each taking the steps of the one before and
adding what goes with a deleted account. `CheckInSessions` extends `Streaks` and
instantiates `CheckIn` with a refinement mapping; `MembershipSessions` extends `Membership` and has
its specification as a property. `MC*` modules add what TLC needs (symmetry, a small calendar), and
`*_proofs` modules hold the theorems.

`CheckIn` and `Membership` are the abstract specifications: they say what a request does when
nothing overlaps it. `CheckInSessions` and `MembershipSessions` are the detailed ones. They implement
the abstract ones as long as no two transactions have overlapped, and not beyond (section 5).

Conventions:

* A request that is refused changes nothing and has no action.
* A definition whose name begins with `Faulty` is a wrong variant of the one it stands before. It is
  part of no specification; it replaces the right one in the `mutants` of `PROJECT.json`, and the
  property named there then fails.
* Variables marked *history* record what happened for the properties to speak about and guard
  nothing: `everDone`, `everTypes`, `solo`, `acted`, `clashed`, `muted`, `wanting`, `inserted` of
  `Accounts`, `overlapped`, `atStart`, `broken`, `stuck`. Two of them, `crashed` and `killed`, also bound
  the restarts. (`inserted` in `Membership` numbers `joined_at`.)
* Days are integers from a Monday on, `NoDate` is NULL. `WeekLen` is 7 in the program; the models
  allow shorter weeks so that few days span several. `YearStart` gives the first week of each ISO
  year: years of any length are allowed, 52 and 53 weeks among them.

Abstractions:

* `frequency_type` is `"daily"`, `"weekly"` or `"other"` (NULL and any other string: the code treats
  them alike), `status` is active or not, and roles are `"owner"` or not.
* Titles, texts, measurements, wording and embeddings are left out: nothing that is modelled reads
  them back. A comment is either short or longer than the log's column.
* The reads of a request before its last one are one step with it where they only decide whether
  there is a request at all.
* A payload maps each goal to the `completed` flags it holds for that goal, in order. Entries of
  different goals touch different rows, so their order does not matter in one transaction.
* In the deletion of an account the ORM's look at the account's pods and the statements of the commit
  are one step, and so are the two selects of `Choose`, the receivers and their preferences.
* Who is due for a check-in reminder, by hour and frequency, is any set of those the job reads at its
  start. The job notes it and does not look at it, as in the code; `NobodyLeftOut` asks only for them.
* Whether Twilio takes a message is left out: the code logs it either way and keeps nothing else.
* `CheckIn` puts no bound on the date of a check-in, as the code does not: dates in the past and the
  future are included, within the calendar.

## 3. The runs

| Run | Instance | Shows |
|---|---|---|
| `CheckInStreaks` | 1 goal that may be paused and resumed, 1 user, 2 reflections, 5 days in two-day weeks, an ISO year that ends after the second week | streaks are earned, unbroken and extendable, and `longest_streak` covers them, through backfills, contradictions, deletions, frequency changes and both jobs; on a Monday the weekly job resets, of the goals that the list shows, those it shows as missed |
| `CheckInTables` | 2 goals, 1 user who leaves and returns, 2 reflections, 2 days, payloads that repeat a goal, up to 2 photos a post | events, snapshots and reflections agree, a date is completed once, only deletion takes a completion back; lists, goal page, statistics, heat map, leaderboard, feed and posts show the same |
| `Sessions` | 2 check-ins in flight, 3 in all, 4 days, with fairness | row locks exclude each other, every request ends, events stay tied to live reflections, a committed completion outlives what overlaps it; until two transactions overlap, the steps add up to the actions of `CheckIn` |
| `MembershipSerial` | 3 accounts, 2 pods, 1 request in flight | owners hand over, the last member stays, no pod without a row; the steps between awaits add up to `Membership` |
| `ChatQuota` | 5 requests, 2 in flight, minute 1 tick and limit 1, day 4 ticks and limit 2 | with k requests in flight, a window has at most limit + k − 1 calls |
| `Engagement` | 2 users, of whom 1 leaves, 1 post, 2 reactions, 2 requests, 1 restart, with fairness | notifications tell of committed acts, to those they concerned and who had them on since; the log tells of committed acts but for goal batches; toggles that do not overlap leave one reaction per user, counted once; the author of a post is told of what others did, unless a named cause got in the way |
| `Reminders` | 2 addresses, of which requests concern 1; 2 requests, 2 jobs and 1 photo, of which 2 in one behaviour; 2 days, 2 Firebase accounts for one address, times to live of 1 and 7 days | accounts are announced; one reminder a day, nobody of those read left out; no photo goes before its time |

and the runs that end in a violation, each of one property:

| Run | Instance | Shows |
|---|---|---|
| `CheckIn_ConsecutiveWeekExtends` | as `CheckInStreaks` | the first week of an ISO year never continues a streak |
| `Sessions_AtMostOneEvent` | 2 sessions, 2 reflections | two check-ins of one date insert two events |
| `Sessions_StreakEarned` | 2 sessions, 3 reflections, 4 days | a streak computed from a stale row is written back |
| `Membership_LastMemberStays` | 2 accounts, 1 pod, 2 requests in flight | a pod loses its last member to overlapping requests |
| `ChatQuota_QuotaKept` | as `ChatQuota` | two questions at one moment exceed the limit of a minute |

Why the bounds are enough to be interesting:

* *Streaks.* A streak of three, a gap, a date before and after the streak, a second check-in of a
  date and a reset all fit into five days. The two-day cutoff of the daily job needs four. Three
  weeks hold a closed week, an open one and a year boundary. Deleted identifiers are free again, so
  two reflections allow any number of check-ins one after the other.
  Goals are created with `frequency_value` 2, every day of a two-day week, and an update can store
  NULL, which both readers take for 1. The thirty days of the goal page are longer than any calendar
  here: TLC meets the window only at its end, with dates in the future, and the theorem covers the rest.
* *Tables.* Two reflections of one date are what the heat map counts; two goals let a payload hold
  one that is already completed next to one that is not.
* *Sessions.* Identifiers are not reused (`Reflections` bounds the check-ins of a behaviour): three
  let one deletion, or the job, meet two check-ins that overlap. Which identifier a check-in takes
  makes no difference, so the run's constraint `InOrder` has them taken in order. One holder of a row
  and one waiter is all that two sessions allow; the theorems hold for any number. Four days let the
  job find a streak that has lapsed.
* *Engagement.* Every hazard is one request against another or against a deletion, so two requests
  are enough; each may be any act, and what a request inserts outlives it. A third toggle of one
  user adds a row, not a new way to get it.
* *Reminders.* Two of requests and jobs meet at a time: two jobs, a job and a deletion, a sign-in
  and a registration, a photo and a change of preferences. The account that no request touches is
  the recipient after or before the one that goes. Two days are what a job past midnight needs, and
  a time to live of one day, over or not on the second.
* *Membership.* Three accounts give an owner who leaves, an heir, and a member who joined earlier
  but is inactive. Pods only meet in account deletion, which two of them exercise; identifiers of
  pods are not reused.
* *Quota.* Five requests are three more than the day's limit of two, and two in flight are enough to
  exceed a limit by one.

`CHECK_DEADLOCK FALSE` stands where a behaviour may really stop: identifiers are used up, the clock
has reached its bound, all accounts are deleted.

**Fairness** is assumed in two places, for requests that have begun. `FairSpec` of `CheckInSessions`
has strong fairness of each session's `Proceed`: the event loop resumes every task whose await is
done, and PostgreSQL serves the waiters of a lock in order, so a request that can go on again and
again does go on. Weak fairness would not do, since a lock may be taken and released between two
looks. `FairSpec` of `Engagement` has weak fairness of each request's `Proceed`: there nothing waits
for another, and once enabled a step stays enabled until it is taken or the server restarts. Nothing
makes clients begin, jobs run or time pass.

**Violations** are disagreements between the code and its own words; `findings` of `PROJECT.json`
quotes the line each one contradicts.

1. `update_goal_streak` compares ISO years for equality, so the last week of a year and the first of
   the next are not consecutive.
2. Nothing makes `goal_progress_events` unique per goal, user and date. Two overlapping check-ins
   insert two rows, and `scalar_one_or_none` then fails every further check-in of that date.
3. The streak row is read before the embedding call and written after it, so overlapping check-ins
   leave a row that no order of the requests produces.
4. `leave_pod` and `toggle_member_active` count the members and write later, so two of them, or one
   and an account deletion, leave a pod without any.
5. The quota is counted before the call is logged, so questions asked at one moment all pass.
   `ExcessBounded` says how many: no more than there are requests in flight.

Some things the code does are in the models and no property forbids them, because no document speaks
against them, or because a property could only repeat what the code does:

* the heir of a deleted account is the member who joined first even if inactive (`OwnerSucceeded` says
  "an owner's row", not "an active owner"), and an owner may give the last ownership away by setting
  roles;
* an account deletion that overlaps other requests may leave a pod without a row or an owner
  (`RowsConsistent` and `OwnerSucceeded` are claimed of one transaction at a time; TLC refutes them
  with two in flight);
* a paused goal takes no check-ins and loses its streak to the jobs;
* the answer to an update of a goal shows a date answered with "no" as achieved, which its page does
  not; `ViewsAgree` claims agreement for the other dates;
* a recipient deleted while a reminder job runs ends the job for those who come after, and the
  check-in job reminds before the preferred time;
* a user whose toggles overlap may have two reactions;
* Firebase and the `users` table come apart when the second of two writes fails, files and their rows
  likewise.

Where a property has an exception it names what the code has no remedy for, such as an event lost in a
restart or a log entry written before its commit; the `hazards` of `PROJECT.json` say of each that it
is not caught.

## 4. The proofs

TLAPS proves, for every value of the constants that satisfies the named assumptions
(`CalendarAssumption`, `RowAssumption`, `SessionAssumption`, `NobodyAssumption`,
`InFlightAssumption`, `QuotaAssumption`, `EngagementAssumption`, `AccountsAssumption`,
`RemindersAssumption`, `AttachmentsAssumption`):

| Module | Theorem | Property |
|---|---|---|
| `CheckIn_proofs` | `TypeCorrect` | `TypeOK` |
| | `StreaksEarned` | `StreakEarned` |
| | `LongestAlwaysCovers` | `LongestCovers` |
| | `DailyRunsUnbroken`, `WeeklyRunsUnbroken` | `DailyRun`, `WeeklyRun` |
| | `LongestNeverFalls` | `LongestMonotone` |
| | `ExtendableStreaksKept` | `ExtendableKept` |
| `CheckInTables_proofs` | `EventsAreBacked` | `EventBacked` |
| | `CompletedOnlyOnce` | `CompletedOnce` |
| | `CompletionsStick` | `CompletionSticks` |
| | `ViewsAlwaysAgree`, `PostsAlwaysTell` | `ViewsAgree`, `PostsTell` |
| | `MondaysAgree` | `MondayAgrees` |
| | `StatisticsCover` (finitely many goals and reflections) | `StatsCover` |
| `CheckInSessions_proofs` | `TypeCorrect` | `TypeOK` |
| | `RowsHeldByOne` | `LocksExclusive` |
| | `EventsStayTied` | `EventTied` |
| | `CompletionsKept` | `CompletionKept` |
| | `SerialStepsAreAtomic` | `ImplementsCheckIn` |
| `Membership_proofs`, of `Spec` | `TypeCorrect` | `TypeOK` |
| | `RowsStayConsistent` | `RowsConsistent` |
| | `OwnersHandOver` | `OwnerKept` |
| | `PodsStayInhabited` | `LastMemberStays` |
| | `AccountsHandOver` | `OwnerSucceeded` |
| of `SSpec`, any number in flight | `OverlapsKeepTypes` | `TypeOK` |
| | `OverlapsKeepRows` | `RowsTied` |
| of `SSpec`, `MaxInFlight = 1` | `SerialRequestsAreAtomic` | `ImplementsMembership` |
| | `SerialPodsStayInhabited` | `RowsConsistent`, `OwnerKept`, `LastMemberStays`, `OwnerSucceeded` |
| `ChatQuota_proofs` | `ExcessIsBounded` | `ExcessBounded` |
| `MaxInFlight = 1` | `SerialQuotaKept` | `QuotaKept` |
| `Engagement_proofs` | `TypeCorrect` | `TypeOK` |
| | `NotificationsTrue` | `NotifiedTruly` |
| | `LogTrue` | `LoggedTruly` |
| | `OneReactionEach` (finitely many users) | `OneReaction` |
| `Reminders_proofs` | `TypeCorrect` | `TypeOK` of `Attachments` |
| | `AccountsAnnounced` | `AnnouncedTruly` |
| | `RemindedOnceADay` | `OnceADay` |
| | `NobodyIsLeftOut` | `NobodyLeftOut` |
| | `PhotosAreKept` | `PhotosKept` |

The assumptions say that the models' NULLs are no values (`None \notin ...`), that bounds are
numbers, and that the constants range over what the code can pass. `CalendarAssumption` allows a week
of any length and years of any number of weeks. `AttachmentsAssumption` has the values of the code:
times to live of 1, 5 or 7 days, 7 among them because it is the column's default.

The arguments:

* **Streaks.** `Streaks_proofs` shows about one row that `UpdateStreak` and `Reset` keep
  `Earned(s, E)`: the streak counts at most the dates of `E` up to its last one, and
  `longest_streak` lies between the streak and the size of `E`. The bound on the dates *up to the
  last one* is the strengthening: without it, a backfill that moves the last date back would leave a
  count no smaller set of dates supports. `CheckIn_proofs` lifts this to a payload that repeats a
  goal (`EntriesEarned`), where the completion enters `everDone` together with the streak.
* **Unbroken runs.** `RunInv` adds that a streak is a run of its type, of days or of weeks, and
  `Typed`: the frequency type of a goal is among those it has had, and a goal that does not exist has
  no streak. So the streak of a goal that was always of one type was written by that type's branch
  and by resets only. For weeks, going back within one ISO year is subtraction (`IsoWeek(x)` is
  `IsoWeek(s.last)` with `k` taken from the week), and the branch compares years for equality: this is
  why a weekly run lies within one year, and why the last week of a year continues nothing.
  `LongestMonotone` and `ExtendableKept` are consequences of one step from `RunInv`.
* **Tables.** `TablesInv` joins the type invariant, `EventBacked` and `CompletedOnce` with
  `SaidByRows`, that an unused reflection has taken no snapshots, without which a new check-in could
  inherit some. A payload that repeats a goal is handled entry by entry: `Says` relates the rows before the
  payload to the rows after any of its entries. The pages, over the dates they show, are then functions of tables that agree:
  lists, goal page, feed and posts find the same event or snapshot. For `StatisticsCover` the
  completed dates are mapped into the rows each page counts, injectively, which bounds the counts.
  `MondayAgrees` is about the calendar: on a Monday the week that the list shows is the one that
  the job closes, and both ask for the same number of days.
* **Sessions.** Row locks are in `SessionOK` and `Apart`: an event row found may have gone until the
  session holds it and is no other row after, no two sessions have one reflection, and no two hold
  one row. `Named` says that an event was written for a reflection that was begun, so a new one is
  never confused with it. None of this needs `solo`.
* **Sessions implement `CheckIn`.** `SoloInv` adds what holds while no two transactions have
  overlapped (`Serial`): at most one session or job is busy, and what it has read is what the tables
  say (`Current`), so the commit writes what the whole request would have written. `Recorded` holds
  also beyond, and gives the history variable `everDone` of `CheckIn` its value. The simulation is one
  lemma per step: those before the commit leave all mapped rows alone, and the commit is
  `AddReflection` with the payload that the session's flags make.
* **Membership.** The invariant is `TypeOK /\ RowsConsistent`. Row numbers are naturals, so among
  the rows of a pod one is the first (`Smallest`, by well-founded induction on segments `0 .. n`):
  `Earliest` therefore picks one of the rows it is given. The action properties then follow one
  request at a time.
* **Membership step by step.** Of the invariant, only `TypeOK /\ RowsTied` (rows belong to pods that
  exist, roles and activity to rows) survives overlapping requests and account deletions, whose
  commits find the rows they write or fail; with the types of what handlers hold that is `SInv`. With
  one transaction in flight `SerialInv` holds: what a handler has read is still so (`StillTrue`), the
  heir that a leaver has picked is the one `LeavePod` picks (`Successors`), and a deletion has
  decided about the pods it has seen what `DeleteUser` decides about all (`DeletingTrue`). So
  `LeaveCommit` is `LeavePod`, `ToggleCommit` is `ToggleMemberActive` or changes nothing,
  `DeleteCommit` is `DeleteUser`, and all other steps stutter. No finiteness is assumed: that two busy
  handlers are one (`RoomForOne`) takes the place of counting.
* **Quota.** That logged calls stay within limit and overlap is not inductive, since a request that
  has passed its count is not logged yet. The invariant counts the requests that passed (`Placed`),
  logged or not, in a window. A request that passes saw fewer than the limit logged in its window,
  and all the others placed there are in flight, hence at most `MaxInFlight - 1`. With one request in
  flight the bound is the documented quota.
* **Engagement.** A request that tells has acted (`Progress`), and what it is about never changes
  (`Same`), so receivers chosen in one step (`Chosen`) may still be told in a later one. That each of them was
  concerned and willing at some time since the commit is `Remembered`: `wanting` holds whoever might be
  chosen as long as the request tells, and whoever was. For
  `OneReaction` the invariant says of a user and post whose toggles never overlapped that at most one
  toggle is under way and that the one row, if any, is the one it has seen (`Alone`, `OneRow`). The counts
  follow by a bijection from the rows with a reaction to the users whose reaction it is.
* **Accounts.** An id has one row because it is that of the address, or of the request that inserted
  it (`RowsNamed`); a request inserts before it announces (`RequestOK`), so what is announced exists
  or was deleted.
* **Reminders.** An id that has gone never comes back (`Known`), so a recipient without an account
  stays without. For one reminder a day, `Turns` says of a job that runs alone that every note of its
  kind from others is of its day or before and that the one it is about to insert is the first;
  `SettledSoFar` says that it has settled every recipient it has taken but the one it is at, and
  `DeathsKnown` why a job ended early.
* **Photos.** A photo the cleanup has read comes with the time to live that its owner had when the
  cleanup began (`Candidate`), however the preference changes before the file goes. What the cleanup
  has unlinked is in `cleanup.gone` until its rows are deleted, and what it could not unlink is in
  `stuck`; `FilesTied`, itself part of the invariant, says that files and rows part in no other way.

The inductive invariants of the core were first checked by TLC, as invariants of instances like those of
section 3.

Only model-checked are the two liveness properties, `RequestsEnd` of `CheckInSessions` and `OwnerTold`
of `Engagement`: liveness under fairness is out of the prover's reach. The violations are TLC's too.
All other properties of the passing runs have a theorem, and `RowsTied` and `QuotaKept` have one
although no passing run lists them.

## 5. What a reader may conclude

One request at a time, the check-in tables, streaks, memberships and quotas are sound: the properties
of `CheckIn` and `Membership` hold but one, that a weekly streak continues over the turn of an ISO
year. With overlapping requests four promises fail (the violations above) and others hold, which the
run `Sessions` and the theorems about any number of requests in flight name. What is checked with one
transaction in flight is not claimed for several.

Events and jobs are best effort. What is told was done, also when posts, members and accounts go away
in the middle; what was done is told unless one of the causes that `OwnerTold` and `AnnouncedTruly`
list got in the way. The reminder jobs may be started again without a second reminder, but two at a
time, or one that dies, leave duplicates or recipients without. Stores that no transaction spans may
come apart: files and rows in the ways that `FilesTied` lists, Firebase and the `users` table whenever
the second of two writes fails, of which nothing is claimed.

## 6. Not modelled, and the plan

Not modelled:

* the language model behind the chatbot: intents, SQL generation, prompts, embeddings, and the
  checks for unsafe images and texts, whose outcome a model could only guess;
* PDF reports, the download of log files, analytics (a stub), and the generated migrations;
* lists that return rows as they are (members, pods, comments, notifications, the admin lists), and
  averages over pods;
* user names, telephone numbers and their codes, password resets and e-mail verification: rows of
  one user, overwritten in place, whose uniqueness the database keeps;
* goal participants and measurements, which no rule depends on;
* the cron table: nothing in the repository starts most jobs, so the jobs may run at any time.

What is left to do:

1. **Proofs beyond one at a time** – which promises of `Membership` survive when requests overlap on
   different pods, and `ImplementsCheckIn` for transactions that overlap in time but share no row.
2. **Models** – one-time codes and telephone numbers against each other; `pod_posted` and
   `checked_in` as events of `CheckInSessions`.
