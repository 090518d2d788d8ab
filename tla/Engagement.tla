------------------------------ MODULE Engagement ------------------------------
(***************************************************************************)
(* Reactions, comments and the events they raise in one pod:               *)
(*   app/modules/reflections_likes/services.py,                            *)
(*   app/modules/reflections_comments/services.py,                         *)
(*   app/modules/events/dispatcher.py, app/modules/notifications/.         *)
(*                                                                         *)
(* A request reads, commits, and then emits an event. The dispatcher runs  *)
(* the handler within the request, but in a database session of its own,   *)
(* which writes the activity log, selects the receivers, and writes one    *)
(* notification for each. Between two awaits other requests run, rows go   *)
(* away, or the server restarts and forgets what was in flight.            *)
(*                                                                         *)
(* The reads of a request up to its first write are one step: those before *)
(* the last only decide whether there is a request at all.                 *)
(***************************************************************************)
EXTENDS Naturals, FiniteSets

CONSTANTS
    Users,          \* accounts
    Posts,          \* reflections of the pod
    Kinds,          \* the reactions there are
    Requests,       \* requests; a row is named by the request that inserted it
    None,           \* no row, no author
    Leavers,        \* bound: the users who leave, lose their account or change
                    \* their preference
    Outsiders,      \* bound: the users who may not be members to begin with
    MaxCrashes      \* bound: restarts of the server

ASSUME EngagementAssumption ==
    /\ None \notin Users \cup Requests
    /\ Leavers \subseteq Users
    /\ MaxCrashes \in Nat

VARIABLES
    accounts,    \* users rows
    members,     \* users with an active pod_members row
    author,      \* reflections: post -> user, None when there is no row
    enabled,     \* users whose user_preferences.pod_updates_enabled is true
    reaction,    \* reflection_reactions: id -> row, or None
    comment,     \* reflection_comments: id -> row, or None
    inbox,       \* notifications: receiver, request -> "none", "unread", "read"
    log,         \* activity_logs: the requests that have an entry
    request,     \* what each request has read and is about to do
    acted,       \* history: requests whose act was committed
    clashed,     \* history: user and post of toggles that overlapped
    muted,       \* history: users whose pod_updates_enabled was ever false
    wanting,     \* history: for each act whose event is under way, those who, at
                 \* some time since its commit, were concerned and had pod
                 \* updates switched on
    crashes      \* history: restarts so far

people  == <<accounts, members, enabled, muted>>
rows    == <<author, reaction, comment>>
told    == <<inbox, log>>
vars    == <<people, rows, told, request, acted, clashed, crashes, wanting>>

Idle == [pc |-> "idle", act |-> "none", user |-> None, post |-> None, owner |-> None,
         kind |-> None, long |-> FALSE, seen |-> None, was |-> None, to |-> {}]
Done(s) == [s EXCEPT !.pc = "done"]
InFlight(q) == request[q].pc \notin {"idle", "done"}

Set(q, s) == request' = [request EXCEPT ![q] = s]

\* The request ends; if it has not written yet, it is refused.
Finish(q) == Set(q, Done(request[q])) /\ UNCHANGED acted

\* The act is committed; what follows is the event.
Acted(q, pc) == /\ Set(q, [request[q] EXCEPT !.pc = pc])
                /\ acted' = acted \cup {q}

-----------------------------------------------------------------------------
(* toggle_reaction, remove_reaction *)

Row(s) == [post |-> s.post, user |-> s.user, kind |-> s.kind]

OwnRows(u, p) == {x \in Requests : /\ reaction[x] # None
                                   /\ reaction[x].post = p
                                   /\ reaction[x].user = u}

\* Whether the unique constraint (reflection, user, reaction) forbids the row.
Taken(s) == \E x \in Requests \ {s.seen} : reaction[x] = Row(s)

Toggling(u, p) == \E q \in Requests :
    request[q].pc = "react" /\ request[q].user = u /\ request[q].post = p

\* Two rows of one user raise MultipleResultsFound: the request is refused.
ToggleRead(q, u, p, k) ==
    /\ request[q] = Idle
    /\ u \in members /\ author[p] # None
    /\ \E x \in Requests \cup {None} :
          /\ OwnRows(u, p) = {x} \ {None}
          /\ Set(q, [Idle EXCEPT !.pc = "react", !.act = "reaction", !.user = u, !.post = p,
                                 !.owner = author[p], !.kind = k, !.seen = x,
                                 !.was = IF x = None THEN None ELSE reaction[x].kind])
    /\ clashed' = IF Toggling(u, p) THEN clashed \cup {<<u, p>>} ELSE clashed
    /\ UNCHANGED <<people, rows, told, acted, crashes>>

\* "First reaction". The insert fails if the post, the account or the place in
\* the unique index has gone.
ReactFirst(q) ==
    LET s == request[q]
    IN  /\ s.pc = "react" /\ s.seen = None
        /\ IF author[s.post] # None /\ s.user \in accounts /\ ~Taken(s)
           THEN reaction' = [reaction EXCEPT ![q] = Row(s)] /\ Acted(q, "choose")
           ELSE Finish(q) /\ UNCHANGED reaction
        /\ UNCHANGED <<people, author, comment, told, clashed, crashes>>

FaultyReactReplace(q) ==
    LET s == request[q]
    IN  /\ s.pc = "react" /\ s.seen # None /\ s.was # s.kind
        /\ IF reaction[s.seen] # None /\ ~Taken(s)
           THEN reaction' = [reaction EXCEPT ![q] = Row(s)] /\ Acted(q, "choose")
           ELSE Finish(q) /\ UNCHANGED reaction
        /\ UNCHANGED <<people, author, comment, told, clashed, crashes>>

\* "Different reaction": the row read before is updated; the update fails if it
\* has gone.
ReactReplace(q) ==
    LET s == request[q]
    IN  /\ s.pc = "react" /\ s.seen # None /\ s.was # s.kind
        /\ IF reaction[s.seen] # None /\ ~Taken(s)
           THEN reaction' = [reaction EXCEPT ![s.seen] = Row(s)] /\ Acted(q, "choose")
           ELSE Finish(q) /\ UNCHANGED reaction
        /\ UNCHANGED <<people, author, comment, told, clashed, crashes>>

\* "Same reaction", and the commit of remove_reaction: the row goes, whatever it
\* has become since it was read. No event.
ReactRemove(q) ==
    LET s == request[q]
    IN  /\ \/ s.pc = "react" /\ s.seen # None /\ s.was = s.kind
           \/ s.pc = "unreact"
        /\ reaction' = [reaction EXCEPT ![s.seen] = None]
        /\ Finish(q)
        /\ UNCHANGED <<people, author, comment, told, clashed, crashes>>

RemoveRead(q, u, p, k) ==
    /\ request[q] = Idle
    /\ u \in members
    /\ \E x \in OwnRows(u, p) :
          /\ reaction[x].kind = k
          /\ Set(q, [Idle EXCEPT !.pc = "unreact", !.act = "removal", !.user = u, !.seen = x])
    /\ UNCHANGED <<people, rows, told, acted, clashed, crashes>>

\* _reaction_summary: how often a post has each reaction, and one's own.
Counts(p) == [k \in Kinds |->
    Cardinality({x \in Requests : /\ reaction[x] # None
                                  /\ reaction[x].post = p
                                  /\ reaction[x].kind = k})]
MyReactions(u, p) == {reaction[x].kind : x \in OwnRows(u, p)}

-----------------------------------------------------------------------------
(* add_comment, delete_comment *)

\* long: more text than the details column of the activity log takes.
CommentRead(q, u, p, long) ==
    /\ request[q] = Idle
    /\ u \in members /\ author[p] # None
    /\ Set(q, [Idle EXCEPT !.pc = "comment", !.act = "comment", !.user = u, !.post = p,
                           !.owner = author[p], !.long = long])
    /\ UNCHANGED <<people, rows, told, acted, clashed, crashes>>

FaultyCommentWrite(q) ==
    LET s == request[q]
    IN  /\ s.pc = "comment"
        /\ IF author[s.post] # None /\ s.user \in accounts
           THEN /\ comment' = [comment EXCEPT ![q] = [post |-> s.post, user |-> s.user]]
                /\ Acted(q, "refresh")
           ELSE Set(q, [s EXCEPT !.pc = "log"]) /\ UNCHANGED <<comment, acted>>
        /\ UNCHANGED <<people, author, reaction, told, clashed, crashes>>

CommentWrite(q) ==
    LET s == request[q]
    IN  /\ s.pc = "comment"
        /\ IF author[s.post] # None /\ s.user \in accounts
           THEN /\ comment' = [comment EXCEPT ![q] = [post |-> s.post, user |-> s.user]]
                /\ Acted(q, "refresh")
           ELSE Finish(q) /\ UNCHANGED comment
        /\ UNCHANGED <<people, author, reaction, told, clashed, crashes>>

\* The row is read again before the event: if it has gone, the client is told
\* that its committed request failed, and there is no event.
CommentRefresh(q) ==
    /\ request[q].pc = "refresh"
    /\ IF comment[q] = None THEN Finish(q)
       ELSE Set(q, [request[q] EXCEPT !.pc = "log"]) /\ UNCHANGED acted
    /\ UNCHANGED <<people, rows, told, clashed, crashes>>

DeleteComment(u, c) ==
    /\ u \in members
    /\ comment[c] # None /\ comment[c].user = u
    /\ comment' = [comment EXCEPT ![c] = None]
    /\ UNCHANGED <<people, author, reaction, told, request, acted, clashed, crashes>>

\* AdminService.delete_comment: whoever wrote it.
AdminDeleteComment(c) ==
    /\ comment[c] # None
    /\ comment' = [comment EXCEPT ![c] = None]
    /\ UNCHANGED <<people, author, reaction, told, request, acted, clashed, crashes>>

\* AdminService.delete_activity: the entry of a comment takes the comment along.
DeleteActivity(q) ==
    /\ q \in log
    /\ log' = log \ {q}
    /\ comment' = IF request[q].act = "comment" THEN [comment EXCEPT ![q] = None] ELSE comment
    /\ UNCHANGED <<people, author, reaction, inbox, request, acted, clashed, crashes>>

-----------------------------------------------------------------------------
(* Other acts with events: join_pod_by_code, create_goals_batch *)

Join(q, u) ==
    /\ request[q] = Idle
    /\ u \in accounts \ members
    /\ members' = members \cup {u}
    /\ Set(q, [Idle EXCEPT !.pc = "log", !.act = "join", !.user = u])
    /\ acted' = acted \cup {q}
    /\ UNCHANGED <<accounts, enabled, muted, rows, told, clashed, crashes>>

\* The event of a goal is handled inside the loop over the batch, before the
\* commit: its log entry is there while the goal is not.
GoalsLoop(q, u) ==
    /\ request[q] = Idle
    /\ u \in members
    /\ Set(q, [Idle EXCEPT !.pc = "goals", !.act = "goals", !.user = u])
    /\ log' = log \cup {q}
    /\ UNCHANGED <<people, rows, inbox, acted, clashed, crashes>>

\* A later goal of the batch may still be refused.
GoalsEnd(q) ==
    /\ request[q].pc = "goals"
    /\ Finish(q) \/ (request[q].user \in accounts /\ Acted(q, "done"))
    /\ UNCHANGED <<people, rows, told, clashed, crashes>>

-----------------------------------------------------------------------------
(* NotificationService.handle_event *)

\* LOG_RULES. A failed insert is caught, and leaves a session that cannot be
\* used without a rollback: the notification fails with it.
LogAct(q) ==
    LET s == request[q]
    IN  /\ s.pc = "log"
        /\ IF s.long \/ s.user \notin accounts
           THEN Set(q, Done(s)) /\ UNCHANGED log
           ELSE Set(q, [s EXCEPT !.pc = "choose"]) /\ log' = log \cup {q}
        /\ UNCHANGED <<people, rows, inbox, acted, clashed, crashes>>

FaultyReceivers(s) == {s.owner}

\* resolve_reflection_owner, resolve_pod_members_except_actor
Receivers(s) == (IF s.act = "join" THEN members ELSE {s.owner}) \ {s.user}

FaultyChoose(q) ==
    LET s == request[q]
        to == Receivers(s) \cap enabled \cap members
    IN  /\ s.pc = "choose"
        /\ Set(q, IF to = {} THEN Done(s) ELSE [s EXCEPT !.pc = "notify", !.to = to])
        /\ UNCHANGED <<people, rows, told, acted, clashed, crashes>>

\* NOTIFICATION_RULES, and the preference that filters every event of a pod.
Choose(q) ==
    LET s == request[q]
        to == Receivers(s) \cap enabled
    IN  /\ s.pc = "choose"
        /\ Set(q, IF to = {} THEN Done(s) ELSE [s EXCEPT !.pc = "notify", !.to = to])
        /\ UNCHANGED <<people, rows, told, acted, clashed, crashes>>

\* One row per receiver, all or none: one that refers to a deleted account
\* makes the insert fail, which is caught.
Notify(q) ==
    LET s == request[q]
    IN  /\ s.pc = "notify"
        /\ inbox' = [v \in Users |->
                       IF v \in s.to /\ s.to \cup {s.user} \subseteq accounts
                       THEN [inbox[v] EXCEPT ![q] = "unread"] ELSE inbox[v]]
        /\ Set(q, Done(s))
        /\ UNCHANGED <<people, rows, log, acted, clashed, crashes>>

-----------------------------------------------------------------------------
(* mark_as_read, mark_all_as_read *)

MarkRead(v, qs) ==
    /\ v \in accounts
    /\ inbox' = [inbox EXCEPT ![v] =
                    [q \in Requests |-> IF q \in qs /\ @[q] = "unread" THEN "read" ELSE @[q]]]
    /\ UNCHANGED <<people, rows, log, request, acted, clashed, crashes>>

-----------------------------------------------------------------------------
(* The environment *)

\* update_preferences
SetPodUpdates(u) ==
    /\ u \in accounts
    /\ enabled' = IF u \in enabled THEN enabled \ {u} ELSE enabled \cup {u}
    /\ muted' = muted \cup {u}
    /\ UNCHANGED <<accounts, members, rows, told, request, acted, clashed, crashes>>

Leave(u) ==
    /\ u \in members
    /\ members' = members \ {u}
    /\ UNCHANGED <<accounts, enabled, muted, rows, told, request, acted, clashed, crashes>>

FaultySweep(us, ps) ==
    LET Kept(row) == row # None /\ row.user \notin us /\ row.post \notin ps
    IN  /\ author'   = [p \in Posts |-> IF p \in ps THEN None ELSE author[p]]
        /\ reaction' = [x \in Requests |-> IF Kept(reaction[x]) THEN reaction[x] ELSE None]
        /\ comment'  = comment

\* Rows that hang on a post or an account go with it (ON DELETE CASCADE).
Sweep(us, ps) ==
    LET Kept(row) == row # None /\ row.user \notin us /\ row.post \notin ps
    IN  /\ author'   = [p \in Posts |-> IF p \in ps THEN None ELSE author[p]]
        /\ reaction' = [x \in Requests |-> IF Kept(reaction[x]) THEN reaction[x] ELSE None]
        /\ comment'  = [x \in Requests |-> IF Kept(comment[x]) THEN comment[x] ELSE None]

DeletePost(p) ==
    /\ author[p] # None
    /\ Sweep({}, {p})
    /\ UNCHANGED <<people, told, request, acted, clashed, crashes>>

DeleteAccount(u) ==
    /\ u \in accounts
    /\ accounts' = accounts \ {u}
    /\ members' = members \ {u}
    /\ enabled' = enabled \ {u}
    /\ Sweep({u}, {p \in Posts : author[p] = u})
    /\ inbox' = [inbox EXCEPT ![u] = [q \in Requests |-> "none"]]
    /\ UNCHANGED <<muted, log, request, acted, clashed, crashes>>

\* A restart ends what is in flight; nothing takes it up again.
Crash ==
    /\ crashes < MaxCrashes
    /\ crashes' = crashes + 1
    /\ request' = [q \in Requests |-> IF InFlight(q) THEN Done(request[q]) ELSE request[q]]
    /\ UNCHANGED <<people, rows, told, acted, clashed>>

Init ==
    /\ accounts = Users
    /\ members \in {Users, Users \ Outsiders}
    /\ author \in [Posts -> Users]
    /\ enabled = Users
    /\ muted = {}
    /\ reaction = [q \in Requests |-> None]
    /\ comment = [q \in Requests |-> None]
    /\ inbox = [u \in Users |-> [q \in Requests |-> "none"]]
    /\ log = {} /\ acted = {} /\ clashed = {} /\ crashes = 0
    /\ request = [q \in Requests |-> Idle]
    /\ wanting = [q \in Requests |-> {}]

Arrive(q) ==
    \/ \E u \in Users, p \in Posts, k \in Kinds : ToggleRead(q, u, p, k) \/ RemoveRead(q, u, p, k)
    \/ \E u \in Users, p \in Posts, long \in BOOLEAN : CommentRead(q, u, p, long)
    \/ \E u \in Users : Join(q, u) \/ GoalsLoop(q, u)

Proceed(q) ==
    \/ ReactFirst(q) \/ ReactReplace(q) \/ ReactRemove(q)
    \/ CommentWrite(q) \/ CommentRefresh(q) \/ GoalsEnd(q)
    \/ LogAct(q) \/ Choose(q) \/ Notify(q)

Act ==
    \/ \E q \in Requests : Arrive(q) \/ Proceed(q)
    \/ \E u \in Users, c \in Requests : DeleteComment(u, c)
    \/ \E q \in Requests : AdminDeleteComment(q) \/ DeleteActivity(q)
    \/ \E v \in Users, qs \in {{q} : q \in Requests} \cup {Requests} : MarkRead(v, qs)
    \/ \E u \in Leavers : SetPodUpdates(u) \/ Leave(u) \/ DeleteAccount(u)
    \/ \E p \in Posts : DeletePost(p)
    \/ Crash

\* The act is committed and its event is not dealt with.
Telling(q) == request[q].pc \in {"refresh", "log", "choose", "notify"}

Willing(q) == enabled \cap (IF request[q].act = "join" THEN members ELSE {request[q].owner})

\* The history of each step.
Remember == wanting' = [q \in Requests |-> IF Telling(q)' THEN wanting[q] \cup Willing(q)' ELSE {}]

Next == Act /\ Remember

Spec == Init /\ [][Next]_vars

\* The event loop resumes a request whose await is done.
FairSpec == Spec /\ \A q \in Requests : WF_vars(Proceed(q) /\ Remember)

-----------------------------------------------------------------------------
(* Properties *)

\* Rows refer to rows that exist.
TypeOK ==
    /\ members \subseteq accounts /\ enabled \subseteq accounts /\ accounts \subseteq Users
    /\ \A p \in Posts : author[p] \in accounts \cup {None}
    /\ \A x \in Requests :
          /\ reaction[x] # None =>
                /\ reaction[x] \in [post : Posts, user : accounts, kind : Kinds]
                /\ author[reaction[x].post] # None
          /\ comment[x] # None =>
                /\ comment[x] \in [post : Posts, user : accounts]
                /\ author[comment[x].post] # None
    /\ \A v \in Users, q \in Requests :
          /\ inbox[v][q] \in {"none", "unread", "read"}
          /\ inbox[v][q] # "none" => v \in accounts
    /\ log \subseteq Requests /\ acted \subseteq Requests /\ crashes \in 0 .. MaxCrashes

\* A notification that is written tells of an act that was committed; its
\* receiver is not the one who did it, and at some time since the commit both was
\* concerned, as the owner of the post or as a member of the pod that was joined,
\* and had pod updates switched on: a switch turned off before the act, or a
\* member who left before it, counts, whatever is changed while the handlers run.
NotifiedTruly ==
    [][\A v \in Users, q \in Requests :
          inbox[v][q] = "none" /\ inbox'[v][q] # "none" =>
              q \in acted /\ v # request[q].user /\ v \in wanting[q]]_vars

\* An entry of the activity log tells of an act that was committed before. Entries
\* of goals batches are not covered: their events are emitted before the commit.
LoggedTruly == \A q \in log : q \in acted \/ request[q].act = "goals"

\* A user has one reaction to a post, however often it is changed, as long as no
\* two toggles of that user for that post overlapped; and if none did, the count a
\* post shows for a reaction is the number of users whose reaction it is.
OneReaction ==
    \A p \in Posts :
        /\ \A u \in Users : <<u, p>> \notin clashed => Cardinality(MyReactions(u, p)) <= 1
        /\ (\A u \in Users : <<u, p>> \notin clashed) =>
              \A k \in Kinds : Counts(p)[k] = Cardinality({u \in Users : MyReactions(u, p) = {k}})

\* The owner of a post is told of every committed reaction or comment of another,
\* also one who has left the pod, unless something got in the way: a restart, a
\* text too long for the log, an account or the comment deleted, or pod updates
\* switched off at some time.
OwnerTold ==
    \A v \in Users, q \in Requests :
        /\ q \in acted
        /\ request[q].act \in {"reaction", "comment"}
        /\ request[q].owner = v /\ request[q].user # v
        ~> \/ inbox[v][q] # "none"
           \/ crashes > 0 \/ accounts # Users \/ request[q].long
           \/ request[q].act = "comment" /\ comment[q] = None
           \/ v \in muted
=============================================================================
