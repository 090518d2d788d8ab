--------------------------- MODULE Engagement_proofs ---------------------------
(***************************************************************************)
(* Proofs about Engagement, for any users, posts and requests: the rows    *)
(* stay consistent, notifications and log entries are true, and toggles    *)
(* that do not overlap leave a user one reaction to a post.                *)
(***************************************************************************)
EXTENDS Engagement, FiniteSetTheorems, TLAPS

-----------------------------------------------------------------------------
(* The invariant *)

Stages == {"idle", "react", "unreact", "comment", "refresh", "goals", "log", "choose",
           "notify", "done"}
Acts   == {"none", "reaction", "removal", "comment", "join", "goals"}

RequestRow ==
    [pc : Stages, act : Acts, user : Users \cup {None}, post : Posts \cup {None},
     owner : Users \cup {None}, kind : Kinds \cup {None}, long : BOOLEAN,
     seen : Requests \cup {None}, was : Kinds \cup {None}, to : SUBSET Users]

People ==
    /\ members \subseteq accounts /\ enabled \subseteq accounts /\ accounts \subseteq Users
    /\ author \in [Posts -> accounts \cup {None}]
    /\ crashes \in 0 .. MaxCrashes

\* One that has begun knows its act, and has acted before it tells of it.
Progress(q) ==
    LET s == request[q]
    IN  /\ s.pc # "idle" \/ q \in acted \/ q \in log => s.act # "none"
        /\ s.pc \in {"refresh", "log", "choose", "notify"} => q \in acted
        /\ s.pc \in {"react", "unreact", "comment"} => q \notin acted
        /\ s.pc = "goals" => s.act = "goals"
        /\ s.pc = "react" => s.user \in Users /\ s.post \in Posts /\ s.kind \in Kinds
        /\ s.pc = "unreact" => s.seen \in Requests
        /\ s.pc = "comment" => s.user \in Users /\ s.post \in Posts

\* The one who did it is not among the receivers chosen.
Chosen(q) == request[q].pc = "notify" => request[q].user \notin request[q].to

\* A reaction is that of the request that inserted it, whatever its kind became.
SameAct(x, s) == x \in acted /\ request[x].user = s.user /\ request[x].post = s.post

ReactionOK(x) == reaction[x] # None =>
    /\ reaction[x] \in [post : Posts, user : accounts, kind : Kinds]
    /\ author[reaction[x].post] # None
    /\ SameAct(x, reaction[x])

CommentOK(x) == comment[x] # None =>
    /\ comment[x] \in [post : Posts, user : accounts]
    /\ author[comment[x].post] # None

Seen(q) == request[q].pc = "react" /\ request[q].seen # None =>
    request[q].seen \in Requests /\ SameAct(request[q].seen, request[q])

Told(q) == \A v \in Users :
    inbox[v][q] # "none" => v \in accounts

\* Of the toggles of a user for a post that never overlapped one is under way at
\* most, and the one row there may be is the one it has seen.
Alone(q) ==
    LET s == request[q]
    IN  s.pc = "react" /\ <<s.user, s.post>> \notin clashed =>
            /\ OwnRows(s.user, s.post) \subseteq {s.seen}
            /\ \A r \in Requests \ {q} :
                  ~ (request[r].pc = "react" /\ request[r].user = s.user
                     /\ request[r].post = s.post)

OneRow == \A u \in Users, p \in Posts : <<u, p>> \notin clashed =>
    \A x, y \in OwnRows(u, p) : x = y

Typing ==
    /\ request \in [Requests -> RequestRow]
    /\ DOMAIN reaction = Requests /\ DOMAIN comment = Requests
    /\ inbox \in [Users -> [Requests -> {"none", "unread", "read"}]]
    /\ log \subseteq Requests /\ acted \subseteq Requests

Inv ==
    /\ Typing /\ People
    /\ \A q \in Requests : /\ Progress(q) /\ Chosen(q) /\ Told(q)
                           /\ ReactionOK(q) /\ CommentOK(q)
                           /\ Seen(q) /\ Alone(q)
    /\ LoggedTruly /\ OneRow

-----------------------------------------------------------------------------
(* What a step keeps *)

Same(s, t) == t.act = s.act /\ t.user = s.user /\ t.post = s.post /\ t.owner = s.owner

\* Requests do not change what they are about, and history grows.
Keeps ==
    /\ \A x \in Requests : request[x].act # "none" => Same(request[x], request'[x])
    /\ acted \subseteq acted'

LEMMA IdleRow ==
    /\ Idle \in RequestRow
    /\ Idle.pc = "idle" /\ Idle.act = "none" /\ Idle.user = None /\ Idle.post = None
    /\ Idle.owner = None /\ Idle.kind = None /\ Idle.seen = None /\ Idle.was = None
    /\ Idle.to = {}
BY DEF Idle, RequestRow, Stages, Acts

\* A request whose progress alone changes.
LEMMA Onward ==
    ASSUME NEW s \in RequestRow, NEW pc \in Stages
    PROVE  LET t == [s EXCEPT !.pc = pc]
           IN  /\ t \in RequestRow /\ t.pc = pc /\ Same(s, t) /\ t.to = s.to
               /\ t.kind = s.kind /\ t.seen = s.seen /\ t.was = s.was /\ t.long = s.long
BY DEF RequestRow, Same

LEMMA DoneRow ==
    ASSUME NEW s \in RequestRow
    PROVE  Done(s) \in RequestRow /\ Done(s).pc = "done" /\ Same(s, Done(s))
<1>1. "done" \in Stages
  BY DEF Stages
<1> QED
  BY <1>1, Onward DEF Done

LEMMA SetRequest ==
    ASSUME Inv, NEW p \in Requests, NEW t \in RequestRow, Set(p, t)
    PROVE  /\ request' \in [Requests -> RequestRow] /\ request'[p] = t
           /\ \A x \in Requests : x # p => request'[x] = request[x]
BY DEF Inv, Typing, Set

\* One request moves on or arrives; the others are where they were.
LEMMA OneMoves ==
    ASSUME Inv, NEW p \in Requests, NEW t \in RequestRow, Set(p, t),
           acted' = acted \/ acted' = acted \cup {p},
           log' \subseteq log \cup {p},
           request[p].act # "none" => Same(request[p], t)
    PROVE  /\ request' \in [Requests -> RequestRow] /\ request'[p] = t
           /\ \A x \in Requests : x # p => request'[x] = request[x]
           /\ acted' \subseteq Requests
           /\ Keeps
           /\ \A x \in Requests : x # p => Progress(x)' /\ Chosen(x)'
<1>1. /\ request' \in [Requests -> RequestRow] /\ request'[p] = t
      /\ \A x \in Requests : x # p => request'[x] = request[x]
  BY SetRequest
<1>2. acted' \subseteq Requests
  BY DEF Inv, Typing
<1>3. Keeps
  BY <1>1 DEF Keeps, Same
<1>4. ASSUME NEW x \in Requests, x # p PROVE Progress(x)' /\ Chosen(x)'
  <2>1. request'[x] = request[x] /\ (x \in acted' <=> x \in acted) /\ (x \in log' => x \in log)
    BY <1>1, <1>4
  <2>2. Progress(x) /\ Chosen(x)
    BY DEF Inv
  <2>3. Progress(x)'
    BY <2>1, <2>2 DEF Progress
  <2>4. Chosen(x)'
    BY <2>1, <2>2 DEF Chosen
  <2> QED
    BY <2>3, <2>4
<1> QED
  BY <1>1, <1>2, <1>3, <1>4

LEMMA KeepsAct ==
    ASSUME Inv, Keeps, NEW x \in Requests, x \in acted
    PROVE  x \in acted' /\ Same(request[x], request'[x])
BY DEF Inv, Keeps, Progress

\* The notifications that stay are those of accounts that stay.
LEMMA ToldStays ==
    ASSUME Inv,
           \A v \in Users, q \in Requests :
               inbox'[v][q] # "none" => inbox[v][q] # "none" /\ v \in accounts'
    PROVE  \A q \in Requests : Told(q)'
BY DEF Told

LEMMA InboxStays ==
    ASSUME Inv, inbox' = inbox, accounts' = accounts
    PROVE  \A q \in Requests : Told(q)'
BY DEF Inv, Told

\* The rows that stay keep what they refer to.
LEMMA RowsStay ==
    ASSUME Inv, Keeps, NEW x \in Requests
    PROVE  /\ reaction'[x] = reaction[x] /\ reaction[x] # None
                  /\ reaction[x].user \in accounts' /\ author'[reaction[x].post] # None
              => ReactionOK(x)'
           /\ comment'[x] = comment[x] /\ comment[x] # None
                  /\ comment[x].user \in accounts' /\ author'[comment[x].post] # None
              => CommentOK(x)'
<1>1. ASSUME reaction'[x] = reaction[x], reaction[x] # None,
             reaction[x].user \in accounts', author'[reaction[x].post] # None
      PROVE  ReactionOK(x)'
  <2>1. reaction[x] \in [post : Posts, user : accounts, kind : Kinds] /\ SameAct(x, reaction[x])
    BY <1>1 DEF Inv, ReactionOK
  <2>2. reaction[x] \in [post : Posts, user : accounts', kind : Kinds]
    BY <1>1, <2>1
  <2>3. x \in acted' /\ Same(request[x], request'[x])
    BY <2>1, KeepsAct DEF SameAct
  <2>4. request'[x].user = reaction[x].user /\ request'[x].post = reaction[x].post
    BY <2>1, <2>3 DEF SameAct, Same
  <2> QED
    BY <1>1, <2>2, <2>3, <2>4 DEF ReactionOK, SameAct
<1>2. ASSUME comment'[x] = comment[x], comment[x] # None,
             comment[x].user \in accounts', author'[comment[x].post] # None
      PROVE  CommentOK(x)'
  <2>1. comment[x] \in [post : Posts, user : accounts]
    BY <1>2 DEF Inv, CommentOK
  <2>2. comment[x] \in [post : Posts, user : accounts']
    BY <1>2, <2>1
  <2> QED
    BY <1>2, <2>2 DEF CommentOK
<1> QED
  BY <1>1, <1>2

LEMMA ReactionsStay ==
    ASSUME Inv, Keeps, accounts' = accounts, author' = author,
           NEW x \in Requests, reaction'[x] = reaction[x]
    PROVE  ReactionOK(x)'
<1>1. reaction[x] # None => reaction[x].user \in accounts' /\ author'[reaction[x].post] # None
  BY DEF Inv, ReactionOK
<1> QED
  BY <1>1, RowsStay DEF ReactionOK

LEMMA CommentsStay ==
    ASSUME Inv, Keeps, accounts' = accounts, author' = author,
           NEW x \in Requests, comment'[x] = comment[x]
    PROVE  CommentOK(x)'
<1>1. comment[x] # None => comment[x].user \in accounts' /\ author'[comment[x].post] # None
  BY DEF Inv, CommentOK
<1> QED
  BY <1>1, RowsStay DEF CommentOK

\* A step that begins no toggle, clashes none and adds no reaction leaves toggles
\* as much alone as they were.
LEMMA TogglesStay ==
    ASSUME Inv, Keeps, clashed' = clashed,
           \A x \in Requests : request'[x].pc = "react" => request'[x] = request[x],
           \A x \in Requests : reaction'[x] # None =>
               /\ reaction[x] # None
               /\ reaction'[x].user = reaction[x].user /\ reaction'[x].post = reaction[x].post
    PROVE  (\A q \in Requests : Seen(q)' /\ Alone(q)') /\ OneRow'
<1>1. \A u, p : OwnRows(u, p)' \subseteq OwnRows(u, p)
  BY DEF OwnRows
<1>2. ASSUME NEW q \in Requests PROVE Seen(q)'
  <2> SUFFICES ASSUME request'[q].pc = "react", request'[q].seen # None
               PROVE  request'[q].seen \in Requests /\ SameAct(request[q].seen, request[q])'
    BY DEF Seen
  <2>1. request'[q] = request[q]
    OBVIOUS
  <2>2. request[q].seen \in Requests /\ SameAct(request[q].seen, request[q])
    BY <2>1 DEF Inv, Seen
  <2>3. request[q].seen \in acted
    BY <2>2 DEF SameAct
  <2>4. /\ request[q].seen \in acted'
        /\ Same(request[request[q].seen], request'[request[q].seen])
    BY <2>2, <2>3, KeepsAct
  <2> QED
    BY <2>1, <2>2, <2>4 DEF SameAct, Same
<1>3. ASSUME NEW q \in Requests PROVE Alone(q)'
  <2> SUFFICES ASSUME request'[q].pc = "react",
                      <<request'[q].user, request'[q].post>> \notin clashed'
               PROVE  /\ OwnRows(request[q].user, request[q].post)' \subseteq {request'[q].seen}
                      /\ \A r \in Requests \ {q} :
                            ~ (request'[r].pc = "react" /\ request'[r].user = request'[q].user
                               /\ request'[r].post = request'[q].post)
    BY Zenon DEF Alone
  <2>1. request'[q] = request[q]
    OBVIOUS
  <2>2. Alone(q)
    BY DEF Inv
  <2>3. /\ OwnRows(request[q].user, request[q].post) \subseteq {request[q].seen}
        /\ \A r \in Requests \ {q} :
              ~ (request[r].pc = "react" /\ request[r].user = request[q].user
                 /\ request[r].post = request[q].post)
    BY <2>1, <2>2 DEF Alone
  <2>4. OwnRows(request[q].user, request[q].post)'
            \subseteq OwnRows(request[q].user, request[q].post)
    BY <2>1 DEF OwnRows
  <2> QED
    BY <2>1, <2>3, <2>4
<1>4. OneRow'
  <2> SUFFICES ASSUME NEW u \in Users, NEW p \in Posts, <<u, p>> \notin clashed',
                      NEW x \in OwnRows(u, p)', NEW y \in OwnRows(u, p)'
               PROVE  x = y
    BY DEF OneRow
  <2>1. x \in OwnRows(u, p) /\ y \in OwnRows(u, p)
    BY <1>1
  <2> QED
    BY <2>1 DEF Inv, OneRow
<1> QED
  BY <1>2, <1>3, <1>4

LEMMA LogStays ==
    ASSUME Inv, Keeps,
           \A q \in log' : q \in log \/ q \in acted' \/ request'[q].act = "goals"
    PROVE  LoggedTruly'
<1> SUFFICES ASSUME NEW q \in log' PROVE q \in acted' \/ request'[q].act = "goals"
  BY DEF LoggedTruly
<1>1. CASE q \in log
  <2>1. q \in Requests /\ (q \in acted \/ request[q].act = "goals") /\ request[q].act # "none"
    BY <1>1 DEF Inv, Typing, LoggedTruly, Progress
  <2> QED
    BY <2>1 DEF Keeps, Same
<1> QED
  BY <1>1

LEMMA PeopleStay ==
    ASSUME Inv, UNCHANGED people, author' = author, crashes' = crashes
    PROVE  People'
BY DEF Inv, People, people

\* What is left to show of a step of one request that tells nobody.
LEMMA MoveInv ==
    ASSUME Inv, NEW p \in Requests, NEW t \in RequestRow, Set(p, t),
           acted' = acted \/ acted' = acted \cup {p},
           log' \subseteq log \cup {p},
           UNCHANGED <<accounts, author, inbox>>,
           request[p].act # "none" => Same(request[p], t),
           People', Progress(p)', Chosen(p)',
           DOMAIN reaction' = Requests, DOMAIN comment' = Requests,
           \A x \in Requests : reaction'[x] = reaction[x] \/ ReactionOK(x)',
           \A x \in Requests : comment'[x] = comment[x] \/ CommentOK(x)',
           p \in log' => p \in log \/ p \in acted' \/ t.act = "goals",
           \A x \in Requests : Seen(x)' /\ Alone(x)', OneRow'
    PROVE  Inv'
<1>1. /\ request' \in [Requests -> RequestRow] /\ request'[p] = t
      /\ acted' \subseteq Requests /\ Keeps
      /\ \A x \in Requests : x # p => Progress(x)' /\ Chosen(x)'
  BY OneMoves
<1>2. Typing'
  BY <1>1 DEF Inv, Typing
<1>3. \A x \in Requests : Progress(x)' /\ Chosen(x)'
  BY <1>1
<1>4. \A x \in Requests : Told(x)'
  BY <1>1, InboxStays
<1>5. \A x \in Requests : ReactionOK(x)' /\ CommentOK(x)'
  BY <1>1, ReactionsStay, CommentsStay
<1>6. LoggedTruly'
  BY <1>1, LogStays
<1> QED
  BY <1>2, <1>3, <1>4, <1>5, <1>6 DEF Inv

LEMMA QuietMove ==
    ASSUME Inv, NEW p \in Requests, NEW t \in RequestRow, Set(p, t),
           acted' = acted \/ acted' = acted \cup {p},
           log' \subseteq log \cup {p},
           UNCHANGED <<accounts, rows, inbox, clashed>>,
           request[p].act # "none" => Same(request[p], t),
           People', Progress(p)', Chosen(p)', t.pc # "react",
           p \in log' => p \in log \/ p \in acted' \/ t.act = "goals"
    PROVE  Inv'
<1>1. /\ request'[p] = t /\ Keeps
      /\ \A x \in Requests : x # p => request'[x] = request[x]
  BY OneMoves
<1>2. reaction' = reaction /\ comment' = comment /\ author' = author
  BY DEF rows
<1>3. (\A q \in Requests : Seen(q)' /\ Alone(q)') /\ OneRow'
  BY <1>1, <1>2, TogglesStay
<1>4. DOMAIN reaction' = Requests /\ DOMAIN comment' = Requests
  BY <1>2 DEF Inv, Typing
<1> QED
  BY <1>2, <1>3, <1>4, MoveInv

-----------------------------------------------------------------------------
(* The steps of a request *)

\* A request that goes on, once its act is committed or it has ended.
LEMMA GoesOn ==
    ASSUME Inv, NEW p \in Requests, request[p].pc # "idle",
           NEW t \in RequestRow, Set(p, t), Same(request[p], t),
           t.pc \in {"done", "refresh", "log", "choose", "notify"},
           t.pc # "done" => p \in acted',
           t.pc = "notify" => request[p].user \notin t.to
    PROVE  Progress(p)' /\ Chosen(p)' /\ request[p].act # "none"
<1>1. request'[p] = t
  BY SetRequest
<1>2. Progress(p) /\ request[p].act # "none"
  BY DEF Inv, Progress
<1>3. Progress(p)'
  BY <1>1, <1>2 DEF Progress, Same
<1>4. Chosen(p)'
  BY <1>1 DEF Chosen, Same
<1> QED
  BY <1>2, <1>3, <1>4

LEMMA QuietStep ==
    ASSUME Inv, NEW p \in Requests, request[p].pc # "idle",
           NEW t \in RequestRow, Set(p, t), Same(request[p], t),
           t.pc \in {"done", "refresh", "log", "choose", "notify"},
           acted' = acted \/ acted' = acted \cup {p},
           t.pc # "done" => p \in acted',
           t.pc = "notify" => request[p].user \notin t.to,
           log' \subseteq log \cup {p}, p \in log' => p \in log \/ p \in acted',
           UNCHANGED <<people, rows, inbox, clashed, crashes>>
    PROVE  Inv'
<1>1. accounts' = accounts /\ author' = author
  BY DEF people, rows
<1>2. Progress(p)' /\ Chosen(p)' /\ request[p].act # "none"
  BY <1>1, GoesOn
<1>3. People'
  BY <1>1, PeopleStay
<1> QED
  BY <1>1, <1>2, <1>3, QuietMove

LEMMA FinishInv ==
    ASSUME Inv, NEW p \in Requests, request[p].pc # "idle", Finish(p),
           UNCHANGED <<people, rows, told, clashed, crashes>>
    PROVE  Inv'
<1> DEFINE t == Done(request[p])
<1>1. request[p] \in RequestRow
  BY DEF Inv, Typing
<1>2. t \in RequestRow /\ t.pc = "done" /\ Same(request[p], t)
  BY <1>1, DoneRow
<1>3. Set(p, t) /\ acted' = acted /\ inbox' = inbox /\ log' = log
  BY DEF Finish, told
<1> HIDE DEF t
<1> QED
  BY <1>2, <1>3, QuietStep

LEMMA CommentRefreshInv ==
    ASSUME Inv, NEW q \in Requests, CommentRefresh(q)
    PROVE  Inv'
<1>1. request[q].pc = "refresh" /\ UNCHANGED <<people, rows, told, clashed, crashes>>
  BY DEF CommentRefresh
<1>2. CASE Finish(q)
  BY <1>1, <1>2, FinishInv
<1>3. CASE Set(q, [request[q] EXCEPT !.pc = "log"]) /\ acted' = acted
  <2> DEFINE t == [request[q] EXCEPT !.pc = "log"]
  <2>1. request[q] \in RequestRow /\ "log" \in Stages
    BY DEF Inv, Typing, Stages
  <2>2. t \in RequestRow /\ t.pc = "log" /\ Same(request[q], t)
    BY <2>1, Onward
  <2>3. Set(q, t)
    BY <1>3
  <2>4. q \in acted
    BY <1>1 DEF Inv, Progress
  <2>5. inbox' = inbox /\ log' = log
    BY <1>1 DEF told
  <2> HIDE DEF t
  <2> QED
    BY <1>1, <1>3, <2>2, <2>3, <2>4, <2>5, QuietStep
<1> QED
  BY <1>2, <1>3 DEF CommentRefresh

LEMMA GoalsEndInv ==
    ASSUME Inv, NEW q \in Requests, GoalsEnd(q)
    PROVE  Inv'
<1>1. request[q].pc = "goals" /\ UNCHANGED <<people, rows, told, clashed, crashes>>
  BY DEF GoalsEnd
<1>2. CASE Finish(q)
  BY <1>1, <1>2, FinishInv
<1>3. CASE Acted(q, "done")
  <2> DEFINE t == [request[q] EXCEPT !.pc = "done"]
  <2>1. request[q] \in RequestRow /\ "done" \in Stages
    BY DEF Inv, Typing, Stages
  <2>2. t \in RequestRow /\ t.pc = "done" /\ Same(request[q], t)
    BY <2>1, Onward
  <2>3. Set(q, t) /\ acted' = acted \cup {q}
    BY <1>3 DEF Acted
  <2>4. inbox' = inbox /\ log' = log
    BY <1>1 DEF told
  <2> HIDE DEF t
  <2> QED
    BY <1>1, <2>2, <2>3, <2>4, QuietStep
<1> QED
  BY <1>2, <1>3 DEF GoalsEnd

LEMMA LogActInv ==
    ASSUME Inv, NEW q \in Requests, LogAct(q)
    PROVE  Inv'
<1>1. /\ request[q].pc = "log" /\ acted' = acted /\ inbox' = inbox
      /\ UNCHANGED <<people, rows, clashed, crashes>>
  BY DEF LogAct
<1>2. request[q] \in RequestRow /\ "choose" \in Stages /\ q \in acted
  BY <1>1 DEF Inv, Typing, Stages, Progress
<1>3. CASE Set(q, Done(request[q])) /\ log' = log
  <2> DEFINE t == Done(request[q])
  <2>1. t \in RequestRow /\ t.pc = "done" /\ Same(request[q], t)
    BY <1>2, DoneRow
  <2>2. Set(q, t)
    BY <1>3
  <2> HIDE DEF t
  <2> QED
    BY <1>1, <1>3, <2>1, <2>2, QuietStep
<1>4. CASE Set(q, [request[q] EXCEPT !.pc = "choose"]) /\ log' = log \cup {q}
  <2> DEFINE t == [request[q] EXCEPT !.pc = "choose"]
  <2>1. t \in RequestRow /\ t.pc = "choose" /\ Same(request[q], t)
    BY <1>2, Onward
  <2>2. Set(q, t)
    BY <1>4
  <2> HIDE DEF t
  <2> QED
    BY <1>1, <1>2, <1>4, <2>1, <2>2, QuietStep
<1> QED
  BY <1>3, <1>4 DEF LogAct

LEMMA ChooseInv ==
    ASSUME Inv, NEW q \in Requests, Choose(q)
    PROVE  Inv'
<1> DEFINE s == request[q]
           to == Receivers(s) \cap enabled
<1>1. /\ s.pc = "choose" /\ acted' = acted
      /\ Set(q, IF to = {} THEN Done(s) ELSE [s EXCEPT !.pc = "notify", !.to = to])
      /\ UNCHANGED <<people, rows, told, clashed, crashes>>
  BY DEF Choose
<1>2. inbox' = inbox /\ log' = log
  BY <1>1 DEF told
<1>3. s \in RequestRow /\ q \in acted
  BY <1>1 DEF Inv, Typing, Progress
<1>4. \A v \in to : v # s.user /\ v \in Users
  <2> TAKE v \in to
  <2>1. v \in Users
    BY DEF Inv, People
  <2>2. v # s.user
    BY DEF Receivers
  <2> QED
    BY <2>1, <2>2
<1>5. CASE to = {}
  <2> DEFINE t == Done(s)
  <2>1. t \in RequestRow /\ t.pc = "done" /\ Same(s, t)
    BY <1>3, DoneRow
  <2>2. Set(q, t)
    BY <1>1, <1>5
  <2> HIDE DEF t
  <2> QED
    BY <1>1, <1>2, <2>1, <2>2, QuietStep
<1>6. CASE to # {}
  <2> DEFINE t == [s EXCEPT !.pc = "notify", !.to = to]
  <2>1. to \in SUBSET Users
    BY <1>4
  <2>2. Set(q, t)
    BY <1>1, <1>6
  <2> HIDE DEF to, s
  <2>3. t \in RequestRow /\ t.pc = "notify" /\ t.to = to /\ Same(s, t)
    BY <1>3, <2>1 DEF RequestRow, Same, Stages
  <2> HIDE DEF t
  <2> USE DEF s
  <2> QED
    BY <1>1, <1>2, <1>3, <1>4, <2>2, <2>3, QuietStep
<1> QED
  BY <1>5, <1>6

-----------------------------------------------------------------------------
(* The steps that begin a request *)

LEMMA Arrives ==
    ASSUME Inv, NEW q \in Requests, request[q] = Idle
    PROVE  q \notin acted /\ q \notin log /\ request[q].act = "none"
BY IdleRow DEF Inv, Progress

LEMMA JoinInv ==
    ASSUME Inv, NEW q \in Requests, NEW u \in Users, Join(q, u)
    PROVE  Inv'
<1> DEFINE t == [Idle EXCEPT !.pc = "log", !.act = "join", !.user = u]
<1>1. /\ request[q] = Idle /\ Set(q, t) /\ acted' = acted \cup {q}
      /\ u \in accounts /\ members' = members \cup {u}
      /\ UNCHANGED <<accounts, enabled, muted, rows, told, clashed, crashes>>
  BY DEF Join
<1>2. t \in RequestRow /\ t.pc = "log" /\ t.act = "join"
  BY IdleRow DEF RequestRow, Stages, Acts
<1> HIDE DEF t
<1>3. inbox' = inbox /\ log' = log /\ author' = author
  BY <1>1 DEF told, rows
<1>4. request'[q] = t
  BY <1>1, <1>2, SetRequest
<1>5. Progress(q)' /\ Chosen(q)'
  BY <1>1, <1>2, <1>4 DEF Progress, Chosen
<1>6. People'
  BY <1>1, <1>3 DEF Inv, People
<1> QED
  BY <1>1, <1>2, <1>3, <1>5, <1>6, Arrives, QuietMove

LEMMA GoalsLoopInv ==
    ASSUME Inv, NEW q \in Requests, NEW u \in Users, GoalsLoop(q, u)
    PROVE  Inv'
<1> DEFINE t == [Idle EXCEPT !.pc = "goals", !.act = "goals", !.user = u]
<1>1. /\ request[q] = Idle /\ Set(q, t) /\ acted' = acted /\ log' = log \cup {q}
      /\ UNCHANGED <<people, rows, inbox, clashed, crashes>>
  BY DEF GoalsLoop
<1>2. t \in RequestRow /\ t.pc = "goals" /\ t.act = "goals"
  BY IdleRow DEF RequestRow, Stages, Acts
<1> HIDE DEF t
<1>3. accounts' = accounts /\ author' = author
  BY <1>1 DEF people, rows
<1>4. request'[q] = t
  BY <1>1, <1>2, SetRequest
<1>5. Progress(q)' /\ Chosen(q)'
  BY <1>1, <1>2, <1>4 DEF Progress, Chosen
<1>6. People'
  BY <1>1, <1>3, PeopleStay
<1> QED
  BY <1>1, <1>2, <1>3, <1>5, <1>6, Arrives, QuietMove

LEMMA RemoveReadInv ==
    ASSUME Inv, NEW q \in Requests, NEW u \in Users, NEW p \in Posts, NEW k \in Kinds,
           RemoveRead(q, u, p, k)
    PROVE  Inv'
<1>1. PICK x \in Requests :
          Set(q, [Idle EXCEPT !.pc = "unreact", !.act = "removal", !.user = u, !.seen = x])
  BY DEF RemoveRead, OwnRows
<1> DEFINE t == [Idle EXCEPT !.pc = "unreact", !.act = "removal", !.user = u, !.seen = x]
<1>2. /\ request[q] = Idle /\ Set(q, t) /\ acted' = acted
      /\ UNCHANGED <<people, rows, told, clashed, crashes>>
  BY <1>1 DEF RemoveRead
<1>3. t \in RequestRow /\ t.pc = "unreact" /\ t.act = "removal" /\ t.seen = x
  BY IdleRow DEF RequestRow, Stages, Acts
<1> HIDE DEF t
<1>4. /\ accounts' = accounts /\ author' = author
      /\ inbox' = inbox /\ log' = log
  BY <1>2 DEF people, rows, told
<1>5. request'[q] = t
  BY <1>2, <1>3, SetRequest
<1>6. q \notin acted /\ request[q].act = "none"
  BY <1>2, Arrives
<1>7. Progress(q)' /\ Chosen(q)'
  BY <1>2, <1>3, <1>5, <1>6 DEF Progress, Chosen
<1>8. People'
  BY <1>2, <1>4, PeopleStay
<1> QED
  BY <1>2, <1>3, <1>4, <1>6, <1>7, <1>8, QuietMove

LEMMA CommentReadInv ==
    ASSUME Inv, NEW q \in Requests, NEW u \in Users, NEW p \in Posts, NEW long \in BOOLEAN,
           CommentRead(q, u, p, long)
    PROVE  Inv'
<1> DEFINE t == [Idle EXCEPT !.pc = "comment", !.act = "comment", !.user = u, !.post = p,
                             !.owner = author[p], !.long = long]
<1>1. /\ request[q] = Idle /\ Set(q, t) /\ acted' = acted
      /\ UNCHANGED <<people, rows, told, clashed, crashes>>
  BY DEF CommentRead
<1>2. author[p] \in Users \cup {None}
  BY DEF Inv, People
<1>3. t \in RequestRow /\ t.pc = "comment" /\ t.act = "comment" /\ t.user = u /\ t.post = p
  <2>1. t \in RequestRow
    BY <1>2, IdleRow DEF RequestRow, Stages, Acts
  <2>2. t.pc = "comment" /\ t.act = "comment" /\ t.user = u /\ t.post = p
    BY IdleRow DEF RequestRow
  <2> QED
    BY <2>1, <2>2
<1> HIDE DEF t
<1>4. /\ accounts' = accounts /\ author' = author
      /\ inbox' = inbox /\ log' = log
  BY <1>1 DEF people, rows, told
<1>5. request'[q] = t
  BY <1>1, <1>3, SetRequest
<1>6. q \notin acted /\ request[q].act = "none"
  BY <1>1, Arrives
<1>7. Progress(q)' /\ Chosen(q)'
  BY <1>1, <1>3, <1>5, <1>6 DEF Progress, Chosen
<1>8. People'
  BY <1>1, <1>4, PeopleStay
<1> QED
  BY <1>1, <1>3, <1>4, <1>6, <1>7, <1>8, QuietMove

\* A toggle begins: it has seen the one row there may be, and if another is under
\* way for the same user and post, the two have clashed from now on.
LEMMA ToggleReadInv ==
    ASSUME Inv, NEW q \in Requests, NEW u \in Users, NEW p \in Posts, NEW k \in Kinds,
           ToggleRead(q, u, p, k)
    PROVE  Inv'
<1>1. PICK x \in Requests \cup {None} :
          /\ OwnRows(u, p) = {x} \ {None}
          /\ Set(q, [Idle EXCEPT !.pc = "react", !.act = "reaction", !.user = u, !.post = p,
                                 !.owner = author[p], !.kind = k, !.seen = x,
                                 !.was = IF x = None THEN None ELSE reaction[x].kind])
  BY DEF ToggleRead
<1> DEFINE was == IF x = None THEN None ELSE reaction[x].kind
           t == [Idle EXCEPT !.pc = "react", !.act = "reaction", !.user = u, !.post = p,
                             !.owner = author[p], !.kind = k, !.seen = x, !.was = was]
<1>2. /\ request[q] = Idle /\ Set(q, t) /\ acted' = acted
      /\ clashed' = IF Toggling(u, p) THEN clashed \cup {<<u, p>>} ELSE clashed
      /\ UNCHANGED <<people, rows, told, crashes>>
  BY <1>1 DEF ToggleRead
<1>3. author[p] \in Users \cup {None} /\ was \in Kinds \cup {None}
  <2>1. author[p] \in Users \cup {None}
    BY DEF Inv, People
  <2>2. x # None => x \in OwnRows(u, p) /\ x \in Requests
    BY <1>1
  <2>3. x # None => reaction[x] # None /\ ReactionOK(x)
    BY <2>2 DEF OwnRows, Inv
  <2>4. x # None => reaction[x].kind \in Kinds
    BY <2>3 DEF ReactionOK
  <2> QED
    BY <2>1, <2>4
<1> HIDE DEF was
<1>4. /\ t \in RequestRow /\ t.pc = "react" /\ t.act = "reaction" /\ t.user = u
      /\ t.post = p /\ t.kind = k /\ t.seen = x
  <2>1. t \in RequestRow
    BY <1>3, IdleRow DEF RequestRow, Stages, Acts
  <2>2. /\ t.pc = "react" /\ t.act = "reaction" /\ t.user = u
        /\ t.post = p /\ t.kind = k /\ t.seen = x
    BY IdleRow DEF RequestRow
  <2> QED
    BY <2>1, <2>2
<1> HIDE DEF t
<1>5. /\ accounts' = accounts /\ author' = author
      /\ inbox' = inbox /\ log' = log /\ reaction' = reaction /\ comment' = comment
  BY <1>2 DEF people, rows, told
<1>6. q \notin acted /\ request[q].act = "none"
  BY <1>2, Arrives
<1>7. /\ request'[q] = t /\ Keeps
      /\ \A y \in Requests : y # q => request'[y] = request[y]
  BY <1>2, <1>4, <1>5, <1>6, OneMoves
<1>8. Progress(q)' /\ Chosen(q)'
  BY <1>2, <1>4, <1>6, <1>7 DEF Progress, Chosen
<1>9. People'
  BY <1>2, <1>5, PeopleStay
<1>10. \A v, w : OwnRows(v, w)' = OwnRows(v, w)
  BY <1>5 DEF OwnRows
<1>11. \A y \in Requests : y \in acted => y # q
  BY <1>6
<1>12. ASSUME NEW y \in Requests PROVE Seen(y)'
  <2>1. CASE y = q
    <3>1. x # None => /\ x \in Requests /\ reaction[x] # None
                      /\ reaction[x].user = u /\ reaction[x].post = p
      BY <1>1 DEF OwnRows
    <3>2. x # None => SameAct(x, reaction[x])
      BY <3>1 DEF Inv, ReactionOK
    <3>3. x # None => x \in acted /\ request'[x].user = u /\ request'[x].post = p
      BY <1>7, <1>11, <3>1, <3>2 DEF SameAct
    <3> QED
      BY <1>2, <1>4, <1>7, <2>1, <3>1, <3>3 DEF Seen, SameAct
  <2>2. CASE y # q
    <3>1. request'[y] = request[y] /\ Seen(y)
      BY <1>7, <2>2 DEF Inv
    <3>2. SameAct(request[y].seen, request[y]) /\ request[y].seen \in Requests
              => request'[request[y].seen] = request[request[y].seen]
      BY <1>7, <1>11 DEF SameAct
    <3> QED
      BY <1>2, <3>1, <3>2 DEF Seen, SameAct
  <2> QED
    BY <2>1, <2>2
<1>13. Toggling(u, p) => <<u, p>> \in clashed'
  BY <1>2
<1>14. clashed \subseteq clashed'
  BY <1>2
<1>15. ASSUME NEW y \in Requests PROVE Alone(y)'
  <2> SUFFICES ASSUME request'[y].pc = "react",
                      <<request'[y].user, request'[y].post>> \notin clashed'
               PROVE  /\ OwnRows(request[y].user, request[y].post)' \subseteq {request'[y].seen}
                      /\ \A r \in Requests \ {y} :
                            ~ (request'[r].pc = "react" /\ request'[r].user = request'[y].user
                               /\ request'[r].post = request'[y].post)
    BY Zenon DEF Alone
  <2>1. CASE y = q
    <3>1. ~ Toggling(u, p)
      BY <1>4, <1>7, <1>13, <2>1
    <3>2. OwnRows(request[y].user, request[y].post)' \subseteq {x}
      BY <1>1, <1>4, <1>5, <1>7, <2>1 DEF OwnRows
    <3> QED
      BY <1>4, <1>7, <2>1, <3>1, <3>2 DEF Toggling
  <2>2. CASE y # q
    <3>1. request'[y] = request[y] /\ Alone(y)
      BY <1>7, <2>2 DEF Inv
    <3>2. /\ OwnRows(request[y].user, request[y].post) \subseteq {request[y].seen}
          /\ \A r \in Requests \ {y} :
                ~ (request[r].pc = "react" /\ request[r].user = request[y].user
                   /\ request[r].post = request[y].post)
      BY <1>14, <3>1 DEF Alone
    <3>3. OwnRows(request[y].user, request[y].post)'
              \subseteq OwnRows(request[y].user, request[y].post)
      BY <1>5, <3>1 DEF OwnRows
    <3>4. ~ (request'[q].user = request'[y].user /\ request'[q].post = request'[y].post)
      BY <1>4, <1>7, <1>13, <3>1 DEF Toggling
    <3> QED
      BY <1>7, <3>1, <3>2, <3>3, <3>4
  <2> QED
    BY <2>1, <2>2
<1>16. OneRow'
  BY <1>10, <1>14 DEF Inv, OneRow
<1>17. DOMAIN reaction' = Requests /\ DOMAIN comment' = Requests
  BY <1>5 DEF Inv, Typing
<1> QED
  BY <1>2, <1>4, <1>5, <1>6, <1>8, <1>9, <1>12, <1>15, <1>16, <1>17, MoveInv

-----------------------------------------------------------------------------
(* The steps that write *)

\* A toggle at work: its own rows, and what the invariant says of it.
LEMMA AtWork ==
    ASSUME Inv, NEW q \in Requests, request[q].pc = "react"
    PROVE  LET s == request[q]
           IN  /\ s \in RequestRow /\ s.user \in Users /\ s.post \in Posts /\ s.kind \in Kinds
               /\ q \notin acted /\ reaction[q] = None /\ s.act # "none"
               /\ s.seen # None =>
                     /\ s.seen \in Requests
                     /\ reaction[s.seen] # None =>
                           reaction[s.seen].user = s.user /\ reaction[s.seen].post = s.post
<1>1. Progress(q) /\ ReactionOK(q) /\ Seen(q) /\ request[q] \in RequestRow
  BY DEF Inv, Typing
<1>2. /\ request[q].user \in Users /\ request[q].post \in Posts /\ request[q].kind \in Kinds
      /\ q \notin acted /\ request[q].act # "none"
  BY <1>1 DEF Progress
<1>3. reaction[q] = None
  BY <1>1, <1>2 DEF ReactionOK, SameAct
<1>4. ASSUME request[q].seen # None
      PROVE  /\ request[q].seen \in Requests
             /\ reaction[request[q].seen] # None =>
                   /\ reaction[request[q].seen].user = request[q].user
                   /\ reaction[request[q].seen].post = request[q].post
  <2>1. request[q].seen \in Requests /\ SameAct(request[q].seen, request[q])
    BY <1>1, <1>4 DEF Seen
  <2>2. ReactionOK(request[q].seen)
    BY <2>1 DEF Inv
  <2> QED
    BY <2>1, <2>2 DEF ReactionOK, SameAct
<1> QED
  BY <1>1, <1>2, <1>3, <1>4

\* The insert of a first reaction adds a row where its user had none.
LEMMA InsertsAlone ==
    ASSUME Inv, NEW q \in Requests, request[q].pc = "react", request[q].seen = None,
           NEW t \in RequestRow, Set(q, t), t.pc = "choose", Keeps, clashed' = clashed,
           reaction' = [reaction EXCEPT ![q] = Row(request[q])]
    PROVE  (\A y \in Requests : Seen(y)' /\ Alone(y)') /\ OneRow'
<1> DEFINE s == request[q]
<1>1. /\ s.user \in Users /\ s.post \in Posts
      /\ q \notin acted /\ reaction[q] = None /\ DOMAIN reaction = Requests
  BY AtWork DEF Inv, Typing
<1>2. /\ request'[q] = t
      /\ \A y \in Requests : y # q => request'[y] = request[y]
  BY SetRequest
<1>3. /\ \A y \in Requests : y # q => reaction'[y] = reaction[y]
      /\ reaction'[q].user = s.user /\ reaction'[q].post = s.post
  BY <1>1 DEF Row
<1>4. ASSUME NEW u, NEW p, u # s.user \/ p # s.post
      PROVE  OwnRows(u, p)' \subseteq OwnRows(u, p)
  BY <1>3, <1>4 DEF OwnRows
<1>6. ASSUME NEW u, NEW p PROVE OwnRows(u, p)' \subseteq OwnRows(u, p) \cup {q}
  BY <1>3 DEF OwnRows
<1>7. ASSUME NEW y \in Requests PROVE Seen(y)'
  <2> SUFFICES ASSUME request'[y].pc = "react", request'[y].seen # None
               PROVE  request'[y].seen \in Requests /\ SameAct(request[y].seen, request[y])'
    BY DEF Seen
  <2>1. y # q /\ request'[y] = request[y]
    BY <1>2
  <2>2. request[y].seen \in Requests /\ SameAct(request[y].seen, request[y])
    BY <2>1 DEF Inv, Seen
  <2>3. request[y].seen # q
    BY <1>1, <2>2 DEF SameAct
  <2>4. request'[request[y].seen] = request[request[y].seen]
    BY <1>2, <2>2, <2>3
  <2> QED
    BY <2>1, <2>2, <2>4 DEF SameAct, Keeps
<1>8. ASSUME NEW y \in Requests PROVE Alone(y)'
  <2> SUFFICES ASSUME request'[y].pc = "react",
                      <<request'[y].user, request'[y].post>> \notin clashed'
               PROVE  /\ OwnRows(request[y].user, request[y].post)' \subseteq {request'[y].seen}
                      /\ \A r \in Requests \ {y} :
                            ~ (request'[r].pc = "react" /\ request'[r].user = request'[y].user
                               /\ request'[r].post = request'[y].post)
    BY Zenon DEF Alone
  <2>1. y # q /\ request'[y] = request[y] /\ Alone(y)
    BY <1>2 DEF Inv
  <2>2. /\ OwnRows(request[y].user, request[y].post) \subseteq {request[y].seen}
        /\ \A r \in Requests \ {y} :
              ~ (request[r].pc = "react" /\ request[r].user = request[y].user
                 /\ request[r].post = request[y].post)
    BY <2>1 DEF Alone
  <2>3. request[y].user # s.user \/ request[y].post # s.post
    BY <2>1, <2>2
  <2>4. OwnRows(request[y].user, request[y].post)'
            \subseteq OwnRows(request[y].user, request[y].post)
    BY <1>3, <2>1, <2>3 DEF OwnRows
  <2>5. \A r \in Requests \ {y} :
            ~ (request'[r].pc = "react" /\ request'[r].user = request'[y].user
               /\ request'[r].post = request'[y].post)
    BY <1>2, <2>1, <2>2
  <2> QED
    BY <2>1, <2>2, <2>4, <2>5
<1>9. OneRow'
  <2> SUFFICES ASSUME NEW u \in Users, NEW p \in Posts, <<u, p>> \notin clashed,
                      NEW x \in OwnRows(u, p)', NEW y \in OwnRows(u, p)'
               PROVE  x = y
    BY DEF OneRow
  <2>1. CASE u = s.user /\ p = s.post
    <3>1. OwnRows(u, p) \subseteq {None}
      BY <2>1 DEF Inv, Alone
    <3>2. OwnRows(u, p) \subseteq Requests
      BY DEF OwnRows
    <3>3. OwnRows(u, p) = {}
      BY <3>1, <3>2, EngagementAssumption
    <3>4. OwnRows(u, p)' \subseteq {q}
      BY <1>6, <3>3
    <3> QED
      BY <3>4
  <2>2. CASE u # s.user \/ p # s.post
    <3>1. OwnRows(u, p)' \subseteq OwnRows(u, p)
      BY <1>4, <2>2
    <3> QED
      BY <3>1 DEF Inv, OneRow
  <2> QED
    BY <2>1, <2>2
<1> QED
  BY <1>7, <1>8, <1>9

LEMMA ReactFirstInv ==
    ASSUME Inv, NEW q \in Requests, ReactFirst(q)
    PROVE  Inv'
<1> DEFINE s == request[q]
           t == [s EXCEPT !.pc = "choose"]
<1>1. /\ s.pc = "react" /\ s.seen = None
      /\ UNCHANGED <<people, author, comment, told, clashed, crashes>>
  BY DEF ReactFirst
<1>2. CASE Finish(q) /\ reaction' = reaction
  <2>1. UNCHANGED <<people, rows, told, clashed, crashes>>
    BY <1>1, <1>2 DEF rows
  <2> QED
    BY <1>1, <1>2, <2>1, FinishInv
<1>3. CASE /\ author[s.post] # None /\ s.user \in accounts
           /\ reaction' = [reaction EXCEPT ![q] = Row(s)] /\ Acted(q, "choose")
  <2>1. /\ s \in RequestRow /\ s.user \in Users /\ s.post \in Posts /\ s.kind \in Kinds
        /\ s.act # "none"
    BY <1>1, AtWork
  <2>2. t \in RequestRow /\ t.pc = "choose" /\ Same(s, t)
    BY <2>1, Onward DEF Stages
  <2>3. Set(q, t) /\ acted' = acted \cup {q}
    BY <1>3 DEF Acted
  <2>4. /\ accounts' = accounts
        /\ inbox' = inbox /\ log' = log /\ author' = author
    BY <1>1 DEF people, told
  <2> HIDE DEF t
  <2>5. /\ request'[q] = t /\ Keeps
    BY <2>2, <2>3, <2>4, OneMoves
  <2>6. (\A y \in Requests : Seen(y)' /\ Alone(y)') /\ OneRow'
    BY <1>1, <1>3, <2>2, <2>3, <2>5, InsertsAlone
  <2>7. Progress(q)' /\ Chosen(q)'
    BY <1>1, <2>2, <2>3, <2>4, GoesOn
  <2>8. People'
    BY <1>1, <2>4, PeopleStay
  <2>9. /\ DOMAIN reaction' = Requests /\ DOMAIN comment' = Requests /\ comment' = comment
        /\ reaction'[q] = Row(s) /\ \A x \in Requests : x # q => reaction'[x] = reaction[x]
    BY <1>1, <1>3 DEF Inv, Typing
  <2>10. ReactionOK(q)'
    <3>1. /\ Row(s) \in [post : Posts, user : accounts, kind : Kinds]
          /\ Row(s).user = s.user /\ Row(s).post = s.post
      BY <1>3, <2>1 DEF Row
    <3>2. q \in acted' /\ request'[q].user = s.user /\ request'[q].post = s.post
      BY <2>2, <2>3, <2>5 DEF Same
    <3> QED
      BY <1>3, <2>4, <2>9, <3>1, <3>2 DEF ReactionOK, SameAct
  <2> QED
    BY <2>2, <2>3, <2>4, <2>6, <2>7, <2>8, <2>9, <2>10, MoveInv
<1> QED
  BY <1>2, <1>3 DEF ReactFirst

LEMMA ReactReplaceInv ==
    ASSUME Inv, NEW q \in Requests, ReactReplace(q)
    PROVE  Inv'
<1> DEFINE s == request[q]
           t == [s EXCEPT !.pc = "choose"]
<1>1. /\ s.pc = "react" /\ s.seen # None
      /\ UNCHANGED <<people, author, comment, told, clashed, crashes>>
  BY DEF ReactReplace
<1>2. CASE Finish(q) /\ reaction' = reaction
  <2>1. UNCHANGED <<people, rows, told, clashed, crashes>>
    BY <1>1, <1>2 DEF rows
  <2> QED
    BY <1>1, <1>2, <2>1, FinishInv
<1>3. CASE /\ reaction[s.seen] # None
           /\ reaction' = [reaction EXCEPT ![s.seen] = Row(s)] /\ Acted(q, "choose")
  <2>1. /\ s \in RequestRow /\ s.user \in Users /\ s.post \in Posts /\ s.kind \in Kinds
        /\ s.act # "none" /\ s.seen \in Requests
        /\ reaction[s.seen].user = s.user /\ reaction[s.seen].post = s.post
    BY <1>1, <1>3, AtWork
  <2>2. t \in RequestRow /\ t.pc = "choose" /\ Same(s, t)
    BY <2>1, Onward DEF Stages
  <2>3. Set(q, t) /\ acted' = acted \cup {q}
    BY <1>3 DEF Acted
  <2>4. /\ accounts' = accounts
        /\ inbox' = inbox /\ log' = log /\ author' = author
    BY <1>1 DEF people, told
  <2>5. /\ DOMAIN reaction' = Requests /\ DOMAIN comment' = Requests /\ comment' = comment
        /\ reaction'[s.seen] = Row(s)
        /\ \A x \in Requests : x # s.seen => reaction'[x] = reaction[x]
    BY <1>1, <1>3, <2>1 DEF Inv, Typing
  <2>6. /\ Row(s) \in [post : Posts, user : Users, kind : Kinds]
        /\ Row(s).user = s.user /\ Row(s).post = s.post /\ Row(s).kind = s.kind
    BY <2>1 DEF Row
  <2> HIDE DEF t
  <2>7. /\ request'[q] = t /\ Keeps
        /\ \A x \in Requests : x # q => request'[x] = request[x]
    BY <2>2, <2>3, <2>4, OneMoves
  <2>8. \A x \in Requests : request'[x].pc = "react" => request'[x] = request[x]
    BY <2>2, <2>7
  <2>9. \A x \in Requests : reaction'[x] # None =>
            /\ reaction[x] # None
            /\ reaction'[x].user = reaction[x].user /\ reaction'[x].post = reaction[x].post
    BY <1>3, <2>1, <2>5, <2>6
  <2>10. (\A y \in Requests : Seen(y)' /\ Alone(y)') /\ OneRow'
    BY <1>1, <2>7, <2>8, <2>9, TogglesStay
  <2>11. Progress(q)' /\ Chosen(q)'
    BY <1>1, <2>2, <2>3, <2>4, GoesOn
  <2>12. People'
    BY <1>1, <2>4, PeopleStay
  <2>13. PICK z \in Requests : z = s.seen
    BY <2>1
  <2>14. ReactionOK(z)'
    <3>1. /\ reaction[s.seen] \in [post : Posts, user : accounts, kind : Kinds]
          /\ author[reaction[s.seen].post] # None /\ SameAct(s.seen, reaction[s.seen])
      BY <1>3, <2>1 DEF Inv, ReactionOK
    <3>2. /\ Row(s) \in [post : Posts, user : accounts, kind : Kinds]
          /\ author[Row(s).post] # None
      BY <2>1, <2>6, <3>1 DEF Row
    <3>3. s.seen \in acted /\ request[s.seen].user = s.user /\ request[s.seen].post = s.post
      BY <2>1, <3>1 DEF SameAct
    <3>4. /\ s.seen \in acted'
          /\ request'[s.seen].user = s.user /\ request'[s.seen].post = s.post
      BY <2>1, <2>7, <3>3, KeepsAct DEF Same
    <3> QED
      BY <2>4, <2>5, <2>6, <2>13, <3>2, <3>4 DEF ReactionOK, SameAct
  <2> QED
    BY <2>2, <2>3, <2>4, <2>5, <2>10, <2>11, <2>12, <2>13, <2>14, MoveInv
<1> QED
  BY <1>2, <1>3 DEF ReactReplace

LEMMA ReactRemoveInv ==
    ASSUME Inv, NEW q \in Requests, ReactRemove(q)
    PROVE  Inv'
<1> DEFINE s == request[q]
           t == Done(s)
<1>1. /\ s.pc # "idle" /\ Set(q, t) /\ acted' = acted
      /\ reaction' = [reaction EXCEPT ![s.seen] = None]
      /\ UNCHANGED <<people, author, comment, told, clashed, crashes>>
  BY DEF ReactRemove, Finish
<1>2. s \in RequestRow /\ s.act # "none"
  BY <1>1 DEF Inv, Typing, Progress
<1>3. t \in RequestRow /\ t.pc = "done" /\ Same(s, t)
  BY <1>2, DoneRow
<1> HIDE DEF t
<1>4. /\ accounts' = accounts
      /\ inbox' = inbox /\ log' = log /\ author' = author
  BY <1>1 DEF people, told
<1>5. /\ DOMAIN reaction' = Requests /\ DOMAIN comment' = Requests /\ comment' = comment
      /\ \A x \in Requests : reaction'[x] = reaction[x] \/ reaction'[x] = None
  BY <1>1 DEF Inv, Typing
<1>6. /\ request'[q] = t /\ Keeps
      /\ \A x \in Requests : x # q => request'[x] = request[x]
  BY <1>1, <1>3, <1>4, OneMoves
<1>7. (\A y \in Requests : Seen(y)' /\ Alone(y)') /\ OneRow'
  <2>1. \A x \in Requests : request'[x].pc = "react" => request'[x] = request[x]
    BY <1>3, <1>6
  <2>2. \A x \in Requests : reaction'[x] # None =>
            /\ reaction[x] # None
            /\ reaction'[x].user = reaction[x].user /\ reaction'[x].post = reaction[x].post
    BY <1>5
  <2> QED
    BY <1>1, <1>6, <2>1, <2>2, TogglesStay
<1>8. Progress(q)' /\ Chosen(q)'
  BY <1>1, <1>3, <1>4, GoesOn
<1>9. People'
  BY <1>1, <1>4, PeopleStay
<1>10. \A x \in Requests : reaction'[x] = reaction[x] \/ ReactionOK(x)'
  BY <1>5 DEF ReactionOK
<1> QED
  BY <1>1, <1>3, <1>4, <1>5, <1>7, <1>8, <1>9, <1>10, MoveInv

LEMMA CommentWriteInv ==
    ASSUME Inv, NEW q \in Requests, CommentWrite(q)
    PROVE  Inv'
<1> DEFINE s == request[q]
           t == [s EXCEPT !.pc = "refresh"]
           c == [post |-> s.post, user |-> s.user]
<1>1. s.pc = "comment" /\ UNCHANGED <<people, author, reaction, told, clashed, crashes>>
  BY DEF CommentWrite
<1>2. CASE Finish(q) /\ comment' = comment
  <2>1. UNCHANGED <<people, rows, told, clashed, crashes>>
    BY <1>1, <1>2 DEF rows
  <2> QED
    BY <1>1, <1>2, <2>1, FinishInv
<1>3. CASE /\ author[s.post] # None /\ s.user \in accounts
           /\ comment' = [comment EXCEPT ![q] = c] /\ Acted(q, "refresh")
  <2>1. /\ s \in RequestRow /\ s.user \in Users /\ s.post \in Posts /\ s.act # "none"
    BY <1>1 DEF Inv, Typing, Progress
  <2>2. t \in RequestRow /\ t.pc = "refresh" /\ Same(s, t)
    BY <2>1, Onward DEF Stages
  <2>3. Set(q, t) /\ acted' = acted \cup {q}
    BY <1>3 DEF Acted
  <2>4. /\ accounts' = accounts
        /\ inbox' = inbox /\ log' = log /\ author' = author
    BY <1>1 DEF people, told
  <2>5. c \in [post : Posts, user : accounts] /\ c.post = s.post
    BY <1>3, <2>1
  <2> HIDE DEF t, c
  <2>6. /\ DOMAIN reaction' = Requests /\ DOMAIN comment' = Requests /\ reaction' = reaction
        /\ comment'[q] = c /\ \A x \in Requests : x # q => comment'[x] = comment[x]
    BY <1>1, <1>3 DEF Inv, Typing
  <2>7. /\ request'[q] = t /\ Keeps
        /\ \A x \in Requests : x # q => request'[x] = request[x]
    BY <2>2, <2>3, <2>4, OneMoves
  <2>8. \A x \in Requests : request'[x].pc = "react" => request'[x] = request[x]
    BY <2>2, <2>7
  <2>9. (\A y \in Requests : Seen(y)' /\ Alone(y)') /\ OneRow'
    BY <1>1, <2>6, <2>7, <2>8, TogglesStay
  <2>10. Progress(q)' /\ Chosen(q)'
    BY <1>1, <2>2, <2>3, <2>4, GoesOn
  <2>11. People'
    BY <1>1, <2>4, PeopleStay
  <2>12. CommentOK(q)'
    BY <1>3, <2>4, <2>5, <2>6 DEF CommentOK
  <2> QED
    BY <2>2, <2>3, <2>4, <2>6, <2>9, <2>10, <2>11, <2>12, MoveInv
<1> QED
  BY <1>2, <1>3 DEF CommentWrite

\* The receivers that were chosen, and no others, are told.
LEMMA NotifyInv ==
    ASSUME Inv, NEW q \in Requests, Notify(q)
    PROVE  Inv'
<1> DEFINE s == request[q]
           t == Done(s)
<1>1. /\ s.pc = "notify" /\ Set(q, t)
      /\ inbox' = [v \in Users |->
                       IF v \in s.to /\ s.to \cup {s.user} \subseteq accounts
                       THEN [inbox[v] EXCEPT ![q] = "unread"] ELSE inbox[v]]
      /\ UNCHANGED <<people, rows, log, acted, clashed, crashes>>
  BY DEF Notify
<1>2. s \in RequestRow /\ s.act # "none" /\ q \in acted
  BY <1>1 DEF Inv, Typing, Progress
<1>3. t \in RequestRow /\ t.pc = "done" /\ Same(s, t)
  BY <1>2, DoneRow
<1> HIDE DEF t
<1>4. /\ accounts' = accounts /\ author' = author
      /\ reaction' = reaction /\ comment' = comment
  BY <1>1 DEF people, rows
<1>5. /\ request' \in [Requests -> RequestRow] /\ request'[q] = t /\ Keeps
      /\ \A x \in Requests : x # q => request'[x] = request[x]
      /\ \A x \in Requests : x # q => Progress(x)' /\ Chosen(x)'
  BY <1>1, <1>3, <1>4, OneMoves
<1>6. \A x \in Requests : Progress(x)' /\ Chosen(x)'
  BY <1>1, <1>3, <1>4, <1>5, GoesOn
<1>7. /\ inbox' \in [Users -> [Requests -> {"none", "unread", "read"}]]
      /\ \A v \in Users, x \in Requests :
            inbox'[v][x] = inbox[v][x] \/ (x = q /\ v \in s.to /\ v \in accounts)
  <2>1. inbox \in [Users -> [Requests -> {"none", "unread", "read"}]]
    BY DEF Inv, Typing
  <2>2. \A v \in Users : inbox'[v] = IF v \in s.to /\ s.to \cup {s.user} \subseteq accounts
                                     THEN [inbox[v] EXCEPT ![q] = "unread"] ELSE inbox[v]
    BY <1>1
  <2>3. ASSUME NEW v \in Users
        PROVE  /\ inbox'[v] \in [Requests -> {"none", "unread", "read"}]
               /\ \A x \in Requests :
                     inbox'[v][x] = inbox[v][x] \/ (x = q /\ v \in s.to /\ v \in accounts)
    <3>1. inbox[v] \in [Requests -> {"none", "unread", "read"}]
      BY <2>1
    <3>2. CASE inbox'[v] = inbox[v]
      BY <3>1, <3>2
    <3>3. CASE /\ inbox'[v] = [inbox[v] EXCEPT ![q] = "unread"]
               /\ v \in s.to /\ v \in accounts
      BY <3>1, <3>3
    <3> QED
      BY <2>2, <3>2, <3>3
  <2>4. inbox' = [v \in Users |-> inbox'[v]]
    BY <1>1
  <2> QED
    BY <2>3, <2>4
<1>8. ASSUME NEW x \in Requests PROVE Told(x)'
  <2> SUFFICES ASSUME NEW v \in Users, inbox'[v][x] # "none" PROVE v \in accounts'
    BY DEF Told
  <2>1. CASE inbox'[v][x] = inbox[v][x]
    BY <1>4, <2>1 DEF Inv, Told
  <2>2. CASE v \in accounts
    BY <1>4, <2>2
  <2> QED
    BY <1>7, <2>1, <2>2
<1>9. \A x \in Requests : ReactionOK(x)' /\ CommentOK(x)'
  BY <1>4, <1>5, ReactionsStay, CommentsStay
<1>10. (\A y \in Requests : Seen(y)' /\ Alone(y)') /\ OneRow'
  BY <1>1, <1>3, <1>4, <1>5, TogglesStay
<1>11. LoggedTruly'
  BY <1>1, <1>5, LogStays
<1>12. People'
  BY <1>1, <1>4, PeopleStay
<1>13. Typing'
  BY <1>1, <1>4, <1>5, <1>7 DEF Inv, Typing
<1> QED
  BY <1>6, <1>8, <1>9, <1>10, <1>11, <1>12, <1>13 DEF Inv

-----------------------------------------------------------------------------
(* The environment *)

\* Rows go away, with them what refers to them, and requests end.
LEMMA Shrinks ==
    ASSUME Inv, People',
           \A x \in Requests : \/ request'[x] = request[x]
                               \/ /\ request[x].pc # "idle"
                                  /\ request'[x] = Done(request[x]),
           request' \in [Requests -> RequestRow],
           acted' = acted, clashed' = clashed, log' \subseteq log,
           DOMAIN reaction' = Requests, DOMAIN comment' = Requests,
           \A x \in Requests : reaction'[x] # None =>
               /\ reaction'[x] = reaction[x]
               /\ reaction[x].user \in accounts' /\ author'[reaction[x].post] # None,
           \A x \in Requests : comment'[x] # None =>
               /\ comment'[x] = comment[x]
               /\ comment[x].user \in accounts' /\ author'[comment[x].post] # None,
           inbox' \in [Users -> [Requests -> {"none", "unread", "read"}]],
           \A v \in Users, x \in Requests :
               inbox'[v][x] # "none" => inbox[v][x] # "none" /\ v \in accounts'
    PROVE  Inv'
<1>1. Typing'
  BY DEF Inv, Typing
<1>2. \A x \in Requests : /\ Same(request[x], request'[x])
                          /\ request'[x].pc # "done" => request'[x] = request[x]
  <2> SUFFICES ASSUME NEW x \in Requests, request'[x] # request[x]
               PROVE  Same(request[x], request'[x]) /\ request'[x].pc = "done"
    BY DEF Same
  <2>1. request[x] \in RequestRow
    BY DEF Inv, Typing
  <2> QED
    BY <2>1, DoneRow
<1>3. Keeps
  BY <1>2 DEF Keeps
<1>4. ASSUME NEW x \in Requests PROVE Progress(x)' /\ Chosen(x)'
  <2>1. Progress(x) /\ Chosen(x)
    BY DEF Inv
  <2>2. CASE request'[x] = request[x]
    <3>1. Progress(x)'
      BY <2>1, <2>2 DEF Progress
    <3>2. Chosen(x)'
      BY <1>3, <2>1, <2>2 DEF Chosen, Keeps, Inv, Typing, RequestRow
    <3> QED
      BY <3>1, <3>2
  <2>3. CASE request[x].pc # "idle" /\ request'[x] # request[x]
    <3>1. request[x].act # "none"
      BY <2>1, <2>3 DEF Progress
    <3>2. request'[x].pc = "done" /\ request'[x].act # "none"
      BY <1>2, <2>3, <3>1 DEF Same
    <3> QED
      BY <3>2 DEF Progress, Chosen
  <2> QED
    BY <2>2, <2>3
<1>5. \A x \in Requests : Told(x)'
  BY <1>3, ToldStays
<1>6. \A x \in Requests : ReactionOK(x)' /\ CommentOK(x)'
  <2> TAKE x \in Requests
  <2>1. ReactionOK(x)'
    BY <1>3, RowsStay DEF ReactionOK
  <2>2. CommentOK(x)'
    BY <1>3, RowsStay DEF CommentOK
  <2> QED
    BY <2>1, <2>2
<1>7. LoggedTruly'
  BY <1>3, LogStays
<1>8. (\A x \in Requests : Seen(x)' /\ Alone(x)') /\ OneRow'
  BY <1>2, <1>3, TogglesStay
<1> QED
  BY <1>1, <1>4, <1>5, <1>6, <1>7, <1>8 DEF Inv

\* The rows there are refer to accounts and posts there are.
LEMMA RowsRefer ==
    ASSUME Inv, NEW x \in Requests
    PROVE  /\ reaction[x] # None =>
                 /\ reaction[x].user \in accounts /\ reaction[x].post \in Posts
                 /\ author[reaction[x].post] # None
           /\ comment[x] # None =>
                 /\ comment[x].user \in accounts /\ comment[x].post \in Posts
                 /\ author[comment[x].post] # None
<1>1. ReactionOK(x) /\ CommentOK(x)
  BY DEF Inv
<1> QED
  BY <1>1 DEF ReactionOK, CommentOK

LEMMA InboxHas ==
    ASSUME Inv
    PROVE  \A v \in Users, x \in Requests : inbox[v][x] # "none" => v \in accounts
BY DEF Inv, Told

\* A step of the environment that leaves requests, accounts and posts alone.
LEMMA CommentsGo ==
    ASSUME Inv, UNCHANGED <<people, author, reaction, inbox, request, acted, clashed, crashes>>,
           log' \subseteq log, DOMAIN comment' = Requests,
           \A x \in Requests : comment'[x] # None => comment'[x] = comment[x]
    PROVE  Inv'
<1>1. accounts' = accounts
  BY DEF people
<1>2. People'
  BY PeopleStay
<1>3. /\ request' \in [Requests -> RequestRow] /\ DOMAIN reaction' = Requests
      /\ inbox' \in [Users -> [Requests -> {"none", "unread", "read"}]]
  BY DEF Inv, Typing
<1> QED
  BY <1>1, <1>2, <1>3, RowsRefer, InboxHas, Shrinks

LEMMA DeleteCommentInv ==
    ASSUME Inv, NEW c \in Requests,
           comment' = [comment EXCEPT ![c] = None],
           UNCHANGED <<people, author, reaction, told, request, acted, clashed, crashes>>
    PROVE  Inv'
<1>1. inbox' = inbox /\ log' = log
  BY DEF told
<1>2. DOMAIN comment' = Requests
  BY DEF Inv, Typing
<1>3. \A x \in Requests : comment'[x] # None => comment'[x] = comment[x]
  BY <1>2
<1> QED
  BY <1>1, <1>2, <1>3, CommentsGo

LEMMA DeleteActivityInv ==
    ASSUME Inv, NEW q \in Requests, DeleteActivity(q)
    PROVE  Inv'
<1>1. DOMAIN comment' = Requests
  BY DEF Inv, Typing, DeleteActivity
<1>2. \A x \in Requests : comment'[x] # None => comment'[x] = comment[x]
  BY <1>1 DEF DeleteActivity
<1>3. log' \subseteq log
  BY DEF DeleteActivity
<1> QED
  BY <1>1, <1>2, <1>3, CommentsGo DEF DeleteActivity

\* Users change what they read and want; rows, accounts and requests stay.
LEMMA RowsKept ==
    ASSUME Inv, People',
           UNCHANGED <<accounts, rows, log, request, acted, clashed>>,
           inbox' \in [Users -> [Requests -> {"none", "unread", "read"}]],
           \A v \in Users, x \in Requests : inbox'[v][x] # "none" => inbox[v][x] # "none"
    PROVE  Inv'
<1>1. author' = author /\ reaction' = reaction /\ comment' = comment
  BY DEF rows
<1>2. /\ request' \in [Requests -> RequestRow]
      /\ DOMAIN reaction' = Requests /\ DOMAIN comment' = Requests
  BY <1>1 DEF Inv, Typing
<1> QED
  BY <1>1, <1>2, RowsRefer, InboxHas, Shrinks

LEMMA MarkReadInv ==
    ASSUME Inv, NEW v \in Users, NEW qs, MarkRead(v, qs)
    PROVE  Inv'
<1>1. People'
  BY PeopleStay DEF MarkRead, rows
<1>2. inbox \in [Users -> [Requests -> {"none", "unread", "read"}]]
  BY DEF Inv, Typing
<1>3. inbox' = [inbox EXCEPT ![v] =
          [q \in Requests |-> IF q \in qs /\ inbox[v][q] = "unread" THEN "read"
                              ELSE inbox[v][q]]]
  BY <1>2 DEF MarkRead
<1>4. inbox' \in [Users -> [Requests -> {"none", "unread", "read"}]]
  BY <1>2, <1>3
<1>5. \A w \in Users, x \in Requests : inbox'[w][x] # "none" => inbox[w][x] # "none"
  BY <1>2, <1>3
<1> QED
  BY <1>1, <1>4, <1>5, RowsKept DEF MarkRead, people

LEMMA SetPodUpdatesInv ==
    ASSUME Inv, NEW u \in Users, SetPodUpdates(u)
    PROVE  Inv'
<1>1. People'
  BY DEF Inv, People, SetPodUpdates, rows
<1>2. inbox' \in [Users -> [Requests -> {"none", "unread", "read"}]] /\ inbox' = inbox
  BY DEF Inv, Typing, SetPodUpdates, told
<1> QED
  BY <1>1, <1>2, RowsKept DEF SetPodUpdates, told

LEMMA LeaveInv ==
    ASSUME Inv, NEW u \in Users, Leave(u)
    PROVE  Inv'
<1>1. People'
  BY DEF Inv, People, Leave, rows
<1>2. inbox' \in [Users -> [Requests -> {"none", "unread", "read"}]] /\ inbox' = inbox
  BY DEF Inv, Typing, Leave, told
<1> QED
  BY <1>1, <1>2, RowsKept DEF Leave, told

\* What is left after a sweep was there before, and refers to what is left.
LEMMA SweepLeaves ==
    ASSUME Inv, NEW us, NEW ps, Sweep(us, ps), accounts \ us \subseteq accounts'
    PROVE  /\ author' = [p \in Posts |-> IF p \in ps THEN None ELSE author[p]]
           /\ DOMAIN reaction' = Requests /\ DOMAIN comment' = Requests
           /\ \A x \in Requests : reaction'[x] # None =>
                 /\ reaction'[x] = reaction[x]
                 /\ reaction[x].user \in accounts' /\ author'[reaction[x].post] # None
           /\ \A x \in Requests : comment'[x] # None =>
                 /\ comment'[x] = comment[x]
                 /\ comment[x].user \in accounts' /\ author'[comment[x].post] # None
<1>1. /\ author' = [p \in Posts |-> IF p \in ps THEN None ELSE author[p]]
      /\ DOMAIN reaction' = Requests /\ DOMAIN comment' = Requests
  BY DEF Sweep
<1>2. ASSUME NEW x \in Requests, reaction'[x] # None
      PROVE  /\ reaction'[x] = reaction[x]
             /\ reaction[x].user \in accounts' /\ author'[reaction[x].post] # None
  <2>1. /\ reaction'[x] = reaction[x] /\ reaction[x] # None
        /\ reaction[x].user \notin us /\ reaction[x].post \notin ps
    BY <1>2 DEF Sweep
  <2> QED
    BY <1>1, <2>1, RowsRefer
<1>3. ASSUME NEW x \in Requests, comment'[x] # None
      PROVE  /\ comment'[x] = comment[x]
             /\ comment[x].user \in accounts' /\ author'[comment[x].post] # None
  <2>1. /\ comment'[x] = comment[x] /\ comment[x] # None
        /\ comment[x].user \notin us /\ comment[x].post \notin ps
    BY <1>3 DEF Sweep
  <2> QED
    BY <1>1, <2>1, RowsRefer
<1> QED
  BY <1>1, <1>2, <1>3

LEMMA DeletePostInv ==
    ASSUME Inv, NEW p \in Posts, DeletePost(p)
    PROVE  Inv'
<1>1. /\ Sweep({}, {p}) /\ accounts' = accounts
      /\ members' = members /\ enabled' = enabled
      /\ inbox' = inbox /\ log' = log /\ request' = request /\ acted' = acted
      /\ clashed' = clashed /\ crashes' = crashes
  BY DEF DeletePost, people, told
<1>2. author' = [r \in Posts |-> IF r \in {p} THEN None ELSE author[r]]
  BY <1>1, SweepLeaves
<1>3. People'
  BY <1>1, <1>2 DEF Inv, People
<1>4. /\ request' \in [Requests -> RequestRow]
      /\ inbox' \in [Users -> [Requests -> {"none", "unread", "read"}]]
  BY <1>1 DEF Inv, Typing
<1> QED
  BY <1>1, <1>3, <1>4, SweepLeaves, InboxHas, Shrinks

LEMMA DeleteAccountInv ==
    ASSUME Inv, NEW u \in Users, DeleteAccount(u)
    PROVE  Inv'
<1> DEFINE ps == {p \in Posts : author[p] = u}
<1>1. /\ Sweep({u}, ps) /\ accounts' = accounts \ {u}
      /\ members' = members \ {u} /\ enabled' = enabled \ {u}
      /\ inbox' = [inbox EXCEPT ![u] = [q \in Requests |-> "none"]]
      /\ log' = log /\ request' = request /\ acted' = acted
      /\ clashed' = clashed /\ crashes' = crashes
  BY DEF DeleteAccount
<1>2. author' = [r \in Posts |-> IF r \in ps THEN None ELSE author[r]]
  BY <1>1, SweepLeaves
<1>3. People'
  <2>1. author' \in [Posts -> accounts' \cup {None}]
    BY <1>1, <1>2 DEF Inv, People
  <2> QED
    BY <1>1, <2>1 DEF Inv, People
<1>4. inbox \in [Users -> [Requests -> {"none", "unread", "read"}]]
  BY DEF Inv, Typing
<1>5. inbox' \in [Users -> [Requests -> {"none", "unread", "read"}]]
  BY <1>1, <1>4
<1>6. \A v \in Users, x \in Requests :
          inbox'[v][x] # "none" => inbox[v][x] # "none" /\ v \in accounts'
  BY <1>1, <1>4, InboxHas
<1>7. request' \in [Requests -> RequestRow]
  BY <1>1 DEF Inv, Typing
<1> HIDE DEF ps
<1> QED
  BY <1>1, <1>3, <1>5, <1>6, <1>7, SweepLeaves, Shrinks

LEMMA CrashInv ==
    ASSUME Inv, Crash
    PROVE  Inv'
<1>1. /\ crashes < MaxCrashes /\ crashes' = crashes + 1
      /\ request' = [q \in Requests |-> IF InFlight(q) THEN Done(request[q]) ELSE request[q]]
      /\ UNCHANGED <<people, rows, told, acted, clashed>>
  BY DEF Crash
<1>2. /\ UNCHANGED people /\ accounts' = accounts
      /\ author' = author /\ reaction' = reaction /\ comment' = comment
      /\ inbox' = inbox /\ log' = log
  BY <1>1 DEF people, rows, told
<1>3. People'
  <2>1. MaxCrashes \in Nat
    BY EngagementAssumption
  <2>2. crashes' \in 0 .. MaxCrashes
    BY <1>1, <2>1 DEF Inv, People
  <2> QED
    BY <1>2, <2>2 DEF Inv, People, people
<1>4. ASSUME NEW x \in Requests
      PROVE  /\ \/ request'[x] = request[x]
                \/ request[x].pc # "idle" /\ request'[x] = Done(request[x])
             /\ request'[x] \in RequestRow
  <2>1. request[x] \in RequestRow
    BY DEF Inv, Typing
  <2> QED
    BY <1>1, <2>1, DoneRow DEF InFlight
<1>5. request' \in [Requests -> RequestRow]
  <2>1. request' = [x \in Requests |-> request'[x]]
    BY <1>1
  <2> QED
    BY <1>4, <2>1
<1>6. /\ DOMAIN reaction' = Requests /\ DOMAIN comment' = Requests
      /\ inbox' \in [Users -> [Requests -> {"none", "unread", "read"}]]
  BY <1>2 DEF Inv, Typing
<1> QED
  BY <1>1, <1>2, <1>3, <1>4, <1>5, <1>6, RowsRefer, InboxHas, Shrinks

-----------------------------------------------------------------------------
(* The theorems *)

LEMMA InitInv == Init => Inv
<1> SUFFICES ASSUME Init PROVE Inv
  OBVIOUS
<1>1. \A q \in Requests : request[q] = Idle /\ reaction[q] = None /\ comment[q] = None
  BY DEF Init
<1>2. Typing
  BY IdleRow DEF Init, Typing
<1>3. People
  <2>1. Leavers \subseteq Users /\ MaxCrashes \in Nat
    BY EngagementAssumption
  <2>2. crashes \in 0 .. MaxCrashes
    BY <2>1 DEF Init
  <2> QED
    BY <2>1, <2>2 DEF Init, People
<1>4. \A q \in Requests : Progress(q) /\ Chosen(q)
  BY <1>1, IdleRow DEF Init, Progress, Chosen
<1>5. \A q \in Requests : Told(q)
  BY DEF Init, Told
<1>6. \A q \in Requests : ReactionOK(q) /\ CommentOK(q)
  BY <1>1 DEF ReactionOK, CommentOK
<1>7. \A q \in Requests : Seen(q) /\ Alone(q)
  BY <1>1, IdleRow DEF Seen, Alone
<1>8. LoggedTruly
  BY DEF Init, LoggedTruly
<1>9. OneRow
  BY <1>1 DEF OneRow, OwnRows
<1> QED
  BY <1>2, <1>3, <1>4, <1>5, <1>6, <1>7, <1>8, <1>9 DEF Inv

LEMMA StepInv == Inv /\ [Next]_vars => Inv'
<1> SUFFICES ASSUME Inv, [Next]_vars PROVE Inv'
  OBVIOUS
<1>1. CASE \E q \in Requests : Arrive(q)
  BY <1>1, ToggleReadInv, RemoveReadInv, CommentReadInv, JoinInv, GoalsLoopInv DEF Arrive
<1>2. CASE \E q \in Requests : Proceed(q)
  BY <1>2, ReactFirstInv, ReactReplaceInv, ReactRemoveInv, CommentWriteInv, CommentRefreshInv,
     GoalsEndInv, LogActInv, ChooseInv, NotifyInv DEF Proceed
<1>3. CASE \E u \in Users, c \in Requests : DeleteComment(u, c)
  BY <1>3, DeleteCommentInv DEF DeleteComment
<1>4. CASE \E q \in Requests : AdminDeleteComment(q)
  BY <1>4, DeleteCommentInv DEF AdminDeleteComment
<1>5. CASE \E q \in Requests : DeleteActivity(q)
  BY <1>5, DeleteActivityInv
<1>6. CASE \E v \in Users, qs \in {{q} : q \in Requests} \cup {Requests} : MarkRead(v, qs)
  BY <1>6, MarkReadInv
<1>7. CASE \E u \in Leavers : SetPodUpdates(u) \/ Leave(u) \/ DeleteAccount(u)
  BY <1>7, EngagementAssumption, SetPodUpdatesInv, LeaveInv, DeleteAccountInv
<1>8. CASE \E p \in Posts : DeletePost(p)
  BY <1>8, DeletePostInv
<1>9. CASE Crash
  BY <1>9, CrashInv
<1>10. CASE UNCHANGED vars
  <2>1. /\ UNCHANGED <<people, author, reaction, inbox, request, acted, clashed, crashes>>
        /\ log' = log /\ comment' = comment
    BY <1>10 DEF vars, rows, told
  <2>2. DOMAIN comment' = Requests
    BY <2>1 DEF Inv, Typing
  <2> QED
    BY <2>1, <2>2, CommentsGo
<1> QED
  BY <1>1, <1>2, <1>3, <1>4, <1>5, <1>6, <1>7, <1>8, <1>9, <1>10 DEF Next, Act

LEMMA InvAlways == Spec => []Inv
  BY InitInv, StepInv, PTL DEF Spec

\* Reactions, comments and notifications refer to accounts and posts there are,
\* whatever is deleted between the steps of a request.
THEOREM TypeCorrect == Spec => []TypeOK
<1>1. Inv => TypeOK
  BY DEF Inv, Typing, People, ReactionOK, CommentOK, Told, TypeOK
<1> QED
  BY <1>1, InvAlways, PTL

\* Only Choose chooses receivers.
LEMMA NotChosen ==
    ASSUME Inv, NEW p \in Requests, NEW t, Set(p, t), t.pc # "notify",
           NEW q \in Requests, request'[q].pc = "notify"
    PROVE  request'[q] = request[q]
BY DEF Inv, Typing, Set

LEMMA FinishElsewhere ==
    ASSUME Inv, NEW p \in Requests, Finish(p)
    PROVE  \E t : Set(p, t) /\ t.pc # "notify"
<1>1. Done(request[p]).pc = "done"
  BY DoneRow DEF Inv, Typing
<1> QED
  BY <1>1 DEF Finish

LEMMA ActedElsewhere ==
    ASSUME Inv, NEW p \in Requests, NEW pc \in Stages \ {"notify"},
           Set(p, [request[p] EXCEPT !.pc = pc])
    PROVE  \E t : Set(p, t) /\ t.pc # "notify"
<1>1. [request[p] EXCEPT !.pc = pc].pc = pc
  BY Onward DEF Inv, Typing
<1> QED
  BY <1>1

LEMMA ArriveElsewhere ==
    ASSUME NEW p \in Requests, Arrive(p)
    PROVE  \E t : Set(p, t) /\ t.pc # "notify"
<1>1. ASSUME NEW u \in Users, NEW r \in Posts, NEW k \in Kinds, ToggleRead(p, u, r, k)
      PROVE  \E t : Set(p, t) /\ t.pc # "notify"
  <2>1. PICK x \in Requests \cup {None} :
            Set(p, [Idle EXCEPT !.pc = "react", !.act = "reaction", !.user = u, !.post = r,
                                !.owner = author[r], !.kind = k, !.seen = x,
                                !.was = IF x = None THEN None ELSE reaction[x].kind])
    BY <1>1 DEF ToggleRead
  <2> DEFINE was == IF x = None THEN None ELSE reaction[x].kind
             t == [Idle EXCEPT !.pc = "react", !.act = "reaction", !.user = u, !.post = r,
                               !.owner = author[r], !.kind = k, !.seen = x, !.was = was]
  <2>2. Set(p, t)
    BY <2>1
  <2> HIDE DEF was
  <2>3. t.pc = "react"
    BY DEF Idle
  <2> HIDE DEF t
  <2> QED
    BY <2>2, <2>3
<1>2. ASSUME NEW u \in Users, NEW r \in Posts, NEW k \in Kinds, RemoveRead(p, u, r, k)
      PROVE  \E t : Set(p, t) /\ t.pc # "notify"
  <2>1. PICK x : Set(p, [Idle EXCEPT !.pc = "unreact", !.act = "removal", !.user = u, !.seen = x])
    BY <1>2 DEF RemoveRead
  <2>2. [Idle EXCEPT !.pc = "unreact", !.act = "removal", !.user = u, !.seen = x].pc = "unreact"
    BY DEF Idle
  <2> QED
    BY <2>1, <2>2
<1>3. ASSUME NEW u \in Users, NEW r \in Posts, NEW long \in BOOLEAN, CommentRead(p, u, r, long)
      PROVE  \E t : Set(p, t) /\ t.pc # "notify"
  <2> DEFINE t == [Idle EXCEPT !.pc = "comment", !.act = "comment", !.user = u, !.post = r,
                               !.owner = author[r], !.long = long]
  <2>1. Set(p, t)
    BY <1>3 DEF CommentRead
  <2>2. t.pc = "comment"
    BY DEF Idle
  <2> HIDE DEF t
  <2> QED
    BY <2>1, <2>2
<1>4. ASSUME NEW u \in Users, Join(p, u)
      PROVE  \E t : Set(p, t) /\ t.pc # "notify"
  <2>1. [Idle EXCEPT !.pc = "log", !.act = "join", !.user = u].pc = "log"
    BY DEF Idle
  <2> QED
    BY <1>4, <2>1 DEF Join
<1>5. ASSUME NEW u \in Users, GoalsLoop(p, u)
      PROVE  \E t : Set(p, t) /\ t.pc # "notify"
  <2>1. [Idle EXCEPT !.pc = "goals", !.act = "goals", !.user = u].pc = "goals"
    BY DEF Idle
  <2> QED
    BY <1>5, <2>1 DEF GoalsLoop
<1> QED
  BY <1>1, <1>2, <1>3, <1>4, <1>5 DEF Arrive

LEMMA ProceedElsewhere ==
    ASSUME Inv, NEW p \in Requests, Proceed(p), ~Choose(p)
    PROVE  \E t : Set(p, t) /\ t.pc # "notify"
<1>1. {"choose", "refresh", "done", "log"} \subseteq Stages \ {"notify"}
  BY DEF Stages
<1>2. CASE ReactFirst(p) \/ ReactReplace(p) \/ ReactRemove(p) \/ CommentWrite(p)
  <2>1. Finish(p) \/ \E pc \in {"choose", "refresh"} : Acted(p, pc)
    BY <1>2 DEF ReactFirst, ReactReplace, ReactRemove, CommentWrite
  <2> QED
    BY <1>1, <2>1, FinishElsewhere, ActedElsewhere DEF Acted
<1>3. CASE CommentRefresh(p)
  <2>1. Finish(p) \/ Set(p, [request[p] EXCEPT !.pc = "log"])
    BY <1>3 DEF CommentRefresh
  <2> QED
    BY <1>1, <2>1, FinishElsewhere, ActedElsewhere
<1>4. CASE GoalsEnd(p)
  <2>1. Finish(p) \/ Acted(p, "done")
    BY <1>4 DEF GoalsEnd
  <2> QED
    BY <1>1, <2>1, FinishElsewhere, ActedElsewhere DEF Acted
<1>5. Done(request[p]).pc = "done"
  BY DoneRow DEF Inv, Typing
<1>6. CASE LogAct(p)
  <2>1. Set(p, Done(request[p])) \/ Set(p, [request[p] EXCEPT !.pc = "choose"])
    BY <1>6 DEF LogAct
  <2> QED
    BY <1>1, <1>5, <2>1, ActedElsewhere
<1>7. CASE Notify(p)
  BY <1>5, <1>7 DEF Notify
<1> QED
  BY <1>2, <1>3, <1>4, <1>6, <1>7 DEF Proceed

LEMMA OnlyChooseChooses ==
    ASSUME Inv, Act, NEW q \in Requests, request'[q].pc = "notify"
    PROVE  request'[q] = request[q] \/ Choose(q)
<1>1. ASSUME NEW p \in Requests, Arrive(p) \/ (Proceed(p) /\ ~Choose(p))
      PROVE  request'[q] = request[q]
  BY <1>1, ArriveElsewhere, ProceedElsewhere, NotChosen
<1>2. ASSUME NEW p \in Requests, Choose(p), p # q
      PROVE  request'[q] = request[q]
  BY <1>2 DEF Choose, Set, Inv, Typing
<1>3. CASE Crash
  <2>1. request'[q] = IF InFlight(q) THEN Done(request[q]) ELSE request[q]
    BY <1>3 DEF Crash
  <2>2. Done(request[q]).pc = "done"
    BY DoneRow DEF Inv, Typing
  <2> QED
    BY <2>1, <2>2
<1>4. CASE request' = request
  BY <1>4
<1>5. \/ \E p \in Requests : Arrive(p) \/ Proceed(p)
      \/ Crash
      \/ request' = request
  BY DEF Act, DeleteComment, AdminDeleteComment, DeleteActivity, MarkRead, SetPodUpdates, Leave,
         DeleteAccount, DeletePost
<1> QED
  BY <1>1, <1>2, <1>3, <1>4, <1>5

\* Whoever might be chosen is remembered as wanting to be, and so is whoever was.
Remembered(q) ==
    /\ Telling(q) => Willing(q) \subseteq wanting[q]
    /\ request[q].pc = "notify" => request[q].to \subseteq wanting[q]

WInv == Inv /\ \A q \in Requests : Remembered(q)

LEMMA InitWInv == Init => WInv
<1> SUFFICES ASSUME Init PROVE WInv
  OBVIOUS
<1>1. \A q \in Requests : request[q].pc = "idle"
  BY IdleRow DEF Init
<1> QED
  BY <1>1, InitInv DEF WInv, Remembered, Telling

LEMMA StepWInv == WInv /\ [Next]_vars => WInv'
<1> SUFFICES ASSUME WInv, [Next]_vars PROVE WInv'
  OBVIOUS
<1>1. Inv'
  BY StepInv DEF WInv
<1>2. CASE UNCHANGED vars
  <2>1. /\ request' = request /\ wanting' = wanting
        /\ enabled' = enabled /\ members' = members
    BY <1>2 DEF vars, people
  <2>2. \A q \in Requests : Remembered(q)'
    BY <2>1 DEF WInv, Remembered, Telling, Willing
  <2> QED
    BY <1>1, <2>2 DEF WInv
<1>3. CASE Next
  <2>1. ASSUME NEW q \in Requests PROVE Remembered(q)'
    <3>1. Act /\ wanting'[q] = IF Telling(q)' THEN wanting[q] \cup Willing(q)' ELSE {}
      BY <1>3 DEF Next, Remember
    <3>2. Telling(q)' => Willing(q)' \subseteq wanting'[q]
      BY <3>1
    <3>3. ASSUME request'[q].pc = "notify" PROVE request'[q].to \subseteq wanting'[q]
      <4>1. wanting[q] \subseteq wanting'[q]
        BY <3>1, <3>3 DEF Telling
      <4>2. CASE request'[q] = request[q]
        BY <3>3, <4>1, <4>2 DEF WInv, Remembered
      <4>3. CASE Choose(q)
        <5> DEFINE to == Receivers(request[q]) \cap enabled
        <5>1. /\ request[q].pc = "choose" /\ request[q] \in RequestRow
              /\ Set(q, IF to = {} THEN Done(request[q])
                        ELSE [request[q] EXCEPT !.pc = "notify", !.to = to])
          BY <4>3 DEF Choose, WInv, Inv, Typing
        <5>2. to \subseteq Willing(q)
          BY DEF Receivers, Willing
        <5>3. Willing(q) \subseteq wanting[q]
          BY <5>1 DEF WInv, Remembered, Telling
        <5> HIDE DEF to
        <5>4. Done(request[q]).pc = "done"
          BY <5>1, DoneRow
        <5>5. request'[q] = IF to = {} THEN Done(request[q])
                            ELSE [request[q] EXCEPT !.pc = "notify", !.to = to]
          BY <5>1 DEF Set, WInv, Inv, Typing
        <5>6. request'[q].to = to
          BY <3>3, <5>1, <5>4, <5>5 DEF RequestRow
        <5> QED
          BY <4>1, <5>2, <5>3, <5>6
      <4> QED
        BY <3>1, <3>3, <4>2, <4>3, OnlyChooseChooses DEF WInv
    <3> QED
      BY <3>2, <3>3 DEF Remembered
  <2> QED
    BY <1>1, <2>1 DEF WInv
<1> QED
  BY <1>2, <1>3

NotifiedTrulyStep ==
    \A v \in Users, q \in Requests :
        inbox[v][q] = "none" /\ inbox'[v][q] # "none" =>
            q \in acted /\ v # request[q].user /\ v \in wanting[q]

\* No step but Notify fills an inbox.
LEMMA OnlyNotifyTells ==
    ASSUME Inv, Act, NEW v \in Users, NEW q \in Requests,
           inbox[v][q] = "none", inbox'[v][q] # "none"
    PROVE  request[q].pc = "notify" /\ v \in request[q].to
<1>1. inbox \in [Users -> [Requests -> {"none", "unread", "read"}]]
  BY DEF Inv, Typing
<1>2. CASE inbox' = inbox
  BY <1>2
<1>3. ASSUME NEW w \in Users, NEW qs, MarkRead(w, qs) PROVE FALSE
  <2>1. inbox' = [inbox EXCEPT ![w] =
            [x \in Requests |-> IF x \in qs /\ inbox[w][x] = "unread" THEN "read"
                                ELSE inbox[w][x]]]
    BY <1>1, <1>3 DEF MarkRead
  <2> QED
    BY <1>1, <2>1
<1>4. ASSUME NEW u \in Users, DeleteAccount(u) PROVE FALSE
  BY <1>1, <1>4 DEF DeleteAccount
<1>5. ASSUME NEW p \in Requests, Notify(p)
      PROVE  request[q].pc = "notify" /\ v \in request[q].to
  <2>1. /\ request[p].pc = "notify"
        /\ inbox'[v] = IF v \in request[p].to /\ request[p].to \cup {request[p].user} \subseteq accounts
                       THEN [inbox[v] EXCEPT ![p] = "unread"] ELSE inbox[v]
    BY <1>5 DEF Notify
  <2>2. v \in request[p].to /\ inbox'[v] = [inbox[v] EXCEPT ![p] = "unread"]
    BY <2>1
  <2>3. p = q
    BY <1>1, <2>2
  <2> QED
    BY <2>1, <2>2, <2>3
<1>6. \/ inbox' = inbox
      \/ \E w \in Users, qs \in {{x} : x \in Requests} \cup {Requests} : MarkRead(w, qs)
      \/ \E u \in Leavers : DeleteAccount(u)
      \/ \E p \in Requests : Notify(p)
  <2>1. ASSUME NEW p \in Requests, Arrive(p) PROVE inbox' = inbox
    BY <2>1 DEF Arrive, ToggleRead, RemoveRead, CommentRead, Join, GoalsLoop, told
  <2>2. ASSUME NEW p \in Requests, Proceed(p), ~Notify(p) PROVE inbox' = inbox
    BY <2>2 DEF Proceed, ReactFirst, ReactReplace, ReactRemove, CommentWrite, CommentRefresh,
                GoalsEnd, LogAct, Choose, told
  <2> QED
    BY <2>1, <2>2 DEF Act, DeleteComment, AdminDeleteComment, DeleteActivity, SetPodUpdates,
                      Leave, DeletePost, Crash, told
<1> QED
  BY <1>2, <1>3, <1>4, <1>5, <1>6, EngagementAssumption

LEMMA NextNotifiedTruly == WInv /\ [Next]_vars => NotifiedTrulyStep
<1> SUFFICES ASSUME WInv, [Next]_vars, NEW v \in Users, NEW q \in Requests,
                    inbox[v][q] = "none", inbox'[v][q] # "none"
             PROVE  q \in acted /\ v # request[q].user /\ v \in wanting[q]
  BY DEF NotifiedTrulyStep
<1>1. Act
  BY DEF Next, vars, told
<1>2. request[q].pc = "notify" /\ v \in request[q].to
  BY <1>1, OnlyNotifyTells DEF WInv
<1>3. q \in acted /\ request[q].user \notin request[q].to
  BY <1>2 DEF WInv, Inv, Progress, Chosen
<1> QED
  BY <1>2, <1>3 DEF WInv, Remembered

\* A notification is written of a committed act only, and to those only who since
\* its commit were, at some time, concerned by it with pod updates switched on:
\* the handlers choose the receivers in one step and insert in a later one.
THEOREM NotificationsTrue == Spec => NotifiedTruly
<1>1. WInv /\ [Next]_vars => [NotifiedTrulyStep]_vars
  BY NextNotifiedTruly
<1>2. Spec => []WInv
  BY InitWInv, StepWInv, PTL DEF Spec
<1> QED
  BY <1>1, <1>2, PTL DEF Spec, NotifiedTruly, NotifiedTrulyStep
\* Of everything but goals batches, whose events are emitted before their commit,
\* the activity log has an entry only once the act is committed.
THEOREM LogTrue == Spec => []LoggedTruly
<1>1. Inv => LoggedTruly
  BY DEF Inv
<1> QED
  BY <1>1, InvAlways, PTL

\* Where no two toggles overlapped, each user who has reacted is counted once, under
\* the one reaction there is.
LEMMA EachCountedOnce ==
    ASSUME Inv, IsFiniteSet(Users), NEW p \in Posts, NEW k \in Kinds,
           \A u \in Users : <<u, p>> \notin clashed
    PROVE  Counts(p)[k] = Cardinality({u \in Users : MyReactions(u, p) = {k}})
<1> DEFINE R == {x \in Requests : /\ reaction[x] # None
                                  /\ reaction[x].post = p
                                  /\ reaction[x].kind = k}
           U == {u \in Users : MyReactions(u, p) = {k}}
           f == [x \in R |-> reaction[x].user]
<1>1. \A u \in Users : \A x, y \in OwnRows(u, p) : x = y
  BY DEF Inv, OneRow
<1>2. \A x \in R : reaction[x].user \in Users /\ x \in OwnRows(reaction[x].user, p)
  BY DEF Inv, People, ReactionOK, OwnRows
<1>3. \A x \in R : MyReactions(reaction[x].user, p) = {k}
  <2> SUFFICES ASSUME NEW x \in R PROVE MyReactions(reaction[x].user, p) = {k}
    OBVIOUS
  <2>1. OwnRows(reaction[x].user, p) = {x}
    BY <1>1, <1>2
  <2>2. MyReactions(reaction[x].user, p) = {reaction[x].kind}
    BY <2>1 DEF MyReactions
  <2> QED
    BY <2>2
<1>4. f \in Injection(R, U)
  <2>1. f \in [R -> U]
    BY <1>2, <1>3
  <2>2. ASSUME NEW x \in R, NEW y \in R, f[x] = f[y] PROVE x = y
    <3>1. reaction[x].user = reaction[y].user
      BY <2>2
    <3> QED
      BY <3>1, <1>1, <1>2
  <2> QED
    BY <2>1, <2>2 DEF Injection, IsInjective
<1>5. \A u \in U : \E x \in R : f[x] = u
  <2> SUFFICES ASSUME NEW u \in U PROVE \E x \in R : f[x] = u
    OBVIOUS
  <2>1. PICK x \in OwnRows(u, p) : reaction[x].kind = k
    BY DEF MyReactions
  <2> QED
    BY <2>1 DEF OwnRows
<1>6. f \in Surjection(R, U)
  BY <1>4, <1>5 DEF Injection, Surjection
<1>7. IsFiniteSet(U)
  BY FS_Subset
<1> HIDE DEF R, U, f
<1>8. Cardinality(R) = Cardinality(U)
  BY <1>4, <1>6, <1>7, FS_Injection
<1> QED
  BY <1>8 DEF R, U, Counts

\* toggle_reaction leaves a user with one reaction to a post, through any mix of
\* first, changed and withdrawn reactions, unless two of the user's toggles of
\* that post overlapped; and _reaction_summary counts each of any finite number of
\* users once.
THEOREM OneReactionEach ==
    ASSUME IsFiniteSet(Users)
    PROVE  Spec => []OneReaction
<1>1. ASSUME OneRow, NEW p \in Posts, NEW u \in Users, <<u, p>> \notin clashed
      PROVE  Cardinality(MyReactions(u, p)) <= 1
  <2>1. \A x, y \in OwnRows(u, p) : x = y
    BY <1>1 DEF OneRow
  <2>2. CASE OwnRows(u, p) = {}
    <3>1. MyReactions(u, p) = {}
      BY <2>2 DEF MyReactions
    <3> QED
      BY <3>1, FS_EmptySet
  <2>3. CASE OwnRows(u, p) # {}
    <3>1. PICK x \in OwnRows(u, p) : TRUE
      BY <2>3
    <3>2. MyReactions(u, p) = {reaction[x].kind}
      BY <2>1, <3>1 DEF MyReactions
    <3>3. Cardinality({reaction[x].kind}) = 1
      BY FS_Singleton
    <3> QED
      BY <3>2, <3>3
  <2> QED
    BY <2>2, <2>3
<1>2. Inv => OneRow
  BY DEF Inv
<1>3. Inv => OneReaction
  BY <1>1, <1>2, EachCountedOnce DEF OneReaction
<1> QED
  BY <1>3, InvAlways, PTL
=============================================================================
