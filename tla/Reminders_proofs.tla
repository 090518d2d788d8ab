--------------------------- MODULE Reminders_proofs ---------------------------
(***************************************************************************)
(* Proofs about Accounts, Reminders and Attachments, for any number of     *)
(* addresses, requests, jobs and photos.                                   *)
(***************************************************************************)
EXTENDS Attachments, TLAPS

-----------------------------------------------------------------------------
(* The invariant: accounts *)

Stages == {"idle", "firebase", "insert", "announce", "byEmail", "link",
           "unlink", "delete", "newPrefs", "setPrefs", "done"}
Acts   == {"none", "register", "signIn", "delete", "prefs"}

RequestRow == [pc : Stages, act : Acts, who : People \cup {None}, uid : 0 .. MaxUid,
               id : Ids \cup {None}, field : Fields \cup {"none"}, value : BOOLEAN]

AccountTables ==
    /\ firebase \in [People -> 0 .. MaxUid] /\ issued \in [People -> 0 .. MaxUid]
    /\ users \in [People -> {None} \cup UserRow]
    /\ prefs \in [Ids -> {None} \cup PrefsRow]
    /\ request \in [Requests -> RequestRow]
    /\ inserted \subseteq Requests

\* Firebase has made every account that anything refers to.
UidsIssued ==
    \A e \in People : /\ firebase[e] <= issued[e]
                      /\ users[e] # None => users[e].uid <= issued[e]

\* What a request carries from one await to the next.
RequestOK(r) ==
    LET s == request[r]
    IN  /\ s.pc # "idle" => s.who \in People
        /\ s.pc = "firebase" => s.act = "register"
        /\ s.pc \in {"insert", "byEmail", "link"} => s.uid \in 1 .. issued[s.who]
        /\ s.pc \in {"link", "delete", "unlink", "newPrefs", "setPrefs"} => s.id \in Ids
        /\ r \in inserted => s.pc \in {"announce", "done"}
        /\ s.pc = "announce" => r \in inserted

\* A row has the name of its address, or of the request that inserted it for the
\* address: no two rows have one id.
RowsNamed ==
    \A e \in People : users[e] # None =>
        \/ users[e].id = e
        \/ users[e].id \in inserted /\ request[users[e].id].who = e

PrefsTied == \A id \in Ids : prefs[id] # None => Live(id)

AccountInv ==
    /\ AccountTables /\ UidsIssued /\ RowsNamed /\ PrefsTied
    /\ \A r \in Requests : RequestOK(r)

-----------------------------------------------------------------------------
(* The invariant: the reminder jobs *)

\* Ids that have had a row: once gone, such a row never comes back.
Known == People \cup inserted

Recipient == [id : Known, reminder : BOOLEAN, sms : BOOLEAN, phone : BOOLEAN]
JobStages == {"idle", "next", "reminded", "emit", "log", "done", "dead"}
JobRow    == [pc : JobStages, kind : Kinds \cup {"none"}, day : 0 .. LastDay,
              rows : SUBSET Recipient, due : SUBSET Recipient, left : SUBSET Recipient,
              at : Recipient \cup {None}]
Note      == [id : Known, kind : Kinds, day : 0 .. LastDay, job : Jobs]

\* The recipient that a job is at has a decision or a message to come.
AtOne(s) == s.pc \in {"reminded", "emit", "log"}

JobOK(s) ==
    /\ s \in JobRow /\ s.day <= day
    /\ s.pc # "idle" => s.kind \in Kinds
    /\ s.left \subseteq s.rows /\ s.due \subseteq s.rows
    /\ AtOne(s) => s.at \in s.rows
    /\ s.pc = "done" => s.left = {}

RowsOK ==
    /\ day \in 0 .. LastDay
    /\ notes \subseteq Note /\ \A n \in notes : n.day <= day /\ Live(n.id)
    /\ \A n \in smsLog : Live(n.id)
    /\ \A x \in reflected : Live(x[1])

JobsOK ==
    /\ job \in [Jobs -> JobRow]
    /\ \A j \in Jobs : /\ JobOK(job[j])
                       /\ job[j].pc = "dead" /\ j \notin killed => job[j].at \in job[j].rows

\* While a job runs alone, every note of its kind by another is of its day or
\* before, and one about to be made is the first of the job's day.
Turns ==
    \A j \in Jobs : Running(j) /\ job[j].kind \notin overlapped =>
        /\ \A i \in Jobs : Running(i) /\ job[i].kind = job[j].kind => i = j
        /\ \A n \in notes : n.kind = job[j].kind /\ n.job # j =>
              /\ n.day <= job[j].day
              /\ job[j].pc = "emit" => ~ (n.id = job[j].at.id /\ n.day = job[j].day)

\* A recipient that has the reminder, or needs none any more.
Settled(c, s) ==
    \/ ~Wants(c, s.kind)
    \/ \E n \in notes : n.id = c.id /\ n.kind = s.kind /\ n.day >= s.day
    \/ s.kind = "checkin" /\ <<c.id, s.day>> \in reflected
    \/ ~Live(c.id)

\* A job that has not died has settled all it has taken, but the one it is at.
SettledSoFar ==
    \A j \in Jobs : job[j].pc # "dead" =>
        \A c \in job[j].rows \ job[j].left :
            \/ Settled(c, job[j])
            \/ job[j].pc \in {"reminded", "emit"} /\ c = job[j].at

\* What ends a job before its end.
DiedOf(j)  == j \in killed \/ ~Live(job[j].at.id)
DeathsKnown == \A j \in Jobs : job[j].pc = "dead" => DiedOf(j)

ReminderInv == RowsOK /\ JobsOK /\ Turns /\ OnceADay /\ SettledSoFar /\ DeathsKnown

-----------------------------------------------------------------------------
(* The invariant: photos *)

\* A photo that the cleanup has read, with the time to live of its owner then.
Candidate(c) ==
    /\ c.photo \in Photos /\ photo[c.photo] # None
    /\ photo[c.photo].pc # "saving"
    /\ c.life = atStart[photo[c.photo].id]

PhotoTables ==
    /\ photo \in [Photos -> {None} \cup PhotoRow]
    /\ \A f \in Photos : photo[f] # None => photo[f].day <= day
    /\ rows \subseteq posts
    /\ \A f \in posts : f \in Photos /\ photo[f] # None /\ Live(photo[f].id)
    /\ \A f \in files : f \in Photos /\ photo[f] # None
    /\ \A f \in Photos : photo[f] # None /\ photo[f].pc = "saving" =>
          f \in files /\ f \notin rows
    /\ \A c \in cleanup.left : Candidate(c)
    /\ cleanup.gone \cap files \subseteq stuck
    /\ \A f \in cleanup.gone : f \in Photos /\ photo[f] # None
    /\ cleanup.pc # "next" => cleanup.gone = {}
    /\ DOMAIN cleanup = {"pc", "left", "gone"}

Inv ==
    /\ AccountInv /\ AnnouncedTruly
    /\ ReminderInv
    /\ PhotoTables /\ FilesTied

-----------------------------------------------------------------------------
(* Rows of requests *)

LEMMA Kinds4 ==
    /\ None \notin People /\ None \notin Requests /\ None \notin UserRow /\ None \notin PrefsRow
    /\ \A e \in People : e \notin Requests
    /\ Movers \subseteq People /\ MaxUid \in Nat /\ MaxUid >= 1
BY AccountsAssumption DEF Ids

LEMMA IdleRow == Idle \in RequestRow /\ Idle.pc = "idle"
BY AccountsAssumption DEF Idle, RequestRow, Stages, Acts

\* A request that goes on, or ends.
LEMMA Onward ==
    ASSUME NEW s \in RequestRow, NEW pc \in Stages
    PROVE  LET t == [s EXCEPT !.pc = pc]
           IN  /\ t \in RequestRow /\ t.pc = pc /\ t.act = s.act /\ t.who = s.who
               /\ t.uid = s.uid /\ t.id = s.id
BY DEF RequestRow

WithUid(s, pc, u) == [s EXCEPT !.pc = pc, !.uid = u]
WithId(s, pc, id) == [s EXCEPT !.pc = pc, !.id = id]

LEMMA OnwardUid ==
    ASSUME NEW s \in RequestRow, NEW pc \in Stages, NEW u \in 0 .. MaxUid
    PROVE  LET t == WithUid(s, pc, u)
           IN  /\ t \in RequestRow /\ t.pc = pc /\ t.act = s.act /\ t.who = s.who
               /\ t.uid = u /\ t.id = s.id
BY DEF RequestRow, WithUid

LEMMA OnwardId ==
    ASSUME NEW s \in RequestRow, NEW pc \in Stages, NEW id \in Ids
    PROVE  LET t == WithId(s, pc, id)
           IN  /\ t \in RequestRow /\ t.pc = pc /\ t.act = s.act /\ t.who = s.who
               /\ t.uid = s.uid /\ t.id = id
BY DEF RequestRow, WithId

\* A request that arrives.
Arrived(pc, act, e)              == [Idle EXCEPT !.pc = pc, !.act = act, !.who = e]
ArrivedUid(pc, act, e, u)        == [Idle EXCEPT !.pc = pc, !.act = act, !.who = e, !.uid = u]
ArrivedRow(pc, act, e, u, id)    == [Idle EXCEPT !.pc = pc, !.act = act, !.who = e,
                                                 !.uid = u, !.id = id]
ArrivedPrefs(pc, act, e, id, f, v) == [Idle EXCEPT !.pc = pc, !.act = act, !.who = e,
                                                   !.id = id, !.field = f, !.value = v]

LEMMA Arrival ==
    ASSUME NEW pc \in Stages, NEW act \in Acts, NEW e \in People
    PROVE  LET t == Arrived(pc, act, e)
           IN  t \in RequestRow /\ t.pc = pc /\ t.act = act /\ t.who = e
BY IdleRow, Kinds4 DEF RequestRow, Arrived, ArrivedUid, ArrivedRow, ArrivedPrefs

LEMMA ArrivalUid ==
    ASSUME NEW pc \in Stages, NEW act \in Acts, NEW e \in People, NEW u \in 0 .. MaxUid
    PROVE  LET t == ArrivedUid(pc, act, e, u)
           IN  t \in RequestRow /\ t.pc = pc /\ t.act = act /\ t.who = e /\ t.uid = u
BY IdleRow, Kinds4 DEF RequestRow, Arrived, ArrivedUid, ArrivedRow, ArrivedPrefs

LEMMA ArrivalRow ==
    ASSUME NEW pc \in Stages, NEW act \in Acts, NEW e \in People, NEW u \in 0 .. MaxUid,
           NEW id \in Ids
    PROVE  LET t == ArrivedRow(pc, act, e, u, id)
           IN  t \in RequestRow /\ t.pc = pc /\ t.act = act /\ t.who = e /\ t.id = id
BY IdleRow, Kinds4 DEF RequestRow, Arrived, ArrivedUid, ArrivedRow, ArrivedPrefs

LEMMA ArrivalPrefs ==
    ASSUME NEW pc \in Stages, NEW act \in Acts, NEW e \in People, NEW id \in Ids,
           NEW f \in Fields \cup {"none"}, NEW v \in BOOLEAN
    PROVE  LET t == ArrivedPrefs(pc, act, e, id, f, v)
           IN  t \in RequestRow /\ t.pc = pc /\ t.act = act /\ t.who = e /\ t.id = id
BY IdleRow, Kinds4 DEF RequestRow, Arrived, ArrivedUid, ArrivedRow, ArrivedPrefs

LEMMA PrefsRows ==
    /\ Defaults \in PrefsRow /\ NewPrefs \in PrefsRow
    /\ \A row \in PrefsRow, f \in Fields, v \in BOOLEAN : [row EXCEPT ![f] = v] \in PrefsRow
<1>1. Defaults \in PrefsRow
  BY DEF Defaults, PrefsRow
<1>2. \A row \in PrefsRow, v \in BOOLEAN :
          /\ [row EXCEPT !["checkin"] = v] \in PrefsRow
          /\ [row EXCEPT !["reminder"] = v] \in PrefsRow
          /\ [row EXCEPT !["sms"] = v] \in PrefsRow
  BY DEF PrefsRow
<1> QED
  BY <1>1, <1>2 DEF NewPrefs, Fields

LEMMA ChangedType ==
    ASSUME NEW row \in PrefsRow, NEW s \in RequestRow
    PROVE  Changed(row, s) \in PrefsRow
<1>1. s.field \in Fields \cup {"none"} /\ s.value \in BOOLEAN
  BY DEF RequestRow
<1> QED
  BY <1>1, PrefsRows DEF Changed

-----------------------------------------------------------------------------
(* Steps of the accounts *)

\* Each step changes one request.
LEMMA OneRequest ==
    ASSUME AccountInv, NEW r \in Requests, NEW t \in RequestRow,
           request' = [request EXCEPT ![r] = t]
    PROVE  /\ request' \in [Requests -> RequestRow] /\ request'[r] = t
           /\ \A q \in Requests : q # r => request'[q] = request[q]
BY DEF AccountInv, AccountTables

\* A step that changes only a request.
LEMMA RequestMoves ==
    ASSUME AccountInv, NEW r \in Requests, NEW t \in RequestRow,
           request' = [request EXCEPT ![r] = t],
           UNCHANGED <<firebase, issued, users, prefs, inserted>>,
           RequestOK(r)', request[r].pc = "idle" \/ t.who = request[r].who
    PROVE  AccountInv'
<1>1. /\ request' \in [Requests -> RequestRow] /\ request'[r] = t
      /\ \A q \in Requests : q # r => request'[q] = request[q]
  BY OneRequest
<1>2. AccountTables' /\ UidsIssued'
  BY <1>1 DEF AccountInv, AccountTables, UidsIssued
<1>3. PrefsTied'
  BY DEF AccountInv, PrefsTied, Live, HasRow
<1>4. \A q \in Requests : RequestOK(q)'
  BY <1>1 DEF AccountInv, RequestOK
<1>5. \A q \in inserted : request'[q].who = request[q].who
  BY <1>1 DEF AccountInv, AccountTables, RequestOK
<1>6. RowsNamed'
  BY <1>5 DEF AccountInv, RowsNamed
<1> QED
  BY <1>2, <1>3, <1>4, <1>6 DEF AccountInv

LEMMA FinishInv ==
    ASSUME AccountInv, NEW r \in Requests, Finish(r), request[r].pc # "idle",
           UNCHANGED <<firebase, issued, users, prefs, inserted>>
    PROVE  AccountInv'
<1> DEFINE s == request[r]
           t == [s EXCEPT !.pc = "done"]
<1>1. s \in RequestRow /\ RequestOK(r)
  BY DEF AccountInv, AccountTables
<1>2. t \in RequestRow /\ t.pc = "done" /\ t.who = s.who
  BY <1>1, Onward DEF Stages
<1>3. request' = [request EXCEPT ![r] = t]
  BY DEF Finish, Goto, Set
<1> HIDE DEF t
<1>4. request'[r] = t
  BY <1>2, <1>3, OneRequest
<1>5. RequestOK(r)'
  BY <1>1, <1>2, <1>4 DEF RequestOK
<1> QED
  BY <1>2, <1>3, <1>5, RequestMoves

LEMMA RegisterReadInv ==
    ASSUME AccountInv, NEW r \in Requests, NEW e \in Movers, RegisterRead(r, e)
    PROVE  AccountInv'
<1> DEFINE t == Arrived("firebase", "register", e)
<1>1. t \in RequestRow /\ t.pc = "firebase" /\ t.act = "register" /\ t.who = e /\ e \in People
  <2>1. e \in People /\ "firebase" \in Stages /\ "register" \in Acts
    BY Kinds4 DEF Stages, Acts
  <2> QED
    BY <2>1, Arrival
<1>2. /\ request' = [request EXCEPT ![r] = t] /\ request[r].pc = "idle"
      /\ UNCHANGED <<firebase, issued, users, prefs, inserted>>
  BY IdleRow DEF RegisterRead, Set, stores, Arrived
<1>3. r \notin inserted
  BY <1>2 DEF AccountInv, RequestOK
<1> HIDE DEF t
<1>4. request'[r] = t
  BY <1>1, <1>2, OneRequest
<1>5. RequestOK(r)'
  BY <1>1, <1>2, <1>3, <1>4 DEF RequestOK
<1> QED
  BY <1>1, <1>2, <1>5, RequestMoves DEF AccountInv, AccountTables

LEMMA SignInInv ==
    ASSUME AccountInv, NEW r \in Requests, NEW e \in Movers, NEW g \in 1 .. MaxUid, SignIn(r, e, g)
    PROVE  AccountInv'
<1> DEFINE t == ArrivedUid("byEmail", "signIn", e, g)
<1>1. t \in RequestRow /\ t.pc = "byEmail" /\ t.uid = g /\ t.who = e /\ e \in People
  <2>1. /\ e \in People /\ "byEmail" \in Stages /\ "signIn" \in Acts
        /\ g \in 0 .. MaxUid
    BY Kinds4 DEF Stages, Acts
  <2> QED
    BY <2>1, ArrivalUid
<1>2. /\ request' = [request EXCEPT ![r] = t] /\ request[r].pc = "idle" /\ g \in 1 .. issued[e]
      /\ UNCHANGED <<firebase, issued, users, prefs, inserted>>
  BY IdleRow DEF SignIn, Set, stores, ArrivedUid
<1>3. r \notin inserted
  BY <1>2 DEF AccountInv, RequestOK
<1> HIDE DEF t
<1>4. request'[r] = t
  BY <1>1, <1>2, OneRequest
<1>5. RequestOK(r)'
  BY <1>1, <1>2, <1>3, <1>4 DEF RequestOK
<1> QED
  BY <1>1, <1>2, <1>5, RequestMoves DEF AccountInv, AccountTables

\* The id and the uid of a row.
LEMMA RowFields ==
    ASSUME AccountInv, NEW e \in People, users[e] # None
    PROVE  /\ users[e] \in UserRow /\ users[e].id \in Ids /\ users[e].uid \in 1 .. MaxUid
           /\ users[e].uid \in 1 .. issued[e] /\ users[e].phone \in BOOLEAN
           /\ Live(users[e].id) /\ users[e].id \in People \cup inserted
<1>1. users[e] \in UserRow
  BY DEF AccountInv, AccountTables
<1>2. users[e].uid \in 1 .. MaxUid /\ users[e].uid <= issued[e] /\ issued[e] \in 0 .. MaxUid
  BY <1>1 DEF AccountInv, AccountTables, UidsIssued, UserRow
<1> QED
  BY <1>1, <1>2, Kinds4 DEF UserRow, AccountInv, RowsNamed, Live, HasRow

LEMMA DeleteReadInv ==
    ASSUME AccountInv, NEW r \in Requests, NEW e \in Movers, DeleteRead(r, e)
    PROVE  AccountInv'
<1>1. PICK u \in 0 .. MaxUid, id \in Ids : u = users[e].uid /\ id = users[e].id
  BY RowFields, Kinds4 DEF DeleteRead
<1> DEFINE t == ArrivedRow("unlink", "delete", e, u, id)
<1>2. t \in RequestRow /\ t.pc = "unlink" /\ t.who = e /\ t.id = id /\ e \in People
  <2>1. e \in People /\ "unlink" \in Stages /\ "delete" \in Acts
    BY Kinds4 DEF Stages, Acts
  <2> QED
    BY <2>1, ArrivalRow
<1>3. /\ request' = [request EXCEPT ![r] = t] /\ request[r].pc = "idle"
      /\ UNCHANGED <<firebase, issued, users, prefs, inserted>>
  BY <1>1, IdleRow DEF DeleteRead, Set, stores, ArrivedRow
<1>4. r \notin inserted
  BY <1>3 DEF AccountInv, RequestOK
<1> HIDE DEF t
<1>5. request'[r] = t
  BY <1>2, <1>3, OneRequest
<1>6. RequestOK(r)'
  BY <1>2, <1>3, <1>4, <1>5 DEF RequestOK
<1> QED
  BY <1>2, <1>3, <1>6, RequestMoves DEF AccountInv, AccountTables

LEMMA PrefsReadInv ==
    ASSUME AccountInv, NEW r \in Requests, NEW e \in Movers, NEW f \in Fields \cup {"none"},
           NEW v \in BOOLEAN, PrefsRead(r, e, f, v)
    PROVE  AccountInv'
<1>1. PICK id \in Ids : id = users[e].id
  BY RowFields, Kinds4 DEF PrefsRead
<1>2. PICK pc \in {"newPrefs", "setPrefs"} : pc = IF prefs[id] = None THEN "newPrefs" ELSE "setPrefs"
  OBVIOUS
<1> DEFINE t == ArrivedPrefs(pc, "prefs", e, id, f, v)
<1>3. t \in RequestRow /\ t.pc = pc /\ t.who = e /\ t.id = id /\ e \in People
  <2>1. e \in People /\ pc \in Stages /\ "prefs" \in Acts
    BY Kinds4 DEF Stages, Acts
  <2> QED
    BY <2>1, ArrivalPrefs
<1>4. /\ request' = [request EXCEPT ![r] = t] /\ request[r].pc = "idle"
      /\ UNCHANGED <<firebase, issued, users, prefs, inserted>>
  BY <1>1, <1>2, IdleRow DEF PrefsRead, Set, stores, ArrivedPrefs
<1>5. r \notin inserted
  BY <1>4 DEF AccountInv, RequestOK
<1> HIDE DEF t
<1>6. request'[r] = t
  BY <1>3, <1>4, OneRequest
<1>7. RequestOK(r)'
  BY <1>2, <1>3, <1>4, <1>5, <1>6 DEF RequestOK
<1> QED
  BY <1>3, <1>4, <1>7, RequestMoves DEF AccountInv, AccountTables

\* What is known of a request that is about to take a step.
LEMMA AtStep ==
    ASSUME AccountInv, NEW r \in Requests, request[r].pc # "idle"
    PROVE  /\ request[r] \in RequestRow /\ request[r].who \in People /\ RequestOK(r)
           /\ firebase[request[r].who] \in 0 .. MaxUid /\ issued[request[r].who] \in 0 .. MaxUid
BY DEF AccountInv, AccountTables, RequestOK

LEMMA RegisterFirebaseInv ==
    ASSUME AccountInv, NEW r \in Requests, RegisterFirebase(r)
    PROVE  AccountInv'
<1>1. PICK s \in RequestRow : s = request[r]
  BY DEF AccountInv, AccountTables
<1>2. PICK e \in People : e = s.who
  BY <1>1, AtStep DEF RegisterFirebase
<1>3. /\ s.pc = "firebase" /\ RequestOK(r) /\ r \notin inserted /\ s.act = "register"
      /\ UNCHANGED <<users, prefs, inserted>>
  BY <1>1 DEF RegisterFirebase, AccountInv, RequestOK
<1>4. CASE Finish(r) /\ UNCHANGED <<firebase, issued>>
  BY <1>1, <1>3, <1>4, FinishInv DEF AccountInv, AccountTables
<1>5. CASE firebase[e] = 0 /\ ~ (Finish(r) /\ UNCHANGED <<firebase, issued>>)
  <2>1. PICK g \in 1 .. MaxUid : g = issued[e] + 1
    BY <1>1, <1>2, <1>5 DEF RegisterFirebase, AccountInv, AccountTables
  <2> DEFINE t == WithUid(s, "insert", g)
  <2>2. t \in RequestRow /\ t.pc = "insert" /\ t.uid = g /\ t.who = e /\ t.act = "register"
    <3>1. "insert" \in Stages /\ g \in 0 .. MaxUid
      BY DEF Stages
    <3> QED
      BY <1>2, <1>3, <3>1, OnwardUid
  <2>3. /\ firebase' = [firebase EXCEPT ![e] = g] /\ issued' = [issued EXCEPT ![e] = g]
        /\ request' = [request EXCEPT ![r] = t]
    BY <1>1, <1>2, <1>5, <2>1 DEF RegisterFirebase, Set, WithUid
  <2> HIDE DEF t
  <2>4. /\ request' \in [Requests -> RequestRow] /\ request'[r] = t
        /\ \A q \in Requests : q # r => request'[q] = request[q]
    BY <2>2, <2>3, OneRequest
  <2>5. \A d \in People : /\ issued[d] \in 0 .. MaxUid /\ issued[d] <= issued'[d]
                          /\ d # e => firebase'[d] = firebase[d]
                          /\ issued'[e] = g /\ firebase'[e] = g /\ issued'[d] \in 0 .. MaxUid
    BY <2>1, <2>3 DEF AccountInv, AccountTables
  <2>6. AccountTables'
    BY <1>3, <2>3, <2>4 DEF AccountInv, AccountTables
  <2>7. UidsIssued'
    <3> SUFFICES ASSUME NEW d \in People
                 PROVE  firebase'[d] <= issued'[d] /\ (users[d] # None => users[d].uid <= issued'[d])
      BY <1>3 DEF UidsIssued
    <3>1. firebase[d] <= issued[d] /\ firebase[d] \in 0 .. MaxUid
      BY DEF AccountInv, UidsIssued, AccountTables
    <3>2. users[d] # None => users[d].uid \in 1 .. MaxUid /\ users[d].uid <= issued[d]
      BY RowFields DEF AccountInv, UidsIssued
    <3> QED
      BY <2>1, <2>5, <3>1, <3>2
  <2>8. RequestOK(r)'
    BY <1>3, <2>1, <2>2, <2>4, <2>5 DEF RequestOK
  <2>9. ASSUME NEW q \in Requests, q # r PROVE RequestOK(q)'
    <3>1. RequestOK(q) /\ request'[q] = request[q]
      BY <2>4, <2>9 DEF AccountInv
    <3>2. request[q].pc \in {"insert", "byEmail", "link"} =>
              request[q].who \in People /\ request[q].uid \in 1 .. issued[request[q].who]
      BY <3>1 DEF RequestOK
    <3>3. request[q].pc \in {"insert", "byEmail", "link"} =>
              request[q].uid \in 1 .. issued'[request[q].who]
      BY <2>5, <3>2
    <3> QED
      BY <1>3, <3>1, <3>3 DEF RequestOK
  <2>10. RowsNamed' /\ PrefsTied'
    <3>1. \A q \in inserted : request'[q].who = request[q].who
      BY <1>3, <2>4 DEF AccountInv, AccountTables
    <3> QED
      BY <1>3, <3>1 DEF AccountInv, RowsNamed, PrefsTied, Live, HasRow
  <2> QED
    BY <2>6, <2>7, <2>8, <2>9, <2>10 DEF AccountInv
<1> QED
  BY <1>1, <1>2, <1>4, <1>5 DEF RegisterFirebase

\* The row that a request inserts for an address without one.
LEMMA InsertRow ==
    ASSUME AccountInv, NEW r \in Requests, Insert(r), NEW e, e = request[r].who, users[e] = None
    PROVE  \E row \in UserRow :
              /\ e \in People /\ r \notin inserted /\ row.id = r /\ row.uid = request[r].uid
              /\ users' = [users EXCEPT ![e] = row]
              /\ prefs' = [prefs EXCEPT ![r] = NewPrefs]
              /\ inserted' = inserted \cup {r} /\ Goto(r, "announce")
              /\ UNCHANGED <<firebase, issued, announced, crashed>>
<1> DEFINE s == request[r]
           row == NewRow(r)
<1>1. s.pc = "insert" /\ e \in People /\ RequestOK(r) /\ issued[e] \in 0 .. MaxUid
  BY AtStep DEF Insert
<1>2. r \notin inserted /\ s.uid \in 1 .. MaxUid
  BY <1>1, Kinds4 DEF RequestOK
<1>3. row.id = r /\ row.uid = s.uid /\ row \in UserRow
  BY <1>2 DEF NewRow, UserRow, Ids
<1>4. /\ users' = [users EXCEPT ![e] = row]
      /\ prefs' = [prefs EXCEPT ![r] = NewPrefs]
      /\ inserted' = inserted \cup {r} /\ Goto(r, "announce")
      /\ UNCHANGED <<firebase, issued, announced, crashed>>
  BY DEF Insert
<1> QED
  BY <1>1, <1>2, <1>3, <1>4

LEMMA InsertInv ==
    ASSUME AccountInv, NEW r \in Requests, Insert(r)
    PROVE  AccountInv'
<1>1. PICK s \in RequestRow : s = request[r]
  BY DEF AccountInv, AccountTables
<1>2. s.pc = "insert" /\ RequestOK(r) /\ s.who \in People
  BY <1>1, AtStep DEF Insert
<1>3. CASE users[s.who] # None
  <2>1. Finish(r) /\ UNCHANGED <<firebase, issued, users, prefs, inserted>>
    BY <1>1, <1>3 DEF Insert
  <2> QED
    BY <1>1, <1>2, <2>1, FinishInv DEF AccountInv, AccountTables
<1>4. CASE users[s.who] = None
  <2>1. PICK e \in People : e = s.who
    BY <1>2
  <2>2. PICK row \in UserRow :
              /\ r \notin inserted /\ row.id = r /\ row.uid = request[r].uid
              /\ users' = [users EXCEPT ![e] = row]
              /\ prefs' = [prefs EXCEPT ![r] = NewPrefs]
              /\ inserted' = inserted \cup {r} /\ Goto(r, "announce")
              /\ UNCHANGED <<firebase, issued>>
    BY <1>1, <1>4, <2>1, InsertRow
  <2> DEFINE t == [s EXCEPT !.pc = "announce"]
  <2>3. t \in RequestRow /\ t.pc = "announce" /\ t.who = e
    BY <2>1, Onward DEF Stages
  <2>4. request' = [request EXCEPT ![r] = t]
    BY <1>1, <2>2 DEF Goto, Set
  <2> HIDE DEF t
  <2>5. /\ request' \in [Requests -> RequestRow] /\ request'[r] = t
        /\ \A q \in Requests : q # r => request'[q] = request[q]
    BY <2>3, <2>4, OneRequest
  <2>6. users'[e] = row /\ \A d \in People : d # e => users'[d] = users[d]
    BY <2>2 DEF AccountInv, AccountTables
  <2>7. AccountTables'
    <3>2. users' \in [People -> {None} \cup UserRow]
      BY <2>2 DEF AccountInv, AccountTables
    <3>3. prefs' \in [Ids -> {None} \cup PrefsRow]
      BY <2>2, PrefsRows DEF AccountInv, AccountTables
    <3> QED
      BY <2>2, <2>5, <3>2, <3>3 DEF AccountInv, AccountTables
  <2>8. UidsIssued'
    <3>1. row.uid <= issued[e]
      BY <1>1, <1>2, <2>1, <2>2 DEF RequestOK
    <3> QED
      BY <2>2, <2>6, <3>1 DEF AccountInv, UidsIssued
  <2>9. \A q \in Requests : RequestOK(q)'
    BY <2>2, <2>3, <2>5 DEF AccountInv, RequestOK
  <2>10. RowsNamed'
    <3>1. \A q \in inserted : request'[q] = request[q]
      BY <2>2, <2>5 DEF AccountInv, AccountTables
    <3>2. ASSUME NEW d \in People, users'[d] # None
          PROVE  users'[d].id = d \/ (users'[d].id \in inserted' /\ request'[users'[d].id].who = d)
      BY <2>2, <2>3, <2>5, <2>6, <3>1, <3>2 DEF AccountInv, RowsNamed
    <3> QED
      BY <3>2 DEF RowsNamed
  <2>11. PrefsTied'
    <3>1. HasRow(e, r)'
      BY <2>2, <2>6, Kinds4 DEF HasRow
    <3>2. ASSUME NEW id \in Ids, prefs'[id] # None, id # r PROVE Live(id)'
      <4>1. prefs[id] # None
        BY <2>2, <3>2 DEF AccountInv, AccountTables
      <4>2. PICK d \in People : HasRow(d, id)
        BY <4>1 DEF AccountInv, PrefsTied, Live
      <4> QED
        BY <1>4, <2>1, <2>6, <4>2 DEF HasRow, Live
    <3> QED
      BY <3>1, <3>2 DEF PrefsTied, Live
  <2> QED
    BY <2>7, <2>8, <2>9, <2>10, <2>11 DEF AccountInv
<1> QED
  BY <1>3, <1>4

LEMMA AnnounceInv ==
    ASSUME AccountInv, NEW r \in Requests, Announce(r)
    PROVE  AccountInv'
<1>1. /\ Finish(r) /\ request[r].pc # "idle"
      /\ UNCHANGED <<firebase, issued, users, prefs, inserted>>
  BY DEF Announce, stores
<1> QED
  BY <1>1, FinishInv DEF AccountInv, AccountTables

LEMMA ByEmailInv ==
    ASSUME AccountInv, NEW r \in Requests, ByEmail(r)
    PROVE  AccountInv'
<1>1. PICK s \in RequestRow : s = request[r]
  BY DEF AccountInv, AccountTables
<1>2. PICK e \in People : e = s.who
  BY <1>1, AtStep DEF ByEmail
<1>3. /\ s.pc = "byEmail" /\ RequestOK(r) /\ r \notin inserted
      /\ UNCHANGED <<firebase, issued, users, prefs, inserted>>
  BY <1>1 DEF ByEmail, stores, AccountInv, RequestOK
<1>4. CASE Finish(r)
  BY <1>1, <1>3, <1>4, FinishInv DEF AccountInv, AccountTables
<1>5. CASE Goto(r, "insert")
  <2> DEFINE t == [s EXCEPT !.pc = "insert"]
  <2>1. t \in RequestRow /\ t.pc = "insert" /\ t.who = s.who /\ t.uid = s.uid
    BY Onward DEF Stages
  <2>2. request' = [request EXCEPT ![r] = t]
    BY <1>1, <1>5 DEF Goto, Set
  <2> HIDE DEF t
  <2>3. request'[r] = t
    BY <2>1, <2>2, OneRequest
  <2>4. RequestOK(r)'
    BY <1>1, <1>3, <2>1, <2>3 DEF RequestOK
  <2> QED
    BY <1>1, <1>3, <2>1, <2>2, <2>4, RequestMoves DEF AccountInv, AccountTables
<1>6. CASE users[e] # None /\ Set(r, [s EXCEPT !.pc = "link", !.id = users[e].id])
  <2>1. PICK id \in Ids : id = users[e].id
    BY <1>6, RowFields
  <2> DEFINE t == WithId(s, "link", id)
  <2>2. t \in RequestRow /\ t.pc = "link" /\ t.who = s.who /\ t.uid = s.uid /\ t.id = id
    BY OnwardId DEF Stages
  <2>3. request' = [request EXCEPT ![r] = t]
    BY <1>1, <1>6, <2>1 DEF Set, WithId
  <2> HIDE DEF t
  <2>4. request'[r] = t
    BY <2>2, <2>3, OneRequest
  <2>5. RequestOK(r)'
    BY <1>1, <1>3, <2>2, <2>4 DEF RequestOK
  <2> QED
    BY <1>1, <1>3, <2>2, <2>3, <2>5, RequestMoves DEF AccountInv, AccountTables
<1>7. \/ Finish(r) \/ Goto(r, "insert")
      \/ users[e] # None /\ Set(r, [s EXCEPT !.pc = "link", !.id = users[e].id])
  <2>1. CASE users[e] = None
    BY <1>1, <1>2, <2>1 DEF ByEmail
  <2>2. CASE users[e] # None
    BY <1>1, <1>2, <2>2 DEF ByEmail
  <2> QED
    BY <2>1, <2>2
<1> QED
  BY <1>4, <1>5, <1>6, <1>7

\* A step that ends a request and changes rows: what is left to show.
LEMMA FinishRows ==
    ASSUME AccountInv, NEW r \in Requests, Finish(r), request[r].pc # "idle",
           firebase' \in [People -> 0 .. MaxUid], UNCHANGED <<issued, inserted>>,
           users' \in [People -> {None} \cup UserRow], prefs' \in [Ids -> {None} \cup PrefsRow],
           UidsIssued', PrefsTied',
           \A e \in People : users'[e] # None => users[e] # None /\ users'[e].id = users[e].id
    PROVE  AccountInv'
<1> DEFINE s == request[r]
           t == [s EXCEPT !.pc = "done"]
<1>1. s \in RequestRow /\ RequestOK(r)
  BY DEF AccountInv, AccountTables
<1>2. t \in RequestRow /\ t.pc = "done" /\ t.who = s.who
  BY <1>1, Onward DEF Stages
<1>3. request' = [request EXCEPT ![r] = t]
  BY DEF Finish, Goto, Set
<1> HIDE DEF t
<1>4. /\ request' \in [Requests -> RequestRow] /\ request'[r] = t
      /\ \A q \in Requests : q # r => request'[q] = request[q]
  BY <1>2, <1>3, OneRequest
<1>5. AccountTables'
  BY <1>4 DEF AccountInv, AccountTables
<1>6. \A q \in Requests : RequestOK(q)'
  BY <1>1, <1>2, <1>4 DEF AccountInv, RequestOK
<1>7. \A q \in inserted : request'[q].who = request[q].who
  BY <1>2, <1>4 DEF AccountInv, AccountTables
<1>8. RowsNamed'
  BY <1>7 DEF AccountInv, RowsNamed
<1> QED
  BY <1>5, <1>6, <1>8 DEF AccountInv

WithLink(row, u) == [row EXCEPT !.uid = u]

LEMMA LinkedRow ==
    ASSUME NEW row \in UserRow, NEW u \in 1 .. MaxUid
    PROVE  LET t == WithLink(row, u)
           IN  t \in UserRow /\ t.id = row.id /\ t.uid = u /\ t.phone = row.phone
BY DEF WithLink, UserRow

\* What a sign-in makes of the row it has found.
LEMMA LinkDoes ==
    ASSUME AccountInv, NEW r \in Requests, Link(r), NEW e, e = request[r].who,
           HasRow(e, request[r].id)
    PROVE  \E row \in UserRow :
              /\ e \in People /\ users[e] # None /\ row.id = users[e].id /\ row.phone = users[e].phone
              /\ row.uid \in 1 .. issued[e] /\ users' = [users EXCEPT ![e] = row]
<1> DEFINE s == request[r]
           row == WithLink(users[e], s.uid)
<1>1. s.pc = "link" /\ e \in People /\ RequestOK(r) /\ issued[e] \in 0 .. MaxUid
  BY AtStep DEF Link
<1>2. s.uid \in 1 .. issued[e] /\ s.uid \in 1 .. MaxUid
  BY <1>1, Kinds4 DEF RequestOK
<1>3. users[e] # None /\ users[e] \in UserRow
  BY <1>1, RowFields DEF HasRow
<1>4. /\ row \in UserRow /\ row.id = users[e].id /\ row.uid = s.uid /\ row.phone = users[e].phone
  BY <1>2, <1>3, LinkedRow
<1>5. users' = [users EXCEPT ![e] = row]
  BY DEF Link, WithLink
<1> QED
  BY <1>1, <1>2, <1>3, <1>4, <1>5

LEMMA LinkInv ==
    ASSUME AccountInv, NEW r \in Requests, Link(r)
    PROVE  AccountInv'
<1>1. PICK e : e = request[r].who
  OBVIOUS
<1>2. /\ Finish(r) /\ request[r].pc # "idle" /\ UNCHANGED <<firebase, issued, prefs, inserted>>
  BY DEF Link
<1>3. CASE ~HasRow(e, request[r].id)
  <2>1. UNCHANGED users
    BY <1>1, <1>3 DEF Link
  <2> QED
    BY <1>2, <2>1, FinishInv DEF AccountInv, AccountTables
<1>4. CASE HasRow(e, request[r].id)
  <2>1. PICK row \in UserRow :
              /\ e \in People /\ users[e] # None /\ row.id = users[e].id
              /\ row.uid \in 1 .. issued[e] /\ users' = [users EXCEPT ![e] = row]
    BY <1>1, <1>4, LinkDoes
  <2>2. users'[e] = row /\ \A d \in People : d # e => users'[d] = users[d]
    BY <2>1 DEF AccountInv, AccountTables
  <2>3. users' \in [People -> {None} \cup UserRow]
    BY <2>1 DEF AccountInv, AccountTables
  <2>4. UidsIssued'
    <3>1. issued[e] \in 0 .. MaxUid
      BY <2>1 DEF AccountInv, AccountTables
    <3> QED
      BY <1>2, <2>1, <2>2, <3>1 DEF AccountInv, UidsIssued
  <2>5. PrefsTied'
    <3>1. \A d \in People, id \in Ids : HasRow(d, id) => HasRow(d, id)'
      BY <2>1, <2>2, Kinds4 DEF HasRow
    <3> QED
      BY <1>2, <3>1 DEF AccountInv, PrefsTied, Live
  <2> QED
    BY <1>2, <2>1, <2>2, <2>3, <2>4, <2>5, FinishRows DEF AccountInv, AccountTables
<1> QED
  BY <1>3, <1>4

LEMMA DeleteFirebaseInv ==
    ASSUME AccountInv, NEW r \in Requests, DeleteFirebase(r)
    PROVE  AccountInv'
<1>1. PICK s \in RequestRow : s = request[r]
  BY DEF AccountInv, AccountTables
<1>2. PICK e \in People : e = s.who
  BY <1>1, AtStep DEF DeleteFirebase
<1>3. /\ s.pc = "unlink" /\ RequestOK(r) /\ r \notin inserted
      /\ UNCHANGED <<issued, users, prefs, inserted>>
  BY <1>1 DEF DeleteFirebase, AccountInv, RequestOK
<1>4. CASE UNCHANGED firebase /\ Finish(r)
  BY <1>1, <1>3, <1>4, FinishInv DEF AccountInv, AccountTables
<1>5. CASE firebase' = [firebase EXCEPT ![e] = 0] /\ Goto(r, "delete")
  <2> DEFINE t == [s EXCEPT !.pc = "delete"]
  <2>1. t \in RequestRow /\ t.pc = "delete" /\ t.who = s.who /\ t.id = s.id
    BY Onward DEF Stages
  <2>2. request' = [request EXCEPT ![r] = t]
    BY <1>1, <1>5 DEF Goto, Set
  <2> HIDE DEF t
  <2>3. /\ request' \in [Requests -> RequestRow] /\ request'[r] = t
        /\ \A q \in Requests : q # r => request'[q] = request[q]
    BY <2>1, <2>2, OneRequest
  <2>4. AccountTables'
    <3>1. firebase' \in [People -> 0 .. MaxUid]
      BY <1>5, Kinds4 DEF AccountInv, AccountTables
    <3> QED
      BY <1>3, <2>3, <3>1 DEF AccountInv, AccountTables
  <2>5. UidsIssued'
    <3>1. \A d \in People : firebase'[d] <= firebase[d]
      BY <1>5 DEF AccountInv, AccountTables
    <3>2. \A d \in People : firebase[d] \in 0 .. MaxUid /\ issued[d] \in 0 .. MaxUid
                            /\ firebase'[d] \in 0 .. MaxUid
      BY <2>4 DEF AccountInv, AccountTables
    <3> QED
      BY <1>3, <3>1, <3>2, Kinds4 DEF AccountInv, UidsIssued
  <2>6. \A q \in Requests : RequestOK(q)'
    BY <1>1, <1>3, <2>1, <2>3 DEF AccountInv, RequestOK
  <2>7. RowsNamed' /\ PrefsTied'
    <3>1. \A q \in inserted : request'[q].who = request[q].who
      BY <1>3, <2>3 DEF AccountInv, AccountTables
    <3> QED
      BY <1>3, <3>1 DEF AccountInv, RowsNamed, PrefsTied, Live, HasRow
  <2> QED
    BY <2>4, <2>5, <2>6, <2>7 DEF AccountInv
<1> QED
  BY <1>1, <1>2, <1>4, <1>5 DEF DeleteFirebase

LEMMA DeleteRowInv ==
    ASSUME AccountInv, NEW r \in Requests, DeleteRow(r)
    PROVE  AccountInv'
<1>1. PICK s : s = request[r]
  OBVIOUS
<1>2. /\ s.pc = "delete" /\ s.who \in People /\ s.id \in Ids /\ Finish(r)
      /\ UNCHANGED <<firebase, issued, inserted>>
  BY <1>1, AtStep DEF DeleteRow, RequestOK
<1>4. CASE UNCHANGED <<users, prefs>>
  BY <1>1, <1>2, <1>4, FinishInv
<1>5. CASE Drop(s.who, s.id)
  <2>1. \A d \in People : \/ users'[d] = users[d]
                          \/ users'[d] = None /\ users[d].id = s.id
    BY <1>2, <1>5 DEF Drop, HasRow, AccountInv, AccountTables
  <2>2. users' \in [People -> {None} \cup UserRow]
    BY <1>2, <1>5 DEF Drop, AccountInv, AccountTables
  <2>3. /\ prefs' \in [Ids -> {None} \cup PrefsRow] /\ prefs'[s.id] = None
        /\ \A id \in Ids : id # s.id => prefs'[id] = prefs[id]
    BY <1>2, <1>5 DEF Drop, AccountInv, AccountTables
  <2>4. UidsIssued'
    BY <1>2, <2>1 DEF AccountInv, UidsIssued
  <2>5. PrefsTied'
    BY <2>1, <2>3 DEF AccountInv, PrefsTied, Live, HasRow
  <2> QED
    BY <1>1, <1>2, <2>1, <2>2, <2>3, <2>4, <2>5, FinishRows DEF AccountInv, AccountTables
<1> QED
  BY <1>1, <1>4, <1>5 DEF DeleteRow

LEMMA PrefsWriteInv ==
    ASSUME AccountInv, NEW r \in Requests, PrefsWrite(r)
    PROVE  AccountInv'
<1>1. PICK s \in RequestRow : s = request[r]
  BY DEF AccountInv, AccountTables
<1>2. /\ s.pc \in {"newPrefs", "setPrefs"} /\ RequestOK(r) /\ s.id \in Ids /\ Finish(r)
      /\ UNCHANGED <<firebase, issued, users, inserted>>
  BY <1>1 DEF PrefsWrite, AccountInv, RequestOK
<1>3. CASE prefs' = prefs
  BY <1>1, <1>2, <1>3, FinishInv DEF AccountInv, AccountTables
<1>4. ASSUME NEW row \in PrefsRow, prefs' = [prefs EXCEPT ![s.id] = row], Live(s.id)
      PROVE  AccountInv'
  <2>1. prefs' \in [Ids -> {None} \cup PrefsRow]
    BY <1>2, <1>4 DEF AccountInv, AccountTables
  <2>2. \A id \in Ids : id # s.id => prefs'[id] = prefs[id]
    BY <1>4 DEF AccountInv, AccountTables
  <2>3. \A id \in Ids : Live(id)' <=> Live(id)
    BY <1>2 DEF Live, HasRow
  <2>4. PrefsTied'
    BY <1>4, <2>2, <2>3 DEF AccountInv, PrefsTied
  <2>5. UidsIssued'
    BY <1>2 DEF AccountInv, UidsIssued
  <2> QED
    BY <1>1, <1>2, <2>1, <2>4, <2>5, FinishRows DEF AccountInv, AccountTables
<1>5. \/ prefs' = prefs
      \/ \E row \in PrefsRow : prefs' = [prefs EXCEPT ![s.id] = row] /\ Live(s.id)
  <2>1. CASE prefs' # prefs /\ s.pc = "newPrefs"
    <3>1. prefs' = [prefs EXCEPT ![s.id] = Changed(Defaults, s)] /\ Live(s.id)
      BY <1>1, <2>1 DEF PrefsWrite
    <3> QED
      BY <3>1, PrefsRows, ChangedType
  <2>2. CASE prefs' # prefs /\ s.pc = "setPrefs"
    <3>1. prefs' = [prefs EXCEPT ![s.id] = Changed(prefs[s.id], s)] /\ prefs[s.id] # None
      BY <1>1, <2>2 DEF PrefsWrite
    <3>2. prefs[s.id] \in PrefsRow /\ Live(s.id)
      BY <1>2, <3>1 DEF AccountInv, AccountTables, PrefsTied
    <3> QED
      BY <3>1, <3>2, ChangedType
  <2> QED
    BY <1>2, <2>1, <2>2
<1> QED
  BY <1>3, <1>4, <1>5

LEMMA SignUpInv ==
    ASSUME AccountInv, NEW e \in Movers, SignUp(e)
    PROVE  AccountInv'
<1>1. e \in People /\ UNCHANGED <<users, prefs, request, inserted>>
  BY Kinds4 DEF SignUp
<1>2. PICK g \in 1 .. MaxUid :
          /\ g = issued[e] + 1
          /\ firebase' = [firebase EXCEPT ![e] = g] /\ issued' = [issued EXCEPT ![e] = g]
  <2>1. issued[e] \in 0 .. MaxUid /\ issued[e] < MaxUid
    BY <1>1 DEF SignUp, AccountInv, AccountTables
  <2>2. issued[e] + 1 \in 1 .. MaxUid
    BY <2>1, Kinds4
  <2> QED
    BY <2>2 DEF SignUp
<1>3. AccountTables'
  BY <1>1, <1>2 DEF AccountInv, AccountTables
<1>4. \A d \in People : /\ issued[d] \in 0 .. MaxUid /\ issued[d] <= issued'[d]
                        /\ d # e => firebase'[d] = firebase[d]
                        /\ issued'[e] = g /\ firebase'[e] = g /\ issued'[d] \in 0 .. MaxUid
  BY <1>1, <1>2 DEF AccountInv, AccountTables
<1>5. UidsIssued'
  <2> SUFFICES ASSUME NEW d \in People
               PROVE  firebase'[d] <= issued'[d] /\ (users[d] # None => users[d].uid <= issued'[d])
    BY <1>1 DEF UidsIssued
  <2>1. firebase[d] <= issued[d] /\ firebase[d] \in 0 .. MaxUid
    BY DEF AccountInv, UidsIssued, AccountTables
  <2>2. users[d] # None => users[d].uid \in 1 .. MaxUid /\ users[d].uid <= issued[d]
    BY RowFields DEF AccountInv, UidsIssued
  <2> QED
    BY <1>2, <1>4, <2>1, <2>2
<1>6. ASSUME NEW q \in Requests PROVE RequestOK(q)'
  <2>1. RequestOK(q)
    BY DEF AccountInv
  <2>2. request[q].pc \in {"insert", "byEmail", "link"} =>
            request[q].who \in People /\ request[q].uid \in 1 .. issued[request[q].who]
    BY <2>1 DEF RequestOK
  <2>3. request[q].pc \in {"insert", "byEmail", "link"} =>
            request[q].uid \in 1 .. issued'[request[q].who]
    BY <1>4, <2>2
  <2> QED
    BY <1>1, <2>1, <2>3 DEF RequestOK
<1>7. RowsNamed' /\ PrefsTied'
  BY <1>1 DEF AccountInv, RowsNamed, PrefsTied, Live, HasRow
<1> QED
  BY <1>3, <1>5, <1>6, <1>7 DEF AccountInv

\* A restart ends the requests that are under way, and leaves their rows be.
LEMMA RestartDoes ==
    ASSUME AccountInv, Restart
    PROVE  /\ UNCHANGED <<firebase, issued, users, prefs, announced, inserted>>
           /\ request' \in [Requests -> RequestRow]
           /\ \A r \in Requests :
                 /\ request'[r].who = request[r].who
                 /\ InFlight(r) => request'[r].pc = "done" /\ r \in crashed'
                 /\ ~InFlight(r) => request'[r] = request[r]
           /\ crashed \subseteq crashed'
<1> DEFINE lost == {r \in Requests : InFlight(r)}
<1>1. /\ UNCHANGED <<firebase, issued, users, prefs, announced, inserted>>
      /\ crashed = {} /\ crashed' = lost
      /\ request' = [r \in Requests |-> IF r \in lost THEN [request[r] EXCEPT !.pc = "done"]
                                        ELSE request[r]]
  BY DEF Restart, stores
<1>2. ASSUME NEW r \in Requests
      PROVE  /\ request'[r] \in RequestRow /\ request'[r].who = request[r].who
             /\ InFlight(r) => request'[r].pc = "done"
             /\ ~InFlight(r) => request'[r] = request[r]
  <2>1. request[r] \in RequestRow
    BY DEF AccountInv, AccountTables
  <2>2. CASE InFlight(r)
    <3> DEFINE t == [request[r] EXCEPT !.pc = "done"]
    <3>1. t \in RequestRow /\ t.pc = "done" /\ t.who = request[r].who
      BY <2>1, Onward DEF Stages
    <3>2. request'[r] = t
      BY <1>1, <2>2
    <3> HIDE DEF t
    <3> QED
      BY <2>2, <3>1, <3>2
  <2>3. CASE ~InFlight(r)
    <3>1. request'[r] = request[r]
      BY <1>1, <2>3
    <3> QED
      BY <2>1, <2>3, <3>1
  <2> QED
    BY <2>2, <2>3
<1>3. request' \in [Requests -> RequestRow]
  <2>1. request' = [r \in Requests |-> request'[r]]
    BY <1>1
  <2> QED
    BY <1>2, <2>1
<1> QED
  BY <1>1, <1>2, <1>3

LEMMA RestartInv ==
    ASSUME AccountInv, Restart
    PROVE  AccountInv'
<1>1. /\ UNCHANGED <<firebase, issued, users, prefs, inserted>>
      /\ request' \in [Requests -> RequestRow]
      /\ \A r \in Requests :
            /\ request'[r].who = request[r].who
            /\ InFlight(r) => request'[r].pc = "done"
            /\ ~InFlight(r) => request'[r] = request[r]
  BY RestartDoes
<1>2. AccountTables' /\ UidsIssued'
  BY <1>1 DEF AccountInv, AccountTables, UidsIssued
<1>3. \A r \in Requests : RequestOK(r)'
  BY <1>1 DEF AccountInv, RequestOK, InFlight
<1>4. RowsNamed' /\ PrefsTied'
  <2>1. \A q \in inserted : request'[q].who = request[q].who
    BY <1>1 DEF AccountInv, AccountTables
  <2> QED
    BY <1>1, <2>1 DEF AccountInv, RowsNamed, PrefsTied, Live, HasRow
<1> QED
  BY <1>2, <1>3, <1>4 DEF AccountInv

AccountMoves == AccountStep \/ \E r \in Requests : Arrive(r)

LEMMA AccountStepInv ==
    ASSUME AccountInv, AccountMoves
    PROVE  AccountInv'
<1>1. CASE \E r \in Requests : Proceed(r)
  BY <1>1, RegisterFirebaseInv, InsertInv, AnnounceInv, ByEmailInv, LinkInv, DeleteFirebaseInv,
     DeleteRowInv, PrefsWriteInv DEF Proceed
<1>2. CASE (\E e \in Movers : SignUp(e)) \/ Restart
  BY <1>2, SignUpInv, RestartInv
<1>3. CASE \E r \in Requests : Arrive(r)
  BY <1>3, RegisterReadInv, DeleteReadInv, SignInInv, PrefsReadInv DEF Arrive
<1> QED
  BY <1>1, <1>2, <1>3 DEF AccountMoves, AccountStep

LEMMA AccountsStay ==
    ASSUME UNCHANGED accountVars
    PROVE  /\ AccountInv => AccountInv'
           /\ AnnouncedTruly => AnnouncedTruly'
           /\ \A id : Live(id)' <=> Live(id)
<1>1. UNCHANGED <<firebase, issued, users, prefs, announced, request, inserted, crashed>>
  BY DEF accountVars, stores
<1>2. \A id : Live(id)' <=> Live(id)
  BY <1>1 DEF Live, HasRow
<1>3. AccountInv => AccountInv'
  BY <1>1, <1>2 DEF AccountInv, AccountTables, UidsIssued, RowsNamed, PrefsTied, RequestOK
<1>5. AnnouncedTruly => AnnouncedTruly'
  BY <1>1, <1>2 DEF AnnouncedTruly, InFlight
<1> QED
  BY <1>2, <1>3, <1>5

LEMMA AccountInitInv ==
    ASSUME AccountInit
    PROVE  AccountInv /\ AnnouncedTruly
<1>1. /\ users \in [People -> {None} \cup [id : People, uid : {1}, phone : {TRUE}]]
      /\ \A e \in People : users[e] # None => users[e].id = e
      /\ firebase = [e \in People |-> IF users[e] = None THEN 0 ELSE 1]
      /\ issued = firebase /\ prefs \in [Ids -> {None, NewPrefs}]
      /\ \A id \in Ids : ~Live(id) => prefs[id] = None
      /\ announced = {} /\ inserted = {}
      /\ request = [r \in Requests |-> Idle]
  BY DEF AccountInit
<1>2. [id : People, uid : {1}, phone : {TRUE}] \subseteq UserRow
  <2>1. 1 \in 1 .. MaxUid /\ TRUE \in BOOLEAN /\ People \subseteq Ids
    BY Kinds4 DEF Ids
  <2> QED
    BY <2>1 DEF UserRow
<1>3. /\ users \in [People -> {None} \cup UserRow]
      /\ \A e \in People : users[e] # None => users[e].uid = 1
  BY <1>1, <1>2
<1>4. AccountTables
  BY <1>1, <1>3, IdleRow, PrefsRows, Kinds4 DEF AccountTables
<1>5. UidsIssued /\ RowsNamed /\ PrefsTied
  BY <1>1, <1>3 DEF UidsIssued, RowsNamed, PrefsTied
<1>6. \A r \in Requests : RequestOK(r)
  BY <1>1, IdleRow DEF RequestOK
<1>7. AnnouncedTruly
  BY <1>1, <1>3 DEF AnnouncedTruly
<1> QED
  BY <1>4, <1>5, <1>6, <1>7 DEF AccountInv

-----------------------------------------------------------------------------
(* Rows that have gone, and the activity log *)

\* Only an insert makes a row live, and its id is a new one.
LEMMA NoneReborn ==
    ASSUME AccountInv, AccountMoves
    PROVE  /\ inserted \subseteq inserted'
           /\ \A id \in Known : Live(id)' => Live(id)
<1>1. CASE UNCHANGED <<users, inserted>>
  BY <1>1 DEF Live, HasRow
<1>2. ASSUME NEW r \in Requests, Insert(r), ~UNCHANGED <<users, inserted>>
      PROVE  inserted \subseteq inserted' /\ \A id \in Known : Live(id)' => Live(id)
  <2>1. PICK e : e = request[r].who
    OBVIOUS
  <2>2. users[e] = None
    BY <1>2, <2>1 DEF Insert
  <2>3. PICK row \in UserRow :
            /\ e \in People /\ r \notin inserted /\ row.id = r
            /\ users' = [users EXCEPT ![e] = row] /\ inserted' = inserted \cup {r}
    BY <1>2, <2>1, <2>2, InsertRow
  <2>4. users'[e] = row /\ \A d \in People : d # e => users'[d] = users[d]
    BY <2>3 DEF AccountInv, AccountTables
  <2>5. \A id \in Known : id # r
    BY <2>3, Kinds4 DEF Known
  <2> QED
    BY <2>3, <2>4, <2>5 DEF Live, HasRow
<1>3. ASSUME NEW r \in Requests, Link(r), ~UNCHANGED <<users, inserted>>
      PROVE  inserted \subseteq inserted' /\ \A id \in Known : Live(id)' => Live(id)
  <2>1. PICK e : e = request[r].who
    OBVIOUS
  <2>2. HasRow(e, request[r].id) /\ inserted' = inserted
    BY <1>3, <2>1 DEF Link
  <2>3. PICK row \in UserRow :
            /\ e \in People /\ users[e] # None /\ row.id = users[e].id
            /\ users' = [users EXCEPT ![e] = row]
    BY <1>3, <2>1, <2>2, LinkDoes
  <2>4. users'[e] = row /\ \A d \in People : d # e => users'[d] = users[d]
    BY <2>3 DEF AccountInv, AccountTables
  <2> QED
    BY <2>2, <2>3, <2>4 DEF Live, HasRow
<1>4. ASSUME NEW r \in Requests, DeleteRow(r)
      PROVE  inserted \subseteq inserted' /\ \A id \in Known : Live(id)' => Live(id)
  <2>1. \A d \in People : users'[d] = users[d] \/ users'[d] = None
    BY <1>4 DEF DeleteRow, Drop, AccountInv, AccountTables
  <2>2. inserted' = inserted
    BY <1>4 DEF DeleteRow
  <2> QED
    BY <2>1, <2>2 DEF Live, HasRow
<1>5. \/ UNCHANGED <<users, inserted>>
      \/ \E r \in Requests : Insert(r) \/ Link(r) \/ DeleteRow(r)
  BY DEF AccountMoves, AccountStep, Proceed, Arrive, RegisterFirebase, Announce, ByEmail,
     DeleteFirebase, PrefsWrite, RegisterRead, DeleteRead, SignIn, PrefsRead, SignUp, Restart, stores
<1> QED
  BY <1>1, <1>2, <1>3, <1>4, <1>5

\* A request's step changes its row.
LEMMA StepRow ==
    ASSUME AccountInv, NEW r \in Requests,
           \/ Proceed(r)
           \/ Arrive(r)
    PROVE  \E t \in RequestRow : request' = [request EXCEPT ![r] = t]
<1>1. PICK t : request' = [request EXCEPT ![r] = t]
  BY Zenon DEF Proceed, Arrive, RegisterFirebase, Insert, Announce, ByEmail, Link, DeleteFirebase,
     DeleteRow, PrefsWrite, RegisterRead, DeleteRead, SignIn, PrefsRead, Finish, Goto, Set
<1>2. AccountInv'
  BY AccountStepInv DEF AccountMoves, AccountStep
<1>3. request'[r] = t /\ request'[r] \in RequestRow
  BY <1>1, <1>2 DEF AccountInv, AccountTables
<1> QED
  BY <1>1, <1>3

LEMMA AnnouncedStep ==
    ASSUME AccountInv, AnnouncedTruly, AccountMoves
    PROVE  AnnouncedTruly'
<1>1. \A id \in Known : Live(id)' => Live(id)
  BY NoneReborn
<1>2. \A q \in inserted : q \in Requests /\ q \in Known /\ request[q].pc \in {"announce", "done"}
  BY DEF AccountInv, AccountTables, RequestOK, Known
<1>3. ASSUME NEW r \in Requests, Announce(r) PROVE AnnouncedTruly'
  <2>1. r \in inserted /\ UNCHANGED <<inserted, crashed, users>>
        /\ announced' = IF Live(r) THEN announced \cup {r} ELSE announced
    BY <1>3 DEF Announce, AccountInv, RequestOK, stores
  <2>2. \A q \in Requests : q # r => request'[q] = request[q]
    BY <1>3 DEF Announce, Finish, Goto, Set, AccountInv, AccountTables
  <2>3. ~Live(r) => ~Live(r)'
    BY <1>1, <1>2, <2>1
  <2> QED
    BY <1>1, <1>2, <2>1, <2>2, <2>3 DEF AnnouncedTruly, InFlight
<1>4. ASSUME NEW r \in Requests, Insert(r), inserted' # inserted PROVE AnnouncedTruly'
  <2>1. PICK s \in RequestRow : s = request[r]
    BY DEF AccountInv, AccountTables
  <2>2. users[s.who] = None
    BY <1>4, <2>1 DEF Insert
  <2>3. Goto(r, "announce") /\ inserted' = inserted \cup {r} /\ UNCHANGED <<announced, crashed>>
    BY <1>4, <2>1, <2>2 DEF Insert
  <2>4. PICK t \in RequestRow : request' = [request EXCEPT ![r] = t] /\ t.pc = "announce"
    <3>1. "announce" \in Stages
      BY DEF Stages
    <3> QED
      BY <2>1, <2>3, <3>1, Onward DEF Goto, Set
  <2>5. request'[r] = t /\ \A q \in Requests : q # r => request'[q] = request[q]
    BY <2>4, OneRequest
  <2> QED
    BY <1>1, <1>2, <2>3, <2>4, <2>5 DEF AnnouncedTruly, InFlight
<1>5. CASE Restart
  <2>1. /\ UNCHANGED <<announced, inserted>> /\ crashed \subseteq crashed'
        /\ \A q \in Requests : InFlight(q) => q \in crashed'
    BY <1>5, RestartDoes
  <2> QED
    BY <1>1, <1>2, <2>1 DEF AnnouncedTruly
<1>6. ASSUME NEW r \in Requests, Proceed(r) \/ Arrive(r), ~Announce(r),
             ~ (Insert(r) /\ inserted' # inserted)
      PROVE  AnnouncedTruly'
  <2>1. UNCHANGED <<announced, inserted, crashed>> /\ request[r].pc \notin {"announce", "done"}
    BY <1>6, IdleRow
       DEF Proceed, Arrive, RegisterFirebase, Insert, ByEmail, Link, DeleteFirebase, DeleteRow,
           PrefsWrite, RegisterRead, DeleteRead, SignIn, PrefsRead, stores
  <2>2. PICK t \in RequestRow : request' = [request EXCEPT ![r] = t]
    BY <1>6, StepRow
  <2>3. \A q \in inserted : request'[q] = request[q]
    BY <1>2, <2>1, <2>2, OneRequest
  <2> QED
    BY <1>1, <1>2, <2>1, <2>3 DEF AnnouncedTruly, InFlight
<1>7. ASSUME NEW e \in Movers, SignUp(e) PROVE AnnouncedTruly'
  <2>1. UNCHANGED <<announced, inserted, crashed, request>>
    BY <1>7 DEF SignUp
  <2> QED
    BY <1>1, <1>2, <2>1 DEF AnnouncedTruly, InFlight
<1> QED
  BY <1>3, <1>4, <1>5, <1>6, <1>7 DEF AccountMoves, AccountStep

-----------------------------------------------------------------------------
(* The reminder jobs: what a step of an account does to them *)

\* A job and its fields; the rows it has read are of ids that were known.
LEMMA JobParts ==
    ASSUME JobsOK, NEW j \in Jobs
    PROVE  /\ job[j] \in JobRow /\ JobOK(job[j])
           /\ job[j].pc = "dead" /\ j \notin killed => job[j].at \in job[j].rows
<1>1. job \in [Jobs -> JobRow]
  BY Zenon DEF JobsOK
<1>2. \A i \in Jobs : /\ JobOK(job[i])
                      /\ job[i].pc = "dead" /\ i \notin killed => job[i].at \in job[i].rows
  BY Zenon DEF JobsOK
<1>3. job[j] \in JobRow
  BY <1>1
<1> QED
  BY <1>2, <1>3, Zenon

LEMMA RowParts ==
    ASSUME NEW s \in JobRow
    PROVE  /\ s.pc \in JobStages /\ s.kind \in Kinds \cup {"none"} /\ s.day \in 0 .. LastDay
           /\ s.rows \subseteq Recipient /\ s.left \subseteq Recipient
           /\ s.at \in Recipient \cup {None}
           /\ \A c \in s.rows : c.id \in Known
<1>1. /\ s.pc \in JobStages /\ s.kind \in Kinds \cup {"none"} /\ s.day \in 0 .. LastDay
      /\ s.rows \subseteq Recipient /\ s.left \subseteq Recipient
      /\ s.at \in Recipient \cup {None}
  BY DEF JobRow
<1>2. \A c \in Recipient : c.id \in Known
  BY DEF Recipient
<1> QED
  BY <1>1, <1>2

LEMMA SettledFollows ==
    ASSUME NEW c, NEW s, Settled(c, s), c.id \in Known,
           \A id \in Known : Live(id)' => Live(id),
           \A n \in notes : Live(n.id)' => n \in notes',
           \A x \in reflected : Live(x[1])' => x \in reflected'
    PROVE  Settled(c, s)'
<1>1. CASE \E n \in notes : n.id = c.id /\ n.kind = s.kind /\ n.day >= s.day
  BY <1>1 DEF Settled
<1>2. CASE s.kind = "checkin" /\ <<c.id, s.day>> \in reflected
  BY <1>2 DEF Settled
<1> QED
  BY <1>1, <1>2 DEF Settled

LEMMA AccountStepReminders ==
    ASSUME AccountInv, ReminderInv, AccountMoves, Cascade,
           UNCHANGED <<day, job, overlapped, killed>>
    PROVE  ReminderInv'
<1>1. inserted \subseteq inserted' /\ Known \subseteq Known' /\ \A id \in Known : Live(id)' => Live(id)
  BY NoneReborn DEF Known
<1>2. /\ notes' = {n \in notes : Live(n.id)'}
      /\ smsLog' = {n \in smsLog : Live(n.id)'}
      /\ reflected' = {x \in reflected : Live(x[1])'}
  BY DEF Cascade
<1>3. RowsOK'
  <2>1. notes' \subseteq Note'
    BY <1>1, <1>2 DEF ReminderInv, RowsOK, Note
  <2> QED
    BY <1>2, <2>1 DEF ReminderInv, RowsOK
<1>4. Recipient \subseteq Recipient'
  BY <1>1 DEF Recipient
<1>5. JobRow \subseteq JobRow'
  BY <1>4 DEF JobRow
<1>6. JobsOK'
  <2>1. ASSUME NEW j \in Jobs
        PROVE  /\ JobOK(job[j])'
               /\ job[j].pc = "dead" /\ j \notin killed => job[j].at \in job[j].rows
    <3>1. PICK s : s = job[j]
      OBVIOUS
    <3>2. JobOK(s)'
      BY <1>5, <3>1, JobParts DEF ReminderInv, JobOK
    <3> QED
      BY <3>1, <3>2, JobParts DEF ReminderInv
  <2>2. job' \in [Jobs -> JobRow']
    BY <1>5 DEF ReminderInv, JobsOK
  <2> QED
    BY <2>1, <2>2 DEF ReminderInv, JobsOK
<1>7. Turns' /\ OnceADay'
  BY <1>2 DEF ReminderInv, Turns, OnceADay, Running
<1>8. SettledSoFar'
  <2> SUFFICES ASSUME NEW j \in Jobs, job[j].pc # "dead", NEW c \in job[j].rows \ job[j].left,
                      Settled(c, job[j])
               PROVE  Settled(c, job[j])'
    BY DEF ReminderInv, SettledSoFar
  <2>1. PICK s : s = job[j]
    OBVIOUS
  <2>2. c.id \in Known
    BY JobParts, RowParts DEF ReminderInv
  <2>3. Settled(c, s)'
    BY <1>1, <1>2, <2>1, <2>2, SettledFollows
  <2> QED
    BY <2>1, <2>3
<1>9. DeathsKnown'
  <2> SUFFICES ASSUME NEW j \in Jobs, job[j].pc = "dead", ~Live(job[j].at.id), j \notin killed
               PROVE  ~Live(job[j].at.id)'
    BY DEF ReminderInv, DeathsKnown, DiedOf
  <2>1. PICK id \in Known : id = job[j].at.id
    <3>1. job[j] \in JobRow /\ job[j].at \in job[j].rows
      BY JobParts DEF ReminderInv
    <3> QED
      BY <3>1, RowParts
  <2> QED
    BY <1>1, <2>1
<1> QED
  BY <1>3, <1>6, <1>7, <1>8, <1>9 DEF ReminderInv

-----------------------------------------------------------------------------
(* The reminder jobs: rows of jobs *)

LEMMA NoJobRow == NoJob \in JobRow /\ NoJob.pc = "idle" /\ NoJob.rows = {} /\ NoJob.due = {}
BY RemindersAssumption DEF NoJob, JobRow, JobStages

LEMMA JobOnward ==
    ASSUME NEW s \in JobRow, NEW pc \in JobStages
    PROVE  LET t == [s EXCEPT !.pc = pc]
           IN  /\ t \in JobRow /\ t.pc = pc /\ t.kind = s.kind /\ t.day = s.day
               /\ t.rows = s.rows /\ t.due = s.due /\ t.left = s.left /\ t.at = s.at
BY DEF JobRow

\* A job that takes a recipient, or passes one over.
Taken(s, c, at, pc) == [s EXCEPT !.left = s.left \ {c}, !.at = at, !.pc = pc]

Started(k, d, D, R) == [NoJob EXCEPT !.pc = "next", !.kind = k, !.day = d, !.due = D,
                                     !.rows = R, !.left = R]

LEMMA JobStarts ==
    ASSUME NEW k \in Kinds, NEW d \in 0 .. LastDay, NEW R \in SUBSET Recipient,
           NEW D \in SUBSET Recipient
    PROVE  LET t == Started(k, d, D, R)
           IN  /\ t \in JobRow /\ t.pc = "next" /\ t.kind = k /\ t.day = d
               /\ t.rows = R /\ t.due = D /\ t.left = R
BY NoJobRow DEF JobRow, Started, JobStages

\* The recipients of a job have rows, whose ids are known.
LEMMA RecipientsKnown ==
    ASSUME AccountInv, NEW k
    PROVE  Recipients(k) \in SUBSET Recipient
<1> SUFFICES ASSUME NEW e \in People, users[e] # None, prefs[users[e].id] # None
             PROVE  [id |-> users[e].id, reminder |-> prefs[users[e].id].reminder,
                     sms |-> prefs[users[e].id].sms, phone |-> users[e].phone] \in Recipient
  BY Zenon DEF Recipients
<1>1. PICK u \in UserRow : u = users[e]
  BY DEF AccountInv, AccountTables
<1>2. PICK id \in Ids : id = u.id
  BY <1>1 DEF UserRow
<1>3. PICK row \in PrefsRow : row = prefs[id]
  BY <1>1, <1>2 DEF AccountInv, AccountTables
<1>4. id \in Known
  BY <1>1, <1>2 DEF AccountInv, RowsNamed, Known
<1>5. u.phone \in BOOLEAN /\ row.reminder \in BOOLEAN /\ row.sms \in BOOLEAN
  BY <1>1, <1>3 DEF UserRow, PrefsRow
<1>6. [id |-> id, reminder |-> row.reminder, sms |-> row.sms, phone |-> u.phone] \in Recipient
  BY <1>4, <1>5 DEF Recipient
<1> QED
  BY <1>1, <1>2, <1>3, <1>6

-----------------------------------------------------------------------------
(* The reminder jobs: what a step of one leaves of the invariant *)

LEMMA JobPut ==
    ASSUME JobsOK, NEW j \in Jobs, NEW t \in JobRow, Put(j, t)
    PROVE  /\ job' \in [Jobs -> JobRow] /\ job'[j] = t
           /\ \A i \in Jobs : i # j => job'[i] = job[i]
<1>1. job \in [Jobs -> JobRow]
  BY Zenon DEF JobsOK
<1> QED
  BY <1>1 DEF Put

LEMMA AccountsAsBefore ==
    ASSUME UNCHANGED accountVars
    PROVE  /\ inserted' = inserted /\ users' = users
           /\ \A id : Live(id)' <=> Live(id)
BY DEF accountVars, stores, Live, HasRow

LEMMA RowsStep ==
    ASSUME RowsOK, UNCHANGED accountVars, UNCHANGED <<day, notes, smsLog, reflected>>
    PROVE  RowsOK'
<1>1. inserted' = inserted /\ \A id : Live(id)' <=> Live(id)
  BY AccountsAsBefore
<1>2. Note' = Note
  BY <1>1 DEF Note, Known
<1> QED
  BY <1>1, <1>2 DEF RowsOK

LEMMA JobsStep ==
    ASSUME JobsOK, UNCHANGED accountVars, day' = day,
           NEW j \in Jobs, NEW t \in JobRow, Put(j, t), JobOK(t), t.pc # "idle",
           job[j].pc = "idle" \/ t.kind = job[j].kind,
           killed \subseteq killed',
           t.pc = "dead" => j \in killed' \/ t.at \in t.rows
    PROVE  JobsOK'
<1>1. Known' = Known /\ Recipient' = Recipient /\ JobRow' = JobRow
  BY AccountsAsBefore DEF Known, Recipient, JobRow
<1>2. /\ job' \in [Jobs -> JobRow] /\ job'[j] = t
      /\ \A i \in Jobs : i # j => job'[i] = job[i]
  BY JobPut
<1>3. \A s : JobOK(s) => JobOK(s)'
  BY <1>1 DEF JobOK
<1>4. ASSUME NEW i \in Jobs
      PROVE  /\ JobOK(job[i])'
             /\ job'[i].pc = "dead" /\ i \notin killed' => job'[i].at \in job'[i].rows
  <2>1. PICK s : s = job'[i]
    OBVIOUS
  <2>2. JobOK(s) /\ (s.pc = "dead" /\ i \notin killed' => s.at \in s.rows)
    BY <1>2, <2>1, JobParts
  <2> QED
    BY <1>3, <2>1, <2>2
<1>5. job' \in [Jobs -> JobRow]'
  BY <1>1, <1>2
<1> QED
  BY <1>4, <1>5 DEF JobsOK

\* A job of its kind and day goes on.
LEMMA TurnsStep ==
    ASSUME JobsOK, Turns, notes' = notes, overlapped' = overlapped,
           NEW j \in Jobs, NEW t \in JobRow, Put(j, t), Running(j),
           t.kind = job[j].kind, t.day = job[j].day,
           t.pc = "emit" => \A n \in notes : ~ (n.id = t.at.id /\ n.kind = t.kind /\ n.day = t.day)
    PROVE  Turns'
<1>1. /\ job'[j] = t /\ \A i \in Jobs : i # j => job'[i] = job[i]
  BY JobPut
<1>2. \A i \in Jobs : /\ Running(i)' => Running(i)
                      /\ job'[i].kind = job[i].kind /\ job'[i].day = job[i].day
  BY <1>1 DEF Running
<1> SUFFICES ASSUME NEW i \in Jobs, Running(i)', job'[i].kind \notin overlapped
             PROVE  /\ \A k \in Jobs : Running(k)' /\ job'[k].kind = job'[i].kind => k = i
                    /\ \A n \in notes : n.kind = job'[i].kind /\ n.job # i =>
                          /\ n.day <= job'[i].day
                          /\ job'[i].pc = "emit" => ~ (n.id = job'[i].at.id /\ n.day = job'[i].day)
  BY DEF Turns
<1>3. Running(i) /\ job[i].kind \notin overlapped
  BY <1>2
<1>4. CASE i = j
  BY <1>1, <1>2, <1>3, <1>4 DEF Turns
<1>5. CASE i # j
  BY <1>1, <1>2, <1>3, <1>5 DEF Turns
<1> QED
  BY <1>4, <1>5

LEMMA SettledStays ==
    ASSUME UNCHANGED accountVars, notes \subseteq notes', reflected \subseteq reflected',
           NEW c, NEW s, Settled(c, s)
    PROVE  Settled(c, s)'
<1>1. \A id : Live(id)' <=> Live(id)
  BY AccountsAsBefore
<1> QED
  BY <1>1 DEF Settled

LEMMA SettledStep ==
    ASSUME JobsOK, SettledSoFar, UNCHANGED accountVars,
           notes \subseteq notes', reflected \subseteq reflected',
           NEW j \in Jobs, NEW t \in JobRow, Put(j, t),
           t.pc # "dead" => \A c \in t.rows \ t.left :
               Settled(c, t)' \/ (t.pc \in {"reminded", "emit"} /\ c = t.at)
    PROVE  SettledSoFar'
<1>1. /\ job'[j] = t /\ \A i \in Jobs : i # j => job'[i] = job[i]
  BY JobPut
<1> SUFFICES ASSUME NEW i \in Jobs, NEW s, s = job'[i], s.pc # "dead", NEW c \in s.rows \ s.left
             PROVE  Settled(c, s)' \/ (s.pc \in {"reminded", "emit"} /\ c = s.at)
  BY DEF SettledSoFar
<1>2. CASE i = j
  BY <1>1, <1>2
<1>3. CASE i # j
  <2>1. Settled(c, s) \/ (s.pc \in {"reminded", "emit"} /\ c = s.at)
    BY <1>1, <1>3 DEF SettledSoFar
  <2> QED
    BY <2>1, SettledStays
<1> QED
  BY <1>2, <1>3

LEMMA DeathsStep ==
    ASSUME JobsOK, DeathsKnown, UNCHANGED accountVars, killed \subseteq killed',
           NEW j \in Jobs, NEW t \in JobRow, Put(j, t),
           t.pc = "dead" => j \in killed' \/ ~Live(t.at.id)
    PROVE  DeathsKnown'
<1>1. /\ job'[j] = t /\ \A i \in Jobs : i # j => job'[i] = job[i]
  BY JobPut
<1>2. \A id : Live(id)' <=> Live(id)
  BY AccountsAsBefore
<1> SUFFICES ASSUME NEW i \in Jobs, job'[i].pc = "dead"
             PROVE  i \in killed' \/ ~Live(job[i].at.id)'
  BY DEF DeathsKnown, DiedOf
<1>3. i \in killed' \/ ~Live(job'[i].at.id)
  BY <1>1 DEF DeathsKnown, DiedOf
<1>4. PICK id : id = job'[i].at.id
  OBVIOUS
<1> QED
  BY <1>2, <1>3, <1>4

LEMMA SettledCarries ==
    ASSUME UNCHANGED accountVars, notes \subseteq notes', reflected \subseteq reflected',
           NEW c, NEW s, NEW t, t.kind = s.kind, t.day = s.day, Settled(c, s)
    PROVE  Settled(c, t)'
<1>1. Settled(c, t)
  BY DEF Settled
<1> QED
  BY <1>1, SettledStays

\* A step of a running job that writes no row.
LEMMA QuietStep ==
    ASSUME ReminderInv, UNCHANGED <<accountVars, tables, day, overlapped>>,
           NEW j \in Jobs, NEW s \in JobRow, s = job[j], Running(j),
           NEW t \in JobRow, Put(j, t), JobOK(t), t.pc # "idle",
           t.kind = s.kind, t.day = s.day,
           killed \subseteq killed',
           t.pc = "dead" => j \in killed',
           t.pc = "emit" => \A n \in notes : ~ (n.id = t.at.id /\ n.kind = t.kind /\ n.day = t.day),
           t.pc # "dead" => \A c \in t.rows \ t.left :
               Settled(c, s) \/ Settled(c, t) \/ (t.pc \in {"reminded", "emit"} /\ c = t.at)
    PROVE  ReminderInv'
<1>1. RowsOK /\ JobsOK /\ Turns /\ OnceADay /\ SettledSoFar /\ DeathsKnown
  BY DEF ReminderInv
<1>2. /\ notes' = notes /\ smsLog' = smsLog /\ reflected' = reflected
      /\ UNCHANGED accountVars /\ day' = day /\ overlapped' = overlapped
  BY DEF tables
<1>3. RowsOK'
  BY <1>1, <1>2, RowsStep
<1>5. JobsOK'
  BY <1>1, <1>2, JobsStep
<1>6. Turns'
  BY <1>1, <1>2, TurnsStep
<1>7. OnceADay'
  BY <1>1, <1>2 DEF OnceADay
<1>8. SettledSoFar'
  <2>1. t.pc # "dead" => \A c \in t.rows \ t.left :
            Settled(c, t)' \/ (t.pc \in {"reminded", "emit"} /\ c = t.at)
    BY <1>2, SettledCarries
  <2> QED
    BY <1>1, <1>2, <2>1, SettledStep
<1>9. DeathsKnown'
  BY <1>1, <1>2, DeathsStep
<1> QED
  BY <1>3, <1>5, <1>6, <1>7, <1>8, <1>9 DEF ReminderInv

-----------------------------------------------------------------------------
(* The reminder jobs: their steps *)

LEMMA LookInv ==
    ASSUME ReminderInv, NEW j \in Jobs, Look(j)
    PROVE  ReminderInv'
<1>1. PICK s \in JobRow : s = job[j]
  BY JobParts DEF ReminderInv
<1>2. /\ UNCHANGED <<accountVars, tables, day, overlapped>> /\ killed' = killed
      /\ s.pc = "next" /\ JobOK(s) /\ Running(j)
  BY <1>1, JobParts DEF Look, ReminderInv, Running
<1>3. \A c \in s.rows \ s.left : Settled(c, s)
  BY <1>1, <1>2 DEF ReminderInv, SettledSoFar
<1>4. CASE s.left = {} /\ Go(j, "done")
  <2> DEFINE t == [s EXCEPT !.pc = "done"]
  <2>1. /\ t \in JobRow /\ t.pc = "done" /\ t.kind = s.kind /\ t.day = s.day
        /\ t.rows = s.rows /\ t.due = s.due /\ t.left = s.left
    BY JobOnward DEF JobStages
  <2>2. Put(j, t)
    BY <1>1, <1>4 DEF Go
  <2> HIDE DEF t
  <2>3. JobOK(t)
    BY <1>2, <1>4, <2>1 DEF JobOK, AtOne
  <2> QED
    BY <1>1, <1>2, <1>3, <2>1, <2>2, <2>3, QuietStep
<1> DEFINE Skip(c) == s.kind = "checkin" /\ (~c.reminder \/ <<c.id, s.day>> \in reflected)
<1>5. ASSUME NEW c \in s.left,
             Put(j, [s EXCEPT !.left = @ \ {c}, !.at = IF Skip(c) THEN None ELSE c,
                              !.pc = IF Skip(c) THEN "next" ELSE "reminded"])
      PROVE  ReminderInv'
  <2>1. PICK at \in Recipient \cup {None} : at = IF Skip(c) THEN None ELSE c
    BY RowParts
  <2>2. PICK pc \in JobStages : pc = IF Skip(c) THEN "next" ELSE "reminded"
    BY DEF JobStages
  <2>9. PICK t : t = Taken(s, c, at, pc)
    OBVIOUS
  <2>3. /\ t \in JobRow /\ t.pc = pc /\ t.kind = s.kind /\ t.day = s.day
        /\ t.rows = s.rows /\ t.due = s.due /\ t.left = s.left \ {c} /\ t.at = at
    BY <2>9 DEF Taken, JobRow
  <2>4. Put(j, t)
    <3>1. Put(j, Taken(s, c, at, pc))
      BY <1>5, <2>1, <2>2 DEF Taken
    <3> QED
      BY <2>9, <3>1
  <2>5. JobOK(t)
    <3>1. s.left \subseteq s.rows /\ s.due \subseteq s.rows /\ s.day <= day /\ s.kind \in Kinds
      BY <1>2 DEF JobOK
    <3>2. t.left \subseteq t.rows /\ t.due \subseteq t.rows
      BY <2>3, <3>1
    <3>3. t.pc = "reminded" => t.at \in t.rows
      BY <1>5, <2>1, <2>2, <2>3, <3>1
    <3>4. t.pc \in {"next", "reminded"}
      BY <2>2, <2>3
    <3> QED
      BY <2>3, <3>1, <3>2, <3>3, <3>4 DEF JobOK, AtOne
  <2>6. Settled(c, s) \/ (t.pc \in {"reminded", "emit"} /\ c = t.at)
    BY <1>5, <2>1, <2>2, <2>3 DEF Settled, Wants
  <2>7. \A d \in t.rows \ t.left : Settled(d, s) \/ (t.pc \in {"reminded", "emit"} /\ d = t.at)
    BY <1>3, <2>3, <2>6
  <2>8. t.pc # "idle" /\ t.pc # "dead" /\ t.pc # "emit"
    BY <2>2, <2>3
  <2> QED
    BY <1>1, <1>2, <2>3, <2>4, <2>5, <2>7, <2>8, QuietStep
<1> QED
  <2>1. \/ s.left = {} /\ Go(j, "done")
        \/ \E c \in s.left :
              Put(j, [s EXCEPT !.left = @ \ {c}, !.at = IF Skip(c) THEN None ELSE c,
                               !.pc = IF Skip(c) THEN "next" ELSE "reminded"])
    BY <1>1, Zenon DEF Look
  <2> QED
    BY <1>4, <1>5, <2>1

LEMMA DecideInv ==
    ASSUME ReminderInv, NEW j \in Jobs, Decide(j)
    PROVE  ReminderInv'
<1>1. PICK s \in JobRow : s = job[j]
  BY JobParts DEF ReminderInv
<1>2. /\ UNCHANGED <<accountVars, tables, day, overlapped>> /\ killed' = killed
      /\ s.pc = "reminded" /\ JobOK(s) /\ Running(j)
  BY <1>1, JobParts DEF Decide, ReminderInv, Running
<1>3. \A c \in s.rows \ s.left : Settled(c, s) \/ c = s.at
  BY <1>1, <1>2 DEF ReminderInv, SettledSoFar
<1>4. PICK pc \in {"emit", "next"} :
          /\ Go(j, pc)
          /\ pc = "emit" => ~Reminded(s)
          /\ pc = "next" => Reminded(s) \/ ~ (s.kind = "evening" => s.at.sms)
  BY <1>1 DEF Decide
<1> DEFINE t == [s EXCEPT !.pc = pc]
<1>5. /\ t \in JobRow /\ t.pc = pc /\ t.kind = s.kind /\ t.day = s.day
      /\ t.rows = s.rows /\ t.due = s.due /\ t.left = s.left /\ t.at = s.at
  <2>1. pc \in JobStages
    BY <1>4 DEF JobStages
  <2> QED
    BY <2>1, JobOnward
<1>6. Put(j, t)
  BY <1>1, <1>4 DEF Go
<1> HIDE DEF t
<1>7. JobOK(t)
  BY <1>2, <1>4, <1>5 DEF JobOK, AtOne
<1>8. pc = "next" => Settled(s.at, s)
  <2>1. Reminded(s) => Settled(s.at, s)
    <3>1. \A n \in notes : n.day = s.day => n.day >= s.day
      BY <1>1, RowParts
    <3> QED
      BY <3>1 DEF Reminded, Settled
  <2>2. ~ (s.kind = "evening" => s.at.sms) => Settled(s.at, s)
    BY DEF Settled, Wants
  <2> QED
    BY <1>4, <2>1, <2>2
<1>9. t.pc = "emit" => \A n \in notes : ~ (n.id = t.at.id /\ n.kind = t.kind /\ n.day = t.day)
  BY <1>4, <1>5 DEF Reminded
<1>10. \A c \in t.rows \ t.left : Settled(c, s) \/ (t.pc \in {"reminded", "emit"} /\ c = t.at)
  BY <1>3, <1>4, <1>5, <1>8
<1> QED
  BY <1>1, <1>2, <1>4, <1>5, <1>6, <1>7, <1>9, <1>10, QuietStep

LEMMA KillInv ==
    ASSUME ReminderInv, NEW j \in Jobs, Kill(j)
    PROVE  ReminderInv'
<1>1. PICK s \in JobRow : s = job[j]
  BY JobParts DEF ReminderInv
<1>2. /\ UNCHANGED <<accountVars, tables, day, overlapped>>
      /\ killed \subseteq killed' /\ j \in killed'
      /\ JobOK(s) /\ Running(j) /\ Go(j, "dead")
  BY <1>1, JobParts DEF Kill, ReminderInv
<1> DEFINE t == [s EXCEPT !.pc = "dead"]
<1>3. /\ t \in JobRow /\ t.pc = "dead" /\ t.kind = s.kind /\ t.day = s.day
      /\ t.rows = s.rows /\ t.due = s.due /\ t.left = s.left /\ t.at = s.at
  BY JobOnward DEF JobStages
<1>4. Put(j, t)
  BY <1>1, <1>2 DEF Go
<1> HIDE DEF t
<1>5. JobOK(t)
  BY <1>1, <1>2, <1>3 DEF JobOK, AtOne, Running
<1> QED
  BY <1>1, <1>2, <1>3, <1>4, <1>5, QuietStep

LEMMA LogSmsInv ==
    ASSUME ReminderInv, NEW j \in Jobs, LogSms(j)
    PROVE  ReminderInv'
<1>1. PICK s \in JobRow : s = job[j]
  BY JobParts DEF ReminderInv
<1>2. /\ UNCHANGED accountVars /\ reflected' = reflected /\ notes' = notes /\ day' = day
      /\ overlapped' = overlapped /\ killed' = killed
      /\ s.pc = "log" /\ JobOK(s) /\ Running(j)
  BY <1>1, JobParts DEF LogSms, ReminderInv, Running
<1>3. RowsOK /\ JobsOK /\ Turns /\ OnceADay /\ SettledSoFar /\ DeathsKnown
  BY DEF ReminderInv
<1>4. \A c \in s.rows \ s.left : Settled(c, s)
  BY <1>1, <1>2, <1>3 DEF SettledSoFar
<1> DEFINE m == [id |-> s.at.id, kind |-> s.kind, job |-> j]
<1>5. PICK pc \in {"next", "dead"} :
          /\ Go(j, pc)
          /\ pc = "next" => Live(s.at.id) /\ smsLog' = smsLog \cup {m}
          /\ pc = "dead" => ~Live(s.at.id) /\ smsLog' = smsLog
  BY <1>1 DEF LogSms
<1> DEFINE t == [s EXCEPT !.pc = pc]
<1>6. /\ t \in JobRow /\ t.pc = pc /\ t.kind = s.kind /\ t.day = s.day
      /\ t.rows = s.rows /\ t.due = s.due /\ t.left = s.left /\ t.at = s.at
  <2>1. pc \in JobStages
    BY <1>5 DEF JobStages
  <2> QED
    BY <2>1, JobOnward
<1>7. Put(j, t)
  BY <1>1, <1>5 DEF Go
<1> HIDE DEF t
<1>8. JobOK(t)
  BY <1>2, <1>5, <1>6 DEF JobOK, AtOne
<1>9. RowsOK'
  <2>1. /\ \A id : Live(id)' <=> Live(id)
        /\ Note' = Note
    BY <1>2, AccountsAsBefore DEF Note, Known
  <2>2. \A n \in smsLog' : n \in smsLog \/ (n.id = s.at.id /\ Live(s.at.id))
    BY <1>5
  <2>3. \A n \in smsLog' : Live(n.id)
    BY <1>3, <2>2 DEF RowsOK
  <2>4. \A n \in smsLog' : Live(n.id)'
    BY <2>1, <2>3
  <2> QED
    BY <1>2, <1>3, <2>1, <2>4 DEF RowsOK
<1>10. JobsOK'
  <2>1. s.at \in s.rows
    BY <1>2 DEF JobOK, AtOne
  <2> QED
    BY <1>1, <1>2, <1>3, <1>5, <1>6, <1>7, <1>8, <2>1, JobsStep
<1>11. Turns' /\ OnceADay'
  BY <1>1, <1>2, <1>3, <1>5, <1>6, <1>7, TurnsStep DEF OnceADay
<1>12. SettledSoFar'
  <2>1. \A c \in t.rows \ t.left : Settled(c, t)'
    BY <1>2, <1>4, <1>6, SettledCarries
  <2> QED
    BY <1>2, <1>3, <1>6, <1>7, <2>1, SettledStep
<1>13. DeathsKnown'
  BY <1>2, <1>3, <1>5, <1>6, <1>7, DeathsStep
<1> QED
  BY <1>9, <1>10, <1>11, <1>12, <1>13 DEF ReminderInv

\* The note of a job that runs alone is the first of its day, for the others' are
\* of the job's day at most and the job has looked for those of its day.
LEMMA EmitInv ==
    ASSUME ReminderInv, NEW j \in Jobs, Emit(j)
    PROVE  ReminderInv'
<1>1. PICK s \in JobRow : s = job[j]
  BY JobParts DEF ReminderInv
<1>2. /\ UNCHANGED accountVars /\ reflected' = reflected /\ smsLog' = smsLog /\ day' = day
      /\ overlapped' = overlapped /\ killed' = killed
      /\ s.pc = "emit" /\ JobOK(s) /\ Running(j)
  BY <1>1, JobParts DEF Emit, ReminderInv, Running
<1>3. RowsOK /\ JobsOK /\ Turns /\ OnceADay /\ SettledSoFar /\ DeathsKnown
  BY DEF ReminderInv
<1>4. \A c \in s.rows \ s.left : Settled(c, s) \/ c = s.at
  BY <1>1, <1>2, <1>3 DEF SettledSoFar
<1>5. PICK n : n = [id |-> s.at.id, kind |-> s.kind, day |-> day, job |-> j]
  OBVIOUS
<1>6. PICK pc \in {"next", "log", "dead"} :
          /\ Go(j, pc)
          /\ pc # "dead" => Live(s.at.id) /\ notes' = notes \cup {n}
          /\ pc = "dead" => ~Live(s.at.id) /\ notes' = notes
  BY <1>1, <1>5 DEF Emit
<1> DEFINE t == [s EXCEPT !.pc = pc]
<1>7. /\ t \in JobRow /\ t.pc = pc /\ t.kind = s.kind /\ t.day = s.day
      /\ t.rows = s.rows /\ t.due = s.due /\ t.left = s.left /\ t.at = s.at
  <2>1. pc \in JobStages
    BY <1>6 DEF JobStages
  <2> QED
    BY <2>1, JobOnward
<1>8. Put(j, t)
  BY <1>1, <1>6 DEF Go
<1> HIDE DEF t
<1>9. JobOK(t)
  BY <1>2, <1>6, <1>7 DEF JobOK, AtOne
<1>10. /\ s.at \in s.rows /\ s.at.id \in Known /\ s.kind \in Kinds
       /\ day \in 0 .. LastDay /\ s.day <= day /\ s.day \in 0 .. LastDay
  BY <1>2, <1>3, RowParts DEF JobOK, AtOne, RowsOK
<1>11. n \in Note /\ n.id = s.at.id /\ n.kind = s.kind /\ n.day = day /\ n.job = j
  BY <1>5, <1>10 DEF Note
<1>12. RowsOK'
  <2>1. /\ \A id : Live(id)' <=> Live(id)
        /\ Note' = Note
    BY <1>2, AccountsAsBefore DEF Note, Known
  <2>2. \A m \in notes' : m \in notes \/ (m = n /\ Live(n.id))
    BY <1>6, <1>11
  <2>3. \A m \in notes' : m \in Note /\ m.day <= day /\ Live(m.id)
    BY <1>3, <1>10, <1>11, <2>2 DEF RowsOK
  <2>4. \A m \in notes' : m \in Note' /\ m.day <= day' /\ Live(m.id)'
    BY <1>2, <2>1, <2>3
  <2>5. day' \in 0 .. LastDay
    BY <1>2, <1>10
  <2>6. (\A m \in smsLog' : Live(m.id)') /\ (\A x \in reflected' : Live(x[1])')
    BY <1>2, <1>3, <2>1 DEF RowsOK
  <2> QED
    BY <2>4, <2>5, <2>6 DEF RowsOK
<1>13. JobsOK'
  BY <1>1, <1>2, <1>3, <1>6, <1>7, <1>8, <1>9, <1>10, JobsStep
<1>14. /\ job'[j] = t /\ \A i \in Jobs : i # j => job'[i] = job[i]
  BY <1>3, <1>7, <1>8, JobPut
<1>15. \A i \in Jobs : Running(i)' => Running(i) /\ job'[i].kind = job[i].kind /\ job'[i].day = job[i].day
  BY <1>1, <1>2, <1>7, <1>14 DEF Running
<1>16. Turns'
  <2> SUFFICES ASSUME NEW i \in Jobs, Running(i)', job'[i].kind \notin overlapped
               PROVE  /\ \A k \in Jobs : Running(k)' /\ job'[k].kind = job'[i].kind => k = i
                      /\ \A m \in notes' : m.kind = job'[i].kind /\ m.job # i =>
                            /\ m.day <= job'[i].day
                            /\ job'[i].pc = "emit" => ~ (m.id = job'[i].at.id /\ m.day = job'[i].day)
    BY <1>2 DEF Turns
  <2>1. /\ Running(i) /\ job[i].kind \notin overlapped
        /\ job'[i].kind = job[i].kind /\ job'[i].day = job[i].day
    BY <1>15
  <2>2. /\ \A k \in Jobs : Running(k) /\ job[k].kind = job[i].kind => k = i
        /\ \A m \in notes : m.kind = job[i].kind /\ m.job # i =>
              /\ m.day <= job[i].day
              /\ job[i].pc = "emit" => ~ (m.id = job[i].at.id /\ m.day = job[i].day)
    BY <1>3, <2>1 DEF Turns
  <2>3. n.kind = job[i].kind => i = j
    BY <1>1, <1>2, <1>11, <2>2
  <2>4. \A m \in notes' : m.kind = job[i].kind /\ m.job # i => m \in notes
    BY <1>6, <1>11, <2>3
  <2>5. job'[i].pc = "emit" => job'[i] = job[i]
    BY <1>6, <1>7, <1>14
  <2> QED
    BY <1>15, <2>1, <2>2, <2>4, <2>5
<1>17. OnceADay'
  <2>1. ASSUME NEW m \in notes, m.id = n.id, m.kind = n.kind, m.day = n.day, m.kind \notin overlapped
        PROVE  m = n
    <3>1. m.job # j => m.day <= s.day /\ ~ (m.id = s.at.id /\ m.day = s.day)
      BY <1>1, <1>2, <1>3, <1>11, <2>1 DEF Turns
    <3>2. m.job = j
      BY <1>10, <1>11, <2>1, <3>1
    <3>3. m = [id |-> m.id, kind |-> m.kind, day |-> m.day, job |-> m.job]
      BY <1>3 DEF RowsOK, Note
    <3> QED
      BY <1>5, <1>11, <2>1, <3>2, <3>3
  <2>2. \A m \in notes' : m \in notes \/ m = n
    BY <1>6
  <2> QED
    BY <1>2, <1>3, <2>1, <2>2 DEF OnceADay
<1>18. SettledSoFar'
  <2>1. notes \subseteq notes' /\ reflected \subseteq reflected'
    BY <1>2, <1>6
  <2>2. t.pc # "dead" => Settled(s.at, t)'
    <3>1. t.pc # "dead" => n \in notes' /\ n.id = s.at.id /\ n.kind = t.kind /\ n.day >= t.day
      BY <1>6, <1>7, <1>10, <1>11
    <3> QED
      BY <3>1 DEF Settled
  <2>3. t.pc # "dead" => \A c \in t.rows \ t.left : Settled(c, t)'
    BY <1>2, <1>4, <1>7, <2>1, <2>2, SettledCarries
  <2> QED
    BY <1>2, <1>3, <1>7, <1>8, <2>1, <2>3, SettledStep
<1>19. DeathsKnown'
  BY <1>2, <1>3, <1>6, <1>7, <1>8, DeathsStep
<1> QED
  BY <1>12, <1>13, <1>16, <1>17, <1>18, <1>19 DEF ReminderInv

LEMMA StartInv ==
    ASSUME AccountInv, ReminderInv, NEW j \in Jobs, NEW k \in Kinds, Start(j, k)
    PROVE  ReminderInv'
<1>1. /\ UNCHANGED accountVars /\ UNCHANGED <<notes, smsLog, reflected>> /\ day' = day
      /\ killed' = killed /\ job[j] = NoJob
      /\ overlapped' = IF \E i \in Jobs : Running(i) /\ job[i].kind = k
                       THEN overlapped \cup {k} ELSE overlapped
  BY DEF Start, tables
<1>2. RowsOK /\ JobsOK /\ Turns /\ OnceADay /\ SettledSoFar /\ DeathsKnown
  BY DEF ReminderInv
<1>3. PICK R \in SUBSET Recipient : R = Recipients(k)
  BY RecipientsKnown
<1>4. day \in 0 .. LastDay
  BY <1>2 DEF RowsOK
<1>16. PICK D \in SUBSET R : Put(j, Started(k, day, D, R))
  <2>1. PICK D \in DueSets(k) : Put(j, Started(k, day, D, R))
    BY <1>3 DEF Start, Started
  <2> QED
    BY <1>3, <2>1 DEF DueSets
<1> DEFINE t == Started(k, day, D, R)
<1>5. /\ t \in JobRow /\ t.pc = "next" /\ t.kind = k /\ t.day = day
      /\ t.rows = R /\ t.due = D /\ t.left = R
  <2>1. D \in SUBSET Recipient
    OBVIOUS
  <2> QED
    BY <1>4, <2>1, JobStarts
<1>6. Put(j, t)
  BY <1>16
<1> HIDE DEF t
<1>7. JobOK(t)
  BY <1>4, <1>5 DEF JobOK, AtOne
<1>8. job[j].pc = "idle"
  BY <1>1, NoJobRow
<1>9. RowsOK'
  BY <1>1, <1>2, RowsStep
<1>10. JobsOK'
  BY <1>1, <1>2, <1>5, <1>6, <1>7, <1>8, JobsStep
<1>11. /\ job'[j] = t /\ \A i \in Jobs : i # j => job'[i] = job[i]
  BY <1>2, <1>5, <1>6, JobPut
<1>12. Turns'
  <2> SUFFICES ASSUME NEW i \in Jobs, Running(i)', job'[i].kind \notin overlapped'
               PROVE  /\ \A l \in Jobs : Running(l)' /\ job'[l].kind = job'[i].kind => l = i
                      /\ \A m \in notes : m.kind = job'[i].kind /\ m.job # i =>
                            /\ m.day <= job'[i].day
                            /\ job'[i].pc = "emit" => ~ (m.id = job'[i].at.id /\ m.day = job'[i].day)
    BY <1>1 DEF Turns
  <2>1. \A l \in Jobs : l # j /\ Running(l)' => Running(l) /\ job'[l].kind = job[l].kind
    BY <1>11 DEF Running
  <2>2. CASE i = j
    <3>1. \A l \in Jobs : Running(l) => job[l].kind # k
      BY <1>1, <1>5, <1>11, <2>2
    <3>2. \A m \in notes : m.day <= day
      BY <1>2 DEF RowsOK
    <3> QED
      BY <1>5, <1>11, <2>1, <2>2, <3>1, <3>2
  <2>3. CASE i # j
    <3>1. Running(i) /\ job'[i] = job[i] /\ job[i].kind \notin overlapped
      BY <1>1, <1>11, <2>1, <2>3
    <3>2. job[i].kind # k
      BY <1>1, <3>1
    <3> QED
      BY <1>2, <1>5, <1>11, <2>1, <2>3, <3>1, <3>2 DEF Turns
  <2> QED
    BY <2>2, <2>3
<1>13. OnceADay'
  BY <1>1, <1>2 DEF OnceADay
<1>14. SettledSoFar'
  <2>1. t.rows \ t.left = {}
    BY <1>5
  <2> QED
    BY <1>1, <1>2, <1>5, <1>6, <2>1, SettledStep
<1>15. DeathsKnown'
  BY <1>1, <1>2, <1>5, <1>6, DeathsStep
<1> QED
  BY <1>9, <1>10, <1>12, <1>13, <1>14, <1>15 DEF ReminderInv

LEMMA ReflectInv ==
    ASSUME AccountInv, ReminderInv, NEW e \in Movers, NEW d \in 0 .. LastDay, Reflect(e, d)
    PROVE  ReminderInv'
<1>1. /\ UNCHANGED <<accountVars, notes, smsLog, day, job, overlapped, killed>>
      /\ reflected' = reflected \cup {<<users[e].id, d>>} /\ users[e] # None /\ e \in People
  BY Kinds4 DEF Reflect
<1>2. /\ \A id : Live(id)' <=> Live(id)
      /\ inserted' = inserted
  BY <1>1, AccountsAsBefore
<1>3. Known' = Known /\ Recipient' = Recipient /\ JobRow' = JobRow /\ Note' = Note
  BY <1>2 DEF Known, Recipient, JobRow, Note
<1>4. RowsOK'
  <2>1. \A x \in reflected' : x \in reflected \/ x[1] = users[e].id
    BY <1>1
  <2>2. Live(users[e].id)
    BY <1>1 DEF Live, HasRow
  <2>3. \A x \in reflected' : Live(x[1])'
    BY <1>2, <2>1, <2>2 DEF ReminderInv, RowsOK
  <2> QED
    BY <1>1, <1>2, <1>3, <2>3 DEF ReminderInv, RowsOK
<1>5. JobsOK'
  <2>1. \A s : JobOK(s)' <=> JobOK(s)
    BY <1>1, <1>3 DEF JobOK
  <2> QED
    BY <1>1, <1>3, <2>1 DEF ReminderInv, JobsOK
<1>6. Turns' /\ OnceADay'
  BY <1>1 DEF ReminderInv, Turns, OnceADay, Running
<1>7. SettledSoFar'
  <2>1. \A c, s : Settled(c, s) => Settled(c, s)'
    BY <1>1, SettledStays
  <2> SUFFICES ASSUME NEW j \in Jobs, NEW s, s = job[j], s.pc # "dead", NEW c \in s.rows \ s.left
               PROVE  Settled(c, s)' \/ (s.pc \in {"reminded", "emit"} /\ c = s.at)
    BY <1>1 DEF SettledSoFar
  <2> QED
    BY <2>1 DEF ReminderInv, SettledSoFar
<1>8. DeathsKnown'
  BY <1>1, <1>2 DEF ReminderInv, DeathsKnown, DiedOf
<1> QED
  BY <1>4, <1>5, <1>6, <1>7, <1>8 DEF ReminderInv

LEMMA NextDayInv ==
    ASSUME ReminderInv, NextDay
    PROVE  ReminderInv' /\ day <= day'
<1>1. /\ UNCHANGED <<accountVars, tables, job, overlapped, killed>>
      /\ day < LastDay /\ day' = day + 1 /\ day \in 0 .. LastDay
      /\ UNCHANGED <<reflected, notes, smsLog>>
  BY DEF NextDay, ReminderInv, RowsOK, tables
<1>2. /\ \A id : Live(id)' <=> Live(id)
      /\ inserted' = inserted
  BY <1>1, AccountsAsBefore
<1>3. Known' = Known /\ Recipient' = Recipient /\ JobRow' = JobRow /\ Note' = Note
  BY <1>2 DEF Known, Recipient, JobRow, Note
<1>4. day' \in 0 .. LastDay /\ day <= day'
  BY <1>1, RemindersAssumption
<1>5. RowsOK'
  <2>1. \A n \in notes : n.day <= day'
    BY <1>1, <1>4 DEF ReminderInv, RowsOK, Note
  <2> QED
    BY <1>1, <1>2, <1>3, <1>4, <2>1 DEF ReminderInv, RowsOK
<1>6. JobsOK'
  <2>1. \A s : JobOK(s) => JobOK(s)'
    <3> SUFFICES ASSUME NEW s, JobOK(s) PROVE JobOK(s)'
      OBVIOUS
    <3>1. s \in JobRow /\ s.day <= day
      BY DEF JobOK
    <3>2. s.day <= day'
      BY <1>1, <3>1, RowParts
    <3> QED
      BY <1>3, <3>2 DEF JobOK
  <2> QED
    BY <1>1, <1>3, <2>1 DEF ReminderInv, JobsOK
<1>7. Turns' /\ OnceADay'
  BY <1>1 DEF ReminderInv, Turns, OnceADay, Running
<1>8. SettledSoFar'
  <2>1. \A c, s : Settled(c, s) => Settled(c, s)'
    BY <1>1, SettledStays
  <2> SUFFICES ASSUME NEW j \in Jobs, NEW s, s = job[j], s.pc # "dead", NEW c \in s.rows \ s.left
               PROVE  Settled(c, s)' \/ (s.pc \in {"reminded", "emit"} /\ c = s.at)
    BY <1>1 DEF SettledSoFar
  <2> QED
    BY <2>1 DEF ReminderInv, SettledSoFar
<1>9. DeathsKnown'
  BY <1>1, <1>2 DEF ReminderInv, DeathsKnown, DiedOf
<1> QED
  BY <1>4, <1>5, <1>6, <1>7, <1>8, <1>9 DEF ReminderInv

\* A step in which the accounts and the jobs rest.
LEMMA RemindersStay ==
    ASSUME AccountInv, AnnouncedTruly, ReminderInv, UNCHANGED reminderVars
    PROVE  /\ AccountInv' /\ AnnouncedTruly' /\ ReminderInv'
           /\ day' = day /\ prefs' = prefs /\ users' = users /\ \A id : Live(id)' <=> Live(id)
<1>1. /\ UNCHANGED accountVars /\ UNCHANGED <<day, job, overlapped, killed>>
      /\ UNCHANGED <<reflected, notes, smsLog>>
  BY DEF reminderVars, tables
<1>2. /\ \A id : Live(id)' <=> Live(id)
      /\ inserted' = inserted /\ users' = users
  BY <1>1, AccountsAsBefore
<1>3. Known' = Known /\ Recipient' = Recipient /\ JobRow' = JobRow /\ Note' = Note
  BY <1>2 DEF Known, Recipient, JobRow, Note
<1>4. RowsOK'
  BY <1>1, <1>2, <1>3 DEF ReminderInv, RowsOK
<1>5. JobsOK'
  <2>1. \A s : JobOK(s)' <=> JobOK(s)
    BY <1>1, <1>3 DEF JobOK
  <2> QED
    BY <1>1, <1>3, <2>1 DEF ReminderInv, JobsOK
<1>6. Turns' /\ OnceADay'
  BY <1>1 DEF ReminderInv, Turns, OnceADay, Running
<1>7. SettledSoFar'
  <2>1. \A c, s : Settled(c, s) => Settled(c, s)'
    BY <1>1, SettledStays
  <2> SUFFICES ASSUME NEW j \in Jobs, NEW s, s = job[j], s.pc # "dead", NEW c \in s.rows \ s.left
               PROVE  Settled(c, s)' \/ (s.pc \in {"reminded", "emit"} /\ c = s.at)
    BY <1>1 DEF SettledSoFar
  <2> QED
    BY <2>1 DEF ReminderInv, SettledSoFar
<1>8. DeathsKnown'
  BY <1>1, <1>2 DEF ReminderInv, DeathsKnown, DiedOf
<1>9. ReminderInv' /\ prefs' = prefs
  BY <1>1, <1>4, <1>5, <1>6, <1>7, <1>8 DEF ReminderInv, accountVars, stores
<1> QED
  BY <1>1, <1>2, <1>9, AccountsStay

LEMMA ReminderStep ==
    ASSUME AccountInv, AnnouncedTruly, ReminderInv, ReminderNext
    PROVE  /\ AccountInv' /\ AnnouncedTruly' /\ ReminderInv'
           /\ day <= day'
<1>1. day \in Nat
  BY DEF ReminderInv, RowsOK
<1>2. CASE AccountMoves /\ Cascade /\ UNCHANGED <<day, job, overlapped, killed>>
  BY <1>1, <1>2, AccountStepInv, AnnouncedStep, AccountStepReminders
<1>3. CASE \E j \in Jobs, k \in Kinds : Start(j, k)
  <2>1. ReminderInv' /\ UNCHANGED accountVars /\ day' = day
    BY <1>3, StartInv DEF Start
  <2> QED
    BY <1>1, <2>1, AccountsStay
<1>4. CASE \E j \in Jobs : JobStep(j)
  <2>1. ReminderInv'
    BY <1>4, LookInv, DecideInv, EmitInv, LogSmsInv, KillInv DEF JobStep
  <2>2. UNCHANGED accountVars /\ day' = day
    BY <1>4 DEF JobStep, Look, Decide, Emit, LogSms, Kill
  <2> QED
    BY <1>1, <2>1, <2>2, AccountsStay
<1>5. CASE \E e \in Movers, d \in 0 .. LastDay : Reflect(e, d)
  <2>1. ReminderInv' /\ UNCHANGED accountVars /\ day' = day
    BY <1>5, ReflectInv DEF Reflect
  <2> QED
    BY <1>1, <2>1, AccountsStay
<1>6. CASE NextDay
  BY <1>6, NextDayInv, AccountsStay DEF NextDay
<1> QED
  BY <1>2, <1>3, <1>4, <1>5, <1>6 DEF ReminderNext, AccountMoves

-----------------------------------------------------------------------------
(* Photos *)

PhotoInv == PhotoTables /\ FilesTied

LEMMA PhotoKinds ==
    /\ None \notin PhotoRow /\ 7 \in Lives /\ Lives \subseteq Nat
BY AttachmentsAssumption

LEMMA PhotoParts ==
    ASSUME PhotoTables, NEW f \in Photos, photo[f] # None
    PROVE  photo[f] \in PhotoRow
BY DEF PhotoTables

LEMMA PhotoFields ==
    ASSUME NEW p \in PhotoRow
    PROVE  p.id \in Ids /\ p.day \in 0 .. LastDay /\ p.day \in Nat
BY DEF PhotoRow

\* The accounts and the jobs take a step, and the rows of photos go with accounts.
LEMMA SweepInv ==
    ASSUME PhotoInv, SweepPhotos, day \in Nat, day' \in Nat, day <= day'
    PROVE  PhotoInv'
<1>1. /\ UNCHANGED <<photo, files, expiry, cleanup, atStart, broken, stuck>>
      /\ posts' = {f \in posts : Live(photo[f].id)'}
      /\ rows' = {f \in rows : Live(photo[f].id)'}
  BY DEF SweepPhotos, histories
<1>2. \A f \in Photos : photo[f] # None => photo[f].day \in Nat
  BY PhotoParts, PhotoFields DEF PhotoInv
<1>3. rows' \subseteq posts'
  BY <1>1 DEF PhotoInv, PhotoTables
<1>4. \A f \in posts' : f \in Photos /\ photo'[f] # None /\ Live(photo[f].id)'
  BY <1>1 DEF PhotoInv, PhotoTables
<1>5. \A f \in Photos : photo[f] # None => photo[f].day <= day'
  BY <1>2 DEF PhotoInv, PhotoTables
<1>6. \A c : Candidate(c)' <=> Candidate(c)
  BY <1>1 DEF Candidate
<1>7. PhotoTables'
  BY <1>1, <1>3, <1>4, <1>5, <1>6 DEF PhotoInv, PhotoTables
<1>8. FilesTied'
  BY <1>1 DEF PhotoInv, FilesTied
<1> QED
  BY <1>7, <1>8 DEF PhotoInv

\* The accounts and the clock rest while the photos take a step.
Resting == day' = day /\ day \in 0 .. LastDay /\ \A id : Live(id)' <=> Live(id)

LEMMA UploadInv ==
    ASSUME AccountInv, PhotoInv, Resting, NEW f \in Photos, NEW e \in Movers, Upload(f, e)
    PROVE  PhotoInv'
<1>1. e \in People /\ users[e] # None /\ photo[f] = None
  BY Kinds4 DEF Upload
<1>2. PICK id \in Ids : id = users[e].id
  BY <1>1 DEF AccountInv, AccountTables, UserRow
<1>3. Live(id)
  BY <1>1, <1>2 DEF Live, HasRow
<1>4. PICK p \in PhotoRow : p = [id |-> id, day |-> day, pc |-> "saving"]
  BY DEF PhotoRow, Resting
<1>5. p # None /\ p.id = id /\ p.day = day /\ p.pc = "saving"
  BY <1>4, PhotoKinds
<1>6. /\ photo' = [photo EXCEPT ![f] = p]
      /\ posts' = posts \cup {f} /\ files' = files \cup {f}
      /\ UNCHANGED <<rows, expiry, cleanup, atStart, broken, stuck>>
  BY <1>2, <1>4 DEF Upload, histories
<1>7. /\ photo' \in [Photos -> {None} \cup PhotoRow] /\ photo'[f] = p
      /\ \A g \in Photos : g # f => photo'[g] = photo[g]
  BY <1>6 DEF PhotoInv, PhotoTables
<1>8. f \notin posts /\ f \notin rows /\ f \notin files /\ f \notin cleanup.gone
  BY <1>1 DEF PhotoInv, PhotoTables
<1>9. \A c : Candidate(c) => Candidate(c)'
  BY <1>1, <1>6, <1>7 DEF Candidate
<1>10. \A g \in posts' : g \in Photos /\ photo'[g] # None /\ Live(photo'[g].id)
  BY <1>3, <1>5, <1>6, <1>7 DEF PhotoInv, PhotoTables
<1>11. \A g \in posts' : g \in Photos /\ photo'[g] # None /\ Live(photo[g].id)'
  BY <1>10 DEF Resting
<1>12. \A g \in Photos : photo'[g] # None => photo'[g].day <= day'
  <2>1. day <= day /\ day' = day
    BY DEF Resting
  <2> QED
    BY <1>5, <1>7, <2>1 DEF PhotoInv, PhotoTables
<1>13. PhotoTables'
  BY <1>5, <1>6, <1>7, <1>8, <1>9, <1>11, <1>12 DEF PhotoInv, PhotoTables
<1>14. FilesTied'
  BY <1>5, <1>6, <1>7, <1>8 DEF PhotoInv, FilesTied
<1> QED
  BY <1>13, <1>14 DEF PhotoInv

\* The photo of an upload goes on.
LEMMA InsertPhotoInv ==
    ASSUME PhotoInv, Resting, NEW f \in Photos, InsertPhoto(f)
    PROVE  PhotoInv'
<1>1. PICK q \in PhotoRow : q = photo[f] /\ q # None
  BY PhotoParts DEF InsertPhoto, PhotoInv
<1>2. q.pc = "saving" /\ f \in files /\ f \notin rows
  BY <1>1 DEF InsertPhoto, PhotoInv, PhotoTables
<1>3. UNCHANGED <<posts, files, expiry, cleanup, atStart, broken, stuck>>
  BY DEF InsertPhoto, histories
<1>4. PICK p \in PhotoRow : /\ photo' = [photo EXCEPT ![f] = p] /\ p.id = q.id /\ p.day <= day
                            /\ \/ p.pc = "done" /\ f \in posts /\ rows' = rows \cup {f}
                               \/ p.pc = "failed" /\ rows' = rows
  <2>1. CASE f \in posts /\ rows' = rows \cup {f} /\ photo' = [photo EXCEPT ![f].day = day, ![f].pc = "done"]
    <3>1. PICK p : p = [q EXCEPT !.day = day, !.pc = "done"]
      OBVIOUS
    <3>2. p \in PhotoRow /\ p.id = q.id /\ p.day = day /\ p.pc = "done"
      BY <3>1 DEF PhotoRow, Resting
    <3>3. photo' = [photo EXCEPT ![f] = p]
      BY <1>1, <2>1, <3>1 DEF PhotoInv, PhotoTables
    <3>4. p.day <= day
      BY <3>2 DEF Resting
    <3> QED
      BY <2>1, <3>2, <3>3, <3>4
  <2>2. CASE rows' = rows /\ photo' = [photo EXCEPT ![f].pc = "failed"]
    <3>1. PICK p : p = [q EXCEPT !.pc = "failed"]
      OBVIOUS
    <3>2. p \in PhotoRow /\ p.id = q.id /\ p.day = q.day /\ p.pc = "failed"
      BY <3>1 DEF PhotoRow
    <3>3. photo' = [photo EXCEPT ![f] = p]
      BY <1>1, <2>2, <3>1
    <3>4. p.day <= day
      BY <1>1, <3>2 DEF PhotoInv, PhotoTables
    <3> QED
      BY <2>2, <3>2, <3>3, <3>4
  <2> QED
    BY <2>1, <2>2 DEF InsertPhoto
<1>5. /\ photo' \in [Photos -> {None} \cup PhotoRow] /\ photo'[f] = p
      /\ \A g \in Photos : g # f => photo'[g] = photo[g]
  BY <1>4 DEF PhotoInv, PhotoTables
<1>6. p # None /\ p.pc # "saving"
  BY <1>4, PhotoKinds
<1>7. f \in posts => Live(p.id)
  BY <1>1, <1>4 DEF PhotoInv, PhotoTables
<1>8. \A c : Candidate(c) => Candidate(c)'
  BY <1>1, <1>2, <1>3, <1>5 DEF Candidate
<1>9. \A g \in posts : g \in Photos /\ photo'[g] # None /\ Live(photo'[g].id)
  BY <1>5, <1>6, <1>7 DEF PhotoInv, PhotoTables
<1>10. \A g \in posts' : g \in Photos /\ photo'[g] # None /\ Live(photo[g].id)'
  BY <1>3, <1>9 DEF Resting
<1>11. \A g \in Photos : photo'[g] # None => photo'[g].day <= day'
  <2>1. day' = day
    BY DEF Resting
  <2> QED
    BY <1>4, <1>5, <2>1 DEF PhotoInv, PhotoTables
<1>12. PhotoTables'
  BY <1>1, <1>2, <1>3, <1>4, <1>5, <1>6, <1>8, <1>10, <1>11 DEF PhotoInv, PhotoTables
<1>13. FilesTied'
  BY <1>1, <1>2, <1>3, <1>4, <1>5, <1>6 DEF PhotoInv, FilesTied
<1> QED
  BY <1>12, <1>13 DEF PhotoInv

\* A step that changes no photo: it is enough to look at the tables it changes.
LEMMA CandidateStays ==
    ASSUME UNCHANGED <<photo, atStart>>, NEW c, Candidate(c)
    PROVE  Candidate(c)'
BY DEF Candidate

\* A step that changes no photo: it is enough to look at the tables it changes.
LEMMA PhotosRest ==
    ASSUME PhotoInv, Resting, photo' = photo, posts' \subseteq posts,
           \A c \in cleanup'.left : Candidate(c)',
           rows' \subseteq posts',
           \A f \in files' : f \in files,
           \A f \in Photos : photo[f] # None /\ photo[f].pc = "saving" => f \in files' /\ f \notin rows',
           cleanup'.gone \cap files' \subseteq stuck',
           \A f \in cleanup'.gone : f \in Photos /\ photo[f] # None,
           cleanup'.pc # "next" => cleanup'.gone = {},
           DOMAIN cleanup' = {"pc", "left", "gone"}
    PROVE  PhotoTables'
<1>1. \A f \in posts' : f \in Photos /\ photo[f] # None /\ Live(photo[f].id)
  BY DEF PhotoInv, PhotoTables
<1>2. \A f \in posts' : f \in Photos /\ photo[f] # None /\ Live(photo[f].id)'
  BY <1>1 DEF Resting
<1>3. \A f \in Photos : photo[f] # None => photo[f].day <= day'
  BY DEF PhotoInv, PhotoTables, Resting
<1> QED
  BY <1>2, <1>3 DEF PhotoInv, PhotoTables

LEMMA DeletePostInv ==
    ASSUME PhotoInv, Resting, NEW f \in Photos, DeletePost(f)
    PROVE  PhotoInv'
<1>1. /\ posts' = posts \ {f} /\ rows' = rows \ {f}
      /\ UNCHANGED <<photo, files, expiry, cleanup, atStart, broken, stuck>>
  BY DEF DeletePost, histories
<1>2. \A c \in cleanup'.left : Candidate(c)'
  BY <1>1, CandidateStays DEF PhotoInv, PhotoTables
<1>3. PhotoTables'
  BY <1>1, <1>2, PhotosRest DEF PhotoInv, PhotoTables
<1>4. FilesTied'
  BY <1>1 DEF PhotoInv, FilesTied
<1> QED
  BY <1>3, <1>4 DEF PhotoInv

LEMMA SetExpiryInv ==
    ASSUME PhotoInv, Resting, NEW id, NEW t \in Lives, SetExpiry(id, t)
    PROVE  PhotoInv'
<1>1. UNCHANGED <<photo, posts, files, rows, cleanup, atStart, broken, stuck>>
  BY DEF SetExpiry, uploads, histories
<1>2. \A c \in cleanup'.left : Candidate(c)'
  BY <1>1, CandidateStays DEF PhotoInv, PhotoTables
<1>3. PhotoTables'
  BY <1>1, <1>2, PhotosRest DEF PhotoInv, PhotoTables
<1>4. FilesTied'
  BY <1>1 DEF PhotoInv, FilesTied
<1> QED
  BY <1>3, <1>4 DEF PhotoInv

LEMMA StartCleanupInv ==
    ASSUME PhotoInv, Resting, StartCleanup
    PROVE  PhotoInv'
<1> DEFINE L == {[photo |-> f, life |-> expiry[photo[f].id]] :
                    f \in {x \in rows : prefs[photo[x].id] # None}}
<1>1. /\ cleanup.pc # "next" /\ cleanup' = [pc |-> "next", gone |-> {}, left |-> L]
      /\ UNCHANGED <<photo, posts, files, rows, expiry, broken, stuck>> /\ atStart' = expiry
  BY DEF StartCleanup, uploads
<1>2. ASSUME NEW c \in L
      PROVE  Candidate(c)'
  <2>1. PICK f \in rows : c = [photo |-> f, life |-> expiry[photo[f].id]]
    BY <1>2
  <2>2. f \in Photos /\ photo[f] # None /\ photo[f].pc # "saving"
    BY DEF PhotoInv, PhotoTables
  <2>3. c.photo = f /\ c.life = expiry[photo[f].id]
    BY <2>1
  <2> QED
    BY <1>1, <2>2, <2>3 DEF Candidate
<1> HIDE DEF L
<1>3. cleanup'.pc = "next" /\ cleanup'.gone = {} /\ cleanup'.left = L /\ DOMAIN cleanup' = {"pc", "left", "gone"}
  BY <1>1
<1>4. cleanup.gone = {}
  BY <1>1 DEF PhotoInv, PhotoTables
<1>5. PhotoTables'
  BY <1>1, <1>2, <1>3, PhotosRest DEF PhotoInv, PhotoTables
<1>6. FilesTied'
  BY <1>1, <1>3, <1>4 DEF PhotoInv, FilesTied
<1> QED
  BY <1>5, <1>6 DEF PhotoInv

\* The file of a photo goes, or cannot be unlinked; or the photo stays.
LEMMA CleanupNextInv ==
    ASSUME PhotoInv, Resting, CleanupNext
    PROVE  PhotoInv'
<1>1. /\ cleanup.pc = "next" /\ UNCHANGED <<photo, posts, rows, expiry, atStart, broken>>
      /\ DOMAIN cleanup = {"pc", "left", "gone"}
  BY DEF CleanupNext, uploads, PhotoInv, PhotoTables
<1>2. PICK c \in cleanup.left :
          \/ /\ cleanup' = [cleanup EXCEPT !.left = @ \ {c}, !.gone = @ \cup {c.photo}]
             /\ \/ files' = files \ {c.photo} /\ stuck' = stuck
                \/ stuck' = stuck \cup {c.photo} /\ files' = files
          \/ /\ cleanup' = [cleanup EXCEPT !.left = @ \ {c}]
             /\ files' = files /\ stuck' = stuck
  BY DEF CleanupNext
<1>3. c.photo \in Photos /\ photo[c.photo] # None /\ photo[c.photo].pc # "saving"
  BY DEF PhotoInv, PhotoTables, Candidate
<1>4. /\ cleanup'.pc = "next" /\ cleanup'.left = cleanup.left \ {c}
      /\ DOMAIN cleanup' = {"pc", "left", "gone"}
      /\ \/ /\ cleanup'.gone = cleanup.gone \cup {c.photo}
            /\ \/ files' = files \ {c.photo} /\ stuck' = stuck
               \/ stuck' = stuck \cup {c.photo} /\ files' = files
         \/ cleanup'.gone = cleanup.gone /\ files' = files /\ stuck' = stuck
  BY <1>1, <1>2
<1>5. \A d \in cleanup'.left : Candidate(d)'
  BY <1>1, <1>4, CandidateStays DEF PhotoInv, PhotoTables
<1>6. PhotoTables'
  <2>1. \A f \in Photos : photo[f] # None /\ photo[f].pc = "saving" => f \in files' /\ f \notin rows'
    BY <1>1, <1>3, <1>4 DEF PhotoInv, PhotoTables
  <2>2. cleanup'.gone \cap files' \subseteq stuck'
    BY <1>4 DEF PhotoInv, PhotoTables
  <2>3. \A f \in cleanup'.gone : f \in Photos /\ photo[f] # None
    BY <1>3, <1>4 DEF PhotoInv, PhotoTables
  <2>4. (\A f \in files' : f \in files) /\ rows' \subseteq posts'
    BY <1>1, <1>4 DEF PhotoInv, PhotoTables
  <2> QED
    BY <1>1, <1>4, <1>5, <2>1, <2>2, <2>3, <2>4, PhotosRest
<1>7. FilesTied'
  BY <1>1, <1>4 DEF PhotoInv, FilesTied
<1> QED
  BY <1>6, <1>7 DEF PhotoInv

LEMMA CleanupEndInv ==
    ASSUME PhotoInv, Resting, CleanupEnd \/ KillCleanup
    PROVE  PhotoInv'
<1>1. /\ UNCHANGED <<photo, posts, files, expiry, stuck>> /\ cleanup.pc = "next"
      /\ DOMAIN cleanup = {"pc", "left", "gone"}
  BY DEF CleanupEnd, KillCleanup, uploads, PhotoInv, PhotoTables
<1>2. /\ cleanup'.pc # "next" /\ cleanup'.left = {} /\ cleanup'.gone = {}
      /\ DOMAIN cleanup' = {"pc", "left", "gone"}
  BY <1>1 DEF CleanupEnd, KillCleanup
<1>3. \/ rows' = rows \ cleanup.gone /\ broken' = broken
      \/ rows' = rows /\ broken' = broken \cup cleanup.gone
  BY DEF CleanupEnd, KillCleanup
<1>4. PhotoTables'
  BY <1>1, <1>2, <1>3, PhotosRest DEF PhotoInv, PhotoTables
<1>5. FilesTied'
  <2>1. cleanup.gone \cap files \subseteq stuck
    BY DEF PhotoInv, PhotoTables
  <2> QED
    BY <1>1, <1>2, <1>3, <2>1 DEF PhotoInv, FilesTied
<1> QED
  BY <1>4, <1>5 DEF PhotoInv

-----------------------------------------------------------------------------
(* The invariant holds *)

LEMMA InitInv == Init => Inv
<1> SUFFICES ASSUME Init PROVE Inv
  OBVIOUS
<1>1. AccountInv /\ AnnouncedTruly
  BY AccountInitInv DEF Init, ReminderInit
<1>2. /\ day = 0 /\ reflected = {} /\ notes = {} /\ smsLog = {}
      /\ job = [j \in Jobs |-> NoJob]
      /\ overlapped = {} /\ killed = {}
  BY DEF Init, ReminderInit
<1>3. ReminderInv
  <2>1. day \in 0 .. LastDay /\ 0 <= 0
    BY <1>2, RemindersAssumption
  <2>2. /\ NoJob \in JobRow /\ NoJob.pc = "idle" /\ NoJob.day = 0
        /\ NoJob.rows = {} /\ NoJob.due = {} /\ NoJob.left = {}
    BY NoJobRow DEF NoJob
  <2>3. JobOK(NoJob)
    BY <1>2, <2>1, <2>2 DEF JobOK, AtOne
  <2>4. \A j \in Jobs : job[j] = NoJob
    BY <1>2
  <2>5. RowsOK
    BY <1>2, <2>1 DEF RowsOK
  <2>6. JobsOK
    <3>1. job \in [Jobs -> JobRow]
      BY <1>2, <2>2
    <3>2. \A j \in Jobs : JobOK(job[j]) /\ job[j].pc # "dead"
      BY <2>2, <2>3, <2>4
    <3> QED
      BY <1>2, <3>1, <3>2, Zenon DEF JobsOK
  <2>7. Turns
    BY <2>2, <2>4 DEF Turns, Running
  <2>8. OnceADay /\ SettledSoFar /\ DeathsKnown
    BY <1>2, <2>2, <2>4 DEF OnceADay, SettledSoFar, DeathsKnown
  <2> QED
    BY <2>5, <2>6, <2>7, <2>8 DEF ReminderInv
<1>4. /\ posts = {f \in Photos : photo[f] # None} /\ files = posts /\ rows = posts
      /\ cleanup = [pc |-> "idle", left |-> {}, gone |-> {}]
  BY DEF Init, NoCleanup
<1>5. /\ photo \in [Photos -> {None} \cup PhotoRow]
      /\ \A f \in Photos : photo[f] # None =>
            photo[f].day = 0 /\ photo[f].pc = "old" /\ Live(photo[f].id)
  <2> DEFINE Old == [id : {e \in Movers : Live(e)}, day : {0}, pc : {"old"}]
  <2>1. photo \in [Photos -> {None} \cup Old]
    BY DEF Init
  <2>2. \A p \in Old : p.day = 0 /\ p.pc = "old" /\ Live(p.id)
    OBVIOUS
  <2>3. Old \subseteq PhotoRow
    <3>1. 0 \in 0 .. LastDay /\ Movers \subseteq Ids
      BY RemindersAssumption, Kinds4 DEF Ids
    <3> QED
      BY <3>1 DEF PhotoRow
  <2> HIDE DEF Old
  <2> QED
    BY <2>1, <2>2, <2>3
<1>6. PhotoTables
  <2>1. \A f \in Photos : photo[f] # None => photo[f].day <= day /\ photo[f].pc # "saving"
    BY <1>2, <1>5
  <2>2. /\ cleanup.left = {} /\ cleanup.gone = {} /\ cleanup.pc # "next"
        /\ DOMAIN cleanup = {"pc", "left", "gone"}
    BY <1>4
  <2> QED
    BY <1>4, <1>5, <2>1, <2>2 DEF PhotoTables
<1>7. FilesTied
  BY <1>4 DEF FilesTied
<1> QED
  BY <1>1, <1>3, <1>6, <1>7 DEF Inv

LEMMA PhotoStep ==
    ASSUME Inv, PhotoNext, UNCHANGED reminderVars
    PROVE  Inv'
<1>1. AccountInv /\ AnnouncedTruly /\ ReminderInv /\ PhotoInv
  BY DEF Inv, PhotoInv
<1>2. AccountInv' /\ AnnouncedTruly' /\ ReminderInv' /\ Resting
  BY <1>1, RemindersStay DEF Resting, ReminderInv, RowsOK
<1>4. PhotoInv'
  <2>1. CASE \E f \in Photos, e \in Movers : Upload(f, e)
    BY <1>1, <1>2, <2>1, UploadInv
  <2>2. CASE \E f \in Photos : InsertPhoto(f) \/ DeletePost(f)
    BY <1>1, <1>2, <2>2, InsertPhotoInv, DeletePostInv
  <2>3. CASE \E f \in Photos, t \in Lives : photo[f] # None /\ SetExpiry(photo[f].id, t)
    BY <1>1, <1>2, <2>3, SetExpiryInv
  <2>4. CASE StartCleanup \/ CleanupNext \/ CleanupEnd \/ KillCleanup
    BY <1>1, <1>2, <2>4, StartCleanupInv, CleanupNextInv, CleanupEndInv
  <2> QED
    BY <2>1, <2>2, <2>3, <2>4 DEF PhotoNext
<1> QED
  BY <1>2, <1>4 DEF Inv, PhotoInv

LEMMA StepInv == Inv /\ [Next]_vars => Inv'
<1>1. ASSUME Inv, ReminderNext, SweepPhotos PROVE Inv'
  <2>1. /\ AccountInv' /\ AnnouncedTruly' /\ ReminderInv'
        /\ day <= day'
    BY <1>1, ReminderStep DEF Inv
  <2>2. day \in Nat /\ day' \in Nat
    BY <1>1, <2>1 DEF Inv, ReminderInv, RowsOK
  <2>3. PhotoInv'
    BY <1>1, <2>1, <2>2, SweepInv DEF Inv, PhotoInv
  <2> QED
    BY <2>1, <2>3 DEF Inv, PhotoInv
<1>2. ASSUME Inv, UNCHANGED vars PROVE Inv'
  <2>1. /\ UNCHANGED reminderVars
        /\ UNCHANGED <<photo, posts, files, rows, expiry, cleanup, atStart, broken, stuck>>
    BY <1>2 DEF vars, uploads, histories
  <2>2. AccountInv' /\ AnnouncedTruly' /\ ReminderInv' /\ Resting
    BY <1>2, <2>1, RemindersStay DEF Inv, Resting, ReminderInv, RowsOK
  <2>3. PhotoTables'
    <3>1. \A c \in cleanup'.left : Candidate(c)'
      BY <1>2, <2>1, CandidateStays DEF Inv, PhotoTables
    <3> QED
      BY <1>2, <2>1, <2>2, <3>1, PhotosRest DEF Inv, PhotoInv, PhotoTables
  <2>4. FilesTied'
    BY <1>2, <2>1 DEF Inv, FilesTied
  <2> QED
    BY <2>2, <2>3, <2>4 DEF Inv
<1> QED
  BY <1>1, <1>2, PhotoStep DEF Next

LEMMA InvAlways == Spec => []Inv
<1> QED
  BY InitInv, StepInv, PTL DEF Spec

-----------------------------------------------------------------------------
(* Theorems *)

\* An account's row has one id and a uid that Firebase gave out, preferences,
\* notifications, logged messages, reflections and photos have an account, and a
\* photo's row its reflection.
THEOREM TypeCorrect == Spec => []TypeOK
<1>1. AccountInv => AccountTypeOK
  <2> SUFFICES ASSUME AccountInv PROVE AccountTypeOK
    OBVIOUS
  <2>1. ASSUME NEW e \in People, users[e] # None
        PROVE  /\ users[e].id \in {e} \cup Requests
               /\ users[e].uid \in 1 .. issued[e]
               /\ \A d \in People \ {e} : ~HasRow(d, users[e].id)
    <3>1. PICK u \in UserRow : u = users[e]
      BY <2>1 DEF AccountInv, AccountTables
    <3>2. u.uid \in Nat /\ u.uid >= 1 /\ u.uid <= issued[e] /\ issued[e] \in Nat
      BY <2>1, <3>1 DEF AccountInv, AccountTables, UidsIssued, UserRow
    <3>3. \A d \in People \ {e} : ~HasRow(d, users[e].id)
      BY <2>1, Kinds4 DEF AccountInv, AccountTables, RowsNamed, HasRow
    <3>4. users[e].id \in {e} \cup Requests
      BY <2>1 DEF AccountInv, AccountTables, RowsNamed
    <3> QED
      BY <3>1, <3>2, <3>3, <3>4
  <2>2. \A id \in Ids : prefs[id] # None => Live(id) /\ prefs[id] \in PrefsRow
    BY DEF AccountInv, AccountTables, PrefsTied
  <2> QED
    BY <2>1, <2>2 DEF AccountInv, AccountTables, UidsIssued, AccountTypeOK
<1>2. ReminderInv => /\ day \in 0 .. LastDay
                     /\ \A n \in notes : Live(n.id) /\ n.kind \in Kinds /\ n.day \in 0 .. day
                     /\ \A n \in smsLog : Live(n.id)
                     /\ \A x \in reflected : Live(x[1])
                     /\ \A j \in Jobs : job[j].left \subseteq job[j].rows
  BY JobParts DEF ReminderInv, RowsOK, JobOK, Note
<1>3. PhotoTables => /\ rows \subseteq posts
                     /\ \A f \in posts : photo[f] # None /\ Live(photo[f].id)
                     /\ \A f \in files : photo[f] # None
  BY DEF PhotoTables
<1>4. Inv => TypeOK
  BY <1>1, <1>2, <1>3 DEF Inv, TypeOK, ReminderTypeOK
<1> QED
  BY <1>4, InvAlways, PTL

\* The activity log tells of every account that was created, and of no other.
THEOREM AccountsAnnounced == Spec => []AnnouncedTruly
<1>1. Inv => AnnouncedTruly
  BY DEF Inv
<1> QED
  BY <1>1, InvAlways, PTL

\* Nobody gets two reminders of a kind on a day, unless two jobs of the kind ran
\* at a time.
THEOREM RemindedOnceADay == Spec => []OnceADay
<1>1. Inv => OnceADay
  BY DEF Inv, ReminderInv
<1> QED
  BY <1>1, InvAlways, PTL

\* A job that comes to its end has reminded everyone who was to be reminded, of
\* those it had read, and one that dies was killed or has met an account that went.
THEOREM NobodyIsLeftOut == Spec => []NobodyLeftOut
<1>1. ASSUME Inv, NEW j \in Jobs, job[j].pc = "done", NEW c \in job[j].due, Wants(c, job[j].kind)
      PROVE  Answered(j, c)
  <2>1. job[j].left = {} /\ c \in job[j].rows
    BY <1>1, JobParts DEF Inv, ReminderInv, JobOK
  <2>2. Settled(c, job[j])
    BY <1>1, <2>1 DEF Inv, ReminderInv, SettledSoFar
  <2> QED
    BY <1>1, <2>2 DEF Settled, Answered
<1>2. ASSUME Inv, NEW j \in Jobs, job[j].pc = "dead"
      PROVE  j \in killed \/ ~Live(job[j].at.id)
  BY <1>2 DEF Inv, ReminderInv, DeathsKnown, DiedOf
<1>3. Inv => NobodyLeftOut
  BY <1>1, <1>2 DEF NobodyLeftOut
<1> QED
  BY <1>3, InvAlways, PTL

\* A photo's file goes only when it has outlived the time its owner had set when
\* the job began, and a row without a file, or a file without a row, has one of the
\* known reasons.
THEOREM PhotosAreKept == Spec => PhotosKept
<1> DEFINE KeptStep == /\ \A f \in files \ files' : Age(f) >= atStart[photo[f].id]
                       /\ FilesTied'
<1>1. ASSUME Inv, CleanupNext, NEW f \in files \ files'
      PROVE  Age(f) >= atStart[photo[f].id]
  <2>1. PICK c \in cleanup.left : Outlived(c) /\ files' = files \ {c.photo}
    BY <1>1 DEF CleanupNext
  <2>2. c.photo = f /\ c.life = atStart[photo[f].id]
    BY <1>1, <2>1 DEF Inv, PhotoTables, Candidate
  <2> QED
    BY <2>1, <2>2 DEF Outlived
<1>2. ASSUME Next, ~CleanupNext
      PROVE  files \subseteq files'
  BY <1>2 DEF Next, SweepPhotos, PhotoNext, Upload, InsertPhoto, DeletePost, SetExpiry,
     StartCleanup, CleanupEnd, KillCleanup
<1>3. Inv /\ [Next]_vars => [KeptStep]_vars
  <2> SUFFICES ASSUME Inv, Next PROVE KeptStep
    OBVIOUS
  <2>1. FilesTied'
    BY StepInv DEF Inv
  <2> QED
    BY <1>1, <1>2, <2>1
<1> QED
  BY <1>3, InvAlways, PTL DEF Spec, PhotosKept
=============================================================================
