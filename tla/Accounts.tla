------------------------------- MODULE Accounts -------------------------------
(***************************************************************************)
(* Accounts in two stores, Firebase and the users table, and preferences:  *)
(*   app/modules/users/service.py (registration and single sign-on),       *)
(*   app/dependencies.py, app/firebase/auth.py,                            *)
(*   app/modules/user_preferences/services.py,                             *)
(*   app/modules/admin/service.py (the deletion of an account).            *)
(*                                                                         *)
(* Firebase is written first and cannot be rolled back. Each action is a   *)
(* stretch of a request between two awaits. Firebase itself is external:   *)
(* it has one account per e-mail address, and an account made again has a  *)
(* new uid. Its tokens outlive it by up to an hour.                        *)
(***************************************************************************)
EXTENDS Naturals, FiniteSets

CONSTANTS
    People,         \* e-mail addresses
    Movers,         \* bound: those requests are about
    Requests,       \* requests; a users row is named by the request that inserted it
    None,
    MaxUid          \* bound: the accounts Firebase makes for one address

Fields == {"checkin", "reminder", "sms"}
Ids    == People \cup Requests

UserRow  == [id : Ids, uid : 1 .. MaxUid, phone : BOOLEAN]
PrefsRow == [checkin : BOOLEAN, reminder : BOOLEAN, sms : BOOLEAN]

ASSUME AccountsAssumption ==
    /\ None \notin Ids \cup UserRow \cup PrefsRow
    /\ People \cap Requests = {}
    /\ Movers \subseteq People
    /\ MaxUid \in Nat \ {0}

VARIABLES
    firebase,    \* Firebase: address -> uid of its account, 0 when it has none
    issued,      \* Firebase: address -> accounts made so far
    users,       \* address -> row (id, firebase_uid, phone_number), or None
    prefs,       \* users.id -> user_preferences row, or None
    announced,   \* activity log: users.id whose creation it tells
    request,     \* what each request has read and is about to do
    inserted,    \* history: users.id ever committed
    crashed      \* history: requests that a restart ended

stores      == <<firebase, issued, users, prefs>>
accountVars == <<stores, announced, request, inserted, crashed>>

\* checkin: whether checkin_time is set, which decides who gets the reminder.
Defaults == [checkin |-> FALSE, reminder |-> TRUE, sms |-> TRUE]
NewPrefs == [Defaults EXCEPT !.checkin = TRUE]

Idle == [pc |-> "idle", act |-> "none", who |-> None, uid |-> 0, id |-> None,
         field |-> "none", value |-> FALSE]
InFlight(r) == request[r].pc \notin {"idle", "done"}

HasRow(e, id) == users[e] # None /\ users[e].id = id
Live(id)      == \E e \in People : HasRow(e, id)

Set(r, s) == request' = [request EXCEPT ![r] = s]
Goto(r, pc) == Set(r, [request[r] EXCEPT !.pc = pc])
Finish(r) == Goto(r, "done")

-----------------------------------------------------------------------------
(* create_user *)

RegisterRead(r, e) ==
    /\ request[r] = Idle
    /\ users[e] = None
    /\ Set(r, [Idle EXCEPT !.pc = "firebase", !.act = "register", !.who = e])
    /\ UNCHANGED <<stores, announced, inserted, crashed>>

\* Refused when Firebase has an account of the address.
RegisterFirebase(r) ==
    LET e == request[r].who
        g == issued[e] + 1
    IN  /\ request[r].pc = "firebase"
        /\ IF firebase[e] # 0
           THEN Finish(r) /\ UNCHANGED <<firebase, issued>>
           ELSE /\ g <= MaxUid
                /\ firebase' = [firebase EXCEPT ![e] = g]
                /\ issued' = [issued EXCEPT ![e] = g]
                /\ Set(r, [request[r] EXCEPT !.pc = "insert", !.uid = g])
        /\ UNCHANGED <<users, prefs, announced, inserted, crashed>>

\* A registration has a telephone number, a first sign-in has none.
NewRow(r) == [id |-> r, uid |-> request[r].uid, phone |-> request[r].act = "register"]

\* The row and its preferences in one transaction. If the address has got a row
\* meanwhile, a sign-in looks it up again and a registration fails.
Insert(r) ==
    LET s == request[r]
    IN  /\ s.pc = "insert"
        /\ IF users[s.who] = None
           THEN /\ users' = [users EXCEPT ![s.who] = NewRow(r)]
                /\ prefs' = [prefs EXCEPT ![r] = NewPrefs]
                /\ inserted' = inserted \cup {r}
                /\ Goto(r, "announce")
           ELSE Finish(r) /\ UNCHANGED <<users, prefs, inserted>>
        /\ UNCHANGED <<firebase, issued, announced, crashed>>

FaultyAnnounce(r) ==
    /\ request[r].pc = "announce"
    /\ announced' = IF Live(r) /\ request[r].act = "register" THEN announced \cup {r} ELSE announced
    /\ Finish(r)
    /\ UNCHANGED <<stores, inserted, crashed>>

\* refresh, and the event: neither finds a row that has gone.
Announce(r) ==
    /\ request[r].pc = "announce"
    /\ announced' = IF Live(r) THEN announced \cup {r} ELSE announced
    /\ Finish(r)
    /\ UNCHANGED <<stores, inserted, crashed>>

-----------------------------------------------------------------------------
(* get_current_user, get_or_create_sso_user *)

\* The token names an account Firebase has or had. A row with its uid is the
\* common case, and changes nothing.
SignIn(r, e, g) ==
    /\ request[r] = Idle
    /\ g \in 1 .. issued[e]
    /\ users[e] # None => users[e].uid # g
    /\ Set(r, [Idle EXCEPT !.pc = "byEmail", !.act = "signIn", !.who = e, !.uid = g])
    /\ UNCHANGED <<stores, announced, inserted, crashed>>

ByEmail(r) ==
    LET s == request[r]
    IN  /\ s.pc = "byEmail"
        /\ CASE users[s.who] = None      -> Goto(r, "insert")
             [] users[s.who] # None /\ users[s.who].uid = s.uid -> Finish(r)
             [] OTHER                    -> Set(r, [s EXCEPT !.pc = "link", !.id = users[s.who].id])
        /\ UNCHANGED <<stores, announced, inserted, crashed>>

\* The row found by its address gets the uid of the token, if it is still there.
Link(r) ==
    LET s == request[r]
    IN  /\ s.pc = "link"
        /\ users' = IF HasRow(s.who, s.id) THEN [users EXCEPT ![s.who].uid = s.uid]
                    ELSE users
        /\ Finish(r)
        /\ UNCHANGED <<firebase, issued, prefs, announced, inserted, crashed>>

-----------------------------------------------------------------------------
(* delete_user_and_handle_pods *)

DeleteRead(r, e) ==
    /\ request[r] = Idle
    /\ users[e] # None
    /\ Set(r, [Idle EXCEPT !.pc = "unlink", !.act = "delete", !.who = e,
                           !.uid = users[e].uid, !.id = users[e].id])
    /\ UNCHANGED <<stores, announced, inserted, crashed>>

\* Firebase does not know the uid: the request fails.
DeleteFirebase(r) ==
    LET s == request[r]
    IN  /\ s.pc = "unlink"
        /\ IF firebase[s.who] = s.uid
           THEN firebase' = [firebase EXCEPT ![s.who] = 0] /\ Goto(r, "delete")
           ELSE UNCHANGED firebase /\ Finish(r)
        /\ UNCHANGED <<issued, users, prefs, announced, inserted, crashed>>

FaultyDrop(e, id) ==
    /\ users' = IF HasRow(e, id) THEN [users EXCEPT ![e] = None] ELSE users
    /\ prefs' = prefs

\* The users row, if it is still that row, and what hangs on it.
Drop(e, id) ==
    /\ users' = IF HasRow(e, id) THEN [users EXCEPT ![e] = None] ELSE users
    /\ prefs' = [prefs EXCEPT ![id] = None]

\* The transaction on the pods, the memberships and the row may still fail.
DeleteRow(r) ==
    LET s == request[r]
    IN  /\ s.pc = "delete"
        /\ Drop(s.who, s.id) \/ UNCHANGED <<users, prefs>>
        /\ Finish(r)
        /\ UNCHANGED <<firebase, issued, announced, inserted, crashed>>

-----------------------------------------------------------------------------
(* get_user_preferences, update_user_preferences *)

\* A field of "none" is the request that only reads, and creates what is missing.
PrefsRead(r, e, f, v) ==
    LET id == users[e].id
    IN  /\ request[r] = Idle
        /\ users[e] # None
        /\ prefs[id] # None => f # "none" /\ prefs[id][f] # v
        /\ Set(r, [Idle EXCEPT !.pc = IF prefs[id] = None THEN "newPrefs" ELSE "setPrefs",
                               !.act = "prefs", !.who = e, !.id = id, !.field = f, !.value = v])
        /\ UNCHANGED <<stores, announced, inserted, crashed>>

Changed(row, s) == IF s.field = "none" THEN row ELSE [row EXCEPT ![s.field] = s.value]

\* An insert fails if there is a row by now, an update if there is none any more.
PrefsWrite(r) ==
    LET s == request[r]
    IN  /\ \/ /\ s.pc = "newPrefs"
              /\ prefs' = IF Live(s.id) /\ prefs[s.id] = None
                          THEN [prefs EXCEPT ![s.id] = Changed(Defaults, s)] ELSE prefs
           \/ /\ s.pc = "setPrefs"
              /\ prefs' = IF prefs[s.id] # None
                          THEN [prefs EXCEPT ![s.id] = Changed(@, s)] ELSE prefs
        /\ Finish(r)
        /\ UNCHANGED <<firebase, issued, users, announced, inserted, crashed>>

-----------------------------------------------------------------------------

\* External: someone signs up at Firebase, without this program.
SignUp(e) ==
    /\ firebase[e] = 0 /\ issued[e] < MaxUid
    /\ firebase' = [firebase EXCEPT ![e] = issued[e] + 1]
    /\ issued' = [issued EXCEPT ![e] = @ + 1]
    /\ UNCHANGED <<users, prefs, announced, request, inserted, crashed>>

\* A restart of the server. What had been written to Firebase only stays so.
Restart ==
    LET lost == {r \in Requests : InFlight(r)}
    IN  /\ crashed = {} /\ lost # {}
        /\ crashed' = lost
        /\ request' = [r \in Requests |-> IF r \in lost THEN [request[r] EXCEPT !.pc = "done"]
                                          ELSE request[r]]
        /\ UNCHANGED <<stores, announced, inserted>>

\* A row made by hand has no preferences.
AccountInit ==
    /\ users \in [People -> {None} \cup [id : People, uid : {1}, phone : {TRUE}]]
    /\ \A e \in People : /\ users[e] # None => users[e].id = e
                         /\ e \notin Movers => users[e] # None
    /\ firebase = [e \in People |-> IF users[e] = None THEN 0 ELSE 1]
    /\ issued = firebase
    /\ prefs \in [Ids -> {None, NewPrefs}]
    /\ \A id \in Ids : /\ ~Live(id) => prefs[id] = None
                       /\ Live(id) /\ id \notin Movers => prefs[id] # None
    /\ announced = {} /\ inserted = {} /\ crashed = {}
    /\ request = [r \in Requests |-> Idle]

Arrive(r) ==
    \E e \in Movers :
        \/ RegisterRead(r, e) \/ DeleteRead(r, e)
        \/ \E g \in 1 .. MaxUid : SignIn(r, e, g)
        \/ \E f \in Fields, v \in BOOLEAN : PrefsRead(r, e, f, v)
        \/ PrefsRead(r, e, "none", FALSE)

Proceed(r) ==
    \/ RegisterFirebase(r) \/ Insert(r) \/ Announce(r)
    \/ ByEmail(r) \/ Link(r)
    \/ DeleteFirebase(r) \/ DeleteRow(r)
    \/ PrefsWrite(r)

AccountStep == \/ \E r \in Requests : Proceed(r)
               \/ \E e \in Movers : SignUp(e)
               \/ Restart

-----------------------------------------------------------------------------
(* Properties *)

\* Rows have their types, an id belongs to one row, and preferences go with
\* their account.
AccountTypeOK ==
    /\ firebase \in [People -> 0 .. MaxUid] /\ issued \in [People -> 0 .. MaxUid]
    /\ \A e \in People :
          /\ firebase[e] <= issued[e]
          /\ users[e] # None =>
                /\ users[e].id \in {e} \cup Requests
                /\ users[e].uid \in 1 .. issued[e]
                /\ \A d \in People \ {e} : ~HasRow(d, users[e].id)
    /\ \A id \in Ids : prefs[id] # None => Live(id) /\ prefs[id] \in PrefsRow

\* The activity log tells of every account that was created, and of no other: an
\* entry is missing only after a restart or when the account has gone again.
AnnouncedTruly ==
    /\ announced \subseteq inserted
    /\ \A r \in inserted \ announced : InFlight(r) \/ r \in crashed \/ ~Live(r)
=============================================================================
