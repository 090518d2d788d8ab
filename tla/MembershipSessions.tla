-------------------------- MODULE MembershipSessions --------------------------
(***************************************************************************)
(* Membership, with the three requests that read several rows before they  *)
(* write, leave_pod, toggle_member_active and the deletion of an account,  *)
(* taken apart at their awaits. The other requests stay single steps: they *)
(* decide on one row.                                                      *)
(***************************************************************************)
EXTENDS Membership

CONSTANTS
    Requests,       \* request handlers
    MaxInFlight     \* bound: transactions in progress at a time

ASSUME InFlightAssumption == MaxInFlight \in Nat \ {0}

VARIABLE
    session         \* what each handler has read and not yet committed

svars == <<vars, session>>

Idle == [pc |-> "idle"]

Busy(q)  == session[q] # Idle
HasRoom  == Cardinality({q \in Requests : Busy(q)}) < MaxInFlight
Step(q, s) == session' = [session EXCEPT ![q] = s] /\ UNCHANGED vars

-----------------------------------------------------------------------------
(* leave_pod *)

\* The pod and the member's row are there, with this role.
LeaveFind(q, u, p) ==
    /\ ~Busy(q) /\ HasRoom
    /\ pod[p] = "active"
    /\ u \in active[p]
    /\ Step(q, [pc |-> "leaving", user |-> u, pod |-> p, owner |-> role[p][u] = "owner"])

LeaveWriting(s, heirs) == [pc |-> "left", user |-> s.user, pod |-> s.pod, heirs |-> heirs]

FaultyLeaveCount(q) ==
    LET s == session[q]
    IN  /\ s.pc = "leaving"
        /\ Step(q, IF s.owner THEN [s EXCEPT !.pc = "heir"] ELSE LeaveWriting(s, {}))

\* "You can't leave the pod"
LeaveCount(q) ==
    LET s == session[q]
    IN  /\ s.pc = "leaving"
        /\ Step(q, IF Cardinality(active[s.pod]) <= 1 THEN Idle
                   ELSE IF s.owner THEN [s EXCEPT !.pc = "heir"]
                   ELSE LeaveWriting(s, {}))

FaultyLeaveHeir(q) ==
    /\ session[q].pc = "heir"
    /\ Step(q, LeaveWriting(session[q], {}))

\* The next owner, if there still is another member. One that is an owner
\* already needs no write.
LeaveHeir(q) ==
    LET s == session[q]
        others == active[s.pod] \ {s.user}
        heir == Earliest(s.pod, others)
    IN  /\ s.pc = "heir"
        /\ Step(q, LeaveWriting(s, IF others = {} \/ role[s.pod][heir] = "owner"
                                   THEN {} ELSE {heir}))

\* The commit. It fails if a row it updates has gone.
LeaveCommit(q) ==
    LET s == session[q]
    IN  /\ s.pc = "left"
        /\ session' = [session EXCEPT ![q] = Idle]
        /\ IF s.heirs \cup {s.user} \subseteq Rows(s.pod)
           THEN /\ role' = [role EXCEPT ![s.pod] =
                              [v \in Users |-> IF v \in s.heirs THEN "owner" ELSE @[v]]]
                /\ active' = [active EXCEPT ![s.pod] = @ \ {s.user}]
                /\ UNCHANGED <<accounts, pod, creator, inserted, joined>>
           ELSE UNCHANGED vars

-----------------------------------------------------------------------------
(* toggle_member_active *)

\* The actor owns the pod; the target has this row.
ToggleFind(q, u, p, target, on) ==
    /\ ~Busy(q) /\ HasRoom
    /\ u \in Owners(p)
    /\ target \in Rows(p) \ {u}
    /\ Step(q, [pc |-> "toggling", user |-> target, pod |-> p, on |-> on,
                was |-> target \in active[p], owner |-> role[p][target] = "owner"])

FaultyToggleCount(q) ==
    LET s == session[q]
    IN  /\ s.pc = "toggling"
        /\ Step(q, IF ~s.on /\ s.was /\ Cardinality(active[s.pod]) <= 1
                   THEN Idle ELSE [s EXCEPT !.pc = "toggled"])

\* The last active member and an owner are not deactivated.
ToggleCount(q) ==
    LET s == session[q]
    IN  /\ s.pc = "toggling"
        /\ Step(q, IF ~s.on /\ s.was /\ (Cardinality(active[s.pod]) <= 1 \/ s.owner)
                   THEN Idle ELSE [s EXCEPT !.pc = "toggled"])

ToggleCommit(q) ==
    LET s == session[q]
    IN  /\ s.pc = "toggled"
        /\ session' = [session EXCEPT ![q] = Idle]
        /\ active' = IF s.on = s.was \/ s.user \notin Rows(s.pod) THEN active
                     ELSE [active EXCEPT ![s.pod] = IF s.on THEN @ \cup {s.user}
                                                    ELSE @ \ {s.user}]
        /\ UNCHANGED <<accounts, pod, creator, inserted, joined, role>>

-----------------------------------------------------------------------------
(* delete_user_and_handle_pods *)

\* The account is there, and these are its rows. (A second deletion of it stops
\* at the identity service, unless the account is not linked to one.)
DeleteFind(q, u) ==
    /\ ~Busy(q) /\ HasRoom
    /\ u \in accounts
    /\ Step(q, [pc |-> "deleting", user |-> u,
                todo  |-> {p \in Pods : u \in Rows(p)},
                owned |-> {p \in Pods : role[p][u] = "owner"},
                alone |-> {},
                heir  |-> [p \in Pods |-> Nobody]])

\* The member whose role it sets, if there is one that needs it.
NewOwner(s, p) ==
    IF \/ p \notin s.owned
       \/ Rows(p) \subseteq {s.user}
       \/ role[p][Heir(s.user, p)] = "owner"
    THEN Nobody ELSE Heir(s.user, p)

\* What it keeps of the members that it reads of one pod.
Scanned(s, p) ==
    IF Alone(p) THEN [s EXCEPT !.todo = @ \ {p}, !.alone = @ \cup {p}]
    ELSE [s EXCEPT !.todo = @ \ {p}, !.heir = [@ EXCEPT ![p] = NewOwner(s, p)]]

DeleteScan(q) ==
    /\ session[q].pc = "deleting"
    /\ \E p \in session[q].todo : Step(q, Scanned(session[q], p))

\* The commit. It fails if the row of an heir has gone; rows that it deletes may
\* have gone already, and rows that came since go with their pod or their user.
DeleteCommit(q) ==
    LET s == session[q]
    IN  /\ s.pc = "deleting" /\ s.todo = {}
        /\ session' = [session EXCEPT ![q] = Idle]
        /\ IF \A p \in Pods : s.heir[p] \in Rows(p) \cup {Nobody}
           THEN Erase(s.user, s.alone, s.heir)
           ELSE UNCHANGED vars

\* An exception, a lost connection, a restart: the session rolls back.
Abort(q) == Busy(q) /\ Step(q, Idle)

-----------------------------------------------------------------------------

SInit == Init /\ session = [q \in Requests |-> Idle]

Whole ==
    \/ \E u \in Users, p \in Pods : CreatePod(u, p) \/ JoinPod(u, p) \/ DeletePod(u, p)
    \/ \E u, t \in Users, p \in Pods, r \in Roles : UpdateMemberRole(u, p, t, r)
    \/ \E p \in Pods : AdminDeletePod(p)

SNext ==
    \/ HasRoom /\ Whole /\ UNCHANGED session
    \/ \E q \in Requests, u \in Users, p \in Pods : LeaveFind(q, u, p)
    \/ \E q \in Requests, u, t \in Users, p \in Pods, on \in BOOLEAN : ToggleFind(q, u, p, t, on)
    \/ \E q \in Requests, u \in Users : DeleteFind(q, u)
    \/ \E q \in Requests : DeleteScan(q) \/ DeleteCommit(q)
    \/ \E q \in Requests :
          LeaveCount(q) \/ LeaveHeir(q) \/ LeaveCommit(q) \/ ToggleCount(q) \/ ToggleCommit(q)
    \/ \E q \in Requests : Abort(q)

SSpec == SInit /\ [][SNext]_svars

-----------------------------------------------------------------------------
(* Properties *)

\* One transaction at a time, the steps between the awaits add up to the
\* requests of Membership.
ImplementsMembership == Spec
=============================================================================
