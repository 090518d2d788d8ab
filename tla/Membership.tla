------------------------------ MODULE Membership ------------------------------
(***************************************************************************)
(* Pods, their members and the accounts behind them, one request at a      *)
(* time: app/modules/pods/service.py, and the account, pod and membership  *)
(* operations of app/modules/admin/service.py.                             *)
(*                                                                         *)
(* A pod_members row is never removed while its account and its pod exist: *)
(* who leaves keeps an inactive row, with the role it had. A request that  *)
(* is refused changes nothing and has no action.                           *)
(***************************************************************************)
EXTENDS Naturals, FiniteSets

CONSTANTS
    Users,      \* accounts
    Pods,       \* bound: the identifiers new pods draw from, each once
    Nobody      \* NULL created_by

ASSUME NobodyAssumption == Nobody \notin Users

\* Roles are strings that an owner may set freely; "member" stands for every
\* one but "owner", and "none" for no row.
Roles == {"owner", "member"}

VARIABLES
    accounts,   \* users rows
    pod,        \* pods.status: "unused", "active", or "deleted" for no row
    creator,    \* pods.created_by
    inserted,   \* how many pod_members rows the pod ever got
    joined,     \* pod_members.joined_at as the number of the insert, 0 for no row
    role,       \* pod_members.role
    active      \* users whose pod_members row has is_active

vars == <<accounts, pod, creator, inserted, joined, role, active>>

NoRows == [u \in Users |-> 0]
NoRoles == [u \in Users |-> "none"]

Rows(p)   == {u \in Users : joined[p][u] > 0}
Owners(p) == {u \in active[p] : role[p][u] = "owner"}

\* order_by(joined_at).limit(1)
Earliest(p, S) == CHOOSE u \in S : \A v \in S : joined[p][u] <= joined[p][v]

-----------------------------------------------------------------------------
(* Members *)

CreatePod(u, p) ==
    /\ u \in accounts
    /\ pod[p] = "unused"
    /\ pod'     = [pod EXCEPT ![p] = "active"]
    /\ creator' = [creator EXCEPT ![p] = u]
    /\ inserted' = [inserted EXCEPT ![p] = @ + 1]
    /\ joined'  = [joined EXCEPT ![p][u] = inserted[p] + 1]
    /\ role'    = [role EXCEPT ![p][u] = "owner"]
    /\ active'  = [active EXCEPT ![p] = {u}]
    /\ UNCHANGED accounts

\* join_pod_by_code: an inactive row comes back as a member, with its old
\* joined_at. The code counts the members and does not use the count.
JoinPod(u, p) ==
    /\ u \in accounts
    /\ pod[p] = "active"
    /\ u \notin active[p]
    /\ IF u \in Rows(p) THEN UNCHANGED <<inserted, joined>>
       ELSE /\ inserted' = [inserted EXCEPT ![p] = @ + 1]
            /\ joined' = [joined EXCEPT ![p][u] = inserted[p] + 1]
    /\ role'   = [role EXCEPT ![p][u] = "member"]
    /\ active' = [active EXCEPT ![p] = @ \cup {u}]
    /\ UNCHANGED <<accounts, pod, creator>>

\* leave_pod: not the last active member. An owner hands over to the active member
\* who joined first.
LeavePod(u, p) ==
    /\ pod[p] = "active"
    /\ u \in active[p]
    /\ active[p] # {u}
    /\ role'   = IF role[p][u] = "owner"
                 THEN [role EXCEPT ![p][Earliest(p, active[p] \ {u})] = "owner"]
                 ELSE role
    /\ active' = [active EXCEPT ![p] = @ \ {u}]
    /\ UNCHANGED <<accounts, pod, creator, inserted, joined>>

\* leave_pod of the admin module, which removes a member by the same rules
AdminLeavePod(u, p) == LeavePod(u, p)

UpdateMemberRole(u, p, target, r) ==
    /\ u \in Owners(p)
    /\ target \in Rows(p)
    /\ role' = [role EXCEPT ![p][target] = r]
    /\ UNCHANGED <<accounts, pod, creator, inserted, joined, active>>

\* Deactivation spares owners and the last active member. Reactivation keeps
\* the role the row has.
ToggleMemberActive(u, p, target, on) ==
    /\ u \in Owners(p)
    /\ target \in Rows(p) \ {u}
    /\ ~on /\ target \in active[p] => /\ active[p] # {target}
                                      /\ role[p][target] # "owner"
    /\ active' = [active EXCEPT ![p] = IF on THEN @ \cup {target} ELSE @ \ {target}]
    /\ UNCHANGED <<accounts, pod, creator, inserted, joined, role>>

-----------------------------------------------------------------------------
(* Deletion *)

\* The pod's row goes and, by cascade, its members' rows.
RemovePod(p) ==
    /\ pod[p] = "active"
    /\ pod'     = [pod EXCEPT ![p] = "deleted"]
    /\ creator' = [creator EXCEPT ![p] = Nobody]
    /\ joined'  = [joined EXCEPT ![p] = NoRows]
    /\ role'    = [role EXCEPT ![p] = NoRoles]
    /\ active'  = [active EXCEPT ![p] = {}]
    /\ UNCHANGED <<accounts, inserted>>

DeletePod(u, p) == u \in Owners(p) /\ RemovePod(p)

\* delete_pod of the admin module
AdminDeletePod(p) == RemovePod(p)

FaultyHeir(u, p) == Earliest(p, Rows(p))

\* The row that inherits the pod: the first that joined, active or not.
Heir(u, p) == Earliest(p, Rows(p) \ {u})

FaultyAlone(p) == FALSE

\* len(members) == 1: inactive rows count.
Alone(p) == \E v \in Users : Rows(p) = {v}

FaultyCreatorLeft(p, u) == creator[p]

\* The ORM sets created_by of a user's pods to NULL before it deletes the user.
CreatorLeft(p, u) == IF creator[p] = u THEN Nobody ELSE creator[p]

\* What the commit of an account's deletion writes: the user's rows go wherever
\* they are, these pods go with every row they have, and these heirs own.
Erase(u, alone, heir) ==
    /\ accounts' = accounts \ {u}
    /\ pod' = [p \in Pods |-> IF p \in alone THEN "deleted" ELSE pod[p]]
    /\ creator' = [p \in Pods |-> IF p \in alone THEN Nobody ELSE CreatorLeft(p, u)]
    /\ joined' = [p \in Pods |-> [v \in Users |->
                     IF p \in alone \/ v = u THEN 0 ELSE joined[p][v]]]
    /\ role' = [p \in Pods |-> [v \in Users |->
                   IF p \in alone \/ v = u THEN "none"
                   ELSE IF v = heir[p] THEN "owner" ELSE role[p][v]]]
    /\ active' = [p \in Pods |-> IF p \in alone THEN {} ELSE active[p] \ {u}]
    /\ UNCHANGED inserted

\* delete_user_and_handle_pods: a pod whose only row is the user's is deleted;
\* one the user has owned, in whatever row, gets a new owner.
DeleteUser(u) ==
    /\ u \in accounts
    /\ Erase(u, {p \in Pods : u \in Rows(p) /\ Alone(p)},
             [p \in Pods |-> IF role[p][u] = "owner" /\ ~Alone(p) THEN Heir(u, p) ELSE Nobody])

-----------------------------------------------------------------------------

Init ==
    /\ accounts = Users
    /\ pod     = [p \in Pods |-> "unused"]
    /\ creator = [p \in Pods |-> Nobody]
    /\ inserted = [p \in Pods |-> 0]
    /\ joined  = [p \in Pods |-> NoRows]
    /\ role    = [p \in Pods |-> NoRoles]
    /\ active  = [p \in Pods |-> {}]

Next ==
    \/ \E u \in Users, p \in Pods :
          CreatePod(u, p) \/ JoinPod(u, p) \/ LeavePod(u, p) \/ DeletePod(u, p)
    \/ \E u \in Users, p \in Pods : AdminLeavePod(u, p)
    \/ \E u, t \in Users, p \in Pods, r \in Roles : UpdateMemberRole(u, p, t, r)
    \/ \E u, t \in Users, p \in Pods, on \in BOOLEAN : ToggleMemberActive(u, p, t, on)
    \/ \E p \in Pods : AdminDeletePod(p)
    \/ \E u \in Users : DeleteUser(u)

Spec == Init /\ [][Next]_vars

-----------------------------------------------------------------------------
(* Properties *)

\* Every row has the columns of its table, and no pod_members row or
\* created_by names an account that is gone.
TypeOK ==
    /\ accounts \subseteq Users
    /\ pod \in [Pods -> {"unused", "active", "deleted"}]
    /\ creator \in [Pods -> accounts \cup {Nobody}]
    /\ inserted \in [Pods -> Nat]
    /\ joined \in [Pods -> [Users -> Nat]]
    /\ role \in [Pods -> [Users -> Roles \cup {"none"}]]
    /\ active \in [Pods -> SUBSET Users]
    /\ \A p \in Pods : Rows(p) \subseteq accounts

\* Rows belong to pods that exist, and roles and is_active belong to rows.
RowsTied ==
    \A p \in Pods :
        /\ Rows(p) # {} => pod[p] = "active"
        /\ active[p] \subseteq Rows(p)
        /\ \A u \in Users : role[p][u] = "none" <=> u \notin Rows(p)

\* Account deletion leaves no pod behind that nobody has a row in ("case 1: only
\* one member -> delete pod"): a pod exists exactly while it has a row.
RowsConsistent ==
    /\ RowsTied
    /\ \A p \in Pods : pod[p] = "active" => Rows(p) # {}

\* An owner who leaves, or is made to leave, hands the pod over: while pod and
\* accounts stay, the pod loses its last active owner only when that owner's
\* role is set to another one.
OwnerKept ==
    [][\A p \in Pods :
          Owners(p) # {} /\ Owners(p)' = {} =>
              \/ pod'[p] = "deleted"
              \/ accounts' # accounts
              \/ \E u \in Owners(p) : u \in active'[p] /\ role'[p][u] # "owner"]_vars

\* "ensure there will still be at least 1 active member", "You can't leave the
\* pod": while pod and accounts stay, a pod never loses its last active member.
LastMemberStays ==
    [][\A p \in Pods :
          active[p] # {} /\ active'[p] = {} =>
              pod'[p] = "deleted" \/ accounts' # accounts]_vars

\* Deleting the account of an owner leaves an owner's row in each pod in which
\* anybody has a row left ("find oldest member excluding this user"). (Not an
\* active one: the heir is the first that joined.)
OwnerSucceeded ==
    [][\A p \in Pods : \A u \in accounts \ accounts' :
          role[p][u] = "owner" =>
              Rows(p)' = {} \/ \E v \in accounts' : role'[p][v] = "owner"]_vars
=============================================================================
