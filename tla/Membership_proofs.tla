-------------------------- MODULE Membership_proofs --------------------------
(***************************************************************************)
(* Proofs about Membership, for any accounts and pods: its rows stay       *)
(* consistent, owners hand over and the last member stays. And about       *)
(* MembershipSessions: what of this requests in flight leave true, and     *)
(* that one at a time they are the requests of Membership.                 *)
(***************************************************************************)
EXTENDS MembershipSessions, FiniteSetTheorems, WellFoundedInduction, TLAPS

-----------------------------------------------------------------------------
(* The first that joined *)

LEMMA Smallest ==
    ASSUME NEW T \in SUBSET Nat, T # {}
    PROVE  \E x \in T : \A y \in T : x <= y
<1> DEFINE R == StrictSubsetOrdering(Nat)
           Segments == {0 .. x : x \in T}
<1>1. IsWellFoundedOn(R, FiniteSubsetsOf(Nat))
  BY FS_StrictSubsetOrderingWellFounded
<1>2. Segments \subseteq FiniteSubsetsOf(Nat) /\ Segments # {}
  <2>1. \A x \in T : IsFiniteSet(0 .. x) /\ 0 .. x \subseteq Nat
    BY FS_Interval
  <2> QED BY <2>1 DEF FiniteSubsetsOf
<1>3. \E X \in Segments : \A Y \in Segments : <<Y, X>> \notin R
  <2> HIDE DEF R, Segments
  <2> QED BY <1>1, <1>2, WFMin
<1>4. \A x, y \in T : y < x => <<0 .. y, 0 .. x>> \in R
  BY DEF StrictSubsetOrdering
<1>5. PICK x \in T : \A y \in T : <<0 .. y, 0 .. x>> \notin R
  BY <1>3
<1> HIDE DEF R
<1>6. \A y \in T : ~(y < x)
  BY <1>4, <1>5
<1>7. \A y \in T : x <= y
  BY <1>6
<1> QED
  BY <1>7

\* Earliest picks one of the members it is given.
LEMMA EarliestIn ==
    ASSUME TypeOK, NEW p \in Pods, NEW S \in SUBSET Users, S # {}
    PROVE  Earliest(p, S) \in S
<1> DEFINE T == {joined[p][u] : u \in S}
<1>1. joined[p] \in [Users -> Nat]
  BY DEF TypeOK
<1>2. T \in SUBSET Nat /\ T # {}
  BY <1>1
<1>3. PICK x \in T : \A y \in T : x <= y
  BY <1>2, Smallest
<1>4. \E u \in S : \A v \in S : joined[p][u] <= joined[p][v]
  BY <1>3
<1> QED
  BY <1>4 DEF Earliest

-----------------------------------------------------------------------------
(* The invariant *)

TInv == TypeOK /\ RowsTied

\* No pod without a row: true one request at a time only.
Inhabited == \A p \in Pods : pod[p] = "active" => Rows(p) # {}

IInv == TInv /\ Inhabited

LEMMA InitIInv == Init => IInv
BY NobodyAssumption DEF Init, IInv, TInv, Inhabited, TypeOK, RowsTied, Rows, NoRows, NoRoles, Roles

LEMMA CreatePodTInv ==
    ASSUME TInv, NEW u \in Users, NEW p \in Pods, CreatePod(u, p)
    PROVE  TInv'
<1> USE DEF TInv, TypeOK, RowsTied, Rows, Roles
<1>1. TypeOK'
  <2>1. joined' \in [Pods -> [Users -> Nat]]
    BY DEF CreatePod
  <2>2. role' \in [Pods -> [Users -> Roles \cup {"none"}]]
    BY DEF CreatePod
  <2>3. active' \in [Pods -> SUBSET Users]
    BY DEF CreatePod
  <2>4. ASSUME NEW q \in Pods PROVE Rows(q)' \subseteq accounts'
    BY DEF CreatePod
  <2> QED BY <2>1, <2>2, <2>3, <2>4 DEF CreatePod
<1>2. ASSUME NEW q \in Pods
      PROVE  /\ Rows(q)' # {} => pod'[q] = "active"
             /\ active'[q] \subseteq Rows(q)'
             /\ \A v \in Users : role'[q][v] = "none" <=> v \notin Rows(q)'
  <2>1. CASE q = p
    <3>1. joined'[p][u] > 0 /\ u \in Rows(p)' /\ pod'[p] = "active"
      BY DEF CreatePod
    <3>2. \A v \in Users \ {u} : joined[p][v] = 0 /\ joined'[p][v] = 0
      <4>1. Rows(p) = {} /\ joined[p] \in [Users -> Nat]
        BY DEF CreatePod
      <4>2. \A v \in Users : joined[p][v] = 0
        BY <4>1
      <4>3. \A v \in Users \ {u} : joined'[p][v] = joined[p][v]
        BY DEF CreatePod
      <4> QED BY <4>2, <4>3
    <3>3. active'[p] = {u} /\ role'[p][u] = "owner"
      BY DEF CreatePod
    <3>4. \A v \in Users \ {u} : role'[p][v] = "none"
      BY <3>2 DEF CreatePod
    <3> QED BY <2>1, <3>1, <3>2, <3>3, <3>4
  <2>2. CASE q # p
    BY <2>2 DEF CreatePod
  <2> QED BY <2>1, <2>2
<1> QED
  BY <1>1, <1>2

LEMMA JoinPodTInv ==
    ASSUME TInv, NEW u \in Users, NEW p \in Pods, JoinPod(u, p)
    PROVE  TInv'
<1> USE DEF TInv, TypeOK, RowsTied, Rows, Roles
<1>2. Rows(p)' = Rows(p) \cup {u} /\ \A q \in Pods \ {p} : Rows(q)' = Rows(q)
  BY DEF JoinPod
<1>1. TypeOK'
  <2>1. joined' \in [Pods -> [Users -> Nat]] /\ inserted' \in [Pods -> Nat]
    <3>1. CASE u \in Rows(p)
      <4>1. joined' = joined /\ inserted' = inserted
        BY <3>1 DEF JoinPod
      <4> QED BY <4>1
    <3>2. CASE u \notin Rows(p)
      <4>1. /\ inserted' = [inserted EXCEPT ![p] = @ + 1]
            /\ joined' = [joined EXCEPT ![p][u] = inserted[p] + 1]
        BY <3>2 DEF JoinPod
      <4>2. inserted[p] + 1 \in Nat
        OBVIOUS
      <4> QED BY <4>1, <4>2
    <3> QED BY <3>1, <3>2
  <2>2. role' \in [Pods -> [Users -> Roles \cup {"none"}]]
    BY DEF JoinPod
  <2>3. active' \in [Pods -> SUBSET Users]
    BY DEF JoinPod
  <2> QED BY <1>2, <2>1, <2>2, <2>3 DEF JoinPod
<1>3. RowsTied'
  <2> SUFFICES ASSUME NEW q \in Pods
               PROVE  /\ Rows(q)' # {} => pod'[q] = "active"
                      /\ active'[q] \subseteq Rows(q)'
                      /\ \A v \in Users : role'[q][v] = "none" <=> v \notin Rows(q)'
    BY DEF RowsTied
  <2>1. CASE q = p
    BY <1>2, <2>1 DEF JoinPod
  <2>2. CASE q # p
    BY <1>2, <2>2 DEF JoinPod
  <2> QED BY <2>1, <2>2
<1> QED
  BY <1>1, <1>3

LEMMA LeavePodTInv ==
    ASSUME TInv, NEW u \in Users, NEW p \in Pods, LeavePod(u, p)
    PROVE  TInv'
<1> DEFINE heir == Earliest(p, active[p] \ {u})
<1>1. heir \in active[p] \ {u}
  BY EarliestIn DEF LeavePod, TInv, TypeOK
<1>2. heir \in Users /\ heir \in Rows(p)
  BY <1>1 DEF TInv, TypeOK, RowsTied
<1>3. role' = role \/ role' = [role EXCEPT ![p][heir] = "owner"]
  BY DEF LeavePod
<1> HIDE DEF heir
<1>4. \A q \in Pods : Rows(q)' = Rows(q)
  BY DEF LeavePod, Rows
<1>5. active' = [active EXCEPT ![p] = @ \ {u}] /\ UNCHANGED <<accounts, pod, creator, inserted, joined>>
  BY DEF LeavePod
<1>6. /\ role' \in [Pods -> [Users -> Roles \cup {"none"}]]
      /\ \A q \in Pods, v \in Users : role'[q][v] = "none" <=> role[q][v] = "none"
  <2>1. role \in [Pods -> [Users -> Roles \cup {"none"}]] /\ role[p][heir] # "none"
    BY <1>2 DEF TInv, TypeOK, RowsTied
  <2>2. CASE role' = role
    BY <2>1, <2>2
  <2>3. CASE role' = [role EXCEPT ![p][heir] = "owner"]
    BY <1>2, <2>1, <2>3 DEF Roles
  <2> QED BY <1>3, <2>2, <2>3
<1>7. /\ active' \in [Pods -> SUBSET Users]
      /\ \A q \in Pods : active'[q] \subseteq active[q]
  BY <1>5 DEF TInv, TypeOK
<1> QED
  BY <1>4, <1>5, <1>6, <1>7 DEF TInv, TypeOK, RowsTied

LEMMA RoleOrActiveTInv ==
    ASSUME TInv, NEW u, NEW p \in Pods, NEW t \in Users,
           \/ \E r \in Roles : UpdateMemberRole(u, p, t, r)
           \/ \E on \in BOOLEAN : ToggleMemberActive(u, p, t, on)
    PROVE  TInv'
<1> USE DEF TInv, TypeOK, RowsTied, Rows, Roles
<1>1. CASE \E r \in Roles : UpdateMemberRole(u, p, t, r)
  BY <1>1 DEF UpdateMemberRole
<1>2. CASE \E on \in BOOLEAN : ToggleMemberActive(u, p, t, on)
  BY <1>2 DEF ToggleMemberActive
<1> QED
  BY <1>1, <1>2

LEMMA RemovePodTInv ==
    ASSUME TInv, NEW p \in Pods, RemovePod(p)
    PROVE  TInv'
BY DEF TInv, TypeOK, RowsTied, Rows, Roles, NoRows, NoRoles, RemovePod

\* The commit of an account's deletion, whatever it found alone, and whoever it
\* found to inherit and is still there.
LEMMA EraseTInv ==
    ASSUME TInv, NEW u \in Users, NEW alone, NEW heir,
           \A p \in Pods : heir[p] \in Rows(p) \cup {Nobody}, Erase(u, alone, heir)
    PROVE  /\ TInv'
           /\ \A p \in Pods : Rows(p)' = IF p \in alone THEN {} ELSE Rows(p) \ {u}
<1>1. \A p \in Pods : \A v \in Users :
          joined'[p][v] = IF p \in alone \/ v = u THEN 0 ELSE joined[p][v]
  BY DEF Erase
<1>2. ASSUME NEW p \in Pods
      PROVE  Rows(p)' = IF p \in alone THEN {} ELSE Rows(p) \ {u}
  BY <1>1 DEF Rows
<1>3. ASSUME NEW p \in Pods
      PROVE  active'[p] = IF p \in alone THEN {} ELSE active[p] \ {u}
  BY DEF Erase
<1>4. ASSUME NEW p \in Pods, NEW v \in Users
      PROVE  /\ role'[p][v] \in Roles \cup {"none"}
             /\ role'[p][v] = "none" <=> v \notin Rows(p)'
  <2>1. CASE p \in alone \/ v = u
    <3>1. role'[p][v] = "none"
      BY <2>1 DEF Erase
    <3> QED BY <1>2, <2>1, <3>1
  <2>2. CASE ~(p \in alone \/ v = u) /\ v = heir[p]
    <3>1. role'[p][v] = "owner"
      BY <2>2 DEF Erase
    <3>2. v \in Rows(p)
      BY <2>2, NobodyAssumption
    <3> QED BY <1>2, <2>2, <3>1, <3>2 DEF Roles
  <2>3. CASE ~(p \in alone \/ v = u) /\ v # heir[p]
    <3>1. role'[p][v] = role[p][v]
      BY <2>3 DEF Erase
    <3> QED BY <1>2, <2>3, <3>1 DEF TInv, TypeOK, RowsTied
  <2> QED BY <2>1, <2>2, <2>3
<1>5. TypeOK'
  <2>1. role' \in [Pods -> [Users -> Roles \cup {"none"}]]
    <3>1. role' = [p \in Pods |-> [v \in Users |-> role'[p][v]]]
      BY DEF Erase
    <3> QED BY <1>4, <3>1
  <2>2. creator' \in [Pods -> accounts' \cup {Nobody}]
    BY DEF Erase, CreatorLeft, TInv, TypeOK
  <2>3. joined' \in [Pods -> [Users -> Nat]]
    BY DEF Erase, TInv, TypeOK
  <2>4. active' \in [Pods -> SUBSET Users]
    BY DEF Erase, TInv, TypeOK
  <2>5. pod' \in [Pods -> {"unused", "active", "deleted"}]
    BY DEF Erase, TInv, TypeOK
  <2>6. \A p \in Pods : Rows(p)' \subseteq accounts'
    BY <1>2 DEF Erase, TInv, TypeOK
  <2> QED BY <2>1, <2>2, <2>3, <2>4, <2>5, <2>6 DEF Erase, TInv, TypeOK
<1>6. RowsTied'
  <2> SUFFICES ASSUME NEW p \in Pods
               PROVE  /\ Rows(p)' # {} => pod'[p] = "active"
                      /\ active'[p] \subseteq Rows(p)'
    BY <1>4 DEF RowsTied
  <2>1. p \notin alone => pod'[p] = pod[p]
    BY DEF Erase
  <2>2. /\ Rows(p) # {} => pod[p] = "active"
        /\ active[p] \subseteq Rows(p)
    BY DEF TInv, RowsTied
  <2>3. Rows(p)' = IF p \in alone THEN {} ELSE Rows(p) \ {u}
    BY <1>2
  <2> QED BY <1>3, <2>1, <2>2, <2>3
<1> QED
  BY <1>2, <1>5, <1>6 DEF TInv

LEMMA DeleteUserTInv ==
    ASSUME TInv, NEW u \in Users, DeleteUser(u)
    PROVE  /\ TInv'
           /\ \A p \in Pods : Rows(p)' = Rows(p) \ {u}
<1> DEFINE alone == {p \in Pods : u \in Rows(p) /\ Alone(p)}
           heir == [p \in Pods |-> IF role[p][u] = "owner" /\ ~Alone(p) THEN Heir(u, p) ELSE Nobody]
<1>1. Erase(u, alone, heir)
  BY DEF DeleteUser
<1>2. ASSUME NEW p \in Pods PROVE heir[p] \in Rows(p) \cup {Nobody}
  <2>1. role[p][u] = "owner" => u \in Rows(p)
    BY DEF TInv, RowsTied
  <2>2. role[p][u] = "owner" /\ ~Alone(p) => Rows(p) \ {u} # {}
    BY <2>1 DEF Alone
  <2>3. Rows(p) \ {u} \in SUBSET Users
    BY DEF Rows
  <2>4. role[p][u] = "owner" /\ ~Alone(p) => Heir(u, p) \in Rows(p)
    BY <2>2, <2>3, EarliestIn DEF Heir, TInv
  <2>5. heir[p] = IF role[p][u] = "owner" /\ ~Alone(p) THEN Heir(u, p) ELSE Nobody
    OBVIOUS
  <2> HIDE DEF heir
  <2> QED BY <2>4, <2>5
<1>3. \A p \in alone : Rows(p) \ {u} = {}
  BY DEF Alone
<1> HIDE DEF alone, heir
<1> QED
  BY <1>1, <1>2, <1>3, EraseTInv

LEMMA NextTInv == TInv /\ [Next]_vars => TInv'
<1> SUFFICES ASSUME TInv, [Next]_vars PROVE TInv'
  OBVIOUS
<1>1. ASSUME NEW u \in Users, NEW p \in Pods,
             \/ CreatePod(u, p) \/ JoinPod(u, p) \/ DeletePod(u, p)
             \/ LeavePod(u, p) \/ AdminLeavePod(u, p)
      PROVE  TInv'
  BY <1>1, CreatePodTInv, JoinPodTInv, LeavePodTInv, RemovePodTInv DEF DeletePod, AdminLeavePod
<1>2. ASSUME NEW u \in Users, NEW t \in Users, NEW p \in Pods, NEW r \in Roles,
             UpdateMemberRole(u, p, t, r)
      PROVE  TInv'
  BY <1>2, RoleOrActiveTInv
<1>3. ASSUME NEW u \in Users, NEW t \in Users, NEW p \in Pods, NEW on \in BOOLEAN,
             ToggleMemberActive(u, p, t, on)
      PROVE  TInv'
  BY <1>3, RoleOrActiveTInv
<1>4. ASSUME NEW p \in Pods, AdminDeletePod(p) PROVE TInv'
  BY <1>4, RemovePodTInv DEF AdminDeletePod
<1>5. ASSUME NEW u \in Users, DeleteUser(u) PROVE TInv'
  BY <1>5, DeleteUserTInv
<1>6. CASE UNCHANGED vars
  BY <1>6 DEF TInv, TypeOK, RowsTied, Rows, vars
<1> QED
  BY <1>1, <1>2, <1>3, <1>4, <1>5, <1>6 DEF Next

\* One request at a time, no pod is left without a row.
LEMMA NextInhabited == IInv /\ [Next]_vars => Inhabited'
<1> SUFFICES ASSUME IInv, [Next]_vars, NEW q \in Pods, pod'[q] = "active"
             PROVE  Rows(q)' # {}
  BY DEF Inhabited
<1>0. TypeOK /\ (pod[q] = "active" => Rows(q) # {})
  BY DEF IInv, TInv, Inhabited
<1>1. ASSUME NEW u \in Users, NEW p \in Pods, CreatePod(u, p) PROVE Rows(q)' # {}
  <2>1. CASE q = p
    <3>1. joined'[p][u] > 0
      BY <1>0, <1>1 DEF CreatePod, TypeOK
    <3> QED BY <2>1, <3>1 DEF Rows
  <2>2. CASE q # p
    BY <1>0, <1>1, <2>2 DEF CreatePod, TypeOK, Rows
  <2> QED BY <2>1, <2>2
<1>2. ASSUME NEW u \in Users, NEW p \in Pods, JoinPod(u, p) PROVE Rows(q)' # {}
  <2>1. Rows(q) \subseteq Rows(q)' /\ pod' = pod
    <3>1. CASE u \in Rows(p)
      <4>1. joined' = joined
        BY <1>2, <3>1 DEF JoinPod
      <4> QED BY <1>2, <4>1 DEF JoinPod, Rows
    <3>2. CASE u \notin Rows(p)
      <4>1. joined' = [joined EXCEPT ![p][u] = inserted[p] + 1]
        BY <1>2, <3>2 DEF JoinPod
      <4>2. \A v \in Users : joined[q][v] > 0 => joined'[q][v] > 0
        BY <1>0, <4>1 DEF TypeOK
      <4> QED BY <1>2, <4>2 DEF JoinPod, Rows
    <3> QED BY <3>1, <3>2
  <2> QED BY <1>0, <2>1
<1>3. CASE UNCHANGED <<pod, joined>>
  BY <1>0, <1>3 DEF Rows
<1>4. ASSUME NEW p \in Pods, RemovePod(p) PROVE Rows(q)' # {}
  BY <1>0, <1>4 DEF RemovePod, Rows, TypeOK
<1>5. ASSUME NEW u \in Users, DeleteUser(u) PROVE Rows(q)' # {}
  <2>1. Rows(q)' = Rows(q) \ {u}
    BY <1>5, DeleteUserTInv DEF IInv
  <2>2. pod[q] = "active" /\ ~(u \in Rows(q) /\ Alone(q))
    <3> DEFINE alone == {p \in Pods : u \in Rows(p) /\ Alone(p)}
    <3>1. pod' = [p \in Pods |-> IF p \in alone THEN "deleted" ELSE pod[p]]
      BY <1>5 DEF DeleteUser, Erase
    <3>2. q \in alone <=> u \in Rows(q) /\ Alone(q)
      OBVIOUS
    <3> HIDE DEF alone
    <3> QED BY <3>1, <3>2
  <2>3. Rows(q) # {} /\ Rows(q) # {u}
    BY <1>0, <1>5, <2>2 DEF Alone
  <2> QED BY <2>1, <2>3
<1>6. \/ \E u \in Users, p \in Pods : CreatePod(u, p) \/ JoinPod(u, p)
      \/ \E p \in Pods : RemovePod(p)
      \/ \E u \in Users : DeleteUser(u)
      \/ UNCHANGED <<pod, joined>>
  BY DEF Next, vars, LeavePod, AdminLeavePod, DeletePod, AdminDeletePod, UpdateMemberRole,
         ToggleMemberActive
<1> QED
  BY <1>1, <1>2, <1>3, <1>4, <1>5, <1>6

LEMMA NextIInv == IInv /\ [Next]_vars => IInv'
BY NextTInv, NextInhabited DEF IInv

LEMMA Invariant == Spec => []IInv
BY InitIInv, NextIInv, PTL DEF Spec

\* Every row keeps the columns of its table, and no row outlives its account.
THEOREM TypeCorrect == Spec => []TypeOK
BY Invariant, PTL DEF IInv, TInv

\* A pod exists exactly while somebody has a row in it: no order of requests
\* and account deletions leaves an empty pod or a row without its pod.
THEOREM RowsStayConsistent == Spec => []RowsConsistent
<1>1. IInv => RowsConsistent
  BY DEF IInv, TInv, Inhabited, RowsConsistent
<1> QED
  BY <1>1, Invariant, PTL

-----------------------------------------------------------------------------
(* Owners and last members *)

OwnerKeptStep ==
    \A p \in Pods :
        Owners(p) # {} /\ Owners(p)' = {} =>
            \/ pod'[p] = "deleted"
            \/ accounts' # accounts
            \/ \E u \in Owners(p) : u \in active'[p] /\ role'[p][u] # "owner"

LEMMA LeaveKeepsOwner ==
    ASSUME IInv, NEW u \in Users, NEW p \in Pods, LeavePod(u, p),
           NEW q \in Pods, Owners(q) # {}
    PROVE  Owners(q)' # {}
<1> DEFINE heir == Earliest(p, active[p] \ {u})
<1>1. heir \in active[p] \ {u} /\ heir \in Users
  <2>1. active[p] \ {u} \in SUBSET Users /\ active[p] \ {u} # {}
    BY DEF LeavePod, IInv, TInv, TypeOK
  <2> QED BY <2>1, EarliestIn DEF IInv, TInv
<1>2. active' = [active EXCEPT ![p] = @ \ {u}]
  BY DEF LeavePod
<1>3. role' = IF role[p][u] = "owner" THEN [role EXCEPT ![p][heir] = "owner"] ELSE role
  BY DEF LeavePod
<1> HIDE DEF heir
<1>4. CASE q = p /\ role[p][u] = "owner"
  <2>1. heir \in active'[p] /\ role'[p][heir] = "owner"
    BY <1>1, <1>2, <1>3, <1>4 DEF IInv, TInv, TypeOK
  <2> QED BY <1>4, <2>1 DEF Owners
<1>5. CASE ~(q = p /\ role[p][u] = "owner")
  <2> PICK v \in active[q] : role[q][v] = "owner"
    BY DEF Owners
  <2>1. v \in active'[q]
    BY <1>2, <1>5 DEF IInv, TInv, TypeOK
  <2>2. role'[q][v] = "owner"
    <3>1. CASE q = p
      BY <1>3, <1>5, <3>1
    <3>2. CASE q # p
      BY <1>3, <3>2 DEF IInv, TInv, TypeOK
    <3> QED BY <3>1, <3>2
  <2> QED BY <2>1, <2>2 DEF Owners
<1> QED
  BY <1>4, <1>5

LEMMA NextOwnerKept == IInv /\ [Next]_vars => OwnerKeptStep
<1> SUFFICES ASSUME IInv, [Next]_vars, NEW q \in Pods, Owners(q) # {}
             PROVE  \/ Owners(q)' # {}
                    \/ pod'[q] = "deleted"
                    \/ accounts' # accounts
                    \/ \E u \in Owners(q) : u \in active'[q] /\ role'[q][u] # "owner"
  BY DEF OwnerKeptStep
<1> USE DEF Owners, IInv, TInv, TypeOK, RowsTied
<1>1. ASSUME NEW u \in Users, NEW p \in Pods, CreatePod(u, p)
      PROVE  Owners(q)' # {}
  <2>1. active[p] = {}
    BY <1>1 DEF CreatePod
  <2>2. q # p
    BY <2>1
  <2>3. active'[q] = active[q] /\ role'[q] = role[q]
    BY <1>1, <2>2 DEF CreatePod
  <2> QED BY <2>3
<1>2. ASSUME NEW u \in Users, NEW p \in Pods, JoinPod(u, p)
      PROVE  Owners(q)' # {}
  <2> PICK v \in active[q] : role[q][v] = "owner"
    OBVIOUS
  <2>1. v \in active'[q]
    BY <1>2 DEF JoinPod
  <2>2. role'[q][v] = "owner"
    BY <1>2 DEF JoinPod
  <2> QED BY <2>1, <2>2
<1>3. ASSUME NEW u \in Users, NEW p \in Pods, LeavePod(u, p)
      PROVE  Owners(q)' # {}
  BY <1>3, LeaveKeepsOwner
<1>4. ASSUME NEW p \in Pods, RemovePod(p)
      PROVE  Owners(q)' # {} \/ pod'[q] = "deleted"
  BY <1>4 DEF RemovePod
<1>5. ASSUME NEW u \in Users, NEW t \in Users, NEW p \in Pods, NEW r \in Roles,
             UpdateMemberRole(u, p, t, r)
      PROVE  \/ Owners(q)' # {}
             \/ \E v \in Owners(q) : v \in active'[q] /\ role'[q][v] # "owner"
  <2> PICK v \in active[q] : role[q][v] = "owner"
    OBVIOUS
  <2>1. v \in active'[q]
    BY <1>5 DEF UpdateMemberRole
  <2> QED BY <2>1
<1>6. ASSUME NEW u \in Users, NEW t \in Users, NEW p \in Pods, NEW on \in BOOLEAN,
             ToggleMemberActive(u, p, t, on)
      PROVE  Owners(q)' # {}
  <2>1. CASE q = p
    <3>1. u \in active'[p] /\ role'[p][u] = "owner"
      BY <1>6 DEF ToggleMemberActive
    <3> QED BY <2>1, <3>1
  <2>2. CASE q # p
    BY <1>6, <2>2 DEF ToggleMemberActive
  <2> QED BY <2>1, <2>2
<1>7. ASSUME NEW u \in Users, DeleteUser(u)
      PROVE  accounts' # accounts
  BY <1>7 DEF DeleteUser, Erase
<1>8. CASE UNCHANGED vars
  BY <1>8 DEF vars
<1> HIDE DEF Owners, IInv, TInv, TypeOK, RowsTied
<1> QED
  BY <1>1, <1>2, <1>3, <1>4, <1>5, <1>6, <1>7, <1>8 DEF Next, DeletePod, AdminDeletePod, AdminLeavePod

\* Whoever leaves, in whatever order, an owned pod keeps an active owner until
\* an owner gives the role away by hand or an account or the pod is deleted.
THEOREM OwnersHandOver == Spec => OwnerKept
<1>1. IInv /\ IInv' /\ [Next]_vars => [OwnerKeptStep]_vars
  BY NextOwnerKept
<1> QED
  BY <1>1, Invariant, PTL DEF Spec, OwnerKept, OwnerKeptStep

LastMemberStaysStep ==
    \A p \in Pods :
        active[p] # {} /\ active'[p] = {} => pod'[p] = "deleted" \/ accounts' # accounts

LEMMA NextLastMemberStays == IInv /\ [Next]_vars => LastMemberStaysStep
<1> SUFFICES ASSUME IInv, [Next]_vars, NEW q \in Pods, active[q] # {}
             PROVE  active'[q] # {} \/ pod'[q] = "deleted" \/ accounts' # accounts
  BY DEF LastMemberStaysStep
<1> USE DEF IInv, TInv, TypeOK
<1>1. ASSUME NEW u \in Users, NEW p \in Pods, CreatePod(u, p) PROVE active'[q] # {}
  BY <1>1 DEF CreatePod
<1>2. ASSUME NEW u \in Users, NEW p \in Pods, JoinPod(u, p) PROVE active'[q] # {}
  BY <1>2 DEF JoinPod
<1>3. ASSUME NEW u \in Users, NEW p \in Pods, LeavePod(u, p) PROVE active'[q] # {}
  BY <1>3 DEF LeavePod
<1>4. ASSUME NEW p \in Pods, RemovePod(p) PROVE active'[q] # {} \/ pod'[q] = "deleted"
  BY <1>4 DEF RemovePod
<1>5. ASSUME NEW u \in Users, NEW t \in Users, NEW p \in Pods, NEW r \in Roles,
             UpdateMemberRole(u, p, t, r)
      PROVE  active'[q] # {}
  BY <1>5 DEF UpdateMemberRole
<1>6. ASSUME NEW u \in Users, NEW t \in Users, NEW p \in Pods, NEW on \in BOOLEAN,
             ToggleMemberActive(u, p, t, on)
      PROVE  active'[q] # {}
  BY <1>6 DEF ToggleMemberActive, Owners
<1>7. ASSUME NEW u \in Users, DeleteUser(u) PROVE accounts' # accounts
  BY <1>7 DEF DeleteUser, Erase
<1>8. CASE UNCHANGED vars
  BY <1>8 DEF vars
<1> QED
  BY <1>1, <1>2, <1>3, <1>4, <1>5, <1>6, <1>7, <1>8 DEF Next, DeletePod, AdminDeletePod, AdminLeavePod

\* No request takes the last active member out of a pod, as long as each
\* counts and writes in one go.
THEOREM PodsStayInhabited == Spec => LastMemberStays
<1>1. IInv /\ IInv' /\ [Next]_vars => [LastMemberStaysStep]_vars
  BY NextLastMemberStays
<1> QED
  BY <1>1, Invariant, PTL DEF Spec, LastMemberStays, LastMemberStaysStep

OwnerSucceededStep ==
    \A p \in Pods : \A u \in accounts \ accounts' :
        role[p][u] = "owner" =>
            Rows(p)' = {} \/ \E v \in accounts' : role'[p][v] = "owner"

LEMMA NextOwnerSucceeded == IInv /\ [Next]_vars => OwnerSucceededStep
<1> SUFFICES ASSUME IInv, [Next]_vars, NEW p \in Pods, NEW u \in accounts \ accounts',
                    role[p][u] = "owner", Rows(p)' # {}
             PROVE  \E v \in accounts' : role'[p][v] = "owner"
  BY DEF OwnerSucceededStep
<1>1. u \in Users /\ DeleteUser(u)
  <2>1. accounts' # accounts /\ u \in accounts
    OBVIOUS
  <2>2. \E w \in Users : DeleteUser(w)
    BY <2>1 DEF Next, vars, CreatePod, JoinPod, LeavePod, AdminLeavePod, DeletePod,
                AdminDeletePod, RemovePod, UpdateMemberRole, ToggleMemberActive
  <2>3. PICK w \in Users : DeleteUser(w)
    BY <2>2
  <2>4. u = w
    BY <2>1, <2>3 DEF DeleteUser, Erase
  <2> QED BY <2>3, <2>4
<1>2. Rows(p)' = Rows(p) \ {u} /\ u \in Rows(p) /\ Rows(p) \in SUBSET Users
  BY <1>1, DeleteUserTInv DEF Rows, IInv, TInv, RowsTied
<1>3. Heir(u, p) \in Rows(p) \ {u}
  BY <1>2, EarliestIn DEF Heir, IInv, TInv
<1>4. ~Alone(p)
  BY <1>2 DEF Alone
<1>5. role'[p][Heir(u, p)] = "owner"
  BY <1>1, <1>2, <1>3, <1>4 DEF DeleteUser, Erase
<1>6. Heir(u, p) \in accounts'
  BY <1>1, <1>3 DEF DeleteUser, Erase, IInv, TInv, TypeOK
<1> QED
  BY <1>5, <1>6

\* An account is never deleted without leaving each pod it owned, and that
\* survives it, to another owner's row.
THEOREM AccountsHandOver == Spec => OwnerSucceeded
<1>1. IInv /\ IInv' /\ [Next]_vars => [OwnerSucceededStep]_vars
  BY NextOwnerSucceeded
<1> QED
  BY <1>1, Invariant, PTL DEF Spec, OwnerSucceeded, OwnerSucceededStep

-----------------------------------------------------------------------------
(* Requests in flight: any number of them *)

\* What a handler may hold between two awaits.
LeavingRows  == [pc : {"leaving", "heir"}, user : Users, pod : Pods, owner : BOOLEAN]
LeftRows     == [pc : {"left"}, user : Users, pod : Pods, heirs : SUBSET Users]
TogglingRows == [pc : {"toggling", "toggled"}, user : Users, pod : Pods,
                 on : BOOLEAN, was : BOOLEAN, owner : BOOLEAN]
DeletingRows == [pc : {"deleting"}, user : Users, todo : SUBSET Pods, owned : SUBSET Pods,
                 alone : SUBSET Pods, heir : [Pods -> Users \cup {Nobody}]]
SessionRows  == {Idle} \cup LeavingRows \cup LeftRows \cup TogglingRows \cup DeletingRows

SInv == TInv /\ session \in [Requests -> SessionRows]

LEMMA ByStage ==
    ASSUME NEW s \in SessionRows
    PROVE  /\ s.pc \in {"leaving", "heir"} <=> s \in LeavingRows
           /\ s.pc = "left" <=> s \in LeftRows
           /\ s.pc \in {"toggling", "toggled"} <=> s \in TogglingRows
           /\ s.pc = "deleting" <=> s \in DeletingRows
           /\ s.pc = "idle" <=> s = Idle
BY DEF SessionRows, LeavingRows, LeftRows, TogglingRows, DeletingRows, Idle

LEMMA LeavingRow ==
    ASSUME NEW u \in Users, NEW p \in Pods, NEW owner \in BOOLEAN, NEW pc \in {"leaving", "heir"}
    PROVE  LET s == [pc |-> pc, user |-> u, pod |-> p, owner |-> owner]
           IN  /\ s \in LeavingRows /\ s \in SessionRows /\ s # Idle
               /\ s.pc = pc /\ s.user = u /\ s.pod = p /\ s.owner = owner
BY DEF LeavingRows, SessionRows, Idle

LEMMA LeftRow ==
    ASSUME NEW s \in LeavingRows, NEW heirs \in SUBSET Users
    PROVE  LET t == LeaveWriting(s, heirs)
           IN  /\ t \in LeftRows /\ t \in SessionRows /\ t # Idle
               /\ t.pc = "left" /\ t.user = s.user /\ t.pod = s.pod /\ t.heirs = heirs
BY DEF LeavingRows, LeftRows, SessionRows, Idle, LeaveWriting

LEMMA HeirRow ==
    ASSUME NEW s \in LeavingRows
    PROVE  LET t == [s EXCEPT !.pc = "heir"]
           IN  /\ t \in LeavingRows /\ t \in SessionRows /\ t # Idle
               /\ t.pc = "heir" /\ t.user = s.user /\ t.pod = s.pod /\ t.owner = s.owner
BY DEF LeavingRows, SessionRows, Idle

LEMMA TogglingRow ==
    ASSUME NEW u \in Users, NEW p \in Pods,
           NEW on \in BOOLEAN, NEW was \in BOOLEAN, NEW owner \in BOOLEAN
    PROVE  LET s == [pc |-> "toggling", user |-> u, pod |-> p, on |-> on,
                     was |-> was, owner |-> owner]
           IN  /\ s \in TogglingRows /\ s \in SessionRows /\ s # Idle
               /\ s.pc = "toggling" /\ s.user = u /\ s.pod = p
               /\ s.on = on /\ s.was = was /\ s.owner = owner
BY DEF TogglingRows, SessionRows, Idle

LEMMA ToggledRow ==
    ASSUME NEW s \in TogglingRows
    PROVE  LET t == [s EXCEPT !.pc = "toggled"]
           IN  /\ t \in TogglingRows /\ t \in SessionRows /\ t # Idle
               /\ t.pc = "toggled" /\ t.user = s.user /\ t.pod = s.pod
               /\ t.on = s.on /\ t.was = s.was /\ t.owner = s.owner
BY DEF TogglingRows, SessionRows, Idle

LEMMA StepSInv ==
    ASSUME SInv, NEW q \in Requests, NEW s \in SessionRows, Step(q, s)
    PROVE  SInv'
<1>1. TInv'
  BY NextTInv DEF SInv, Step
<1>2. session' = [session EXCEPT ![q] = s]
  BY DEF Step
<1> QED
  BY <1>1, <1>2 DEF SInv

LEMMA LeaveFindSInv ==
    ASSUME SInv, NEW q \in Requests, NEW u \in Users, NEW p \in Pods, LeaveFind(q, u, p)
    PROVE  SInv'
<1> DEFINE owner == role[p][u] = "owner"
           s == [pc |-> "leaving", user |-> u, pod |-> p, owner |-> owner]
<1>1. Step(q, s)
  BY DEF LeaveFind
<1>2. owner \in BOOLEAN
  OBVIOUS
<1> HIDE DEF owner
<1>3. s \in SessionRows
  BY <1>2, LeavingRow
<1> HIDE DEF s
<1> QED
  BY <1>1, <1>3, StepSInv

LEMMA ToggleFindSInv ==
    ASSUME SInv, NEW q \in Requests, NEW u \in Users, NEW t \in Users, NEW p \in Pods,
           NEW on \in BOOLEAN, ToggleFind(q, u, p, t, on)
    PROVE  SInv'
<1> DEFINE was == t \in active[p]
           owner == role[p][t] = "owner"
           s == [pc |-> "toggling", user |-> t, pod |-> p, on |-> on,
                 was |-> was, owner |-> owner]
<1>1. Step(q, s)
  BY DEF ToggleFind
<1>2. was \in BOOLEAN /\ owner \in BOOLEAN
  OBVIOUS
<1> HIDE DEF was, owner
<1>3. s \in SessionRows
  BY <1>2, TogglingRow
<1> HIDE DEF s
<1> QED
  BY <1>1, <1>3, StepSInv

LEMMA LeaveCountSInv ==
    ASSUME SInv, NEW q \in Requests, LeaveCount(q)
    PROVE  SInv'
<1> DEFINE s == session[q]
<1>1. s.pc = "leaving" /\ \E t \in {Idle, [s EXCEPT !.pc = "heir"], LeaveWriting(s, {})} : Step(q, t)
  BY DEF LeaveCount
<1>2. s \in LeavingRows
  BY <1>1, ByStage DEF SInv
<1>3. {Idle, [s EXCEPT !.pc = "heir"], LeaveWriting(s, {})} \subseteq SessionRows
  BY <1>2, HeirRow, LeftRow DEF SessionRows
<1> QED
  BY <1>1, <1>3, StepSInv

LEMMA LeaveHeirSInv ==
    ASSUME SInv, NEW q \in Requests, LeaveHeir(q)
    PROVE  SInv'
<1> DEFINE s == session[q]
           others == active[s.pod] \ {s.user}
           heir == Earliest(s.pod, others)
           heirs == IF others = {} \/ role[s.pod][heir] = "owner" THEN {} ELSE {heir}
<1>1. s.pc = "heir" /\ Step(q, LeaveWriting(s, heirs))
  BY DEF LeaveHeir
<1>2. s \in LeavingRows
  BY <1>1, ByStage DEF SInv
<1>3. s.pod \in Pods /\ others \in SUBSET Users
  BY <1>2 DEF LeavingRows, SInv, TInv, TypeOK
<1>4. others # {} => heir \in Users
  BY <1>3, EarliestIn DEF SInv, TInv
<1>5. heirs \in SUBSET Users
  BY <1>4
<1> HIDE DEF heirs
<1> QED
  BY <1>1, <1>2, <1>5, LeftRow, StepSInv

LEMMA ToggleCountSInv ==
    ASSUME SInv, NEW q \in Requests, ToggleCount(q)
    PROVE  SInv'
<1> DEFINE s == session[q]
<1>1. s.pc = "toggling" /\ \E t \in {Idle, [s EXCEPT !.pc = "toggled"]} : Step(q, t)
  BY DEF ToggleCount
<1>2. s \in TogglingRows
  BY <1>1, ByStage DEF SInv
<1>3. {Idle, [s EXCEPT !.pc = "toggled"]} \subseteq SessionRows
  BY <1>2, ToggledRow DEF SessionRows
<1> QED
  BY <1>1, <1>3, StepSInv

\* The commits find the rows they write, or fail; so they keep the tables in
\* order whatever has been committed since they read.
LEMMA LeaveCommitSInv ==
    ASSUME SInv, NEW q \in Requests, LeaveCommit(q)
    PROVE  SInv'
<1> DEFINE s == session[q]
           p == s.pod
<1>1. s.pc = "left" /\ session' = [session EXCEPT ![q] = Idle]
  BY DEF LeaveCommit
<1>2. s \in LeftRows /\ Idle \in SessionRows
  BY <1>1, ByStage DEF SInv, SessionRows
<1>3. p \in Pods /\ s.user \in Users /\ s.heirs \in SUBSET Users
  BY <1>2 DEF LeftRows
<1>4. TInv'
  <2>1. CASE UNCHANGED vars
    BY <2>1, NextTInv DEF SInv
  <2>2. CASE /\ s.heirs \cup {s.user} \subseteq Rows(p)
             /\ role' = [role EXCEPT ![p] =
                            [v \in Users |-> IF v \in s.heirs THEN "owner" ELSE @[v]]]
             /\ active' = [active EXCEPT ![p] = @ \ {s.user}]
             /\ UNCHANGED <<accounts, pod, creator, inserted, joined>>
    <3>1. \A r \in Pods : Rows(r)' = Rows(r)
      BY <2>2 DEF Rows
    <3>2. \A r \in Pods, v \in Users : role'[r][v] =
              IF r = p /\ v \in s.heirs THEN "owner" ELSE role[r][v]
      BY <2>2, <1>3 DEF SInv, TInv, TypeOK
    <3>3. \A r \in Pods : active'[r] \subseteq active[r]
      BY <2>2, <1>3 DEF SInv, TInv, TypeOK
    <3>4. TypeOK'
      <4>1. role' \in [Pods -> [Users -> Roles \cup {"none"}]]
        BY <2>2, <1>3 DEF SInv, TInv, TypeOK, Roles
      <4>2. active' \in [Pods -> SUBSET Users]
        BY <2>2, <1>3 DEF SInv, TInv, TypeOK
      <4> QED
        BY <2>2, <3>1, <4>1, <4>2 DEF SInv, TInv, TypeOK
    <3>5. RowsTied'
      BY <2>2, <3>1, <3>2, <3>3 DEF SInv, TInv, RowsTied
    <3> QED
      BY <3>4, <3>5 DEF TInv
  <2> QED
    BY <2>1, <2>2 DEF LeaveCommit
<1> QED
  BY <1>1, <1>2, <1>4 DEF SInv

LEMMA ToggleCommitSInv ==
    ASSUME SInv, NEW q \in Requests, ToggleCommit(q)
    PROVE  SInv'
<1> DEFINE s == session[q]
           p == s.pod
<1>1. /\ s.pc = "toggled" /\ session' = [session EXCEPT ![q] = Idle]
      /\ UNCHANGED <<accounts, pod, creator, inserted, joined, role>>
  BY DEF ToggleCommit
<1>2. s \in TogglingRows /\ Idle \in SessionRows
  BY <1>1, ByStage DEF SInv, SessionRows
<1>3. p \in Pods /\ s.user \in Users
  BY <1>2 DEF TogglingRows
<1>4. \A r \in Pods : Rows(r)' = Rows(r)
  BY <1>1 DEF Rows
<1>5. /\ active' \in [Pods -> SUBSET Users]
      /\ \A r \in Pods : active'[r] \subseteq Rows(r)
  <2>1. active \in [Pods -> SUBSET Users] /\ \A r \in Pods : active[r] \subseteq Rows(r)
    BY DEF SInv, TInv, TypeOK, RowsTied
  <2>2. CASE active' = active
    BY <2>1, <2>2
  <2>3. CASE /\ s.user \in Rows(p)
             /\ \/ active' = [active EXCEPT ![p] = @ \cup {s.user}]
                \/ active' = [active EXCEPT ![p] = @ \ {s.user}]
    BY <2>1, <2>3, <1>3
  <2> QED
    BY <2>2, <2>3 DEF ToggleCommit
<1>6. TInv'
  BY <1>1, <1>4, <1>5 DEF SInv, TInv, TypeOK, RowsTied
<1> QED
  BY <1>1, <1>2, <1>6 DEF SInv

LEMMA DeletingRow ==
    ASSUME NEW u \in Users, NEW todo \in SUBSET Pods, NEW owned \in SUBSET Pods,
           NEW alone \in SUBSET Pods, NEW heir \in [Pods -> Users \cup {Nobody}]
    PROVE  LET s == [pc |-> "deleting", user |-> u, todo |-> todo, owned |-> owned,
                     alone |-> alone, heir |-> heir]
           IN  /\ s \in DeletingRows /\ s \in SessionRows /\ s # Idle
               /\ s.pc = "deleting" /\ s.user = u /\ s.todo = todo /\ s.owned = owned
               /\ s.alone = alone /\ s.heir = heir
BY DEF DeletingRows, SessionRows, Idle

\* What one more pod adds to it.
LEMMA ScannedRow ==
    ASSUME TypeOK, NEW s \in DeletingRows, NEW p \in Pods
    PROVE  LET t == Scanned(s, p)
           IN  /\ t \in DeletingRows /\ t \in SessionRows /\ t # Idle
               /\ t.user = s.user /\ t.owned = s.owned /\ t.todo = s.todo \ {p}
               /\ t.alone = IF Alone(p) THEN s.alone \cup {p} ELSE s.alone
               /\ t.heir = IF Alone(p) THEN s.heir
                           ELSE [s.heir EXCEPT ![p] = NewOwner(s, p)]
<1>1. NewOwner(s, p) \in Users \cup {Nobody}
  <2>1. Rows(p) \ {s.user} \in SUBSET Users
    BY DEF Rows
  <2>2. ~(Rows(p) \subseteq {s.user}) => Heir(s.user, p) \in Users
    BY <2>1, EarliestIn DEF Heir
  <2> QED
    BY <2>2 DEF NewOwner
<1>2. CASE Alone(p)
  <2> DEFINE alone == s.alone \cup {p}
  <2>1. Scanned(s, p) = [s EXCEPT !.todo = @ \ {p}, !.alone = alone]
    BY <1>2 DEF Scanned
  <2>2. alone \in SUBSET Pods
    BY DEF DeletingRows
  <2> HIDE DEF alone
  <2>3. /\ Scanned(s, p) \in DeletingRows /\ Scanned(s, p) \in SessionRows
        /\ Scanned(s, p) # Idle
        /\ Scanned(s, p).user = s.user /\ Scanned(s, p).owned = s.owned
        /\ Scanned(s, p).todo = s.todo \ {p}
        /\ Scanned(s, p).alone = alone /\ Scanned(s, p).heir = s.heir
    BY <2>1, <2>2 DEF DeletingRows, SessionRows, Idle
  <2> QED
    BY <1>2, <2>3 DEF alone
<1>3. CASE ~Alone(p)
  <2> DEFINE heir == [s.heir EXCEPT ![p] = NewOwner(s, p)]
  <2>1. Scanned(s, p) = [s EXCEPT !.todo = @ \ {p}, !.heir = heir]
    BY <1>3 DEF Scanned
  <2>2. heir \in [Pods -> Users \cup {Nobody}]
    BY <1>1 DEF DeletingRows
  <2> HIDE DEF heir
  <2>3. /\ Scanned(s, p) \in DeletingRows /\ Scanned(s, p) \in SessionRows
        /\ Scanned(s, p) # Idle
        /\ Scanned(s, p).user = s.user /\ Scanned(s, p).owned = s.owned
        /\ Scanned(s, p).todo = s.todo \ {p}
        /\ Scanned(s, p).alone = s.alone /\ Scanned(s, p).heir = heir
    BY <2>1, <2>2 DEF DeletingRows, SessionRows, Idle
  <2> QED
    BY <1>3, <2>3 DEF heir
<1> QED
  BY <1>2, <1>3

LEMMA DeleteFindSInv ==
    ASSUME SInv, NEW q \in Requests, NEW u \in Users, DeleteFind(q, u)
    PROVE  SInv'
<1> DEFINE todo  == {p \in Pods : u \in Rows(p)}
           owned == {p \in Pods : role[p][u] = "owner"}
           heir  == [p \in Pods |-> Nobody]
           s == [pc |-> "deleting", user |-> u, todo |-> todo, owned |-> owned,
                 alone |-> {}, heir |-> heir]
<1>1. Step(q, s)
  BY DEF DeleteFind
<1>2. todo \in SUBSET Pods /\ owned \in SUBSET Pods /\ heir \in [Pods -> Users \cup {Nobody}]
  OBVIOUS
<1> HIDE DEF todo, owned, heir
<1>3. s \in SessionRows
  BY <1>2, DeletingRow
<1> HIDE DEF s
<1> QED
  BY <1>1, <1>3, StepSInv

LEMMA DeleteScanSInv ==
    ASSUME SInv, NEW q \in Requests, DeleteScan(q)
    PROVE  SInv'
<1>1. session[q] \in DeletingRows
  BY ByStage DEF SInv, DeleteScan
<1>2. PICK p \in session[q].todo : Step(q, Scanned(session[q], p))
  BY DEF DeleteScan
<1>3. p \in Pods
  BY <1>1, <1>2 DEF DeletingRows
<1>4. Scanned(session[q], p) \in SessionRows
  BY <1>1, <1>3, ScannedRow DEF SInv, TInv
<1> QED
  BY <1>2, <1>4, StepSInv

LEMMA DeleteCommitSInv ==
    ASSUME SInv, NEW q \in Requests, DeleteCommit(q)
    PROVE  SInv'
<1> DEFINE s == session[q]
<1>1. s.pc = "deleting" /\ session' = [session EXCEPT ![q] = Idle]
  BY DEF DeleteCommit
<1>2. s \in DeletingRows /\ Idle \in SessionRows
  BY <1>1, ByStage DEF SInv, SessionRows
<1>3. s.user \in Users
  BY <1>2 DEF DeletingRows
<1>4. TInv'
  <2>1. CASE UNCHANGED vars
    BY <2>1, NextTInv DEF SInv
  <2>2. CASE /\ \A p \in Pods : s.heir[p] \in Rows(p) \cup {Nobody}
             /\ Erase(s.user, s.alone, s.heir)
    BY <1>3, <2>2, EraseTInv DEF SInv
  <2> QED
    BY <2>1, <2>2 DEF DeleteCommit
<1> QED
  BY <1>1, <1>2, <1>4 DEF SInv

LEMMA SNextSInv == SInv /\ [SNext]_svars => SInv'
<1> SUFFICES ASSUME SInv, [SNext]_svars PROVE SInv'
  OBVIOUS
<1>1. CASE Whole /\ UNCHANGED session
  <2>1. Next
    BY <1>1 DEF Whole, Next
  <2> QED
    BY <1>1, <2>1, NextTInv DEF SInv
<1>2. ASSUME NEW q \in Requests, Abort(q) PROVE SInv'
  BY <1>2, StepSInv DEF Abort, SessionRows
<1>3. CASE UNCHANGED svars
  BY <1>3, NextTInv DEF svars, SInv
<1> QED
  BY <1>1, <1>2, <1>3, LeaveFindSInv, ToggleFindSInv, LeaveCountSInv, LeaveHeirSInv,
     LeaveCommitSInv, ToggleCountSInv, ToggleCommitSInv, DeleteFindSInv, DeleteScanSInv,
     DeleteCommitSInv DEF SNext

LEMMA InitSInv == SInit => SInv
BY InitIInv DEF SInit, SInv, SessionRows, IInv

LEMMA SessionsInvariant == SSpec => []SInv
BY InitSInv, SNextSInv, PTL DEF SSpec

\* Requests that overlap may leave a pod without members, but never a row without
\* its account or a value no column takes.
THEOREM OverlapsKeepTypes == SSpec => []TypeOK
BY SessionsInvariant, PTL DEF SInv, TInv

\* However many of leave_pod, toggle_member_active and account deletions are in
\* flight, no row is left of a pod that is gone, and only rows are active.
THEOREM OverlapsKeepRows == SSpec => []RowsTied
BY SessionsInvariant, PTL DEF SInv, TInv

-----------------------------------------------------------------------------
(* Requests in flight: one at a time *)

\* What a handler has read is still so when it goes on.
LeavingTrue(s) == s \in LeavingRows =>
    /\ pod[s.pod] = "active"
    /\ s.user \in active[s.pod]
    /\ s.owner = (role[s.pod][s.user] = "owner")
    /\ s.pc = "heir" => s.owner /\ active[s.pod] # {s.user}

Successors(u, p) ==
    LET heir == Earliest(p, active[p] \ {u})
    IN  IF role[p][u] = "owner" /\ role[p][heir] # "owner" THEN {heir} ELSE {}

LeftTrue(s) == s \in LeftRows =>
    /\ pod[s.pod] = "active"
    /\ s.user \in active[s.pod]
    /\ active[s.pod] # {s.user}
    /\ s.heirs = Successors(s.user, s.pod)

TogglingTrue(s) == s \in TogglingRows =>
    /\ \E u \in Owners(s.pod) : s.user # u
    /\ s.user \in Rows(s.pod)
    /\ s.was = (s.user \in active[s.pod])
    /\ s.owner = (role[s.pod][s.user] = "owner")
    /\ s.pc = "toggled" /\ ~s.on /\ s.was => active[s.pod] # {s.user} /\ ~s.owner

DeletingTrue(s) == s \in DeletingRows =>
    /\ s.user \in accounts
    /\ \A p \in s.todo : s.user \in Rows(p)
    /\ s.owned = {p \in Pods : role[p][s.user] = "owner"}
    /\ \A p \in Pods : p \in s.alone <=> p \notin s.todo /\ s.user \in Rows(p) /\ Alone(p)
    /\ \A p \in Pods : s.heir[p] = IF p \notin s.todo /\ s.user \in Rows(p) /\ ~Alone(p)
                                   THEN NewOwner(s, p) ELSE Nobody

StillTrue(s) == LeavingTrue(s) /\ LeftTrue(s) /\ TogglingTrue(s) /\ DeletingTrue(s)

SerialInv ==
    /\ SInv
    /\ \A q, r \in Requests : Busy(q) /\ Busy(r) => q = r
    /\ \A q \in Requests : StillTrue(session[q])

LEMMA IdleTrue == StillTrue(Idle)
BY DEF StillTrue, LeavingTrue, LeftTrue, TogglingTrue, DeletingTrue, Idle,
       LeavingRows, LeftRows, TogglingRows, DeletingRows

LEMMA RoomForOne ==
    ASSUME SerialInv, MaxInFlight = 1, HasRoom
    PROVE  \A q \in Requests : session[q] = Idle
<1> SUFFICES ASSUME NEW q \in Requests, session[q] # Idle PROVE FALSE
  OBVIOUS
<1>1. {r \in Requests : Busy(r)} = {q}
  BY DEF SerialInv, Busy
<1> QED
  BY <1>1, FS_Singleton DEF HasRoom

LEMMA StaysTrue ==
    ASSUME UNCHANGED vars, NEW s, StillTrue(s)
    PROVE  StillTrue(s)'
<1>1. \A u, p : Successors(u, p)' = Successors(u, p)
  BY DEF vars, Successors, Earliest
<1>2. LeavingTrue(s)'
  BY DEF vars, StillTrue, LeavingTrue
<1>3. LeftTrue(s)'
  BY <1>1 DEF vars, StillTrue, LeftTrue
<1>4. TogglingTrue(s)'
  BY DEF vars, StillTrue, TogglingTrue, Owners, Rows
<1>5. DeletingTrue(s)'
  <2>1. /\ \A p \in Pods : Rows(p)' = Rows(p) /\ Alone(p)' = Alone(p)
        /\ \A p \in Pods : NewOwner(s, p)' = NewOwner(s, p)
    BY DEF vars, Rows, Alone, NewOwner, Heir, Earliest
  <2>2. /\ accounts' = accounts /\ role' = role
        /\ DeletingTrue(s)
    BY DEF vars, StillTrue
  <2>3. s \in DeletingRows => s.todo \subseteq Pods
    BY DEF DeletingRows
  <2> QED
    BY <2>1, <2>2, <2>3 DEF DeletingTrue
<1> QED
  BY <1>2, <1>3, <1>4, <1>5 DEF StillTrue

LEMMA StepSerial ==
    ASSUME SerialInv, NEW q \in Requests, NEW s \in SessionRows, Step(q, s), StillTrue(s),
           Busy(q) \/ \A r \in Requests : session[r] = Idle
    PROVE  SerialInv'
<1>1. SInv'
  BY StepSInv DEF SerialInv
<1>2. /\ session' = [session EXCEPT ![q] = s] /\ UNCHANGED vars
      /\ session \in [Requests -> SessionRows]
  BY DEF Step, SerialInv, SInv
<1>3. \A r \in Requests : session'[r] = IF r = q THEN s ELSE session[r]
  BY <1>2
<1>4. \A r \in Requests : r # q => session[r] = Idle
  BY DEF SerialInv, Busy
<1>5. \A r, x \in Requests : Busy(r)' /\ Busy(x)' => r = x
  BY <1>3, <1>4 DEF Busy
<1>6. ASSUME NEW r \in Requests PROVE StillTrue(session[r])'
  <2>1. StillTrue(s)' /\ StillTrue(Idle)'
    BY <1>2, StaysTrue, IdleTrue
  <2>2. session'[r] = s \/ session'[r] = Idle
    BY <1>3, <1>4
  <2> QED
    BY <2>1, <2>2
<1> QED
  BY <1>1, <1>5, <1>6 DEF SerialInv

LEMMA LeaveFindSerial ==
    ASSUME SerialInv, MaxInFlight = 1, NEW q \in Requests, NEW u \in Users, NEW p \in Pods,
           LeaveFind(q, u, p)
    PROVE  SerialInv'
<1> DEFINE owner == role[p][u] = "owner"
           s == [pc |-> "leaving", user |-> u, pod |-> p, owner |-> owner]
<1>1. Step(q, s) /\ pod[p] = "active" /\ u \in active[p] /\ HasRoom
  BY DEF LeaveFind
<1>2. owner \in BOOLEAN /\ owner = (role[p][u] = "owner")
  OBVIOUS
<1> HIDE DEF owner
<1>3. /\ s \in LeavingRows /\ s \in SessionRows
      /\ s.pc = "leaving" /\ s.user = u /\ s.pod = p /\ s.owner = owner
  BY <1>2, LeavingRow
<1> HIDE DEF s
<1>4. s \notin LeftRows /\ s \notin TogglingRows /\ s \notin DeletingRows
  BY <1>3 DEF LeftRows, TogglingRows, DeletingRows
<1>5. StillTrue(s)
  BY <1>1, <1>2, <1>3, <1>4 DEF StillTrue, LeavingTrue, LeftTrue, TogglingTrue, DeletingTrue
<1> QED
  BY <1>1, <1>3, <1>5, RoomForOne, StepSerial

LEMMA ToggleFindSerial ==
    ASSUME SerialInv, MaxInFlight = 1, NEW q \in Requests, NEW u \in Users, NEW t \in Users,
           NEW p \in Pods, NEW on \in BOOLEAN, ToggleFind(q, u, p, t, on)
    PROVE  SerialInv'
<1> DEFINE was == t \in active[p]
           owner == role[p][t] = "owner"
           s == [pc |-> "toggling", user |-> t, pod |-> p, on |-> on,
                 was |-> was, owner |-> owner]
<1>1. Step(q, s) /\ u \in Owners(p) /\ t \in Rows(p) \ {u} /\ HasRoom
  BY DEF ToggleFind
<1>2. /\ was \in BOOLEAN /\ was = (t \in active[p])
      /\ owner \in BOOLEAN /\ owner = (role[p][t] = "owner")
  OBVIOUS
<1> HIDE DEF was, owner
<1>3. /\ s \in TogglingRows /\ s \in SessionRows
      /\ s.pc = "toggling" /\ s.user = t /\ s.pod = p /\ s.was = was /\ s.owner = owner
  BY <1>2, TogglingRow
<1> HIDE DEF s
<1>4. s \notin LeavingRows /\ s \notin LeftRows /\ s \notin DeletingRows
  BY <1>3 DEF LeavingRows, LeftRows, DeletingRows
<1>5. TogglingTrue(s)
  BY <1>1, <1>2, <1>3 DEF TogglingTrue
<1>6. StillTrue(s)
  BY <1>4, <1>5 DEF StillTrue, LeavingTrue, LeftTrue, DeletingTrue
<1> QED
  BY <1>1, <1>3, <1>6, RoomForOne, StepSerial

\* More than one member is left, so the member who leaves is not the only one.
LEMMA NotTheLast ==
    ASSUME NEW S, NEW u, ~(Cardinality(S) <= 1)
    PROVE  S # {u}
<1>1. Cardinality({u}) = 1
  BY FS_Singleton
<1>2. ASSUME S = {u} PROVE FALSE
  <2>1. Cardinality(S) = 1
    BY <1>1, <1>2, Zenon
  <2> QED
    BY <2>1
<1> QED
  BY <1>2

LEMMA LeaveCountSerial ==
    ASSUME SerialInv, NEW q \in Requests, LeaveCount(q)
    PROVE  SerialInv'
<1> DEFINE s == session[q]
           p == s.pod
<1>1. s.pc = "leaving"
  BY DEF LeaveCount
<1>2. s \in LeavingRows /\ Busy(q) /\ LeavingTrue(s)
  BY <1>1, ByStage DEF SerialInv, SInv, StillTrue, Busy, Idle
<1>3. CASE Step(q, Idle)
  BY <1>2, <1>3, IdleTrue, StepSerial DEF SessionRows
<1>4. CASE /\ ~(Cardinality(active[p]) <= 1) /\ s.owner
           /\ Step(q, [s EXCEPT !.pc = "heir"])
  <2> DEFINE t == [s EXCEPT !.pc = "heir"]
  <2>1. /\ t \in LeavingRows /\ t \in SessionRows
        /\ t.pc = "heir" /\ t.user = s.user /\ t.pod = p /\ t.owner = s.owner
    BY <1>2, HeirRow
  <2>2. Step(q, t)
    BY <1>4
  <2> HIDE DEF t
  <2>3. t \notin LeftRows /\ t \notin TogglingRows /\ t \notin DeletingRows
    BY <2>1 DEF LeftRows, TogglingRows, DeletingRows
  <2>4. active[p] # {s.user}
    BY <1>4, NotTheLast
  <2>5. LeavingTrue(t)
    BY <1>2, <1>4, <2>1, <2>4 DEF LeavingTrue
  <2>6. StillTrue(t)
    BY <2>3, <2>5 DEF StillTrue, LeftTrue, TogglingTrue, DeletingTrue
  <2> QED
    BY <1>2, <2>1, <2>2, <2>6, StepSerial
<1>5. CASE /\ ~(Cardinality(active[p]) <= 1) /\ ~s.owner
           /\ Step(q, LeaveWriting(s, {}))
  <2> DEFINE t == LeaveWriting(s, {})
  <2>1. /\ t \in LeftRows /\ t \in SessionRows
        /\ t.pc = "left" /\ t.user = s.user /\ t.pod = p /\ t.heirs = {}
    BY <1>2, LeftRow
  <2>2. Step(q, t)
    BY <1>5
  <2> HIDE DEF t
  <2>3. t \notin LeavingRows /\ t \notin TogglingRows /\ t \notin DeletingRows
    BY <2>1 DEF LeavingRows, TogglingRows, DeletingRows
  <2>4. active[p] # {s.user}
    BY <1>5, NotTheLast
  <2>5. Successors(s.user, p) = {}
    BY <1>2, <1>5 DEF LeavingTrue, Successors
  <2>6. LeftTrue(t)
    BY <1>2, <2>1, <2>4, <2>5 DEF LeavingTrue, LeftTrue
  <2>7. StillTrue(t)
    BY <2>3, <2>6 DEF StillTrue, LeavingTrue, TogglingTrue, DeletingTrue
  <2> QED
    BY <1>2, <2>1, <2>2, <2>7, StepSerial
<1> QED
  BY <1>3, <1>4, <1>5 DEF LeaveCount

LEMMA LeaveHeirSerial ==
    ASSUME SerialInv, NEW q \in Requests, LeaveHeir(q)
    PROVE  SerialInv'
<1> DEFINE s == session[q]
           p == s.pod
           others == active[p] \ {s.user}
           heir == Earliest(p, others)
           heirs == IF others = {} \/ role[p][heir] = "owner" THEN {} ELSE {heir}
           t == LeaveWriting(s, heirs)
<1>1. s.pc = "heir" /\ Step(q, t)
  BY DEF LeaveHeir
<1>2. s \in LeavingRows /\ Busy(q) /\ LeavingTrue(s)
  BY <1>1, ByStage DEF SerialInv, SInv, StillTrue, Busy, Idle
<1>3. /\ p \in Pods /\ s.user \in active[p] /\ active[p] # {s.user}
      /\ pod[p] = "active" /\ role[p][s.user] = "owner"
  BY <1>1, <1>2 DEF LeavingRows, LeavingTrue
<1>4. others # {} /\ heir \in Users
  <2>1. others # {} /\ others \in SUBSET Users
    BY <1>3 DEF SerialInv, SInv, TInv, TypeOK
  <2> QED
    BY <1>3, <2>1, EarliestIn DEF SerialInv, SInv, TInv
<1>5. heirs \in SUBSET Users /\ heirs = Successors(s.user, p)
  BY <1>3, <1>4 DEF Successors
<1> HIDE DEF heirs
<1>6. /\ t \in LeftRows /\ t \in SessionRows
      /\ t.pc = "left" /\ t.user = s.user /\ t.pod = p /\ t.heirs = heirs
  BY <1>2, <1>5, LeftRow
<1> HIDE DEF t
<1>7. t \notin LeavingRows /\ t \notin TogglingRows /\ t \notin DeletingRows
  BY <1>6 DEF LeavingRows, TogglingRows, DeletingRows
<1>8. LeftTrue(t)
  BY <1>3, <1>5, <1>6 DEF LeftTrue
<1>9. StillTrue(t)
  BY <1>7, <1>8 DEF StillTrue, LeavingTrue, TogglingTrue, DeletingTrue
<1> QED
  BY <1>1, <1>2, <1>6, <1>9, StepSerial

LEMMA ToggleCountSerial ==
    ASSUME SerialInv, NEW q \in Requests, ToggleCount(q)
    PROVE  SerialInv'
<1> DEFINE s == session[q]
           p == s.pod
           t == [s EXCEPT !.pc = "toggled"]
<1>1. s.pc = "toggling"
  BY DEF ToggleCount
<1>2. s \in TogglingRows /\ Busy(q) /\ TogglingTrue(s)
  BY <1>1, ByStage DEF SerialInv, SInv, StillTrue, Busy, Idle
<1>3. CASE Step(q, Idle)
  BY <1>2, <1>3, IdleTrue, StepSerial DEF SessionRows
<1>4. CASE /\ ~(~s.on /\ s.was /\ (Cardinality(active[p]) <= 1 \/ s.owner))
           /\ Step(q, t)
  <2>1. /\ t \in TogglingRows /\ t \in SessionRows
        /\ t.pc = "toggled" /\ t.user = s.user /\ t.pod = p
        /\ t.on = s.on /\ t.was = s.was /\ t.owner = s.owner
    BY <1>2, ToggledRow
  <2>2. Step(q, t)
    BY <1>4
  <2> HIDE DEF t
  <2>3. t \notin LeavingRows /\ t \notin LeftRows /\ t \notin DeletingRows
    BY <2>1 DEF LeavingRows, LeftRows, DeletingRows
  <2>4. ~s.on /\ s.was => active[p] # {s.user} /\ ~s.owner
    BY <1>4, NotTheLast
  <2>5. TogglingTrue(t)
    BY <1>2, <2>1, <2>4 DEF TogglingTrue
  <2>6. StillTrue(t)
    BY <2>3, <2>5 DEF StillTrue, LeavingTrue, LeftTrue, DeletingTrue
  <2> QED
    BY <1>2, <2>1, <2>2, <2>6, StepSerial
<1> QED
  BY <1>3, <1>4 DEF ToggleCount

LEMMA DeleteFindSerial ==
    ASSUME SerialInv, MaxInFlight = 1, NEW q \in Requests, NEW u \in Users, DeleteFind(q, u)
    PROVE  SerialInv'
<1> DEFINE todo  == {p \in Pods : u \in Rows(p)}
           owned == {p \in Pods : role[p][u] = "owner"}
           heir  == [p \in Pods |-> Nobody]
           s == [pc |-> "deleting", user |-> u, todo |-> todo, owned |-> owned,
                 alone |-> {}, heir |-> heir]
<1>1. Step(q, s) /\ u \in accounts /\ HasRoom
  BY DEF DeleteFind
<1>2. /\ todo \in SUBSET Pods /\ owned \in SUBSET Pods
      /\ heir \in [Pods -> Users \cup {Nobody}]
  OBVIOUS
<1>3. /\ \A p \in Pods : p \in todo <=> u \in Rows(p)
      /\ owned = {p \in Pods : role[p][u] = "owner"}
      /\ \A p \in Pods : heir[p] = Nobody
  OBVIOUS
<1> HIDE DEF todo, owned, heir
<1>4. /\ s \in DeletingRows /\ s \in SessionRows
      /\ s.pc = "deleting" /\ s.user = u /\ s.todo = todo /\ s.owned = owned
      /\ s.alone = {} /\ s.heir = heir
  BY <1>2, DeletingRow
<1> HIDE DEF s
<1>5. s \notin LeavingRows /\ s \notin LeftRows /\ s \notin TogglingRows
  BY <1>4 DEF LeavingRows, LeftRows, TogglingRows
<1>6. DeletingTrue(s)
  BY <1>1, <1>2, <1>3, <1>4 DEF DeletingTrue
<1>7. StillTrue(s)
  BY <1>5, <1>6 DEF StillTrue, LeavingTrue, LeftTrue, TogglingTrue
<1> QED
  BY <1>1, <1>4, <1>7, RoomForOne, StepSerial

\* Which owner a pod gets depends on the user and the pods that it has owned only.
LEMMA NewOwnerOf ==
    ASSUME NEW s, NEW t, s.user = t.user, s.owned = t.owned, NEW p
    PROVE  NewOwner(t, p) = NewOwner(s, p)
BY DEF NewOwner

LEMMA DeleteScanSerial ==
    ASSUME SerialInv, NEW q \in Requests, DeleteScan(q)
    PROVE  SerialInv'
<1> DEFINE s == session[q]
<1>1. s \in DeletingRows /\ Busy(q) /\ DeletingTrue(s)
  BY ByStage DEF SerialInv, SInv, StillTrue, DeleteScan, Busy, Idle
<1>2. PICK p \in s.todo : Step(q, Scanned(s, p))
  BY DEF DeleteScan
<1>3. p \in Pods /\ s.user \in Rows(p) /\ s.heir \in [Pods -> Users \cup {Nobody}]
  BY <1>1, <1>2 DEF DeletingRows, DeletingTrue
<1> DEFINE t == Scanned(s, p)
<1>4. /\ t \in DeletingRows /\ t \in SessionRows
      /\ t.user = s.user /\ t.owned = s.owned /\ t.todo = s.todo \ {p}
      /\ t.alone = IF Alone(p) THEN s.alone \cup {p} ELSE s.alone
      /\ t.heir = IF Alone(p) THEN s.heir ELSE [s.heir EXCEPT ![p] = NewOwner(s, p)]
  BY <1>1, <1>3, ScannedRow DEF SerialInv, SInv, TInv
<1>5. Step(q, t)
  BY <1>2
<1> HIDE DEF t
<1>6. t \notin LeavingRows /\ t \notin LeftRows /\ t \notin TogglingRows
  BY <1>4 DEF DeletingRows, LeavingRows, LeftRows, TogglingRows
<1>7. DeletingTrue(t)
  <2>1. t.user \in accounts /\ \A r \in t.todo : t.user \in Rows(r)
    BY <1>1, <1>4 DEF DeletingTrue
  <2>2. t.owned = {r \in Pods : role[r][t.user] = "owner"}
    BY <1>1, <1>4 DEF DeletingTrue
  <2>3. \A r \in Pods : r \in t.alone <=> r \notin t.todo /\ t.user \in Rows(r) /\ Alone(r)
    BY <1>1, <1>2, <1>3, <1>4 DEF DeletingTrue
  <2>4. ASSUME NEW r \in Pods
        PROVE  t.heir[r] = IF r \notin t.todo /\ t.user \in Rows(r) /\ ~Alone(r)
                           THEN NewOwner(t, r) ELSE Nobody
    <3>1. NewOwner(t, r) = NewOwner(s, r)
      BY <1>4, NewOwnerOf
    <3>2. s.heir[r] = IF r \notin s.todo /\ s.user \in Rows(r) /\ ~Alone(r)
                      THEN NewOwner(s, r) ELSE Nobody
      BY <1>1 DEF DeletingTrue
    <3>3. CASE r = p
      BY <1>2, <1>3, <1>4, <3>1, <3>2, <3>3
    <3>4. CASE r # p
      BY <1>2, <1>3, <1>4, <3>1, <3>2, <3>4
    <3> QED
      BY <3>3, <3>4
  <2> QED
    BY <2>1, <2>2, <2>3, <2>4 DEF DeletingTrue
<1>8. StillTrue(t)
  BY <1>6, <1>7 DEF StillTrue, LeavingTrue, LeftTrue, TogglingTrue
<1> QED
  BY <1>1, <1>4, <1>5, <1>8, StepSerial

\* The commit of an account's deletion is the whole request: an heir that is an
\* owner already would be written what its row holds.
LEMMA DeleteCommitIsDeleteUser ==
    ASSUME SerialInv, NEW q \in Requests, DeleteCommit(q)
    PROVE  \/ \E u \in Users : DeleteUser(u)
           \/ UNCHANGED vars
<1> DEFINE s == session[q]
           u == s.user
           alone == {p \in Pods : u \in Rows(p) /\ Alone(p)}
           heir == [p \in Pods |-> IF role[p][u] = "owner" /\ ~Alone(p) THEN Heir(u, p)
                                   ELSE Nobody]
<1>1. s \in DeletingRows /\ DeletingTrue(s) /\ s.todo = {}
  BY ByStage DEF SerialInv, SInv, StillTrue, DeleteCommit
<1>2. u \in Users /\ u \in accounts /\ s.alone \in SUBSET Pods
  BY <1>1 DEF DeletingRows, DeletingTrue
<1>3. s.alone = alone
  <2>1. \A p \in Pods : p \in s.alone <=> u \in Rows(p) /\ Alone(p)
    BY <1>1 DEF DeletingTrue
  <2> QED
    BY <1>2, <2>1
<1>4. ASSUME NEW p \in Pods
      PROVE  \/ s.heir[p] = heir[p]
             \/ s.heir[p] = Nobody /\ role[p][heir[p]] = "owner"
  <2>1. /\ p \in s.owned <=> role[p][u] = "owner"
        /\ s.heir[p] = IF u \in Rows(p) /\ ~Alone(p) THEN NewOwner(s, p) ELSE Nobody
    BY <1>1 DEF DeletingTrue
  <2>2. role[p][u] = "owner" => u \in Rows(p)
    BY <1>2 DEF SerialInv, SInv, TInv, RowsTied
  <2>3. u \in Rows(p) /\ ~Alone(p) => ~(Rows(p) \subseteq {u})
    <3> SUFFICES ASSUME u \in Rows(p), Rows(p) \subseteq {u} PROVE Alone(p)
      OBVIOUS
    <3>1. Rows(p) = {u}
      OBVIOUS
    <3> QED
      BY <1>2, <3>1 DEF Alone
  <2>4. heir[p] = IF role[p][u] = "owner" /\ ~Alone(p) THEN Heir(u, p) ELSE Nobody
    OBVIOUS
  <2> HIDE DEF heir
  <2> QED
    BY <2>1, <2>2, <2>3, <2>4 DEF NewOwner
<1>5. CASE Erase(u, s.alone, s.heir)
  <2> HIDE DEF alone, heir
  <2>1. ASSUME NEW p \in Pods, NEW v \in Users
        PROVE  (IF v = s.heir[p] THEN "owner" ELSE role[p][v])
                 = (IF v = heir[p] THEN "owner" ELSE role[p][v])
    BY <1>4, NobodyAssumption
  <2>2. role' = [p \in Pods |-> [v \in Users |->
                    IF p \in alone \/ v = u THEN "none"
                    ELSE IF v = heir[p] THEN "owner" ELSE role[p][v]]]
    BY <1>3, <1>5, <2>1 DEF Erase
  <2>3. Erase(u, alone, heir)
    BY <1>3, <1>5, <2>2 DEF Erase
  <2>4. DeleteUser(u)
    BY <1>2, <2>3 DEF DeleteUser, alone, heir
  <2> QED
    BY <1>2, <2>4
<1> QED
  BY <1>5 DEF DeleteCommit

\* The commit of leave_pod is the whole request.
LEMMA LeaveCommitIsLeavePod ==
    ASSUME SerialInv, NEW q \in Requests, LeaveCommit(q)
    PROVE  \/ \E u \in Users, p \in Pods : LeavePod(u, p)
           \/ UNCHANGED vars
<1> DEFINE s == session[q]
           u == s.user
           p == s.pod
           heir == Earliest(p, active[p] \ {u})
<1>1. s \in LeftRows /\ LeftTrue(s)
  BY ByStage DEF SerialInv, SInv, StillTrue, LeaveCommit
<1>2. /\ u \in Users /\ p \in Pods
      /\ pod[p] = "active" /\ u \in active[p] /\ active[p] # {u}
      /\ s.heirs = Successors(u, p)
  BY <1>1 DEF LeftRows, LeftTrue
<1>3. heir \in Users
  <2>1. active[p] \ {u} # {} /\ active[p] \ {u} \in SUBSET Users
    BY <1>2 DEF SerialInv, SInv, TInv, TypeOK
  <2> QED
    BY <1>2, <2>1, EarliestIn DEF SerialInv, SInv, TInv
<1>4. role \in [Pods -> [Users -> Roles \cup {"none"}]]
  BY DEF SerialInv, SInv, TInv, TypeOK
<1>5. s.heirs = IF role[p][u] = "owner" /\ role[p][heir] # "owner" THEN {heir} ELSE {}
  BY <1>2 DEF Successors
<1> HIDE DEF heir
<1>6. CASE /\ role' = [role EXCEPT ![p] =
                          [v \in Users |-> IF v \in s.heirs THEN "owner" ELSE @[v]]]
           /\ active' = [active EXCEPT ![p] = @ \ {u}]
           /\ UNCHANGED <<accounts, pod, creator, inserted, joined>>
  <2>1. role' = IF role[p][u] = "owner" THEN [role EXCEPT ![p][heir] = "owner"] ELSE role
    <3>1. CASE role[p][u] = "owner" /\ role[p][heir] # "owner"
      <4>1. s.heirs = {heir}
        BY <1>5, <3>1
      <4>2. [v \in Users |-> IF v \in s.heirs THEN "owner" ELSE role[p][v]]
              = [role[p] EXCEPT ![heir] = "owner"]
        BY <1>2, <1>3, <1>4, <4>1
      <4> QED
        BY <1>2, <1>4, <1>6, <3>1, <4>2
    <3>2. CASE ~(role[p][u] = "owner" /\ role[p][heir] # "owner")
      <4>1. s.heirs = {}
        BY <1>5, <3>2
      <4>2. [v \in Users |-> IF v \in s.heirs THEN "owner" ELSE role[p][v]] = role[p]
        BY <1>2, <1>4, <4>1
      <4>3. role' = role
        BY <1>2, <1>4, <1>6, <4>2
      <4>4. role[p][u] = "owner" => [role EXCEPT ![p][heir] = "owner"] = role
        BY <1>2, <1>3, <1>4, <3>2
      <4> QED
        BY <4>3, <4>4
    <3> QED
      BY <3>1, <3>2
  <2>2. LeavePod(u, p)
    BY <1>2, <1>6, <2>1 DEF LeavePod, heir
  <2> QED
    BY <1>2, <2>2
<1> QED
  BY <1>6 DEF LeaveCommit

\* So is that of toggle_member_active, unless there is nothing to change.
LEMMA ToggleCommitIsToggle ==
    ASSUME SerialInv, NEW q \in Requests, ToggleCommit(q)
    PROVE  \/ \E u, t \in Users, p \in Pods, on \in BOOLEAN : ToggleMemberActive(u, p, t, on)
           \/ UNCHANGED vars
<1> DEFINE s == session[q]
           t == s.user
           p == s.pod
           on == s.on
<1>1. s \in TogglingRows /\ TogglingTrue(s) /\ s.pc = "toggled"
  BY ByStage DEF SerialInv, SInv, StillTrue, ToggleCommit
<1>2. t \in Users /\ p \in Pods /\ on \in BOOLEAN /\ s.was \in BOOLEAN
  BY <1>1 DEF TogglingRows
<1>3. PICK u \in Owners(p) : t # u
  BY <1>1 DEF TogglingTrue
<1>4. /\ t \in Rows(p) /\ s.was = (t \in active[p])
      /\ ~on /\ t \in active[p] => active[p] # {t} /\ role[p][t] # "owner"
  BY <1>1 DEF TogglingTrue
<1>5. CASE active' = active
  BY <1>5 DEF ToggleCommit, vars
<1>6. CASE active' = [active EXCEPT ![p] = IF on THEN @ \cup {t} ELSE @ \ {t}]
  <2>1. ToggleMemberActive(u, p, t, on)
    BY <1>3, <1>4, <1>6 DEF ToggleCommit, ToggleMemberActive
  <2>2. u \in Users
    BY <1>2, <1>3 DEF Owners, SerialInv, SInv, TInv, TypeOK
  <2> QED
    BY <1>2, <2>1, <2>2
<1> QED
  BY <1>5, <1>6 DEF ToggleCommit

LEMMA AllIdleSerial ==
    ASSUME SerialInv, SInv', \A r \in Requests : session'[r] = Idle
    PROVE  SerialInv'
<1>1. StillTrue(Idle)'
  BY DEF StillTrue, LeavingTrue, LeftTrue, TogglingTrue, DeletingTrue, Idle,
         LeavingRows, LeftRows, TogglingRows, DeletingRows
<1> QED
  BY <1>1 DEF SerialInv, Busy

LEMMA CommitSerial ==
    ASSUME SerialInv, SInv', NEW q \in Requests, Busy(q),
           session' = [session EXCEPT ![q] = Idle]
    PROVE  SerialInv'
<1>1. session \in [Requests -> SessionRows]
  BY DEF SerialInv, SInv
<1>2. \A r \in Requests : r # q => session[r] = Idle
  BY DEF SerialInv, Busy
<1> QED
  BY <1>1, <1>2, AllIdleSerial

\* Each step keeps what is in flight true, and is a request or none.
LEMMA SerialStep ==
    ASSUME SerialInv, MaxInFlight = 1, [SNext]_svars
    PROVE  SerialInv' /\ [Next]_vars
<1>1. SInv'
  BY SNextSInv DEF SerialInv
<1>2. CASE HasRoom /\ Whole /\ UNCHANGED session
  <2>1. Next
    BY <1>2 DEF Whole, Next
  <2>2. \A r \in Requests : session'[r] = Idle
    BY <1>2, RoomForOne
  <2> QED
    BY <1>1, <2>1, <2>2, AllIdleSerial
<1>3. ASSUME NEW q \in Requests, NEW u \in Users, NEW p \in Pods, LeaveFind(q, u, p)
      PROVE  SerialInv' /\ UNCHANGED vars
  BY <1>3, LeaveFindSerial DEF LeaveFind, Step
<1>4. ASSUME NEW q \in Requests, NEW u \in Users, NEW t \in Users, NEW p \in Pods,
             NEW on \in BOOLEAN, ToggleFind(q, u, p, t, on)
      PROVE  SerialInv' /\ UNCHANGED vars
  BY <1>4, ToggleFindSerial DEF ToggleFind, Step
<1>5. ASSUME NEW q \in Requests, LeaveCount(q) \/ LeaveHeir(q) \/ ToggleCount(q)
      PROVE  SerialInv' /\ UNCHANGED vars
  BY <1>5, LeaveCountSerial, LeaveHeirSerial, ToggleCountSerial
     DEF LeaveCount, LeaveHeir, ToggleCount, Step
<1>6. ASSUME NEW q \in Requests, LeaveCommit(q)
      PROVE  SerialInv' /\ [Next]_vars
  <2>1. Busy(q) /\ session' = [session EXCEPT ![q] = Idle]
    BY <1>6 DEF LeaveCommit, Busy, Idle
  <2> QED
    BY <1>1, <1>6, <2>1, CommitSerial, LeaveCommitIsLeavePod DEF Next
<1>7. ASSUME NEW q \in Requests, ToggleCommit(q)
      PROVE  SerialInv' /\ [Next]_vars
  <2>1. Busy(q) /\ session' = [session EXCEPT ![q] = Idle]
    BY <1>7 DEF ToggleCommit, Busy, Idle
  <2> QED
    BY <1>1, <1>7, <2>1, CommitSerial, ToggleCommitIsToggle DEF Next
<1>10. ASSUME NEW q \in Requests, NEW u \in Users, DeleteFind(q, u)
       PROVE  SerialInv' /\ UNCHANGED vars
  BY <1>10, DeleteFindSerial DEF DeleteFind, Step
<1>11. ASSUME NEW q \in Requests, DeleteScan(q)
       PROVE  SerialInv' /\ UNCHANGED vars
  BY <1>11, DeleteScanSerial DEF DeleteScan, Step
<1>12. ASSUME NEW q \in Requests, DeleteCommit(q)
       PROVE  SerialInv' /\ [Next]_vars
  <2>1. Busy(q) /\ session' = [session EXCEPT ![q] = Idle]
    BY <1>12 DEF DeleteCommit, Busy, Idle
  <2> QED
    BY <1>1, <1>12, <2>1, CommitSerial, DeleteCommitIsDeleteUser DEF Next
<1>8. ASSUME NEW q \in Requests, Abort(q)
      PROVE  SerialInv' /\ UNCHANGED vars
  BY <1>1, <1>8, CommitSerial DEF Abort, Step
<1>9. CASE UNCHANGED svars
  <2>1. UNCHANGED vars /\ session' = session
    BY <1>9 DEF svars
  <2>2. \A q \in Requests : StillTrue(session[q])'
    <3> SUFFICES ASSUME NEW q \in Requests PROVE StillTrue(session[q])'
      OBVIOUS
    <3>1. PICK s : s = session[q]
      OBVIOUS
    <3>2. StillTrue(s)'
      BY <2>1, <3>1, StaysTrue DEF SerialInv
    <3> QED
      BY <2>1, <3>1, <3>2
  <2> QED
    BY <1>1, <2>1, <2>2 DEF SerialInv, Busy
<1> QED
  BY <1>2, <1>3, <1>4, <1>5, <1>6, <1>7, <1>8, <1>9, <1>10, <1>11, <1>12 DEF SNext

LEMMA InitSerial == SInit => SerialInv
BY InitSInv, IdleTrue DEF SInit, SerialInv, Busy

\* One transaction at a time, leave_pod, toggle_member_active and the deletion of an
\* account, taken step by step, are the requests of Membership: every step between
\* the awaits changes no table, and the commit does what the whole request does.
THEOREM SerialRequestsAreAtomic ==
    ASSUME MaxInFlight = 1
    PROVE  SSpec => ImplementsMembership
<1>1. SerialInv /\ [SNext]_svars => SerialInv' /\ [Next]_vars
  BY SerialStep
<1>2. SInit => Init
  BY DEF SInit
<1> QED
  BY <1>1, <1>2, InitSerial, PTL DEF SSpec, ImplementsMembership, Spec

\* So what holds of the requests one by one holds of their steps: a pod is there
\* while it has rows, an owner who leaves hands over, the last active member stays,
\* and a deleted owner's pod has an owner's row. (None of it does when two overlap.)
COROLLARY SerialPodsStayInhabited ==
    ASSUME MaxInFlight = 1
    PROVE  SSpec => []RowsConsistent /\ OwnerKept /\ LastMemberStays /\ OwnerSucceeded
<1>1. SSpec => Spec
  BY SerialRequestsAreAtomic DEF ImplementsMembership
<1> QED
  BY <1>1, RowsStayConsistent, OwnersHandOver, PodsStayInhabited, AccountsHandOver
=============================================================================
