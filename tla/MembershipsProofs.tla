-------------------------- MODULE MembershipsProofs --------------------------
(***************************************************************************)
(* For any number of members and concurrent requests: only owners manage   *)
(* owners, and an organization loses its last active owner only in a race  *)
(* of two requests that remove owners.                                     *)
(*                                                                         *)
(* The row lock keeps what a request has checked about its target true     *)
(* until it commits.  It does not keep the number of owners: that is only  *)
(* right while no second request that removes an owner has counted.        *)
(***************************************************************************)
EXTENDS Memberships, TLAPS

Checked == {q \in Requests : request[q].at = "checked"}

\* A request that has checked its target may still do what it is about to do.
ChecksHold ==
    \A q \in Checked : request[q].op \in {"update", "deactivate"} /\ AdminMay(q)

\* A request that changes a membership has found it.
TargetsExist ==
    \A q \in Requests : request[q].at # "idle" =>
        /\ request[q].target \in Users
        /\ request[q].op # "add" => member[request[q].target].status # "none"

\* Two requests never hold the row of one target.
TargetsExclusive ==
    \A p, q \in Checked : request[p].target = request[q].target => p = q

\* Without a race, one request at most is about to remove an owner, and there
\* is another active owner.
OwnerLeft ==
    ~raced =>
        /\ ActiveOwners # {}
        /\ \A q \in Checked : RemovesOwner(q) => \E u \in ActiveOwners : u # request[q].target
        /\ \A p, q \in Checked : RemovesOwner(p) /\ RemovesOwner(q) => p = q

MemberInv == TypeOK /\ TargetsExist /\ ChecksHold /\ TargetsExclusive /\ OwnerLeft

-----------------------------------------------------------------------------
LEMMA IdleIsARequest == Idle \in RequestStates /\ Idle.at = "idle"
  BY DEF Idle, RequestStates, ManagerRoles, Roles

\* What a request sees of its target depends on that row only.
LEMMA SameTarget ==
    ASSUME NEW q \in Requests, request'[q] = request[q],
           member'[request[q].target] = member[request[q].target]
    PROVE  AdminMay(q)' = AdminMay(q) /\ RemovesOwner(q)' = RemovesOwner(q)
  BY DEF AdminMay, RemovesOwner

LEMMA MemberInit == Init => MemberInv
  <1> SUFFICES ASSUME Init PROVE MemberInv
    OBVIOUS
  <1>1. Checked = {}
    BY IdleIsARequest DEF Init, Checked
  <1>2. ActiveOwners # {}
    BY FounderAssumption DEF Init, ActiveOwners
  <1>3. TypeOK
    BY IdleIsARequest DEF Init, TypeOK, Members, Roles
  <1>4. ChecksHold /\ TargetsExclusive /\ OwnerLeft
    BY <1>1, <1>2 DEF ChecksHold, TargetsExclusive, OwnerLeft
  <1>5. TargetsExist
    BY IdleIsARequest DEF Init, TargetsExist
  <1> QED BY <1>3, <1>4, <1>5 DEF MemberInv

\* A request that leaves the members alone and is not checked afterwards.
LEMMA RequestOnly ==
    ASSUME MemberInv, NEW q \in Requests, NEW r \in RequestStates, r.at # "checked",
           r.at # "idle" => /\ r.target \in Users
                            /\ r.op # "add" => member[r.target].status # "none",
           request' = [request EXCEPT ![q] = r], member' = member, raced' = raced
    PROVE  MemberInv'
  <1>1. request' \in [Requests -> RequestStates] /\ request'[q] = r
        /\ \A p \in Requests \ {q} : request'[p] = request[p]
    BY DEF MemberInv, TypeOK
  <1>2. Checked' \subseteq Checked \ {q}
    BY <1>1 DEF Checked
  <1>3. \A p \in Checked' : /\ request'[p] = request[p]
                            /\ AdminMay(p)' = AdminMay(p) /\ RemovesOwner(p)' = RemovesOwner(p)
    BY <1>1, <1>2, SameTarget DEF Checked
  <1>4. TypeOK'
    BY <1>1 DEF MemberInv, TypeOK
  <1>5. ChecksHold' /\ TargetsExclusive' /\ TargetsExist'
    BY <1>1, <1>2, <1>3 DEF MemberInv, ChecksHold, TargetsExclusive, TargetsExist
  <1>6. OwnerLeft'
    BY <1>2, <1>3 DEF MemberInv, OwnerLeft, ActiveOwners
  <1> QED BY <1>4, <1>5, <1>6 DEF MemberInv

LEMMA AuthorizeStep ==
    ASSUME MemberInv, NEW q \in Requests, NEW u \in Users, NEW target \in Users, NEW role \in Roles,
           NEW op \in {"add", "update", "deactivate"}, Authorize(q, u, op, target, role)
    PROVE  MemberInv'
  <1>1. /\ member[u].role \in ManagerRoles
        /\ op # "add" => member[target].status # "none"
        /\ request' = [request EXCEPT ![q] = Asks(op, member[u].role, target, role)]
    BY DEF Authorize
  <1> DEFINE r == Asks(op, member[u].role, target, role)
  <1>2. r \in RequestStates /\ r.at = "authorized" /\ r.target = target /\ r.op = op
    BY <1>1 DEF RequestStates, Asks
  <1>3. request' = [request EXCEPT ![q] = r] /\ member' = member /\ raced' = raced
    BY <1>1 DEF Authorize
  <1> HIDE DEF r
  <1> QED BY <1>1, <1>2, <1>3, RequestOnly

LEMMA CheckStep ==
    ASSUME MemberInv, NEW q \in Requests, CheckTarget(q)
    PROVE  MemberInv'
  <1>1. CASE request' = [request EXCEPT ![q] = Idle] /\ raced' = raced
    BY <1>1, IdleIsARequest, RequestOnly DEF CheckTarget
  <1>2. CASE ~(request' = [request EXCEPT ![q] = Idle] /\ raced' = raced)
    <2>1. /\ Allowed(q) /\ member' = member /\ request' = [request EXCEPT ![q].at = "checked"]
          /\ request[q].at = "authorized" /\ request[q].op # "add" /\ TargetIsFree(q)
          /\ raced' = (raced \/ /\ RemovesOwner(q)
                                /\ \E p \in Requests : request[p].at = "checked" /\ RemovesOwner(p))
      BY <1>2 DEF CheckTarget
    <2>2. /\ request' \in [Requests -> RequestStates] /\ request'[q].at = "checked"
          /\ request'[q].op = request[q].op /\ request'[q].target = request[q].target
          /\ request'[q].manager = request[q].manager /\ request'[q].role = request[q].role
          /\ \A p \in Requests \ {q} : request'[p] = request[p]
      BY <2>1 DEF MemberInv, TypeOK, RequestStates
    <2>3. Checked' = Checked \cup {q} /\ q \notin Checked
      BY <2>1, <2>2 DEF Checked
    <2>4. \A p \in Requests : AdminMay(p)' = AdminMay(p) /\ RemovesOwner(p)' = RemovesOwner(p)
      BY <2>1, <2>2 DEF AdminMay, RemovesOwner
    <2>5. TypeOK'
      <3>1. request[q].target \in Users /\ member[request[q].target].status # "none"
        BY <2>1 DEF MemberInv, TargetsExist
      <3> QED BY <2>1, <2>2, <3>1 DEF MemberInv, TypeOK
    <2>6a. TargetsExist'
      BY <2>1, <2>2 DEF MemberInv, TargetsExist
    <2>6. ChecksHold'
      BY <2>1, <2>2, <2>3, <2>4 DEF MemberInv, ChecksHold, Allowed, TypeOK, RequestStates, Checked
    <2>7. TargetsExclusive'
      BY <2>1, <2>2, <2>3 DEF MemberInv, TargetsExclusive, TargetIsFree, Checked
    <2>8. OwnerLeft'
      <3>1. ActiveOwners' = ActiveOwners
        BY <2>1 DEF ActiveOwners
      <3>2. RemovesOwner(q) => \E u \in ActiveOwners : u # request[q].target
        BY <2>1 DEF Allowed, SeveralOwners
      <3>3. ASSUME ~raced' PROVE ~raced /\ (RemovesOwner(q) => \A p \in Checked : ~RemovesOwner(p))
        BY <2>1, <3>3 DEF Checked
      <3>4. \A p \in Checked' : request'[p].target = request[p].target
        BY <2>2, <2>3 DEF Checked
      <3> QED BY <2>3, <2>4, <3>1, <3>2, <3>3, <3>4 DEF MemberInv, OwnerLeft, Checked
    <2> QED BY <2>5, <2>6, <2>6a, <2>7, <2>8 DEF MemberInv
  <1> QED BY <1>1, <1>2

LEMMA MemberRows ==
    ASSUME NEW m \in Members, NEW role \in Roles
    PROVE  /\ [status |-> m.status, role |-> role] \in Members
           /\ Deactivated(m) \in Members
           /\ Deactivated(m).status = "inactive" /\ Deactivated(m).role = m.role
  BY DEF Members, Deactivated

LEMMA CommitStep ==
    ASSUME MemberInv, NEW q \in Requests, CommitChange(q)
    PROVE  MemberInv'
  <1> DEFINE u == request[q].target
             m == IF request[q].op = "update"
                  THEN [status |-> member[u].status, role |-> request[q].role]
                  ELSE Deactivated(member[u])
  <1>1. /\ q \in Checked /\ request' = [request EXCEPT ![q] = Idle] /\ raced' = raced
        /\ member' = [member EXCEPT ![u] = m]
    BY DEF CommitChange, Checked
  <1>2. u \in Users /\ member[u] \in Members /\ member[u].status # "none"
        /\ request[q].op \in {"update", "deactivate"} /\ request[q].role \in Roles
    BY <1>1 DEF MemberInv, TypeOK, ChecksHold, Checked, RequestStates
  <1>3. m \in Members /\ m.status # "none"
        /\ (request[q].op = "update" => m.status = member[u].status /\ m.role = request[q].role)
        /\ (request[q].op = "deactivate" => m.status = "inactive" /\ m.role = member[u].role)
    BY <1>2, MemberRows
  <1>4. /\ member' \in [Users -> Members] /\ member'[u] = m
        /\ \A v \in Users \ {u} : member'[v] = member[v]
    BY <1>1, <1>2, <1>3 DEF MemberInv, TypeOK
  <1> HIDE DEF m
  <1>5. /\ request' \in [Requests -> RequestStates] /\ request'[q].at = "idle"
        /\ \A p \in Requests \ {q} : request'[p] = request[p]
    BY <1>1, IdleIsARequest DEF MemberInv, TypeOK
  <1>6. Checked' = Checked \ {q}
    BY <1>5 DEF Checked
  <1>7. \A p \in Checked' : p \in Checked /\ p # q /\ request'[p] = request[p] /\ request[p].target # u
                            /\ request[p].target \in Users
    BY <1>1, <1>5, <1>6 DEF MemberInv, TargetsExclusive, TypeOK, Checked
  <1>8. \A p \in Checked' : AdminMay(p)' = AdminMay(p) /\ RemovesOwner(p)' = RemovesOwner(p)
    BY <1>4, <1>7, SameTarget DEF Checked
  <1>9. TargetsExist' /\ ChecksHold' /\ TargetsExclusive'
    BY <1>3, <1>4, <1>5, <1>7, <1>8
       DEF MemberInv, TargetsExist, ChecksHold, TargetsExclusive
  <1>10. TypeOK'
    BY <1>1, <1>4, <1>5, <1>9 DEF MemberInv, TypeOK, TargetsExist, ChecksHold, Checked
  <1>11. CASE RemovesOwner(q)
    <2>1. \A v \in ActiveOwners \ {u} : v \in ActiveOwners'
      BY <1>4 DEF ActiveOwners
    <2>2. ~raced => \E v \in ActiveOwners : v # u
      BY <1>1, <1>11 DEF MemberInv, OwnerLeft
    <2>3. ~raced => \A p \in Checked' : ~RemovesOwner(p)'
      BY <1>1, <1>7, <1>8, <1>11 DEF MemberInv, OwnerLeft
    <2> QED BY <1>1, <1>9, <1>10, <2>1, <2>2, <2>3 DEF MemberInv, OwnerLeft
  <1>12. CASE ~RemovesOwner(q)
    <2>1. ActiveOwners \subseteq ActiveOwners'
      <3>1. u \in ActiveOwners => u \in ActiveOwners'
        BY <1>2, <1>3, <1>4, <1>12 DEF RemovesOwner, ActiveOwners
      <3> QED BY <1>4, <3>1 DEF ActiveOwners
    <2>2. OwnerLeft'
      BY <1>1, <1>6, <1>7, <1>8, <2>1 DEF MemberInv, OwnerLeft
    <2> QED BY <1>9, <1>10, <2>2 DEF MemberInv
  <1> QED BY <1>11, <1>12

LEMMA AddStep ==
    ASSUME MemberInv, NEW q \in Requests, AddMember(q)
    PROVE  MemberInv'
  <1> DEFINE u == request[q].target
             m == [status |-> "active", role |-> request[q].role]
  <1>1. CASE ~(AdminMay(q) /\ member[u].status = "none")
    BY <1>1, IdleIsARequest, RequestOnly DEF AddMember
  <1>2. CASE AdminMay(q) /\ member[u].status = "none"
    <2>1. /\ request' = [request EXCEPT ![q] = Idle] /\ raced' = raced
          /\ member' = [member EXCEPT ![u] = m] /\ request[q].at = "authorized"
      BY <1>2 DEF AddMember
    <2>2. u \in Users /\ m \in Members /\ m.status = "active"
      BY <2>1 DEF MemberInv, TypeOK, TargetsExist, RequestStates, Members
    <2>3. /\ member' \in [Users -> Members] /\ member'[u] = m
          /\ \A v \in Users \ {u} : member'[v] = member[v]
      BY <2>1, <2>2 DEF MemberInv, TypeOK
    <2> HIDE DEF m
    <2>4. /\ request' \in [Requests -> RequestStates] /\ request'[q].at = "idle"
          /\ \A p \in Requests \ {q} : request'[p] = request[p]
      BY <2>1, IdleIsARequest DEF MemberInv, TypeOK
    <2>5. Checked' = Checked
      BY <2>1, <2>4 DEF Checked
    <2>6. \A p \in Checked' : p \in Requests /\ p # q /\ request'[p] = request[p]
                              /\ request[p].target \in Users /\ request[p].target # u
      BY <1>2, <2>1, <2>4, <2>5 DEF Checked, MemberInv, TypeOK
    <2>7. \A p \in Checked' : AdminMay(p)' = AdminMay(p) /\ RemovesOwner(p)' = RemovesOwner(p)
      BY <2>3, <2>6, SameTarget
    <2>8. TargetsExist' /\ ChecksHold' /\ TargetsExclusive'
      BY <2>2, <2>3, <2>4, <2>5, <2>6, <2>7
         DEF MemberInv, TargetsExist, ChecksHold, TargetsExclusive
    <2>9. TypeOK'
      BY <2>1, <2>3, <2>4, <2>8 DEF MemberInv, TypeOK, TargetsExist, ChecksHold, Checked
    <2>10. ActiveOwners \subseteq ActiveOwners'
      BY <1>2, <2>3 DEF ActiveOwners
    <2>11. OwnerLeft'
      BY <2>1, <2>5, <2>6, <2>7, <2>10 DEF MemberInv, OwnerLeft
    <2> QED BY <2>8, <2>9, <2>11 DEF MemberInv
  <1> QED BY <1>1, <1>2

THEOREM MemberInvariant == Spec => []MemberInv
  <1>1. MemberInv /\ [Next]_vars => MemberInv'
    <2> SUFFICES ASSUME MemberInv, [Next]_vars PROVE MemberInv'
      OBVIOUS
    <2>1. CASE UNCHANGED vars
      BY <2>1 DEF vars, MemberInv, TypeOK, TargetsExist, ChecksHold, TargetsExclusive, OwnerLeft,
                  Checked, AdminMay, RemovesOwner, ActiveOwners
    <2> QED BY <2>1, AuthorizeStep, CheckStep, CommitStep, AddStep DEF Next, RequestStep
  <1> QED BY MemberInit, <1>1, PTL DEF Spec

-----------------------------------------------------------------------------
\* The variables keep their types, and a membership a request has checked is
\* still there when it commits.
THEOREM MembershipTypes == Spec => []TypeOK
  <1>1. MemberInv => TypeOK
    BY DEF MemberInv
  <1> QED BY MemberInvariant, <1>1, PTL

\* Without two overlapping requests that remove owners, update_member and
\* deactivate_member leave the organization an active owner.
THEOREM OwnersAreLostOnlyInRaces == Spec => []OwnerLostOnlyInRace
  <1>1. MemberInv => OwnerLostOnlyInRace
    BY DEF MemberInv, OwnerLeft, OwnerLostOnlyInRace
  <1> QED BY MemberInvariant, <1>1, PTL

\* update_member, deactivate_member and add_member touch the membership of an
\* owner, or make one, only for a manager who was authorized as OWNER.
LEMMA OwnersStep ==
    ASSUME MemberInv, [Next]_vars, NEW u \in Users, member'[u] # member[u],
           Owns(member[u]) \/ Owns(member'[u])
    PROVE  ManagedByOwner(u)
  <1>1. PICK q \in Requests : CommitChange(q) \/ AddMember(q)
    BY DEF Next, RequestStep, vars, Authorize, CheckTarget
  <1>2. /\ request[q].target = u /\ request[q].at # "idle" /\ request'[q].at = "idle"
        /\ request[q].manager \in ManagerRoles
    BY <1>1, IdleIsARequest DEF CommitChange, AddMember, MemberInv, TypeOK, RequestStates
  <1>3. request[q].manager # "ADMIN"
    <2>1. SUFFICES ASSUME request[q].manager = "ADMIN" PROVE FALSE
      OBVIOUS
    <2>2. CASE CommitChange(q)
      <3>1. q \in Checked /\ u \in Users /\ member \in [Users -> Members]
        BY <2>2 DEF CommitChange, Checked, MemberInv, TypeOK
      <3>2. AdminMay(q) /\ request[q].op \in {"update", "deactivate"}
        BY <3>1 DEF MemberInv, ChecksHold
      <3>3. member[u].role # "OWNER" /\ (request[q].op # "deactivate" => request[q].role # "OWNER")
        BY <1>2, <2>1, <3>2 DEF AdminMay
      <3>4. member'[u].role \in {member[u].role, request[q].role}
            /\ (request[q].op = "deactivate" => member'[u].role = member[u].role)
        BY <1>2, <2>2, <3>1, <3>2 DEF CommitChange, Deactivated
      <3> QED BY <3>2, <3>3, <3>4 DEF Owns
    <2>3. CASE AddMember(q)
      <3>1. AdminMay(q) /\ member[u].status = "none" /\ request[q].op = "add"
        BY <1>2, <2>3 DEF AddMember
      <3>2. member'[u].role = request[q].role
        BY <1>2, <2>3, <3>1 DEF AddMember, MemberInv, TypeOK
      <3> QED BY <1>2, <2>1, <3>1, <3>2 DEF AdminMay, Owns
    <2> QED BY <1>1, <2>2, <2>3
  <1> QED BY <1>2, <1>3 DEF ManagerRoles, ManagedByOwner

THEOREM OwnersAreManagedByOwners == Spec => OnlyOwnersManageOwners
  <1>1. MemberInv /\ [Next]_vars =>
        [\A u \in Users : member'[u] # member[u] /\ (Owns(member[u]) \/ Owns(member'[u]))
                          => ManagedByOwner(u)]_vars
    BY OwnersStep
  <1> QED BY MemberInvariant, <1>1, PTL DEF Spec, OnlyOwnersManageOwners
=============================================================================
