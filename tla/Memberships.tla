---------------------------- MODULE Memberships ----------------------------
(***************************************************************************)
(* The members of one organization and the requests that manage them.      *)
(*                                                                         *)
(* A request is authorized in a transaction of its own, by the role its    *)
(* manager has then.  A later transaction locks the row of the target and  *)
(* nothing else, checks, counts the active owners, and commits.            *)
(***************************************************************************)
EXTENDS Integers, FiniteSets

CONSTANTS
    Users,      \* user accounts
    Founder,    \* the user who registered the organization
    NoUser,     \* null
    Requests    \* requests the API serves at once

ASSUME FounderAssumption == Founder \in Users /\ NoUser \notin Users

VARIABLES
    member,     \* member[u]: the membership row of the user
    request,    \* request[q]: where a request stands
    raced       \* history: a request counted owners while another had counted
                \* them and not committed yet

vars == <<member, request, raced>>

Roles == {"OWNER", "ADMIN", "ANALYST", "VIEWER"}
ManagerRoles == {"OWNER", "ADMIN"}

Members == [status : {"none", "active", "inactive"}, role : Roles]
RequestStates ==
    [at : {"idle", "authorized", "checked"}, op : {"add", "update", "deactivate"},
     manager : ManagerRoles, target : Users \cup {NoUser}, role : Roles]

Asks(op, manager, target, role) ==
    [at |-> "authorized", op |-> op, manager |-> manager, target |-> target, role |-> role]
Idle == [at |-> "idle", op |-> "add", manager |-> "ADMIN", target |-> NoUser, role |-> "VIEWER"]

ActiveOwners == {u \in Users : member[u].status = "active" /\ member[u].role = "OWNER"}

\* register made its user the owner of a new organization.
Init ==
    /\ member = [u \in Users |-> IF u = Founder THEN [status |-> "active", role |-> "OWNER"]
                                 ELSE [status |-> "none", role |-> "VIEWER"]]
    /\ request = [q \in Requests |-> Idle]
    /\ raced = FALSE

-----------------------------------------------------------------------------
\* get_membership_manager: the role is remembered for the rest of the request.
Authorize(q, u, op, target, role) ==
    /\ request[q].at = "idle"
    /\ member[u].status = "active" /\ member[u].role \in ManagerRoles
    /\ op = "add" => member[target].status = "none"
    /\ op # "add" => member[target].status # "none"
    /\ request' = [request EXCEPT ![q] = Asks(op, member[u].role, target, role)]
    /\ UNCHANGED <<member, raced>>

\* Mutant: the row is read without FOR UPDATE.
UnlockedTarget(q) == TRUE
TargetIsFree(q) ==
    \A p \in Requests \ {q} : request[p].at = "checked" => request[p].target # request[q].target

\* Mutant: an administrator is kept from making owners, not from changing them.
AdminMayChangeOwners(q) == request[q].manager = "ADMIN" => request[q].role # "OWNER"

\* _ensure_admin_can_manage.
AdminMay(q) ==
    LET m == member[request[q].target]
    IN request[q].manager = "ADMIN" =>
          /\ request[q].op # "add" => m.role # "OWNER"
          /\ request[q].op # "deactivate" => request[q].role # "OWNER"

\* The request takes the OWNER role, or an owner's membership, away.
RemovesOwner(q) ==
    /\ request[q].op # "add"
    /\ member[request[q].target].role = "OWNER"
    /\ request[q].op = "update" => request[q].role # "OWNER"

\* Mutant: the count includes owners whose membership has ended.
SeveralOwnerRows ==
    \E u, v \in Users : u # v /\ member[u].role = "OWNER" /\ member[v].role = "OWNER"

\* count_active_owners is greater than one.
SeveralOwners == \E u, v \in ActiveOwners : u # v

Allowed(q) ==
    LET m == member[request[q].target]
    IN /\ AdminMay(q)
       /\ request[q].op = "deactivate" => m.status = "active"
       /\ RemovesOwner(q) => SeveralOwners

CheckTarget(q) ==
    /\ request[q].at = "authorized" /\ request[q].op # "add" /\ TargetIsFree(q)
    /\ \/ /\ Allowed(q)
          /\ request' = [request EXCEPT ![q].at = "checked"]
          /\ raced' = (raced \/ /\ RemovesOwner(q)
                                /\ \E p \in Requests : request[p].at = "checked" /\ RemovesOwner(p))
       \/ /\ ~Allowed(q)
          /\ request' = [request EXCEPT ![q] = Idle]
          /\ UNCHANGED raced
    /\ UNCHANGED member

\* Mutant: deactivate deletes the row.
Deleted(m) == [status |-> "none", role |-> m.role]
Deactivated(m) == [status |-> "inactive", role |-> m.role]

\* set_role or deactivate, and the commit.
CommitChange(q) ==
    LET u == request[q].target
    IN /\ request[q].at = "checked"
       /\ member' = [member EXCEPT ![u] =
              IF request[q].op = "update"
              THEN [status |-> member[u].status, role |-> request[q].role]
              ELSE Deactivated(member[u])]
       /\ request' = [request EXCEPT ![q] = Idle]
       /\ UNCHANGED raced

\* The user must have no membership yet, not even one that has ended.
AddMember(q) ==
    LET u == request[q].target
    IN /\ request[q].at = "authorized" /\ request[q].op = "add"
       /\ member' = IF AdminMay(q) /\ member[u].status = "none"
                    THEN [member EXCEPT ![u] = [status |-> "active", role |-> request[q].role]]
                    ELSE member
       /\ request' = [request EXCEPT ![q] = Idle]
       /\ UNCHANGED raced

RequestStep(q) ==
    \/ \E u, target \in Users, role \in Roles, op \in {"add", "update", "deactivate"} :
          Authorize(q, u, op, target, role)
    \/ CheckTarget(q) \/ CommitChange(q) \/ AddMember(q)

Next == \E q \in Requests : RequestStep(q)

Spec == Init /\ [][Next]_vars

-----------------------------------------------------------------------------
(* Properties.                                                             *)

\* Every variable keeps its type, and what a request checked is still there
\* when it commits.
TypeOK ==
    /\ member \in [Users -> Members]
    /\ request \in [Requests -> RequestStates]
    /\ raced \in BOOLEAN
    /\ \A q \in Requests : request[q].at = "checked" =>
          request[q].target \in Users /\ member[request[q].target].status # "none"

\* A membership that is, or becomes, an owner's is changed by a request an
\* owner made; the target cannot become an owner between check and commit.
Owns(m) == m.status # "none" /\ m.role = "OWNER"
ManagedByOwner(u) ==
    \E q \in Requests : /\ request[q].target = u /\ request[q].manager = "OWNER"
                        /\ request[q].at # "idle" /\ request'[q].at = "idle"
OnlyOwnersManageOwners ==
    [][\A u \in Users :
          member'[u] # member[u] /\ (Owns(member[u]) \/ Owns(member'[u])) => ManagedByOwner(u)]_vars

\* An organization loses its last active owner only when two requests that
\* remove owners overlap: no sequence of requests one after the other does it,
\* whatever roles, promotions and ended memberships it runs through.
OwnerLostOnlyInRace == ~raced => ActiveOwners # {}

-----------------------------------------------------------------------------
(* Claims of the code's messages that it does not keep.                    *)

\* "The final active owner cannot be demoted", or removed.
ActiveOwnerRemains == ActiveOwners # {}
=============================================================================
