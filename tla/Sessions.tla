------------------------------ MODULE Sessions ------------------------------
(***************************************************************************)
(* The refresh-token sessions of one user: login and its lockout, rotation *)
(* with reuse detection, logout, sign-out everywhere and password changes, *)
(* all as concurrent transactions of the API's processes.                  *)
(*                                                                         *)
(* The database runs at READ COMMITTED.  SELECT ... FOR UPDATE sees the    *)
(* rows committed when it starts, waits for those another transaction has  *)
(* locked, and drops those that no longer match when the wait is over; it  *)
(* never sees rows added while it waited.  Inserting a token or an audit   *)
(* event that names the user shares the user's row (a foreign key), and so *)
(* waits for a transaction that has locked it.  A request that waits for   *)
(* several rows is given them all at once.                                 *)
(*                                                                         *)
(* The user has an active membership and stays active: nothing in the API  *)
(* deactivates a user.  Access tokens are not stored and not modelled.  A  *)
(* token that has expired is refused before the database is asked, so time *)
(* is left out: every token may still be young when it is presented.       *)
(***************************************************************************)
EXTENDS Integers, FiniteSets

CONSTANTS
    Tokens,         \* refresh-token identifiers, in the order they are issued
    NoToken,        \* null
    Requests,       \* requests the API serves at once
    Threshold,      \* login_max_failed_attempts
    MaxPasswords    \* bound: how often the password is changed

ASSUME TokensAssumption == Tokens \subseteq Nat /\ NoToken \notin Tokens
ASSUME ThresholdAssumption == Threshold \in Nat \ {0}

VARIABLES
    account,    \* the row of the user: password, failed logins, lockout
    token,      \* token[t]: the row of a refresh token
    request,    \* request[q]: where a request stands
    guesses     \* history: wrong passwords judged since the last login or lockout

vars == <<account, token, request, guesses>>

Accounts == [password : Nat, failed : Nat, locked : {"no", "active", "over"}]
WithLogins(failed, locked) ==
    [password |-> account.password, failed |-> failed, locked |-> locked]

\* A session is a family of tokens, named by the first of them; password is
\* the password the session was opened with.
TokenRows ==
    [status : {"absent", "live", "revoked"},
     family : Tokens \cup {NoToken}, password : Nat]

RequestStates ==
    [at : {"idle", "presented", "changing", "revoking", "recording"},
     kind : {"none", "refresh", "reuse", "logout", "signOut", "change"},
     token : Tokens \cup {NoToken}, late : BOOLEAN, seen : SUBSET Tokens]

NoRow == [status |-> "absent", family |-> NoToken, password |-> 0]
Stands(at, kind, t, late, seen) ==
    [at |-> at, kind |-> kind, token |-> t, late |-> late, seen |-> seen]
Idle == Stands("idle", "none", NoToken, FALSE, {})

Live == {t \in Tokens : token[t].status = "live"}
Absent == {t \in Tokens : token[t].status = "absent"}
LiveInFamily(f) == {t \in Live : token[t].family = f}

\* register has committed: the user exists and has no session yet.
Init ==
    /\ account = [password |-> 0, failed |-> 0, locked |-> "no"]
    /\ token = [t \in Tokens |-> NoRow]
    /\ request = [q \in Requests |-> Idle]
    /\ guesses = 0

-----------------------------------------------------------------------------
(* Row locks.                                                              *)

\* A password change holds the user's row from its first read to its commit.
UserLocked ==
    \E q \in Requests :
        \/ request[q].at = "changing"
        \/ request[q].at = "revoking" /\ request[q].kind = "change"

HoldsToken(q, t) ==
    \/ request[q].at = "recording" /\ t \in request[q].seen \cap Live
    \/ request[q].at = "revoking" /\ request[q].kind = "reuse" /\ t = request[q].token

LockedByOther(q, t) == \E p \in Requests \ {q} : HoldsToken(p, t)

\* Mutant: get_by_hash does not lock the token.
FreeWithoutLock(q, t) == TRUE
Free(q, t) == ~LockedByOther(q, t)

\* Bound: every request that may insert a token still finds an identifier.
Room ==
    Cardinality({q \in Requests : request[q].kind = "refresh"}) < Cardinality(Absent)

Revoked(rows, which) ==
    [t \in Tokens |-> IF t \in which /\ rows[t].status = "live"
                      THEN [rows[t] EXCEPT !.status = "revoked"] ELSE rows[t]]

NextToken(t) == t \in Absent /\ \A u \in Absent : t <= u

Issued(rows, t, family, password) ==
    [rows EXCEPT ![t] = [status |-> "live", family |-> family, password |-> password]]

-----------------------------------------------------------------------------
(* Login.  It holds the user's row throughout and locks nothing else, so   *)
(* it is one action.  A login refused because the account is locked        *)
(* changes nothing.                                                        *)

\* Mutant: a lockout that is over is not reset before the failure is counted.
FailuresKept == account.failed + 1
FailuresBefore == IF account.locked = "over" THEN 0 ELSE account.failed
Failures == FailuresBefore + 1

LoginFails ==
    /\ ~UserLocked /\ account.locked # "active"
    /\ account' = WithLogins(Failures, IF Failures >= Threshold THEN "active" ELSE "no")
    /\ guesses' = guesses + 1
    /\ UNCHANGED <<token, request>>

\* Mutant: a login opens the account and keeps the count of failures.
OpenedStillCounting == WithLogins(account.failed, "no")
Opened == WithLogins(0, "no")

LoginSucceeds ==
    /\ ~UserLocked /\ account.locked # "active" /\ Room
    /\ account' = Opened
    /\ guesses' = 0
    /\ \E t \in Tokens :
          /\ NextToken(t)
          /\ token' = Issued(token, t, t, account.password)
    /\ UNCHANGED request

LockoutEnds ==
    /\ account.locked = "active"
    /\ account' = WithLogins(account.failed, "over")
    /\ guesses' = 0
    /\ UNCHANGED <<token, request>>

-----------------------------------------------------------------------------
(* Refresh and logout.                                                     *)

\* The signed expiry is checked first; the clock that judges the stored one is
\* read after that and before any lock, so the token may just have expired.
PresentToRefresh(q, t, late) ==
    /\ request[q].at = "idle" /\ Room
    /\ token[t].status # "absent"
    /\ request' = [request EXCEPT ![q] = Stands("presented", "refresh", t, late, {})]
    /\ UNCHANGED <<account, token, guesses>>

PresentToLogout(q, t) ==
    /\ request[q].at = "idle"
    /\ token[t].status # "absent"
    /\ request' = [request EXCEPT ![q] = Stands("presented", "logout", t, FALSE, {})]
    /\ UNCHANGED <<account, token, guesses>>

\* get_by_hash(lock=True) returns: a revoked token is reused and its family is
\* read, one that is too late is revoked, any other is going to be rotated.
JudgeRefresh(q) ==
    LET t == request[q].token
    IN /\ request[q].at = "presented" /\ request[q].kind = "refresh" /\ Free(q, t)
       /\ \/ /\ token[t].status = "revoked"
             /\ request' = [request EXCEPT ![q] =
                    Stands("revoking", "reuse", t, FALSE, LiveInFamily(token[t].family))]
             /\ UNCHANGED token
          \/ /\ token[t].status = "live" /\ request[q].late
             /\ token' = Revoked(token, {t})
             /\ request' = [request EXCEPT ![q] = Idle]
          \/ /\ token[t].status = "live" /\ ~request[q].late
             /\ request' = [request EXCEPT ![q] = Stands("recording", "refresh", t, FALSE, {t})]
             /\ UNCHANGED token
       /\ UNCHANGED <<account, guesses>>

JudgeLogout(q) ==
    LET t == request[q].token
    IN /\ request[q].at = "presented" /\ request[q].kind = "logout" /\ Free(q, t)
       /\ request' = [request EXCEPT ![q] = Stands("recording", "logout", t, FALSE, {t})]
       /\ UNCHANGED <<account, token, guesses>>

\* Mutant: the replacement is inserted without sharing the user's row.
MayInsertAnyhow == TRUE
MayInsert == ~UserLocked

\* Mutant: rotate stores the replacement and forgets to revoke the token.
RotatedKeeping(t, new) == Issued(token, new, token[t].family, token[t].password)
Rotated(t, new) ==
    Issued(Revoked(token, {t}), new, token[t].family, token[t].password)

Rotate(q) ==
    /\ request[q].at = "recording" /\ request[q].kind = "refresh" /\ MayInsert
    /\ \E new \in Tokens : NextToken(new) /\ token' = Rotated(request[q].token, new)
    /\ request' = [request EXCEPT ![q] = Idle]
    /\ UNCHANGED <<account, guesses>>

\* Logout and sign-out everywhere revoke what they hold and record it.
RecordSignOut(q) ==
    /\ request[q].at = "recording" /\ request[q].kind \in {"logout", "signOut"} /\ MayInsert
    /\ token' = Revoked(token, request[q].seen)
    /\ request' = [request EXCEPT ![q] = Idle]
    /\ UNCHANGED <<account, guesses>>

-----------------------------------------------------------------------------
(* Revoking every session.                                                 *)

StartSignOut(q) ==
    /\ request[q].at = "idle"
    /\ request' = [request EXCEPT ![q] = Stands("revoking", "signOut", NoToken, FALSE, Live)]
    /\ UNCHANGED <<account, token, guesses>>

StartChange(q) ==
    /\ request[q].at = "idle" /\ ~UserLocked /\ account.password < MaxPasswords
    /\ request' = [request EXCEPT ![q] = Stands("changing", "change", NoToken, FALSE, {})]
    /\ UNCHANGED <<account, token, guesses>>

\* Mutant: the unit of work is left without a rollback.
LeftOpen(q) == request[q]
RolledBack(q) == Idle

\* The current password is wrong, or the new one is not new.
RejectChange(q) ==
    /\ request[q].at = "changing"
    /\ request' = [request EXCEPT ![q] = RolledBack(q)]
    /\ UNCHANGED <<account, token, guesses>>

\* update_password, and the rows revoke_all_for_user starts from.
FindSessions(q) ==
    /\ request[q].at = "changing"
    /\ request' = [request EXCEPT ![q] = Stands("revoking", "change", NoToken, FALSE, Live)]
    /\ UNCHANGED <<account, token, guesses>>

\* The rows are granted.  Sign-out everywhere goes on to record what it did;
\* a password change, which owns the user's row, and reuse detection, which
\* records nothing, commit.
GrantSessions(q) ==
    /\ request[q].at = "revoking" /\ \A t \in request[q].seen : Free(q, t)
    /\ \/ /\ request[q].kind = "signOut"
          /\ request' = [request EXCEPT ![q] =
                Stands("recording", "signOut", NoToken, FALSE, request[q].seen)]
          /\ UNCHANGED <<account, token>>
       \/ /\ request[q].kind \in {"reuse", "change"}
          /\ token' = Revoked(token, request[q].seen)
          /\ account' = IF request[q].kind = "change"
                        THEN [account EXCEPT !.password = @ + 1] ELSE account
          /\ request' = [request EXCEPT ![q] = Idle]
    /\ UNCHANGED guesses

\* A password change waits for a token whose holder waits for the user's row:
\* the database ends one of the two transactions.
Deadlocked(c, p) ==
    /\ request[c].at = "revoking" /\ request[c].kind = "change"
    /\ request[p].at = "recording"
    /\ \E t \in request[c].seen : HoldsToken(p, t)

BreakDeadlock(q) ==
    /\ \E p \in Requests : Deadlocked(q, p) \/ Deadlocked(p, q)
    /\ request' = [request EXCEPT ![q] = RolledBack(q)]
    /\ UNCHANGED <<account, token, guesses>>

-----------------------------------------------------------------------------
Arrive(q) ==
    \/ \E t \in Tokens : \/ \E late \in BOOLEAN : PresentToRefresh(q, t, late)
                         \/ PresentToLogout(q, t)
    \/ StartSignOut(q) \/ StartChange(q)

Serve(q) ==
    \/ JudgeRefresh(q) \/ JudgeLogout(q) \/ Rotate(q) \/ RecordSignOut(q)
    \/ RejectChange(q) \/ FindSessions(q) \/ GrantSessions(q) \/ BreakDeadlock(q)

Next ==
    \/ LoginFails \/ LoginSucceeds \/ LockoutEnds
    \/ \E q \in Requests : Arrive(q) \/ Serve(q)

Spec == Init /\ [][Next]_vars

\* A request that is being served goes on; the database grants a row that is
\* free again and again to those who wait for it, and looks for deadlocks.
FairSpec == Spec /\ \A q \in Requests : SF_vars(Serve(q))

-----------------------------------------------------------------------------
(* Properties.                                                             *)

\* Every variable keeps its type, and the failure counter never passes the
\* configured threshold.
TypeOK ==
    /\ account \in Accounts /\ account.failed <= Threshold
    /\ token \in [Tokens -> TokenRows]
    /\ request \in [Requests -> RequestStates]
    /\ guesses \in Nat

\* Rotation never forks a session: however many clients present the same
\* token at once, a family has at most one token that can be exchanged.
OneLiveTokenPerFamily ==
    \A t, u \in Live : token[t].family = token[u].family => t = u

\* A password change leaves no session behind that was opened with an older
\* password, although refreshes, logins and logouts run while it does.
PasswordChangeEndsSessions == \A t \in Live : token[t].password = account.password

\* The account is locked after exactly login_max_failed_attempts consecutive
\* wrong passwords, the first time and after every lockout.
LockedAfterThreshold == account.locked = "active" <=> guesses = Threshold

\* No request waits for ever for a row: a deadlock between a password change
\* and a refresh or logout is broken, and both sides come to an end.
RequestsFinish == \A q \in Requests : request[q].at # "idle" ~> request[q].at = "idle"

=============================================================================
