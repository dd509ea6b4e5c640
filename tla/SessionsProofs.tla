--------------------------- MODULE SessionsProofs ---------------------------
(***************************************************************************)
(* For any number of tokens and concurrent requests: rotation never forks  *)
(* a session, a password change ends every older session, and the lockout  *)
(* counts exactly login_max_failed_attempts failures.                      *)
(*                                                                         *)
(* The argument is about locks.  A token a request holds stays live, held  *)
(* by that request only, until the request rotates or revokes it.  While a *)
(* password change is revoking, every live token is among those it read,   *)
(* because a token can only be added by those who can share the user's     *)
(* row.                                                                    *)
(***************************************************************************)
EXTENDS Sessions, TLAPS

\* Rows that have been issued are named by families of issued rows.
FamiliesIssued ==
    \A t \in Tokens \ Absent : token[t].family \in Tokens \ Absent

\* Requests know issued tokens only.
RequestsKnowIssued ==
    \A q \in Requests :
        /\ request[q].seen \cap Absent = {}
        /\ request[q].at = "presented" => request[q].token \in Tokens \ Absent

\* A request that is going to rotate a token holds it, and it is live.
RotatedIsLive ==
    \A q \in Requests :
        request[q].at = "recording" /\ request[q].kind = "refresh" =>
            request[q].token \in Live /\ request[q].seen = {request[q].token}

\* A live token is held by one request at most.
Keeps(q, t) == request[q].at = "recording" /\ t \in request[q].seen
HeldOnce == \A p, q \in Requests, t \in Live : Keeps(p, t) /\ Keeps(q, t) => p = q

\* While a password change is revoking, it has seen every live token.
ChangeSeesAll ==
    \A q \in Requests :
        request[q].at = "revoking" /\ request[q].kind = "change" => Live \subseteq request[q].seen

\* The failure counter of the row is what the history says.
CounterIsHistory ==
    /\ account.locked = "no" => account.failed = guesses /\ guesses < Threshold
    /\ account.locked = "active" => guesses = Threshold
    /\ account.locked = "over" => guesses = 0

SessionInv ==
    /\ TypeOK /\ FamiliesIssued /\ RequestsKnowIssued /\ RotatedIsLive /\ HeldOnce
    /\ ChangeSeesAll /\ OneLiveTokenPerFamily /\ PasswordChangeEndsSessions

-----------------------------------------------------------------------------
(* The lockout.  It reads and writes the account and the history only.     *)

LEMMA RequestsLeaveLockout ==
    ASSUME TypeOK, NEW q \in Requests, Arrive(q) \/ Serve(q)
    PROVE  /\ account'.failed = account.failed /\ account'.locked = account.locked
           /\ guesses' = guesses
  BY DEF TypeOK, Accounts, Arrive, Serve, PresentToRefresh, PresentToLogout, StartSignOut, StartChange,
         JudgeRefresh, JudgeLogout, Rotate, RecordSignOut, RejectChange, FindSessions,
         GrantSessions, BreakDeadlock

LEMMA AccountUpdates ==
    ASSUME account \in Accounts, NEW f \in Nat, NEW l \in {"no", "active", "over"}
    PROVE  /\ WithLogins(f, l) \in Accounts
           /\ WithLogins(f, l).failed = f /\ WithLogins(f, l).locked = l
           /\ WithLogins(f, l).password = account.password
  BY DEF Accounts, WithLogins

LEMMA LockoutStep ==
    ASSUME TypeOK, CounterIsHistory, LoginFails \/ LoginSucceeds \/ LockoutEnds
    PROVE  CounterIsHistory' /\ account' \in Accounts /\ account'.failed <= Threshold
           /\ guesses' \in Nat /\ account'.password = account.password
  <1> USE ThresholdAssumption
  <1>1. account \in Accounts /\ account.failed <= Threshold /\ guesses \in Nat
        /\ account.failed \in Nat /\ account.password \in Nat
    BY DEF TypeOK, Accounts
  <1>2. CASE LoginFails
    <2> DEFINE l == IF Failures >= Threshold THEN "active" ELSE "no"
    <2>1. guesses' = guesses + 1 /\ account.locked # "active" /\ account' = WithLogins(Failures, l)
      BY <1>2 DEF LoginFails
    <2>2. Failures \in 1 .. Threshold /\ Failures = guesses + 1
      BY <1>1, <2>1 DEF Failures, FailuresBefore, CounterIsHistory, Accounts
    <2>3. account' \in Accounts /\ account'.failed = Failures /\ account'.locked = l
          /\ account'.password = account.password
      BY <1>1, <2>1, <2>2, AccountUpdates
    <2> QED BY <1>1, <2>1, <2>2, <2>3 DEF CounterIsHistory
  <1>3. CASE LoginSucceeds
    <2>1. guesses' = 0 /\ account' = WithLogins(0, "no")
      BY <1>3 DEF LoginSucceeds, Opened
    <2>2. /\ account' \in Accounts /\ account'.failed = 0 /\ account'.locked = "no"
          /\ account'.password = account.password
      BY <1>1, <2>1, AccountUpdates
    <2> QED BY <2>1, <2>2 DEF CounterIsHistory
  <1>4. CASE LockoutEnds
    <2>1. guesses' = 0 /\ account' = WithLogins(account.failed, "over")
      BY <1>4 DEF LockoutEnds
    <2>2. /\ account' \in Accounts /\ account'.failed = account.failed
          /\ account'.locked = "over" /\ account'.password = account.password
      BY <1>1, <2>1, AccountUpdates
    <2> QED BY <1>1, <2>1, <2>2 DEF CounterIsHistory
  <1> QED BY <1>2, <1>3, <1>4

LEMMA CounterStep ==
    ASSUME TypeOK, CounterIsHistory, [Next]_vars
    PROVE  CounterIsHistory'
  <1>1. CASE LoginFails \/ LoginSucceeds \/ LockoutEnds
    BY <1>1, LockoutStep
  <1>2. ASSUME NEW q \in Requests, Arrive(q) \/ Serve(q) PROVE CounterIsHistory'
    BY <1>2, RequestsLeaveLockout DEF CounterIsHistory
  <1>3. CASE UNCHANGED vars
    BY <1>3 DEF vars, CounterIsHistory
  <1> QED BY <1>1, <1>2, <1>3 DEF Next

-----------------------------------------------------------------------------
(* Steps that move one request and leave the tokens alone.                 *)

LEMMA IdleIsARequest == Idle \in RequestStates /\ Idle.at = "idle" /\ Idle.seen = {}
  BY DEF Idle, Stands, RequestStates

LEMMA RequestMoves ==
    ASSUME SessionInv, NEW q \in Requests, NEW r \in RequestStates,
           request' = [request EXCEPT ![q] = r], token' = token, account' = account,
           guesses' = guesses,
           r.seen \cap Absent = {},
           r.at = "presented" => r.token \in Tokens \ Absent,
           r.at = "recording" /\ r.kind = "refresh" => r.token \in Live /\ r.seen = {r.token},
           r.at = "revoking" /\ r.kind = "change" => Live \subseteq r.seen,
           \A t \in Live : r.at = "recording" /\ t \in r.seen => Free(q, t)
    PROVE  SessionInv'
  <1>1. request' \in [Requests -> RequestStates] /\ request'[q] = r
        /\ \A p \in Requests \ {q} : request'[p] = request[p]
    BY DEF SessionInv, TypeOK
  <1>2. Live' = Live /\ Absent' = Absent
    BY DEF Live, Absent
  <1>3. TypeOK'
    BY <1>1 DEF SessionInv, TypeOK
  <1>4. FamiliesIssued' /\ OneLiveTokenPerFamily' /\ PasswordChangeEndsSessions'
    BY <1>2 DEF SessionInv, FamiliesIssued, OneLiveTokenPerFamily, PasswordChangeEndsSessions
  <1>5. RequestsKnowIssued' /\ RotatedIsLive' /\ ChangeSeesAll'
    BY <1>1, <1>2 DEF SessionInv, RequestsKnowIssued, RotatedIsLive, ChangeSeesAll
  <1>6. ASSUME NEW p \in Requests, NEW u \in Requests, NEW t \in Live,
               Keeps(p, t)', Keeps(u, t)'
        PROVE  p = u
    <2>1. \A v \in Requests \ {q} : Keeps(v, t)' <=> Keeps(v, t)
      BY <1>1 DEF Keeps
    <2>2. Keeps(q, t)' => r.at = "recording" /\ t \in r.seen
      BY <1>1 DEF Keeps
    <2>3. r.at = "recording" /\ t \in r.seen => \A v \in Requests \ {q} : ~Keeps(v, t)
      BY DEF Free, LockedByOther, HoldsToken, Keeps
    <2> QED BY <1>6, <2>1, <2>2, <2>3 DEF SessionInv, HeldOnce
  <1>7. HeldOnce'
    BY <1>2, <1>6 DEF HeldOnce
  <1> QED BY <1>3, <1>4, <1>5, <1>7 DEF SessionInv

\* The same for a request that comes to an end.
LEMMA RequestEnds ==
    ASSUME SessionInv, NEW q \in Requests, request' = [request EXCEPT ![q] = Idle],
           token' = token, account' = account, guesses' = guesses
    PROVE  SessionInv'
  BY IdleIsARequest, RequestMoves

LEMMA ArriveStep ==
    ASSUME SessionInv, NEW q \in Requests, Arrive(q)
    PROVE  SessionInv'
  <1>1. Live \subseteq Tokens \ Absent
    BY DEF Live, Absent
  <1>2. ASSUME NEW t \in Tokens, NEW late \in BOOLEAN, PresentToRefresh(q, t, late)
        PROVE  SessionInv'
    <2>1. t \in Tokens \ Absent
      BY <1>2 DEF PresentToRefresh, Absent
    <2> DEFINE r == Stands("presented", "refresh", t, late, {})
    <2>2. r \in RequestStates /\ r.at = "presented" /\ r.token = t /\ r.seen = {}
      BY DEF Stands, RequestStates
    <2>3. request' = [request EXCEPT ![q] = r]
          /\ token' = token /\ account' = account /\ guesses' = guesses
      BY <1>2 DEF PresentToRefresh
    <2> HIDE DEF r
    <2> QED BY <2>1, <2>2, <2>3, RequestMoves
  <1>3. ASSUME NEW t \in Tokens, PresentToLogout(q, t)
        PROVE  SessionInv'
    <2>1. t \in Tokens \ Absent
      BY <1>3 DEF PresentToLogout, Absent
    <2> DEFINE r == Stands("presented", "logout", t, FALSE, {})
    <2>2. r \in RequestStates /\ r.at = "presented" /\ r.token = t /\ r.seen = {}
      BY DEF Stands, RequestStates
    <2>3. request' = [request EXCEPT ![q] = r]
          /\ token' = token /\ account' = account /\ guesses' = guesses
      BY <1>3 DEF PresentToLogout
    <2> HIDE DEF r
    <2> QED BY <2>1, <2>2, <2>3, RequestMoves
  <1>4. CASE StartSignOut(q)
    <2> DEFINE r == Stands("revoking", "signOut", NoToken, FALSE, Live)
    <2>1. r \in RequestStates /\ r.at = "revoking" /\ r.kind = "signOut" /\ r.seen = Live
      BY <1>1 DEF Stands, RequestStates
    <2>2. request' = [request EXCEPT ![q] = r]
          /\ token' = token /\ account' = account /\ guesses' = guesses
      BY <1>4 DEF StartSignOut
    <2> HIDE DEF r
    <2> QED BY <1>1, <2>1, <2>2, RequestMoves
  <1>5. CASE StartChange(q)
    <2> DEFINE r == Stands("changing", "change", NoToken, FALSE, {})
    <2>1. r \in RequestStates /\ r.at = "changing" /\ r.seen = {}
      BY DEF Stands, RequestStates
    <2>2. request' = [request EXCEPT ![q] = r]
          /\ token' = token /\ account' = account /\ guesses' = guesses
      BY <1>5 DEF StartChange
    <2> HIDE DEF r
    <2> QED BY <2>1, <2>2, RequestMoves
  <1> QED BY <1>2, <1>3, <1>4, <1>5 DEF Arrive

-----------------------------------------------------------------------------
(* Steps that revoke tokens.                                               *)

LEMMA RevokedRows ==
    ASSUME SessionInv, NEW S, token' = Revoked(token, S)
    PROVE  /\ token' \in [Tokens -> TokenRows]
           /\ Live' = Live \ S /\ Absent' = Absent
           /\ \A t \in Tokens : /\ token'[t].family = token[t].family
                                /\ token'[t].password = token[t].password
  <1>1. token \in [Tokens -> TokenRows]
    BY DEF SessionInv, TypeOK
  <1>2. \A t \in Tokens : token'[t] = IF t \in S /\ token[t].status = "live"
                                      THEN [token[t] EXCEPT !.status = "revoked"] ELSE token[t]
    BY DEF Revoked
  <1>3. ASSUME NEW t \in Tokens
        PROVE  /\ token'[t] \in TokenRows /\ token'[t].family = token[t].family
               /\ token'[t].password = token[t].password
               /\ token'[t].status = IF t \in S /\ token[t].status = "live"
                                     THEN "revoked" ELSE token[t].status
    BY <1>1, <1>2 DEF TokenRows
  <1>4. token' \in [Tokens -> TokenRows]
    BY <1>3 DEF Revoked
  <1> QED BY <1>3, <1>4 DEF Live, Absent

\* A request that revokes tokens nobody else holds and then ends.  A password
\* change revokes every live token.
LEMMA RequestRevokes ==
    ASSUME SessionInv, NEW q \in Requests, NEW S, token' = Revoked(token, S),
           request' = [request EXCEPT ![q] = Idle], account' \in Accounts,
           account'.failed = account.failed, guesses' = guesses,
           \A p \in Requests \ {q}, t \in S \cap Live : ~Keeps(p, t),
           account'.password = account.password \/ Live \subseteq S
    PROVE  SessionInv'
  <1>1. request' \in [Requests -> RequestStates] /\ request'[q].at = "idle" /\ request'[q].seen = {}
        /\ \A p \in Requests \ {q} : request'[p] = request[p]
    BY IdleIsARequest DEF SessionInv, TypeOK
  <1>2. TypeOK'
    BY <1>1, RevokedRows DEF SessionInv, TypeOK
  <1>3. FamiliesIssued' /\ OneLiveTokenPerFamily'
    BY RevokedRows DEF SessionInv, FamiliesIssued, OneLiveTokenPerFamily, Live
  <1>4. PasswordChangeEndsSessions'
    BY RevokedRows DEF SessionInv, PasswordChangeEndsSessions, Live
  <1>5. RequestsKnowIssued' /\ ChangeSeesAll'
    BY <1>1, RevokedRows DEF SessionInv, RequestsKnowIssued, ChangeSeesAll
  <1>6. ASSUME NEW p \in Requests, request'[p].at = "recording", request'[p].kind = "refresh"
        PROVE  request'[p].token \in Live' /\ request'[p].seen = {request'[p].token}
    <2>1. p # q /\ request'[p] = request[p]
      BY <1>1, <1>6
    <2>2. request[p].token \in Live /\ request[p].seen = {request[p].token}
      BY <1>6, <2>1 DEF SessionInv, RotatedIsLive
    <2>3. request[p].token \notin S
      BY <1>6, <2>1, <2>2 DEF Keeps
    <2> QED BY <2>1, <2>2, <2>3, RevokedRows
  <1>7. HeldOnce'
    BY <1>1, RevokedRows DEF SessionInv, HeldOnce, Keeps
  <1> QED BY <1>2, <1>3, <1>4, <1>5, <1>6, <1>7 DEF SessionInv, RotatedIsLive

-----------------------------------------------------------------------------
(* Steps that issue a token.                                               *)

LEMMA IssuedRows ==
    ASSUME NEW rows \in [Tokens -> TokenRows], NEW t \in Tokens, NEW f \in Tokens, NEW p \in Nat
    PROVE  /\ Issued(rows, t, f, p) \in [Tokens -> TokenRows]
           /\ Issued(rows, t, f, p)[t].status = "live"
           /\ Issued(rows, t, f, p)[t].family = f /\ Issued(rows, t, f, p)[t].password = p
           /\ \A u \in Tokens \ {t} : Issued(rows, t, f, p)[u] = rows[u]
  BY DEF Issued, TokenRows

\* Nobody revokes for a password change while a token may be issued.
LEMMA NoChangeUnderway ==
    ASSUME ~UserLocked
    PROVE  \A q \in Requests : ~(request[q].at = "revoking" /\ request[q].kind = "change")
  BY DEF UserLocked

LEMMA LoginIssues ==
    ASSUME SessionInv, LoginSucceeds, account' \in Accounts, account'.failed <= Threshold,
           account'.password = account.password, guesses' \in Nat
    PROVE  SessionInv'
  <1>1. PICK t \in Tokens : NextToken(t) /\ token' = Issued(token, t, t, account.password)
    BY DEF LoginSucceeds
  <1>2. t \in Absent /\ ~UserLocked /\ request' = request
    BY <1>1 DEF LoginSucceeds, NextToken
  <1>3. token \in [Tokens -> TokenRows] /\ account.password \in Nat
    BY DEF SessionInv, TypeOK, Accounts
  <1>4. /\ token' \in [Tokens -> TokenRows]
        /\ token'[t].status = "live" /\ token'[t].family = t
        /\ token'[t].password = account.password
        /\ \A u \in Tokens \ {t} : token'[u] = token[u]
    BY <1>1, <1>3, IssuedRows
  <1>5. Live' = Live \cup {t} /\ Absent' = Absent \ {t} /\ t \notin Live
    BY <1>2, <1>4 DEF Live, Absent
  <1>6. TypeOK'
    BY <1>2, <1>4 DEF SessionInv, TypeOK
  <1>7. FamiliesIssued' /\ PasswordChangeEndsSessions'
    BY <1>4, <1>5 DEF SessionInv, FamiliesIssued, PasswordChangeEndsSessions, Live
  <1>8. OneLiveTokenPerFamily'
    <2>1. \A u \in Live : token[u].family \notin Absent
      BY DEF SessionInv, FamiliesIssued, Live, Absent
    <2> QED BY <1>2, <1>4, <1>5, <2>1 DEF SessionInv, OneLiveTokenPerFamily, Live
  <1>9. RequestsKnowIssued' /\ RotatedIsLive'
    BY <1>2, <1>5 DEF SessionInv, RequestsKnowIssued, RotatedIsLive
  <1>10. HeldOnce'
    BY <1>2, <1>5 DEF SessionInv, HeldOnce, Keeps, RequestsKnowIssued
  <1>11. ChangeSeesAll'
    BY <1>2, NoChangeUnderway DEF ChangeSeesAll
  <1> QED BY <1>6, <1>7, <1>8, <1>9, <1>10, <1>11 DEF SessionInv

LEMMA RotateIssues ==
    ASSUME SessionInv, NEW q \in Requests, Rotate(q)
    PROVE  SessionInv'
  <1> DEFINE old == request[q].token
             rows == Revoked(token, {old})
  <1>1. PICK new \in Tokens : NextToken(new) /\ token' = Rotated(old, new)
    BY DEF Rotate
  <1>2. /\ new \in Absent /\ ~UserLocked /\ request' = [request EXCEPT ![q] = Idle]
        /\ account' = account /\ guesses' = guesses
    BY <1>1 DEF Rotate, NextToken, MayInsert
  <1>3. old \in Live /\ request[q].seen = {old} /\ old \in Tokens /\ Keeps(q, old)
    BY DEF Rotate, SessionInv, RotatedIsLive, Live, Keeps
  <1>4. token \in [Tokens -> TokenRows] /\ account \in Accounts /\ account.failed <= Threshold
        /\ guesses \in Nat
    BY DEF SessionInv, TypeOK
  <1>5. rows \in [Tokens -> TokenRows]
        /\ \A u \in Tokens \ {old} : rows[u] = token[u]
        /\ rows[old].status = "revoked" /\ rows[old].family = token[old].family
    BY <1>3, <1>4 DEF Revoked, Live, TokenRows
  <1>6. token[old].family \in Tokens \ Absent /\ token[old].password = account.password
        /\ token[old].password \in Nat /\ old # new
    BY <1>2, <1>3, <1>4 DEF SessionInv, FamiliesIssued, PasswordChangeEndsSessions, Live,
                            Absent, TokenRows
  <1>7. token' = Issued(rows, new, token[old].family, token[old].password)
    BY <1>1 DEF Rotated
  <1> HIDE DEF rows
  <1>8. /\ token' \in [Tokens -> TokenRows]
        /\ token'[new].status = "live" /\ token'[new].family = token[old].family
        /\ token'[new].password = account.password
        /\ token'[old].status = "revoked" /\ token'[old].family = token[old].family
        /\ \A u \in Tokens \ {old, new} : token'[u] = token[u]
    BY <1>5, <1>6, <1>7, <1>3, IssuedRows
  <1> HIDE DEF old
  <1>9. Live' = (Live \ {old}) \cup {new} /\ Absent' = Absent \ {new} /\ new \notin Live
    BY <1>2, <1>3, <1>6, <1>8 DEF Live, Absent
  <1>10. request' \in [Requests -> RequestStates] /\ request'[q].at = "idle"
         /\ request'[q].seen = {} /\ \A p \in Requests \ {q} : request'[p] = request[p]
    BY <1>2, IdleIsARequest DEF SessionInv, TypeOK
  <1>11. TypeOK'
    BY <1>2, <1>4, <1>8, <1>10 DEF TypeOK
  <1>12. FamiliesIssued'
    BY <1>6, <1>8, <1>9 DEF SessionInv, FamiliesIssued
  <1>13. PasswordChangeEndsSessions'
    BY <1>2, <1>8, <1>9 DEF SessionInv, PasswordChangeEndsSessions, Live
  <1>14. OneLiveTokenPerFamily'
    <2>1. \A u \in Live \ {old} : token[u].family # token[old].family
      BY <1>3 DEF SessionInv, OneLiveTokenPerFamily
    <2> QED BY <1>8, <1>9, <2>1 DEF SessionInv, OneLiveTokenPerFamily, Live
  <1>15. RequestsKnowIssued'
    BY <1>9, <1>10 DEF SessionInv, RequestsKnowIssued
  <1>16. ASSUME NEW p \in Requests, request'[p].at = "recording", request'[p].kind = "refresh"
         PROVE  request'[p].token \in Live' /\ request'[p].seen = {request'[p].token}
    <2>1. p # q /\ request'[p] = request[p]
      BY <1>10, <1>16
    <2>2. request[p].token \in Live /\ request[p].seen = {request[p].token} /\ Keeps(p, request[p].token)
      BY <1>16, <2>1 DEF SessionInv, RotatedIsLive, Keeps
    <2>3. request[p].token # old
      BY <1>3, <2>1, <2>2 DEF SessionInv, HeldOnce
    <2> QED BY <1>9, <2>1, <2>2, <2>3
  <1>17. HeldOnce'
    <2>1. \A p \in Requests : ~Keeps(p, new)'
      BY <1>2, <1>10 DEF SessionInv, RequestsKnowIssued, Keeps
    <2> QED BY <1>9, <1>10, <2>1 DEF SessionInv, HeldOnce, Keeps
  <1>18. ChangeSeesAll'
    BY <1>2, <1>10, NoChangeUnderway DEF ChangeSeesAll
  <1> QED BY <1>11, <1>12, <1>13, <1>14, <1>15, <1>16, <1>17, <1>18 DEF SessionInv, RotatedIsLive

-----------------------------------------------------------------------------
(* The steps of a request, one by one.                                     *)

LEMMA JudgeRefreshStep ==
    ASSUME SessionInv, NEW q \in Requests, JudgeRefresh(q)
    PROVE  SessionInv'
  <1> DEFINE t == request[q].token
  <1>1. /\ t \in Tokens \ Absent /\ \A p \in Requests \ {q} : ~HoldsToken(p, t)
        /\ account' = account /\ guesses' = guesses
    BY DEF JudgeRefresh, SessionInv, RequestsKnowIssued, Free, LockedByOther
  <1>2. LiveInFamily(token[t].family) \subseteq Tokens \ Absent
    BY DEF LiveInFamily, Live, Absent
  <1>3. CASE token[t].status = "revoked"
    <2> DEFINE r == Stands("revoking", "reuse", t, FALSE, LiveInFamily(token[t].family))
    <2>1. r \in RequestStates /\ r.at = "revoking" /\ r.kind = "reuse"
          /\ r.seen = LiveInFamily(token[t].family)
      BY <1>1, <1>2 DEF Stands, RequestStates
    <2>2. request' = [request EXCEPT ![q] = r] /\ token' = token
      BY <1>3 DEF JudgeRefresh
    <2> HIDE DEF r
    <2> QED BY <1>1, <1>2, <2>1, <2>2, RequestMoves
  <1>4. CASE token[t].status = "live" /\ request[q].late
    <2>1. token' = Revoked(token, {t}) /\ request' = [request EXCEPT ![q] = Idle]
      BY <1>4 DEF JudgeRefresh
    <2>2. \A p \in Requests \ {q}, u \in {t} \cap Live : ~Keeps(p, u)
      BY <1>1 DEF HoldsToken, Keeps
    <2> HIDE DEF t
    <2> QED BY <1>1, <2>1, <2>2, RequestRevokes DEF SessionInv, TypeOK
  <1>5. CASE token[t].status = "live" /\ ~request[q].late
    <2> DEFINE r == Stands("recording", "refresh", t, FALSE, {t})
    <2>1. r \in RequestStates /\ r.at = "recording" /\ r.token = t /\ r.seen = {t}
      BY <1>1 DEF Stands, RequestStates
    <2>2. request' = [request EXCEPT ![q] = r] /\ token' = token
      BY <1>5 DEF JudgeRefresh
    <2>3. t \in Live /\ Free(q, t)
      BY <1>1, <1>5 DEF Live, Free, LockedByOther
    <2> HIDE DEF r, t
    <2> QED BY <1>1, <2>1, <2>2, <2>3, RequestMoves
  <1> QED BY <1>3, <1>4, <1>5 DEF JudgeRefresh

LEMMA JudgeLogoutStep ==
    ASSUME SessionInv, NEW q \in Requests, JudgeLogout(q)
    PROVE  SessionInv'
  <1> DEFINE t == request[q].token
             r == Stands("recording", "logout", t, FALSE, {t})
  <1>1. /\ t \in Tokens \ Absent /\ Free(q, t)
        /\ account' = account /\ guesses' = guesses /\ token' = token
    BY DEF JudgeLogout, SessionInv, RequestsKnowIssued
  <1>2. r \in RequestStates /\ r.at = "recording" /\ r.kind = "logout" /\ r.seen = {t}
    BY <1>1 DEF Stands, RequestStates
  <1>3. request' = [request EXCEPT ![q] = r]
    BY DEF JudgeLogout
  <1> HIDE DEF r, t
  <1> QED BY <1>1, <1>2, <1>3, RequestMoves

LEMMA RecordSignOutStep ==
    ASSUME SessionInv, NEW q \in Requests, RecordSignOut(q)
    PROVE  SessionInv'
  <1> DEFINE S == request[q].seen
  <1>1. /\ token' = Revoked(token, S) /\ request' = [request EXCEPT ![q] = Idle]
        /\ account' = account /\ guesses' = guesses
    BY DEF RecordSignOut
  <1>2. \A p \in Requests \ {q}, t \in S \cap Live : ~Keeps(p, t)
    BY DEF RecordSignOut, SessionInv, HeldOnce, Keeps
  <1>3. account \in Accounts
    BY DEF SessionInv, TypeOK
  <1> HIDE DEF S
  <1> QED BY <1>1, <1>2, <1>3, RequestRevokes

LEMMA FindSessionsStep ==
    ASSUME SessionInv, NEW q \in Requests, FindSessions(q)
    PROVE  SessionInv'
  <1> DEFINE r == Stands("revoking", "change", NoToken, FALSE, Live)
  <1>1. Live \subseteq Tokens \ Absent
    BY DEF Live, Absent
  <1>2. r \in RequestStates /\ r.at = "revoking" /\ r.seen = Live
    BY <1>1 DEF Stands, RequestStates
  <1>3. request' = [request EXCEPT ![q] = r]
        /\ token' = token /\ account' = account /\ guesses' = guesses
    BY DEF FindSessions
  <1> HIDE DEF r
  <1> QED BY <1>1, <1>2, <1>3, RequestMoves

LEMMA GrantSessionsStep ==
    ASSUME SessionInv, NEW q \in Requests, GrantSessions(q)
    PROVE  SessionInv'
  <1> DEFINE S == request[q].seen
  <1>1. S \subseteq Tokens \ Absent
    BY DEF SessionInv, RequestsKnowIssued, TypeOK, RequestStates
  <1>2. guesses' = guesses /\ \A t \in S : Free(q, t)
    BY DEF GrantSessions
  <1>3. account \in Accounts
    BY DEF SessionInv, TypeOK
  <1>4. CASE request[q].kind = "signOut"
    <2> DEFINE r == Stands("recording", "signOut", NoToken, FALSE, S)
    <2>1. r \in RequestStates /\ r.at = "recording" /\ r.kind = "signOut" /\ r.seen = S
      BY <1>1 DEF Stands, RequestStates
    <2>2. request' = [request EXCEPT ![q] = r] /\ token' = token /\ account' = account
      BY <1>4 DEF GrantSessions
    <2> HIDE DEF r, S
    <2> QED BY <1>1, <1>2, <2>1, <2>2, RequestMoves
  <1>5. CASE request[q].kind \in {"reuse", "change"}
    <2>1. /\ token' = Revoked(token, S) /\ request' = [request EXCEPT ![q] = Idle]
          /\ account' = IF request[q].kind = "change"
                        THEN [account EXCEPT !.password = @ + 1] ELSE account
      BY <1>5 DEF GrantSessions
    <2>2. account' \in Accounts /\ account'.failed = account.failed
      BY <1>3, <2>1 DEF Accounts
    <2>3. account'.password = account.password \/ Live \subseteq S
      BY <2>1 DEF GrantSessions, SessionInv, ChangeSeesAll
    <2>4. \A p \in Requests \ {q}, t \in S \cap Live : ~Keeps(p, t)
      BY <1>2 DEF Free, LockedByOther, HoldsToken, Keeps
    <2> HIDE DEF S
    <2> QED BY <1>2, <1>3, <2>1, <2>2, <2>3, <2>4, RequestRevokes
  <1> QED BY <1>4, <1>5 DEF GrantSessions

LEMMA ServeStep ==
    ASSUME SessionInv, NEW q \in Requests, Serve(q)
    PROVE  SessionInv'
  <1>1. CASE RejectChange(q) \/ BreakDeadlock(q)
    <2>1. request' = [request EXCEPT ![q] = Idle] /\ token' = token /\ account' = account
          /\ guesses' = guesses
      BY <1>1 DEF RejectChange, BreakDeadlock, RolledBack
    <2> QED BY <2>1, RequestEnds
  <1> QED BY <1>1, JudgeRefreshStep, JudgeLogoutStep, RotateIssues, RecordSignOutStep,
             FindSessionsStep, GrantSessionsStep DEF Serve

-----------------------------------------------------------------------------
(* The invariant.                                                          *)

LEMMA SessionInit == Init => SessionInv /\ CounterIsHistory
  <1> SUFFICES ASSUME Init PROVE SessionInv /\ CounterIsHistory
    OBVIOUS
  <1>1. Live = {} /\ Absent = Tokens
    BY DEF Init, NoRow, Live, Absent
  <1>2. TypeOK
    BY IdleIsARequest, ThresholdAssumption DEF Init, TypeOK, Accounts, NoRow, TokenRows
  <1>3. \A q \in Requests : request[q].at = "idle" /\ request[q].seen = {}
    BY IdleIsARequest DEF Init
  <1>4. CounterIsHistory
    BY ThresholdAssumption DEF Init, CounterIsHistory
  <1> QED BY <1>1, <1>2, <1>3, <1>4 DEF SessionInv, FamiliesIssued, RequestsKnowIssued, RotatedIsLive,
             HeldOnce, Keeps, ChangeSeesAll, OneLiveTokenPerFamily, PasswordChangeEndsSessions

LEMMA SessionStep ==
    ASSUME SessionInv, CounterIsHistory, [Next]_vars
    PROVE  SessionInv'
  <1>1. CASE LoginSucceeds
    BY <1>1, LockoutStep, LoginIssues DEF SessionInv
  <1>2. CASE LoginFails \/ LockoutEnds
    <2>1. token' = token /\ request' = request
      BY <1>2 DEF LoginFails, LockoutEnds
    <2>2. TypeOK'
      BY <1>2, <2>1, LockoutStep DEF SessionInv, TypeOK
    <2>3. Live' = Live /\ Absent' = Absent /\ account'.password = account.password
      BY <1>2, <2>1, LockoutStep DEF Live, Absent, SessionInv
    <2> QED BY <2>1, <2>2, <2>3 DEF SessionInv, FamiliesIssued, RequestsKnowIssued, RotatedIsLive,
               HeldOnce, Keeps, ChangeSeesAll, OneLiveTokenPerFamily, PasswordChangeEndsSessions
  <1>3. ASSUME NEW q \in Requests, Arrive(q) \/ Serve(q) PROVE SessionInv'
    BY <1>3, ArriveStep, ServeStep
  <1>4. CASE UNCHANGED vars
    BY <1>4 DEF vars, SessionInv, TypeOK, FamiliesIssued, RequestsKnowIssued, RotatedIsLive,
                HeldOnce, Keeps, ChangeSeesAll, OneLiveTokenPerFamily,
                PasswordChangeEndsSessions, Live, Absent
  <1> QED BY <1>1, <1>2, <1>3, <1>4 DEF Next

THEOREM SessionInvariant == Spec => [](SessionInv /\ CounterIsHistory)
  <1>1. SessionInv /\ CounterIsHistory /\ [Next]_vars => (SessionInv /\ CounterIsHistory)'
    BY SessionStep, CounterStep DEF SessionInv
  <1> QED BY SessionInit, <1>1, PTL DEF Spec

-----------------------------------------------------------------------------
(* What it gives.                                                          *)

\* The variables keep their types, and failed_login_attempts never passes the
\* configured maximum.
THEOREM SessionTypes == Spec => []TypeOK
  <1>1. SessionInv => TypeOK
    BY DEF SessionInv
  <1> QED BY SessionInvariant, <1>1, PTL

\* However many clients refresh with the same token, rotate leaves at most one
\* token of a family unrevoked.
THEOREM RotationNeverForks == Spec => []OneLiveTokenPerFamily
  <1>1. SessionInv => OneLiveTokenPerFamily
    BY DEF SessionInv
  <1> QED BY SessionInvariant, <1>1, PTL

\* change_password leaves no unrevoked token of a session opened with an older
\* password, whatever refreshes, logins and logouts run at the same time.
THEOREM NoSessionOutlivesItsPassword == Spec => []PasswordChangeEndsSessions
  <1>1. SessionInv => PasswordChangeEndsSessions
    BY DEF SessionInv
  <1> QED BY SessionInvariant, <1>1, PTL

\* login locks the account after exactly login_max_failed_attempts consecutive
\* wrong passwords, the first time and after every lockout.
THEOREM LockoutIsExact == Spec => []LockedAfterThreshold
  <1>1. SessionInv /\ CounterIsHistory => LockedAfterThreshold
    BY ThresholdAssumption DEF SessionInv, TypeOK, Accounts, CounterIsHistory, LockedAfterThreshold
  <1> QED BY SessionInvariant, <1>1, PTL
=============================================================================
