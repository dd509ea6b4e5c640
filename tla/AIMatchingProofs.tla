-------------------------- MODULE AIMatchingProofs --------------------------
(***************************************************************************)
(* For any number of generation requests, summaries and reviewers: charged *)
(* calls stay within the request limits, recorded outcomes are true,       *)
(* suggestions are decided once and only late charges are lost.            *)
(*                                                                         *)
(* The argument: what release_expired is going to overwrite had expired    *)
(* when it was selected and stays expired (Late); until a request reaches  *)
(* its last transactions it has stored nothing and is not charged (Honest).*)
(***************************************************************************)
EXTENDS AIMatching, FiniteSetTheorems, TLAPS

Unsettled == {"idle", "requested", "selected", "calling", "failed"}

Early == {"idle", "requested", "selected"}

\* What release_expired has selected, in reserve or in a summary, had expired;
\* a call without a reservation has none to expire.
Late ==
    /\ \A c \in Calls : usage[c].status = "none" => ~usage[c].expired
    /\ \A c \in Calls : \A d \in call[c].seen : usage[d].expired
    /\ \A s \in Readers : \A d \in reader[s] : usage[d].expired

\* Where a request stands agrees with its charge, its event and what it stored.
HonestCall(c) ==
    /\ call[c].at \in Early => usage[c].status = "none"
    /\ call[c].at \in Unsettled => usage[c].status # "FINALIZED"
    /\ call[c].at = "failed" => call[c].outcome \in Failures
    /\ call[c].at \notin {"closing", "done"} =>
          StoredBy(c) = {} /\ event[c] \in {"none", "REQUESTED"}
    /\ call[c].at = "closing" =>
          /\ event[c] \in {"none", "REQUESTED"}
          /\ call[c].outcome \in Failures \cup {"SUCCEEDED"}
          /\ call[c].outcome = "SUCCEEDED" => StoredBy(c) = call[c].found
          /\ call[c].outcome \in Failures => StoredBy(c) = {} /\ usage[c].status # "FINALIZED"
    /\ event[c] = "SUCCEEDED" => StoredBy(c) = call[c].found
    /\ event[c] \in Failures => StoredBy(c) = {} /\ usage[c].status # "FINALIZED"
Honest == \A c \in Calls : HonestCall(c)

\* A candidate without a suggestion is nobody's, and no two reviewers hold one.
Owned == \A k \in Candidates : suggestion[k].status = "none" => suggestion[k].by = NoCall
ReviewsExclusive ==
    \A v, w \in Reviewers : review[v] = review[w] => v = w \/ review[v] = NoCandidate

AIInv == TypeOK /\ Late /\ Honest /\ Owned /\ ReviewsExclusive /\ RequestsWithinLimits

-----------------------------------------------------------------------------
LEMMA StandsIsAState ==
    ASSUME NEW at \in {"idle", "requested", "selected", "calling", "failed", "answered",
                       "metered", "closing", "done"},
           NEW outcome \in Failures \cup {"none", "SUCCEEDED"},
           NEW found \in SUBSET Candidates, NEW seen \in SUBSET Calls
    PROVE  /\ Stands(at, outcome, found, seen) \in CallStates
           /\ Stands(at, outcome, found, seen).at = at
           /\ Stands(at, outcome, found, seen).outcome = outcome
           /\ Stands(at, outcome, found, seen).found = found
           /\ Stands(at, outcome, found, seen).seen = seen
  BY DEF Stands, CallStates

LEMMA ReservationIsARecord ==
    ASSUME NEW status \in {"none", "RESERVED", "FINALIZED", "RELEASED"}, NEW tokens \in Nat,
           NEW expired \in BOOLEAN, NEW today \in BOOLEAN
    PROVE  /\ Reservation(status, tokens, expired, today) \in UsageRecords
           /\ Reservation(status, tokens, expired, today).status = status
           /\ Reservation(status, tokens, expired, today).tokens = tokens
           /\ Reservation(status, tokens, expired, today).expired = expired
           /\ Reservation(status, tokens, expired, today).today = today
  BY DEF Reservation, UsageRecords

LEMMA WithStatusIsARecord ==
    ASSUME NEW u \in UsageRecords, NEW status \in {"none", "RESERVED", "FINALIZED", "RELEASED"}
    PROVE  /\ WithStatus(u, status) \in UsageRecords
           /\ WithStatus(u, status).status = status
           /\ WithStatus(u, status).expired = u.expired
           /\ WithStatus(u, status).today = u.today
  BY DEF WithStatus, Reservation, UsageRecords

\* Charging no further call keeps the requests within the limits.
LEMMA FewerCounted ==
    ASSUME TypeOK, RequestsWithinLimits,
           Counted' \subseteq Counted, Today(Counted)' \subseteq Today(Counted)
    PROVE  RequestsWithinLimits'
  <1>1. Counted \subseteq Calls /\ Today(Counted) \subseteq Calls
    BY DEF Counted, Today
  <1>2. IsFiniteSet(Counted) /\ IsFiniteSet(Today(Counted))
    BY <1>1, CallsAssumption, FS_Subset
  <1>3. /\ Cardinality(Counted') <= Cardinality(Counted)
        /\ Cardinality(Today(Counted)') <= Cardinality(Today(Counted))
        /\ Cardinality(Counted') \in Nat /\ Cardinality(Today(Counted)') \in Nat
        /\ Cardinality(Counted) \in Nat /\ Cardinality(Today(Counted)) \in Nat
    BY <1>2, FS_Subset, FS_CardinalityType
  <1> QED BY <1>3, LimitsAssumption DEF RequestsWithinLimits

\* A request whose own rows do not change stays honest.
LEMMA StaysHonest ==
    ASSUME NEW c \in Calls, HonestCall(c),
           call'[c] = call[c], event'[c] = event[c], StoredBy(c)' = StoredBy(c),
           usage[c].status = "none" => usage'[c].status = "none",
           usage'[c].status = "FINALIZED" => usage[c].status = "FINALIZED"
    PROVE  HonestCall(c)'
  BY DEF HonestCall

-----------------------------------------------------------------------------
(* Steps of one request that only move it: its charge, event and           *)
(* suggestions stay.                                                       *)

LEMMA OnlyMoves ==
    ASSUME AIInv, NEW c \in Calls, NEW s \in CallStates,
           call' = [call EXCEPT ![c] = s],
           \A d \in s.seen : usage[d].expired,
           s.at = "selected" => ~OrganizationLocked,
           HonestCall(c)',
           UNCHANGED <<provider, hosted, usage, event, suggestion, reader, review>>
    PROVE  AIInv'
  <1>1. call' \in [Calls -> CallStates] /\ call'[c] = s
        /\ \A d \in Calls \ {c} : call'[d] = call[d]
    BY DEF AIInv, TypeOK
  <1>2. TypeOK'
    BY <1>1 DEF AIInv, TypeOK, OrganizationLocked
  <1>3. Late'
    BY <1>1 DEF AIInv, Late
  <1>4. Honest'
    <2>1. SUFFICES ASSUME NEW d \in Calls, d # c PROVE HonestCall(d)'
      BY DEF Honest
    <2>2. StoredBy(d)' = StoredBy(d)
      BY DEF StoredBy
    <2> QED BY <1>1, <2>1, <2>2, StaysHonest DEF AIInv, Honest
  <1>5. Owned' /\ ReviewsExclusive' /\ RequestsWithinLimits'
    BY DEF AIInv, Owned, ReviewsExclusive, RequestsWithinLimits, Counted, Today
  <1> QED BY <1>2, <1>3, <1>4, <1>5 DEF AIInv

\* The moves after which nothing has been selected.
LEMMA MovesOnly ==
    ASSUME AIInv, NEW c \in Calls, NEW at \in {"calling", "failed", "closing", "done", "metered"},
           NEW outcome \in Failures \cup {"none", "SUCCEEDED"}, Moves(c, at, outcome),
           at = "calling" => call[c].at \in Unsettled,
           at = "failed" => call[c].at \in Unsettled /\ outcome \in Failures,
           at = "closing" => call[c].at \in Unsettled /\ outcome \in Failures,
           at = "metered" => call[c].at = "answered",
           UNCHANGED <<provider, hosted, usage, event, suggestion, reader, review>>
    PROVE  AIInv'
  <1> DEFINE s == Stands(at, outcome, call[c].found, {})
  <1>1. call[c] \in CallStates /\ call[c].found \in SUBSET Candidates
    BY DEF AIInv, TypeOK, CallStates
  <1>2. s \in CallStates /\ s.at = at /\ s.outcome = outcome /\ s.found = call[c].found /\ s.seen = {}
    BY <1>1, StandsIsAState
  <1>3. call' = [call EXCEPT ![c] = s]
    BY DEF Moves
  <1> HIDE DEF s
  <1>4. call'[c] = s
    BY <1>3 DEF AIInv, TypeOK
  <1>5. StoredBy(c)' = StoredBy(c)
    BY DEF StoredBy
  <1>6. HonestCall(c)'
    BY <1>2, <1>4, <1>5 DEF AIInv, Honest, HonestCall, Unsettled, Early, Failures
  <1> QED BY <1>2, <1>3, <1>6, OnlyMoves

-----------------------------------------------------------------------------
(* Steps that write usage records.                                         *)

\* Releasing what has expired charges nobody and loses no charge in time.
LEMMA Releases ==
    ASSUME AIInv, NEW released \in SUBSET Calls, \A d \in released : usage[d].expired
    PROVE  /\ AfterRelease(released) \in [Calls -> UsageRecords]
           /\ \A d \in Calls :
                 /\ AfterRelease(released)[d].expired = usage[d].expired
                 /\ \/ AfterRelease(released)[d] = usage[d]
                    \/ /\ usage[d].status # "none"
                       /\ AfterRelease(released)[d].status = "RELEASED"
                 /\ AfterRelease(released)[d].today = usage[d].today
                 /\ AfterRelease(released)[d].status \in {"RESERVED", "FINALIZED"} =>
                       AfterRelease(released)[d] = usage[d] /\ d \notin released
  <1>1. \A d \in Calls : usage[d] \in UsageRecords
    BY DEF AIInv, TypeOK
  <1>2. \A d \in Calls : /\ WithStatus(usage[d], "RELEASED") \in UsageRecords
                         /\ WithStatus(usage[d], "RELEASED").status = "RELEASED"
                         /\ WithStatus(usage[d], "RELEASED").expired = usage[d].expired
                         /\ WithStatus(usage[d], "RELEASED").today = usage[d].today
    BY <1>1, WithStatusIsARecord
  <1>3. \A d \in released : usage[d].status # "none"
    BY DEF AIInv, Late
  <1> QED BY <1>1, <1>2, <1>3 DEF AfterRelease

\* Only usage records change, none becomes charged, and what expired stays so.
LEMMA UsageOnly ==
    ASSUME AIInv, usage' \in [Calls -> UsageRecords],
           \A d \in Calls : /\ usage[d].status = "none" => usage'[d] = usage[d]
                            /\ usage'[d].status # "none" \/ usage'[d] = usage[d]
                            /\ usage[d].expired => usage'[d].expired
                            /\ usage'[d].today => usage[d].today
                            /\ usage'[d].status = "RESERVED" => usage[d].status = "RESERVED"
                            /\ usage'[d].status = "FINALIZED" => usage[d].status = "FINALIZED",
           UNCHANGED <<provider, hosted, event, call, suggestion, review>>,
           reader' \in [Readers -> SUBSET Calls],
           \A s \in Readers : reader'[s] \subseteq reader[s]
    PROVE  AIInv'
  <1>1. TypeOK'
    BY DEF AIInv, TypeOK
  <1>2. Late'
    BY DEF AIInv, TypeOK, CallStates, Late
  <1>3. Honest'
    <2>1. SUFFICES ASSUME NEW d \in Calls PROVE HonestCall(d)'
      BY DEF Honest
    <2>2. StoredBy(d)' = StoredBy(d)
      BY DEF StoredBy
    <2> QED BY <2>2, StaysHonest DEF AIInv, Honest
  <1>4. Counted' \subseteq Counted /\ Today(Counted)' \subseteq Today(Counted)
    BY DEF Counted, Today
  <1>5. RequestsWithinLimits'
    BY <1>4, FewerCounted DEF AIInv
  <1>6. Owned' /\ ReviewsExclusive'
    BY DEF AIInv, Owned, ReviewsExclusive
  <1> QED BY <1>1, <1>2, <1>3, <1>5, <1>6 DEF AIInv

LEMMA ExpireStep ==
    ASSUME AIInv, NEW c \in Calls, ReservationExpires(c)
    PROVE  AIInv'
  <1> DEFINE u == Reservation("RESERVED", usage[c].tokens, TRUE, usage[c].today)
  <1>1. usage[c] \in UsageRecords /\ usage[c].tokens \in Nat /\ usage[c].today \in BOOLEAN
    BY DEF AIInv, TypeOK, UsageRecords
  <1>2. u \in UsageRecords /\ u.status = "RESERVED" /\ u.expired /\ u.today = usage[c].today
    BY <1>1 DEF Reservation, UsageRecords
  <1>3. usage' = [usage EXCEPT ![c] = u] /\ usage[c].status = "RESERVED"
        /\ UNCHANGED <<provider, hosted, event, call, suggestion, reader, review>>
    BY DEF ReservationExpires
  <1> HIDE DEF u
  <1> QED BY <1>2, <1>3, UsageOnly DEF AIInv, TypeOK

LEMMA NewDayStep ==
    ASSUME AIInv, NewDay
    PROVE  AIInv'
  <1>1. \A d \in Calls : usage[d] \in UsageRecords /\ usage[d].tokens \in Nat
                         /\ usage[d].expired \in BOOLEAN
                         /\ usage[d].status \in {"none", "RESERVED", "FINALIZED", "RELEASED"}
    BY DEF AIInv, TypeOK, UsageRecords
  <1> DEFINE u(d) == Reservation(usage[d].status, usage[d].tokens, usage[d].expired, FALSE)
  <1>2. \A d \in Calls : u(d) \in UsageRecords /\ u(d).status = usage[d].status
                         /\ u(d).expired = usage[d].expired /\ u(d).today = FALSE
    BY <1>1 DEF Reservation, UsageRecords
  <1>3. usage' = [d \in Calls |-> IF usage[d].status = "none" THEN usage[d] ELSE u(d)]
        /\ UNCHANGED <<provider, hosted, event, call, suggestion, reader, review>>
    BY DEF NewDay
  <1> HIDE DEF u
  <1>4. usage' \in [Calls -> UsageRecords]
    BY <1>1, <1>2, <1>3
  <1>5. \A d \in Calls : \/ usage'[d] = usage[d]
                         \/ usage'[d] = u(d) /\ usage[d].status # "none"
    BY <1>3
  <1> QED BY <1>2, <1>3, <1>4, <1>5, UsageOnly DEF AIInv, TypeOK

LEMMA SummaryStep ==
    ASSUME AIInv, NEW s \in Readers, SummaryReleases(s)
    PROVE  AIInv'
  <1>1. reader[s] \in SUBSET Calls /\ \A d \in reader[s] : usage[d].expired
    BY DEF AIInv, TypeOK, Late
  <1>2. usage' = AfterRelease(reader[s]) /\ reader' = [reader EXCEPT ![s] = {}]
        /\ UNCHANGED <<provider, hosted, event, call, suggestion, review>>
    BY DEF SummaryReleases
  <1> QED BY <1>1, <1>2, Releases, UsageOnly DEF AIInv, TypeOK

LEMMA SelectStep ==
    ASSUME AIInv, NEW s \in Readers, SummarySelects(s)
    PROVE  AIInv'
  <1>1. reader' = [reader EXCEPT ![s] = ExpiredReservations]
        /\ UNCHANGED <<provider, hosted, usage, event, call, suggestion, review>>
    BY DEF SummarySelects
  <1>2. ExpiredReservations \subseteq Calls /\ \A d \in ExpiredReservations : usage[d].expired
    BY DEF ExpiredReservations
  <1>3. TypeOK' /\ Late'
    BY <1>1, <1>2 DEF AIInv, TypeOK, Late
  <1>4. Honest' /\ Owned' /\ ReviewsExclusive' /\ RequestsWithinLimits'
    BY <1>1 DEF AIInv, Honest, HonestCall, StoredBy, Owned, ReviewsExclusive,
                RequestsWithinLimits, Counted, Today
  <1> QED BY <1>3, <1>4 DEF AIInv

-----------------------------------------------------------------------------
(* Steps that write the rows of one request.                               *)

LEMMA OwnRows ==
    ASSUME AIInv, NEW c \in Calls, NEW s \in CallStates, NEW u \in UsageRecords,
           NEW e \in EventRecords,
           call' = [call EXCEPT ![c] = s], usage' = [usage EXCEPT ![c] = u],
           event' = [event EXCEPT ![c] = e],
           s.at # "selected", s.seen = {},
           u.status = "none" => u = usage[c],
           usage[c].expired => u.expired,
           u.status \in {"RESERVED", "FINALIZED"} =>
               usage[c].status \in {"RESERVED", "FINALIZED"} /\ (u.today => usage[c].today),
           HonestCall(c)',
           UNCHANGED <<provider, hosted, suggestion, reader, review>>
    PROVE  AIInv'
  <1>1. /\ call' \in [Calls -> CallStates] /\ call'[c] = s
        /\ usage' \in [Calls -> UsageRecords] /\ usage'[c] = u
        /\ event' \in [Calls -> EventRecords]
        /\ \A d \in Calls \ {c} :
              call'[d] = call[d] /\ usage'[d] = usage[d] /\ event'[d] = event[d]
    BY DEF AIInv, TypeOK
  <1>2. TypeOK'
    BY <1>1 DEF AIInv, TypeOK
  <1>3. Late'
    <2>1. \A d \in Calls : usage[d].expired => usage'[d].expired
      BY <1>1
    <2>2. \A d \in Calls : call[d] \in CallStates /\ call[d].seen \in SUBSET Calls
      BY DEF AIInv, TypeOK, CallStates
    <2>3. \A d \in Calls : usage'[d].status = "none" => ~usage'[d].expired
      BY <1>1 DEF AIInv, Late
    <2>4. \A d \in Calls : \A x \in call'[d].seen : usage'[x].expired
      BY <1>1, <2>1, <2>2 DEF AIInv, Late
    <2>5. \A r \in Readers : \A x \in reader'[r] : usage'[x].expired
      BY <2>1 DEF AIInv, Late, TypeOK
    <2> QED BY <2>3, <2>4, <2>5 DEF Late
  <1>4. Honest'
    <2>1. SUFFICES ASSUME NEW d \in Calls, d # c PROVE HonestCall(d)'
      BY DEF Honest
    <2>2. StoredBy(d)' = StoredBy(d)
      BY DEF StoredBy
    <2> QED BY <1>1, <2>1, <2>2, StaysHonest DEF AIInv, Honest
  <1>5. Counted' \subseteq Counted /\ Today(Counted)' \subseteq Today(Counted)
    BY <1>1 DEF Counted, Today
  <1>6. RequestsWithinLimits'
    BY <1>5, FewerCounted DEF AIInv
  <1>7. Owned' /\ ReviewsExclusive'
    BY DEF AIInv, Owned, ReviewsExclusive
  <1> QED BY <1>2, <1>3, <1>4, <1>6, <1>7 DEF AIInv

LEMMA RequestStep ==
    ASSUME AIInv, NEW c \in Calls, Request(c)
    PROVE  AIInv'
  <1> DEFINE s == Stands("requested", "none", call[c].found, {})
  <1>1. call[c] \in CallStates /\ call[c].found \in SUBSET Candidates /\ usage[c] \in UsageRecords
    BY DEF AIInv, TypeOK, CallStates
  <1>2. s \in CallStates /\ s.at = "requested" /\ s.outcome = "none" /\ s.found = call[c].found
        /\ s.seen = {}
    BY <1>1, StandsIsAState DEF Failures
  <1>3. /\ call' = [call EXCEPT ![c] = s] /\ usage' = [usage EXCEPT ![c] = usage[c]]
        /\ event' = [event EXCEPT ![c] = "REQUESTED"] /\ call[c].at = "idle"
        /\ UNCHANGED <<provider, hosted, usage, suggestion, reader, review>>
    BY DEF Request, CreateEvent, Moves, AIInv, TypeOK
  <1> HIDE DEF s
  <1>4. call'[c] = s /\ event'[c] = "REQUESTED" /\ usage'[c] = usage[c] /\ StoredBy(c)' = StoredBy(c)
    BY <1>3 DEF AIInv, TypeOK, StoredBy
  <1>5. HonestCall(c)'
    BY <1>2, <1>3, <1>4 DEF AIInv, Honest, HonestCall, Unsettled, Early, Failures
  <1>6. "REQUESTED" \in EventRecords
    BY DEF EventRecords
  <1> QED BY <1>1, <1>2, <1>3, <1>5, <1>6, OwnRows

LEMMA CompleteStep ==
    ASSUME AIInv, NEW c \in Calls, CompleteEvent(c)
    PROVE  AIInv'
  <1> DEFINE o == call[c].outcome
             e == Outcome(c)
             s == Stands("done", o, call[c].found, {})
  <1>1. call[c] \in CallStates /\ call[c].found \in SUBSET Candidates /\ usage[c] \in UsageRecords
        /\ o \in Failures \cup {"none", "SUCCEEDED"} /\ event[c] \in EventRecords
    BY DEF AIInv, TypeOK, CallStates
  <1>2. s \in CallStates /\ s.at = "done" /\ s.outcome = o /\ s.found = call[c].found /\ s.seen = {}
    BY <1>1 DEF Stands, CallStates
  <1>3. /\ call' = [call EXCEPT ![c] = s] /\ usage' = [usage EXCEPT ![c] = usage[c]]
        /\ event' = [event EXCEPT ![c] = e] /\ call[c].at = "closing"
        /\ UNCHANGED <<provider, hosted, usage, suggestion, reader, review>>
    BY DEF CompleteEvent, Moves, AIInv, TypeOK
  <1>4. e \in EventRecords /\ (e = event[c] \/ e = o)
    BY <1>1 DEF Outcome, EventRecords, Failures
  <1> HIDE DEF s, e
  <1>5. call'[c] = s /\ event'[c] = e /\ usage'[c] = usage[c] /\ StoredBy(c)' = StoredBy(c)
    BY <1>3 DEF AIInv, TypeOK, StoredBy
  <1>6. HonestCall(c)'
    BY <1>2, <1>3, <1>4, <1>5 DEF AIInv, Honest, HonestCall, Unsettled, Early, Failures
  <1> QED BY <1>1, <1>2, <1>3, <1>4, <1>6, OwnRows

LEMMA ReleaseStep ==
    ASSUME AIInv, NEW c \in Calls, Release(c)
    PROVE  AIInv'
  <1> DEFINE s == Stands("closing", call[c].outcome, call[c].found, {})
             u == AfterFailure(c)
  <1>1. call[c] \in CallStates /\ call[c].found \in SUBSET Candidates /\ usage[c] \in UsageRecords
        /\ call[c].outcome \in Failures \cup {"none", "SUCCEEDED"}
        /\ event[c] \in EventRecords
    BY DEF AIInv, TypeOK, CallStates
  <1>2. s \in CallStates /\ s.at = "closing" /\ s.outcome = call[c].outcome
        /\ s.found = call[c].found /\ s.seen = {}
    BY <1>1 DEF Stands, CallStates
  <1>3. /\ call' = [call EXCEPT ![c] = s] /\ usage' = [usage EXCEPT ![c] = u]
        /\ event' = [event EXCEPT ![c] = event[c]] /\ call[c].at = "failed"
        /\ UNCHANGED <<provider, hosted, event, suggestion, reader, review>>
    BY DEF Release, Moves, AIInv, TypeOK
  <1>4. /\ WithStatus(usage[c], "RELEASED") \in UsageRecords
        /\ WithStatus(usage[c], "RELEASED").status = "RELEASED"
        /\ WithStatus(usage[c], "RELEASED").expired = usage[c].expired
    BY <1>1, WithStatusIsARecord
  <1>5. u \in UsageRecords /\ (u = usage[c] \/ u.status = "RELEASED")
        /\ (usage[c].expired => u.expired)
        /\ (u.status \in {"RESERVED", "FINALIZED"} => u = usage[c])
    BY <1>1, <1>4 DEF AfterFailure
  <1> HIDE DEF s, u
  <1>6. call'[c] = s /\ event'[c] = event[c] /\ usage'[c] = u /\ StoredBy(c)' = StoredBy(c)
    BY <1>3 DEF AIInv, TypeOK, StoredBy
  <1>7. HonestCall(c)'
    BY <1>2, <1>3, <1>5, <1>6 DEF AIInv, Honest, HonestCall, Unsettled, Early, Failures
  <1> QED BY <1>1, <1>2, <1>3, <1>5, <1>7, OwnRows

LEMMA FinalizeStep ==
    ASSUME AIInv, NEW c \in Calls, NEW tokens \in ReportedTokens, Finalize(c, tokens)
    PROVE  AIInv'
  <1>1. CASE ~Metered
    BY <1>1, MovesOnly DEF Finalize, Failures
  <1>2. CASE Metered /\ usage[c].status # "RESERVED"
    BY <1>2, MovesOnly DEF Finalize, Failures
  <1>3. CASE Metered /\ usage[c].status = "RESERVED"
    <2> DEFINE s == Stands("metered", "none", call[c].found, {})
               u == Reservation("FINALIZED", tokens, usage[c].expired, usage[c].today)
    <2>1. call[c] \in CallStates /\ call[c].found \in SUBSET Candidates /\ usage[c] \in UsageRecords
          /\ event[c] \in EventRecords
      BY DEF AIInv, TypeOK, CallStates
    <2>2. s \in CallStates /\ s.at = "metered" /\ s.outcome = "none"
          /\ s.found = call[c].found /\ s.seen = {}
      BY <2>1, StandsIsAState DEF Failures
    <2>3. /\ call' = [call EXCEPT ![c] = s] /\ usage' = [usage EXCEPT ![c] = u]
          /\ event' = [event EXCEPT ![c] = event[c]] /\ call[c].at = "answered"
          /\ UNCHANGED <<provider, hosted, event, suggestion, reader, review>>
      BY <1>3 DEF Finalize, Charge, Moves, AIInv, TypeOK
    <2>4. tokens \in Nat
      BY LimitsAssumption
    <2>5. u \in UsageRecords /\ u.status = "FINALIZED" /\ (usage[c].expired => u.expired)
          /\ (u.today => usage[c].today)
      BY <2>1, <2>4 DEF Reservation, UsageRecords
    <2> HIDE DEF s, u
    <2>6. call'[c] = s /\ event'[c] = event[c] /\ usage'[c] = u /\ StoredBy(c)' = StoredBy(c)
      BY <2>3 DEF AIInv, TypeOK, StoredBy
    <2>7. HonestCall(c)'
      BY <2>2, <2>3, <2>5, <2>6 DEF AIInv, Honest, HonestCall, Unsettled, Early, Failures
    <2> QED BY <1>3, <2>1, <2>2, <2>3, <2>5, <2>7, OwnRows
  <1> QED BY <1>1, <1>2, <1>3

\* A reservation is taken beside the calls that stay counted, within the limits.
LEMMA ReserveStep ==
    ASSUME AIInv, NEW c \in Calls, Reserve(c)
    PROVE  AIInv'
  <1> DEFINE s == Stands("calling", "none", call[c].found, {})
             u == Reservation("RESERVED", Estimate, FALSE, TRUE)
             base == AfterRelease(call[c].seen)
  <1>1. /\ call[c] \in CallStates /\ call[c].found \in SUBSET Candidates
        /\ call[c].seen \in SUBSET Calls /\ \A d \in call[c].seen : usage[d].expired
    BY DEF AIInv, TypeOK, CallStates, Late
  <1>2. s \in CallStates /\ s.at = "calling" /\ s.outcome = "none"
        /\ s.found = call[c].found /\ s.seen = {}
    BY <1>1, StandsIsAState
  <1>3. u \in UsageRecords /\ u.status = "RESERVED"
    BY LimitsAssumption DEF Reservation, UsageRecords
  <1>4. /\ base \in [Calls -> UsageRecords]
        /\ \A d \in Calls :
              /\ base[d].expired = usage[d].expired
              /\ \/ base[d] = usage[d]
                 \/ usage[d].status # "none" /\ base[d].status = "RELEASED"
              /\ base[d].status \in {"RESERVED", "FINALIZED"} =>
                    base[d] = usage[d] /\ d \notin call[c].seen
    BY <1>1, Releases
  <1>5. /\ call' = [call EXCEPT ![c] = s] /\ usage' = [base EXCEPT ![c] = u]
        /\ call[c].at = "selected"
        /\ UNCHANGED <<provider, hosted, event, suggestion, reader, review>>
    BY DEF Reserve, Released, Moves
  <1>6. usage[c].status = "none" /\ ~usage[c].expired
    BY <1>5 DEF AIInv, Late, Honest, HonestCall, Early
  <1> HIDE DEF s, u, base
  <1>7. /\ call' \in [Calls -> CallStates] /\ call'[c] = s
        /\ usage' \in [Calls -> UsageRecords] /\ usage'[c] = u
        /\ \A d \in Calls \ {c} : call'[d] = call[d] /\ usage'[d] = base[d]
    BY <1>2, <1>3, <1>4, <1>5 DEF AIInv, TypeOK
  <1>8. TypeOK'
    BY <1>2, <1>5, <1>7 DEF AIInv, TypeOK
  <1>9. Late'
    <2>1. \A d \in Calls : usage[d].expired => usage'[d].expired
      BY <1>4, <1>6, <1>7
    <2>2. \A d \in Calls : call[d] \in CallStates /\ call[d].seen \in SUBSET Calls
      BY DEF AIInv, TypeOK, CallStates
    <2>3. \A d \in Calls : usage'[d].status = "none" => ~usage'[d].expired
      BY <1>3, <1>4, <1>7 DEF AIInv, Late
    <2>4. \A d \in Calls : \A x \in call'[d].seen : usage'[x].expired
      BY <1>2, <1>7, <2>1, <2>2 DEF AIInv, Late
    <2>5. \A r \in Readers : \A x \in reader'[r] : usage'[x].expired
      BY <1>5, <2>1 DEF AIInv, Late, TypeOK
    <2> QED BY <2>3, <2>4, <2>5 DEF Late
  <1>10. Honest'
    <2>1. HonestCall(c)'
      <3>1. StoredBy(c)' = StoredBy(c) /\ event'[c] = event[c]
        BY <1>5 DEF StoredBy
      <3> QED BY <1>2, <1>3, <1>5, <1>7, <3>1
              DEF AIInv, Honest, HonestCall, Unsettled, Early, Failures
    <2>2. ASSUME NEW d \in Calls, d # c PROVE HonestCall(d)'
      <3>1. StoredBy(d)' = StoredBy(d) /\ event'[d] = event[d]
        BY <1>5 DEF StoredBy
      <3> QED BY <1>4, <1>7, <2>2, <3>1, StaysHonest DEF AIInv, Honest
    <2> QED BY <2>1, <2>2 DEF Honest
  <1>11. RequestsWithinLimits'
    <2> DEFINE all == CountedBeside(c)
               day == Today(CountedBeside(c))
    <2>1. Counted' \subseteq all \cup {c} /\ Today(Counted)' \subseteq day \cup {c}
      BY <1>4, <1>7 DEF Counted, Today, CountedBeside
    <2>2. all \subseteq Calls /\ day \subseteq Calls
      BY DEF CountedBeside, Today
    <2>3. Cardinality(day) + 1 <= DailyRequests /\ Cardinality(all) + 1 <= MonthlyRequests
      BY DEF Reserve, Allowed
    <2> HIDE DEF all, day
    <2>4. IsFiniteSet(all) /\ IsFiniteSet(day)
      BY <2>2, CallsAssumption, FS_Subset
    <2>5. /\ IsFiniteSet(all \cup {c}) /\ Cardinality(all \cup {c}) <= Cardinality(all) + 1
          /\ IsFiniteSet(day \cup {c}) /\ Cardinality(day \cup {c}) <= Cardinality(day) + 1
      <3>1. /\ Cardinality(all \cup {c}) = Cardinality(all)
               \/ Cardinality(all \cup {c}) = Cardinality(all) + 1
            /\ IsFiniteSet(all \cup {c}) /\ Cardinality(all) \in Nat
        BY <2>4, FS_AddElement, FS_CardinalityType
      <3>2. /\ Cardinality(day \cup {c}) = Cardinality(day)
               \/ Cardinality(day \cup {c}) = Cardinality(day) + 1
            /\ IsFiniteSet(day \cup {c}) /\ Cardinality(day) \in Nat
        BY <2>4, FS_AddElement, FS_CardinalityType
      <3> QED BY <3>1, <3>2
    <2>6. /\ Cardinality(Counted') <= Cardinality(all \cup {c})
          /\ Cardinality(Today(Counted)') <= Cardinality(day \cup {c})
          /\ IsFiniteSet(Counted') /\ IsFiniteSet(Today(Counted)')
      BY <2>1, <2>5, FS_Subset
    <2>7. /\ Cardinality(Counted') \in Nat /\ Cardinality(Today(Counted)') \in Nat
          /\ Cardinality(all \cup {c}) \in Nat /\ Cardinality(day \cup {c}) \in Nat
          /\ Cardinality(all) \in Nat /\ Cardinality(day) \in Nat
      BY <2>4, <2>5, <2>6, FS_CardinalityType
    <2> QED BY <2>3, <2>5, <2>6, <2>7, LimitsAssumption DEF RequestsWithinLimits
  <1>12. Owned' /\ ReviewsExclusive'
    BY <1>5 DEF AIInv, Owned, ReviewsExclusive
  <1> QED BY <1>8, <1>9, <1>10, <1>11, <1>12 DEF AIInv

LEMMA LockStep ==
    ASSUME AIInv, NEW c \in Calls, LockOrganization(c)
    PROVE  AIInv'
  <1>1. CASE ~hosted
    BY <1>1, MovesOnly DEF LockOrganization, Unsettled, Failures
  <1>2. CASE hosted
    <2> DEFINE s == Stands("selected", "none", {}, ExpiredReservations)
    <2>1. ExpiredReservations \in SUBSET Calls /\ \A d \in ExpiredReservations : usage[d].expired
      BY DEF ExpiredReservations
    <2>2. s \in CallStates /\ s.at = "selected" /\ s.outcome = "none" /\ s.found = {}
          /\ s.seen = ExpiredReservations
      BY <2>1, StandsIsAState
    <2>3. /\ call' = [call EXCEPT ![c] = s] /\ call[c].at = "requested" /\ ~OrganizationLocked
          /\ UNCHANGED <<provider, hosted, usage, event, suggestion, reader, review>>
      BY <1>2 DEF LockOrganization
    <2> HIDE DEF s
    <2>4. call'[c] = s /\ event'[c] = event[c] /\ usage'[c] = usage[c] /\ StoredBy(c)' = StoredBy(c)
      BY <2>3 DEF AIInv, TypeOK, StoredBy
    <2>5. HonestCall(c)'
      BY <2>2, <2>3, <2>4 DEF AIInv, Honest, HonestCall, Unsettled, Early, Failures
    <2> QED BY <2>1, <2>2, <2>3, <2>5, OnlyMoves
  <1> QED BY <1>1, <1>2

LEMMA AnswerStep ==
    ASSUME AIInv, NEW c \in Calls, NEW found \in SUBSET Candidates, Answer(c, found)
    PROVE  AIInv'
  <1> DEFINE s == Stands("answered", "none", found, {})
  <1>1. s \in CallStates /\ s.at = "answered" /\ s.outcome = "none" /\ s.found = found
        /\ s.seen = {}
    BY StandsIsAState
  <1>2. /\ call' = [call EXCEPT ![c] = s] /\ call[c].at = "calling"
        /\ UNCHANGED <<provider, hosted, usage, event, suggestion, reader, review>>
    BY DEF Answer
  <1> HIDE DEF s
  <1>3. call'[c] = s /\ event'[c] = event[c] /\ usage'[c] = usage[c] /\ StoredBy(c)' = StoredBy(c)
    BY <1>2 DEF AIInv, TypeOK, StoredBy
  <1>4. HonestCall(c)'
    BY <1>1, <1>2, <1>3 DEF AIInv, Honest, HonestCall, Unsettled, Early, Failures
  <1> QED BY <1>1, <1>2, <1>4, OnlyMoves

\* The suggestions of one response are stored together, none over another's.
LEMMA PersistStep ==
    ASSUME AIInv, NEW c \in Calls, Persist(c)
    PROVE  AIInv'
  <1>1. CASE Conflicts(c)
    BY <1>1, MovesOnly DEF Persist, Failures
  <1>2. CASE ~Conflicts(c)
    <2> DEFINE s == Stands("closing", "SUCCEEDED", call[c].found, {})
    <2>1. /\ call[c] \in CallStates /\ call[c].found \in SUBSET Candidates
          /\ \A k \in call[c].found : suggestion[k].status = "none"
          /\ suggestion \in [Candidates -> SuggestionRecords]
      BY <1>2 DEF AIInv, TypeOK, CallStates, Conflicts, Conflict
    <2>2. s \in CallStates /\ s.at = "closing" /\ s.outcome = "SUCCEEDED"
          /\ s.found = call[c].found /\ s.seen = {}
      BY <2>1, StandsIsAState
    <2>3. /\ call' = [call EXCEPT ![c] = s] /\ suggestion' = Stored(c) /\ call[c].at = "metered"
          /\ UNCHANGED <<provider, hosted, usage, event, reader, review>>
      BY <1>2 DEF Persist, Moves
    <2> HIDE DEF s
    <2>4. call' \in [Calls -> CallStates] /\ call'[c] = s /\ \A d \in Calls \ {c} : call'[d] = call[d]
      BY <2>2, <2>3 DEF AIInv, TypeOK
    <2>5. /\ suggestion' \in [Candidates -> SuggestionRecords]
          /\ \A k \in call[c].found : suggestion'[k].status = "PENDING" /\ suggestion'[k].by = c
          /\ \A k \in Candidates \ call[c].found : suggestion'[k] = suggestion[k]
      BY <2>1, <2>3 DEF Stored, Suggestion, SuggestionRecords
    <2>6. c # NoCall /\ \A k \in call[c].found : suggestion[k].by = NoCall
      BY <2>1, CallsAssumption DEF AIInv, Owned
    <2>7. TypeOK'
      <3>1. \A v \in Reviewers :
               review'[v] # NoCandidate => suggestion'[review'[v]].status = "PENDING"
        BY <2>1, <2>3, <2>5 DEF AIInv, TypeOK
      <3> QED BY <2>2, <2>3, <2>4, <2>5, <3>1 DEF AIInv, TypeOK
    <2>8. Late'
      BY <2>2, <2>3, <2>4 DEF AIInv, Late
    <2>9. HonestCall(c)'
      <3>1. StoredBy(c) = {} /\ event[c] \in {"none", "REQUESTED"}
        BY <2>3 DEF AIInv, Honest, HonestCall
      <3>2. StoredBy(c)' = call[c].found
        BY <2>1, <2>5, <3>1 DEF StoredBy
      <3>3. event'[c] = event[c] /\ usage'[c] = usage[c]
        BY <2>3
      <3> QED BY <2>2, <2>3, <2>4, <3>1, <3>2, <3>3
              DEF AIInv, Honest, HonestCall, Unsettled, Early, Failures
    <2>10. Honest'
      <3>1. SUFFICES ASSUME NEW d \in Calls, d # c PROVE HonestCall(d)'
        BY <2>9 DEF Honest
      <3>2. StoredBy(d)' = StoredBy(d)
        BY <2>1, <2>5, <2>6, <3>1, CallsAssumption DEF StoredBy
      <3> QED BY <2>3, <2>4, <3>1, <3>2, StaysHonest DEF AIInv, Honest
    <2>11. Owned' /\ ReviewsExclusive' /\ RequestsWithinLimits'
      BY <2>3, <2>5 DEF AIInv, Owned, ReviewsExclusive, RequestsWithinLimits, Counted, Today
    <2> QED BY <2>7, <2>8, <2>10, <2>11 DEF AIInv
  <1> QED BY <1>1, <1>2

LEMMA ReviewStep ==
    ASSUME AIInv, NEW v \in Reviewers, NEW k \in Candidates, StartReview(v, k)
    PROVE  AIInv'
  <1>1. /\ review' = [review EXCEPT ![v] = k] /\ suggestion[k].status = "PENDING"
        /\ \A w \in Reviewers \ {v} : review[w] # k
        /\ UNCHANGED <<provider, hosted, usage, event, call, suggestion, reader>>
    BY DEF StartReview, Lockable
  <1>2. review'[v] = k /\ \A w \in Reviewers \ {v} : review'[w] = review[w]
    BY <1>1 DEF AIInv, TypeOK
  <1>3. TypeOK' /\ ReviewsExclusive'
    BY <1>1, <1>2, CandidatesAssumption DEF AIInv, TypeOK, ReviewsExclusive
  <1>4. Late' /\ Honest' /\ Owned' /\ RequestsWithinLimits'
    BY <1>1 DEF AIInv, Late, Honest, HonestCall, StoredBy, Owned, RequestsWithinLimits,
                Counted, Today
  <1> QED BY <1>3, <1>4 DEF AIInv

\* A decision replaces the suggestion its reviewer has locked, and no other.
LEMMA DecideWrites ==
    ASSUME AIInv, NEW v \in Reviewers, NEW decision \in {"ACCEPTED", "REJECTED"},
           Decide(v, decision)
    PROVE  /\ review[v] \in Candidates /\ suggestion[review[v]].status = "PENDING"
           /\ suggestion' \in [Candidates -> SuggestionRecords]
           /\ suggestion'[review[v]].status = decision
           /\ suggestion'[review[v]].by = suggestion[review[v]].by
           /\ \A k \in Candidates \ {review[v]} : suggestion'[k] = suggestion[k]
  <1> DEFINE k == review[v]
             x == Suggestion(decision, suggestion[k].by)
  <1>1. k \in Candidates /\ suggestion[k] \in SuggestionRecords /\ suggestion[k].status = "PENDING"
    BY DEF AIInv, TypeOK, Decide
  <1>2. x \in SuggestionRecords /\ x.status = decision /\ x.by = suggestion[k].by
    BY <1>1 DEF Suggestion, SuggestionRecords
  <1>3. suggestion' = [suggestion EXCEPT ![k] = x]
    BY DEF Decide
  <1> HIDE DEF x
  <1> QED BY <1>1, <1>2, <1>3 DEF AIInv, TypeOK

LEMMA DecideStep ==
    ASSUME AIInv, NEW v \in Reviewers, NEW decision \in {"ACCEPTED", "REJECTED"},
           Decide(v, decision)
    PROVE  AIInv'
  <1>1. /\ review' = [review EXCEPT ![v] = NoCandidate] /\ review[v] # NoCandidate
        /\ UNCHANGED <<provider, hosted, usage, event, call, reader>>
    BY DEF Decide
  <1>2. review'[v] = NoCandidate /\ \A w \in Reviewers \ {v} : review'[w] = review[w]
    BY <1>1 DEF AIInv, TypeOK
  <1>3. \A w \in Reviewers \ {v} : review[w] # review[v]
    BY <1>1 DEF AIInv, ReviewsExclusive
  <1>4. TypeOK'
    <2>1. \A w \in Reviewers :
             review'[w] # NoCandidate => suggestion'[review'[w]].status = "PENDING"
      BY <1>2, <1>3, DecideWrites DEF AIInv, TypeOK
    <2> QED BY <1>1, <2>1, DecideWrites DEF AIInv, TypeOK
  <1>5. \A d \in Calls : StoredBy(d)' = StoredBy(d)
    BY DecideWrites DEF StoredBy
  <1>6. Honest'
    BY <1>1, <1>5, StaysHonest DEF AIInv, Honest
  <1>7. Late' /\ RequestsWithinLimits'
    BY <1>1 DEF AIInv, Late, RequestsWithinLimits, Counted, Today
  <1>8. Owned'
    BY DecideWrites DEF AIInv, Owned
  <1>9. ReviewsExclusive'
    BY <1>2 DEF AIInv, ReviewsExclusive
  <1> QED BY <1>4, <1>6, <1>7, <1>8, <1>9 DEF AIInv

-----------------------------------------------------------------------------
LEMMA AIInit == Init => AIInv
  <1> SUFFICES ASSUME Init PROVE AIInv
    OBVIOUS
  <1> DEFINE u == Reservation("none", 0, FALSE, TRUE)
             s == Stands("idle", "none", {}, {})
             g == Suggestion("none", NoCall)
  <1>1. u \in UsageRecords /\ u.status = "none" /\ ~u.expired
    BY DEF Reservation, UsageRecords
  <1>2. s \in CallStates /\ s.at = "idle" /\ s.seen = {}
    BY StandsIsAState DEF Failures
  <1>3. g \in SuggestionRecords /\ g.status = "none" /\ g.by = NoCall
    BY DEF Suggestion, SuggestionRecords
  <1>4. /\ usage = [c \in Calls |-> u] /\ call = [c \in Calls |-> s]
        /\ suggestion = [k \in Candidates |-> g] /\ event = [c \in Calls |-> "none"]
        /\ reader = [r \in Readers |-> {}] /\ review = [v \in Reviewers |-> NoCandidate]
        /\ provider \in Providers /\ hosted \in BOOLEAN
    BY DEF Init
  <1> HIDE DEF u, s, g
  <1>5. TypeOK
    BY <1>1, <1>2, <1>3, <1>4 DEF TypeOK, EventRecords
  <1>6. Late /\ Owned /\ ReviewsExclusive
    BY <1>1, <1>2, <1>3, <1>4 DEF Late, Owned, ReviewsExclusive
  <1>7. Honest
    <2>1. \A c \in Calls : StoredBy(c) = {}
      BY <1>3, <1>4, CallsAssumption DEF StoredBy
    <2> QED BY <1>1, <1>2, <1>4, <2>1 DEF Honest, HonestCall, Unsettled, Early, Failures
  <1>8. RequestsWithinLimits
    <2>1. Counted = {} /\ Today(Counted) = {}
      BY <1>1, <1>4 DEF Counted, Today
    <2> QED BY <2>1, FS_EmptySet, LimitsAssumption DEF RequestsWithinLimits
  <1> QED BY <1>5, <1>6, <1>7, <1>8 DEF AIInv

LEMMA AIStep == AIInv /\ [Next]_vars => AIInv'
  <1> SUFFICES ASSUME AIInv, [Next]_vars PROVE AIInv'
    OBVIOUS
  <1>1. CASE UNCHANGED vars
    BY <1>1 DEF vars, AIInv, TypeOK, Late, Honest, HonestCall, StoredBy, Owned,
                ReviewsExclusive, RequestsWithinLimits, Counted, Today
  <1>2. ASSUME NEW c \in Calls, Request(c) PROVE AIInv'
    BY <1>2, RequestStep
  <1>3. ASSUME NEW c \in Calls, Proceed(c) PROVE AIInv'
    <2>1. CASE SkipReservation(c)
      BY <2>1, MovesOnly DEF SkipReservation, Unsettled
    <2>2. CASE LockOrganization(c)
      BY <2>2, LockStep
    <2>3. CASE Reserve(c)
      BY <2>3, ReserveStep
    <2>4. CASE Refuse(c)
      BY <2>4, MovesOnly DEF Refuse, RolledBack, Unsettled, Failures
    <2>5. CASE \E found \in Responses : Answer(c, found)
      BY <2>5, AnswerStep DEF Responses
    <2>6. CASE \E tokens \in ReportedTokens : Finalize(c, tokens)
      BY <2>6, FinalizeStep
    <2>7. CASE CallFails(c)
      BY <2>7, MovesOnly DEF CallFails, Unsettled, Failures
    <2>8. CASE Release(c)
      BY <2>8, ReleaseStep
    <2>9. CASE Persist(c)
      BY <2>9, PersistStep
    <2>10. CASE CompleteEvent(c)
      BY <2>10, CompleteStep
    <2> QED BY <1>3, <2>1, <2>2, <2>3, <2>4, <2>5, <2>6, <2>7, <2>8, <2>9, <2>10 DEF Proceed
  <1>4. ASSUME NEW c \in Calls, Crash(c) PROVE AIInv'
    BY <1>4, MovesOnly DEF Crash, Failures
  <1>5. ASSUME NEW c \in Calls, ReservationExpires(c) PROVE AIInv'
    BY <1>5, ExpireStep
  <1>6. ASSUME NewDay PROVE AIInv'
    BY <1>6, NewDayStep
  <1>7. ASSUME NEW s \in Readers, SummarySelects(s) \/ SummaryReleases(s) PROVE AIInv'
    BY <1>7, SelectStep, SummaryStep
  <1>8. ASSUME NEW v \in Reviewers, NEW k \in Candidates, StartReview(v, k) PROVE AIInv'
    BY <1>8, ReviewStep
  <1>9. ASSUME NEW v \in Reviewers, NEW decision \in {"ACCEPTED", "REJECTED"},
               Decide(v, decision)
        PROVE AIInv'
    BY <1>9, DecideStep
  <1> QED BY <1>1, <1>2, <1>3, <1>4, <1>5, <1>6, <1>7, <1>8, <1>9 DEF Next

\* Request handlers, summaries and reviewers keep the invariant in every
\* reachable state.
THEOREM AIInvariant == Spec => []AIInv
  BY AIInit, AIStep, PTL DEF Spec

\* The rows of the metering, the events and the suggestions keep their types,
\* and one transaction at a time holds the organization's row.
THEOREM AITypes == Spec => []TypeOK
  <1>1. AIInv => TypeOK
    BY DEF AIInv
  <1> QED BY <1>1, AIInvariant, PTL

\* AIUsageController.reserve never lets more calls be charged than the limits
\* of the organization, for any number of requests.
THEOREM ChargesStayWithinLimits == Spec => []RequestsWithinLimits
  <1>1. AIInv => RequestsWithinLimits
    BY DEF AIInv
  <1> QED BY <1>1, AIInvariant, PTL

\* The outcome the observer records agrees with the stored suggestions and the
\* charge.
THEOREM RecordedOutcomesAreTrue == Spec => []OutcomesAreTrue
  <1>1. AIInv => OutcomesAreTrue
    BY DEF AIInv, Honest, HonestCall, OutcomesAreTrue
  <1> QED BY <1>1, AIInvariant, PTL

-----------------------------------------------------------------------------
(* The action properties, for any step from a state of the invariant.      *)

LEMMA DecisionsStand ==
    ASSUME AIInv, [Next]_vars, NEW k \in Candidates,
           suggestion[k].status \in {"ACCEPTED", "REJECTED"}
    PROVE  suggestion'[k] = suggestion[k]
  <1>1. ASSUME NEW c \in Calls, Persist(c) PROVE suggestion'[k] = suggestion[k]
    BY <1>1 DEF Persist, Conflicts, Conflict, Stored
  <1>2. ASSUME NEW v \in Reviewers, NEW decision \in {"ACCEPTED", "REJECTED"},
               Decide(v, decision)
        PROVE suggestion'[k] = suggestion[k]
    BY <1>2, DecideWrites
  <1>3. ASSUME NEW c \in Calls, Proceed(c), ~Persist(c) PROVE UNCHANGED suggestion
    BY <1>3 DEF Proceed, SkipReservation, LockOrganization, Reserve, Refuse, Answer,
                Finalize, CallFails, Release, CompleteEvent
  <1> QED BY <1>1, <1>2, <1>3 DEF Next, vars, Request, Crash, ReservationExpires, NewDay,
             SummarySelects, SummaryReleases, StartReview

\* resolve locks the suggestion it decides, and create never replaces one: a
\* decided suggestion stays as it was decided.
THEOREM DecisionsAreFinal == Spec => DecidedOnce
  <1>1. AIInv /\ [Next]_vars =>
            [\A k \in Candidates :
                suggestion[k].status \in {"ACCEPTED", "REJECTED"}
                    => suggestion'[k] = suggestion[k]]_vars
    BY DecisionsStand
  <1> QED BY <1>1, AIInvariant, PTL DEF Spec, DecidedOnce

LEMMA ChargesStand ==
    ASSUME AIInv, [Next]_vars, NEW c \in Calls,
           usage[c].status = "FINALIZED", usage'[c].status # "FINALIZED"
    PROVE  usage[c].expired
  <1>1. ASSUME NEW d \in Calls, Reserve(d) PROVE usage[c].expired
    <2>1. usage[d].status = "none" /\ c # d
      BY <1>1 DEF Reserve, AIInv, Honest, HonestCall, Early
    <2>2. usage'[c] = AfterRelease(call[d].seen)[c]
      BY <1>1, <2>1 DEF Reserve, Released, AfterRelease
    <2>3. \/ AfterRelease(call[d].seen)[c] = usage[c]
          \/ c \in call[d].seen
      BY DEF AfterRelease
    <2> QED BY <2>2, <2>3 DEF AIInv, Late
  <1>2. ASSUME NEW s \in Readers, SummaryReleases(s) PROVE usage[c].expired
    <2>1. \/ AfterRelease(reader[s])[c] = usage[c]
          \/ c \in reader[s]
      BY DEF AfterRelease
    <2> QED BY <1>2, <2>1 DEF SummaryReleases, AIInv, Late
  <1>3. ASSUME NEW d \in Calls, NEW tokens \in ReportedTokens, Finalize(d, tokens)
        PROVE usage'[c].status = "FINALIZED"
    BY <1>3 DEF Finalize, Reservation, AIInv, TypeOK
  <1>4. ASSUME NEW d \in Calls, Release(d) PROVE usage'[c] = usage[c]
    BY <1>4 DEF Release, AfterFailure, AIInv, TypeOK
  <1>5. ASSUME NEW d \in Calls, ReservationExpires(d) PROVE usage'[c] = usage[c]
    BY <1>5 DEF ReservationExpires, AIInv, TypeOK
  <1>6. ASSUME NewDay PROVE usage'[c].status = "FINALIZED"
    BY <1>6 DEF NewDay, Reservation
  <1>7. ASSUME NEW d \in Calls, Proceed(d), ~Reserve(d), ~Release(d),
               ~(\E tokens \in ReportedTokens : Finalize(d, tokens))
        PROVE UNCHANGED usage
    BY <1>7 DEF Proceed, SkipReservation, LockOrganization, Refuse, Answer, CallFails,
                Persist, CompleteEvent
  <1> QED BY <1>1, <1>2, <1>3, <1>4, <1>5, <1>6, <1>7
          DEF Next, vars, Request, Crash, SummarySelects, StartReview, Decide

\* Only a charge whose reservation had expired is taken back, by the write of
\* a release_expired that selected it before it was finalized.
THEOREM ChargesAreLostLate == Spec => OnlyLateChargesAreLost
  <1>1. AIInv /\ [Next]_vars =>
            [\A c \in Calls :
                usage[c].status = "FINALIZED" /\ usage'[c].status # "FINALIZED"
                    => usage[c].expired]_vars
    BY ChargesStand
  <1> QED BY <1>1, AIInvariant, PTL DEF Spec, OnlyLateChargesAreLost
=============================================================================
