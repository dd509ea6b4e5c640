----------------------------- MODULE AIMatching -----------------------------
(***************************************************************************)
(* AI match suggestions for one completed run: requests to generate them,  *)
(* the metering of paid calls against the limits of the organization, the  *)
(* inference events, the stored suggestions and their review.              *)
(*                                                                         *)
(* A request runs in several transactions: the event, the reservation, the *)
(* outcome of the call, the suggestions, the event again.  reserve locks   *)
(* the organization's row; release_expired, which reserve and the usage    *)
(* summary run, selects expired reservations without a lock and later      *)
(* writes RELEASED over whatever status they have by then.                 *)
(*                                                                         *)
(* A SUCCEEDED run keeps its results (JobPipeline), so every request for   *)
(* it offers the provider the same candidates.  reserve reads its clock    *)
(* before it waits for the lock: sums over a longer window and with fewer  *)
(* expired reservations are larger, never smaller, so the clock is read at *)
(* the lock here.  All calls lie in one month; a new day may begin.        *)
(* Nothing in the API expires a suggestion.                                *)
(***************************************************************************)
EXTENDS Integers, FiniteSetsExt

CONSTANTS
    Calls,              \* requests to generate suggestions, each made once
    Candidates,         \* candidate fingerprints the generator finds for the run
    NoCall, NoCandidate,
    Readers,            \* requests for the usage summary
    Reviewers,          \* requests that decide a suggestion
    DailyRequests, MonthlyRequests, DailyTokens, MonthlyTokens,
    Estimate,           \* tokens reserved for a call
    ReportedTokens      \* bound: what a provider may report to have used

ASSUME CallsAssumption == IsFiniteSet(Calls) /\ NoCall \notin Calls
ASSUME CandidatesAssumption == NoCandidate \notin Candidates
ASSUME LimitsAssumption ==
    {DailyRequests, MonthlyRequests, DailyTokens, MonthlyTokens, Estimate} \cup ReportedTokens
        \subseteq Nat

VARIABLES
    provider,           \* the configured inference provider
    hosted,             \* hosted_ai_enabled of the organization
    usage,              \* usage[c]: the reservation of a call
    event,              \* event[c]: the outcome recorded for a call
    call,               \* call[c]: where a request stands
    suggestion,         \* suggestion[k]: the stored suggestion for a candidate
    reader,             \* reader[s]: the reservations a summary is going to release
    review              \* review[v]: the suggestion a reviewer has locked

vars == <<provider, hosted, usage, event, call, suggestion, reader, review>>

Providers == {"disabled", "deterministic", "openai-compatible"}
Failures == {"FAILED", "TIMED_OUT", "DISABLED", "QUOTA_REJECTED"}
UsageRecords ==
    [status : {"none", "RESERVED", "FINALIZED", "RELEASED"},
     tokens : Nat, expired : BOOLEAN, today : BOOLEAN]
CallStates ==
    [at : {"idle", "requested", "selected", "calling", "failed", "answered",
           "metered", "closing", "done"},
     outcome : Failures \cup {"none", "SUCCEEDED"},
     found : SUBSET Candidates, seen : SUBSET Calls]
EventRecords == Failures \cup {"none", "REQUESTED", "SUCCEEDED"}
\* A valid response refers to each candidate once, if at all.
Responses == SUBSET Candidates
SuggestionRecords ==
    [status : {"none", "PENDING", "ACCEPTED", "REJECTED"}, by : Calls \cup {NoCall}]

Stands(at, outcome, found, seen) ==
    [at |-> at, outcome |-> outcome, found |-> found, seen |-> seen]
Reservation(status, tokens, expired, today) ==
    [status |-> status, tokens |-> tokens, expired |-> expired, today |-> today]
WithStatus(u, status) == Reservation(status, u.tokens, u.expired, u.today)
Suggestion(status, c) == [status |-> status, by |-> c]

StoredBy(c) == {k \in Candidates : suggestion[k].by = c}

\* hosted_ai_enabled is what the database holds: the endpoint that should set
\* it calls a method its repository does not have.
Init ==
    /\ provider \in Providers
    /\ hosted \in BOOLEAN
    /\ usage = [c \in Calls |-> Reservation("none", 0, FALSE, TRUE)]
    /\ event = [c \in Calls |-> "none"]
    /\ call = [c \in Calls |-> Stands("idle", "none", {}, {})]
    /\ suggestion = [k \in Candidates |-> Suggestion("none", NoCall)]
    /\ reader = [s \in Readers |-> {}]
    /\ review = [v \in Reviewers |-> NoCandidate]

Metered == provider = "openai-compatible"
Moves(c, at, outcome) ==
    call' = [call EXCEPT ![c] = Stands(at, outcome, call[c].found, {})]

-----------------------------------------------------------------------------
(* The reservation.                                                        *)

\* Mutant: every open reservation is released, not only those that expired.
AnyReserved == {c \in Calls : usage[c].status = "RESERVED"}
ExpiredReservations == {c \in Calls : usage[c].status = "RESERVED" /\ usage[c].expired}

\* release_expired writes what its select returned.
AfterRelease(released) ==
    [c \in Calls |-> IF c \in released THEN WithStatus(usage[c], "RELEASED") ELSE usage[c]]

\* Mutant: the expired reservations are left out of the sums, not released.
NotReleased(c) == {}
Released(c) == call[c].seen

\* The calls summarize counts once release_expired has run.
CountedBeside(c) ==
    {d \in Calls \ call[c].seen : usage[d].status \in {"RESERVED", "FINALIZED"}}
Today(S) == {c \in S : usage[c].today}
Tokens(S) == MapThenSumSet(LAMBDA c : usage[c].tokens, S)

TokensAllow(c) ==
    /\ Tokens(Today(CountedBeside(c))) + Estimate <= DailyTokens
    /\ Tokens(CountedBeside(c)) + Estimate <= MonthlyTokens
Allowed(c) ==
    /\ Cardinality(Today(CountedBeside(c))) + 1 <= DailyRequests
    /\ Cardinality(CountedBeside(c)) + 1 <= MonthlyRequests
    /\ TokensAllow(c)

\* The observer commits the event before anything else.
CreateEvent(c) == event' = [event EXCEPT ![c] = "REQUESTED"]

Request(c) ==
    /\ call[c].at = "idle" /\ Candidates # {}
    /\ CreateEvent(c)
    /\ Moves(c, "requested", "none")
    /\ UNCHANGED <<provider, hosted, usage, suggestion, reader, review>>

SkipReservation(c) ==
    /\ call[c].at = "requested" /\ ~Metered
    /\ Moves(c, "calling", "none")
    /\ UNCHANGED <<provider, hosted, usage, event, suggestion, reader, review>>

OrganizationLocked == \E c \in Calls : call[c].at = "selected"

LockOrganization(c) ==
    /\ call[c].at = "requested" /\ Metered /\ ~OrganizationLocked
    /\ \/ /\ hosted
          /\ call' = [call EXCEPT ![c] = Stands("selected", "none", {}, ExpiredReservations)]
       \/ ~hosted /\ Moves(c, "closing", "QUOTA_REJECTED")
    /\ UNCHANGED <<provider, hosted, usage, event, suggestion, reader, review>>

Reserve(c) ==
    /\ call[c].at = "selected" /\ Allowed(c)
    /\ usage' = [AfterRelease(Released(c)) EXCEPT
                    ![c] = Reservation("RESERVED", Estimate, FALSE, TRUE)]
    /\ Moves(c, "calling", "none")
    /\ UNCHANGED <<provider, hosted, event, suggestion, reader, review>>

\* Mutant: the refusal leaves the transaction, and so the lock, open.
StillLocked(c) == UNCHANGED call
RolledBack(c) == Moves(c, "closing", "QUOTA_REJECTED")

\* The refusal rolls the releases back too.
Refuse(c) ==
    /\ call[c].at = "selected" /\ ~Allowed(c)
    /\ RolledBack(c)
    /\ UNCHANGED <<provider, hosted, usage, event, suggestion, reader, review>>

ReservationExpires(c) ==
    /\ usage[c].status = "RESERVED" /\ ~usage[c].expired
    /\ usage' = [usage EXCEPT ![c] =
            Reservation("RESERVED", usage[c].tokens, TRUE, usage[c].today)]
    /\ UNCHANGED <<provider, hosted, event, call, suggestion, reader, review>>

\* Bound: a day begins only when it changes what is counted for it.
NewDay ==
    /\ \E c \in Calls : usage[c].status # "none" /\ usage[c].today
    /\ ~OrganizationLocked
    /\ usage' = [c \in Calls |->
            IF usage[c].status = "none" THEN usage[c]
            ELSE Reservation(usage[c].status, usage[c].tokens, usage[c].expired, FALSE)]
    /\ UNCHANGED <<provider, hosted, event, call, suggestion, reader, review>>

-----------------------------------------------------------------------------
(* The call and what follows from it.                                      *)

\* A validated response: only candidates that were offered, each once.
Answer(c, found) ==
    /\ call[c].at = "calling" /\ provider # "disabled"
    /\ call' = [call EXCEPT ![c] = Stands("answered", "none", found, {})]
    /\ UNCHANGED <<provider, hosted, usage, event, suggestion, reader, review>>

\* The provider is disabled, raises, answers nonsense, or is too slow.
CallFails(c) ==
    /\ call[c].at = "calling"
    /\ \/ provider = "disabled" /\ Moves(c, "failed", "DISABLED")
       \/ provider # "disabled" /\ Moves(c, "failed", "FAILED")
       \/ Metered /\ Moves(c, "failed", "TIMED_OUT")
    /\ UNCHANGED <<provider, hosted, usage, event, suggestion, reader, review>>

\* Mutant: the reservation is released only when the provider is too slow.
ReleasedOnTimeout(c) ==
    IF usage[c].status = "RESERVED" /\ call[c].outcome = "TIMED_OUT"
    THEN WithStatus(usage[c], "RELEASED") ELSE usage[c]
AfterFailure(c) ==
    IF usage[c].status = "RESERVED" THEN WithStatus(usage[c], "RELEASED") ELSE usage[c]

Release(c) ==
    /\ call[c].at = "failed"
    /\ usage' = [usage EXCEPT ![c] = AfterFailure(c)]
    /\ Moves(c, "closing", call[c].outcome)
    /\ UNCHANGED <<provider, hosted, event, suggestion, reader, review>>

\* finalize is refused when the reservation was released meanwhile; the error
\* leaves the event as it is.  The provider reports any number of tokens.
Charge(c, tokens) == Reservation("FINALIZED", tokens, usage[c].expired, usage[c].today)

Finalize(c, tokens) ==
    /\ call[c].at = "answered"
    /\ \/ /\ Metered /\ usage[c].status = "RESERVED"
          /\ usage' = [usage EXCEPT ![c] = Charge(c, tokens)]
          /\ Moves(c, "metered", "none")
       \/ /\ Metered /\ usage[c].status # "RESERVED"
          /\ Moves(c, "done", "none")
          /\ UNCHANGED usage
       \/ ~Metered /\ Moves(c, "metered", "none") /\ UNCHANGED usage
    /\ UNCHANGED <<provider, hosted, event, suggestion, reader, review>>

Stored(c) ==
    [k \in Candidates |-> IF k \in call[c].found
                          THEN Suggestion("PENDING", c) ELSE suggestion[k]]

\* uq_ai_suggestion_candidate.
Conflict(c) == \E k \in call[c].found : suggestion[k].status # "none"

\* Mutant: the conflict is caught and the request goes on.
NoConflict(c) == FALSE
Conflicts(c) == Conflict(c)

Persist(c) ==
    /\ call[c].at = "metered"
    /\ \/ /\ ~Conflicts(c)
          /\ suggestion' = Stored(c)
          /\ Moves(c, "closing", "SUCCEEDED")
       \/ /\ Conflicts(c)
          /\ Moves(c, "done", "none")
          /\ UNCHANGED suggestion
    /\ UNCHANGED <<provider, hosted, usage, event, reader, review>>

\* An event that is complete already is left alone.
Outcome(c) == IF event[c] = "REQUESTED" THEN call[c].outcome ELSE event[c]

CompleteEvent(c) ==
    /\ call[c].at = "closing"
    /\ event' = [event EXCEPT ![c] = Outcome(c)]
    /\ Moves(c, "done", call[c].outcome)
    /\ UNCHANGED <<provider, hosted, usage, suggestion, reader, review>>

\* The API process dies, or the database refuses a transaction.
Crash(c) ==
    /\ call[c].at \notin {"idle", "done"}
    /\ Moves(c, "done", "none")
    /\ UNCHANGED <<provider, hosted, usage, event, suggestion, reader, review>>

-----------------------------------------------------------------------------
(* The usage summary and the review.                                       *)

SummarySelects(s) ==
    /\ reader[s] = {} /\ ExpiredReservations # {}
    /\ reader' = [reader EXCEPT ![s] = ExpiredReservations]
    /\ UNCHANGED <<provider, hosted, usage, event, call, suggestion, review>>

SummaryReleases(s) ==
    /\ reader[s] # {}
    /\ usage' = AfterRelease(reader[s])
    /\ reader' = [reader EXCEPT ![s] = {}]
    /\ UNCHANGED <<provider, hosted, event, call, suggestion, review>>

\* Mutant: resolve reads the suggestion without FOR UPDATE.
Unlocked(v, k) == TRUE
Lockable(v, k) == \A w \in Reviewers \ {v} : review[w] # k

StartReview(v, k) ==
    /\ review[v] = NoCandidate /\ Lockable(v, k)
    /\ suggestion[k].status = "PENDING"
    /\ review' = [review EXCEPT ![v] = k]
    /\ UNCHANGED <<provider, hosted, usage, event, call, suggestion, reader>>

Decide(v, decision) ==
    /\ review[v] # NoCandidate
    /\ suggestion' = [suggestion EXCEPT ![review[v]] =
            Suggestion(decision, suggestion[review[v]].by)]
    /\ review' = [review EXCEPT ![v] = NoCandidate]
    /\ UNCHANGED <<provider, hosted, usage, event, call, reader>>

-----------------------------------------------------------------------------
Proceed(c) ==
    \/ SkipReservation(c) \/ LockOrganization(c) \/ Reserve(c) \/ Refuse(c)
    \/ \E found \in Responses : Answer(c, found)
    \/ \E tokens \in ReportedTokens : Finalize(c, tokens)
    \/ CallFails(c) \/ Release(c) \/ Persist(c) \/ CompleteEvent(c)

Next ==
    \/ \E c \in Calls : Request(c) \/ Proceed(c) \/ Crash(c) \/ ReservationExpires(c)
    \/ NewDay
    \/ \E s \in Readers : SummarySelects(s) \/ SummaryReleases(s)
    \/ \E v \in Reviewers :
          \/ \E k \in Candidates : StartReview(v, k)
          \/ \E decision \in {"ACCEPTED", "REJECTED"} : Decide(v, decision)

Spec == Init /\ [][Next]_vars

\* A request goes on until it ends: asyncio.timeout bounds the call, and every
\* holder of the organization's row goes on too.
FairSpec == Spec /\ \A c \in Calls : WF_vars(Proceed(c))

-----------------------------------------------------------------------------
(* Properties.                                                             *)

\* Every variable keeps its type, one transaction at a time holds the
\* organization, and a reviewer's suggestion stays PENDING until it decides.
TypeOK ==
    /\ provider \in Providers
    /\ hosted \in BOOLEAN
    /\ usage \in [Calls -> UsageRecords]
    /\ event \in [Calls -> EventRecords]
    /\ call \in [Calls -> CallStates]
    /\ suggestion \in [Candidates -> SuggestionRecords]
    /\ reader \in [Readers -> SUBSET Calls]
    /\ review \in [Reviewers -> Candidates \cup {NoCandidate}]
    /\ \A c, d \in Calls : call[c].at = "selected" /\ call[d].at = "selected" => c = d
    /\ \A v \in Reviewers :
          review[v] # NoCandidate => suggestion[review[v]].status = "PENDING"

Counted == {c \in Calls : usage[c].status \in {"RESERVED", "FINALIZED"}}

\* However requests overlap, whatever expires while they run and however late
\* a paid call is finalized, the calls that are charged or may still be charged
\* stay within the daily and the monthly request limit.
RequestsWithinLimits ==
    /\ Cardinality(Today(Counted)) <= DailyRequests
    /\ Cardinality(Counted) <= MonthlyRequests

\* The recorded outcome is what happened: SUCCEEDED when every suggestion of
\* the response was stored, any other when none was and nothing is charged.
OutcomesAreTrue ==
    \A c \in Calls :
        /\ event[c] = "SUCCEEDED" => StoredBy(c) = call[c].found
        /\ event[c] \in Failures => StoredBy(c) = {} /\ usage[c].status # "FINALIZED"

\* A suggestion is decided once: concurrent reviewers and further generation
\* requests never change a decision.
DecidedOnce ==
    [][\A k \in Candidates :
          suggestion[k].status \in {"ACCEPTED", "REJECTED"} => suggestion'[k] = suggestion[k]]_vars

\* A finalized charge is taken back only when its reservation had expired:
\* release_expired may write over it, anything else may not.
OnlyLateChargesAreLost ==
    [][\A c \in Calls :
          usage[c].status = "FINALIZED" /\ usage'[c].status # "FINALIZED" => usage[c].expired]_vars

\* Every generation request comes to an end, and with it its reservation's lock.
CallsEnd == \A c \in Calls : call[c].at # "idle" ~> call[c].at = "done"
=============================================================================
