-------------------------- MODULE RevocationOutbox --------------------------
(***************************************************************************)
(* What a revocation owes to the outside: the outbox rows that each        *)
(* revocation inserts after it, and the drains that claim, dispatch and    *)
(* record them.  Drains run concurrently, each with the instant it started *)
(* at; a drain or a requester may end early (a crash, or an exception that *)
(* leaves its function).  The provider is external: it may apply an        *)
(* invalidation whatever it answers.                                       *)
(***************************************************************************)
EXTENDS Integers, Sequences, FiniteSets

CONSTANTS
    Requests,    \* calls of logout or bumpSubjectForCause
    Drains,      \* concurrent runs of drainRevocationOutbox
    None,
    Causes,      \* bound: the causes requested
    Propagation, \* config.revocationPropagationTargetSeconds
    Backoff,     \* options.retryBackoffMs, one value for every attempt count
    Limit,       \* options.limit
    MaxStops,    \* bound: drains and requests that end early
    MaxClock     \* bound: instants

Targets == {"provider_global_invalidation", "provider_current_browser_bound",
            "delegation_retirement"}
Actions == Requests \X Targets      \* one outbox row each

ASSUME OutboxAssumption ==
    /\ None \notin Actions
    /\ Propagation \in Nat /\ Backoff \in Nat /\ Limit \in Nat \ {0}
    /\ MaxStops \in Nat /\ MaxClock \in Nat

VARIABLES
    request,   \* the caller of each revocation: what it still has to insert
    outbox,    \* revocation_outbox
    drain,     \* each run of drainRevocationOutbox
    provider,  \* external: was the action applied, and the last answer given
    stops,     \* runs that ended early so far
    clock

vars == <<request, outbox, drain, provider, stops, clock>>

RowStates == {"none", "pending", "in_flight", "succeeded", "ambiguous",
              "failed_will_retry", "failed_deadline_exceeded"}
Settled == {"succeeded", "failed_deadline_exceeded"}
Answers == {"none", "succeeded", "ambiguous", "failed"}

GlobalInvalidation == {"logout_everywhere", "account_deletion", "security_action",
                       "credential_or_factor_change", "recovery_completed"}
DelegationRetirement == {"account_deletion", "security_action", "permission_loss"}

\* The rows a cause inserts, in the order of enqueueOutboxActions.
TargetsOf(cause) ==
    IF cause = "logout" THEN <<"provider_current_browser_bound">>
    ELSE (IF cause \in GlobalInvalidation THEN <<"provider_global_invalidation">> ELSE <<>>)
      \o (IF cause \in DelegationRetirement THEN <<"delegation_retirement">> ELSE <<>>)

\* Faulty: a row whose dispatch failed is never selected again.
RetryableOnce == <<"pending">>

RetryableStates == <<"pending", "failed_will_retry">>

Idle == [pc |-> "idle", phase |-> "reconcile", now |-> 0, left |-> <<>>, seen |-> {},
         mine |-> {}, action |-> None, result |-> "none"]

Init ==
    /\ request = [q \in Requests |-> [pc |-> "new", cause |-> "none", left |-> <<>>, at |-> 0]]
    /\ outbox = [a \in Actions |-> [state |-> "none", next |-> 0, deadline |-> 0]]
    /\ drain = [d \in Drains |-> Idle]
    /\ provider = [a \in Actions |-> [done |-> FALSE, answer |-> "none"]]
    /\ stops = 0
    /\ clock = 0

-----------------------------------------------------------------------------
(***************************************************************************)
(* The requester: a committed revocation, then one INSERT per target.      *)
(***************************************************************************)
Revoke(q, cause) ==
    /\ request[q].pc = "new"
    /\ request' = [request EXCEPT ![q] = [pc |-> "revoked", cause |-> cause,
                                          left |-> TargetsOf(cause), at |-> clock]]
    /\ UNCHANGED <<outbox, drain, provider, stops, clock>>

\* A bump counts its deadline from before the bump, a logout from the insert.
OccurredAt(q) == IF request[q].cause = "logout" THEN clock ELSE request[q].at

Enqueue(q) ==
    /\ request[q].left # <<>>
    /\ outbox' = [outbox EXCEPT ![<<q, Head(request[q].left)>>] =
                     [state |-> "pending", next |-> 0,
                      deadline |-> OccurredAt(q) + Propagation]]
    /\ request' = [request EXCEPT ![q].left = Tail(request[q].left)]
    /\ UNCHANGED <<drain, provider, stops, clock>>

RequestStops(q) ==
    /\ request[q].left # <<>>
    /\ stops < MaxStops
    /\ stops' = stops + 1
    /\ request' = [request EXCEPT ![q].left = <<>>]
    /\ UNCHANGED <<outbox, drain, provider, clock>>

-----------------------------------------------------------------------------
(***************************************************************************)
(* Claiming: one SELECT per retryable state, then one compare-and-swap per *)
(* row that was due when it was selected.                                  *)
(***************************************************************************)
Due(state, now) == {a \in Actions : outbox[a].state = state /\ outbox[a].next <= now}

Full(d) == Cardinality(drain[d].mine) >= Limit

\* The claims of a phase begin: the states it claims, and the first SELECT.
StartClaiming(d, phase, states, now) ==
    drain' = [drain EXCEPT ![d] = [Idle EXCEPT !.pc = "claiming", !.phase = phase,
                                               !.now = now, !.left = states,
                                               !.seen = Due(Head(states), now)]]

StartDrain(d) ==
    /\ drain[d].pc = "idle"
    /\ StartClaiming(d, "reconcile", <<"ambiguous">>, clock)
    /\ UNCHANGED <<request, outbox, provider, stops, clock>>

\* Faulty: an unconditional update.
ClaimUnchecked(d, a) ==
    /\ drain[d].pc = "claiming" /\ a \in drain[d].seen /\ ~Full(d)
    /\ outbox' = [outbox EXCEPT ![a].state = "in_flight"]
    /\ drain' = [drain EXCEPT ![d] = [drain[d] EXCEPT !.mine = drain[d].mine \cup {a},
                                                      !.seen = drain[d].seen \ {a}]]
    /\ UNCHANGED <<request, provider, stops, clock>>

\* The swap compares the state that was selected, and nothing else.
Claim(d, a) ==
    /\ drain[d].pc = "claiming" /\ a \in drain[d].seen /\ ~Full(d)
    /\ IF outbox[a].state = Head(drain[d].left)
       THEN /\ outbox' = [outbox EXCEPT ![a].state = "in_flight"]
            /\ drain' = [drain EXCEPT ![d] =
                            [drain[d] EXCEPT !.mine = drain[d].mine \cup {a},
                                             !.seen = drain[d].seen \ {a}]]
       ELSE /\ drain' = [drain EXCEPT ![d].seen = drain[d].seen \ {a}]
            /\ UNCHANGED outbox
    /\ UNCHANGED <<request, provider, stops, clock>>

\* The next state to select, or the work on what was claimed.
NextSelect(d) ==
    /\ drain[d].pc = "claiming"
    /\ drain[d].seen = {} \/ Full(d)
    /\ LET rest == Tail(drain[d].left)
       IN  drain' = [drain EXCEPT ![d] =
              IF rest = <<>> \/ Full(d)
              THEN [drain[d] EXCEPT !.pc = "working", !.left = <<>>, !.seen = {}]
              ELSE [drain[d] EXCEPT !.left = rest,
                                    !.seen = Due(Head(rest), drain[d].now)]]
    /\ UNCHANGED <<request, outbox, provider, stops, clock>>

-----------------------------------------------------------------------------
(***************************************************************************)
(* Working: each claimed row is expired, queried or dispatched, and its    *)
(* outcome recorded if the row is still in flight.                         *)
(***************************************************************************)
\* cappedNextAttempt
CappedNextAttempt(d, a) ==
    IF drain[d].now + Backoff <= outbox[a].deadline THEN drain[d].now + Backoff
    ELSE outbox[a].deadline

\* recordOutboxAttempt: next_attempt_at is cleared with a settled outcome.
RecordAttempt(d, a, outcome) ==
    outbox' = IF outbox[a].state = "in_flight"
              THEN [outbox EXCEPT ![a] =
                      [outbox[a] EXCEPT !.state = outcome,
                                        !.next = IF outcome \in Settled THEN 0
                                                 ELSE CappedNextAttempt(d, a)]]
              ELSE outbox

\* Faulty: the answer is recorded as it came.
StateAfterVerbatim(answer) == answer

\* Faulty: an answer that is not a failure counts as a success.
StateAfterOptimistic(answer) ==
    IF answer = "failed" THEN "failed_will_retry" ELSE "succeeded"

StateAfter(answer) ==
    CASE answer = "succeeded" -> "succeeded"
      [] answer = "ambiguous" -> "ambiguous"
      [] answer = "failed"    -> "failed_will_retry"

Missed(d, a) == outbox[a].deadline < drain[d].now

\* Turning to row a, which the drain holds.
WorksOn(d, a) == drain[d].pc = "working" /\ a \in drain[d].mine

\* failed_deadline_exceeded, and onDeadlineExceeded.
ExpireAction(d, a) ==
    /\ WorksOn(d, a)
    /\ Missed(d, a)
    /\ RecordAttempt(d, a, "failed_deadline_exceeded")
    /\ drain' = [drain EXCEPT ![d].mine = drain[d].mine \ {a}]
    /\ UNCHANGED <<request, provider, stops, clock>>

\* queryStatus tells what happened, or that it still cannot tell.
Reconcile(d, a) ==
    /\ WorksOn(d, a) /\ ~Missed(d, a)
    /\ drain[d].phase = "reconcile"
    /\ \E answer \in {"ambiguous", IF provider[a].done THEN "succeeded" ELSE "failed"} :
          /\ provider' = [provider EXCEPT ![a].answer = answer]
          /\ RecordAttempt(d, a, StateAfter(answer))
    /\ drain' = [drain EXCEPT ![d].mine = drain[d].mine \ {a}]
    /\ UNCHANGED <<request, stops, clock>>

\* The adapter's call: it returns, or throws ("failed"), having had its effect
\* or not.  retireSubjectDelegations only returns or throws.
Dispatch(d, a) ==
    /\ WorksOn(d, a) /\ ~Missed(d, a)
    /\ drain[d].phase = "dispatch"
    /\ \E answer \in {"succeeded", "ambiguous", "failed"}, done \in BOOLEAN :
          /\ answer = "succeeded" => done
          /\ a[2] = "delegation_retirement" => answer # "ambiguous"
          /\ provider' = [provider EXCEPT ![a] = [done |-> provider[a].done \/ done,
                                                  answer |-> answer]]
          /\ drain' = [drain EXCEPT ![d] =
                          [drain[d] EXCEPT !.pc = "recording", !.action = a,
                                           !.result = StateAfter(answer)]]
    /\ UNCHANGED <<request, outbox, stops, clock>>

RecordDispatch(d) ==
    /\ drain[d].pc = "recording"
    /\ RecordAttempt(d, drain[d].action, drain[d].result)
    /\ drain' = [drain EXCEPT ![d] =
                    [drain[d] EXCEPT !.pc = "working", !.action = None, !.result = "none",
                                     !.mine = drain[d].mine \ {drain[d].action}]]
    /\ UNCHANGED <<request, provider, stops, clock>>

\* Faulty: ambiguous rows are claimed with the others.
FinishPhaseUnreconciled(d) ==
    /\ drain[d].pc = "working" /\ drain[d].mine = {}
    /\ IF drain[d].phase = "reconcile"
       THEN StartClaiming(d, "dispatch", <<"ambiguous">> \o RetryableStates, drain[d].now)
       ELSE drain' = [drain EXCEPT ![d] = Idle]
    /\ UNCHANGED <<request, outbox, provider, stops, clock>>

\* Reconciliation is over: claim what is retryable.  Dispatching is over: end.
FinishPhase(d) ==
    /\ drain[d].pc = "working" /\ drain[d].mine = {}
    /\ IF drain[d].phase = "reconcile"
       THEN StartClaiming(d, "dispatch", RetryableStates, drain[d].now)
       ELSE drain' = [drain EXCEPT ![d] = Idle]
    /\ UNCHANGED <<request, outbox, provider, stops, clock>>

\* The process dies, or queryStatus or the store throws: the run ends with its
\* claims.
DrainStops(d) ==
    /\ drain[d].pc # "idle"
    /\ stops < MaxStops
    /\ stops' = stops + 1
    /\ drain' = [drain EXCEPT ![d] = Idle]
    /\ UNCHANGED <<request, outbox, provider, clock>>

Tick ==
    /\ clock < MaxClock
    /\ clock' = clock + 1
    /\ UNCHANGED <<request, outbox, drain, provider, stops>>

-----------------------------------------------------------------------------
RequestStep(q) == \/ \E cause \in Causes : Revoke(q, cause)
                  \/ Enqueue(q)

\* What a running drain does next; StartDrain is its caller's.
DrainWork(d) ==
    \/ \E a \in Actions : Claim(d, a) \/ ExpireAction(d, a) \/ Reconcile(d, a) \/ Dispatch(d, a)
    \/ NextSelect(d)
    \/ RecordDispatch(d)
    \/ FinishPhase(d)

Next ==
    \/ \E q \in Requests : RequestStep(q) \/ RequestStops(q)
    \/ \E d \in Drains : StartDrain(d) \/ DrainWork(d) \/ DrainStops(d)
    \/ Tick

Spec == Init /\ [][Next]_vars

\* Time passes, a run that nothing stopped goes on to its end, and the job is
\* started again and again.
Fairness ==
    /\ WF_vars(Tick)
    /\ \A d \in Drains : WF_vars(StartDrain(d)) /\ WF_vars(DrainWork(d))

FairSpec == Spec /\ Fairness

-----------------------------------------------------------------------------
(***************************************************************************)
(* Properties.                                                             *)
(***************************************************************************)
RequestTable == [Requests -> [pc : {"new", "revoked"}, cause : Causes \cup {"none"},
                              left : Seq(Targets), at : Nat]]
OutboxTable == [Actions -> [state : RowStates, next : Nat, deadline : Nat]]
DrainTable == [Drains -> [pc : {"idle", "claiming", "working", "recording"},
                          phase : {"reconcile", "dispatch"}, now : Nat,
                          left : Seq(RowStates), seen : SUBSET Actions,
                          mine : SUBSET Actions, action : Actions \cup {None},
                          result : RowStates]]
ProviderTable == [Actions -> [done : BOOLEAN, answer : Answers]]

\* Every variable has its shape.
TypeOK ==
    /\ request \in RequestTable
    /\ outbox \in OutboxTable
    /\ drain \in DrainTable
    /\ provider \in ProviderTable
    /\ stops \in Nat /\ clock \in Nat

\* A row that a drain works on is in flight, and no other drain works on it:
\* "two concurrent drains can never dispatch the same action"
\* (outbox-worker.ts), whatever each of them selected and when.
OneOwner ==
    \A d \in Drains : \A a \in drain[d].mine :
        /\ outbox[a].state = "in_flight"
        /\ \A e \in Drains \ {d} : a \notin drain[e].mine

\* A row says "succeeded" only when the provider has applied the action,
\* through timeouts, ambiguous answers and retries.
SucceededMeansApplied ==
    \A a \in Actions : outbox[a].state = "succeeded" => provider[a].done

\* "Reconcile ambiguous provider results before retry" (outbox-worker.ts): an
\* action whose last answer was ambiguous is not dispatched again before it is
\* queried, by any drain.
NoBlindRetry ==
    [][\A d \in Drains :
         drain[d].pc = "working" /\ drain'[d].pc = "recording" =>
            provider[drain'[d].action].answer # "ambiguous"]_vars

\* Some run was cut short, and nobody works on the claimed row.
Abandoned(a) ==
    stops > 0 /\ outbox[a].state = "in_flight" /\ \A d \in Drains : a \notin drain[d].mine

\* Every action whose deadline comes is settled -- applied, or recorded as
\* missed -- unless the run that claimed it was cut short.
EveryActionSettles ==
    \A a \in Actions :
        outbox[a].state = "pending" /\ outbox[a].deadline < MaxClock
          ~> outbox[a].state \in Settled \/ Abandoned(a)

\* "A deferred retry is never immediately reclaimable" (outbox-worker.ts): a
\* row is claimed only by a drain for which it is due.
DeferredUntilDue ==
    [][\A d \in Drains, a \in Actions :
         a \notin drain[d].mine /\ a \in drain'[d].mine => outbox[a].next <= drain[d].now]_vars
=============================================================================
