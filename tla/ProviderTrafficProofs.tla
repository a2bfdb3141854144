------------------------ MODULE ProviderTrafficProofs ------------------------
(***************************************************************************)
(* Theorems of RevocationOutbox and of ProviderEvents, and of the two      *)
(* together, for every value of their constants.                           *)
(*                                                                         *)
(* The argument for the outbox: a claimed row is in flight and its drain's *)
(* alone, so only that drain asks the provider about it and records the    *)
(* answer; hence the state of a row that nobody holds agrees with the last *)
(* answer given about it, and a row claimed as retryable was not left      *)
(* ambiguous.                                                              *)
(*                                                                         *)
(* The argument for the events: the insert that finds no row of an event   *)
(* makes its delivery the only one to work on it, so a bump is always the  *)
(* event's first; and every bump leaves the watermark at or past its       *)
(* cursor.                                                                 *)
(*                                                                         *)
(* The two share no variable, so that their traffic is a behaviour of each.*)
(***************************************************************************)
EXTENDS MCProviderTraffic, FiniteSetTheorems, SequenceTheorems, TLAPS

-----------------------------------------------------------------------------
(***************************************************************************)
(* What this program owes the provider: the outbox.                        *)
(***************************************************************************)

RequestRecord == [pc : {"new", "revoked"}, cause : Causes \cup {"none"},
                  left : Seq(Targets), at : Nat]
OutboxRow == [state : RowStates, next : Nat, deadline : Nat]
DrainRecord == [pc : {"idle", "claiming", "working", "recording"},
                phase : {"reconcile", "dispatch"}, now : Nat,
                left : Seq(RowStates), seen : SUBSET Actions,
                mine : SUBSET Actions, action : Actions \cup {None},
                result : RowStates]

\* The states that a claiming drain has still to select.
Selections == {<<"ambiguous">>, RetryableStates, <<"failed_will_retry">>}

\* A claiming drain has a state to select: what its Head and Tail rest on.
SelectsInOrder ==
    \A d \in Drains : drain[d].pc = "claiming" => drain[d].left \in Selections

TypeInv == TypeOK /\ SelectsInOrder

-----------------------------------------------------------------------------
(***************************************************************************)
(* Type correctness.                                                       *)
(***************************************************************************)

\* The rest of a selection is the next one, or nothing.
LEMMA SelectionRest ==
  /\ Tail(<<"ambiguous">>) = <<>>
  /\ Tail(RetryableStates) = <<"failed_will_retry">>
  /\ Tail(<<"failed_will_retry">>) = <<>>
  /\ Head(<<"ambiguous">>) = "ambiguous"
  /\ Head(RetryableStates) = "pending"
  /\ Head(<<"failed_will_retry">>) = "failed_will_retry"
  /\ <<"ambiguous">> # <<>> /\ RetryableStates # <<>> /\ <<"failed_will_retry">> # <<>>
  BY DEF RetryableStates

\* Selections are sequences of states, their rests too.
LEMMA SelectionType ==
  ASSUME NEW left \in Selections
  PROVE  /\ left \in Seq(RowStates)
         /\ Tail(left) = <<>> \/ Tail(left) \in Selections
         /\ Tail(left) \in Seq(RowStates)
  <1>1. <<>> \in Seq(RowStates)
    BY EmptySeq
  <1>2. /\ <<"ambiguous">> \in Seq(RowStates)
        /\ <<"pending", "failed_will_retry">> \in Seq(RowStates)
        /\ <<"failed_will_retry">> \in Seq(RowStates)
    <2>1. "ambiguous" \in RowStates /\ "pending" \in RowStates /\ "failed_will_retry" \in RowStates
      BY DEF RowStates
    <2> QED  BY <2>1
  <1>3. \A l \in Selections : l \in Seq(RowStates)
    BY <1>2 DEF Selections, RetryableStates
  <1>4. Tail(left) = <<>> \/ Tail(left) \in Selections
    BY SelectionRest DEF Selections
  <1> QED  BY <1>1, <1>3, <1>4

\* A cause names a sequence of targets.
LEMMA TargetsType == ASSUME NEW cause PROVE TargetsOf(cause) \in Seq(Targets)
  <1> DEFINE first == IF cause \in GlobalInvalidation
                      THEN <<"provider_global_invalidation">> ELSE <<>>
             second == IF cause \in DelegationRetirement
                       THEN <<"delegation_retirement">> ELSE <<>>
  <1>1. /\ <<>> \in Seq(Targets)
        /\ <<"provider_global_invalidation">> \in Seq(Targets)
        /\ <<"delegation_retirement">> \in Seq(Targets)
        /\ <<"provider_current_browser_bound">> \in Seq(Targets)
    BY EmptySeq DEF Targets
  <1>2. first \in Seq(Targets) /\ second \in Seq(Targets)
    BY <1>1
  <1>3. first \o second \in Seq(Targets)
    <2> HIDE DEF first, second
    <2> QED  BY <1>2, ConcatProperties
  <1>4. TargetsOf(cause) = IF cause = "logout" THEN <<"provider_current_browser_bound">>
                           ELSE first \o second
    BY DEF TargetsOf
  <1> HIDE DEF first, second
  <1> QED  BY <1>1, <1>3, <1>4

\* The outcome of an answer is a state of the row.
LEMMA OutcomeType ==
  ASSUME NEW answer \in {"succeeded", "ambiguous", "failed"}
  PROVE  /\ StateAfter(answer) \in {"succeeded", "ambiguous", "failed_will_retry"}
         /\ StateAfter(answer) \in RowStates
  BY DEF StateAfter, RowStates

\* Recording an attempt leaves a well-typed table, whatever row is named.
LEMMA RecordType ==
  ASSUME TypeOK, NEW d \in Drains, NEW a, NEW outcome \in RowStates,
         RecordAttempt(d, a, outcome)
  PROVE  outbox' \in OutboxTable
  <1>1. CASE outbox[a].state # "in_flight"
    BY <1>1 DEF RecordAttempt, TypeOK
  <1>2. CASE outbox[a].state = "in_flight" /\ a \notin Actions
    BY <1>2 DEF RecordAttempt, TypeOK, OutboxTable
  <1>3. CASE outbox[a].state = "in_flight" /\ a \in Actions
    <2> DEFINE next == IF outcome \in Settled THEN 0 ELSE CappedNextAttempt(d, a)
               written == [outbox[a] EXCEPT !.state = outcome, !.next = next]
    <2>1. outbox[a] \in OutboxRow
      BY <1>3 DEF TypeOK, OutboxTable, OutboxRow
    <2>2. drain[d].now \in Nat
      BY DEF TypeOK, DrainTable
    <2>3. next \in Nat
      BY <2>1, <2>2, OutboxAssumption DEF CappedNextAttempt, OutboxRow
    <2>4. written \in OutboxRow
      <3> HIDE DEF next
      <3> QED  BY <2>1, <2>3 DEF OutboxRow
    <2>5. outbox' = [outbox EXCEPT ![a] = written]
      BY <1>3 DEF RecordAttempt
    <2> HIDE DEF written
    <2> QED  BY <2>4, <2>5 DEF TypeOK, OutboxTable, OutboxRow
  <1> QED  BY <1>1, <1>2, <1>3

\* A drain that is not running has a record of its type.
LEMMA IdleType == Idle \in DrainRecord
  <1>1. <<>> \in Seq(RowStates)
    BY EmptySeq
  <1> QED  BY <1>1 DEF Idle, DrainRecord, RowStates

\* A drain's record may be replaced by any other.
LEMMA DrainType ==
  ASSUME TypeOK, NEW d \in Drains, NEW r \in DrainRecord, drain' = [drain EXCEPT ![d] = r]
  PROVE  drain' \in DrainTable
  BY DEF TypeOK, DrainTable, DrainRecord

\* Only the record of the drain that acts changes.
LEMMA DrainFrame ==
  ASSUME drain \in DrainTable, NEW d \in Drains, NEW r, drain' = [drain EXCEPT ![d] = r]
  PROVE  drain'[d] = r /\ \A e \in Drains \ {d} : drain'[e] = drain[e]
  BY DEF DrainTable

\* A drain that is done with a row keeps everything but its claim.
LEMMA DropFrame ==
  ASSUME drain \in DrainTable, NEW d \in Drains, NEW a,
         drain' = [drain EXCEPT ![d].mine = drain[d].mine \ {a}]
  PROVE  /\ drain'[d] = [drain[d] EXCEPT !.mine = drain[d].mine \ {a}]
         /\ drain'[d].pc = drain[d].pc /\ drain'[d].left = drain[d].left
         /\ drain'[d].phase = drain[d].phase /\ drain'[d].action = drain[d].action
         /\ drain'[d].result = drain[d].result
         /\ drain'[d].mine = drain[d].mine \ {a}
         /\ \A e \in Drains \ {d} : drain'[e] = drain[e]
  <1> DEFINE r == [drain[d] EXCEPT !.mine = drain[d].mine \ {a}]
  <1>1. drain' = [drain EXCEPT ![d] = r]
    OBVIOUS
  <1>2. drain[d] \in DrainRecord
    BY DEF DrainTable, DrainRecord
  <1>3. /\ r.pc = drain[d].pc /\ r.left = drain[d].left
        /\ r.phase = drain[d].phase /\ r.action = drain[d].action
        /\ r.result = drain[d].result /\ r.mine = drain[d].mine \ {a}
    BY <1>2 DEF DrainRecord
  <1>4. drain'[d] = r /\ \A e \in Drains \ {d} : drain'[e] = drain[e]
    <2> HIDE DEF r
    <2> QED  BY <1>1, DrainFrame
  <1> QED  BY <1>3, <1>4

\* A claim adds its row, or gives it up, and keeps the rest.
LEMMA ClaimFrame ==
  ASSUME drain \in DrainTable, NEW d \in Drains, NEW a \in Actions, Claim(d, a)
  PROVE  /\ drain'[d].pc = drain[d].pc /\ drain'[d].left = drain[d].left
         /\ drain'[d].phase = drain[d].phase /\ drain'[d].action = drain[d].action
         /\ drain'[d].result = drain[d].result
         /\ drain'[d].mine = IF outbox[a].state = Head(drain[d].left)
                             THEN drain[d].mine \cup {a} ELSE drain[d].mine
         /\ \A e \in Drains \ {d} : drain'[e] = drain[e]
  <1>0. drain[d] \in DrainRecord
    BY DEF DrainTable, DrainRecord
  <1>1. CASE outbox[a].state = Head(drain[d].left)
    <2> DEFINE r == [drain[d] EXCEPT !.mine = drain[d].mine \cup {a},
                                     !.seen = drain[d].seen \ {a}]
    <2>1. drain' = [drain EXCEPT ![d] = r]
      BY <1>1 DEF Claim
    <2>2. /\ r.pc = drain[d].pc /\ r.left = drain[d].left
          /\ r.phase = drain[d].phase /\ r.action = drain[d].action
          /\ r.result = drain[d].result /\ r.mine = drain[d].mine \cup {a}
      BY <1>0 DEF DrainRecord
    <2>3. drain'[d] = r /\ \A e \in Drains \ {d} : drain'[e] = drain[e]
      <3> HIDE DEF r
      <3> QED  BY <2>1, DrainFrame
    <2> QED  BY <1>1, <2>2, <2>3
  <1>2. CASE outbox[a].state # Head(drain[d].left)
    <2> DEFINE r == [drain[d] EXCEPT !.seen = drain[d].seen \ {a}]
    <2>1. drain' = [drain EXCEPT ![d] = r]
      BY <1>2 DEF Claim
    <2>2. /\ r.pc = drain[d].pc /\ r.left = drain[d].left
          /\ r.phase = drain[d].phase /\ r.action = drain[d].action
          /\ r.result = drain[d].result /\ r.mine = drain[d].mine
      BY <1>0 DEF DrainRecord
    <2>3. drain'[d] = r /\ \A e \in Drains \ {d} : drain'[e] = drain[e]
      <3> HIDE DEF r
      <3> QED  BY <2>1, DrainFrame
    <2> QED  BY <1>2, <2>2, <2>3
  <1> QED  BY <1>1, <1>2

\* A run that begins to claim has a record of its type.
LEMMA StartType ==
  ASSUME TypeOK, NEW d \in Drains, NEW phase \in {"reconcile", "dispatch"},
         NEW states \in Selections, NEW now \in Nat,
         StartClaiming(d, phase, states, now)
  PROVE  drain' \in DrainTable
  <1> DEFINE r == [Idle EXCEPT !.pc = "claiming", !.phase = phase, !.now = now,
                               !.left = states, !.seen = Due(Head(states), now)]
  <1>1. Idle \in DrainRecord
    BY IdleType
  <1>4. states \in Seq(RowStates)
    BY SelectionType
  <1>2. Due(Head(states), now) \in SUBSET Actions
    BY DEF Due
  <1>3. r \in DrainRecord
    BY <1>1, <1>2, <1>4 DEF DrainRecord
  <1>5. drain' = [drain EXCEPT ![d] = r]
    BY DEF StartClaiming
  <1> HIDE DEF r
  <1> QED  BY <1>3, <1>5, DrainType

\* A step of a requester keeps every variable in its type.
LEMMA RequestType ==
  ASSUME TypeOK, NEW q \in Requests, RequestStep(q) \/ RequestStops(q)
  PROVE  TypeOK'
  <1>1. ASSUME NEW cause \in Causes, Revoke(q, cause) PROVE TypeOK'
    <2>1. TargetsOf(cause) \in Seq(Targets)
      BY TargetsType
    <2>2. request' \in RequestTable
      <3> HIDE DEF TargetsOf
      <3> QED  BY <1>1, <2>1 DEF Revoke, TypeOK, RequestTable
    <2> QED  BY <1>1, <2>2 DEF Revoke, TypeOK
  <1>2. CASE Enqueue(q)
    <2>1. request[q] \in RequestRecord /\ request[q].left \in Seq(Targets)
      BY DEF TypeOK, RequestTable, RequestRecord
    <2>2. Head(request[q].left) \in Targets /\ Tail(request[q].left) \in Seq(Targets)
      BY <1>2, <2>1 DEF Enqueue
    <2>3. <<q, Head(request[q].left)>> \in Actions
      BY <2>2 DEF Actions
    <2>4. OccurredAt(q) + Propagation \in Nat
      BY <2>1, OutboxAssumption DEF OccurredAt, TypeOK, RequestRecord
    <2>5. outbox' \in OutboxTable
      <3> DEFINE at == OccurredAt(q) + Propagation
      <3>1. [state |-> "pending", next |-> 0, deadline |-> at] \in OutboxRow
        BY <2>4 DEF OutboxRow, RowStates
      <3>2. outbox' = [outbox EXCEPT ![<<q, Head(request[q].left)>>] =
                          [state |-> "pending", next |-> 0, deadline |-> at]]
        BY <1>2 DEF Enqueue
      <3> QED  BY <2>3, <3>1, <3>2 DEF TypeOK, OutboxTable, OutboxRow
    <2>6. request' \in RequestTable
      BY <1>2, <2>1, <2>2 DEF Enqueue, TypeOK, RequestTable
    <2> QED  BY <1>2, <2>5, <2>6 DEF Enqueue, TypeOK
  <1>3. CASE RequestStops(q)
    <2>1. request' \in RequestTable
      <3>1. <<>> \in Seq(Targets)
        BY EmptySeq
      <3> QED  BY <1>3, <3>1 DEF RequestStops, TypeOK, RequestTable
    <2> QED  BY <1>3, <2>1 DEF RequestStops, TypeOK
  <1> QED  BY <1>1, <1>2, <1>3 DEF RequestStep

\* A step of a drain keeps every variable in its type.
LEMMA DrainStepType ==
  ASSUME TypeInv, NEW d \in Drains, StartDrain(d) \/ DrainWork(d) \/ DrainStops(d)
  PROVE  TypeOK'
  <1> USE DEF TypeInv
  <1>0. drain[d] \in DrainRecord
    BY DEF TypeOK, DrainTable, DrainRecord
  <1>1. CASE StartDrain(d)
    <2>1. <<"ambiguous">> \in Selections
      BY DEF Selections
    <2>2. drain' \in DrainTable
      BY <1>1, <2>1, StartType DEF StartDrain, TypeOK
    <2> QED  BY <1>1, <2>2 DEF StartDrain, TypeOK
  <1>2. ASSUME NEW a \in Actions, Claim(d, a) PROVE TypeOK'
    <2>1. outbox' \in OutboxTable
      BY <1>2 DEF Claim, TypeOK, OutboxTable, RowStates
    <2>2. drain' \in DrainTable
      <3>1. [drain[d] EXCEPT !.mine = drain[d].mine \cup {a},
                             !.seen = drain[d].seen \ {a}] \in DrainRecord
        BY <1>0 DEF DrainRecord
      <3>2. CASE outbox[a].state = Head(drain[d].left)
        BY <1>2, <3>1, <3>2, DrainType DEF Claim
      <3>3. CASE outbox[a].state # Head(drain[d].left)
        <4>1. drain' = [drain EXCEPT ![d].seen = drain[d].seen \ {a}]
          BY <1>2, <3>3 DEF Claim
        <4> QED  BY <4>1, <1>0 DEF TypeOK, DrainTable, DrainRecord
      <3> QED  BY <3>2, <3>3
    <2> QED  BY <1>2, <2>1, <2>2 DEF Claim, TypeOK
  <1>3. ASSUME NEW a \in Actions, ExpireAction(d, a) PROVE TypeOK'
    <2>1. outbox' \in OutboxTable
      BY <1>3, RecordType DEF ExpireAction, RowStates
    <2>2. drain' \in DrainTable
      BY <1>3, <1>0 DEF ExpireAction, TypeOK, DrainTable, DrainRecord
    <2> QED  BY <1>3, <2>1, <2>2 DEF ExpireAction, TypeOK
  <1>4. ASSUME NEW a \in Actions, Reconcile(d, a) PROVE TypeOK'
    <2>1. PICK answer \in {"ambiguous", "succeeded", "failed"} :
             /\ provider' = [provider EXCEPT ![a].answer = answer]
             /\ RecordAttempt(d, a, StateAfter(answer))
      BY <1>4 DEF Reconcile
    <2>2. outbox' \in OutboxTable
      BY <2>1, OutcomeType, RecordType
    <2>3. provider' \in ProviderTable
      BY <2>1 DEF TypeOK, ProviderTable, Answers
    <2>4. drain' \in DrainTable
      BY <1>4, <1>0 DEF Reconcile, TypeOK, DrainTable, DrainRecord
    <2> QED  BY <1>4, <2>2, <2>3, <2>4 DEF Reconcile, TypeOK
  <1>5. ASSUME NEW a \in Actions, Dispatch(d, a) PROVE TypeOK'
    <2>1. PICK answer \in {"succeeded", "ambiguous", "failed"}, done \in BOOLEAN :
             /\ provider' = [provider EXCEPT ![a] = [done |-> provider[a].done \/ done,
                                                     answer |-> answer]]
             /\ drain' = [drain EXCEPT ![d] =
                             [drain[d] EXCEPT !.pc = "recording", !.action = a,
                                              !.result = StateAfter(answer)]]
      BY <1>5 DEF Dispatch
    <2>2. provider' \in ProviderTable
      BY <2>1 DEF TypeOK, ProviderTable, Answers
    <2>3. drain' \in DrainTable
      <3>1. StateAfter(answer) \in RowStates
        BY OutcomeType
      <3>2. [drain[d] EXCEPT !.pc = "recording", !.action = a,
                             !.result = StateAfter(answer)] \in DrainRecord
        BY <1>0, <3>1 DEF DrainRecord
      <3> QED  BY <2>1, <3>2, DrainType
    <2> QED  BY <1>5, <2>2, <2>3 DEF Dispatch, TypeOK
  <1>6. CASE NextSelect(d)
    <2> DEFINE rest == Tail(drain[d].left)
    <2>1. CASE rest = <<>> \/ Full(d)
      <3>1. [drain[d] EXCEPT !.pc = "working", !.left = <<>>, !.seen = {}] \in DrainRecord
        BY <1>0, EmptySeq DEF DrainRecord
      <3>2. drain' \in DrainTable
        BY <1>6, <2>1, <3>1, DrainType DEF NextSelect
      <3> QED  BY <1>6, <3>2 DEF NextSelect, TypeOK
    <2>2. CASE ~(rest = <<>> \/ Full(d))
      <3>1. Due(Head(rest), drain[d].now) \in SUBSET Actions
        BY DEF Due
      <3>2. rest \in Seq(RowStates)
        BY <1>6, SelectionType DEF NextSelect, SelectsInOrder
      <3>3. [drain[d] EXCEPT !.left = rest,
                             !.seen = Due(Head(rest), drain[d].now)] \in DrainRecord
        BY <1>0, <3>1, <3>2 DEF DrainRecord
      <3>4. drain' \in DrainTable
        BY <1>6, <2>2, <3>3, DrainType DEF NextSelect
      <3> QED  BY <1>6, <3>4 DEF NextSelect, TypeOK
    <2> QED  BY <2>1, <2>2
  <1>7. CASE RecordDispatch(d)
    <2>1. outbox' \in OutboxTable
      BY <1>7, <1>0, RecordType DEF RecordDispatch, DrainRecord
    <2>2. drain' \in DrainTable
      <3>1. [drain[d] EXCEPT !.pc = "working", !.action = None, !.result = "none",
                             !.mine = drain[d].mine \ {drain[d].action}] \in DrainRecord
        BY <1>0 DEF DrainRecord, RowStates
      <3> QED  BY <1>7, <3>1, DrainType DEF RecordDispatch
    <2> QED  BY <1>7, <2>1, <2>2 DEF RecordDispatch, TypeOK
  <1>8. CASE FinishPhase(d)
    <2>1. RetryableStates \in Selections /\ drain[d].now \in Nat
      BY <1>0 DEF Selections, DrainRecord
    <2>2. Idle \in DrainRecord
      BY IdleType
    <2>3. drain' \in DrainTable
      BY <1>8, <2>1, <2>2, StartType, DrainType DEF FinishPhase
    <2> QED  BY <1>8, <2>3 DEF FinishPhase, TypeOK
  <1>9. CASE DrainStops(d)
    <2>1. Idle \in DrainRecord
      BY IdleType
    <2>2. drain' \in DrainTable
      BY <1>9, <2>1, DrainType DEF DrainStops
    <2> QED  BY <1>9, <2>2 DEF DrainStops, TypeOK
  <1> QED
    BY <1>1, <1>2, <1>3, <1>4, <1>5, <1>6, <1>7, <1>8, <1>9 DEF DrainWork

\* A step keeps a claiming drain's selection in order.
LEMMA SelectionStep ==
  ASSUME TypeInv, [Next]_vars
  PROVE  SelectsInOrder'
  <1> USE DEF TypeInv
  <1> SUFFICES ASSUME NEW e \in Drains, drain'[e].pc = "claiming"
               PROVE  drain'[e].left \in Selections
    BY DEF SelectsInOrder
  <1>0. drain \in DrainTable
    BY DEF TypeOK
  <1>1. CASE drain'[e] = drain[e]
    BY <1>1 DEF SelectsInOrder
  <1>2. ASSUME NEW d \in Drains, StartDrain(d)
        PROVE  drain'[e].left \in Selections
    BY <1>0, <1>1, <1>2 DEF StartDrain, StartClaiming, DrainTable, Idle, Selections
  <1>3. ASSUME NEW d \in Drains, DrainStops(d)
        PROVE  drain'[e].left \in Selections
    BY <1>0, <1>1, <1>3 DEF DrainStops, DrainTable, Idle
  <1>4. ASSUME NEW d \in Drains, NEW a \in Actions,
               Claim(d, a) \/ ExpireAction(d, a) \/ Reconcile(d, a)
        PROVE  drain'[e].left \in Selections
    <2>1. drain'[e].left = drain[e].left /\ drain'[e].pc = drain[e].pc
      <3>1. CASE Claim(d, a)
        BY <1>0, <3>1, ClaimFrame
      <3>2. CASE ExpireAction(d, a) \/ Reconcile(d, a)
        <4>1. drain' = [drain EXCEPT ![d].mine = drain[d].mine \ {a}]
          BY <3>2 DEF ExpireAction, Reconcile
        <4> QED  BY <1>0, <4>1, DropFrame
      <3> QED  BY <1>4, <3>1, <3>2
    <2> QED  BY <2>1 DEF SelectsInOrder
  <1>5. ASSUME NEW d \in Drains, NEW a \in Actions, Dispatch(d, a)
        PROVE  drain'[e].left \in Selections
    BY <1>0, <1>1, <1>5 DEF Dispatch, DrainTable
  <1>6. ASSUME NEW d \in Drains, NextSelect(d)
        PROVE  drain'[e].left \in Selections
    <2>1. drain[d].left \in Selections
      BY <1>6 DEF NextSelect, SelectsInOrder
    <2> QED  BY <1>0, <1>1, <1>6, <2>1, SelectionType DEF NextSelect, DrainTable
  <1>7. ASSUME NEW d \in Drains, RecordDispatch(d)
        PROVE  drain'[e].left \in Selections
    BY <1>0, <1>1, <1>7 DEF RecordDispatch, DrainTable
  <1>8. ASSUME NEW d \in Drains, FinishPhase(d)
        PROVE  drain'[e].left \in Selections
    <2>1. CASE drain[d].phase = "reconcile"
      <3>1. RetryableStates \in Selections
        BY DEF Selections
      <3> QED  BY ZenonT(40), <1>0, <1>1, <1>8, <2>1, <3>1 DEF FinishPhase, StartClaiming, DrainTable, Idle
    <2>2. CASE drain[d].phase # "reconcile"
      BY <1>0, <1>1, <1>8, <2>2 DEF FinishPhase, DrainTable, Idle
    <2> QED  BY <2>1, <2>2
  <1>9. ASSUME NEW q \in Requests, RequestStep(q) \/ RequestStops(q)
        PROVE  drain'[e].left \in Selections
    BY <1>1, <1>9 DEF RequestStep, Revoke, Enqueue, RequestStops
  <1>10. CASE Tick \/ UNCHANGED vars
    BY <1>1, <1>10 DEF Tick, vars
  <1> QED
    BY <1>2, <1>3, <1>4, <1>5, <1>6, <1>7, <1>8, <1>9, <1>10 DEF Next, DrainWork

\* The type invariant, with the order of a drain's selections.
LEMMA TypeInvariance == Spec => []TypeInv
  <1>1. Init => TypeInv
    <2> SUFFICES ASSUME Init PROVE TypeInv
      OBVIOUS
    <2>1. request \in RequestTable
      <3>1. <<>> \in Seq(Targets)
        BY EmptySeq
      <3> QED  BY <3>1 DEF Init, RequestTable
    <2>2. drain \in DrainTable
      BY IdleType DEF Init, DrainTable, DrainRecord
    <2>3. SelectsInOrder
      BY DEF Init, Idle, SelectsInOrder
    <2> QED
      BY <2>1, <2>2, <2>3 DEF Init, TypeInv, TypeOK, OutboxTable, ProviderTable, RowStates,
                              Answers
  <1>2. TypeInv /\ [Next]_vars => TypeInv'
    <2> SUFFICES ASSUME TypeInv, [Next]_vars PROVE TypeInv'
      OBVIOUS
    <2>1. Tick => TypeOK'
      BY DEF Tick, TypeInv, TypeOK
    <2>2. UNCHANGED vars => TypeOK'
      BY DEF vars, TypeInv, TypeOK
    <2>3. TypeOK'
      BY <2>1, <2>2, RequestType, DrainStepType DEF Next, TypeInv
    <2> QED  BY <2>3, SelectionStep DEF TypeInv
  <1> QED  BY <1>1, <1>2, PTL DEF Spec

\* Every variable keeps its shape in every reachable state.
THEOREM OutboxTypeCorrect == Spec => []TypeOK
  <1>1. TypeInv => TypeOK
    BY DEF TypeInv
  <1> QED  BY <1>1, TypeInvariance, PTL

-----------------------------------------------------------------------------
(***************************************************************************)
(* The inductive invariant.                                                *)
(***************************************************************************)

\* What a requester can have left to insert.
Remainders ==
    {<<>>, <<"provider_global_invalidation">>, <<"provider_current_browser_bound">>,
     <<"delegation_retirement">>,
     <<"provider_global_invalidation", "delegation_retirement">>}

Lists(left, t) == \E i \in 1..Len(left) : left[i] = t

\* A row that its requester has still to insert does not exist.
OwedRowsAbsent ==
    \A q \in Requests :
        /\ request[q].left \in Remainders
        /\ request[q].pc = "new" => request[q].left = <<>>
        /\ \A t \in Targets :
              request[q].pc = "new" \/ Lists(request[q].left, t)
                => outbox[<<q, t>>].state = "none"

\* A drain selects what its phase is for.
PhaseSelects ==
    \A d \in Drains :
        drain[d].pc = "claiming" =>
            /\ drain[d].phase = "reconcile" => drain[d].left = <<"ambiguous">>
            /\ drain[d].phase = "dispatch" =>
                  drain[d].left \in {RetryableStates, <<"failed_will_retry">>}

\* An answer that is being recorded is the last one given about its row.
RecordingAnswer ==
    \A d \in Drains :
        drain[d].pc = "recording" =>
            /\ drain[d].phase = "dispatch"
            /\ drain[d].action \in drain[d].mine
            /\ provider[drain[d].action].answer \in {"succeeded", "ambiguous", "failed"}
            /\ drain[d].result = StateAfter(provider[drain[d].action].answer)
            /\ drain[d].result = "succeeded" => provider[drain[d].action].done

\* What a drain holds to dispatch was not left ambiguous.
HeldToDispatch ==
    \A d \in Drains : \A a \in drain[d].mine :
        drain[d].phase = "dispatch" =>
            \/ drain[d].pc = "recording" /\ a = drain[d].action
            \/ provider[a].answer # "ambiguous"

\* States in which no answer is open.
Unanswered == {"none", "pending", "failed_will_retry"}

\* A row that nobody holds agrees with the provider's last answer.
RowsAgree ==
    \A a \in Actions :
        /\ outbox[a].state = "succeeded" => provider[a].done
        /\ outbox[a].state \in Unanswered => provider[a].answer # "ambiguous"

Inv == /\ OneOwner
       /\ OwedRowsAbsent
       /\ PhaseSelects
       /\ RecordingAnswer
       /\ HeldToDispatch
       /\ RowsAgree

IInv == TypeInv /\ Inv

\* Removing the first target of a remainder leaves one without that target.
LEMMA RemainderTail ==
  ASSUME NEW left \in Remainders, left # <<>>
  PROVE  /\ Head(left) \in Targets
         /\ Tail(left) \in Remainders
         /\ Lists(left, Head(left))
         /\ \A t : Lists(Tail(left), t) => Lists(left, t) /\ t # Head(left)
  <1>1. \A t : ~Lists(<<>>, t)
    BY DEF Lists
  <1>2. \A x : /\ Head(<<x>>) = x /\ Tail(<<x>>) = <<>>
               /\ \A t : Lists(<<x>>, t) <=> t = x
    <2> TAKE x
    <2>1. Head(<<x>>) = x /\ Tail(<<x>>) = <<>> /\ Len(<<x>>) = 1 /\ <<x>>[1] = x
      OBVIOUS
    <2>2. \A i : i \in 1..1 <=> i = 1
      OBVIOUS
    <2> QED  BY <2>1, <2>2 DEF Lists
  <1>3. \A x, y : /\ Head(<<x, y>>) = x /\ Tail(<<x, y>>) = <<y>>
                  /\ \A t : Lists(<<x, y>>, t) <=> t = x \/ t = y
    <2> TAKE x, y
    <2>1. /\ Head(<<x, y>>) = x /\ Tail(<<x, y>>) = <<y>> /\ Len(<<x, y>>) = 2
          /\ <<x, y>>[1] = x /\ <<x, y>>[2] = y
      OBVIOUS
    <2>2. \A i : i \in 1..2 <=> i = 1 \/ i = 2
      OBVIOUS
    <2> QED  BY <2>1, <2>2 DEF Lists
  <1>4. ASSUME NEW g \in Targets, left = <<g>>
        PROVE  /\ Head(left) \in Targets /\ Tail(left) \in Remainders
               /\ Lists(left, Head(left))
               /\ \A t : Lists(Tail(left), t) => Lists(left, t) /\ t # Head(left)
    BY <1>1, <1>2, <1>4 DEF Remainders
  <1>5. CASE left = <<"provider_global_invalidation", "delegation_retirement">>
    <2>1. /\ Head(left) = "provider_global_invalidation"
          /\ Tail(left) = <<"delegation_retirement">>
          /\ \A t : Lists(left, t) <=> t = "provider_global_invalidation"
                                       \/ t = "delegation_retirement"
      BY <1>3, <1>5
    <2>2. \A t : Lists(<<"delegation_retirement">>, t) <=> t = "delegation_retirement"
      BY <1>2
    <2>4. \A t : Lists(Tail(left), t) <=> t = "delegation_retirement"
      <3> HIDE DEF Lists
      <3> QED  BY <2>1, <2>2, Zenon
    <2>3. Tail(left) \in Remainders
      BY <2>1 DEF Remainders
    <2> QED  BY <2>1, <2>3, <2>4 DEF Targets
  <1> QED  BY <1>4, <1>5 DEF Remainders, Targets

\* A cause leaves one of the remainders to insert.
LEMMA TargetsRemain == ASSUME NEW cause PROVE TargetsOf(cause) \in Remainders
  <1>1. CASE cause = "logout"
    BY <1>1 DEF TargetsOf, Remainders
  <1>2. CASE cause # "logout" /\ cause \in GlobalInvalidation /\ cause \in DelegationRetirement
    <2>1. <<"provider_global_invalidation">> \o <<"delegation_retirement">>
             = <<"provider_global_invalidation", "delegation_retirement">>
      <3>1. <<"provider_global_invalidation">> \in Seq(Targets)
            /\ "delegation_retirement" \in Targets
        BY DEF Targets
      <3>2. Append(<<"provider_global_invalidation">>, "delegation_retirement")
               = <<"provider_global_invalidation">> \o <<"delegation_retirement">>
        BY <3>1, AppendIsConcat
      <3>3. \A g, r : Append(<<g>>, r) = <<g, r>>
        <4> TAKE g, r
        <4>1. <<g>> \in Seq({g, r}) /\ <<g, r>> \in Seq({g, r}) /\ r \in {g, r}
          OBVIOUS
        <4>2. /\ Append(<<g>>, r) \in Seq({g, r})
              /\ Len(Append(<<g>>, r)) = 2
              /\ Append(<<g>>, r)[1] = g
              /\ Append(<<g>>, r)[2] = r
          BY <4>1, AppendProperties
        <4>3. Len(<<g, r>>) = 2 /\ <<g, r>>[1] = g /\ <<g, r>>[2] = r
          OBVIOUS
        <4> DEFINE s == Append(<<g>>, r)
                   t == <<g, r>>
        <4>4. /\ s \in Seq({g, r}) /\ t \in Seq({g, r}) /\ Len(s) = 2 /\ Len(t) = 2
              /\ s[1] = t[1] /\ s[2] = t[2]
          BY <4>1, <4>2, <4>3
        <4> HIDE DEF s, t
        <4>5. Len(s) = Len(t) /\ \A i \in 1..Len(s) : s[i] = t[i]
          BY <4>4
        <4>6. s = t
          BY <4>4, <4>5, SeqEqual
        <4> QED  BY <4>6 DEF s, t
      <3> QED  BY <3>2, <3>3, Zenon
    <2>2. TargetsOf(cause) = <<"provider_global_invalidation">> \o <<"delegation_retirement">>
      BY <1>2 DEF TargetsOf
    <2> QED  BY <2>1, <2>2 DEF Remainders
  <1>3. CASE cause # "logout" /\ cause \in GlobalInvalidation /\ cause \notin DelegationRetirement
    BY <1>3 DEF TargetsOf, Remainders
  <1>4. CASE cause # "logout" /\ cause \notin GlobalInvalidation /\ cause \in DelegationRetirement
    BY <1>4 DEF TargetsOf, Remainders
  <1>5. CASE cause # "logout" /\ cause \notin GlobalInvalidation /\ cause \notin DelegationRetirement
    BY <1>5 DEF TargetsOf, Remainders
  <1> QED  BY <1>1, <1>2, <1>3, <1>4, <1>5

\* Recording an outcome of a claimed row changes that row only.
LEMMA RecordFrame ==
  ASSUME TypeOK, NEW d \in Drains, NEW a \in Actions, NEW outcome,
         outbox[a].state = "in_flight", RecordAttempt(d, a, outcome)
  PROVE  outbox'[a].state = outcome /\ \A b \in Actions \ {a} : outbox'[b] = outbox[b]
  <1> DEFINE next == IF outcome \in Settled THEN 0 ELSE CappedNextAttempt(d, a)
             written == [outbox[a] EXCEPT !.state = outcome, !.next = next]
  <1>1. outbox' = [outbox EXCEPT ![a] = written]
    BY DEF RecordAttempt
  <1>2. written.state = outcome
    BY DEF TypeOK, OutboxTable
  <1> HIDE DEF written
  <1> QED  BY <1>1, <1>2 DEF TypeOK, OutboxTable

\* A drain lets go of a row whose outcome agrees with the last answer.
LEMMA LetGo ==
  ASSUME TypeOK, Inv, NEW d \in Drains, NEW a \in Actions, NEW outcome,
         a \in drain[d].mine,
         outbox'[a].state = outcome, \A b \in Actions \ {a} : outbox'[b] = outbox[b],
         provider'[a].done = provider[a].done,
         \A b \in Actions \ {a} : provider'[b] = provider[b],
         outcome = "succeeded" => provider[a].done,
         outcome \in Unanswered => provider'[a].answer # "ambiguous",
         drain'[d].mine = drain[d].mine \ {a}, drain'[d].pc = "working",
         drain'[d].phase = drain[d].phase,
         drain[d].pc = "recording" => a = drain[d].action,
         \A e \in Drains \ {d} : drain'[e] = drain[e],
         UNCHANGED request
  PROVE  Inv'
  <1>0. \A e \in Drains : drain[e].mine \subseteq Actions
    BY DEF TypeOK, DrainTable
  <1>1. OneOwner'
    BY <1>0 DEF OneOwner, Inv
  <1>2. OwedRowsAbsent'
    <2>1. outbox[a].state = "in_flight"
      BY DEF Inv, OneOwner
    <2>2. \A q \in Requests, t \in Targets : <<q, t>> \in Actions
      BY DEF Actions
    <2>3. \A b \in Actions : outbox[b].state = "none" => outbox'[b].state = "none"
      BY <2>1
    <2> QED  BY <2>2, <2>3 DEF Inv, OwedRowsAbsent
  <1>3. PhaseSelects'
    BY DEF Inv, PhaseSelects
  <1>4. RecordingAnswer'
    <2> SUFFICES ASSUME NEW e \in Drains, drain'[e].pc = "recording"
                 PROVE  /\ drain'[e] = drain[e]
                        /\ drain[e].action \in Actions \ {a}
      BY DEF Inv, RecordingAnswer
    <2>1. e # d
      OBVIOUS
    <2>2. drain[e].action \in drain[e].mine
      BY <2>1 DEF Inv, RecordingAnswer
    <2> QED  BY <1>0, <2>1, <2>2 DEF Inv, OneOwner
  <1>5. HeldToDispatch'
    <2> SUFFICES ASSUME NEW e \in Drains, NEW b \in drain'[e].mine,
                        drain'[e].phase = "dispatch"
                 PROVE  \/ drain'[e].pc = "recording" /\ b = drain'[e].action
                        \/ provider'[b].answer # "ambiguous"
      BY DEF HeldToDispatch
    <2>1. b \in drain[e].mine /\ b \in Actions \ {a}
      BY <1>0 DEF Inv, OneOwner
    <2> QED  BY <2>1 DEF Inv, HeldToDispatch
  <1>6. RowsAgree'
    BY DEF Inv, RowsAgree
  <1> QED  BY <1>1, <1>2, <1>3, <1>4, <1>5, <1>6 DEF Inv

\* A drain that begins claiming, goes on to its next selection, or ends, takes no
\* row and records nothing.
LEMMA Shift ==
  ASSUME TypeOK, Inv, NEW d \in Drains,
         drain'[d].mine \subseteq drain[d].mine,
         \/ drain'[d].mine = {}
         \/ (drain'[d].phase = drain[d].phase /\ drain[d].pc # "recording"),
         drain'[d].pc # "recording",
         drain'[d].pc = "claiming" =>
            /\ drain'[d].phase = "reconcile" => drain'[d].left = <<"ambiguous">>
            /\ drain'[d].phase = "dispatch" =>
                  drain'[d].left \in {RetryableStates, <<"failed_will_retry">>},
         \A e \in Drains \ {d} : drain'[e] = drain[e],
         UNCHANGED <<request, outbox, provider>>
  PROVE  Inv'
  <1>1. OneOwner'
    BY DEF OneOwner, Inv
  <1>2. OwedRowsAbsent'
    BY DEF Inv, OwedRowsAbsent
  <1>3. PhaseSelects'
    BY DEF Inv, PhaseSelects
  <1>4. RecordingAnswer'
    BY DEF Inv, RecordingAnswer
  <1>5. HeldToDispatch'
    BY DEF Inv, HeldToDispatch
  <1>6. RowsAgree'
    BY DEF Inv, RowsAgree
  <1> QED  BY <1>1, <1>2, <1>3, <1>4, <1>5, <1>6 DEF Inv

\* Beginning to claim, selecting the next state, finishing a phase and stopping
\* preserve the invariant.
LEMMA ShiftInv ==
  ASSUME IInv, NEW d \in Drains,
         StartDrain(d) \/ NextSelect(d) \/ FinishPhase(d) \/ DrainStops(d)
  PROVE  Inv'
  <1> USE DEF IInv, TypeInv
  <1>0. drain \in DrainTable /\ drain[d] \in DrainRecord
    BY DEF TypeOK, DrainTable, DrainRecord
  <1>1. CASE StartDrain(d)
    <2>1. /\ drain'[d].mine = {} /\ drain'[d].pc = "claiming"
          /\ drain'[d].phase = "reconcile" /\ drain'[d].left = <<"ambiguous">>
          /\ \A e \in Drains \ {d} : drain'[e] = drain[e]
      BY <1>0, <1>1 DEF StartDrain, StartClaiming, Idle, DrainTable
    <2> QED  BY <1>1, <2>1, Shift DEF StartDrain
  <1>2. CASE NextSelect(d)
    <2> DEFINE rest == Tail(drain[d].left)
    <2>1. CASE rest = <<>> \/ Full(d)
      <3> DEFINE r == [drain[d] EXCEPT !.pc = "working", !.left = <<>>, !.seen = {}]
      <3>1. r.mine = drain[d].mine /\ r.phase = drain[d].phase /\ r.pc = "working"
        BY <1>0 DEF DrainRecord
      <3>2. drain' = [drain EXCEPT ![d] = r]
        BY <1>2, <2>1 DEF NextSelect
      <3>3. drain'[d] = r /\ \A e \in Drains \ {d} : drain'[e] = drain[e]
        <4> HIDE DEF r
        <4> QED  BY <1>0, <3>2, DrainFrame
      <3> HIDE DEF r
      <3> QED  BY <1>2, <3>1, <3>3, Shift DEF NextSelect
    <2>2. CASE ~(rest = <<>> \/ Full(d))
      <3> DEFINE r == [drain[d] EXCEPT !.left = rest,
                                       !.seen = Due(Head(rest), drain[d].now)]
      <3>1. /\ r.mine = drain[d].mine /\ r.phase = drain[d].phase
            /\ r.pc = "claiming" /\ r.left = rest
        BY <1>0, <1>2 DEF DrainRecord, NextSelect
      <3>2. drain' = [drain EXCEPT ![d] = r]
        BY <1>2, <2>2 DEF NextSelect
      <3>3. drain'[d] = r /\ \A e \in Drains \ {d} : drain'[e] = drain[e]
        <4> HIDE DEF r
        <4> QED  BY <1>0, <3>2, DrainFrame
      <3>4. drain[d].phase = "dispatch" /\ rest = <<"failed_will_retry">>
        <4>1. drain[d].phase \in {"reconcile", "dispatch"} /\ drain[d].pc = "claiming"
          BY <1>0, <1>2 DEF DrainRecord, NextSelect
        <4>2. drain[d].phase # "reconcile"
          BY <2>2, <4>1, SelectionRest DEF Inv, PhaseSelects
        <4>3. drain[d].left \in {RetryableStates, <<"failed_will_retry">>}
          BY <4>1, <4>2 DEF Inv, PhaseSelects
        <4> QED  BY <2>2, <4>1, <4>2, <4>3, SelectionRest
      <3> HIDE DEF r
      <3> QED  BY <1>2, <3>1, <3>3, <3>4, Shift DEF NextSelect
    <2> QED  BY <2>1, <2>2
  <1>3. CASE FinishPhase(d)
    <2>1. CASE drain[d].phase = "reconcile"
      <3>1. /\ drain'[d].mine = {} /\ drain'[d].pc = "claiming"
            /\ drain'[d].phase = "dispatch" /\ drain'[d].left = RetryableStates
            /\ \A e \in Drains \ {d} : drain'[e] = drain[e]
        BY ZenonT(40), <1>0, <1>3, <2>1 DEF FinishPhase, StartClaiming, Idle, DrainTable
      <3> QED  BY <1>3, <3>1, Shift DEF FinishPhase
    <2>2. CASE drain[d].phase # "reconcile"
      <3>1. /\ drain'[d].mine = {} /\ drain'[d].pc = "idle"
            /\ \A e \in Drains \ {d} : drain'[e] = drain[e]
        BY <1>0, <1>3, <2>2 DEF FinishPhase, Idle, DrainTable
      <3> QED  BY <1>3, <3>1, Shift DEF FinishPhase
    <2> QED  BY <2>1, <2>2
  <1>4. CASE DrainStops(d)
    <2>1. /\ drain'[d].mine = {} /\ drain'[d].pc = "idle"
          /\ \A e \in Drains \ {d} : drain'[e] = drain[e]
      BY <1>0, <1>4 DEF DrainStops, Idle, DrainTable
    <2> QED  BY <1>4, <2>1, Shift DEF DrainStops
  <1> QED  BY <1>1, <1>2, <1>3, <1>4

\* A claim preserves the invariant: the swap succeeds on a row in the selected
\* state, which nobody holds and, for dispatch, no answer left ambiguous.
LEMMA ClaimInv ==
  ASSUME IInv, NEW d \in Drains, NEW a \in Actions, Claim(d, a)
  PROVE  Inv'
  <1> USE DEF IInv, TypeInv
  <1>0. drain \in DrainTable /\ \A e \in Drains : drain[e].mine \subseteq Actions
    BY DEF TypeOK, DrainTable
  <1>1. /\ drain'[d].pc = drain[d].pc /\ drain'[d].left = drain[d].left
        /\ drain'[d].phase = drain[d].phase
        /\ drain'[d].mine = IF outbox[a].state = Head(drain[d].left)
                            THEN drain[d].mine \cup {a} ELSE drain[d].mine
        /\ \A e \in Drains \ {d} : drain'[e] = drain[e]
    BY <1>0, ClaimFrame
  <1>2. drain[d].pc = "claiming" /\ UNCHANGED <<request, provider>>
    BY DEF Claim
  <1>3. CASE outbox[a].state # Head(drain[d].left)
    <2>1. UNCHANGED outbox
      BY <1>3 DEF Claim
    <2>2. /\ drain'[d].phase = "reconcile" => drain'[d].left = <<"ambiguous">>
          /\ drain'[d].phase = "dispatch" =>
                drain'[d].left \in {RetryableStates, <<"failed_will_retry">>}
      BY <1>1, <1>2 DEF Inv, PhaseSelects
    <2>3. /\ drain'[d].mine = drain[d].mine
          /\ drain'[d].pc # "recording" /\ drain[d].pc # "recording"
      BY <1>1, <1>2, <1>3
    <2>4. UNCHANGED <<request, outbox, provider>>
      BY <1>2, <2>1
    <2>5. Inv /\ TypeOK
      OBVIOUS
    <2> QED  BY <1>1, <2>2, <2>3, <2>4, <2>5, Shift
  <1>4. CASE outbox[a].state = Head(drain[d].left)
    <2>1. /\ outbox'[a].state = "in_flight"
          /\ \A b \in Actions \ {a} : outbox'[b] = outbox[b]
      BY <1>4 DEF Claim, TypeOK, OutboxTable
    <2>2. /\ drain[d].phase = "reconcile" => outbox[a].state = "ambiguous"
          /\ drain[d].phase = "dispatch" =>
                outbox[a].state \in {"pending", "failed_will_retry"}
      BY <1>2, <1>4, SelectionRest DEF Inv, PhaseSelects
    <2>3. outbox[a].state \in {"ambiguous", "pending", "failed_will_retry"}
      BY <2>2 DEF TypeOK, DrainTable
    <2>4. \A e \in Drains : a \notin drain[e].mine
      BY <2>3 DEF Inv, OneOwner
    <2>5. OneOwner'
      BY <1>0, <1>1, <1>4, <2>1, <2>4 DEF Inv, OneOwner
    <2>6. OwedRowsAbsent'
      <3>1. \A q \in Requests, t \in Targets : <<q, t>> \in Actions
        BY DEF Actions
      <3>2. \A b \in Actions : outbox[b].state = "none" => outbox'[b].state = "none"
        BY <2>1, <2>3
      <3> QED  BY <1>2, <3>1, <3>2 DEF Inv, OwedRowsAbsent
    <2>7. PhaseSelects'
      BY <1>1 DEF Inv, PhaseSelects
    <2>8. RecordingAnswer'
      BY <1>1, <1>2 DEF Inv, RecordingAnswer
    <2>9. HeldToDispatch'
      BY <1>1, <1>2, <1>4, <2>2 DEF Inv, HeldToDispatch, RowsAgree, Unanswered
    <2>10. RowsAgree'
      BY <1>2, <2>1 DEF Inv, RowsAgree, Unanswered
    <2> QED  BY <2>5, <2>6, <2>7, <2>8, <2>9, <2>10 DEF Inv
  <1> QED  BY <1>3, <1>4

\* Expiring, querying and recording let go of the row with the outcome that the
\* last answer calls for.
LEMMA OutcomeInv ==
  ASSUME IInv, NEW d \in Drains,
         \/ \E a \in Actions : ExpireAction(d, a) \/ Reconcile(d, a)
         \/ RecordDispatch(d)
  PROVE  Inv'
  <1> USE DEF IInv, TypeInv
  <1>0. /\ drain \in DrainTable /\ drain[d] \in DrainRecord
        /\ \A e \in Drains : drain[e].mine \subseteq Actions
    BY DEF TypeOK, DrainTable, DrainRecord
  <1>1. ASSUME NEW a \in Actions, ExpireAction(d, a) PROVE Inv'
    <2>1. a \in drain[d].mine /\ drain[d].pc = "working" /\ UNCHANGED <<request, provider>>
      BY <1>1 DEF ExpireAction, WorksOn
    <2>2. outbox[a].state = "in_flight"
      BY <2>1 DEF Inv, OneOwner
    <2>3. /\ outbox'[a].state = "failed_deadline_exceeded"
          /\ \A b \in Actions \ {a} : outbox'[b] = outbox[b]
      BY <1>1, <2>2, RecordFrame DEF ExpireAction
    <2>4. /\ drain'[d].mine = drain[d].mine \ {a} /\ drain'[d].pc = "working"
          /\ drain'[d].phase = drain[d].phase
          /\ \A e \in Drains \ {d} : drain'[e] = drain[e]
      BY <1>0, <1>1, <2>1, DropFrame DEF ExpireAction
    <2>5. /\ provider'[a].done = provider[a].done
          /\ \A b \in Actions \ {a} : provider'[b] = provider[b]
          /\ "failed_deadline_exceeded" \notin Unanswered
          /\ drain[d].pc # "recording" /\ UNCHANGED request
      BY <2>1 DEF Unanswered
    <2> HIDE DEF IInv
    <2> QED  BY <2>1, <2>3, <2>4, <2>5, LetGo DEF IInv
  <1>2. ASSUME NEW a \in Actions, Reconcile(d, a) PROVE Inv'
    <2>1. a \in drain[d].mine /\ drain[d].pc = "working" /\ UNCHANGED request
      BY <1>2 DEF Reconcile, WorksOn
    <2>2. PICK answer \in {"ambiguous", IF provider[a].done THEN "succeeded" ELSE "failed"} :
             /\ provider' = [provider EXCEPT ![a].answer = answer]
             /\ RecordAttempt(d, a, StateAfter(answer))
      BY <1>2 DEF Reconcile
    <2> DEFINE outcome == StateAfter(answer)
    <2>3. outbox[a].state = "in_flight"
      BY <2>1 DEF Inv, OneOwner
    <2>4. outbox'[a].state = outcome /\ \A b \in Actions \ {a} : outbox'[b] = outbox[b]
      BY <2>2, <2>3, RecordFrame
    <2>5. /\ drain'[d].mine = drain[d].mine \ {a} /\ drain'[d].pc = "working"
          /\ drain'[d].phase = drain[d].phase
          /\ \A e \in Drains \ {d} : drain'[e] = drain[e]
      BY <1>0, <1>2, <2>1, DropFrame DEF Reconcile
    <2>6. /\ provider'[a].done = provider[a].done /\ provider'[a].answer = answer
          /\ \A b \in Actions \ {a} : provider'[b] = provider[b]
      BY <2>2 DEF TypeOK, ProviderTable
    <2>7. /\ outcome = "succeeded" => provider[a].done
          /\ outcome \in Unanswered => answer # "ambiguous"
      BY <2>2 DEF StateAfter, Unanswered
    <2>8. drain[d].pc # "recording"
      BY <2>1
    <2> HIDE DEF outcome
    <2> QED  BY <2>1, <2>4, <2>5, <2>6, <2>7, <2>8, LetGo
  <1>3. CASE RecordDispatch(d)
    <2> DEFINE a == drain[d].action
               outcome == drain[d].result
               r == [drain[d] EXCEPT !.pc = "working", !.action = None, !.result = "none",
                                     !.mine = drain[d].mine \ {a}]
    <2>1. drain[d].pc = "recording" /\ UNCHANGED <<request, provider>>
      BY <1>3 DEF RecordDispatch
    <2>2. /\ a \in drain[d].mine /\ a \in Actions
          /\ provider[a].answer \in {"succeeded", "ambiguous", "failed"}
          /\ outcome = StateAfter(provider[a].answer)
          /\ outcome = "succeeded" => provider[a].done
      BY <1>0, <2>1 DEF Inv, RecordingAnswer
    <2>3. outbox[a].state = "in_flight"
      BY <2>2 DEF Inv, OneOwner
    <2>4. outbox'[a].state = outcome /\ \A b \in Actions \ {a} : outbox'[b] = outbox[b]
      BY <1>3, <2>2, <2>3, RecordFrame DEF RecordDispatch
    <2>5. r.mine = drain[d].mine \ {a} /\ r.pc = "working" /\ r.phase = drain[d].phase
      BY <1>0 DEF DrainRecord
    <2>6. drain' = [drain EXCEPT ![d] = r]
      BY <1>3 DEF RecordDispatch
    <2>7. drain'[d] = r /\ \A e \in Drains \ {d} : drain'[e] = drain[e]
      <3> HIDE DEF r
      <3> QED  BY <1>0, <2>6, DrainFrame
    <2>8. outcome \in Unanswered => provider'[a].answer # "ambiguous"
      BY <2>1, <2>2 DEF StateAfter, Unanswered
    <2>9. /\ provider'[a].done = provider[a].done
          /\ \A b \in Actions \ {a} : provider'[b] = provider[b]
          /\ UNCHANGED request /\ a = drain[d].action
          /\ outcome = "succeeded" => provider[a].done
      BY <2>1, <2>2
    <2>10. /\ drain'[d].mine = drain[d].mine \ {a} /\ drain'[d].pc = "working"
           /\ drain'[d].phase = drain[d].phase
      BY <2>5, <2>7
    <2> HIDE DEF a, outcome, r
    <2> QED  BY <2>2, <2>4, <2>7, <2>8, <2>9, <2>10, LetGo
  <1> QED  BY <1>1, <1>2, <1>3

\* A dispatch preserves the invariant: its answer is held by its drain, to be
\* recorded, and touches no row.
LEMMA DispatchInv ==
  ASSUME IInv, NEW d \in Drains, NEW a \in Actions, Dispatch(d, a)
  PROVE  Inv'
  <1> USE DEF IInv, TypeInv
  <1>0. /\ drain \in DrainTable /\ drain[d] \in DrainRecord
        /\ \A e \in Drains : drain[e].mine \subseteq Actions
    BY DEF TypeOK, DrainTable, DrainRecord
  <1>1. /\ a \in drain[d].mine /\ drain[d].pc = "working" /\ drain[d].phase = "dispatch"
        /\ UNCHANGED <<request, outbox>>
    BY DEF Dispatch, WorksOn
  <1>2. PICK answer \in {"succeeded", "ambiguous", "failed"}, done \in BOOLEAN :
           /\ answer = "succeeded" => done
           /\ provider' = [provider EXCEPT ![a] = [done |-> provider[a].done \/ done,
                                                   answer |-> answer]]
           /\ drain' = [drain EXCEPT ![d] =
                           [drain[d] EXCEPT !.pc = "recording", !.action = a,
                                            !.result = StateAfter(answer)]]
    BY DEF Dispatch
  <1> DEFINE r == [drain[d] EXCEPT !.pc = "recording", !.action = a,
                                   !.result = StateAfter(answer)]
  <1>3. /\ r.pc = "recording" /\ r.action = a /\ r.result = StateAfter(answer)
        /\ r.mine = drain[d].mine /\ r.phase = "dispatch"
    BY <1>0, <1>1 DEF DrainRecord
  <1>4. drain'[d] = r /\ \A e \in Drains \ {d} : drain'[e] = drain[e]
    <2>1. drain' = [drain EXCEPT ![d] = r]
      BY <1>2
    <2> HIDE DEF r
    <2> QED  BY <1>0, <2>1, DrainFrame
  <1> HIDE DEF r
  <1>5. /\ drain'[d].pc = "recording" /\ drain'[d].action = a
        /\ drain'[d].result = StateAfter(answer)
        /\ drain'[d].mine = drain[d].mine /\ drain'[d].phase = "dispatch"
        /\ \A e \in Drains \ {d} : drain'[e] = drain[e]
    BY <1>3, <1>4
  <1>6. /\ provider'[a].answer = answer
        /\ answer = "succeeded" => provider'[a].done
        /\ provider[a].done => provider'[a].done
        /\ \A b \in Actions \ {a} : provider'[b] = provider[b]
    BY <1>2 DEF TypeOK, ProviderTable
  <1>7. OneOwner'
    BY <1>1, <1>5 DEF Inv, OneOwner
  <1>8. OwedRowsAbsent'
    BY <1>1 DEF Inv, OwedRowsAbsent
  <1>9. PhaseSelects'
    BY <1>5 DEF Inv, PhaseSelects
  <1>10. RecordingAnswer'
    <2> SUFFICES ASSUME NEW e \in Drains, drain'[e].pc = "recording"
                 PROVE  /\ drain'[e].phase = "dispatch"
                        /\ drain'[e].action \in drain'[e].mine
                        /\ provider'[drain'[e].action].answer
                              \in {"succeeded", "ambiguous", "failed"}
                        /\ drain'[e].result = StateAfter(provider'[drain'[e].action].answer)
                        /\ drain'[e].result = "succeeded" => provider'[drain'[e].action].done
      BY DEF RecordingAnswer
    <2>1. CASE e = d
      <3>1. StateAfter(answer) = "succeeded" => answer = "succeeded"
        BY DEF StateAfter
      <3> QED  BY <1>1, <1>5, <1>6, <2>1, <3>1
    <2>2. CASE e # d
      <3>1. drain'[e] = drain[e] /\ drain[e].action \in drain[e].mine
        BY <1>5, <2>2 DEF Inv, RecordingAnswer
      <3>2. drain[e].action \in Actions \ {a}
        BY <1>0, <1>1, <2>2, <3>1 DEF Inv, OneOwner
      <3>3. provider'[drain[e].action] = provider[drain[e].action]
        BY <1>6, <3>2
      <3> QED  BY <3>1, <3>3 DEF Inv, RecordingAnswer
    <2> QED  BY <2>1, <2>2
  <1>11. HeldToDispatch'
    <2> SUFFICES ASSUME NEW e \in Drains, NEW b \in drain'[e].mine,
                        drain'[e].phase = "dispatch"
                 PROVE  \/ drain'[e].pc = "recording" /\ b = drain'[e].action
                        \/ provider'[b].answer # "ambiguous"
      BY DEF HeldToDispatch
    <2>1. CASE e = d
      <3>1. CASE b = a
        BY <1>5, <2>1, <3>1
      <3>2. CASE b # a
        BY <1>0, <1>1, <1>5, <1>6, <2>1, <3>2 DEF Inv, HeldToDispatch
      <3> QED  BY <3>1, <3>2
    <2>2. CASE e # d
      <3>1. b \in drain[e].mine /\ b \in Actions \ {a}
        BY <1>0, <1>1, <1>5, <2>2 DEF Inv, OneOwner
      <3> QED  BY <1>5, <1>6, <2>2, <3>1 DEF Inv, HeldToDispatch
    <2> QED  BY <2>1, <2>2
  <1>12. RowsAgree'
    <2>1. outbox[a].state = "in_flight"
      BY <1>1 DEF Inv, OneOwner
    <2> QED  BY <1>1, <1>6, <2>1 DEF Inv, RowsAgree, Unanswered
  <1> QED  BY <1>7, <1>8, <1>9, <1>10, <1>11, <1>12 DEF Inv

\* A requester's step preserves the invariant: it inserts a row that did not
\* exist, which nobody claimed and nobody dispatched.
LEMMA RequesterInv ==
  ASSUME IInv, NEW q \in Requests, RequestStep(q) \/ RequestStops(q)
  PROVE  Inv'
  <1> USE DEF IInv, TypeInv
  <1>0. /\ request \in RequestTable /\ \A e \in Drains : drain[e].mine \subseteq Actions
        /\ \A p \in Requests, t \in Targets : <<p, t>> \in Actions
    BY DEF TypeOK, DrainTable, Actions
  <1>1. UNCHANGED <<drain, provider>>
    BY DEF RequestStep, Revoke, Enqueue, RequestStops
  <1>2. PhaseSelects' /\ RecordingAnswer' /\ HeldToDispatch'
    BY <1>1 DEF Inv, PhaseSelects, RecordingAnswer, HeldToDispatch
  <1>3. ASSUME NEW cause \in Causes, Revoke(q, cause) PROVE Inv'
    <2>1. UNCHANGED outbox
      BY <1>3 DEF Revoke
    <2>2. /\ request'[q].pc = "revoked" /\ request'[q].left = TargetsOf(cause)
          /\ \A p \in Requests \ {q} : request'[p] = request[p]
      BY <1>0, <1>3 DEF Revoke, RequestTable
    <2>3. \A t \in Targets : outbox[<<q, t>>].state = "none"
      BY <1>3 DEF Revoke, Inv, OwedRowsAbsent
    <2>4. TargetsOf(cause) \in Remainders
      BY TargetsRemain
    <2>5. OwedRowsAbsent'
      <3> HIDE DEF TargetsOf, IInv
      <3> QED  BY <2>1, <2>2, <2>3, <2>4 DEF IInv, Inv, OwedRowsAbsent
    <2>6. OneOwner' /\ RowsAgree'
      BY <1>1, <2>1 DEF Inv, OneOwner, RowsAgree
    <2> QED  BY <1>2, <2>5, <2>6 DEF Inv
  <1>4. CASE Enqueue(q)
    <2> DEFINE left == request[q].left
               h == Head(left)
               a == <<q, h>>
    <2>1. left \in Remainders /\ left # <<>>
      BY <1>4 DEF Enqueue, Inv, OwedRowsAbsent
    <2>2. /\ h \in Targets /\ Tail(left) \in Remainders /\ Lists(left, h)
          /\ \A t : Lists(Tail(left), t) => Lists(left, t) /\ t # h
      BY <2>1, RemainderTail
    <2>3. a \in Actions /\ outbox[a].state = "none"
      BY <1>0, <2>2 DEF Inv, OwedRowsAbsent
    <2>4. outbox'[a].state = "pending" /\ \A b \in Actions \ {a} : outbox'[b] = outbox[b]
      BY <1>4, <2>3 DEF Enqueue, TypeOK, OutboxTable
    <2>5. /\ request'[q].pc = request[q].pc /\ request'[q].left = Tail(left)
          /\ \A p \in Requests \ {q} : request'[p] = request[p]
      BY <1>0, <1>4 DEF Enqueue, RequestTable
    <2>6. request[q].pc # "new"
      BY <2>1 DEF Inv, OwedRowsAbsent
    <2>7. OwedRowsAbsent'
      <3> SUFFICES ASSUME NEW p \in Requests
                   PROVE  /\ request'[p].left \in Remainders
                          /\ request'[p].pc = "new" => request'[p].left = <<>>
                          /\ \A t \in Targets :
                                request'[p].pc = "new" \/ Lists(request'[p].left, t)
                                  => outbox'[<<p, t>>].state = "none"
        BY DEF OwedRowsAbsent
      <3>1. CASE p = q
        <4>1. ASSUME NEW t \in Targets, Lists(Tail(left), t)
              PROVE  outbox'[<<q, t>>].state = "none"
          <5>1. Lists(left, t) /\ <<q, t>> # a
            BY <2>2, <4>1
          <5>2. outbox[<<q, t>>].state = "none"
            BY <5>1 DEF Inv, OwedRowsAbsent
          <5> QED  BY <1>0, <2>4, <5>1, <5>2
        <4> QED  BY <2>2, <2>5, <2>6, <3>1, <4>1
      <3>2. CASE p # q
        <4>1. request'[p] = request[p] /\ \A t \in Targets : <<p, t>> # a
          BY <2>5, <3>2
        <4>2. \A t \in Targets : outbox'[<<p, t>>] = outbox[<<p, t>>]
          BY <1>0, <2>4, <4>1
        <4> QED  BY <4>1, <4>2 DEF Inv, OwedRowsAbsent
      <3> QED  BY <3>1, <3>2
    <2> HIDE DEF a
    <2>8. OneOwner'
      BY <1>0, <1>1, <2>3, <2>4 DEF Inv, OneOwner
    <2>9. RowsAgree'
      BY <1>1, <2>3, <2>4 DEF Inv, RowsAgree, Unanswered
    <2> QED  BY <1>2, <2>7, <2>8, <2>9 DEF Inv
  <1>5. CASE RequestStops(q)
    <2>1. /\ request'[q].pc = request[q].pc /\ request'[q].left = <<>>
          /\ \A p \in Requests \ {q} : request'[p] = request[p]
          /\ UNCHANGED outbox
      BY <1>0, <1>5 DEF RequestStops, RequestTable
    <2>2. <<>> \in Remainders /\ \A t : ~Lists(<<>>, t)
      BY DEF Remainders, Lists
    <2>3. OwedRowsAbsent'
      BY <2>1, <2>2 DEF Inv, OwedRowsAbsent
    <2>4. OneOwner' /\ RowsAgree'
      BY <1>1, <2>1 DEF Inv, OneOwner, RowsAgree
    <2> QED  BY <1>2, <2>3, <2>4 DEF Inv
  <1> QED  BY <1>3, <1>4, <1>5 DEF RequestStep

\* The invariant holds of every reachable state.
LEMMA OutboxInvariance == Spec => []IInv
  <1>1. Init => Inv
    <2> SUFFICES ASSUME Init PROVE Inv
      OBVIOUS
    <2>1. /\ \A d \in Drains : drain[d].pc = "idle" /\ drain[d].mine = {}
          /\ \A a \in Actions : /\ outbox[a].state = "none"
                                /\ provider[a].answer = "none"
          /\ \A q \in Requests : request[q].left = <<>>
      BY DEF Init, Idle
    <2>2. <<>> \in Remainders /\ \A q \in Requests, t \in Targets : <<q, t>> \in Actions
      BY DEF Remainders, Actions
    <2>3. OwedRowsAbsent
      BY <2>1, <2>2 DEF OwedRowsAbsent
    <2> QED
      BY <2>1, <2>3 DEF Inv, OneOwner, PhaseSelects, RecordingAnswer, HeldToDispatch, RowsAgree
  <1>2. Inv /\ TypeInv /\ TypeInv' /\ [Next]_vars => Inv'
    <2> SUFFICES ASSUME IInv, [Next]_vars PROVE Inv'
      BY DEF IInv
    <2>1. ASSUME Tick \/ UNCHANGED vars PROVE Inv'
      <3>1. UNCHANGED <<request, outbox, drain, provider>>
        BY <2>1 DEF Tick, vars
      <3> QED
        BY <3>1 DEF IInv, Inv, OneOwner, OwedRowsAbsent, PhaseSelects, RecordingAnswer,
                    HeldToDispatch, RowsAgree
    <2> QED
      BY <2>1, RequesterInv, ShiftInv, ClaimInv, OutcomeInv, DispatchInv DEF Next, DrainWork
  <1> QED  BY <1>1, <1>2, TypeInvariance, PTL DEF Spec, IInv

-----------------------------------------------------------------------------
(***************************************************************************)
(* The properties.                                                         *)
(***************************************************************************)

\* A row that a drain works on is in flight and no other drain works on it, for
\* any number of drains and rows, however their selections and swaps interleave.
THEOREM OneOwnerHolds == Spec => []OneOwner
  <1>1. IInv => OneOwner
    BY DEF IInv, Inv
  <1> QED  BY <1>1, OutboxInvariance, PTL

\* A row says "succeeded" only when the provider has applied the action.
THEOREM SucceededIsApplied == Spec => []SucceededMeansApplied
  <1>1. IInv => SucceededMeansApplied
    BY DEF IInv, Inv, RowsAgree, SucceededMeansApplied
  <1> QED  BY <1>1, OutboxInvariance, PTL

\* No step of any drain dispatches an action whose last answer was ambiguous.
THEOREM NeverBlindRetry == Spec => NoBlindRetry
  <1> DEFINE Sees == \A d \in Drains :
                       drain[d].pc = "working" /\ drain'[d].pc = "recording" =>
                          provider[drain'[d].action].answer # "ambiguous"
  <1>1. IInv /\ [Next]_vars => [Sees]_vars
    <2> SUFFICES ASSUME IInv, Next, NEW e \in Drains,
                        drain[e].pc = "working", drain'[e].pc = "recording"
                 PROVE  provider[drain'[e].action].answer # "ambiguous"
      OBVIOUS
    <2>0. drain \in DrainTable
      BY DEF IInv, TypeInv, TypeOK
    <2>1. ASSUME NEW d \in Drains, NEW a \in Actions, Dispatch(d, a)
          PROVE  provider[drain'[e].action].answer # "ambiguous"
      <3>1. /\ a \in drain[d].mine /\ drain[d].pc = "working"
            /\ drain[d].phase = "dispatch"
        BY <2>1 DEF Dispatch, WorksOn
      <3>2. provider[a].answer # "ambiguous"
        BY <3>1 DEF IInv, Inv, HeldToDispatch
      <3>3. e = d /\ drain'[d].action = a
        <4>1. PICK answer \in {"succeeded", "ambiguous", "failed"} :
                drain' = [drain EXCEPT ![d] =
                            [drain[d] EXCEPT !.pc = "recording", !.action = a,
                                             !.result = StateAfter(answer)]]
          BY <2>1 DEF Dispatch
        <4> QED  BY <2>0, <4>1 DEF DrainTable
      <3> QED  BY <3>2, <3>3
    <2>2. ASSUME NEW d \in Drains, NEW a \in Actions,
                 Claim(d, a) \/ ExpireAction(d, a) \/ Reconcile(d, a)
          PROVE  FALSE
      <3>1. CASE Claim(d, a)
        BY <2>0, <3>1, ClaimFrame
      <3>2. CASE ExpireAction(d, a) \/ Reconcile(d, a)
        <4>1. drain' = [drain EXCEPT ![d].mine = drain[d].mine \ {a}]
          BY <3>2 DEF ExpireAction, Reconcile
        <4> QED  BY <2>0, <4>1, DropFrame
      <3> QED  BY <2>2, <3>1, <3>2
    <2>3. ASSUME NEW d \in Drains,
                 \/ StartDrain(d) \/ NextSelect(d) \/ RecordDispatch(d)
                 \/ FinishPhase(d) \/ DrainStops(d)
          PROVE  FALSE
      <3>1. CASE StartDrain(d)
        BY <2>0, <3>1 DEF StartDrain, StartClaiming, DrainTable, Idle
      <3>2. CASE NextSelect(d)
        <4>1. e = d => drain[e].pc = "claiming"
          BY <3>2 DEF NextSelect
        <4>2. e # d => drain'[e] = drain[e]
          BY <2>0, <3>2 DEF NextSelect, DrainTable
        <4> QED  BY <4>1, <4>2
      <3>3. CASE RecordDispatch(d)
        <4>1. e = d => drain[e].pc = "recording"
          BY <3>3 DEF RecordDispatch
        <4>2. e # d => drain'[e] = drain[e]
          BY <2>0, <3>3 DEF RecordDispatch, DrainTable
        <4> QED  BY <4>1, <4>2
      <3>4. CASE FinishPhase(d)
        <4>1. CASE drain[d].phase = "reconcile"
          BY <2>0, <3>4, <4>1 DEF FinishPhase, StartClaiming, DrainTable, Idle
        <4>2. CASE drain[d].phase # "reconcile"
          <5>1. drain' = [drain EXCEPT ![d] = Idle]
            BY <3>4, <4>2 DEF FinishPhase
          <5> QED  BY <2>0, <5>1 DEF DrainTable, Idle
        <4> QED  BY <4>1, <4>2
      <3>5. CASE DrainStops(d)
        BY <2>0, <3>5 DEF DrainStops, DrainTable, Idle
      <3> QED  BY <2>3, <3>1, <3>2, <3>3, <3>4, <3>5
    <2>4. ASSUME NEW q \in Requests, RequestStep(q) \/ RequestStops(q)
          PROVE  FALSE
      BY <2>4 DEF RequestStep, Revoke, Enqueue, RequestStops
    <2>5. CASE Tick
      BY <2>5 DEF Tick
    <2> QED  BY <2>1, <2>2, <2>3, <2>4, <2>5 DEF Next, DrainWork
  <1> QED  BY <1>1, OutboxInvariance, PTL DEF Spec, NoBlindRetry

-----------------------------------------------------------------------------
(***************************************************************************)
(* What the provider tells this program: its security events.              *)
(***************************************************************************)

Deciding == {"rejected", "superseded", "applied", "applied_pending_reconciliation"}
Accepted == {"applied", "applied_pending_reconciliation"}
Working(d) == delivery[d].pc \in {"inserted", "lost"}

\* A delivery that is under way names an event and a decision, and only an
\* event ahead of the clock is quarantined.
DecisionsInv ==
    /\ \A d \in Deliveries :
          delivery[d].pc # "idle" =>
              /\ delivery[d].event \in Events
              /\ delivery[d].decided \in Deciding
              /\ delivery[d].decided = "applied_pending_reconciliation" => delivery[d].event \in Ahead
    /\ \A e \in Events : row[e] = "applied_pending_reconciliation" => e \in Ahead

\* A delivery works on an accepted event whose bump is still to come, alone.
WorkInv ==
    /\ \A d \in Deliveries :
          Working(d) => row[delivery[d].event] \in Accepted /\ delivery[d].event \notin effected
    /\ \A c, d \in Deliveries :
          Working(c) /\ Working(d) /\ delivery[c].event = delivery[d].event => c = d

\* The effects, counted by the epoch and covered by the watermark; each has an
\* accepted row, and an applied row is without one only if that is explained.
EffectInv ==
    /\ IsFiniteSet(effected)
    /\ authority.epoch = 1 + Cardinality(effected)
    /\ \A e \in effected : row[e] \in Accepted /\ Cursor[e] <= authority.cursor
    /\ \A e \in Events :
          row[e] = "applied" /\ ~InProgress(e) /\ e \notin effected => e \in Ahead \/ ended > 0

\* The inductive invariant.
EventsInv == EventsTypeOK /\ DecisionsInv /\ WorkInv /\ EffectInv

-----------------------------------------------------------------------------
(***************************************************************************)
(* Type correctness.                                                       *)
(***************************************************************************)

DeliveryRecord == [pc : {"idle", "observed", "inserted", "lost"},
                   event : Events \cup {NoEvent}, decided : ProcessingStates]

\* An idle delivery has its type.
LEMMA NoDeliveryType == NoDelivery \in DeliveryRecord /\ NoDelivery.pc = "idle"
  BY DEF NoDelivery, DeliveryRecord, ProcessingStates

\* A delivery that ends leaves the others as they are.
LEMMA Ends ==
  ASSUME EventsTypeOK, NEW d \in Deliveries, delivery' = [delivery EXCEPT ![d] = NoDelivery]
  PROVE  /\ delivery' \in [Deliveries -> DeliveryRecord]
         /\ delivery'[d].pc = "idle"
         /\ \A c \in Deliveries \ {d} : delivery'[c] = delivery[c]
  BY NoDeliveryType DEF EventsTypeOK, DeliveryRecord

\* A delivery that goes on keeps its event and its decision, and leaves the
\* others as they are.
LEMMA GoesOn ==
  ASSUME EventsTypeOK, NEW d \in Deliveries, NEW pc \in {"inserted", "lost"},
         delivery' = [delivery EXCEPT ![d] = [delivery[d] EXCEPT !.pc = pc]]
  PROVE  /\ delivery' \in [Deliveries -> DeliveryRecord]
         /\ delivery'[d].pc = pc
         /\ delivery'[d].event = delivery[d].event /\ delivery'[d].decided = delivery[d].decided
         /\ \A c \in Deliveries \ {d} : delivery'[c] = delivery[c]
  BY DEF EventsTypeOK, DeliveryRecord

\* A delivery begins with a decision of its event.
LEMMA Begins ==
  ASSUME EventsTypeOK, NEW d \in Deliveries, NEW e \in Events, NEW skewed \in BOOLEAN,
         Observe(d, e, skewed)
  PROVE  /\ delivery' \in [Deliveries -> DeliveryRecord]
         /\ delivery'[d].pc = "observed" /\ delivery'[d].event = e
         /\ delivery'[d].decided \in Deciding
         /\ delivery'[d].decided = "applied_pending_reconciliation" => e \in Ahead
         /\ \A c \in Deliveries \ {d} : delivery'[c] = delivery[c]
  <1> DEFINE decided == IF e \in Foreign THEN "rejected"
                        ELSE IF Overtaken(e, authority.cursor) THEN "superseded"
                        ELSE IF skewed THEN "applied_pending_reconciliation"
                        ELSE "applied"
             begun == [pc |-> "observed", event |-> e, decided |-> decided]
  <1>1. delivery' = [delivery EXCEPT ![d] = begun]
    BY DEF Observe
  <1>2. decided \in Deciding /\ (decided = "applied_pending_reconciliation" => e \in Ahead)
    BY DEF Observe, Deciding
  <1> HIDE DEF decided
  <1>3. begun \in DeliveryRecord
    BY <1>2 DEF DeliveryRecord, Deciding, ProcessingStates
  <1> QED  BY <1>1, <1>2, <1>3 DEF EventsTypeOK, DeliveryRecord

-----------------------------------------------------------------------------
(***************************************************************************)
(* The steps.                                                              *)
(***************************************************************************)

\* A delivery that is decided touches no row and no effect.
LEMMA ObserveKeeps ==
  ASSUME EventsInv, NEW d \in Deliveries, NEW e \in Events, NEW skewed \in BOOLEAN,
         Observe(d, e, skewed)
  PROVE  EventsInv'
  <1>1. /\ delivery' \in [Deliveries -> DeliveryRecord]
        /\ delivery'[d].pc = "observed" /\ delivery'[d].event = e
        /\ delivery'[d].decided \in Deciding
        /\ delivery'[d].decided = "applied_pending_reconciliation" => e \in Ahead
        /\ \A c \in Deliveries \ {d} : delivery'[c] = delivery[c]
    BY Begins DEF EventsInv
  <1>2. UNCHANGED <<authority, row, effected, ended>> /\ delivery[d].pc = "idle"
    BY DEF Observe
  <1>3. EventsTypeOK'
    BY <1>1, <1>2 DEF EventsInv, EventsTypeOK, DeliveryRecord
  <1>4. DecisionsInv'
    BY <1>1, <1>2 DEF EventsInv, DecisionsInv
  <1>5. \A c \in Deliveries : Working(c)' => c # d /\ Working(c) /\ delivery'[c] = delivery[c]
    BY <1>1 DEF Working
  <1>6. WorkInv'
    BY <1>2, <1>5 DEF EventsInv, WorkInv
  <1>7. \A f \in Events : InProgress(f) => InProgress(f)'
    BY <1>1, <1>2 DEF InProgress
  <1>8. EffectInv'
    BY <1>2, <1>7 DEF EventsInv, EffectInv
  <1> QED  BY <1>3, <1>4, <1>6, <1>8 DEF EventsInv

\* The first insert of an event's row makes its delivery the only one at work
\* on it; another insert ends its delivery.
LEMMA ClaimKeeps ==
  ASSUME EventsInv, NEW d \in Deliveries, ClaimEvent(d)
  PROVE  EventsInv'
  <1> DEFINE e == delivery[d].event
             decided == delivery[d].decided
  <1>1. /\ delivery[d].pc = "observed" /\ e \in Events /\ decided \in Deciding
        /\ decided = "applied_pending_reconciliation" => e \in Ahead
        /\ UNCHANGED <<authority, effected, ended>>
        /\ row \in [Events -> ProcessingStates]
    BY DEF ClaimEvent, EventsInv, DecisionsInv, EventsTypeOK
  <1>2. ASSUME delivery' = [delivery EXCEPT ![d] = NoDelivery],
               \/ row' = row
               \/ row[e] = "none" /\ decided \notin Accepted /\ row' = [row EXCEPT ![e] = decided]
        PROVE  EventsInv'
    <2>1. /\ delivery' \in [Deliveries -> DeliveryRecord] /\ delivery'[d].pc = "idle"
          /\ \A c \in Deliveries \ {d} : delivery'[c] = delivery[c]
      BY <1>2, Ends DEF EventsInv
    <2>2. /\ row' \in [Events -> ProcessingStates]
          /\ \A f \in Events : row'[f] = row[f] \/ (row[f] = "none" /\ row'[f] \notin Accepted)
      <3>1. decided \in ProcessingStates
        BY <1>1 DEF Deciding, ProcessingStates
      <3>2. CASE row' = row
        BY <1>1, <3>2
      <3>3. CASE row[e] = "none" /\ decided \notin Accepted /\ row' = [row EXCEPT ![e] = decided]
        BY <1>1, <3>1, <3>3
      <3> QED  BY <1>2, <3>2, <3>3
    <2>3. EventsTypeOK'
      BY <1>1, <2>1, <2>2 DEF EventsInv, EventsTypeOK, DeliveryRecord
    <2>4. DecisionsInv'
      BY <1>1, <2>1, <2>2 DEF EventsInv, DecisionsInv, Accepted
    <2>5. \A c \in Deliveries : Working(c)' => c # d /\ Working(c) /\ delivery'[c] = delivery[c]
      BY <2>1 DEF Working
    <2>6. WorkInv'
      <3>1. \A c \in Deliveries : Working(c) => delivery[c].event \in Events
        BY DEF EventsInv, DecisionsInv, Working
      <3> QED  BY <1>1, <2>2, <2>5, <3>1 DEF EventsInv, WorkInv, Accepted
    <2>7. \A f \in Events : InProgress(f) => InProgress(f)'
      BY <1>1, <2>1 DEF InProgress
    <2>8. EffectInv'
      <3>1. effected \subseteq Events
        BY DEF EventsInv, EventsTypeOK
      <3> QED  BY <1>1, <2>2, <2>7, <3>1 DEF EventsInv, EffectInv, Accepted
    <2> QED  BY <2>3, <2>4, <2>6, <2>8 DEF EventsInv
  <1>3. ASSUME row[e] = "none", decided \in Accepted, row' = [row EXCEPT ![e] = decided],
               delivery' = [delivery EXCEPT ![d] = [delivery[d] EXCEPT !.pc = "inserted"]]
        PROVE  EventsInv'
    <2>1. /\ delivery' \in [Deliveries -> DeliveryRecord]
          /\ delivery'[d].pc = "inserted" /\ delivery'[d].event = e /\ delivery'[d].decided = decided
          /\ \A c \in Deliveries \ {d} : delivery'[c] = delivery[c]
      BY <1>3, GoesOn DEF EventsInv
    <2>2. /\ row' \in [Events -> ProcessingStates] /\ row'[e] = decided
          /\ \A f \in Events \ {e} : row'[f] = row[f]
      BY <1>1, <1>3 DEF Deciding, ProcessingStates
    <2>3. EventsTypeOK'
      BY <1>1, <2>1, <2>2 DEF EventsInv, EventsTypeOK, DeliveryRecord
    <2>4. DecisionsInv'
      BY <1>1, <2>1, <2>2 DEF EventsInv, DecisionsInv
    <2>5. \A c \in Deliveries \ {d} : Working(c)' => Working(c) /\ delivery[c].event \in Events \ {e}
      BY <1>3, <2>1 DEF EventsInv, DecisionsInv, WorkInv, Working, Accepted
    <2>6. e \notin effected
      BY <1>3 DEF EventsInv, EffectInv, Accepted
    <2>7. WorkInv'
      BY <1>1, <1>3, <2>1, <2>2, <2>5, <2>6 DEF EventsInv, WorkInv
    <2>8. \A f \in Events : InProgress(f) => InProgress(f)'
      BY <1>1, <2>1 DEF InProgress
    <2>9. ASSUME NEW f \in Events, f = e PROVE InProgress(f)'
      BY <2>1, <2>9 DEF InProgress
    <2>10. EffectInv'
      <3>1. effected \subseteq Events
        BY DEF EventsInv, EventsTypeOK
      <3>2. \A f \in effected' : row'[f] \in Accepted /\ Cursor[f] <= authority'.cursor
        BY <1>1, <2>2, <2>6, <3>1 DEF EventsInv, EffectInv
      <3>3. ASSUME NEW f \in Events, row'[f] = "applied" /\ ~InProgress(f)' /\ f \notin effected'
            PROVE  f \in Ahead \/ ended' > 0
        <4>1. f # e
          BY <2>9, <3>3
        <4>2. row[f] = "applied" /\ f \notin effected
          BY <1>1, <2>2, <3>3, <4>1
        <4>3. ~InProgress(f)
          BY <2>8, <3>3
        <4> QED  BY <1>1, <4>2, <4>3 DEF EventsInv, EffectInv
      <3> QED  BY <1>1, <3>2, <3>3 DEF EventsInv, EffectInv
    <2> QED  BY <2>3, <2>4, <2>7, <2>10 DEF EventsInv
  <1>4. CASE row[e] = "none" /\ decided \in {"rejected", "superseded"}
    BY <1>2, <1>4 DEF ClaimEvent, Accepted
  <1>5. CASE row[e] = "none" /\ decided \notin {"rejected", "superseded"}
    BY <1>1, <1>3, <1>5 DEF ClaimEvent, Deciding, Accepted
  <1>6. CASE row[e] # "none"
    BY <1>2, <1>6 DEF ClaimEvent
  <1> QED  BY <1>4, <1>5, <1>6

\* A bump is the first of its event, and leaves the watermark past its cursor.
LEMMA ApplyKeeps ==
  ASSUME EventsInv, NEW d \in Deliveries, ApplyEffect(d)
  PROVE  EventsInv'
  <1> DEFINE e == delivery[d].event
  <1>1. /\ Working(d) /\ e \in Events /\ row[e] \in Accepted /\ e \notin effected
        /\ delivery[d].pc = "inserted"
        /\ UNCHANGED <<row, ended>>
        /\ authority.cursor \in Nat /\ authority.epoch \in Nat /\ Cursor[e] \in Nat
        /\ effected \subseteq Events /\ \A f \in Events : Cursor[f] \in Nat
    BY EventsAssumption DEF ApplyEffect, EventsInv, DecisionsInv, WorkInv, EventsTypeOK, Working
  <1>2. CASE delivery' = [delivery EXCEPT ![d].pc = "lost"] /\ UNCHANGED <<authority, effected>>
    <2>1. /\ delivery' \in [Deliveries -> DeliveryRecord]
          /\ delivery'[d].pc = "lost" /\ delivery'[d].event = e
          /\ delivery'[d].decided = delivery[d].decided
          /\ \A c \in Deliveries \ {d} : delivery'[c] = delivery[c]
      BY <1>2, GoesOn DEF EventsInv
    <2>2. EventsTypeOK'
      BY <1>1, <1>2, <2>1 DEF EventsInv, EventsTypeOK, DeliveryRecord
    <2>3. DecisionsInv'
      BY <1>1, <2>1 DEF EventsInv, DecisionsInv
    <2>4. \A c \in Deliveries : Working(c)' => Working(c) /\ delivery'[c].event = delivery[c].event
      BY <1>1, <2>1 DEF Working
    <2>5. WorkInv'
      BY <1>1, <1>2, <2>4 DEF EventsInv, WorkInv
    <2>6. \A f \in Events : InProgress(f) => InProgress(f)'
      BY <1>1, <2>1 DEF InProgress
    <2>7. EffectInv'
      BY <1>1, <1>2, <2>6 DEF EventsInv, EffectInv
    <2> QED  BY <2>2, <2>3, <2>5, <2>7 DEF EventsInv
  <1>3. CASE Bump(d)
    <2>1. /\ delivery' \in [Deliveries -> DeliveryRecord] /\ delivery'[d].pc = "idle"
          /\ \A c \in Deliveries \ {d} : delivery'[c] = delivery[c]
      BY <1>3, Ends DEF EventsInv, Bump
    <2>2. /\ authority' \in [epoch : Nat, cursor : Nat]
          /\ authority'.epoch = authority.epoch + 1
          /\ authority'.cursor >= authority.cursor /\ authority'.cursor >= Cursor[e]
          /\ effected' = effected \cup {e}
      BY <1>1, <1>3 DEF Bump, Latest
    <2>3. EventsTypeOK'
      BY <1>1, <2>1, <2>2 DEF EventsInv, EventsTypeOK, DeliveryRecord
    <2>4. DecisionsInv'
      BY <1>1, <2>1 DEF EventsInv, DecisionsInv
    <2>5. \A c \in Deliveries : Working(c)' => c # d /\ Working(c) /\ delivery'[c] = delivery[c]
      BY <2>1 DEF Working
    <2>6. WorkInv'
      BY <1>1, <2>2, <2>5 DEF EventsInv, WorkInv
    <2>7. IsFiniteSet(effected') /\ Cardinality(effected') = Cardinality(effected) + 1
      BY <1>1, <2>2, FS_AddElement DEF EventsInv, EffectInv
    <2>8. authority'.epoch = 1 + Cardinality(effected')
      BY <2>2, <2>7, FS_CardinalityType DEF EventsInv, EffectInv
    <2>9. \A f \in effected' : row'[f] \in Accepted /\ Cursor[f] <= authority'.cursor
      BY <1>1, <2>2 DEF EventsInv, EffectInv, EventsTypeOK
    <2>10. \A f \in Events : InProgress(f) => InProgress(f)' \/ f = e
      BY <2>1 DEF InProgress
    <2>11. EffectInv'
      BY <1>1, <2>2, <2>7, <2>8, <2>9, <2>10 DEF EventsInv, EffectInv
    <2> QED  BY <2>3, <2>4, <2>6, <2>11 DEF EventsInv
  <1> QED  BY <1>2, <1>3 DEF ApplyEffect

\* The correction names an event without effect, and ends its delivery.
LEMMA CorrectKeeps ==
  ASSUME EventsInv, NEW d \in Deliveries, CorrectRow(d)
  PROVE  EventsInv'
  <1> DEFINE e == delivery[d].event
  <1>1. /\ Working(d) /\ e \in Events /\ e \notin effected
        /\ UNCHANGED <<authority, effected, ended>>
        /\ row \in [Events -> ProcessingStates] /\ effected \subseteq Events
        /\ row' = IF row[e] = "applied" THEN [row EXCEPT ![e] = "superseded"] ELSE row
    BY DEF CorrectRow, EventsInv, DecisionsInv, WorkInv, EventsTypeOK, Working
  <1>2. /\ delivery' \in [Deliveries -> DeliveryRecord] /\ delivery'[d].pc = "idle"
        /\ \A c \in Deliveries \ {d} : delivery'[c] = delivery[c]
    BY Ends DEF EventsInv, CorrectRow
  <1>3. /\ row' \in [Events -> ProcessingStates] /\ row'[e] # "applied"
        /\ \A f \in Events \ {e} : row'[f] = row[f]
        /\ row'[e] \in {row[e], "superseded"}
    BY <1>1 DEF ProcessingStates
  <1>4. EventsTypeOK'
    BY <1>1, <1>2, <1>3 DEF EventsInv, EventsTypeOK, DeliveryRecord
  <1>5. DecisionsInv'
    BY <1>1, <1>2, <1>3 DEF EventsInv, DecisionsInv
  <1>6. \A c \in Deliveries : Working(c)' =>
           /\ c # d /\ Working(c) /\ delivery'[c] = delivery[c]
           /\ delivery[c].event \in Events \ {e}
    BY <1>1, <1>2 DEF Working, EventsInv, WorkInv, DecisionsInv
  <1>7. WorkInv'
    BY <1>1, <1>3, <1>6 DEF EventsInv, WorkInv
  <1>8. \A f \in Events : InProgress(f) => InProgress(f)' \/ f = e
    BY <1>2 DEF InProgress
  <1>9. EffectInv'
    BY <1>1, <1>3, <1>8 DEF EventsInv, EffectInv
  <1> QED  BY <1>4, <1>5, <1>7, <1>9 DEF EventsInv

\* Reconciliation accepts what was quarantined.
LEMMA ReconcileKeeps ==
  ASSUME EventsInv, NEW e \in Events, ReconcileEvent(e)
  PROVE  EventsInv'
  <1>1. /\ row[e] = "applied_pending_reconciliation" /\ e \in Ahead
        /\ UNCHANGED <<authority, delivery, effected, ended>>
        /\ row' \in [Events -> ProcessingStates] /\ row'[e] = "applied"
        /\ \A f \in Events \ {e} : row'[f] = row[f]
        /\ effected \subseteq Events
    BY DEF ReconcileEvent, EventsInv, EventsTypeOK, DecisionsInv, ProcessingStates
  <1>2. \A f \in Events : row[f] \in Accepted => row'[f] \in Accepted
    BY <1>1 DEF Accepted
  <1>3. EventsTypeOK'
    BY <1>1 DEF EventsInv, EventsTypeOK
  <1>4. DecisionsInv'
    BY <1>1 DEF EventsInv, DecisionsInv
  <1>5. WorkInv'
    BY <1>1, <1>2 DEF EventsInv, WorkInv, DecisionsInv, Working
  <1>6. EffectInv'
    BY <1>1, <1>2 DEF EventsInv, EffectInv, InProgress
  <1> QED  BY <1>3, <1>4, <1>5, <1>6 DEF EventsInv

\* A delivery that ends early is counted.
LEMMA StopKeeps ==
  ASSUME EventsInv, NEW d \in Deliveries, DeliveryStops(d)
  PROVE  EventsInv'
  <1>1. /\ UNCHANGED <<authority, row, effected>> /\ ended' = ended + 1 /\ ended \in Nat
    BY DEF DeliveryStops, EventsInv, EventsTypeOK
  <1>2. /\ delivery' \in [Deliveries -> DeliveryRecord] /\ delivery'[d].pc = "idle"
        /\ \A c \in Deliveries \ {d} : delivery'[c] = delivery[c]
    BY Ends DEF EventsInv, DeliveryStops
  <1>3. EventsTypeOK'
    BY <1>1, <1>2 DEF EventsInv, EventsTypeOK, DeliveryRecord
  <1>4. DecisionsInv'
    BY <1>1, <1>2 DEF EventsInv, DecisionsInv
  <1>5. \A c \in Deliveries : Working(c)' => Working(c) /\ delivery'[c] = delivery[c]
    BY <1>2 DEF Working
  <1>6. WorkInv'
    BY <1>1, <1>5 DEF EventsInv, WorkInv
  <1>7. EffectInv'
    BY <1>1 DEF EventsInv, EffectInv
  <1> QED  BY <1>3, <1>4, <1>6, <1>7 DEF EventsInv

-----------------------------------------------------------------------------
(***************************************************************************)
(* The theorems.                                                           *)
(***************************************************************************)

\* The inductive invariant of the events.
THEOREM EventsInvariance == EventsSpec => []EventsInv
  <1>1. EventsInit => EventsInv
    <2> SUFFICES ASSUME EventsInit PROVE EventsInv
      OBVIOUS
    <2>1. EventsTypeOK
      BY NoDeliveryType, EventsAssumption DEF EventsInit, EventsTypeOK, ProcessingStates, DeliveryRecord
    <2>2. \A d \in Deliveries : delivery[d].pc = "idle"
      BY NoDeliveryType DEF EventsInit
    <2>3. EffectInv
      BY FS_EmptySet DEF EventsInit, EffectInv
    <2> QED  BY <2>1, <2>2, <2>3 DEF EventsInit, EventsInv, DecisionsInv, WorkInv, Working
  <1>2. EventsInv /\ [EventsStep]_eventVars => EventsInv'
    <2> SUFFICES ASSUME EventsInv, [EventsStep]_eventVars PROVE EventsInv'
      OBVIOUS
    <2>1. CASE UNCHANGED eventVars
      BY <2>1 DEF eventVars, EventsInv, EventsTypeOK, DecisionsInv, WorkInv, EffectInv, Working, InProgress
    <2> QED  BY <2>1, ObserveKeeps, ClaimKeeps, ApplyKeeps, CorrectKeeps, ReconcileKeeps, StopKeeps
             DEF EventsStep, DeliveryStep
  <1> QED  BY <1>1, <1>2, PTL DEF EventsSpec

\* Every variable of the events keeps its shape, for any numbers of events and
\* deliveries.
THEOREM EventsTypes == EventsSpec => []EventsTypeOK
  BY EventsInvariance, PTL DEF EventsInv

\* "Exactly one effect" (provider-events.ts): the epoch moves once for each
\* event that took effect, however often it is delivered and in whatever order,
\* and the rows tell which those are.
THEOREM RowsTell == EventsSpec => []RowsTellTheirEffect
  <1>1. EventsInv => RowsTellTheirEffect
    BY DEF EventsInv, EventsTypeOK, EffectInv, RowsTellTheirEffect, Accepted
  <1> QED  BY <1>1, EventsInvariance, PTL

\* Cursors take effect in order: no event's bump follows that of a later one
\* (applyProviderEffect), through any reordering of the deliveries.
THEOREM CursorsInOrder == EventsSpec => EffectsInCursorOrder
  <1> DEFINE InOrder == \A e \in effected' \ effected :
                           Cursor[e] # 0 => \A f \in effected : Cursor[f] < Cursor[e]
  <1>1. EventsInv /\ [EventsStep]_eventVars => [InOrder]_eventVars
    <2> SUFFICES ASSUME EventsInv, EventsStep PROVE InOrder
      OBVIOUS
    <2>1. ASSUME NEW d \in Deliveries, ApplyEffect(d) PROVE InOrder
      <3> DEFINE e == delivery[d].event
      <3>1. /\ e \in Events /\ effected \subseteq Events /\ authority.cursor \in Nat
            /\ \A f \in Events : Cursor[f] \in Nat
            /\ \A f \in effected : Cursor[f] <= authority.cursor
        BY <2>1, EventsAssumption DEF ApplyEffect, EventsInv, DecisionsInv, EventsTypeOK, EffectInv
      <3>2. effected' \ effected \subseteq {e} /\ (effected' # effected => ~Overtaken(e, authority.cursor))
        BY <2>1 DEF ApplyEffect, Bump
      <3> QED  BY <3>1, <3>2 DEF Overtaken
    <2>2. CASE UNCHANGED effected
      BY <2>2
    <2> QED  BY <2>1, <2>2
             DEF EventsStep, DeliveryStep, Observe, ClaimEvent, CorrectRow, ReconcileEvent, DeliveryStops
  <1> QED  BY <1>1, EventsInvariance, PTL DEF EventsSpec, EffectsInCursorOrder

-----------------------------------------------------------------------------
(***************************************************************************)
(* The two together.                                                       *)
(***************************************************************************)

\* The traffic with the provider is a behaviour of the outbox, and one of the
\* events: neither direction reads or writes a row of the other, so that each
\* theorem above holds of it.
THEOREM TrafficIsBoth == TrafficSpec => Spec /\ EventsSpec
  <1>1. TrafficInit => Init /\ EventsInit
    BY DEF TrafficInit
  <1>2. [TrafficStep]_trafficVars => [Next]_vars /\ [EventsStep]_eventVars
    BY DEF TrafficStep, OutboxAlone, EventsAlone, trafficVars
  <1> QED  BY <1>1, <1>2, PTL DEF TrafficSpec, Spec, EventsSpec

\* Every variable of the traffic keeps its shape.
THEOREM TrafficTypes == TrafficSpec => []TrafficTypeOK
  <1>1. TypeOK /\ EventsTypeOK => TrafficTypeOK
    BY DEF TrafficTypeOK
  <1> QED  BY <1>1, TrafficIsBoth, OutboxTypeCorrect, EventsTypes, PTL
=============================================================================
