-------------------------- MODULE BudgetWritesProofs --------------------------
(***************************************************************************)
(* Theorems of CreationProposals, and of the budget's writes together, for *)
(* every value of their constants.                                         *)
(*                                                                         *)
(* The argument: an open transaction remembers the lifecycle revision of   *)
(* the row it decided on, and every write of a row raises it, so that a    *)
(* commit that finds the revision it read finds the row it read; and an    *)
(* open create that nobody overtook still sees every proposal its key was  *)
(* used for.  The four components share no variable, so that their writes  *)
(* are a behaviour of each.                                                *)
(***************************************************************************)
EXTENDS MCBudgetWrites, RequestProofs, BudgetPlanProofs

ProposalRow ==
    [draft : Drafts \cup {Nobody}, revision : Nat, predecessor : Proposals \cup {Nobody},
     successor : Proposals \cup {Nobody}, status : {"none", "previewed", "invalidated", "confirmed"},
     generation : Nat, issuedAt : Nat, expiresAt : Nat, dependencies : DependencyRecord,
     key : Headers \cup {Nobody}, lifecycle : Nat]
Query == [kind : {"none", "create", "confirm"}, key : Headers \cup {Nobody}, draft : Drafts \cup {Nobody},
          proposal : Proposals \cup {Nobody}, acknowledged : BOOLEAN]
Phases == {"new", "arrived", "asked", "located", "prepared", "spent", "open", "committed", "answered"}
Answered == {"none", "issued", "confirmed", "key reused", "not found", "not current",
             "stale disclosure", "denied", "conflict", "lost"}
Call == [phase : Phases, query : Query, generation : Nat, seen : Nat, now : Nat,
         attempt : 1 .. Attempts, overtaken : BOOLEAN, answer : Answered,
         named : Proposals \cup {Nobody}]

\* What a client may have asked in a call that began: a create names a draft,
\* and a proposal it has seen or none; a confirmation names a proposal.
Asked(q) ==
    /\ q.kind \in {"create", "confirm"}
    /\ q.key \in Headers
    /\ q.kind = "create" => q.draft \in Drafts /\ q.proposal \in Issued \cup {Nobody}
    /\ q.kind = "confirm" => q.proposal \in Issued

\* An open call either still finds the row it decided on, or a later revision.
Decided(r) ==
    r.query.proposal # Nobody =>
        LET row == proposals[r.query.proposal]
        IN  /\ r.seen <= row.lifecycle
            /\ r.seen = row.lifecycle =>
                  IF r.query.kind = "create" THEN Replaceable(row) ELSE Undecided(row)

\* An open create that nobody overtook would be the first use of its key.
FirstUse(r) ==
    \A p \in Issued :
        proposals[p].key = r.query.key /\ proposals[p].generation = r.generation
        => r.now >= proposals[p].issuedAt + Retention

\* The proposal a call names is the one it asked for.
NamesIts(r) ==
    IF r.query.kind = "create"
    THEN /\ r.named \in Issued
         /\ proposals[r.named].key = r.query.key
         /\ proposals[r.named].draft = r.query.draft
         /\ proposals[r.named].predecessor = r.query.proposal
    ELSE r.named = r.query.proposal /\ [proposal |-> r.named, key |-> r.query.key] \in confirmations

\* Faultless, as one call stands.
Sound(r) ==
    /\ r.phase # "new" => Asked(r.query)
    /\ r.phase \in {"arrived", "asked", "located"} => r.query.kind = "confirm"
    /\ r.phase = "open" => Decided(r)
    /\ r.phase = "open" /\ r.query.kind = "create" /\ ~ r.overtaken => FirstUse(r)
    /\ r.phase # "answered" => r.answer = "none"
    /\ r.phase = "committed" \/ r.answer \in {"issued", "confirmed"} => NamesIts(r)
    /\ r.answer = "issued" => r.query.kind = "create"
    /\ r.answer = "confirmed" => r.query.kind = "confirm"

AllSound == \A c \in Submissions : Sound(submissions[c])

\* The rows name only rows.
RowsKnown ==
    /\ \A p \in Issued : proposals[p].predecessor \in Issued \cup {Nobody}
    /\ \A w \in confirmations : w.proposal \in Issued

FirstUses ==
    \A p, o \in Issued :
        /\ p # o
        /\ proposals[p].key = proposals[o].key /\ proposals[p].generation = proposals[o].generation
        => \/ proposals[p].issuedAt >= proposals[o].issuedAt + Retention
           \/ proposals[o].issuedAt >= proposals[p].issuedAt + Retention

WellFormed == CreationTypeOK /\ RowsKnown /\ AllSound
IInv == WellFormed /\ OneBudgetPerChain /\ FirstUses

-----------------------------------------------------------------------------
(***************************************************************************)
(* Type correctness.                                                       *)
(***************************************************************************)

LEMMA CreationByRecords ==
  CreationTypeOK <=> /\ proposals \in [Proposals -> ProposalRow]
                     /\ confirmations \subseteq [proposal : Proposals, key : Headers]
                     /\ submissions \in [Submissions -> Call]
                     /\ clock \in Nat /\ generation \in Nat /\ release \in Nat
  BY DEF CreationTypeOK, ProposalRow, Call, Query, Phases, Answered

LEMMA FreshCallType == NoCallYet \in Call
  BY CreationAssumption DEF NoCallYet, NoQuery, Call, Query, Phases, Answered

\* A call that has not begun is faultless.
LEMMA FreshSound == Sound(NoCallYet)
  BY DEF Sound, NoCallYet

-----------------------------------------------------------------------------
(***************************************************************************)
(* Steps of one call, which write no row.                                  *)
(***************************************************************************)

\* What a step leaves when it moves the call c to the record r only.
LEMMA SubmissionMoves ==
  ASSUME WellFormed, NEW c \in Submissions, NEW r \in Call, Sound(r),
         submissions' = [submissions EXCEPT ![c] = r],
         UNCHANGED <<proposals, confirmations, clock, generation, release>>
  PROVE  WellFormed'
  <1>1. /\ proposals \in [Proposals -> ProposalRow]
        /\ confirmations \subseteq [proposal : Proposals, key : Headers]
        /\ submissions \in [Submissions -> Call]
        /\ clock \in Nat /\ generation \in Nat /\ release \in Nat
    BY CreationByRecords DEF WellFormed
  <1>2. submissions' \in [Submissions -> Call]
    BY <1>1
  <1>3. CreationTypeOK'
    BY <1>1, <1>2 DEF CreationTypeOK, ProposalRow, Call, Query, Phases, Answered
  <1>4. \A d \in Submissions : submissions'[d] = r \/ submissions'[d] = submissions[d]
    BY <1>1
  <1>5. Issued' = Issued
    BY DEF Issued
  <1>6. \A x \in Call : Sound(x) => Sound(x)'
    BY <1>5 DEF Sound, Asked, Decided, FirstUse, NamesIts, Replaceable, Undecided
  <1>7. AllSound'
    BY <1>1, <1>2, <1>4, <1>6 DEF AllSound, WellFormed
  <1>8. RowsKnown'
    BY <1>5 DEF RowsKnown, WellFormed
  <1> QED  BY <1>3, <1>7, <1>8 DEF WellFormed

\* A call that began is answered with a refusal, or with what it asked for.
LEMMA Tells ==
  ASSUME WellFormed, NEW c \in Submissions, submissions[c].phase # "new",
         NEW kind \in Answered, NEW p \in Proposals \cup {Nobody},
         kind \in {"issued", "confirmed"} => NamesIts([submissions[c] EXCEPT !.named = p]),
         kind = "issued" => submissions[c].query.kind = "create",
         kind = "confirmed" => submissions[c].query.kind = "confirm",
         Tell(c, kind, p),
         UNCHANGED <<proposals, confirmations, clock, generation, release>>
  PROVE  WellFormed'
  <1> DEFINE r == [NoCallYet EXCEPT !.phase = "answered", !.query = submissions[c].query,
                                    !.answer = kind, !.named = p]
  <1>1. submissions[c] \in Call /\ submissions[c].query \in Query /\ Sound(submissions[c])
    BY CreationByRecords DEF WellFormed, AllSound, Call
  <1>2. r \in Call
    BY <1>1, FreshCallType DEF Call, Phases, NoCallYet
  <1>3. /\ r.phase = "answered" /\ r.query = submissions[c].query /\ r.answer = kind /\ r.named = p
    BY <1>2 DEF NoCallYet
  <1>4. submissions' = [submissions EXCEPT ![c] = r]
    BY DEF Tell
  <1>5. [submissions[c] EXCEPT !.named = p].query = submissions[c].query
        /\ [submissions[c] EXCEPT !.named = p].named = p
    BY <1>1 DEF Call
  <1> HIDE DEF r
  <1>6. Sound(r)
    BY <1>1, <1>3, <1>5 DEF Sound, NamesIts
  <1> QED  BY <1>2, <1>4, <1>6, SubmissionMoves

LEMMA Refuses ==
  ASSUME WellFormed, NEW c \in Submissions, submissions[c].phase # "new",
         NEW kind \in Answered \ {"issued", "confirmed"}, Refuse(c, kind),
         UNCHANGED <<proposals, confirmations, clock, generation, release>>
  PROVE  WellFormed'
  BY Tells DEF Refuse

LEMMA Proceeds ==
  ASSUME WellFormed, NEW c \in Submissions, NEW phase \in {"asked", "located", "prepared"},
         submissions[c].phase \in {"arrived", "asked", "located"}, Goes(c, phase),
         UNCHANGED <<proposals, confirmations, clock, generation, release>>
  PROVE  WellFormed'
  <1> DEFINE r == [submissions[c] EXCEPT !.phase = phase]
  <1>1. submissions[c] \in Call /\ Sound(submissions[c])
    BY CreationByRecords DEF WellFormed, AllSound
  <1>2. r \in Call /\ r.phase = phase /\ r.query = submissions[c].query /\ r.answer = submissions[c].answer
    BY <1>1 DEF Call, Phases
  <1>3. submissions' = [submissions EXCEPT ![c] = r]
    BY CreationByRecords DEF Goes, WellFormed
  <1> HIDE DEF r
  <1>4. Sound(r)
    BY <1>1, <1>2 DEF Sound
  <1> QED  BY <1>2, <1>3, <1>4, SubmissionMoves

\* A key that confirmed something answers a call or refuses it.
LEMMA Replays ==
  ASSUME WellFormed, NEW c \in Submissions, submissions[c].phase # "new",
         submissions[c].query.kind = "confirm",
         NEW w \in ConfirmedUnder(submissions[c].query), Replay(c, w),
         UNCHANGED <<proposals, confirmations, clock, generation, release>>
  PROVE  WellFormed'
  <1> DEFINE q == submissions[c].query
  <1>1. /\ w \in confirmations /\ w.key = q.key
        /\ w \in [proposal : Proposals, key : Headers]
        /\ submissions[c] \in Call
    BY CreationByRecords DEF WellFormed, ConfirmedUnder
  <1>2. CASE w.proposal = q.proposal /\ q.acknowledged
    <2>1. Tell(c, "confirmed", w.proposal)
      BY <1>2 DEF Replay
    <2>2. w = [proposal |-> w.proposal, key |-> q.key]
      BY <1>1
    <2>3. NamesIts([submissions[c] EXCEPT !.named = w.proposal])
      BY <1>1, <1>2, <2>2 DEF NamesIts, Call
    <2> QED  BY <1>1, <2>1, <2>3, Tells DEF Answered
  <1>3. CASE ~ (w.proposal = q.proposal /\ q.acknowledged)
    <2>1. Refuse(c, "key reused")
      BY <1>3 DEF Replay
    <2> QED  BY <2>1, Refuses DEF Answered
  <1> QED  BY <1>2, <1>3

\* The transaction of a call goes on with what it decided.
LEMMA Opened ==
  ASSUME WellFormed, NEW c \in Submissions, submissions[c].phase \in {"prepared", "spent"},
         NEW seen \in Nat, Opens(c, seen),
         Decided([query |-> submissions[c].query, seen |-> seen]),
         submissions[c].query.kind = "create" => IssuedUnder(c) = {},
         UNCHANGED <<proposals, confirmations, clock, generation, release>>
  PROVE  WellFormed'
  <1> DEFINE r == [submissions[c] EXCEPT !.phase = "open", !.now = clock, !.seen = seen, !.overtaken = FALSE]
  <1>1. /\ submissions[c] \in Call /\ Sound(submissions[c]) /\ clock \in Nat
        /\ proposals \in [Proposals -> ProposalRow]
    BY CreationByRecords DEF WellFormed, AllSound
  <1>2. /\ r \in Call /\ r.phase = "open" /\ r.query = submissions[c].query /\ r.seen = seen
        /\ r.now = clock /\ r.answer = submissions[c].answer /\ r.generation = submissions[c].generation
    BY <1>1 DEF Call, Phases
  <1>3. submissions' = [submissions EXCEPT ![c] = r]
    BY CreationByRecords DEF Opens, WellFormed
  <1> HIDE DEF r
  <1>4. Decided(r)
    BY <1>2 DEF Decided
  <1>5. ASSUME r.query.kind = "create"
        PROVE  FirstUse(r)
    <2> SUFFICES ASSUME NEW p \in Issued, proposals[p].key = r.query.key,
                        proposals[p].generation = r.generation
                 PROVE  r.now >= proposals[p].issuedAt + Retention
      BY DEF FirstUse
    <2>1. ~ (clock - proposals[p].issuedAt < Retention)
      BY <1>2, <1>5 DEF IssuedUnder
    <2>2. proposals[p].issuedAt \in Nat /\ Retention \in Nat
      BY <1>1, CreationAssumption DEF Issued, ProposalRow
    <2> QED  BY <1>1, <1>2, <2>1, <2>2
  <1>6. Sound(r)
    BY <1>1, <1>2, <1>4, <1>5 DEF Sound
  <1> QED  BY <1>2, <1>3, <1>6, SubmissionMoves

LEMMA SubmitPreserves ==
  ASSUME WellFormed, NEW c \in Submissions, NEW q \in Creates \cup Confirms, Submit(c, q)
  PROVE  WellFormed'
  <1> DEFINE r == [NoCallYet EXCEPT !.phase = IF q.kind = "create" THEN "prepared" ELSE "arrived",
                                    !.query = q, !.generation = generation,
                                    !.seen = IF q.kind = "create" /\ q.proposal # Nobody
                                             THEN proposals[q.proposal].lifecycle ELSE 0]
  <1>1. /\ proposals \in [Proposals -> ProposalRow] /\ generation \in Nat
        /\ submissions \in [Submissions -> Call]
    BY CreationByRecords DEF WellFormed
  <1>2. q \in Query /\ Asked(q) /\ q.kind \in {"create", "confirm"}
    BY DEF Creates, Confirms, Query, Asked, Issued
  <1>3. q.kind = "create" /\ q.proposal # Nobody => proposals[q.proposal].lifecycle \in Nat
    BY <1>1, <1>2 DEF Asked, Issued, ProposalRow
  <1>4. (IF q.kind = "create" /\ q.proposal # Nobody THEN proposals[q.proposal].lifecycle ELSE 0) \in Nat
    BY <1>3
  <1>5. /\ r.phase = (IF q.kind = "create" THEN "prepared" ELSE "arrived") /\ r.query = q /\ r.answer = "none"
    BY DEF NoCallYet
  <1>6. r \in Call
    BY <1>1, <1>2, <1>4, FreshCallType DEF NoCallYet, Call, Phases
  <1>7. submissions' = [submissions EXCEPT ![c] = r]
    BY DEF Submit
  <1> HIDE DEF r
  <1>8. Sound(r)
    BY <1>2, <1>5 DEF Sound
  <1> QED  BY <1>6, <1>7, <1>8, SubmissionMoves DEF Submit

LEMMA AskReplayPreserves ==
  ASSUME WellFormed, NEW c \in Submissions, AskReplay(c)
  PROVE  WellFormed'
  <1>3. submissions[c].phase = "arrived" /\ submissions[c].query.kind = "confirm"
    BY DEF AskReplay, WellFormed, AllSound, Sound
  <1>1. CASE ConfirmedUnder(submissions[c].query) # {}
    BY <1>1, <1>3, Replays DEF AskReplay
  <1>2. CASE ConfirmedUnder(submissions[c].query) = {}
    BY <1>2, <1>3, Proceeds DEF AskReplay
  <1> QED  BY <1>1, <1>2

LEMMA LocatePreserves ==
  ASSUME WellFormed, NEW c \in Submissions, Locate(c)
  PROVE  WellFormed'
  BY Proceeds, Refuses DEF Locate, Answered

LEMMA AuthorizePreserves ==
  ASSUME WellFormed, NEW c \in Submissions, Authorize(c)
  PROVE  WellFormed'
  BY Proceeds, Refuses DEF Authorize, Answered

LEMMA AttemptCreatePreserves ==
  ASSUME WellFormed, NEW c \in Submissions, submissions[c].phase \in {"prepared", "spent"},
         submissions[c].query.kind = "create", BeginCreate(c),
         UNCHANGED <<proposals, confirmations, clock, generation, release>>
  PROVE  WellFormed'
  <1> DEFINE q == submissions[c].query
             replaced == proposals[q.proposal]
             regenerates == q.proposal # Nobody
             seen == submissions[c].seen
  <1>1. /\ submissions[c] \in Call /\ Sound(submissions[c]) /\ seen \in Nat
        /\ proposals \in [Proposals -> ProposalRow]
    BY CreationByRecords DEF WellFormed, AllSound, Call
  <1>2. CASE \E kind \in Answered \ {"issued", "confirmed"} : Refuse(c, kind)
    BY <1>2, Refuses
  <1>3. CASE \E p \in IssuedUnder(c) : ReplayIssued(c, p)
    <2>1. PICK p \in IssuedUnder(c) : ReplayIssued(c, p)
      BY <1>3
    <2>2. p \in Issued /\ p \in Proposals /\ proposals[p].key = q.key
      BY DEF IssuedUnder, Issued
    <2>3. CASE Tell(c, "issued", p) /\ SameCommand(c, proposals[p])
      <3>1. NamesIts([submissions[c] EXCEPT !.named = p])
        BY <1>1, <2>2, <2>3 DEF NamesIts, SameCommand, Call
      <3> QED  BY <2>2, <2>3, <3>1, Tells DEF Answered
    <2>4. CASE Refuse(c, "key reused")
      BY <2>4, Refuses DEF Answered
    <2> QED  BY <2>1, <2>3, <2>4 DEF ReplayIssued
  <1>4. CASE /\ Opens(c, seen) /\ IssuedUnder(c) = {}
             /\ regenerates => replaced.lifecycle = seen /\ Replaceable(replaced)
    <2>1. Decided([query |-> q, seen |-> seen])
      BY <1>1, <1>4 DEF Decided
    <2> QED  BY <1>1, <1>4, <2>1, Opened
  <1> QED  BY <1>2, <1>3, <1>4 DEF BeginCreate, Answered

LEMMA AttemptConfirmPreserves ==
  ASSUME WellFormed, NEW c \in Submissions, submissions[c].phase \in {"prepared", "spent"},
         submissions[c].query.kind = "confirm", BeginConfirm(c),
         UNCHANGED <<proposals, confirmations, clock, generation, release>>
  PROVE  WellFormed'
  <1> DEFINE q == submissions[c].query
             row == proposals[q.proposal]
  <1>1. /\ submissions[c] \in Call /\ Sound(submissions[c])
        /\ proposals \in [Proposals -> ProposalRow]
    BY CreationByRecords DEF WellFormed, AllSound
  <1>2. q.proposal \in Issued /\ q.proposal \in Proposals /\ row \in ProposalRow /\ row.lifecycle \in Nat
    BY <1>1 DEF Sound, Asked, Issued, ProposalRow
  <1>3. CASE \E kind \in Answered \ {"issued", "confirmed"} : Refuse(c, kind)
    BY <1>3, Refuses
  <1>4. CASE \E w \in ConfirmedUnder(q) : Replay(c, w)
    BY <1>4, Replays
  <1>5. CASE Opens(c, row.lifecycle) /\ Undecided(row)
    <2>1. Decided([query |-> q, seen |-> row.lifecycle])
      BY <1>2, <1>5 DEF Decided
    <2> QED  BY <1>2, <1>5, <2>1, Opened
  <1> QED  BY <1>3, <1>4, <1>5 DEF BeginConfirm, Verified, Answered

LEMMA AttemptPreserves ==
  ASSUME WellFormed, NEW c \in Submissions, Attempt(c)
  PROVE  WellFormed'
  <1>1. submissions[c].query.kind \in {"create", "confirm"}
    BY DEF Attempt, WellFormed, AllSound, Sound, Asked
  <1> QED  BY <1>1, AttemptCreatePreserves, AttemptConfirmPreserves DEF Attempt

LEMMA RetryPreserves ==
  ASSUME WellFormed, NEW c \in Submissions, Retry(c)
  PROVE  WellFormed'
  <1> DEFINE q == submissions[c].query
  <1>1. /\ submissions[c] \in Call /\ Sound(submissions[c]) /\ submissions \in [Submissions -> Call]
        /\ submissions[c].phase \in {"prepared", "spent", "open"}
    BY CreationByRecords DEF WellFormed, AllSound, Retry
  <1>2. CASE /\ q.kind = "confirm"
             /\ \E w \in ConfirmedUnder(q) :
                   IF w.proposal = q.proposal THEN Tell(c, "confirmed", w.proposal) ELSE Refuse(c, "denied")
    <2>1. PICK w \in ConfirmedUnder(q) :
                   IF w.proposal = q.proposal THEN Tell(c, "confirmed", w.proposal) ELSE Refuse(c, "denied")
      BY <1>2
    <2>2. w \in confirmations /\ w.key = q.key /\ w \in [proposal : Proposals, key : Headers]
      BY CreationByRecords DEF WellFormed, ConfirmedUnder
    <2>3. CASE w.proposal = q.proposal /\ Tell(c, "confirmed", w.proposal)
      <3>1. w = [proposal |-> w.proposal, key |-> q.key]
        BY <2>2
      <3>2. NamesIts([submissions[c] EXCEPT !.named = w.proposal])
        BY <1>1, <1>2, <2>2, <2>3, <3>1 DEF NamesIts, Call
      <3> QED  BY <1>1, <1>2, <2>2, <2>3, <3>2, Tells DEF Answered, Retry
    <2>4. CASE Refuse(c, "denied")
      BY <1>1, <2>4, Refuses DEF Answered, Retry
    <2> QED  BY <2>1, <2>3, <2>4
  <1>3. CASE /\ submissions[c].attempt < Attempts
             /\ submissions' = [submissions EXCEPT ![c].phase = Again(c), ![c].attempt = @ + 1,
                                                     ![c].now = 0, ![c].overtaken = FALSE]
    <2> DEFINE r == [submissions[c] EXCEPT !.phase = Again(c), !.attempt = @ + 1, !.now = 0, !.overtaken = FALSE]
    <2>1. submissions[c].attempt + 1 \in 1 .. Attempts
      <3>1. submissions[c].attempt \in 1 .. Attempts /\ Attempts \in Nat
        BY <1>1, CreationAssumption DEF Call
      <3> QED  BY <1>3, <3>1
    <2>0. Again(c) \in {"prepared", "spent"}
      BY <1>1 DEF Again
    <2>2. r \in Call /\ r.phase \in {"prepared", "spent"} /\ r.query = q /\ r.answer = submissions[c].answer
      BY <1>1, <2>0, <2>1 DEF Call, Phases
    <2>3. submissions' = [submissions EXCEPT ![c] = r]
      BY <1>1, <1>3
    <2> HIDE DEF r
    <2>4. Sound(r)
      BY <1>1, <2>2 DEF Sound
    <2> QED  BY <2>2, <2>3, <2>4, SubmissionMoves DEF Retry
  <1>4. CASE Refuse(c, "conflict")
    BY <1>1, <1>4, Refuses DEF Answered, Retry
  <1> QED  BY <1>2, <1>3, <1>4 DEF Retry

LEMMA RespondPreserves ==
  ASSUME WellFormed, NEW c \in Submissions, Respond(c)
  PROVE  WellFormed'
  <1> DEFINE kind == IF submissions[c].query.kind = "create" THEN "issued" ELSE "confirmed"
  <1>1. /\ submissions[c] \in Call /\ Sound(submissions[c]) /\ submissions[c].phase = "committed"
    BY CreationByRecords DEF WellFormed, AllSound, Respond
  <1>2. NamesIts(submissions[c]) /\ submissions[c].query.kind \in {"create", "confirm"}
    BY <1>1 DEF Sound, Asked
  <1>3. /\ submissions[c].named \in Proposals \cup {Nobody}
        /\ [submissions[c] EXCEPT !.named = submissions[c].named] = submissions[c]
    BY <1>1 DEF Call
  <1>4. kind \in Answered
    BY DEF Answered
  <1> QED  BY <1>1, <1>2, <1>3, <1>4, Tells DEF Respond

-----------------------------------------------------------------------------
(***************************************************************************)
(* Steps around the calls.                                                 *)
(***************************************************************************)

\* What a step leaves that writes no row.
LEMMA RowsStay ==
  ASSUME WellFormed, UNCHANGED <<proposals, confirmations>>,
         clock' \in Nat, generation' \in Nat, release' \in Nat,
         submissions' \in [Submissions -> Call], \A d \in Submissions : Sound(submissions'[d])
  PROVE  WellFormed'
  <1>1. Issued' = Issued
    BY DEF Issued
  <1>2. CreationTypeOK'
    BY CreationByRecords DEF WellFormed, CreationTypeOK, ProposalRow, Call, Query, Phases, Answered
  <1>3. AllSound'
    BY ZenonT(40), <1>1 DEF AllSound, Sound, Asked, Decided, FirstUse, NamesIts, Replaceable, Undecided
  <1> QED  BY <1>1, <1>2, <1>3 DEF WellFormed, RowsKnown

LEMMA TickPreserves ==
  ASSUME WellFormed, Tick \/ RenewSession
  PROVE  WellFormed'
  BY CreationByRecords, RowsStay DEF Tick, RenewSession, WellFormed, AllSound

LEMMA DeployPreserves ==
  ASSUME WellFormed, Deploy
  PROVE  WellFormed'
  <1> DEFINE lost(q) == [NoCallYet EXCEPT !.phase = "answered", !.query = q, !.answer = "lost"]
  <1>1. /\ submissions \in [Submissions -> Call] /\ AllSound /\ release + 1 \in Nat
    BY CreationByRecords DEF WellFormed
  <1>2. \A c \in Submissions :
           submissions'[c] = IF c \notin InFlight THEN submissions[c] ELSE lost(submissions[c].query)
    BY DEF Deploy
  <1>3. \A q \in Query : /\ lost(q) \in Call
                         /\ lost(q).query = q /\ lost(q).phase = "answered" /\ lost(q).answer = "lost"
    BY FreshCallType DEF NoCallYet, Call, Phases, Answered
  <1> HIDE DEF lost
  <1>4. ASSUME NEW c \in Submissions
        PROVE  submissions'[c] \in Call /\ Sound(submissions'[c])
    <2>1. CASE c \notin InFlight
      BY <1>1, <1>2, <2>1 DEF AllSound
    <2>2. CASE c \in InFlight
      <3>1. submissions[c].query \in Query /\ Sound(submissions[c]) /\ submissions[c].phase # "new"
        BY <1>1, <2>2 DEF Call, AllSound, InFlight
      <3>2. Asked(submissions[c].query)
        BY <3>1 DEF Sound
      <3> QED  BY <1>2, <1>3, <2>2, <3>1, <3>2 DEF Sound
    <2> QED  BY <2>1, <2>2
  <1>5. submissions' \in [Submissions -> Call]
    BY <1>4 DEF Deploy
  <1> QED  BY <1>1, <1>4, <1>5, CreationByRecords, RowsStay DEF Deploy, WellFormed

-----------------------------------------------------------------------------
(***************************************************************************)
(* Steps that write rows.                                                  *)
(***************************************************************************)

\* A write keeps what a row was issued as, and raises its lifecycle revision.
RowsGrow ==
    /\ Issued \subseteq Issued'
    /\ confirmations \subseteq confirmations'
    /\ \A p \in Issued :
          /\ proposals'[p].key = proposals[p].key
          /\ proposals'[p].draft = proposals[p].draft
          /\ proposals'[p].predecessor = proposals[p].predecessor
          /\ proposals'[p].generation = proposals[p].generation
          /\ proposals'[p].issuedAt = proposals[p].issuedAt
          /\ proposals'[p].lifecycle >= proposals[p].lifecycle
          /\ proposals'[p].lifecycle = proposals[p].lifecycle => proposals'[p] = proposals[p]

\* A call remains faultless when rows are written: what it decided on is found
\* again, or found at a later revision.
LEMMA StillSound ==
  ASSUME CreationTypeOK, CreationTypeOK', RowsGrow, NEW r \in Call, Sound(r),
         Issued' = Issued \/ r.phase # "open" \/ r.overtaken
  PROVE  Sound(r)'
  <1>1. proposals \in [Proposals -> ProposalRow] /\ proposals' \in [Proposals -> ProposalRow]
    BY CreationByRecords DEF CreationTypeOK, ProposalRow
  <1>2. \A q : Asked(q) => Asked(q)'
    BY DEF Asked, RowsGrow
  <1>3. ASSUME Asked(r.query), Decided(r)
        PROVE  Decided(r)'
    <2> SUFFICES ASSUME r.query.proposal # Nobody
                 PROVE  LET row == proposals'[r.query.proposal]
                        IN  /\ r.seen <= row.lifecycle
                            /\ r.seen = row.lifecycle =>
                                  IF r.query.kind = "create" THEN Replaceable(row) ELSE Undecided(row)
      BY DEF Decided, Replaceable, Undecided
    <2> DEFINE p == r.query.proposal
    <2>1. p \in Issued /\ p \in Proposals
      BY <1>3 DEF Asked, Issued
    <2>2. proposals[p].lifecycle \in Nat /\ proposals'[p].lifecycle \in Nat /\ r.seen \in Nat
      BY <1>1, <2>1 DEF ProposalRow, Call
    <2>3. /\ r.seen <= proposals[p].lifecycle
          /\ r.seen = proposals[p].lifecycle =>
                IF r.query.kind = "create" THEN Replaceable(proposals[p]) ELSE Undecided(proposals[p])
      BY <1>3 DEF Decided
    <2>4. /\ proposals'[p].lifecycle >= proposals[p].lifecycle
          /\ proposals'[p].lifecycle = proposals[p].lifecycle => proposals'[p] = proposals[p]
      BY <2>1 DEF RowsGrow
    <2> QED  BY <2>2, <2>3, <2>4
  <1>4. ASSUME FirstUse(r), Issued' = Issued
        PROVE  FirstUse(r)'
    BY <1>4 DEF FirstUse, RowsGrow
  <1>5. ASSUME NamesIts(r)
        PROVE  NamesIts(r)'
    BY <1>5 DEF NamesIts, RowsGrow
  <1> QED  BY <1>2, <1>3, <1>4, <1>5 DEF Sound

LEMMA CommitType ==
  ASSUME submissions \in [Submissions -> Call], NEW c \in Submissions, NEW p \in Proposals, Commits(c, p)
  PROVE  submissions' \in [Submissions -> Call]
  <1>1. ASSUME NEW d \in Submissions
        PROVE  submissions'[d] \in Call
    <2>1. CASE d = c
      BY <2>1 DEF Commits, Call, Phases
    <2>2. CASE d # c
      BY <2>2 DEF Commits, Call
    <2> QED  BY <2>1, <2>2
  <1> QED  BY <1>1 DEF Commits

\* The calls after a commit are faultless when the committed one is.
LEMMA CommitKeepsCalls ==
  ASSUME WellFormed, CreationTypeOK', RowsGrow, NEW c \in Submissions, submissions[c].phase = "open",
         NEW p \in Proposals, Commits(c, p),
         NEW r \in Call, r = [submissions[c] EXCEPT !.phase = "committed", !.named = p], NamesIts(r)'
  PROVE  AllSound'
  <1>1. submissions \in [Submissions -> Call] /\ AllSound /\ CreationTypeOK
    BY CreationByRecords DEF WellFormed
  <1> SUFFICES ASSUME NEW d \in Submissions, NEW x, x = submissions'[d]
               PROVE  Sound(x)'
    BY DEF AllSound
  <1>2. PICK y \in Call : y = submissions[d] /\ Sound(y)
    BY <1>1 DEF AllSound
  <1>3. CASE d = c
    <2>1. x = r /\ r.phase = "committed" /\ r.query = y.query /\ r.answer = y.answer /\ y.phase = "open"
      BY <1>2, <1>3 DEF Commits, Call
    <2>2. Asked(y.query)' /\ y.answer = "none"
      BY <1>2, <2>1 DEF Sound, Asked, RowsGrow
    <2> QED  BY <2>1, <2>2 DEF Sound
  <1>4. CASE d # c /\ y.phase = "open"
    <2>1. x = [y EXCEPT !.overtaken = TRUE]
      BY <1>2, <1>4 DEF Commits
    <2>2. /\ x \in Call /\ x.overtaken /\ x.phase = "open" /\ x.query = y.query
          /\ x.answer = y.answer /\ x.seen = y.seen
      BY <1>2, <1>4, <2>1 DEF Call
    <2>3. Sound(x)
      BY <1>2, <1>4, <2>2 DEF Sound, Decided
    <2> QED  BY <1>1, <2>2, <2>3, StillSound
  <1>5. CASE d # c /\ y.phase # "open"
    <2>1. x = y
      BY <1>2, <1>5 DEF Commits
    <2> QED  BY <1>1, <1>2, <1>5, <2>1, StillSound
  <1> QED  BY <1>3, <1>4, <1>5

\* A call names no row it could not: an instant has a date and an expiry.
LEMMA ExpiryType ==
  ASSUME NEW t \in Nat
  PROVE  DateOf(t) \in Nat /\ ExpiryOf(t) \in Nat
  <1>1. /\ Day \in Nat /\ Day > 0 /\ TimeLimit \in Nat
    BY CreationAssumption
  <1>2. DateOf(t) \in Nat
    BY <1>1 DEF DateOf
  <1>3. \A x \in Nat : x * Day \in Nat
    BY <1>1
  <1> QED  BY <1>1, <1>2, <1>3 DEF ExpiryOf

\* A superseded row is what it was issued as, at the next lifecycle revision.
LEMMA SupersededRow ==
  ASSUME NEW x \in ProposalRow, NEW p \in Proposals
  PROVE  LET y == Superseded(x, p)
         IN  /\ y \in ProposalRow
             /\ y.key = x.key /\ y.draft = x.draft /\ y.predecessor = x.predecessor
             /\ y.generation = x.generation /\ y.issuedAt = x.issuedAt /\ y.revision = x.revision
             /\ y.lifecycle = x.lifecycle + 1
             /\ y.successor = p /\ y.status = "invalidated"
  <1> DEFINE y == Superseded(x, p)
  <1>1. x.lifecycle \in Nat /\ x.lifecycle + 1 \in Nat
    BY DEF ProposalRow
  <1>2. y \in ProposalRow
    BY <1>1 DEF Superseded, ProposalRow
  <1>3. /\ y.key = x.key /\ y.draft = x.draft /\ y.predecessor = x.predecessor
        /\ y.generation = x.generation /\ y.issuedAt = x.issuedAt /\ y.revision = x.revision
    BY DEF Superseded, ProposalRow
  <1>4. /\ y.lifecycle = x.lifecycle + 1
        /\ y.successor = p /\ y.status = "invalidated"
    BY DEF Superseded, ProposalRow
  <1> QED  BY <1>2, <1>3, <1>4

\* What is known of a committing create and of the row it issues.
LEMMA IssueRows ==
  ASSUME WellFormed, NEW c \in Submissions, NEW p \in Proposals, Issue(c, p)
  PROVE  LET q == submissions[c].query
             row == proposals'[p]
         IN  /\ p \notin Issued /\ Issued' = Issued \cup {p}
             /\ q.kind = "create" /\ q.draft \in Drafts /\ q.key \in Headers
             /\ q.proposal \in Issued \cup {Nobody}
             /\ proposals' \in [Proposals -> ProposalRow]
             /\ row.draft = q.draft /\ row.predecessor = q.proposal /\ row.key = q.key
             /\ row.successor = Nobody /\ row.status = "previewed"
             /\ row.generation = submissions[c].generation /\ row.issuedAt = submissions[c].now
             /\ q.proposal # Nobody =>
                   /\ Replaceable(proposals[q.proposal])
                   /\ proposals'[q.proposal] = Superseded(proposals[q.proposal], p)
                   /\ row.revision = proposals[q.proposal].revision + 1
             /\ \A o \in Proposals \ {p, q.proposal} : proposals'[o] = proposals[o]
  <1> DEFINE q == submissions[c].query
             row == proposals'[p]
             replaced == proposals[q.proposal]
  <1>1. /\ proposals \in [Proposals -> ProposalRow] /\ release \in Nat
        /\ submissions[c] \in Call /\ Sound(submissions[c])
    BY CreationByRecords DEF WellFormed, AllSound
  <1>2. submissions[c].phase = "open" /\ q.kind = "create" /\ p \notin Issued
    BY DEF Issue
  <1>3. /\ q.draft \in Drafts /\ q.key \in Headers /\ q.proposal \in Issued \cup {Nobody}
        /\ Decided(submissions[c])
    BY <1>1, <1>2 DEF Sound, Asked
  <1>4. ASSUME q.proposal # Nobody
        PROVE  /\ q.proposal \in Proposals /\ q.proposal # p /\ replaced \in ProposalRow
               /\ replaced.status # "none" /\ Replaceable(replaced)
    <2>1. q.proposal \in Issued /\ q.proposal \in Proposals /\ q.proposal # p
      BY <1>2, <1>3, <1>4 DEF Issued
    <2>2. replaced.lifecycle = submissions[c].seen
      BY <1>4 DEF Issue
    <2>3. Replaceable(replaced)
      BY <1>2, <1>3, <1>4, <2>2 DEF Decided
    <2> QED  BY <1>1, <2>1, <2>3 DEF Issued
  <1>5. row = IssuedRow(c)
    BY DEF Issue
  <1>6. /\ submissions[c].now \in Nat /\ submissions[c].generation \in Nat
        /\ q.proposal # Nobody => replaced.revision + 1 \in Nat
    BY <1>1, <1>4 DEF Call, ProposalRow
  <1>7. /\ row \in ProposalRow
        /\ row.draft = q.draft /\ row.predecessor = q.proposal /\ row.key = q.key
        /\ row.successor = Nobody /\ row.status = "previewed"
        /\ row.generation = submissions[c].generation /\ row.issuedAt = submissions[c].now
        /\ q.proposal # Nobody => row.revision = replaced.revision + 1
    <2>1. Dependencies(q.draft, submissions[c].generation, submissions[c].now) \in DependencyRecord
      BY <1>1, <1>3, <1>6, ExpiryType DEF Dependencies, DependencyRecord
    <2>2. q.proposal \in Proposals \cup {Nobody}
      BY <1>4
    <2> QED  BY <1>3, <1>5, <1>6, <2>1, <2>2, ExpiryType DEF IssuedRow, ProposalRow
  <1>8. \A o \in Proposals \ {p, q.proposal} : proposals'[o] = proposals[o]
    BY DEF Issue
  <1>9. q.proposal # Nobody => /\ proposals'[q.proposal] = Superseded(replaced, p)
                               /\ Superseded(replaced, p) \in ProposalRow
                               /\ Superseded(replaced, p).status = "invalidated"
    <2>1. q.proposal # Nobody => proposals'[q.proposal] = Superseded(replaced, p)
      BY <1>4 DEF Issue
    <2> QED  BY <1>4, <2>1, SupersededRow
  <1>10. proposals' \in [Proposals -> ProposalRow]
    <2>1. \A o \in Proposals : proposals'[o] \in ProposalRow
      BY <1>1, <1>7, <1>8, <1>9, CreationAssumption
    <2> QED  BY <2>1 DEF Issue
  <1>11. Issued' = Issued \cup {p}
    <2>1. \A o \in Proposals : o \in Issued' <=> o \in Issued \cup {p}
      BY <1>4, <1>7, <1>8, <1>9, CreationAssumption DEF Issued
    <2> QED  BY <2>1 DEF Issued
  <1> QED  BY <1>2, <1>3, <1>4, <1>7, <1>8, <1>9, <1>10, <1>11

LEMMA IssuePreserves ==
  ASSUME IInv, NEW c \in Submissions, NEW p \in Proposals, Issue(c, p)
  PROVE  IInv'
  <1> DEFINE q == submissions[c].query
             t == q.proposal
             row == proposals'[p]
  <1>1. /\ p \notin Issued /\ Issued' = Issued \cup {p}
        /\ q.kind = "create" /\ q.draft \in Drafts /\ q.key \in Headers
        /\ t \in Issued \cup {Nobody}
        /\ proposals' \in [Proposals -> ProposalRow]
        /\ row.draft = q.draft /\ row.predecessor = t /\ row.key = q.key
        /\ row.successor = Nobody /\ row.status = "previewed"
        /\ row.generation = submissions[c].generation /\ row.issuedAt = submissions[c].now
        /\ t # Nobody => /\ Replaceable(proposals[t])
                         /\ proposals'[t] = Superseded(proposals[t], p)
                         /\ row.revision = proposals[t].revision + 1
        /\ \A o \in Proposals \ {p, t} : proposals'[o] = proposals[o]
    BY IssueRows DEF IInv
  <1>2. /\ CreationTypeOK /\ OneBudgetPerChain /\ FirstUses /\ RowsKnown
        /\ proposals \in [Proposals -> ProposalRow]
        /\ submissions \in [Submissions -> Call] /\ Sound(submissions[c])
        /\ Issued \subseteq Proposals /\ Nobody \notin Proposals
    BY CreationByRecords, CreationAssumption DEF IInv, WellFormed, AllSound, Issued
  <1>3. /\ confirmations' = confirmations /\ clock' = clock /\ generation' = generation /\ release' = release
        /\ Commits(c, p) /\ submissions[c].phase = "open" /\ ~ submissions[c].overtaken
    BY DEF Issue, Isolated
  \* Of the rows there were, the target alone is another.
  <1>4. ASSUME NEW o \in Issued
        PROVE  /\ proposals'[o].key = proposals[o].key
               /\ proposals'[o].draft = proposals[o].draft
               /\ proposals'[o].predecessor = proposals[o].predecessor
               /\ proposals'[o].generation = proposals[o].generation
               /\ proposals'[o].issuedAt = proposals[o].issuedAt
               /\ proposals'[o].revision = proposals[o].revision
               /\ proposals'[o].lifecycle >= proposals[o].lifecycle
               /\ proposals'[o].lifecycle = proposals[o].lifecycle => proposals'[o] = proposals[o]
               /\ o # t => proposals'[o] = proposals[o]
               /\ o = t => proposals'[o].successor = p /\ proposals'[o].status = "invalidated"
    <2>1. o \in Proposals /\ o # p /\ proposals[o] \in ProposalRow /\ proposals[o].lifecycle \in Nat
      BY <1>1, <1>2 DEF ProposalRow
    <2>2. CASE o # t
      BY <1>1, <2>1, <2>2
    <2>3. CASE o = t
      <3>1. proposals'[o] = Superseded(proposals[o], p)
        BY <1>1, <1>2, <2>1, <2>3
      <3> QED  BY SMTT(30), <2>1, <2>3, <3>1, SupersededRow
    <2> QED  BY <2>2, <2>3
  <1>5. RowsGrow
    BY <1>1, <1>3, <1>4 DEF RowsGrow
  <1>6. RowsKnown'
    BY <1>1, <1>2, <1>3, <1>4 DEF RowsKnown
  <1>7. CreationTypeOK'
    <2>1. submissions' \in [Submissions -> Call]
      BY <1>2, <1>3, CommitType
    <2> QED  BY <1>1, <1>2, <1>3, <2>1 DEF CreationTypeOK, ProposalRow, Call, Query, Phases, Answered
  <1>8. AllSound'
    <2>1. PICK r \in Call : r = [submissions[c] EXCEPT !.phase = "committed", !.named = p]
      BY <1>2 DEF Call, Phases
    <2>2. r.query = q /\ r.named = p
      BY <1>2, <2>1 DEF Call
    <2>3. NamesIts(r)'
      BY <1>1, <2>2 DEF NamesIts
    <2> QED  BY <1>3, <1>5, <1>7, <2>1, <2>3, CommitKeepsCalls DEF IInv
  <1>9. FirstUses'
    <2>1. FirstUse(submissions[c])
      BY <1>1, <1>2, <1>3 DEF Sound
    <2> QED  BY <1>1, <1>2, <1>4, <2>1 DEF FirstUses, FirstUse
  <1>10. OneBudgetPerChain'
    <2>1. t \in Issued => /\ proposals[t].successor = Nobody
                          /\ proposals[t].status \in {"previewed", "invalidated"}
      BY <1>1, <1>2 DEF Replaceable
    <2>2. \A o \in Issued : proposals[o].predecessor # p /\ proposals[o].successor # p
      BY <1>1, <1>2 DEF RowsKnown, OneBudgetPerChain
    <2>3. ASSUME NEW a \in Issued', NEW s \in Issued'
          PROVE  proposals'[s].predecessor = a <=> proposals'[a].successor = s
      <3>1. CASE a \in Issued /\ s \in Issued
        BY <1>1, <1>2, <1>4, <2>1, <2>2, <3>1 DEF OneBudgetPerChain
      <3>2. CASE a \in Issued /\ s = p
        BY <1>1, <1>2, <1>4, <2>2, <3>2
      <3>3. CASE a = p
        BY <1>1, <1>2, <1>4, <2>2, <3>3
      <3> QED  BY <1>1, <3>1, <3>2, <3>3
    <2>4. ASSUME NEW a \in Issued'
          PROVE  /\ proposals'[a].successor # Nobody =>
                       /\ proposals'[a].successor \in Issued'
                       /\ proposals'[proposals'[a].successor].revision = proposals'[a].revision + 1
                       /\ proposals'[a].status = "invalidated"
                 /\ proposals'[a].status = "confirmed" <=> \E w \in confirmations' : w.proposal = a
      <3>1. CASE a = p
        BY <1>1, <1>2, <1>3, <3>1 DEF RowsKnown
      <3>2. CASE a \in Issued /\ a # t
        BY <1>1, <1>2, <1>3, <1>4, <3>2 DEF OneBudgetPerChain
      <3>3. CASE a \in Issued /\ a = t
        BY <1>1, <1>2, <1>3, <1>4, <2>1, <3>3 DEF OneBudgetPerChain
      <3> QED  BY <1>1, <3>1, <3>2, <3>3
    <2> QED  BY <1>2, <1>3, <2>3, <2>4 DEF OneBudgetPerChain
  <1> QED  BY <1>6, <1>7, <1>8, <1>9, <1>10 DEF IInv, WellFormed

\* A row that waits is confirmed or put aside as what it was issued as.
LEMMA ClosedRow ==
  ASSUME WellFormed, NEW t \in Issued, NEW status \in {"invalidated", "confirmed"},
         proposals' = [proposals EXCEPT ![t].status = status, ![t].lifecycle = @ + 1],
         confirmations \subseteq confirmations'
  PROVE  /\ Issued' = Issued /\ t \in Proposals /\ RowsGrow
         /\ proposals' \in [Proposals -> ProposalRow]
         /\ proposals'[t].status = status
         /\ \A o \in Issued :
               /\ o # t => proposals'[o] = proposals[o]
               /\ proposals'[o].predecessor = proposals[o].predecessor
               /\ proposals'[o].successor = proposals[o].successor
               /\ proposals'[o].revision = proposals[o].revision
  <1>1. proposals \in [Proposals -> ProposalRow] /\ t \in Proposals /\ proposals[t] \in ProposalRow
    BY CreationByRecords DEF WellFormed, Issued
  <1> DEFINE x == proposals[t]
             y == [x EXCEPT !.status = status, !.lifecycle = @ + 1]
  <1>2. x.lifecycle \in Nat /\ x.lifecycle + 1 \in Nat
    BY <1>1 DEF ProposalRow
  <1>3. y \in ProposalRow
    BY <1>1, <1>2 DEF ProposalRow
  <1>4. /\ y.key = x.key /\ y.draft = x.draft /\ y.predecessor = x.predecessor
        /\ y.generation = x.generation /\ y.issuedAt = x.issuedAt /\ y.revision = x.revision
        /\ y.successor = x.successor /\ y.lifecycle = x.lifecycle + 1 /\ y.status = status
    BY <1>1 DEF ProposalRow
  <1>5. proposals' = [proposals EXCEPT ![t] = y]
    BY <1>1
  <1> HIDE DEF y
  <1>6. proposals' \in [Proposals -> ProposalRow] /\ proposals'[t] = y
        /\ \A o \in Proposals : o # t => proposals'[o] = proposals[o]
    BY <1>1, <1>3, <1>5
  <1>7. Issued' = Issued
    <2>1. \A o \in Proposals : o \in Issued' <=> o \in Issued
      BY <1>1, <1>4, <1>6 DEF Issued
    <2> QED  BY <2>1 DEF Issued
  <1>8. \A o \in Issued : proposals[o].lifecycle \in Nat /\ o \in Proposals
    BY <1>1 DEF Issued, ProposalRow
  <1>9. RowsGrow
    BY <1>2, <1>4, <1>6, <1>7, <1>8 DEF RowsGrow
  <1> QED  BY <1>1, <1>4, <1>6, <1>7, <1>8, <1>9

LEMMA ConfirmPreserves ==
  ASSUME IInv, NEW c \in Submissions, Confirm(c)
  PROVE  IInv'
  <1> DEFINE q == submissions[c].query
             t == q.proposal
             v == [proposal |-> t, key |-> q.key]
  <1>1. /\ submissions \in [Submissions -> Call] /\ Sound(submissions[c])
        /\ CreationTypeOK /\ OneBudgetPerChain /\ FirstUses /\ RowsKnown /\ WellFormed
    BY CreationByRecords DEF IInv, WellFormed, AllSound
  <1>2. /\ submissions[c].phase = "open" /\ q.kind = "confirm" /\ Unconfirmed(q) /\ Commits(c, t)
        /\ proposals[t].lifecycle = submissions[c].seen
        /\ proposals' = [proposals EXCEPT ![t].status = "confirmed", ![t].lifecycle = @ + 1]
        /\ confirmations' = confirmations \cup {v}
        /\ clock' = clock /\ generation' = generation /\ release' = release
    BY DEF Confirm
  <1>3. t \in Issued /\ q.key \in Headers /\ Decided(submissions[c]) /\ t # Nobody /\ t \in Proposals
    BY <1>1, <1>2, CreationAssumption DEF Sound, Asked, Issued
  <1>4. Undecided(proposals[t])
    BY <1>2, <1>3 DEF Decided
  <1>5. /\ Issued' = Issued /\ RowsGrow /\ proposals' \in [Proposals -> ProposalRow]
        /\ proposals'[t].status = "confirmed"
        /\ \A o \in Issued :
              /\ o # t => proposals'[o] = proposals[o]
              /\ proposals'[o].predecessor = proposals[o].predecessor
              /\ proposals'[o].successor = proposals[o].successor
              /\ proposals'[o].revision = proposals[o].revision
    BY <1>1, <1>2, <1>3, ClosedRow
  <1>5a. /\ v.proposal = t /\ v.key = q.key /\ v \in [proposal : Proposals, key : Headers]
         /\ v \in confirmations' /\ \A w \in confirmations' : w = v \/ w \in confirmations
    BY <1>2, <1>3
  <1> HIDE DEF v
  <1>6. RowsKnown'
    <2>1. \A w \in confirmations' : w.proposal \in Issued'
      BY <1>1, <1>3, <1>5, <1>5a DEF RowsKnown
    <2>2. \A o \in Issued' : proposals'[o].predecessor \in Issued' \cup {Nobody}
      BY <1>1, <1>5 DEF RowsKnown
    <2> QED  BY <2>1, <2>2 DEF RowsKnown
  <1>7. CreationTypeOK'
    <2>1. submissions' \in [Submissions -> Call]
      BY <1>1, <1>2, <1>3, CommitType
    <2>2. confirmations' \subseteq [proposal : Proposals, key : Headers]
      BY <1>1, <1>5a DEF CreationTypeOK
    <2> QED  BY <1>1, <1>2, <1>5, <2>1, <2>2 DEF CreationTypeOK, ProposalRow, Call, Query, Phases, Answered
  <1>8. AllSound'
    <2>1. PICK r \in Call : r = [submissions[c] EXCEPT !.phase = "committed", !.named = t]
      BY <1>1, <1>3 DEF Call, Phases
    <2>2. r.query = q /\ r.named = t
      BY <1>1, <2>1 DEF Call
    <2>3. NamesIts(r)'
      BY <1>2, <1>5a, <2>2 DEF NamesIts, v
    <2> QED  BY <1>1, <1>2, <1>3, <1>5, <1>7, <2>1, <2>3, CommitKeepsCalls
  <1>9. FirstUses'
    BY <1>1, <1>5 DEF FirstUses, RowsGrow
  <1>10. OneBudgetPerChain'
    <2>1. \A p, s \in Issued : proposals'[s].predecessor = p <=> proposals'[p].successor = s
      BY <1>1, <1>5 DEF OneBudgetPerChain
    <2>2. \A w \in confirmations : w.proposal # t /\ w.key # q.key
      BY <1>2 DEF Unconfirmed
    <2>3. \A a, w \in confirmations' : a.proposal = w.proposal \/ a.key = w.key => a = w
      BY <1>1, <1>5a, <2>2 DEF OneBudgetPerChain
    <2>4. ASSUME NEW a \in Issued
          PROVE  /\ proposals'[a].successor # Nobody =>
                       /\ proposals'[a].successor \in Issued
                       /\ proposals'[proposals'[a].successor].revision = proposals'[a].revision + 1
                       /\ proposals'[a].status = "invalidated"
                 /\ proposals'[a].status = "confirmed" <=> \E w \in confirmations' : w.proposal = a
      <3>1. CASE a = t
        BY <1>4, <1>5, <1>5a, <3>1 DEF Undecided
      <3>2. CASE a # t
        <4>1. proposals'[a] = proposals[a] /\ ((\E w \in confirmations' : w.proposal = a)
                                              <=> \E w \in confirmations : w.proposal = a)
          BY <1>2, <1>5, <1>5a, <3>2
        <4>2. \A o \in Issued : proposals'[o].revision = proposals[o].revision
          BY <1>5
        <4> QED  BY <1>1, <4>1, <4>2 DEF OneBudgetPerChain
      <3> QED  BY <3>1, <3>2
    <2> QED  BY <1>5, <2>1, <2>3, <2>4 DEF OneBudgetPerChain
  <1> QED  BY <1>6, <1>7, <1>8, <1>9, <1>10 DEF IInv, WellFormed

LEMMA DiscardPreserves ==
  ASSUME IInv, NEW t \in Proposals, Discard(t)
  PROVE  IInv'
  <1>1. /\ submissions \in [Submissions -> Call] /\ AllSound
        /\ CreationTypeOK /\ OneBudgetPerChain /\ FirstUses /\ RowsKnown /\ WellFormed
    BY CreationByRecords DEF IInv, WellFormed
  <1>2. /\ t \in Issued /\ proposals[t].status = "previewed"
        /\ proposals' = [proposals EXCEPT ![t].status = "invalidated", ![t].lifecycle = @ + 1]
        /\ UNCHANGED <<confirmations, submissions, clock, generation, release>>
    BY DEF Discard, Issued
  <1>3. /\ Issued' = Issued /\ RowsGrow /\ proposals' \in [Proposals -> ProposalRow]
        /\ proposals'[t].status = "invalidated"
        /\ \A o \in Issued :
              /\ o # t => proposals'[o] = proposals[o]
              /\ proposals'[o].predecessor = proposals[o].predecessor
              /\ proposals'[o].successor = proposals[o].successor
              /\ proposals'[o].revision = proposals[o].revision
    BY <1>1, <1>2, ClosedRow
  <1>4. RowsKnown'
    BY <1>1, <1>2, <1>3 DEF RowsKnown
  <1>5. CreationTypeOK'
    BY <1>1, <1>2, <1>3 DEF CreationTypeOK, ProposalRow
  <1>6. AllSound'
    <2> SUFFICES ASSUME NEW d \in Submissions, NEW x, x = submissions'[d]
                 PROVE  Sound(x)'
      BY DEF AllSound
    <2>1. x \in Call /\ Sound(x)
      BY <1>1, <1>2 DEF AllSound
    <2> QED  BY <1>1, <1>3, <1>5, <2>1, StillSound
  <1>7. FirstUses'
    BY <1>1, <1>3 DEF FirstUses, RowsGrow
  <1>8. OneBudgetPerChain'
    <2>1. \A p, s \in Issued : proposals'[s].predecessor = p <=> proposals'[p].successor = s
      BY <1>1, <1>3 DEF OneBudgetPerChain
    <2>2. ASSUME NEW a \in Issued
          PROVE  /\ proposals'[a].successor # Nobody =>
                       /\ proposals'[a].successor \in Issued
                       /\ proposals'[proposals'[a].successor].revision = proposals'[a].revision + 1
                       /\ proposals'[a].status = "invalidated"
                 /\ proposals'[a].status = "confirmed" <=> \E w \in confirmations' : w.proposal = a
      <3>1. confirmations' = confirmations /\ \A o \in Issued : proposals'[o].revision = proposals[o].revision
        BY <1>2, <1>3
      <3>2. CASE a = t
        <4>1. proposals[t].successor = Nobody /\ ~ \E w \in confirmations : w.proposal = t
          BY <1>1, <1>2 DEF OneBudgetPerChain
        <4> QED  BY <1>2, <1>3, <3>1, <3>2, <4>1
      <3>3. CASE a # t
        <4>1. proposals'[a] = proposals[a]
          BY <1>3, <3>3
        <4> QED  BY <1>1, <3>1, <4>1 DEF OneBudgetPerChain
      <3> QED  BY <3>2, <3>3
    <2>3. confirmations' = confirmations /\ \A v, w \in confirmations : v.proposal = w.proposal \/ v.key = w.key => v = w
      BY <1>1, <1>2 DEF OneBudgetPerChain
    <2> QED  BY <1>3, <2>1, <2>2, <2>3 DEF OneBudgetPerChain
  <1> QED  BY <1>4, <1>5, <1>6, <1>7, <1>8 DEF IInv, WellFormed

-----------------------------------------------------------------------------
(***************************************************************************)
(* The theorems.                                                           *)
(***************************************************************************)

LEMMA InitInv == CreationInit => IInv
  <1> SUFFICES ASSUME CreationInit PROVE IInv
    OBVIOUS
  <1>1. Issued = {} /\ confirmations = {}
    BY DEF CreationInit, Issued, NoProposal
  <1>2. NoProposal \in ProposalRow
    BY DEF NoProposal, NoDependencies, ProposalRow, DependencyRecord
  <1>3. CreationTypeOK
    BY <1>2, FreshCallType, CreationByRecords DEF CreationInit
  <1>4. AllSound
    BY FreshSound DEF AllSound, CreationInit
  <1> QED  BY <1>1, <1>3, <1>4 DEF IInv, WellFormed, RowsKnown, OneBudgetPerChain, FirstUses

LEMMA StepInv == IInv /\ [CreationStep]_creationVars => IInv'
  <1> SUFFICES ASSUME IInv, [CreationStep]_creationVars
               PROVE  IInv'
    OBVIOUS
  <1>1. WellFormed
    BY DEF IInv
  \* A step that writes no row keeps the chains and the uses of the keys.
  <1>2. ASSUME WellFormed', UNCHANGED <<proposals, confirmations>>
        PROVE  IInv'
    BY <1>2 DEF IInv, OneBudgetPerChain, FirstUses, Issued
  <1>3. ASSUME NEW c \in Submissions, NEW q \in Creates \cup Confirms, Submit(c, q)
        PROVE  IInv'
    BY <1>1, <1>2, <1>3, SubmitPreserves DEF Submit
  <1>4. ASSUME NEW c \in Submissions, AskReplay(c)
        PROVE  IInv'
    BY <1>1, <1>2, <1>4, AskReplayPreserves DEF AskReplay
  <1>5. ASSUME NEW c \in Submissions, Locate(c)
        PROVE  IInv'
    BY <1>1, <1>2, <1>5, LocatePreserves DEF Locate
  <1>6. ASSUME NEW c \in Submissions, Authorize(c)
        PROVE  IInv'
    BY <1>1, <1>2, <1>6, AuthorizePreserves DEF Authorize
  <1>7. ASSUME NEW c \in Submissions, Attempt(c)
        PROVE  IInv'
    BY <1>1, <1>2, <1>7, AttemptPreserves DEF Attempt
  <1>8. ASSUME NEW c \in Submissions, Retry(c)
        PROVE  IInv'
    BY <1>1, <1>2, <1>8, RetryPreserves DEF Retry
  <1>9. ASSUME NEW c \in Submissions, Respond(c)
        PROVE  IInv'
    BY <1>1, <1>2, <1>9, RespondPreserves DEF Respond
  <1>10. CASE Tick \/ RenewSession
    BY <1>1, <1>2, <1>10, TickPreserves DEF Tick, RenewSession
  <1>11. CASE Deploy
    BY <1>1, <1>2, <1>11, DeployPreserves DEF Deploy
  <1>12. CASE UNCHANGED creationVars
    BY <1>1, <1>2, <1>12, CreationByRecords, RowsStay DEF creationVars, WellFormed, AllSound
  <1> QED  BY <1>3, <1>4, <1>5, <1>6, <1>7, <1>8, <1>9, <1>10, <1>11, <1>12,
              IssuePreserves, ConfirmPreserves, DiscardPreserves DEF CreationStep

LEMMA CreationInvariant == CreationSpec => []IInv
  BY InitInv, StepInv, PTL DEF CreationSpec

\* Every row, every confirmation and every call is well formed, whatever the
\* calls, the session and the release do: application.ts, proposal-store.ts.
THEOREM CreationTypes == CreationSpec => []CreationTypeOK
  <1>1. IInv => CreationTypeOK
    BY DEF IInv, WellFormed
  <1> QED  BY <1>1, CreationInvariant, PTL

\* Regenerating, discarding and confirming a draft's proposals in any order,
\* at once or not, leaves one chain with one confirmation at most, of its last:
\* the compare and set of proposal-store.ts and confirmation-store.ts.
THEOREM ChainKept == CreationSpec => []OneBudgetPerChain
  <1>1. IInv => OneBudgetPerChain
    BY DEF IInv
  <1> QED  BY <1>1, CreationInvariant, PTL

\* A retried create issues nothing a second time within the retention, and a
\* success names what was asked for: the idempotent reads of both stores.
THEOREM RetriesKept == CreationSpec => []RetriesAgree
  <1>1. IInv => RetriesAgree
    <2> SUFFICES ASSUME IInv PROVE RetriesAgree
      OBVIOUS
    <2>1. FirstUses /\ \A c \in Submissions : Sound(submissions[c])
      BY DEF IInv, WellFormed, AllSound
    <2>2. ASSUME NEW c \in Submissions
          PROVE  LET q == submissions[c].query
                     p == submissions[c].named
                 IN  /\ submissions[c].answer = "issued" =>
                           p \in Issued /\ proposals[p].key = q.key /\ SameCommand(c, proposals[p])
                     /\ submissions[c].answer = "confirmed" =>
                           p = q.proposal /\ [proposal |-> p, key |-> q.key] \in confirmations
      BY <2>1 DEF Sound, NamesIts, SameCommand
    <2> QED  BY <2>1, <2>2 DEF RetriesAgree, FirstUses
  <1> QED  BY <1>1, CreationInvariant, PTL

\* What a read tells of a proposal and what a confirmation verifies agree at
\* every instant, though only the second looks at the successor: application.ts
\* and creation-confirmation/index.ts.
THEOREM ReadsKept == CreationSpec => []ReadsTellConfirmable
  <1>1. IInv => ReadsTellConfirmable
    <2> SUFFICES ASSUME IInv, NEW p \in Issued
                 PROVE  Lifecycle(proposals[p], clock) = "previewed" <=> Verified(proposals[p], clock)
      BY DEF ReadsTellConfirmable
    <2>1. proposals[p].expiresAt \in Nat /\ clock \in Nat
      BY CreationByRecords DEF IInv, WellFormed, Issued, ProposalRow
    <2>2. proposals[p].status = "previewed" => proposals[p].successor = Nobody
      BY DEF IInv, OneBudgetPerChain
    <2> QED  BY <2>1, <2>2 DEF Lifecycle, Verified, Undecided
  <1> QED  BY <1>1, CreationInvariant, PTL

-----------------------------------------------------------------------------
(***************************************************************************)
(* The writes together.                                                    *)
(***************************************************************************)

\* The writes of a budget are a behaviour of its proposals, of its ledger, of
\* the counter and of its plan: what is proved of each of them, in this module,
\* in RequestProofs and in BudgetPlanProofs, holds of the writes.
THEOREM WritesAreAll == Spec => CreationSpec /\ LedgerSpec /\ LimitSpec /\ PlanSpec
  <1>1. Init => CreationInit /\ LedgerInit /\ LimitInit /\ PlanInit
    BY DEF Init
  <1>2. [Next]_writeVars => /\ [CreationStep]_creationVars /\ [LedgerStep]_ledgerVars
                            /\ [LimitStep]_limitVars /\ [PlanStep]_planVars
    BY DEF Next, writeVars
  <1> QED  BY <1>1, <1>2, PTL DEF Spec, CreationSpec, LedgerSpec, LimitSpec, PlanSpec

\* Every variable of the writes keeps its shape.
THEOREM WritesTypes == Spec => []TypeOK
  <1>1. CreationTypeOK /\ LedgerTypeOK /\ LimitTypeOK /\ PlanTypeOK => TypeOK
    BY DEF TypeOK
  <1> QED  BY <1>1, WritesAreAll, CreationTypes, LedgerTypes, LimitTypes, PlanTypes, PTL
=============================================================================
