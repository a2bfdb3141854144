--------------------------- MODULE CreationProposals ---------------------------
(***************************************************************************)
(* How a budget space comes to be: a person's draft is previewed as a      *)
(* proposal, regenerated as a chain of proposals, and one proposal is      *)
(* confirmed into a space.                                                 *)
(*                                                                         *)
(* Everything here is of one person: every statement of the code names the *)
(* subject first.  A call reads, then runs its effect in a SERIALIZABLE    *)
(* transaction that is run again after a serialization failure.  The       *)
(* process may be replaced by another release at any time, and the calls   *)
(* under way are lost with it; whether they had committed, nobody is told. *)
(* The space, its founder and its consent are the row of a confirmation.   *)
(***************************************************************************)
EXTENDS Naturals, FiniteSets

CONSTANTS
    Submissions,    \* HTTP calls of the create and the confirm route
    Proposals,      \* identifiers of proposals
    Drafts,         \* validated and normalized inputs
    Headers,        \* idempotency keys
    Nobody,         \* no proposal, no draft, no key
    Day, TimeLimit, Retention,      \* in instants: a day, 30 minutes, 24 hours
    Attempts,       \* attempt budget of a transaction
    MaxClock, MaxGeneration, MaxRelease     \* bounds on the variables

ASSUME CreationAssumption ==
    /\ Nobody \notin Proposals \cup Drafts \cup Headers
    /\ {Day, TimeLimit, Retention, Attempts} \subseteq Nat \ {0}
    /\ {MaxClock, MaxGeneration, MaxRelease} \subseteq Nat

VARIABLES
    proposals,      \* proposal rows, with the key each was issued under
    confirmations,  \* idempotency rows of the confirmations, one for each space
    submissions,    \* where each call stands, and what it was answered
    clock,
    generation,     \* generation of the person's session
    release         \* what the running release fixes: catalog, calendar and time zone data

creationVars == <<proposals, confirmations, submissions, clock, generation, release>>

NoDependencies == [draft |-> Nobody, generation |-> 0, date |-> 0, release |-> 0]

NoProposal == [draft |-> Nobody, revision |-> 0, predecessor |-> Nobody, successor |-> Nobody,
               status |-> "none", generation |-> 0, issuedAt |-> 0, expiresAt |-> 0,
               dependencies |-> NoDependencies, key |-> Nobody, lifecycle |-> 0]

NoQuery == [kind |-> "none", key |-> Nobody, draft |-> Nobody, proposal |-> Nobody, acknowledged |-> FALSE]

NoCallYet == [phase |-> "new", query |-> NoQuery, generation |-> 0, seen |-> 0, now |-> 0,
              attempt |-> 1, overtaken |-> FALSE, answer |-> "none", named |-> Nobody]

CreationInit ==
    /\ proposals = [p \in Proposals |-> NoProposal]
    /\ confirmations = {}
    /\ submissions = [c \in Submissions |-> NoCallYet]
    /\ clock = 0
    /\ generation = 1
    /\ release = 1

Issued == {p \in Proposals : proposals[p].status # "none"}
InFlight == {c \in Submissions : submissions[c].phase \notin {"new", "answered"}}

Creates == [kind : {"create"}, key : Headers, draft : Drafts, proposal : Issued \cup {Nobody},
            acknowledged : {FALSE}]
Confirms == [kind : {"confirm"}, key : Headers, draft : {Nobody}, proposal : Issued,
             acknowledged : BOOLEAN]

DateOf(t) == t \div Day

\* Thirty minutes, or the next midnight where the budget is kept.
ExpiryOf(t) ==
    LET midnight == (DateOf(t) + 1) * Day
    IN  IF midnight <= t + TimeLimit THEN midnight ELSE t + TimeLimit

\* All that a preview's result depends on.
Dependencies(draft, g, t) == [draft |-> draft, generation |-> g, date |-> DateOf(t), release |-> release]

-----------------------------------------------------------------------------
(* What may be done to a proposal.                                         *)

\* Still the one proposal of its draft that waits for a decision.
Undecided(row) == row.status = "previewed" /\ row.successor = Nobody

\* What a confirmation verifies at the instant t.
Verified(row, t) ==
    /\ Undecided(row)
    /\ t < row.expiresAt
    /\ row.dependencies = Dependencies(row.draft, row.generation, t)

\* Faulty: a proposal is readable as previewed at the instant it expires.
LifecycleAfterExpiry(row, t) ==
    IF row.status # "previewed" THEN row.status
    ELSE IF t > row.expiresAt THEN "expired"
    ELSE IF row.dependencies # Dependencies(row.draft, row.generation, t) THEN "invalidated"
    ELSE "previewed"

\* What reading the proposal at the instant t tells of it.
Lifecycle(row, t) ==
    IF row.status # "previewed" THEN row.status
    ELSE IF t >= row.expiresAt THEN "expired"
    ELSE IF row.dependencies # Dependencies(row.draft, row.generation, t) THEN "invalidated"
    ELSE "previewed"

\* Faulty: whatever became of the proposal, its draft may be regenerated.
ReplaceableAnyway(row) == row.successor = Nobody

\* A new proposal may take its place: it waits, or was put aside unconfirmed.
Replaceable(row) == row.successor = Nobody /\ row.status \in {"previewed", "invalidated"}

-----------------------------------------------------------------------------
(* The steps of a call.                                                    *)

Tell(c, kind, p) ==
    submissions' = [submissions EXCEPT ![c] =
        [NoCallYet EXCEPT !.phase = "answered", !.query = submissions[c].query, !.answer = kind, !.named = p]]
Refuse(c, kind) == Tell(c, kind, Nobody)

Goes(c, phase) == submissions' = [submissions EXCEPT ![c].phase = phase]

ConfirmedUnder(q) == {w \in confirmations : w.key = q.key}

\* A key that confirmed something answers that, to the request it confirmed.
Replay(c, w) ==
    IF w.proposal = submissions[c].query.proposal /\ submissions[c].query.acknowledged
    THEN Tell(c, "confirmed", w.proposal) ELSE Refuse(c, "key reused")

\* The call is authorized.  A target is captured with its lifecycle revision.
Submit(c, q) ==
    /\ submissions[c].phase = "new"
    /\ submissions' = [submissions EXCEPT ![c] =
          [NoCallYet EXCEPT !.phase = IF q.kind = "create" THEN "prepared" ELSE "arrived",
                            !.query = q, !.generation = generation,
                            !.seen = IF q.kind = "create" /\ q.proposal # Nobody
                                     THEN proposals[q.proposal].lifecycle ELSE 0]]
    /\ UNCHANGED <<proposals, confirmations, clock, generation, release>>

\* The confirm route first asks what its key already confirmed, and then, in
\* another read, where the proposal stands.
AskReplay(c) ==
    /\ submissions[c].phase = "arrived"
    /\ IF ConfirmedUnder(submissions[c].query) # {}
       THEN \E w \in ConfirmedUnder(submissions[c].query) : Replay(c, w)
       ELSE Goes(c, "asked")
    /\ UNCHANGED <<proposals, confirmations, clock, generation, release>>

Locate(c) ==
    LET row == proposals[submissions[c].query.proposal] IN
    /\ submissions[c].phase = "asked"
    /\ IF row.generation # submissions[c].generation THEN Refuse(c, "not found")
       ELSE IF ~ Undecided(row) THEN Refuse(c, "not current")
       ELSE Goes(c, "located")
    /\ UNCHANGED <<proposals, confirmations, clock, generation, release>>

\* The policy admits no confirmation whose space is already there.
Authorize(c) ==
    /\ submissions[c].phase = "located"
    /\ IF \E w \in confirmations : w.proposal = submissions[c].query.proposal THEN Refuse(c, "denied")
       ELSE Goes(c, "prepared")
    /\ UNCHANGED <<proposals, confirmations, clock, generation, release>>

\* The reads of the transaction found nothing against the effect.
Opens(c, seen) ==
    submissions' = [submissions EXCEPT ![c] = [@ EXCEPT !.phase = "open", !.now = clock, !.seen = seen,
                                                  !.overtaken = FALSE]]

\* The proposals of this session that the key was used for lately.
IssuedUnder(c) ==
    {p \in Issued : /\ proposals[p].key = submissions[c].query.key
                    /\ proposals[p].generation = submissions[c].generation
                    /\ clock - proposals[p].issuedAt < Retention}

SameCommand(c, row) ==
    row.draft = submissions[c].query.draft /\ row.predecessor = submissions[c].query.proposal

\* A create whose key was used answers the proposal it issued, while that is
\* what a new one would be.
ReplayIssued(c, p) ==
    IF SameCommand(c, proposals[p])
       /\ proposals[p].status = "previewed" /\ clock < proposals[p].expiresAt
       /\ proposals[p].dependencies = Dependencies(submissions[c].query.draft, submissions[c].generation, clock)
    THEN Tell(c, "issued", p) ELSE Refuse(c, "key reused")

BeginCreate(c) ==
    LET q == submissions[c].query
        target == proposals[q.proposal]
        regenerates == q.proposal # Nobody
    IN  IF generation # submissions[c].generation THEN Refuse(c, "denied")
        ELSE IF regenerates /\ target.lifecycle # submissions[c].seen THEN Refuse(c, "denied")
        ELSE IF regenerates /\ target.generation # generation THEN Refuse(c, "not found")
        ELSE IF IssuedUnder(c) # {} THEN \E p \in IssuedUnder(c) : ReplayIssued(c, p)
        ELSE IF regenerates /\ ~ Replaceable(target) THEN Refuse(c, "not found")
        ELSE Opens(c, submissions[c].seen)

\* The handler of a confirmation takes what the route resolved, once: run
\* again after it had been entered, it has nothing to confirm.
BeginConfirm(c) ==
    LET q == submissions[c].query
        row == proposals[q.proposal]
    IN  IF generation # submissions[c].generation THEN Refuse(c, "denied")
        ELSE IF ConfirmedUnder(q) # {} THEN \E w \in ConfirmedUnder(q) : Replay(c, w)
        ELSE IF row.generation # generation THEN Refuse(c, "not found")
        ELSE IF submissions[c].phase = "spent"
             THEN Refuse(c, IF Undecided(row) THEN "denied" ELSE "not current")
        ELSE IF ~ Verified(row, clock) THEN Refuse(c, "not current")
        ELSE IF ~ q.acknowledged THEN Refuse(c, "stale disclosure")
        ELSE Opens(c, row.lifecycle)

\* An attempt begins: its transaction reads, and decides.
Attempt(c) ==
    /\ submissions[c].phase \in {"prepared", "spent"}
    /\ IF submissions[c].query.kind = "create" THEN BeginCreate(c) ELSE BeginConfirm(c)
    /\ UNCHANGED <<proposals, confirmations, clock, generation, release>>

\* Faulty: the transaction is not isolated from those that overlap it.
IsolatedNever(c) == TRUE

\* Every transaction reads all rows of the person before it writes one: of
\* two that overlap the second to commit is not serializable with the first.
Isolated(c) == ~ submissions[c].overtaken

\* The transaction commits, and overtakes those still open.
Commits(c, p) ==
    submissions' = [d \in Submissions |->
        IF d = c THEN [submissions[c] EXCEPT !.phase = "committed", !.named = p]
        ELSE IF submissions[d].phase = "open" THEN [submissions[d] EXCEPT !.overtaken = TRUE]
        ELSE submissions[d]]

IssuedRow(c) ==
    LET q == submissions[c].query
        t == submissions[c].now
    IN  [draft |-> q.draft, predecessor |-> q.proposal, successor |-> Nobody,
         revision |-> IF q.proposal = Nobody THEN 1 ELSE proposals[q.proposal].revision + 1,
         status |-> "previewed", generation |-> submissions[c].generation,
         issuedAt |-> t, expiresAt |-> ExpiryOf(t),
         dependencies |-> Dependencies(q.draft, submissions[c].generation, t),
         key |-> q.key, lifecycle |-> 1]

Superseded(row, p) ==
    [row EXCEPT !.successor = p, !.status = "invalidated", !.lifecycle = @ + 1]

\* A create commits the proposal p, and its predecessor's supersession if the
\* row is still the one that was read.
Issue(c, p) ==
    LET q == submissions[c].query IN
    /\ submissions[c].phase = "open"
    /\ q.kind = "create"
    /\ Isolated(c)
    /\ p \in Proposals \ Issued
    /\ q.proposal # Nobody => proposals[q.proposal].lifecycle = submissions[c].seen
    /\ proposals' = [o \in Proposals |->
          IF o = p THEN IssuedRow(c)
          ELSE IF o = q.proposal THEN Superseded(proposals[o], p) ELSE proposals[o]]
    /\ Commits(c, p)
    /\ UNCHANGED <<confirmations, clock, generation, release>>

\* The keys of the schema: an operation for each proposal, a row for each key.
Unconfirmed(q) == \A w \in confirmations : w.proposal # q.proposal /\ w.key # q.key

\* A confirmation commits the space, and all the rows that come with it.
Confirm(c) ==
    LET q == submissions[c].query IN
    /\ submissions[c].phase = "open"
    /\ q.kind = "confirm"
    /\ Isolated(c)
    /\ proposals[q.proposal].lifecycle = submissions[c].seen
    /\ Unconfirmed(q)
    /\ proposals' = [proposals EXCEPT ![q.proposal].status = "confirmed", ![q.proposal].lifecycle = @ + 1]
    /\ confirmations' = confirmations \cup {[proposal |-> q.proposal, key |-> q.key]}
    /\ Commits(c, q.proposal)
    /\ UNCHANGED <<clock, generation, release>>

\* Where an attempt that was rolled back is tried again from.
Again(c) ==
    IF submissions[c].phase = "open"
    THEN IF submissions[c].query.kind = "confirm" THEN "spent" ELSE "prepared"
    ELSE submissions[c].phase

\* The attempt is rolled back, at its reads or later.  A confirmation that had
\* reached its writes looks for what its key confirmed before it is tried again.
Retry(c) ==
    /\ submissions[c].phase \in {"prepared", "spent", "open"}
    /\ \/ /\ submissions[c].phase = "open" /\ submissions[c].query.kind = "confirm"
          /\ \E w \in ConfirmedUnder(submissions[c].query) :
                IF w.proposal = submissions[c].query.proposal
                THEN Tell(c, "confirmed", w.proposal) ELSE Refuse(c, "denied")
       \/ /\ submissions[c].attempt < Attempts
          /\ submissions' = [submissions EXCEPT ![c].phase = Again(c), ![c].attempt = @ + 1,
                                                  ![c].now = 0, ![c].overtaken = FALSE]
       \/ submissions[c].attempt = Attempts /\ Refuse(c, "conflict")
    /\ UNCHANGED <<proposals, confirmations, clock, generation, release>>

\* The answer of a committed call leaves.
Respond(c) ==
    /\ submissions[c].phase = "committed"
    /\ Tell(c, IF submissions[c].query.kind = "create" THEN "issued" ELSE "confirmed", submissions[c].named)
    /\ UNCHANGED <<proposals, confirmations, clock, generation, release>>

-----------------------------------------------------------------------------
(* What happens around the calls.                                          *)

\* A proposal that waits is put aside.
Discard(p) ==
    /\ proposals[p].status = "previewed"
    /\ proposals' = [proposals EXCEPT ![p].status = "invalidated", ![p].lifecycle = @ + 1]
    /\ UNCHANGED <<confirmations, submissions, clock, generation, release>>

Tick ==
    /\ clock < MaxClock
    /\ clock' = clock + 1
    /\ UNCHANGED <<proposals, confirmations, submissions, generation, release>>

\* The person's session is replaced.
RenewSession ==
    /\ generation < MaxGeneration
    /\ generation' = generation + 1
    /\ UNCHANGED <<proposals, confirmations, submissions, clock, release>>

\* Another release starts.  The calls under way get no answer.
Deploy ==
    /\ release < MaxRelease
    /\ release' = release + 1
    /\ submissions' = [c \in Submissions |->
          IF c \notin InFlight THEN submissions[c]
          ELSE [NoCallYet EXCEPT !.phase = "answered", !.query = submissions[c].query, !.answer = "lost"]]
    /\ UNCHANGED <<proposals, confirmations, clock, generation>>

CreationStep ==
    \/ \E c \in Submissions :
          \/ \E q \in Creates \cup Confirms : Submit(c, q)
          \/ AskReplay(c)
          \/ Locate(c)
          \/ Authorize(c)
          \/ Attempt(c)
          \/ \E p \in Proposals : Issue(c, p)
          \/ Confirm(c)
          \/ Retry(c)
          \/ Respond(c)
    \/ \E p \in Proposals : Discard(p)
    \/ Tick
    \/ RenewSession
    \/ Deploy

CreationSpec == CreationInit /\ [][CreationStep]_creationVars

-----------------------------------------------------------------------------
(* Properties.                                                             *)

DependencyRecord == [draft : Drafts \cup {Nobody}, generation : Nat, date : Nat, release : Nat]

CreationTypeOK ==
    /\ proposals \in [Proposals ->
          [draft : Drafts \cup {Nobody}, revision : Nat, predecessor : Proposals \cup {Nobody},
           successor : Proposals \cup {Nobody}, status : {"none", "previewed", "invalidated", "confirmed"},
           generation : Nat, issuedAt : Nat, expiresAt : Nat, dependencies : DependencyRecord,
           key : Headers \cup {Nobody}, lifecycle : Nat]]
    /\ confirmations \subseteq [proposal : Proposals, key : Headers]
    /\ submissions \in [Submissions ->
          [phase : {"new", "arrived", "asked", "located", "prepared", "spent", "open", "committed",
                    "answered"},
           query : [kind : {"none", "create", "confirm"}, key : Headers \cup {Nobody},
                    draft : Drafts \cup {Nobody}, proposal : Proposals \cup {Nobody},
                    acknowledged : BOOLEAN],
           generation : Nat, seen : Nat, now : Nat, attempt : 1 .. Attempts, overtaken : BOOLEAN,
           answer : {"none", "issued", "confirmed", "key reused", "not found", "not current",
                     "stale disclosure", "denied", "conflict", "lost"},
           named : Proposals \cup {Nobody}]]
    /\ {clock, generation, release} \subseteq Nat

\* However a draft is regenerated, put aside and confirmed by calls that race
\* each other, its proposals are one chain, of which all but the last are
\* closed, and no more than the last is confirmed into a space, once.
OneBudgetPerChain ==
    /\ \A p, s \in Issued : proposals[s].predecessor = p <=> proposals[p].successor = s
    /\ \A p \in Issued :
          /\ proposals[p].successor # Nobody =>
                /\ proposals[p].successor \in Issued
                /\ proposals[proposals[p].successor].revision = proposals[p].revision + 1
                /\ proposals[p].status = "invalidated"
          /\ proposals[p].status = "confirmed" <=> \E w \in confirmations : w.proposal = p
    /\ \A v, w \in confirmations : v.proposal = w.proposal \/ v.key = w.key => v = w

\* A retried create issues no second proposal while its key is remembered, and
\* a call that is told it succeeded is told of what it asked for: the proposal
\* of its own draft, or the space its own key confirmed.
RetriesAgree ==
    /\ \A p, o \in Issued :
          /\ p # o
          /\ proposals[p].key = proposals[o].key /\ proposals[p].generation = proposals[o].generation
          => \/ proposals[p].issuedAt >= proposals[o].issuedAt + Retention
             \/ proposals[o].issuedAt >= proposals[p].issuedAt + Retention
    /\ \A c \in Submissions :
          LET q == submissions[c].query
              p == submissions[c].named
          IN  /\ submissions[c].answer = "issued" =>
                    p \in Issued /\ proposals[p].key = q.key /\ SameCommand(c, proposals[p])
              /\ submissions[c].answer = "confirmed" =>
                    p = q.proposal /\ [proposal |-> p, key |-> q.key] \in confirmations

\* Reading a proposal tells that it waits for a decision exactly when, at that
\* instant, confirming it would be verified: the two judge separately.
ReadsTellConfirmable ==
    \A p \in Issued : Lifecycle(proposals[p], clock) = "previewed" <=> Verified(proposals[p], clock)
=============================================================================
