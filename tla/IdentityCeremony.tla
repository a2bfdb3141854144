--------------------------- MODULE IdentityCeremony ---------------------------
(***************************************************************************)
(* Signing in: from a callback of the identity provider to one session.    *)
(* Challenges live in the memory of one process; the callback, hand-off and*)
(* delivery rows live in PostgreSQL.  The browser may deliver a callback   *)
(* any number of times, at once or later; a delivery joins the completion  *)
(* in flight, or finishes what the rows say is unfinished.  The process may*)
(* restart; a COMMIT may succeed without its client learning of it.  Two   *)
(* sign-ins of one identity may race to create its account subject.        *)
(* A transaction takes its snapshot in one step and commits in another, if *)
(* nobody committed a change of a row that it writes; it may always fail.  *)
(***************************************************************************)
EXTENDS Integers, FiniteSets

CONSTANTS
    Challenges,      \* sign-ins begun; a challenge also names the account
                     \* subject that its completion creates
    Callbacks,       \* deliveries of a callback; one also names the session
                     \* that it mints
    Identities,      \* provider identities
    None,
    Capacity,        \* of the challenge store
    ChallengeLifetime, HandoffLifetime, Grace,
    MappingAttempts, \* config.mappingMaxAttempts
    MaxRestarts,     \* bound: restarts of the process
    MaxClock         \* bound: instants

ASSUME CeremonyAssumption ==
    /\ None \notin Challenges \cup Callbacks \cup Identities
    /\ {Capacity, ChallengeLifetime, HandoffLifetime, MappingAttempts} \subseteq Nat \ {0}
    /\ {Grace, MaxRestarts, MaxClock} \subseteq Nat

VARIABLES
    challenge,  \* ChallengeStore
    binding,    \* identity_binding: the subject of each identity
    closed,     \* subjects whose authority row is not active
    callback,   \* identity_callback
    handoff,    \* identity_session_handoff
    delivery,   \* session_delivery_result
    session,    \* account_session
    request,    \* IdentityCeremony.complete, one call per delivery
    doomed,     \* open transactions that will write a row changed meanwhile
    sweep,      \* sweepExpiredDeliveryResults: the rows it selected
    clock,
    restarts

durable == <<binding, closed, callback, handoff, delivery, session>>
vars == <<challenge, durable, request, doomed, sweep, clock, restarts>>

\* What a delivery may be told: every public outcome but these two is a refusal.
Outcomes == {"none", "success", "still_processing", "refused"}

\* The rows that concurrent transactions may both write.
Rows == ({"authority", "delivery", "handoff", "callback"} \X Challenges)
        \cup ({"binding"} \X Identities)

Running == {"joined", "stored", "storedHandoff", "exchanging", "mapping", "mapped", "settling",
            "numbering", "issuing", "issued", "rejected", "acking", "answering"}
InTxn == {"mapped", "issued"}

Fresh == [pc |-> "new", challenge |-> None, owner |-> FALSE, joined |-> None,
          identity |-> None, subject |-> None, attempt |-> 1, plan |-> "none",
          committed |-> FALSE, now |-> 0, writes |-> {}, answer |-> "none",
          named |-> None, cookie |-> FALSE]

Init ==
    /\ challenge = [c \in Challenges |-> [status |-> "unused", expires |-> 0,
                                           known |-> FALSE]]
    /\ binding = [i \in Identities |-> None]
    /\ closed = {}
    /\ callback = [c \in Challenges |-> [state |-> "none", committed |-> FALSE]]
    /\ handoff = [c \in Challenges |-> [state |-> "none", identity |-> None,
                                        subject |-> None, expires |-> 0]]
    /\ delivery = [c \in Challenges |-> [state |-> "none", session |-> None]]
    /\ session = [q \in Callbacks |-> "none"]
    /\ request = [q \in Callbacks |-> Fresh]
    /\ doomed = {}
    /\ sweep = [left |-> {}, revoked |-> None]
    /\ clock = 0
    /\ restarts = 0

\* The next record of request q, what is kept of one that ends, and its answer.
Update(q, r) == request' = [request EXCEPT ![q] = r]
Left(q, pc) == [Fresh EXCEPT !.pc = pc, !.challenge = request[q].challenge,
                            !.owner = request[q].owner, !.named = request[q].named]
Answered(q, outcome) == [Left(q, "done") EXCEPT !.answer = outcome]
Answer(q, outcome) == Update(q, Answered(q, outcome))

\* A commit of these rows dooms the open transactions that write them too.
Publish(q, rows) ==
    doomed' = (doomed \cup {p \in Callbacks : /\ request[p].pc \in InTxn
                                               /\ rows \cap request[p].writes # {}})
              \ {q}

-----------------------------------------------------------------------------
(***************************************************************************)
(* The challenge store.                                                    *)
(***************************************************************************)
Overdue(c) ==
    challenge[c].known /\ challenge[c].status = "pending" /\ challenge[c].expires <= clock

\* #sweep: overdue challenges are terminated, old ones forgotten.
Swept(c) ==
    LET status == IF Overdue(c) THEN "terminated" ELSE challenge[c].status
        old == status # "pending" /\ challenge[c].expires + Grace <= clock
    IN  [challenge[c] EXCEPT !.status = status, !.known = challenge[c].known /\ ~old]

\* Faulty: the room for one challenge more is not looked at.
BeginUnbounded(c) ==
    /\ challenge[c].status = "unused"
    /\ challenge' = [[x \in Challenges |-> Swept(x)] EXCEPT ![c] =
                        [status |-> "pending", expires |-> clock + ChallengeLifetime,
                         known |-> TRUE]]
    /\ UNCHANGED <<durable, request, doomed, sweep, clock, restarts>>

\* begin: a fresh challenge, if the store has room.
Begin(c) ==
    /\ challenge[c].status = "unused"
    /\ LET store == [x \in Challenges |-> Swept(x)]
       IN  challenge' = IF Cardinality({x \in Challenges : store[x].known}) >= Capacity
                        THEN store
                        ELSE [store EXCEPT ![c] =
                                [status |-> "pending", expires |-> clock + ChallengeLifetime,
                                 known |-> TRUE]]
    /\ UNCHANGED <<durable, request, doomed, sweep, clock, restarts>>

\* The deadline timer.
SweepChallenges ==
    /\ \E c \in Challenges : Swept(c) # challenge[c]
    /\ challenge' = [c \in Challenges |-> Swept(c)]
    /\ UNCHANGED <<durable, request, doomed, sweep, clock, restarts>>

-----------------------------------------------------------------------------
(***************************************************************************)
(* Receiving a callback.  Looking a challenge up expires it in place.      *)
(***************************************************************************)
StatusNow(c) == IF Overdue(c) THEN "terminated" ELSE challenge[c].status

InFlight(c) == {p \in Callbacks : request[p].owner /\ request[p].challenge = c
                                  /\ request[p].pc \in Running}

Received(q, c) == [request[q] EXCEPT !.challenge = c]

\* A callback that cannot be completed: its state is unknown, its envelope
\* malformed (which ends a pending challenge), or its context wrong (which
\* ends any known one).
ReceiveUnusable(q, c, why) ==
    /\ request[q].pc = "new"
    /\ challenge[c].status # "unused"
    /\ why = "unknown" <=> ~challenge[c].known
    /\ challenge' = [challenge EXCEPT ![c].status =
                        IF why = "wrong_context" \/ (why = "malformed" /\ @ = "pending")
                        THEN "terminated" ELSE StatusNow(c)]
    /\ Update(q, [Answered(q, "refused") EXCEPT !.challenge = c])
    /\ UNCHANGED <<durable, doomed, sweep, clock, restarts>>

\* The provider reports an error: the challenge ends.
ReceiveError(q, c) ==
    /\ request[q].pc = "new"
    /\ challenge[c].known /\ StatusNow(c) = "pending"
    /\ challenge' = [challenge EXCEPT ![c].status = "terminated"]
    /\ Update(q, [Answered(q, "refused") EXCEPT !.challenge = c])
    /\ UNCHANGED <<durable, doomed, sweep, clock, restarts>>

\* take: the first delivery of a code consumes the challenge and completes it.
TakeChallenge(q, c) ==
    /\ request[q].pc = "new"
    /\ challenge[c].known /\ StatusNow(c) = "pending"
    /\ challenge' = [challenge EXCEPT ![c].status = "consumed"]
    /\ Update(q, [Received(q, c) EXCEPT !.pc = "exchanging", !.owner = TRUE])
    /\ UNCHANGED <<durable, doomed, sweep, clock, restarts>>

\* A later delivery waits for the completion in flight, or reads the rows.
ReceiveAgain(q, c) ==
    /\ request[q].pc = "new"
    /\ challenge[c].known /\ StatusNow(c) \in {"consumed", "terminated"}
    /\ challenge' = [challenge EXCEPT ![c].status = StatusNow(c)]
    /\ \/ /\ InFlight(c) = {}
          /\ Update(q, [Received(q, c) EXCEPT !.pc = "stored"])
       \/ \E p \in InFlight(c) :
             Update(q, [Received(q, c) EXCEPT !.pc = "joined", !.joined = p])
    /\ UNCHANGED <<durable, doomed, sweep, clock, restarts>>

\* #replayOf: the answer of the completion it joined, without the cookie; or
\* the bounded wait is over.
LeaveJoin(q) ==
    /\ request[q].pc = "joined"
    /\ LET p == request[q].joined
       IN  IF request[p].pc = "done"
           THEN Update(q, [Answered(q, request[p].answer) EXCEPT !.named = request[p].named])
           ELSE Update(q, [request[q] EXCEPT !.pc = "stored", !.joined = None])
    /\ UNCHANGED <<challenge, durable, doomed, sweep, clock, restarts>>

-----------------------------------------------------------------------------
(***************************************************************************)
(* Exchange and mapping.  Only the delivery that took a challenge maps it, *)
(* so its callback row is absent until the mapping commits.                *)
(***************************************************************************)
Ch(q) == request[q].challenge

\* runBoundedExchange: a verified identity, or a rejection, which ends the
\* challenge.
Exchange(q) ==
    /\ request[q].pc = "exchanging"
    /\ \/ /\ \E i \in Identities :
                Update(q, [request[q] EXCEPT !.pc = "mapping", !.identity = i])
          /\ UNCHANGED challenge
       \/ /\ Answer(q, "refused")
          /\ challenge' = [challenge EXCEPT ![Ch(q)].status = "terminated"]
    /\ UNCHANGED <<durable, doomed, sweep, clock, restarts>>

\* attempt(), up to its inserts: a first use creates the subject; a subject
\* that is not available gets no hand-off; one without its single active
\* profile fails closed.
MapRead(q) ==
    /\ request[q].pc = "mapping"
    /\ LET i == request[q].identity
           reading(subject, plan, rows) ==
             [request[q] EXCEPT !.pc = "mapped", !.subject = subject, !.plan = plan,
                                !.writes = rows]
       IN  \/ /\ binding[i] = None
              /\ Update(q, reading(Ch(q), "create", {<<"binding", i>>}))
           \/ /\ binding[i] # None
              /\ \/ \E plan \in {"reuse", "unavailable"} :
                       Update(q, reading(binding[i], plan, {}))
                 \/ Update(q, Left(q, "settling"))
    /\ UNCHANGED <<challenge, durable, doomed, sweep, clock, restarts>>

\* Faulty: no unique key on the binding.
MapCommitUnkeyed(q, told) ==
    /\ request[q].pc = "mapped"
    /\ request[q].plan # "unavailable"
    /\ binding' = [binding EXCEPT ![request[q].identity] = request[q].subject]
    /\ callback' = [callback EXCEPT ![Ch(q)].state = "handoff_ready"]
    /\ handoff' = [handoff EXCEPT ![Ch(q)] =
                      [state |-> "prepared", identity |-> request[q].identity,
                       subject |-> request[q].subject, expires |-> clock + HandoffLifetime]]
    /\ doomed' = doomed \ {q}
    /\ Update(q, [request[q] EXCEPT !.pc = "issuing", !.now = clock])
    /\ UNCHANGED <<challenge, closed, delivery, session, sweep, clock, restarts>>

\* COMMIT of subject, binding, callback and hand-off together.  If its result
\* is lost, the delivery answers as for any other fault.
MapCommit(q, told) ==
    /\ request[q].pc = "mapped"
    /\ q \notin doomed
    /\ LET r == request[q]
           c == Ch(q)
       IN  IF r.plan = "unavailable"
           THEN /\ callback' = [callback EXCEPT ![c] =
                                  [state |-> "terminal", committed |-> FALSE]]
                /\ Answer(q, "refused")
                /\ UNCHANGED <<binding, handoff>>
           ELSE /\ binding' = [binding EXCEPT ![r.identity] = r.subject]
                /\ callback' = [callback EXCEPT ![c].state = "handoff_ready"]
                /\ handoff' = [handoff EXCEPT ![c] =
                                 [state |-> "prepared", identity |-> r.identity,
                                  subject |-> r.subject, expires |-> clock + HandoffLifetime]]
                /\ IF told THEN Update(q, [Left(q, "issuing") EXCEPT !.now = clock])
                           ELSE Answer(q, "refused")
    /\ Publish(q, request[q].writes)
    /\ UNCHANGED <<challenge, closed, delivery, session, sweep, clock, restarts>>

\* Faulty: attempts are not counted.
MapConflictUncounted(q) ==
    /\ request[q].pc = "mapped"
    /\ Update(q, [request[q] EXCEPT !.pc = "mapping", !.writes = {}])
    /\ doomed' = doomed \ {q}
    /\ UNCHANGED <<challenge, durable, sweep, clock, restarts>>

\* 23505, 40001 or 40P01: another attempt, or the exhaustion path.
MapConflict(q) ==
    /\ request[q].pc = "mapped"
    /\ LET r == [request[q] EXCEPT !.writes = {}]
       IN  IF r.attempt < MappingAttempts
           THEN Update(q, [r EXCEPT !.pc = "mapping", !.attempt = r.attempt + 1])
           ELSE Update(q, Left(q, "settling"))
    /\ doomed' = doomed \ {q}
    /\ UNCHANGED <<challenge, durable, sweep, clock, restarts>>

\* Any other fault of the mapping transaction.
MapFails(q) ==
    /\ request[q].pc = "mapped"
    /\ Answer(q, "refused")
    /\ doomed' = doomed \ {q}
    /\ UNCHANGED <<challenge, durable, sweep, clock, restarts>>

\* settleAbsentMapping: the challenge's mapping becomes terminal, unless this
\* transaction fails too.
Settle(q) ==
    /\ request[q].pc = "settling"
    /\ \/ /\ callback' = [callback EXCEPT ![Ch(q)] =
                            [state |-> "terminal", committed |-> FALSE]]
          /\ Answer(q, "refused")
       \/ /\ \E outcome \in {"still_processing", "refused"} : Answer(q, outcome)
          /\ UNCHANGED callback
    /\ UNCHANGED <<challenge, binding, closed, handoff, delivery, session, doomed, sweep,
                   clock, restarts>>

-----------------------------------------------------------------------------
(***************************************************************************)
(* The stored result: two reads, the callback row and then the hand-off.   *)
(***************************************************************************)
StoredCallback(q) ==
    /\ request[q].pc = "stored"
    /\ LET row == callback[Ch(q)]
       IN  CASE row.state = "none" ->
                  Answer(q, IF challenge[Ch(q)].status = "consumed" THEN "still_processing"
                            ELSE "refused")
             [] row.state = "terminal" -> Answer(q, "refused")
             [] row.state = "handoff_ready" ->
                  Update(q, [request[q] EXCEPT !.pc = "storedHandoff",
                                               !.committed = row.committed])
    /\ UNCHANGED <<challenge, durable, doomed, sweep, clock, restarts>>

\* A committed success is told again, without its cookie; an unfinished
\* hand-off is consumed by this delivery, as of this instant.
StoredHandoff(q) ==
    /\ request[q].pc = "storedHandoff"
    /\ LET state == handoff[Ch(q)].state
       IN  CASE state = "terminal_failed" -> Answer(q, "refused")
             [] state = "consumed" /\ request[q].committed ->
                  Update(q, [Answered(q, "success") EXCEPT !.named = delivery[Ch(q)].session])
             [] state = "consumed" /\ ~request[q].committed ->
                  Update(q, [Left(q, "issuing") EXCEPT !.now = clock])
             [] state = "prepared" ->
                  Update(q, [Left(q, "numbering") EXCEPT !.now = clock])
    /\ UNCHANGED <<challenge, durable, doomed, sweep, clock, restarts>>

-----------------------------------------------------------------------------
(***************************************************************************)
(* #issueAndFinalize.                                                      *)
(***************************************************************************)
\* incrementHandoffAttempt, which may match nothing or fail.
NumberAttempt(q) ==
    /\ request[q].pc = "numbering"
    /\ Update(q, [request[q] EXCEPT !.pc = "issuing"])
    /\ Publish(q, {<<"handoff", Ch(q)>>}) \/ UNCHANGED doomed
    /\ UNCHANGED <<challenge, durable, sweep, clock, restarts>>

\* The updates that end a hand-off and its callback match only open rows.
OpenRows(c) ==
    {row \in {<<"handoff", c>>, <<"callback", c>>} :
        IF row[1] = "handoff" THEN handoff[c].state = "prepared"
                              ELSE callback[c].state = "handoff_ready"}

\* consumeAndIssue on its snapshot: replay the delivery it finds, or mint,
\* or reject; a rejection undoes what its transaction wrote.
IssueRead(q) ==
    /\ request[q].pc = "issuing"
    /\ LET c == Ch(q)
           issued(plan, rows) == [request[q] EXCEPT !.pc = "issued", !.plan = plan,
                                                    !.writes = rows \cup OpenRows(c)]
       IN  Update(q,
             CASE delivery[c].state = "sealed" /\ clock < handoff[c].expires ->
                    issued("replay", {})
               [] /\ delivery[c].state = "none"
                  /\ request[q].now < handoff[c].expires
                  /\ handoff[c].subject \notin closed ->
                    issued("mint", {<<"authority", handoff[c].subject>>, <<"delivery", c>>})
               [] OTHER -> Left(q, "rejected"))
    /\ UNCHANGED <<challenge, durable, doomed, sweep, clock, restarts>>

\* The writes of the issuing transaction, all at its COMMIT.
Issue(q) ==
    LET c == Ch(q)
        rows == request[q].writes
    IN  /\ IF request[q].plan = "mint"
           THEN /\ session' = [session EXCEPT ![q] = "active"]
                /\ delivery' = [delivery EXCEPT ![c] = [state |-> "sealed", session |-> q]]
           ELSE UNCHANGED <<session, delivery>>
        /\ handoff' = IF <<"handoff", c>> \in rows
                      THEN [handoff EXCEPT ![c].state = "consumed"] ELSE handoff
        /\ callback' = IF <<"callback", c>> \in rows
                       THEN [callback EXCEPT ![c].committed = TRUE] ELSE callback
        /\ Publish(q, rows)
        /\ UNCHANGED <<challenge, binding, closed, sweep, clock, restarts>>

Acking(q) ==
    Update(q, [Left(q, "acking") EXCEPT
                 !.named = IF request[q].plan = "mint" THEN q ELSE delivery[Ch(q)].session])

\* Faulty: neither the delivery's key nor the version of any row is checked.
IssueCommitUnchecked(q, told) ==
    /\ request[q].pc = "issued"
    /\ Issue(q)
    /\ Acking(q)

\* Session, delivery, hand-off and callback commit together; a fault after
\* the COMMIT answers as one before it does.
IssueCommit(q, told) ==
    /\ request[q].pc = "issued"
    /\ q \notin doomed
    /\ Issue(q)
    /\ IF told THEN Acking(q) ELSE Answer(q, "still_processing")

IssueFails(q) ==
    /\ request[q].pc = "issued"
    /\ Answer(q, "still_processing")
    /\ doomed' = doomed \ {q}
    /\ UNCHANGED <<challenge, durable, sweep, clock, restarts>>

\* The second transaction of a rejection, whose own fault is ignored.
Reject(q) ==
    /\ request[q].pc = "rejected"
    /\ LET c == Ch(q)
       IN  \/ /\ handoff' = IF <<"handoff", c>> \in OpenRows(c)
                            THEN [handoff EXCEPT ![c].state = "terminal_failed"] ELSE handoff
              /\ callback' = IF <<"callback", c>> \in OpenRows(c)
                             THEN [callback EXCEPT ![c] = [state |-> "terminal", committed |-> TRUE]]
                             ELSE callback
              /\ Publish(q, OpenRows(c))
           \/ UNCHANGED <<handoff, callback, doomed>>
    /\ Answer(q, "refused")
    /\ UNCHANGED <<challenge, binding, closed, delivery, session, sweep, clock, restarts>>

\* acknowledgeDeliveryResult, best effort.
Acknowledge(q) ==
    /\ request[q].pc = "acking"
    /\ delivery' \in {delivery, [delivery EXCEPT ![Ch(q)].state = "erased"]}
    /\ Update(q, [request[q] EXCEPT !.pc = "answering"])
    /\ UNCHANGED <<challenge, binding, closed, callback, handoff, session, doomed, sweep,
                   clock, restarts>>

\* The answer that sets the cookie.
AnswerFirst(q) ==
    /\ request[q].pc = "answering"
    /\ Update(q, [Answered(q, "success") EXCEPT !.cookie = TRUE])
    /\ UNCHANGED <<challenge, durable, doomed, sweep, clock, restarts>>

-----------------------------------------------------------------------------
(***************************************************************************)
(* The sweep: it selects the envelopes nobody acknowledged in time, and    *)
(* for each revokes the session, then acknowledges.  The schema refuses a  *)
(* second acknowledgement, which ends the run.                             *)
(***************************************************************************)
SweepSelect ==
    /\ sweep.left = {}
    /\ LET expired == {c \in Challenges : delivery[c].state = "sealed"
                                          /\ handoff[c].expires < clock}
       IN  /\ expired # {}
           /\ sweep' = [sweep EXCEPT !.left = expired]
    /\ UNCHANGED <<challenge, durable, request, doomed, clock, restarts>>

\* Faulty: the envelope is erased before the session is revoked.
SweepEraseFirst(c) ==
    /\ c \in sweep.left
    /\ sweep.revoked = None
    /\ delivery' = [delivery EXCEPT ![c].state = "erased"]
    /\ sweep' = [sweep EXCEPT !.revoked = c]
    /\ UNCHANGED <<challenge, binding, closed, callback, handoff, session, request, doomed,
                   clock, restarts>>

SweepRevoke(c) ==
    /\ c \in sweep.left
    /\ sweep.revoked = None
    /\ session' = [session EXCEPT ![delivery[c].session] = "revoked"]
    /\ sweep' = [sweep EXCEPT !.revoked = c]
    /\ UNCHANGED <<challenge, binding, closed, callback, handoff, delivery, request, doomed,
                   clock, restarts>>

SweepAcknowledge ==
    /\ sweep.revoked # None
    /\ LET c == sweep.revoked
       IN  IF delivery[c].state = "sealed"
           THEN /\ delivery' = [delivery EXCEPT ![c].state = "erased"]
                /\ sweep' = [left |-> sweep.left \ {c}, revoked |-> None]
           ELSE /\ sweep' = [left |-> {}, revoked |-> None]
                /\ UNCHANGED delivery
    /\ UNCHANGED <<challenge, binding, closed, callback, handoff, session, request, doomed,
                   clock, restarts>>

-----------------------------------------------------------------------------
(***************************************************************************)
(* The environment.                                                        *)
(***************************************************************************)
\* An epoch bump that closes the subject.
CloseSubject(s) ==
    /\ s \notin closed
    /\ \E i \in Identities : binding[i] = s
    /\ closed' = closed \cup {s}
    /\ Publish(None, {<<"authority", s>>})
    /\ UNCHANGED <<challenge, binding, callback, handoff, delivery, session, request, sweep,
                   clock, restarts>>

\* The process restarts: challenges, calls, transactions and jobs are gone.
Restart ==
    /\ restarts < MaxRestarts
    /\ restarts' = restarts + 1
    /\ challenge' = [c \in Challenges |-> [challenge[c] EXCEPT !.known = FALSE]]
    /\ request' = [q \in Callbacks |->
          IF request[q].pc \in Running
          THEN Left(q, "dead") ELSE request[q]]
    /\ doomed' = {}
    /\ sweep' = [left |-> {}, revoked |-> None]
    /\ UNCHANGED <<durable, clock>>

Tick ==
    /\ clock < MaxClock
    /\ clock' = clock + 1
    /\ UNCHANGED <<challenge, durable, request, doomed, sweep, restarts>>

-----------------------------------------------------------------------------
Receive(q, c) ==
    \/ \E why \in {"unknown", "malformed", "wrong_context"} : ReceiveUnusable(q, c, why)
    \/ ReceiveError(q, c)
    \/ TakeChallenge(q, c)
    \/ ReceiveAgain(q, c)

\* What a received callback does next.
Work(q) ==
    \/ LeaveJoin(q) \/ Exchange(q)
    \/ MapRead(q) \/ MapConflict(q) \/ MapFails(q) \/ Settle(q)
    \/ StoredCallback(q) \/ StoredHandoff(q)
    \/ NumberAttempt(q) \/ IssueRead(q) \/ IssueFails(q) \/ Reject(q)
    \/ Acknowledge(q) \/ AnswerFirst(q)
    \/ \E told \in BOOLEAN : MapCommit(q, told) \/ IssueCommit(q, told)

Sweep == SweepSelect \/ (\E c \in Challenges : SweepRevoke(c)) \/ SweepAcknowledge

Next ==
    \/ \E c \in Challenges : Begin(c) \/ CloseSubject(c)
    \/ \E q \in Callbacks, c \in Challenges : Receive(q, c)
    \/ \E q \in Callbacks : Work(q)
    \/ Sweep \/ SweepChallenges \/ Restart \/ Tick

Spec == Init /\ [][Next]_vars

\* A call that is running goes on; nothing makes a sweep run.
Fairness == \A q \in Callbacks : WF_vars(Work(q))

FairSpec == Spec /\ Fairness

-----------------------------------------------------------------------------
(***************************************************************************)
(* Properties.                                                             *)
(***************************************************************************)
ChallengeStore ==
    [Challenges -> [status : {"unused", "pending", "consumed", "terminated"},
                    expires : Nat, known : BOOLEAN]]
CallbackTable ==
    [Challenges -> [state : {"none", "handoff_ready", "terminal"}, committed : BOOLEAN]]
HandoffTable ==
    [Challenges -> [state : {"none", "prepared", "consumed", "terminal_failed"},
                    identity : Identities \cup {None}, subject : Challenges \cup {None},
                    expires : Nat]]
DeliveryTable ==
    [Challenges -> [state : {"none", "sealed", "erased"}, session : Callbacks \cup {None}]]
RequestTable ==
    [Callbacks -> [pc : Running \cup {"new", "done", "dead"},
                   challenge : Challenges \cup {None}, owner : BOOLEAN,
                   joined : Callbacks \cup {None}, identity : Identities \cup {None},
                   subject : Challenges \cup {None}, attempt : 1..MappingAttempts,
                   plan : {"none", "create", "reuse", "unavailable", "mint", "replay"},
                   committed : BOOLEAN, now : Nat, writes : SUBSET Rows,
                   answer : Outcomes, named : Callbacks \cup {None}, cookie : BOOLEAN]]

\* Every variable has its shape; the store and the attempts keep their bounds.
TypeOK ==
    /\ Cardinality({c \in Challenges : challenge[c].known}) <= Capacity
    /\ challenge \in ChallengeStore
    /\ binding \in [Identities -> Challenges \cup {None}]
    /\ closed \subseteq Challenges
    /\ callback \in CallbackTable
    /\ handoff \in HandoffTable
    /\ delivery \in DeliveryTable
    /\ session \in [Callbacks -> {"none", "active", "revoked"}]
    /\ request \in RequestTable
    /\ doomed \subseteq Callbacks
    /\ sweep \in [left : SUBSET Challenges, revoked : Challenges \cup {None}]
    /\ clock \in Nat /\ restarts \in Nat

\* The sessions that completions of c minted.
Minted(c) == {q \in Callbacks : session[q] # "none" /\ Ch(q) = c}

\* Concurrent first sign-ins of one identity end with one account subject
\* (mapping.ts, the unique keys behind its retries).
OneSubjectPerIdentity ==
    \A c \in Challenges :
        handoff[c].state # "none" => binding[handoff[c].identity] = handoff[c].subject

\* A challenge is exchanged by one delivery, whatever arrives twice or after a
\* restart ("consumes the challenge exactly once before any subject or session
\* effect", challenge.ts take), and its hand-off mints one session, through
\* retries and lost results, which its delivery names ("a consumed handoff never
\* mints a second session", issuance.ts); and whoever is told of a success, first
\* or again, is told of that session (#storedResult, #replayOf: the answer is
\* read from rows that other deliveries change).
OneSessionPerHandoff ==
    \A c \in Challenges :
        /\ Cardinality({q \in Callbacks : request[q].owner /\ Ch(q) = c}) <= 1
        /\ Minted(c) = IF delivery[c].state = "none" THEN {} ELSE {delivery[c].session}
        /\ \A q \in Callbacks :
              Ch(q) = c /\ request[q].answer = "success" => Minted(c) = {request[q].named}

\* The envelope of a session that stays active is erased only once a delivery
\* holds its cookie (issuance.ts, sweep-worker.ts: nobody else can use it, so
\* the orphan session is revoked first).
NoOrphanSession ==
    \A c \in Challenges :
        delivery[c].state = "erased" /\ session[delivery[c].session] = "active"
            => \E q \in Callbacks : request[q].named = delivery[c].session

\* Every callback received is answered, unless the process restarts.
EveryCallbackAnswered ==
    \A q \in Callbacks : request[q].pc \in Running ~> request[q].pc \in {"done", "dead"}

\* "Issuance, rotation, hand-off consumption and callback commit now commit or
\* roll back together" (ceremony.ts), and "a committed success is represented by
\* the callback row remaining handoff_ready with commit_at set and its hand-off
\* consumed" (outcomes.ts): a challenge has minted a session exactly then.
SessionIffCommitted ==
    \A c \in Challenges :
        Minted(c) # {} <=> /\ handoff[c].state = "consumed"
                           /\ callback[c].state = "handoff_ready" /\ callback[c].committed
=============================================================================
