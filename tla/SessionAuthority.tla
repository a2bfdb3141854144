-------------------------- MODULE SessionAuthority --------------------------
(***************************************************************************)
(* Who may act, and until when: sessions, the per-subject revocation       *)
(* authority, and the mutations that must not outlive either.              *)
(*                                                                         *)
(* Three kinds of actors share three PostgreSQL tables:                    *)
(*   - a mutation (AuthorizationBoundary.execute) re-resolves its session  *)
(*     inside one SERIALIZABLE transaction, fences the subject's epoch,    *)
(*     spends a fresh-assurance grant, and commits, retrying an attempt    *)
(*     that PostgreSQL rolled back;                                        *)
(*   - an issuance (consumeAndIssue inside the ceremony's SERIALIZABLE     *)
(*     transaction) mints a session and retires the one it replaces;       *)
(*   - autocommitted statements revoke one session (logout), revoke a whole*)
(*     subject (an epoch bump), slide the idle expiry, and grant assurance.*)
(*                                                                         *)
(* PostgreSQL's part is modelled from how the code uses it: a transaction  *)
(* reads the snapshot its first statement takes; an UPDATE locks its row   *)
(* until the transaction ends; an UPDATE of a row that another transaction *)
(* has changed since the snapshot fails with SQLSTATE 40001.  Serializable *)
(* transactions abort in further cases (read dependencies), which only     *)
(* removes behaviours, so a safety property of this model does not rest on *)
(* them.                                                                   *)
(***************************************************************************)
EXTENDS Integers

CONSTANTS
    Subjects,               \* account subjects: one authority row each
    Refs,                   \* session references, one per hand-off consumed
    Grants,                 \* fresh-assurance grants
    Mutations,              \* authorized requests that change data
    Gates,                  \* identity-only resolutions in flight
    None,                   \* no row, no transaction
    IdleTimeout,            \* config.idleTimeoutSeconds
    AbsoluteLifetime,       \* config.absoluteLifetimeSeconds
    GrantWindow,            \* config.freshAssuranceWindowSeconds
    SerializationAttempts,  \* attempts of one boundary transaction
    MaxEpoch,               \* bound: bumps of one subject
    MaxClock                \* bound: instants

Rows == Subjects \cup Refs \cup Grants   \* what a statement can lock
Txns == Mutations \cup Refs              \* a reference also names the
                                         \* transaction that issues it

ASSUME NoneAssumption == None \notin Rows \cup Txns
ASSUME DisjointAssumption ==
    /\ Subjects \cap Refs = {} /\ Subjects \cap Grants = {} /\ Refs \cap Grants = {}
    /\ Mutations \cap Refs = {}
ASSUME DurationAssumption ==
    /\ IdleTimeout \in Nat \ {0} /\ AbsoluteLifetime \in Nat \ {0}
    /\ GrantWindow \in Nat \ {0} /\ SerializationAttempts \in Nat \ {0}
    /\ MaxEpoch \in Nat /\ MaxClock \in Nat

VARIABLES
    authority,  \* account_subject_authority
    session,    \* account_session
    grant,      \* account_session_fresh_assurance
    mutation,   \* one boundary.execute call each
    issuance,   \* one consumption of a hand-off each
    gate,       \* identity-only resolutions between their read and their slide
    lock,       \* which transaction holds each row
    stale,      \* rows others committed since a transaction's snapshot
    clock

vars == <<authority, session, grant, mutation, issuance, gate, lock, stale, clock>>

Lifecycles == {"active", "disabled", "deleted", "security_blocked"}
TerminalLifecycles == {"deleted", "security_blocked"}
SessionStates == {"none", "active", "rotated", "revoked"}

\* The causes whose bump also moves the subject's lifecycle; every other
\* epoch-bumping cause leaves it as it is.
LifecycleCauses == {"account_deletion", "security_action", "permission_loss"}
BumpCauses == LifecycleCauses \cup {"logout_everywhere", "provider_event"}

\* Faulty: a lifecycle the column does not know.
LifecycleAfterUnknown(cause, current) ==
    IF cause = "permission_loss" THEN "suspended" ELSE current

LifecycleAfter(cause, current) ==
    CASE cause = "account_deletion" -> "deleted"
      [] cause = "security_action"  -> "security_blocked"
      [] cause = "permission_loss"  -> "disabled"
      [] OTHER                      -> current

IssueCauses == {"authentication", "reauthentication", "assurance_elevation", "account_switch"}

MutationPcs == {"new", "allowed", "read", "touched", "fenced", "spent", "committed", "denied"}
MutationInTxn == {"read", "touched", "fenced", "spent"}
IssuancePcs == {"new", "read", "allocated", "retired", "committed", "rejected"}
IssuanceInTxn == {"read", "allocated", "retired"}

Least(a, b) == IF a <= b THEN a ELSE b

-----------------------------------------------------------------------------
Init ==
    /\ authority = [s \in Subjects |-> [next |-> 1, epoch |-> 1, lifecycle |-> "active"]]
    /\ session = [r \in Refs |-> [state |-> "none", subject |-> None, version |-> 0,
                                  epoch |-> 0, idle |-> 0, absolute |-> 0, heir |-> None]]
    /\ grant = [g \in Grants |-> [state |-> "none", ref |-> None, expires |-> 0]]
    /\ mutation = [m \in Mutations |-> [pc |-> "new", ref |-> None, grant |-> None,
                                        at |-> 0, attempt |-> 1]]
    /\ issuance = [r \in Refs |-> [pc |-> "new", subject |-> None, prior |-> None,
                                   cause |-> "authentication", version |-> 0,
                                   epoch |-> 0, at |-> 0]]
    /\ gate = [q \in Gates |-> [ref |-> None, at |-> 0]]
    /\ lock = [w \in Rows |-> None]
    /\ stale = [t \in Txns |-> {}]
    /\ clock = 0

(***************************************************************************)
(* The decision table of resolveSession, on the rows as they are now.      *)
(***************************************************************************)
Unexpired(r, now) == now < session[r].idle /\ now < session[r].absolute

Live(r) ==
    /\ session[r].state = "active"
    /\ session[r].epoch = authority[session[r].subject].epoch

Resolves(r, now) == Live(r) /\ Unexpired(r, now)

\* findUsableFreshAssurance: bound to the session, unspent, unexpired.
Usable(g, r, now) ==
    /\ grant[g].state = "issued"
    /\ grant[g].ref = r
    /\ now < grant[g].expires
    /\ session[r].state = "active"
    /\ Unexpired(r, now)

\* The decision on a request: its session resolves and, when its action needs
\* a grant, that grant is usable.
Allowed(r, g) == Resolves(r, clock) /\ (g # None => Usable(g, r, clock))

-----------------------------------------------------------------------------
(***************************************************************************)
(* Transactions.                                                           *)
(***************************************************************************)
InTxn(t) == \/ t \in Mutations /\ mutation[t].pc \in MutationInTxn
            \/ t \in Refs /\ issuance[t].pc \in IssuanceInTxn

Free(w) == lock[w] = None

\* Faulty: any unlocked row is taken, whatever was committed since.
TakeIgnoringVersions(t, w) == Free(w) /\ lock' = [lock EXCEPT ![w] = t]

\* The UPDATE of row w by t goes ahead: no other holder, no newer version.
Take(t, w) ==
    /\ Free(w)
    /\ w \notin stale[t]
    /\ lock' = [lock EXCEPT ![w] = t]

\* The UPDATE of row w by t cannot succeed: the row changed since the
\* snapshot, or another transaction holds it and PostgreSQL picks t as the
\* deadlock victim.
Fails(t, w) == w \in stale[t] \/ lock[w] \notin {None, t}

Holds(t) == {w \in Rows : lock[w] = t}
Release(t) == lock' = [w \in Rows |-> IF lock[w] = t THEN None ELSE lock[w]]

\* Every open transaction other than t now reads an old version of ws.
Publish(t, ws) ==
    stale' = [u \in Txns |-> IF u = t THEN {}
                             ELSE IF InTxn(u) THEN stale[u] \cup ws ELSE stale[u]]

Discard(t) == Release(t) /\ stale' = [stale EXCEPT ![t] = {}]

-----------------------------------------------------------------------------
(***************************************************************************)
(* The mutation.                                                           *)
(***************************************************************************)
SubjectOf(m) == session[mutation[m].ref].subject

\* authorize(): facts read outside any transaction ("none" slides nothing).
\* g is the grant the action needs, or None.
Authorize(m, r, g) ==
    /\ mutation[m].pc = "new"
    /\ Allowed(r, g)
    /\ mutation' = [mutation EXCEPT ![m] =
                       [mutation[m] EXCEPT !.pc = "allowed", !.ref = r, !.grant = g]]
    /\ UNCHANGED <<authority, session, grant, issuance, gate, lock, stale, clock>>

\* The first statement of an attempt takes the snapshot on which the session
\* is resolved again and the decision is made again.
BeginAttempt(m) ==
    /\ mutation[m].pc = "allowed"
    /\ \/ /\ Allowed(mutation[m].ref, mutation[m].grant)
          /\ mutation' = [mutation EXCEPT ![m] =
                            [mutation[m] EXCEPT !.pc = "read", !.at = clock]]
       \/ /\ ~Allowed(mutation[m].ref, mutation[m].grant)
          /\ mutation' = [mutation EXCEPT ![m].pc = "denied"]
    /\ UNCHANGED <<authority, session, grant, issuance, gate, lock, stale, clock>>

\* extendIdleExpiry in mode "wait": the session row's own slide is a write.
TouchSession(m) ==
    /\ mutation[m].pc = "read"
    /\ Take(m, mutation[m].ref)
    /\ mutation' = [mutation EXCEPT ![m].pc = "touched"]
    /\ UNCHANGED <<authority, session, grant, issuance, gate, stale, clock>>

\* Faulty: the fence only reads.
FenceEpochByReading(m) ==
    /\ mutation[m].pc = "touched"
    /\ mutation' = [mutation EXCEPT ![m].pc = "fenced"]
    /\ UNCHANGED <<authority, session, grant, issuance, gate, lock, stale, clock>>

\* fenceRevocationEpoch: rewrites the epoch it read with itself.
FenceEpoch(m) ==
    /\ mutation[m].pc = "touched"
    /\ Take(m, SubjectOf(m))
    /\ mutation' = [mutation EXCEPT ![m].pc = "fenced"]
    /\ UNCHANGED <<authority, session, grant, issuance, gate, stale, clock>>

\* discharge(): consumeFreshAssurance, when the action carries the obligation.
SpendGrant(m) ==
    /\ mutation[m].pc = "fenced"
    /\ IF mutation[m].grant = None THEN UNCHANGED lock ELSE Take(m, mutation[m].grant)
    /\ mutation' = [mutation EXCEPT ![m].pc = "spent"]
    /\ UNCHANGED <<authority, session, grant, issuance, gate, stale, clock>>

\* COMMIT: the writes become visible, the locks go.
CommitMutation(m) ==
    /\ mutation[m].pc = "spent"
    /\ LET r == mutation[m].ref
           g == mutation[m].grant
       IN  /\ session' = [session EXCEPT ![r].idle =
                              Least(mutation[m].at + IdleTimeout, session[r].absolute)]
           /\ grant' = IF g = None THEN grant ELSE [grant EXCEPT ![g].state = "consumed"]
    /\ mutation' = [mutation EXCEPT ![m].pc = "committed"]
    /\ Release(m)
    /\ Publish(m, Holds(m))
    /\ UNCHANGED <<authority, issuance, gate, clock>>

NextRow(m) ==
    CASE mutation[m].pc = "read"    -> mutation[m].ref
      [] mutation[m].pc = "touched" -> SubjectOf(m)
      [] mutation[m].pc = "fenced"  -> mutation[m].grant

\* SQLSTATE 40001 or 40P01: roll back, then retry with a fresh transaction
\* while attempts remain, else deny.
RetryAttempt(m) ==
    /\ mutation[m].pc \in {"read", "touched", "fenced"}
    /\ NextRow(m) # None
    /\ Fails(m, NextRow(m))
    /\ \/ /\ mutation[m].attempt < SerializationAttempts
          /\ mutation' = [mutation EXCEPT ![m] =
                            [mutation[m] EXCEPT !.pc = "allowed",
                                                !.attempt = mutation[m].attempt + 1]]
       \/ /\ mutation[m].attempt >= SerializationAttempts
          /\ mutation' = [mutation EXCEPT ![m].pc = "denied"]
    /\ Discard(m)
    /\ UNCHANGED <<authority, session, grant, issuance, gate, clock>>

\* The work or the connection fails: the transaction is rolled back and the
\* request denied.
AbandonMutation(m) ==
    /\ mutation[m].pc \in MutationInTxn
    /\ mutation' = [mutation EXCEPT ![m].pc = "denied"]
    /\ Discard(m)
    /\ UNCHANGED <<authority, session, grant, issuance, gate, clock>>

-----------------------------------------------------------------------------
(***************************************************************************)
(* The issuance.                                                           *)
(***************************************************************************)
Issued(r) == session[r].state # "none"

\* resolvePriorRow (and C8's same-subject prior): may this cause name p?
PriorAdmitted(s, cause, p) ==
    CASE cause = "authentication" -> p = None
      [] cause = "reauthentication" -> p # None /\ Issued(p) /\ session[p].subject = s
      [] cause = "assurance_elevation" ->
             /\ p # None /\ Live(p)
             /\ session[p].subject = s
             /\ Unexpired(p, clock)
      [] cause = "account_switch" ->
             /\ p # None
             /\ ~(session[p].state = "active" /\ session[p].subject = s)

\* The snapshot: the subject observed, the prior row resolved.  A prior that
\* is no longer active is not retired.
BeginIssuance(r, s, cause, p) ==
    /\ issuance[r].pc = "new"
    /\ authority[s].lifecycle = "active"
    /\ PriorAdmitted(s, cause, p)
    /\ issuance' = [issuance EXCEPT ![r] =
          [pc |-> "read", subject |-> s, cause |-> cause, at |-> clock,
           version |-> authority[s].next, epoch |-> authority[s].epoch,
           prior |-> IF p # None /\ session[p].state = "active" THEN p ELSE None]]
    /\ UNCHANGED <<authority, session, grant, mutation, gate, lock, stale, clock>>

\* IssuanceRejectedError: nothing is minted and the hand-off is terminal.
RejectIssuance(r, s, cause, p) ==
    /\ issuance[r].pc = "new"
    /\ \/ authority[s].lifecycle # "active"
       \/ cause \in {"assurance_elevation", "account_switch"} /\ ~PriorAdmitted(s, cause, p)
    /\ issuance' = [issuance EXCEPT ![r].pc = "rejected"]
    /\ UNCHANGED <<authority, session, grant, mutation, gate, lock, stale, clock>>

\* Faulty: a plain read of the counter and the epoch.
AllocateVersionUnfenced(r) ==
    /\ issuance[r].pc = "read"
    /\ issuance' = [issuance EXCEPT ![r].pc = "allocated"]
    /\ UNCHANGED <<authority, session, grant, mutation, gate, lock, stale, clock>>

\* allocateSessionVersionFenced: the compare-and-swap on the authority row.
AllocateVersion(r) ==
    /\ issuance[r].pc = "read"
    /\ Take(r, issuance[r].subject)
    /\ issuance' = [issuance EXCEPT ![r].pc = "allocated"]
    /\ UNCHANGED <<authority, session, grant, mutation, gate, stale, clock>>

\* Faulty: the prior row is not locked, as if its update could match nothing.
RetirePriorUnlocked(r) ==
    /\ issuance[r].pc = "allocated"
    /\ issuance' = [issuance EXCEPT ![r].pc = "retired"]
    /\ UNCHANGED <<authority, session, grant, mutation, gate, lock, stale, clock>>

\* markRotated, or for a reauthentication markRevoked, on the prior row.
RetirePrior(r) ==
    /\ issuance[r].pc = "allocated"
    /\ IF issuance[r].prior = None THEN UNCHANGED lock ELSE Take(r, issuance[r].prior)
    /\ issuance' = [issuance EXCEPT ![r].pc = "retired"]
    /\ UNCHANGED <<authority, session, grant, mutation, gate, stale, clock>>

CommitIssuance(r) ==
    /\ issuance[r].pc = "retired"
    /\ LET i == issuance[r]
           minted == [state    |-> "active",
                      subject  |-> i.subject,
                      version  |-> i.version,
                      epoch    |-> i.epoch,
                      idle     |-> i.at + Least(IdleTimeout, AbsoluteLifetime),
                      absolute |-> i.at + AbsoluteLifetime,
                      heir     |-> None]
           ended(p) == IF i.cause = "reauthentication"
                       THEN [session[p] EXCEPT !.state = "revoked"]
                       ELSE [session[p] EXCEPT !.state = "rotated", !.heir = r]
       IN  /\ authority' = [authority EXCEPT ![i.subject].next = i.version + 1]
           /\ session' = [q \in Refs |-> IF q = r THEN minted
                                         ELSE IF q = i.prior THEN ended(q)
                                         ELSE session[q]]
    /\ issuance' = [issuance EXCEPT ![r].pc = "committed"]
    /\ Release(r)
    /\ Publish(r, Holds(r))
    /\ UNCHANGED <<grant, mutation, gate, clock>>

\* Any failure of the ceremony's transaction: nothing committed, the prepared
\* hand-off may be consumed again ("still_processing").
AbandonIssuance(r) ==
    /\ issuance[r].pc \in IssuanceInTxn
    /\ issuance' = [issuance EXCEPT ![r] = [issuance[r] EXCEPT !.pc = "new", !.prior = None]]
    /\ Discard(r)
    /\ UNCHANGED <<authority, session, grant, mutation, gate, clock>>

-----------------------------------------------------------------------------
(***************************************************************************)
(* Autocommitted statements: each waits for its row's holder.              *)
(***************************************************************************)
\* logout: one row, no epoch effect.
Logout(r) ==
    /\ session[r].state = "active"
    /\ Free(r)
    /\ session' = [session EXCEPT ![r].state = "revoked"]
    /\ Publish(None, {r})
    /\ UNCHANGED <<authority, grant, mutation, issuance, gate, lock, clock>>

\* Faulty: the lifecycle moves and the epoch does not.
BumpEpochLifecycleOnly(s, cause) ==
    /\ Free(s)
    /\ authority[s].lifecycle \notin TerminalLifecycles
    /\ authority' = [authority EXCEPT ![s].lifecycle = LifecycleAfter(cause, @)]
    /\ Publish(None, {s})
    /\ UNCHANGED <<session, grant, mutation, issuance, gate, lock, clock>>

\* bumpSubjectEpoch / applyProviderEffect: one compare-and-swap.  The trigger
\* refuses to move a terminal lifecycle, and the bump with it.
BumpEpoch(s, cause) ==
    /\ authority[s].epoch < MaxEpoch
    /\ Free(s)
    /\ LET to == LifecycleAfter(cause, authority[s].lifecycle)
       IN  /\ authority[s].lifecycle \in TerminalLifecycles => to = authority[s].lifecycle
           /\ authority' = [authority EXCEPT ![s] =
                              [authority[s] EXCEPT !.epoch = authority[s].epoch + 1,
                                                   !.lifecycle = to]]
    /\ Publish(None, {s})
    /\ UNCHANGED <<session, grant, mutation, issuance, gate, lock, clock>>

\* An identity-only resolution reads, and slides later, with the instant it
\* captured, only if it can lock the row without waiting.
GateRead(q, r) ==
    /\ gate[q].ref = None
    /\ Resolves(r, clock)
    /\ gate' = [gate EXCEPT ![q] = [ref |-> r, at |-> clock]]
    /\ UNCHANGED <<authority, session, grant, mutation, issuance, lock, stale, clock>>

GateSlide(q) ==
    /\ gate[q].ref # None
    /\ LET r == gate[q].ref
       IN  IF Free(r) /\ session[r].state = "active"
           THEN /\ session' = [session EXCEPT ![r].idle =
                                  Least(gate[q].at + IdleTimeout, session[r].absolute)]
                /\ Publish(None, {r})
           ELSE UNCHANGED <<session, stale>>
    /\ gate' = [gate EXCEPT ![q] = [ref |-> None, at |-> 0]]
    /\ UNCHANGED <<authority, grant, mutation, issuance, lock, clock>>

\* completeStepUp: the session is read, and the grant inserted afterwards; the
\* partial unique index keeps one unspent grant per session (one action and
\* one space are modelled), however old that grant is.
StepUpRead(g, r) ==
    /\ grant[g].state = "none"
    /\ session[r].state = "active" /\ Unexpired(r, clock)
    /\ grant' = [grant EXCEPT ![g] = [state |-> "reading", ref |-> r,
                                      expires |-> clock + GrantWindow]]
    /\ UNCHANGED <<authority, session, mutation, issuance, gate, lock, stale, clock>>

Unspent(r) == {h \in Grants : grant[h].state = "issued" /\ grant[h].ref = r}

StepUpInsert(g) ==
    /\ grant[g].state = "reading"
    /\ \A h \in Unspent(grant[g].ref) : Free(h)
    /\ grant' =
         IF Unspent(grant[g].ref) # {}
         THEN [grant EXCEPT ![g].state = "refused"]
         ELSE [grant EXCEPT ![g].state = "issued"]
    /\ UNCHANGED <<authority, session, mutation, issuance, gate, lock, stale, clock>>

Tick ==
    /\ clock < MaxClock
    /\ clock' = clock + 1
    /\ UNCHANGED <<authority, session, grant, mutation, issuance, gate, lock, stale>>

-----------------------------------------------------------------------------
MutationStep(m) ==
    \/ \E r \in Refs, g \in Grants \cup {None} : Authorize(m, r, g)
    \/ BeginAttempt(m)
    \/ TouchSession(m)
    \/ FenceEpoch(m)
    \/ SpendGrant(m)
    \/ CommitMutation(m)
    \/ RetryAttempt(m)
    \/ AbandonMutation(m)

IssuanceStep(r) ==
    \/ \E s \in Subjects, cause \in IssueCauses, p \in Refs \cup {None} :
          BeginIssuance(r, s, cause, p) \/ RejectIssuance(r, s, cause, p)
    \/ AllocateVersion(r)
    \/ RetirePrior(r)
    \/ CommitIssuance(r)
    \/ AbandonIssuance(r)

StatementStep ==
    \/ \E r \in Refs : Logout(r)
    \/ \E s \in Subjects, cause \in BumpCauses : BumpEpoch(s, cause)
    \/ \E q \in Gates, r \in Refs : GateRead(q, r)
    \/ \E q \in Gates : GateSlide(q)
    \/ \E g \in Grants, r \in Refs : StepUpRead(g, r)
    \/ \E g \in Grants : StepUpInsert(g)
    \/ Tick

Next ==
    \/ \E m \in Mutations : MutationStep(m)
    \/ \E r \in Refs : IssuanceStep(r)
    \/ StatementStep

Spec == Init /\ [][Next]_vars

-----------------------------------------------------------------------------
(***************************************************************************)
(* Properties.                                                             *)
(***************************************************************************)
\* The columns of each table, and the states of each actor.
AuthorityRow == [next : Nat, epoch : Nat, lifecycle : Lifecycles]
SessionRow == [state : SessionStates, subject : Subjects \cup {None}, version : Nat,
               epoch : Nat, idle : Nat, absolute : Nat, heir : Refs \cup {None}]
MutationRecord == [pc : MutationPcs, ref : Refs \cup {None}, grant : Grants \cup {None},
                   at : Nat, attempt : Nat]
IssuanceRecord == [pc : IssuancePcs, subject : Subjects \cup {None},
                   prior : Refs \cup {None}, cause : IssueCauses, version : Nat,
                   epoch : Nat, at : Nat]

AuthorityTable == [Subjects -> AuthorityRow]
SessionTable == [Refs -> SessionRow]
GrantTable ==
    [Grants -> [state : {"none", "reading", "issued", "refused", "consumed"},
                ref : Refs \cup {None}, expires : Nat]]
MutationTable == [Mutations -> MutationRecord]
IssuanceTable == [Refs -> IssuanceRecord]
GateTable == [Gates -> [ref : Refs \cup {None}, at : Nat]]
LockTable == [Rows -> Txns \cup {None}]
StaleTable == [Txns -> SUBSET Rows]

\* Every variable has its shape.
TypeOK ==
    /\ authority \in AuthorityTable
    /\ session \in SessionTable
    /\ grant \in GrantTable
    /\ mutation \in MutationTable
    /\ issuance \in IssuanceTable
    /\ gate \in GateTable
    /\ lock \in LockTable
    /\ stale \in StaleTable
    /\ clock \in Nat

Commits(m) == mutation[m].pc # "committed" /\ mutation'[m].pc = "committed"

\* No revocation is overtaken: at the instant a mutation's transaction commits
\* its session row is active, at its subject's current epoch, and the subject
\* is active, whatever was revoked since the request was authorized
\* (store.ts fenceRevocationEpoch, "no revoke or subject-wide bump can land
\* between the commit-time session read and the mutation's COMMIT").
CommitOnlyLive ==
    [][\A m \in Mutations :
         Commits(m) => /\ Live(mutation[m].ref)
                       /\ authority[SubjectOf(m)].lifecycle = "active"]_vars

\* A subject that is disabled, deleted or security-blocked has no session that
\* resolves, although resolution compares epochs and never reads the lifecycle
\* (resolve.ts decision table, revocation.ts LIFECYCLE_TRANSITIONS).
ClosedSubjectHasNoLiveSession ==
    \A r \in Refs : Issued(r) /\ Live(r) => authority[session[r].subject].lifecycle = "active"

\* Two sessions of one subject never share a session version, although
\* concurrent sign-ins read the same counter (allocateSessionVersionFenced).
VersionsDistinct ==
    \A r, q \in Refs :
        /\ r # q /\ Issued(r) /\ Issued(q)
        /\ session[r].subject = session[q].subject
        => session[r].version # session[q].version

\* A committed issuance ended the very session it replaced, in the way its
\* cause demands; two issuances never replace the same one (markRotated and
\* the reauthentication's markRevoked match only an active row).
PriorEndedByItsHeir ==
    \A r \in Refs :
        issuance[r].pc = "committed" /\ issuance[r].prior # None =>
            LET p == session[issuance[r].prior]
            IN  IF issuance[r].cause = "reauthentication"
                THEN p.state = "revoked" /\ p.heir = None
                ELSE p.state = "rotated" /\ p.heir = r

\* "Idle expiry slides forward on every successfully resolved request"
\* (store.ts, extendIdleExpiry): no step moves it back.
IdleSlidesForward ==
    [][\A r \in Refs : Issued(r) => session'[r].idle >= session[r].idle]_vars

\* "A second live grant ... is refused": while the session is live, a step-up
\* is refused only because the session holds a grant that was usable when the
\* ceremony read its instant (fresh-assurance.ts, issueFreshAssurance).
RefusedOnlyByLiveGrant ==
    [][\A g \in Grants :
         /\ grant[g].state = "reading" /\ grant'[g].state = "refused"
         /\ Resolves(grant[g].ref, clock)
         => \E h \in Grants :
               Usable(h, grant[g].ref, grant[g].expires - GrantWindow)]_vars

\* The refinement mapping: a session lives while its row is active at its
\* subject's current epoch.
Contract == INSTANCE SessionContract WITH
    live   <- {r \in Refs : Issued(r) /\ Live(r)},
    ended  <- {r \in Refs : Issued(r) /\ ~Live(r)},
    owner  <- [r \in Refs |-> session[r].subject],
    closed <- {s \in Subjects : authority[s].lifecycle # "active"},
    spent  <- {g \in Grants : grant[g].state = "consumed"},
    acted  <- [m \in Mutations |-> IF mutation[m].pc = "committed"
                                   THEN mutation[m].ref ELSE None]

\* The whole protocol -- snapshots, locks, retries, crashes -- implements the
\* contract: one atomic life per session, acts only on live sessions, each
\* grant spent by one act.
ImplementsContract == Contract!Spec
=============================================================================
