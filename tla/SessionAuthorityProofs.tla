----------------------- MODULE SessionAuthorityProofs -----------------------
(***************************************************************************)
(* Theorems of SessionAuthority, for every value of its constants.         *)
(*                                                                         *)
(* The argument: a row a transaction has locked has not changed since its  *)
(* snapshot (Locking), so what the snapshot showed of that row still holds *)
(* (Snapshot); a mutation commits only once it holds both its session row  *)
(* and its subject's authority row, hence the session it resolved is still *)
(* live when it commits.                                                   *)
(***************************************************************************)
EXTENDS SessionAuthority, TLAPS

-----------------------------------------------------------------------------
(***************************************************************************)
(* Type correctness.                                                       *)
(***************************************************************************)

\* Taking the smaller of two instants yields an instant.
LEMMA LeastType == ASSUME NEW a \in Nat, NEW b \in Nat PROVE Least(a, b) \in Nat
  BY DEF Least

\* Locks released by a transaction leave a well-typed lock table.
LEMMA ReleaseType ==
  ASSUME lock \in LockTable, NEW t, Release(t)
  PROVE  lock' \in LockTable
  BY DEF LockTable, Release

\* A lock taken by a transaction leaves a well-typed lock table.
LEMMA TakeType ==
  ASSUME lock \in LockTable, NEW t \in Txns, NEW w, Take(t, w)
  PROVE  lock' \in LockTable
  BY DEF LockTable, Take

\* Publishing rows leaves a well-typed staleness table.
LEMMA PublishType ==
  ASSUME stale \in StaleTable, NEW t, NEW ws \in SUBSET Rows, Publish(t, ws)
  PROVE  stale' \in StaleTable
  BY DEF StaleTable, Publish

\* Discarding a transaction leaves both tables well typed.
LEMMA DiscardType ==
  ASSUME lock \in LockTable, stale \in StaleTable, NEW t, Discard(t)
  PROVE  lock' \in LockTable /\ stale' \in StaleTable
  BY ReleaseType DEF StaleTable, Discard

\* A step of a mutation keeps every variable in its type.
LEMMA MutationType ==
  ASSUME TypeOK, NEW m \in Mutations, MutationStep(m)
  PROVE  TypeOK'
  <1>0. m \in Txns  BY DEF Txns
  <1>1. ASSUME NEW r \in Refs, NEW g \in Grants \cup {None}, Authorize(m, r, g)
        PROVE  TypeOK'
    <2>1. mutation' \in MutationTable
      BY <1>1 DEF Authorize, TypeOK, MutationTable, MutationRecord, MutationPcs
    <2> QED  BY <1>1, <2>1 DEF Authorize, TypeOK
  <1>2. CASE BeginAttempt(m)
    <2>1. mutation' \in MutationTable
      <3>1. \/ mutation' = [mutation EXCEPT ![m] =
                                 [mutation[m] EXCEPT !.pc = "read", !.at = clock]]
            \/ mutation' = [mutation EXCEPT ![m].pc = "denied"]
        BY <1>2, Zenon DEF BeginAttempt
      <3>2. mutation[m] \in MutationRecord /\ clock \in Nat
        BY DEF TypeOK, MutationTable
      <3>3. [mutation[m] EXCEPT !.pc = "read", !.at = clock] \in MutationRecord
        BY <3>2 DEF MutationRecord, MutationPcs
      <3>4. [mutation[m] EXCEPT !.pc = "denied"] \in MutationRecord
        BY <3>2 DEF MutationRecord, MutationPcs
      <3> QED  BY <3>1, <3>3, <3>4 DEF TypeOK, MutationTable
    <2> QED  BY <1>2, <2>1 DEF BeginAttempt, TypeOK
  <1>3. CASE TouchSession(m)
    <2>1. mutation' \in MutationTable
      BY <1>3 DEF TouchSession, TypeOK, MutationTable, MutationRecord, MutationPcs
    <2> QED  BY <1>0, <1>3, <2>1, TakeType DEF TouchSession, TypeOK
  <1>4. CASE FenceEpoch(m)
    <2>1. mutation' \in MutationTable
      BY <1>4 DEF FenceEpoch, TypeOK, MutationTable, MutationRecord, MutationPcs
    <2> QED  BY <1>0, <1>4, <2>1, TakeType DEF FenceEpoch, TypeOK
  <1>5. CASE SpendGrant(m)
    <2>1. mutation' \in MutationTable
      BY <1>5 DEF SpendGrant, TypeOK, MutationTable, MutationRecord, MutationPcs
    <2> QED  BY <1>0, <1>5, <2>1, TakeType DEF SpendGrant, TypeOK
  <1>6. CASE CommitMutation(m)
    <2>1. mutation' \in MutationTable
      BY <1>6 DEF CommitMutation, TypeOK, MutationTable, MutationRecord, MutationPcs
    <2>2. lock' \in LockTable
      BY <1>6, ReleaseType DEF CommitMutation, TypeOK
    <2>3. stale' \in StaleTable
      BY <1>6, PublishType DEF CommitMutation, TypeOK, Holds
    <2>4. session' \in SessionTable
      <3> DEFINE r == mutation[m].ref
                 slid == Least(mutation[m].at + IdleTimeout, session[r].absolute)
      <3>1. session' = [session EXCEPT ![r].idle = slid]
        BY <1>6 DEF CommitMutation
      <3>2. CASE r \in Refs
        <4>1. mutation[m].at + IdleTimeout \in Nat /\ session[r].absolute \in Nat
          BY <3>2, DurationAssumption DEF TypeOK, MutationTable, MutationRecord, SessionTable, SessionRow
        <4>2. slid \in Nat
          BY <4>1, LeastType
        <4> HIDE DEF slid
        <4> QED  BY <3>1, <3>2, <4>2 DEF TypeOK, SessionTable, SessionRow
      <3>3. CASE r \notin Refs
        <4> HIDE DEF slid, r
        <4> QED  BY <3>1, <3>3 DEF TypeOK, SessionTable, SessionRow
      <3> QED  BY <3>2, <3>3
    <2>5. grant' \in GrantTable
      BY <1>6 DEF CommitMutation, TypeOK, GrantTable
    <2> QED  BY <1>6, <2>1, <2>2, <2>3, <2>4, <2>5 DEF CommitMutation, TypeOK
  <1>7. CASE RetryAttempt(m)
    <2>1. mutation' \in MutationTable
      <3>1. \/ mutation' = [mutation EXCEPT ![m] =
                                 [mutation[m] EXCEPT !.pc = "allowed",
                                                     !.attempt = mutation[m].attempt + 1]]
            \/ mutation' = [mutation EXCEPT ![m].pc = "denied"]
        BY <1>7, Zenon DEF RetryAttempt
      <3>2. mutation[m] \in MutationRecord
        BY DEF TypeOK, MutationTable
      <3>3. \A n \in Nat :
              [mutation[m] EXCEPT !.pc = "allowed", !.attempt = n] \in MutationRecord
        BY <3>2 DEF MutationRecord, MutationPcs
      <3>5. mutation[m].attempt + 1 \in Nat
        BY <3>2 DEF MutationRecord
      <3>4. [mutation[m] EXCEPT !.pc = "denied"] \in MutationRecord
        BY <3>2 DEF MutationRecord, MutationPcs
      <3> QED  BY <3>1, <3>3, <3>4, <3>5 DEF TypeOK, MutationTable
    <2> QED  BY <1>7, <2>1, DiscardType DEF RetryAttempt, TypeOK
  <1>8. CASE AbandonMutation(m)
    <2>1. mutation' \in MutationTable
      BY <1>8 DEF AbandonMutation, TypeOK, MutationTable, MutationRecord, MutationPcs
    <2> QED  BY <1>8, <2>1, DiscardType DEF AbandonMutation, TypeOK
  <1> QED
    BY <1>1, <1>2, <1>3, <1>4, <1>5, <1>6, <1>7, <1>8 DEF MutationStep

\* A step of an issuance keeps every variable in its type.
LEMMA IssuanceType ==
  ASSUME TypeOK, NEW r \in Refs, IssuanceStep(r)
  PROVE  TypeOK'
  <1>0. r \in Txns  BY DEF Txns
  <1>1. ASSUME NEW s \in Subjects, NEW cause \in IssueCauses, NEW p \in Refs \cup {None},
               BeginIssuance(r, s, cause, p)
        PROVE  TypeOK'
    <2>1. issuance' \in IssuanceTable
      BY <1>1 DEF BeginIssuance, TypeOK, IssuanceTable, IssuanceRecord, IssuancePcs, AuthorityTable, AuthorityRow
    <2> QED  BY <1>1, <2>1 DEF BeginIssuance, TypeOK
  <1>2. ASSUME NEW s \in Subjects, NEW cause \in IssueCauses, NEW p \in Refs \cup {None},
               RejectIssuance(r, s, cause, p)
        PROVE  TypeOK'
    <2>1. issuance' \in IssuanceTable
      BY <1>2 DEF RejectIssuance, TypeOK, IssuanceTable, IssuanceRecord, IssuancePcs
    <2> QED  BY <1>2, <2>1 DEF RejectIssuance, TypeOK
  <1>3. CASE AllocateVersion(r)
    <2>1. issuance' \in IssuanceTable
      BY <1>3 DEF AllocateVersion, TypeOK, IssuanceTable, IssuanceRecord, IssuancePcs
    <2> QED  BY <1>0, <1>3, <2>1, TakeType DEF AllocateVersion, TypeOK
  <1>4. CASE RetirePrior(r)
    <2>1. issuance' \in IssuanceTable
      BY <1>4 DEF RetirePrior, TypeOK, IssuanceTable, IssuanceRecord, IssuancePcs
    <2> QED  BY <1>0, <1>4, <2>1, TakeType DEF RetirePrior, TypeOK
  <1>5. CASE CommitIssuance(r)
    <2>1. issuance' \in IssuanceTable
      BY ZenonT(40), <1>5 DEF CommitIssuance, TypeOK, IssuanceTable, IssuanceRecord, IssuancePcs
    <2>2. lock' \in LockTable
      BY <1>5, ReleaseType DEF CommitIssuance, TypeOK
    <2>3. stale' \in StaleTable
      BY <1>5, PublishType DEF CommitIssuance, TypeOK, Holds
    <2>4. session' \in SessionTable
      <3>1. Least(IdleTimeout, AbsoluteLifetime) \in Nat
        BY LeastType, DurationAssumption
      <3>2. issuance[r] \in IssuanceRecord
        BY DEF TypeOK, IssuanceTable, IssuanceRecord
      <3>3. issuance[r].at + Least(IdleTimeout, AbsoluteLifetime) \in Nat
            /\ issuance[r].at + AbsoluteLifetime \in Nat
        BY <3>1, <3>2, DurationAssumption DEF IssuanceRecord
      <3> DEFINE minted ==
                   [state |-> "active", subject |-> issuance[r].subject,
                    version |-> issuance[r].version, epoch |-> issuance[r].epoch,
                    idle |-> issuance[r].at + Least(IdleTimeout, AbsoluteLifetime),
                    absolute |-> issuance[r].at + AbsoluteLifetime, heir |-> None]
                 ended(p) == IF issuance[r].cause = "reauthentication"
                             THEN [session[p] EXCEPT !.state = "revoked"]
                             ELSE [session[p] EXCEPT !.state = "rotated", !.heir = r]
      <3>4. session' = [q \in Refs |-> IF q = r THEN minted
                                       ELSE IF q = issuance[r].prior THEN ended(q)
                                       ELSE session[q]]
        BY <1>5, Zenon DEF CommitIssuance
      <3>5. minted \in SessionRow
        BY <3>2, <3>3 DEF SessionRow, SessionStates, IssuanceRecord
      <3>6. \A q \in Refs : ended(q) \in SessionRow
        BY DEF TypeOK, SessionTable, SessionRow, SessionStates
      <3> HIDE DEF minted, ended
      <3> QED  BY <3>4, <3>5, <3>6 DEF TypeOK, SessionTable, SessionRow
    <2>5. authority' \in AuthorityTable
      <3>1. issuance[r].version + 1 \in Nat
        BY DEF TypeOK, IssuanceTable, IssuanceRecord
      <3> QED  BY <1>5, <3>1 DEF CommitIssuance, TypeOK, AuthorityTable, AuthorityRow
    <2> QED  BY <1>5, <2>1, <2>2, <2>3, <2>4, <2>5 DEF CommitIssuance, TypeOK
  <1>6. CASE AbandonIssuance(r)
    <2>1. issuance' \in IssuanceTable
      BY ZenonT(40), <1>6 DEF AbandonIssuance, TypeOK, IssuanceTable, IssuanceRecord, IssuancePcs
    <2> QED  BY <1>6, <2>1, DiscardType DEF AbandonIssuance, TypeOK
  <1> QED
    BY <1>1, <1>2, <1>3, <1>4, <1>5, <1>6 DEF IssuanceStep

\* An autocommitted statement keeps every variable in its type.
LEMMA StatementType ==
  ASSUME TypeOK, StatementStep
  PROVE  TypeOK'
  <1>0. \A w \in Subjects \cup Refs : {w} \in SUBSET Rows  BY DEF Rows
  <1>1. ASSUME NEW r \in Refs, Logout(r) PROVE TypeOK'
    <2>1. stale' \in StaleTable
      BY <1>0, <1>1, PublishType DEF Logout, TypeOK
    <2>2. session' \in SessionTable
      BY <1>1 DEF Logout, TypeOK, SessionTable, SessionRow, SessionStates
    <2> QED  BY <1>1, <2>1, <2>2 DEF Logout, TypeOK
  <1>2. ASSUME NEW s \in Subjects, NEW cause \in BumpCauses, BumpEpoch(s, cause) PROVE TypeOK'
    <2>1. stale' \in StaleTable
      BY <1>0, <1>2, PublishType DEF BumpEpoch, TypeOK
    <2>2. LifecycleAfter(cause, authority[s].lifecycle) \in Lifecycles
      BY DEF LifecycleAfter, Lifecycles, TypeOK, AuthorityTable, AuthorityRow
    <2>3. authority' \in AuthorityTable
      <3>1. authority' = [authority EXCEPT ![s] =
                            [authority[s] EXCEPT
                               !.epoch = authority[s].epoch + 1,
                               !.lifecycle = LifecycleAfter(cause, authority[s].lifecycle)]]
        BY <1>2, Zenon DEF BumpEpoch
      <3>2. \A n \in Nat, l \in Lifecycles :
              [authority[s] EXCEPT !.epoch = n, !.lifecycle = l] \in AuthorityRow
        BY DEF TypeOK, AuthorityTable, AuthorityRow
      <3>3. authority[s].epoch + 1 \in Nat
        BY DEF TypeOK, AuthorityTable, AuthorityRow
      <3> QED  BY <2>2, <3>1, <3>2, <3>3 DEF TypeOK, AuthorityTable
    <2> QED  BY <1>2, <2>1, <2>3 DEF BumpEpoch, TypeOK
  <1>3. ASSUME NEW q \in Gates, NEW r \in Refs, GateRead(q, r) PROVE TypeOK'
    <2>1. gate' \in GateTable
      BY <1>3 DEF GateRead, TypeOK, GateTable
    <2> QED  BY <1>3, <2>1 DEF GateRead, TypeOK
  <1>4. ASSUME NEW q \in Gates, GateSlide(q) PROVE TypeOK'
    <2>1. gate[q].ref \in Refs /\ gate[q].at \in Nat
      BY <1>4 DEF GateSlide, TypeOK, GateTable
    <2>2. gate[q].at + IdleTimeout \in Nat /\ session[gate[q].ref].absolute \in Nat
      BY <2>1, DurationAssumption DEF TypeOK, SessionTable, SessionRow
    <2>22. Least(gate[q].at + IdleTimeout, session[gate[q].ref].absolute) \in Nat
      BY <2>2, LeastType
    <2>3. stale' \in StaleTable
      BY <1>0, <1>4, <2>1, PublishType DEF GateSlide, TypeOK
    <2>4. session' \in SessionTable
      BY <1>4, <2>1, <2>22 DEF GateSlide, TypeOK, SessionTable, SessionRow
    <2>5. gate' \in GateTable
      BY <1>4 DEF GateSlide, TypeOK, GateTable
    <2> QED  BY <1>4, <2>3, <2>4, <2>5 DEF GateSlide, TypeOK
  <1>5. ASSUME NEW g \in Grants, NEW r \in Refs, StepUpRead(g, r) PROVE TypeOK'
    <2>1. grant' \in GrantTable
      BY <1>5, DurationAssumption DEF StepUpRead, TypeOK, GrantTable
    <2> QED  BY <1>5, <2>1 DEF StepUpRead, TypeOK
  <1>6. ASSUME NEW g \in Grants, StepUpInsert(g) PROVE TypeOK'
    <2>1. grant' \in GrantTable
      BY <1>6 DEF StepUpInsert, TypeOK, GrantTable
    <2> QED  BY <1>6, <2>1 DEF StepUpInsert, TypeOK
  <1>7. CASE Tick
    BY <1>7 DEF Tick, TypeOK
  <1> QED
    BY <1>1, <1>2, <1>3, <1>4, <1>5, <1>6, <1>7 DEF StatementStep

\* The initial state is well typed.
LEMMA TypeInit == Init => TypeOK
  BY DEF Init, TypeOK, AuthorityTable, AuthorityRow, SessionTable, SessionRow,
         GrantTable, MutationTable, MutationRecord, IssuanceTable, IssuanceRecord,
         GateTable, LockTable, StaleTable, SessionStates,
         Lifecycles, MutationPcs, IssuancePcs, IssueCauses

\* Every variable keeps its shape, whatever the interleaving.
THEOREM TypeCorrect == Spec => []TypeOK
  <1>1. Init => TypeOK
    BY TypeInit
  <1>2. TypeOK /\ [Next]_vars => TypeOK'
    <2> SUFFICES ASSUME TypeOK, [Next]_vars PROVE TypeOK'
      OBVIOUS
    <2>1. CASE Next
      BY <2>1, MutationType, IssuanceType, StatementType DEF Next
    <2>2. CASE UNCHANGED vars
      BY <2>2 DEF vars, TypeOK
    <2> QED  BY <2>1, <2>2
  <1> QED  BY <1>1, <1>2, PTL DEF Spec

-----------------------------------------------------------------------------
(***************************************************************************)
(* The inductive invariant.                                                *)
(***************************************************************************)

\* A session row always belongs to a subject, and was committed by its issuance.
RowSound(r) ==
    Issued(r) => session[r].subject \in Subjects /\ issuance[r].pc = "committed"

\* No session is ahead of its subject's counters; a session at the current
\* epoch belongs to an active subject.
RowAhead(r) ==
    Issued(r) =>
        /\ session[r].epoch <= authority[session[r].subject].epoch
        /\ session[r].version < authority[session[r].subject].next
        /\ session[r].epoch = authority[session[r].subject].epoch =>
              authority[session[r].subject].lifecycle = "active"

\* A transaction holds no row of which a newer version than its snapshot exists.
HeldIsCurrent(t) == \A w \in Rows : lock[w] = t => w \notin stale[t]

\* A mutation has resolved an issued session, holds the rows its statements so
\* far have written, and what its snapshot showed of a row still holds unless
\* that row is stale for it.
MutationSound(m) ==
    /\ mutation[m].pc # "new" => mutation[m].ref \in Refs /\ Issued(mutation[m].ref)
    /\ mutation[m].pc \in {"touched", "fenced", "spent"} => lock[mutation[m].ref] = m
    /\ mutation[m].pc \in {"fenced", "spent"} => lock[SubjectOf(m)] = m
    /\ mutation[m].pc \in MutationInTxn =>
          /\ mutation[m].ref \notin stale[m] => session[mutation[m].ref].state = "active"
          /\ SubjectOf(m) \notin stale[m] =>
                session[mutation[m].ref].epoch = authority[SubjectOf(m)].epoch

\* The same of an issuance.
IssuanceSound(r) ==
    /\ issuance[r].pc \in IssuanceInTxn => issuance[r].subject \in Subjects
    /\ issuance[r].prior # None => Issued(issuance[r].prior)
    /\ issuance[r].pc \in {"allocated", "retired"} => lock[issuance[r].subject] = r
    /\ issuance[r].pc = "retired" /\ issuance[r].prior # None => lock[issuance[r].prior] = r
    /\ issuance[r].pc \in IssuanceInTxn /\ issuance[r].subject \notin stale[r] =>
          /\ authority[issuance[r].subject].lifecycle = "active"
          /\ authority[issuance[r].subject].epoch = issuance[r].epoch
          /\ authority[issuance[r].subject].next = issuance[r].version

IInv ==
    /\ TypeOK
    /\ \A r \in Refs : RowSound(r) /\ RowAhead(r) /\ IssuanceSound(r)
    /\ \A m \in Mutations : MutationSound(m)
    /\ \A t \in Txns : HeldIsCurrent(t)

(***************************************************************************)
(* A step of t leaves the locks of every other transaction alone and       *)
(* outdates no row another transaction holds.                              *)
(***************************************************************************)
OthersKeep(t) ==
    \A u \in Txns \ {t}, w \in Rows :
        /\ lock[w] = u <=> lock'[w] = u
        /\ w \in stale[u] => w \in stale'[u]
        /\ lock[w] = u => (w \in stale'[u] => w \in stale[u])

\* Taking a free row disturbs no one else.
LEMMA TakeKeeps ==
  ASSUME TypeOK, NEW t \in Txns, NEW x \in Rows, Take(t, x), stale' = stale
  PROVE  OthersKeep(t)
  BY NoneAssumption DEF TypeOK, LockTable, StaleTable, Take, Free, OthersKeep

\* Committing publishes only rows the transaction itself held.
LEMMA CommitKeeps ==
  ASSUME TypeOK, NEW t \in Txns, Release(t), Publish(t, Holds(t))
  PROVE  OthersKeep(t)
  <1> SUFFICES ASSUME NEW u \in Txns \ {t}, NEW w \in Rows
               PROVE  /\ lock[w] = u <=> lock'[w] = u
                      /\ w \in stale[u] => w \in stale'[u]
                      /\ lock[w] = u => (w \in stale'[u] => w \in stale[u])
    BY DEF OthersKeep
  <1>1. lock[w] = u <=> lock'[w] = u
    BY NoneAssumption DEF Release
  <1>2. w \in Holds(t) <=> lock[w] = t
    BY DEF Holds
  <1>3. stale'[u] = stale[u] \/ stale'[u] = stale[u] \cup Holds(t)
    BY DEF Publish
  <1> QED  BY <1>1, <1>2, <1>3

\* Rolling back disturbs no one else.
LEMMA DiscardKeeps ==
  ASSUME TypeOK, NEW t \in Txns, Discard(t)
  PROVE  OthersKeep(t)
  BY NoneAssumption DEF TypeOK, StaleTable, Discard, Release, OthersKeep

\* An autocommitted statement writes a row nobody holds.
LEMMA StatementKeeps ==
  ASSUME TypeOK, NEW x \in Rows, Free(x), lock' = lock, Publish(None, {x})
  PROVE  OthersKeep(None)
  BY NoneAssumption DEF TypeOK, Free, Publish, OthersKeep

-----------------------------------------------------------------------------
(***************************************************************************)
(* Preservation, one group of steps at a time.                             *)
(***************************************************************************)

\* The columns of a session the argument rests on are what they were.
SameSessions ==
    \A r \in Refs : /\ session'[r].state = session[r].state
                    /\ session'[r].subject = session[r].subject
                    /\ session'[r].epoch = session[r].epoch
                    /\ session'[r].version = session[r].version

\* A mutation changes no session but its idle expiry, and no other actor.
LEMMA MutationFrame ==
  ASSUME IInv, NEW m \in Mutations, MutationStep(m)
  PROVE  /\ SameSessions
         /\ UNCHANGED <<authority, issuance>>
         /\ \A n \in Mutations : n # m => mutation'[n] = mutation[n]
         /\ OthersKeep(m)
  <1>0. TypeOK /\ m \in Txns  BY DEF IInv, Txns
  <1>10. UNCHANGED <<authority, issuance>>
    BY DEF MutationStep, Authorize, BeginAttempt, TouchSession, FenceEpoch, SpendGrant,
           CommitMutation, RetryAttempt, AbandonMutation
  <1>11. ASSUME NEW n \in Mutations, n # m PROVE mutation'[n] = mutation[n]
    <2>1. \E v : mutation' = [mutation EXCEPT ![m] = v]
      BY <1>0 DEF MutationStep, Authorize, BeginAttempt, TouchSession, FenceEpoch, SpendGrant,
                  CommitMutation, RetryAttempt, AbandonMutation, TypeOK, MutationTable
    <2> QED  BY <1>0, <1>11, <2>1 DEF TypeOK, MutationTable
  <1> SUFFICES SameSessions /\ OthersKeep(m)
    BY <1>10, <1>11
  <1>1. ASSUME NEW r \in Refs, NEW g \in Grants \cup {None}, Authorize(m, r, g)
        PROVE  SameSessions /\ OthersKeep(m)
    BY <1>1 DEF Authorize, SameSessions, OthersKeep
  <1>2. CASE BeginAttempt(m)
    <2>1. session' = session /\ lock' = lock /\ stale' = stale  BY <1>2 DEF BeginAttempt
    <2> QED  BY <2>1 DEF SameSessions, OthersKeep
  <1>3. CASE TouchSession(m)
    <2>1. mutation[m].ref \in Rows  BY <1>3 DEF IInv, MutationSound, TouchSession, Rows
    <2> QED  BY <1>0, <1>3, <2>1, TakeKeeps DEF TouchSession, SameSessions
  <1>4. CASE FenceEpoch(m)
    <2>1. SubjectOf(m) \in Rows
      BY <1>4 DEF IInv, MutationSound, RowSound, FenceEpoch, Rows, SubjectOf
    <2> QED  BY <1>0, <1>4, <2>1, TakeKeeps DEF FenceEpoch, SameSessions
  <1>5. CASE SpendGrant(m)
    <2>1. mutation[m].grant \in Grants \cup {None}
      BY <1>0 DEF TypeOK, MutationTable, MutationRecord
    <2>2. CASE mutation[m].grant = None
      BY <1>5, <2>2 DEF SpendGrant, SameSessions, OthersKeep
    <2>3. CASE mutation[m].grant # None
      BY <1>0, <1>5, <2>1, <2>3, TakeKeeps DEF SpendGrant, SameSessions, Rows
    <2> QED  BY <2>2, <2>3
  <1>6. CASE CommitMutation(m)
    <2>1. SameSessions
      BY <1>0, <1>6 DEF CommitMutation, SameSessions, TypeOK, SessionTable, SessionRow
    <2> QED  BY <1>0, <1>6, <2>1, CommitKeeps DEF CommitMutation
  <1>7. CASE RetryAttempt(m)
    <2>1. session' = session /\ Discard(m)  BY <1>7 DEF RetryAttempt
    <2> QED  BY <1>0, <2>1, DiscardKeeps DEF SameSessions
  <1>8. CASE AbandonMutation(m)
    BY <1>0, <1>8, DiscardKeeps DEF AbandonMutation, SameSessions
  <1> QED
    BY <1>1, <1>2, <1>3, <1>4, <1>5, <1>6, <1>7, <1>8 DEF MutationStep

\* A mutation's own step keeps it sound.
LEMMA MutationOwn ==
  ASSUME IInv, NEW m \in Mutations, MutationStep(m), SameSessions, authority' = authority
  PROVE  MutationSound(m)' /\ HeldIsCurrent(m)'
  <1>0. TypeOK /\ m \in Txns /\ MutationSound(m) /\ HeldIsCurrent(m)
    BY DEF IInv, Txns
  <1>00. \A r \in Refs : RowSound(r)
    BY DEF IInv
  <1> USE DEF MutationInTxn
  <1>1. ASSUME NEW r \in Refs, NEW g \in Grants \cup {None}, Authorize(m, r, g)
        PROVE  MutationSound(m)' /\ HeldIsCurrent(m)'
    <2>1. /\ mutation'[m].pc = "allowed" /\ mutation'[m].ref = r
          /\ session[r].state = "active"
          /\ UNCHANGED <<session, lock, stale>>
      BY <1>0, <1>1 DEF Authorize, Allowed, Resolves, Live, TypeOK, MutationTable, MutationRecord
    <2> QED  BY <1>0, <2>1 DEF MutationSound, HeldIsCurrent, Issued
  <1>2. CASE BeginAttempt(m)
    <2>1. /\ mutation[m].pc = "allowed" /\ mutation'[m].ref = mutation[m].ref
          /\ UNCHANGED <<session, lock, stale>>
          /\ \/ mutation'[m].pc = "denied"
             \/ mutation'[m].pc = "read" /\ Live(mutation[m].ref)
      BY <1>0, <1>2 DEF BeginAttempt, Allowed, Resolves, TypeOK, MutationTable, MutationRecord
    <2> QED  BY <1>0, <2>1 DEF MutationSound, HeldIsCurrent, Issued, SubjectOf, Live
  <1>3. CASE TouchSession(m)
    <2>1. /\ mutation[m].pc = "read" /\ mutation'[m].pc = "touched"
          /\ mutation'[m].ref = mutation[m].ref
          /\ UNCHANGED <<session, stale>>
          /\ Take(m, mutation[m].ref)
      BY <1>0, <1>3 DEF TouchSession, TypeOK, MutationTable, MutationRecord
    <2>2. HeldIsCurrent(m)' /\ lock'[mutation[m].ref] = m
      BY <1>0, <2>1 DEF Take, HeldIsCurrent, TypeOK, LockTable, Rows, MutationSound
    <2> QED  BY <1>0, <2>1, <2>2 DEF MutationSound, Issued, SubjectOf
  <1>4. CASE FenceEpoch(m)
    <2>1. /\ mutation[m].pc = "touched" /\ mutation'[m].pc = "fenced"
          /\ mutation'[m].ref = mutation[m].ref
          /\ UNCHANGED <<session, stale>>
          /\ Take(m, SubjectOf(m))
      BY <1>0, <1>4 DEF FenceEpoch, TypeOK, MutationTable, MutationRecord
    <2>2. mutation[m].ref \in Rows /\ SubjectOf(m) \in Rows
      BY <1>0, <1>00, <2>1 DEF MutationSound, RowSound, SubjectOf, Rows
    <2>3. /\ HeldIsCurrent(m)' /\ lock'[SubjectOf(m)] = m
          /\ lock[mutation[m].ref] = m => lock'[mutation[m].ref] = m
      BY <1>0, <2>1, <2>2 DEF Take, HeldIsCurrent, TypeOK, LockTable
    <2> QED  BY <1>0, <2>1, <2>3 DEF MutationSound, Issued, SubjectOf
  <1>5. CASE SpendGrant(m)
    <2>1. /\ mutation[m].pc = "fenced" /\ mutation'[m].pc = "spent"
          /\ mutation'[m].ref = mutation[m].ref
          /\ UNCHANGED <<session, stale>>
          /\ lock' = lock \/ Take(m, mutation[m].grant)
      BY <1>0, <1>5 DEF SpendGrant, TypeOK, MutationTable, MutationRecord
    <2>2. mutation[m].ref \in Rows /\ SubjectOf(m) \in Rows
      BY <1>0, <1>00, <2>1 DEF MutationSound, RowSound, SubjectOf, Rows
    <2>3. /\ HeldIsCurrent(m)'
          /\ \A w \in Rows : lock[w] = m => lock'[w] = m
      BY <1>0, <2>1 DEF Take, HeldIsCurrent, TypeOK, LockTable
    <2> QED  BY <1>0, <2>1, <2>2, <2>3 DEF MutationSound, Issued, SubjectOf
  <1>6. CASE CommitMutation(m)
    <2>1. MutationSound(m)'
      BY <1>0, <1>6 DEF CommitMutation, TypeOK, MutationTable, MutationRecord,
                        MutationSound, Issued, SameSessions
    <2>2. HeldIsCurrent(m)'
      BY <1>0, <1>6 DEF CommitMutation, Publish, HeldIsCurrent, TypeOK, StaleTable
    <2> QED  BY <2>1, <2>2
  <1>7. CASE RetryAttempt(m)
    <2>1. UNCHANGED session /\ Discard(m) /\ mutation[m].pc # "new"
      BY <1>7 DEF RetryAttempt
    <2>2. mutation'[m].pc \in {"allowed", "denied"} /\ mutation'[m].ref = mutation[m].ref
      BY <1>0, <1>7 DEF RetryAttempt, TypeOK, MutationTable, MutationRecord
    <2> QED
      BY <1>0, <2>1, <2>2 DEF Discard, TypeOK, StaleTable, MutationSound, HeldIsCurrent, Issued
  <1>8. CASE AbandonMutation(m)
    BY <1>0, <1>8 DEF AbandonMutation, Discard, TypeOK, MutationTable, MutationRecord,
                      StaleTable, MutationSound, HeldIsCurrent, Issued
  <1> QED
    BY <1>1, <1>2, <1>3, <1>4, <1>5, <1>6, <1>7, <1>8 DEF MutationStep

(***************************************************************************)
(* What a step of t owes the others: an issued session stays issued, with  *)
(* its subject, epoch and version; and a row that changes becomes stale    *)
(* for every open transaction.                                             *)
(***************************************************************************)
RowsKeep(t) ==
    /\ \A r \in Refs : Issued(r) => /\ session'[r].state # "none"
                                    /\ session'[r].subject = session[r].subject
                                    /\ session'[r].epoch = session[r].epoch
                                    /\ session'[r].version = session[r].version
    /\ \A u \in Txns \ {t} : InTxn(u) =>
          /\ \A r \in Refs : Issued(r) /\ r \notin stale'[u] =>
                session'[r].state = session[r].state
          /\ \A s \in Subjects : s \notin stale'[u] => authority'[s] = authority[s]

\* A step of another actor keeps a mutation sound.
LEMMA OtherMutation ==
  ASSUME IInv, NEW t, OthersKeep(t), RowsKeep(t),
         NEW m \in Mutations, m # t, mutation'[m] = mutation[m]
  PROVE  MutationSound(m)' /\ HeldIsCurrent(m)'
  <1>0. m \in Txns \ {t} /\ MutationSound(m) /\ HeldIsCurrent(m)
    BY DEF IInv, Txns
  <1>1. HeldIsCurrent(m)'
    BY <1>0 DEF HeldIsCurrent, OthersKeep
  <1>2. CASE mutation[m].pc = "new"
    BY <1>1, <1>2 DEF MutationSound, MutationInTxn
  <1>3. CASE mutation[m].pc # "new"
    <2>1. /\ mutation[m].ref \in Refs /\ Issued(mutation[m].ref)
          /\ mutation[m].ref \in Rows
          /\ SubjectOf(m) \in Subjects /\ SubjectOf(m) \in Rows
      BY <1>0, <1>3 DEF MutationSound, IInv, RowSound, Rows, SubjectOf
    <2>2. /\ session'[mutation[m].ref].state # "none"
          /\ SubjectOf(m)' = SubjectOf(m)
          /\ session'[mutation[m].ref].epoch = session[mutation[m].ref].epoch
      BY <2>1 DEF RowsKeep, SubjectOf
    <2>3. \A w \in Rows : /\ lock[w] = m => lock'[w] = m
                          /\ w \notin stale'[m] => w \notin stale[m]
      BY <1>0 DEF OthersKeep
    <2>4. mutation[m].pc \in MutationInTxn => InTxn(m)
      BY DEF InTxn
    <2>5. mutation[m].pc \in MutationInTxn =>
            /\ mutation[m].ref \notin stale'[m] =>
                  session'[mutation[m].ref].state = session[mutation[m].ref].state
            /\ SubjectOf(m) \notin stale'[m] => authority'[SubjectOf(m)] = authority[SubjectOf(m)]
      BY <1>0, <2>1, <2>4 DEF RowsKeep
    <2> QED
      BY <1>0, <1>1, <2>1, <2>2, <2>3, <2>5 DEF MutationSound, Issued
  <1> QED  BY <1>2, <1>3

\* A step of another actor keeps an issuance sound.
LEMMA OtherIssuance ==
  ASSUME IInv, NEW t, OthersKeep(t), RowsKeep(t),
         NEW r \in Refs, r # t, issuance'[r] = issuance[r]
  PROVE  IssuanceSound(r)' /\ HeldIsCurrent(r)'
  <1>0. r \in Txns \ {t} /\ IssuanceSound(r) /\ HeldIsCurrent(r) /\ r \notin Mutations
    BY DisjointAssumption DEF IInv, Txns
  <1>1. HeldIsCurrent(r)'
    BY <1>0 DEF HeldIsCurrent, OthersKeep
  <1>2. \A w \in Rows : /\ lock[w] = r => lock'[w] = r
                        /\ w \notin stale'[r] => w \notin stale[r]
    BY <1>0 DEF OthersKeep
  <1>3. /\ issuance[r].prior \in Refs \cup {None}
        /\ issuance[r].prior # None => Issued(issuance[r].prior)'
    BY <1>0 DEF IInv, TypeOK, IssuanceTable, IssuanceRecord, IssuanceSound, RowsKeep, Issued
  <1>4. issuance[r].pc \in IssuanceInTxn /\ issuance[r].subject \notin stale'[r] =>
           authority'[issuance[r].subject] = authority[issuance[r].subject]
    BY <1>0 DEF RowsKeep, InTxn, IssuanceSound
  <1> QED
    BY <1>0, <1>1, <1>2, <1>3, <1>4 DEF IssuanceSound, IssuanceInTxn, Rows

\* A step of a mutation preserves the invariant.
LEMMA MutationInv ==
  ASSUME IInv, NEW m \in Mutations, MutationStep(m)
  PROVE  IInv'
  <1>1. TypeOK'  BY MutationType DEF IInv
  <1>2. /\ SameSessions
        /\ authority' = authority /\ issuance' = issuance
        /\ \A n \in Mutations : n # m => mutation'[n] = mutation[n]
        /\ OthersKeep(m)
    BY MutationFrame
  <1>3. RowsKeep(m)
    BY <1>2 DEF SameSessions, RowsKeep, Issued
  <1>4. \A n \in Mutations : MutationSound(n)' /\ HeldIsCurrent(n)'
    BY <1>2, <1>3, MutationOwn, OtherMutation
  <1>5. \A r \in Refs : IssuanceSound(r)' /\ HeldIsCurrent(r)'
    BY <1>2, <1>3, OtherIssuance, DisjointAssumption
  <1>6. \A r \in Refs : RowSound(r)' /\ RowAhead(r)'
    BY <1>2 DEF IInv, SameSessions, RowSound, RowAhead, Issued
  <1> QED  BY <1>1, <1>4, <1>5, <1>6 DEF IInv, Txns

\* An autocommitted statement changes no other actor, outdates no row that is
\* held, and issues no session.
LEMMA StatementFrame ==
  ASSUME IInv, StatementStep
  PROVE  /\ mutation' = mutation /\ issuance' = issuance /\ lock' = lock
         /\ OthersKeep(None) /\ RowsKeep(None)
         /\ \A r \in Refs : RowAhead(r)' /\ (Issued(r)' => Issued(r))
  <1>1. TypeOK  BY DEF IInv
  <1>2. mutation' = mutation /\ issuance' = issuance /\ lock' = lock
    BY DEF StatementStep, Logout, BumpEpoch, GateRead, GateSlide, StepUpRead, StepUpInsert, Tick
  <1>3. /\ OthersKeep(None) /\ RowsKeep(None)
        /\ \A r \in Refs : RowAhead(r)' /\ (Issued(r)' => Issued(r))
    <2> DEFINE Goal == /\ OthersKeep(None) /\ RowsKeep(None)
                       /\ \A r \in Refs : RowAhead(r)' /\ (Issued(r)' => Issued(r))
    <2>0. \A r \in Refs : RowSound(r) /\ RowAhead(r)
      BY DEF IInv
    <2>1. ASSUME NEW r \in Refs, Logout(r) PROVE Goal
      <3>1. OthersKeep(None)
        BY <1>1, <2>1, StatementKeeps DEF Logout, Rows
      <3>2. session' = [session EXCEPT ![r].state = "revoked"] /\ authority' = authority
            /\ session[r].state = "active"
        BY <2>1 DEF Logout
      <3>3. \A u \in Txns : InTxn(u) => r \in stale'[u]
        BY <1>1, <2>1, NoneAssumption DEF Logout, Publish, Txns, Rows
      <3>4. RowsKeep(None)
        BY <1>1, <3>2, <3>3 DEF RowsKeep, Issued, TypeOK, SessionTable, SessionRow
      <3>5. \A q \in Refs : RowAhead(q)' /\ (Issued(q)' => Issued(q))
        BY <1>1, <2>0, <3>2 DEF RowAhead, Issued, TypeOK, SessionTable, SessionRow
      <3> QED  BY <3>1, <3>4, <3>5
    <2>2. ASSUME NEW s \in Subjects, NEW cause \in BumpCauses, BumpEpoch(s, cause) PROVE Goal
      <3>1. OthersKeep(None)
        BY <1>1, <2>2, StatementKeeps DEF BumpEpoch, Rows
      <3>2. /\ session' = session
            /\ \A x \in Subjects : x # s => authority'[x] = authority[x]
            /\ authority'[s].epoch = authority[s].epoch + 1
            /\ authority'[s].next = authority[s].next
        BY <1>1, <2>2 DEF BumpEpoch, TypeOK, AuthorityTable, AuthorityRow
      <3>3. \A u \in Txns : InTxn(u) => s \in stale'[u]
        BY <1>1, <2>2, NoneAssumption DEF BumpEpoch, Publish, Txns, Rows
      <3>4. RowsKeep(None)
        BY <3>2, <3>3 DEF RowsKeep, Issued
      <3>5. authority[s].epoch \in Nat /\ \A q \in Refs : session[q].epoch \in Nat
        BY <1>1 DEF TypeOK, AuthorityTable, AuthorityRow, SessionTable, SessionRow
      <3>6. \A q \in Refs : RowAhead(q)' /\ (Issued(q)' => Issued(q))
        BY <2>0, <3>2, <3>5 DEF RowAhead, RowSound, Issued
      <3> QED  BY <3>1, <3>4, <3>6
    <2>3. ASSUME NEW q \in Gates, GateSlide(q) PROVE Goal
      <3> DEFINE x == gate[q].ref
      <3>1. x \in Refs /\ x \in Rows
        BY <1>1, <2>3 DEF GateSlide, TypeOK, GateTable, Rows
      <3>2. /\ authority' = authority
            /\ \/ session' = session /\ stale' = stale
               \/ /\ session' = [session EXCEPT ![x].idle =
                                    Least(gate[q].at + IdleTimeout, session[x].absolute)]
                  /\ Free(x) /\ Publish(None, {x})
        BY <2>3 DEF GateSlide
      <3>3. OthersKeep(None)
        <4>1. CASE session' = session /\ stale' = stale
          BY <1>2, <4>1 DEF OthersKeep
        <4>2. CASE Free(x) /\ Publish(None, {x})
          BY <1>1, <1>2, <3>1, <4>2, StatementKeeps
        <4> QED  BY <3>2, <4>1, <4>2
      <3>4. SameSessions
        BY <1>1, <3>1, <3>2 DEF SameSessions, TypeOK, SessionTable, SessionRow
      <3>5. RowsKeep(None) /\ \A r \in Refs : RowAhead(r)' /\ (Issued(r)' => Issued(r))
        BY <2>0, <3>2, <3>4 DEF SameSessions, RowsKeep, RowAhead, Issued
      <3> QED  BY <3>3, <3>5
    <2>4. ASSUME session' = session, authority' = authority, stale' = stale PROVE Goal
      BY <1>2, <2>0, <2>4 DEF OthersKeep, RowsKeep, RowAhead, Issued
    <2> QED
      BY <2>1, <2>2, <2>3, <2>4 DEF StatementStep, GateRead, StepUpRead, StepUpInsert, Tick
  <1> QED  BY <1>2, <1>3

\* An autocommitted statement preserves the invariant.
LEMMA StatementInv ==
  ASSUME IInv, StatementStep
  PROVE  IInv'
  <1>1. TypeOK'  BY StatementType DEF IInv
  <1>2. mutation' = mutation /\ issuance' = issuance /\ lock' = lock
    BY StatementFrame
  <1>3. /\ OthersKeep(None) /\ RowsKeep(None)
        /\ \A r \in Refs : RowAhead(r)' /\ (Issued(r)' => Issued(r))
    BY StatementFrame
  <1>4. \A m \in Mutations : MutationSound(m)' /\ HeldIsCurrent(m)'
    BY <1>2, <1>3, OtherMutation, NoneAssumption DEF Txns
  <1>5. \A r \in Refs : IssuanceSound(r)' /\ HeldIsCurrent(r)'
    BY <1>2, <1>3, OtherIssuance, NoneAssumption DEF Txns
  <1>6. \A r \in Refs : RowSound(r)'
    BY <1>2, <1>3 DEF IInv, RowSound, RowsKeep
  <1> QED  BY <1>1, <1>3, <1>4, <1>5, <1>6 DEF IInv, Txns

\* An issuance changes no other actor, and outdates no row it does not hold.
LEMMA IssuanceFrame ==
  ASSUME IInv, NEW r \in Refs, IssuanceStep(r)
  PROVE  /\ mutation' = mutation
         /\ \A q \in Refs : q # r => issuance'[q] = issuance[q]
         /\ OthersKeep(r)
  <1>0. TypeOK /\ r \in Txns /\ IssuanceSound(r)  BY DEF IInv, Txns
  <1>1. mutation' = mutation
    BY DEF IssuanceStep, BeginIssuance, RejectIssuance, AllocateVersion, RetirePrior,
           CommitIssuance, AbandonIssuance
  <1>2. ASSUME NEW q \in Refs, q # r PROVE issuance'[q] = issuance[q]
    <2>1. \E v : issuance' = [issuance EXCEPT ![r] = v]
      BY <1>0 DEF IssuanceStep, BeginIssuance, RejectIssuance, AllocateVersion, RetirePrior,
                  CommitIssuance, AbandonIssuance, TypeOK, IssuanceTable
    <2> QED  BY <1>0, <1>2, <2>1 DEF TypeOK, IssuanceTable
  <1> SUFFICES OthersKeep(r)
    BY <1>1, <1>2
  <1>3. ASSUME lock' = lock, stale' = stale PROVE OthersKeep(r)
    BY <1>3 DEF OthersKeep
  <1>4. CASE AllocateVersion(r)
    BY <1>0, <1>4, TakeKeeps DEF AllocateVersion, IssuanceSound, IssuanceInTxn, Rows
  <1>5. CASE RetirePrior(r)
    <2>1. issuance[r].prior \in Refs \cup {None}
      BY <1>0 DEF TypeOK, IssuanceTable, IssuanceRecord
    <2>2. CASE issuance[r].prior = None
      BY <1>3, <1>5, <2>2 DEF RetirePrior
    <2>3. CASE issuance[r].prior # None
      BY <1>0, <1>5, <2>1, <2>3, TakeKeeps DEF RetirePrior, Rows
    <2> QED  BY <2>2, <2>3
  <1>6. CASE CommitIssuance(r)
    BY <1>0, <1>6, CommitKeeps DEF CommitIssuance
  <1>7. CASE AbandonIssuance(r)
    BY <1>0, <1>7, DiscardKeeps DEF AbandonIssuance
  <1> QED
    BY <1>3, <1>4, <1>5, <1>6, <1>7 DEF IssuanceStep, BeginIssuance, RejectIssuance

\* What a commit of an issuance does to the rows.
LEMMA IssuanceRows ==
  ASSUME IInv, NEW r \in Refs, CommitIssuance(r)
  PROVE  /\ issuance[r].subject \in Subjects /\ ~Issued(r)
         /\ session'[r].state = "active" /\ session'[r].subject = issuance[r].subject
         /\ session'[r].epoch = authority[issuance[r].subject].epoch
         /\ session'[r].version = authority[issuance[r].subject].next
         /\ authority[issuance[r].subject].lifecycle = "active"
         /\ authority'[issuance[r].subject].next = authority[issuance[r].subject].next + 1
         /\ authority'[issuance[r].subject].epoch = authority[issuance[r].subject].epoch
         /\ authority'[issuance[r].subject].lifecycle = "active"
         /\ \A s \in Subjects : s # issuance[r].subject => authority'[s] = authority[s]
         /\ \A q \in Refs : q # r =>
               /\ session'[q].subject = session[q].subject
               /\ session'[q].epoch = session[q].epoch
               /\ session'[q].version = session[q].version
               /\ q # issuance[r].prior => session'[q].state = session[q].state
               /\ session'[q].state # "none" <=> session[q].state # "none"
  <1> DEFINE i == issuance[r]
  <1>0. /\ TypeOK /\ r \in Txns /\ r \notin Mutations /\ i.pc = "retired"
        /\ IssuanceSound(r) /\ RowSound(r) /\ HeldIsCurrent(r)
    BY DisjointAssumption DEF IInv, Txns, CommitIssuance
  <1>1. /\ i.subject \in Subjects /\ i.subject \in Rows /\ ~Issued(r)
        /\ lock[i.subject] = r
    BY <1>0 DEF IssuanceSound, IssuanceInTxn, RowSound, Rows
  <1>2. /\ authority[i.subject].lifecycle = "active"
        /\ authority[i.subject].epoch = i.epoch
        /\ authority[i.subject].next = i.version
    BY <1>0, <1>1 DEF IssuanceSound, IssuanceInTxn, HeldIsCurrent
  <1>3. authority' = [authority EXCEPT ![i.subject].next = i.version + 1]
    BY DEF CommitIssuance
  <1>4. /\ authority'[i.subject].next = authority[i.subject].next + 1
        /\ authority'[i.subject].epoch = authority[i.subject].epoch
        /\ authority'[i.subject].lifecycle = "active"
        /\ \A s \in Subjects : s # i.subject => authority'[s] = authority[s]
    BY <1>0, <1>1, <1>2, <1>3 DEF TypeOK, AuthorityTable, AuthorityRow
  <1>5. /\ session'[r].state = "active" /\ session'[r].subject = i.subject
        /\ session'[r].epoch = i.epoch /\ session'[r].version = i.version
    BY DEF CommitIssuance
  <1>6. ASSUME NEW q \in Refs, q # r
        PROVE  /\ session'[q].subject = session[q].subject
               /\ session'[q].epoch = session[q].epoch
               /\ session'[q].version = session[q].version
               /\ q # i.prior => session'[q].state = session[q].state
               /\ session'[q].state # "none" <=> session[q].state # "none"
    <2>1. CASE q # i.prior
      <3>1. session'[q] = session[q]
        BY <1>6, <2>1 DEF CommitIssuance
      <3> QED  BY <2>1, <3>1
    <2>2. CASE q = i.prior
      <3>1. session[q].state # "none"
        BY <1>0, <2>2, NoneAssumption DEF IssuanceSound, Issued, Rows
      <3>2. \/ session'[q] = [session[q] EXCEPT !.state = "revoked"]
            \/ session'[q] = [session[q] EXCEPT !.state = "rotated", !.heir = r]
        BY <1>6, <2>2 DEF CommitIssuance
      <3> QED  BY <1>0, <2>2, <3>1, <3>2 DEF TypeOK, SessionTable, SessionRow
    <2> QED  BY <2>1, <2>2
  <1> QED  BY <1>1, <1>2, <1>4, <1>5, <1>6

\* An issuance's own step keeps it sound, and owes the others nothing.
LEMMA IssuanceOwn ==
  ASSUME IInv, NEW r \in Refs, IssuanceStep(r), OthersKeep(r)
  PROVE  /\ RowsKeep(r) /\ IssuanceSound(r)' /\ HeldIsCurrent(r)'
         /\ \A q \in Refs : RowSound(q)' /\ RowAhead(q)'
  <1> DEFINE i == issuance[r]
             Quiet == session' = session /\ authority' = authority
             Own == IssuanceSound(r)' /\ HeldIsCurrent(r)'
  <1>0. /\ TypeOK /\ r \in Txns /\ r \notin Mutations
        /\ IssuanceSound(r) /\ HeldIsCurrent(r)
        /\ \A q \in Refs : RowSound(q) /\ RowAhead(q)
    BY DisjointAssumption DEF IInv, Txns
  <1>a. \A q \in Refs : q # r => issuance'[q] = issuance[q]
    BY IssuanceFrame
  <1>b. ASSUME Quiet PROVE RowsKeep(r)
    BY <1>0, <1>b DEF RowsKeep, Issued, OthersKeep
  <1>c. ASSUME Quiet, issuance[r].pc # "committed"
        PROVE  \A q \in Refs : RowSound(q)' /\ RowAhead(q)'
    BY <1>0, <1>a, <1>c DEF RowSound, RowAhead, Issued
  <1>1. ASSUME NEW s \in Subjects, NEW cause \in IssueCauses, NEW p \in Refs \cup {None},
               BeginIssuance(r, s, cause, p)
        PROVE  Quiet /\ issuance[r].pc # "committed" /\ Own
    <2>1. /\ Quiet /\ issuance[r].pc = "new" /\ lock' = lock /\ stale' = stale
          /\ authority[s].lifecycle = "active"
          /\ issuance'[r].pc = "read" /\ issuance'[r].subject = s
          /\ issuance'[r].version = authority[s].next /\ issuance'[r].epoch = authority[s].epoch
          /\ issuance'[r].prior = None \/ session[issuance'[r].prior].state = "active"
      BY <1>0, <1>1 DEF BeginIssuance, TypeOK, IssuanceTable
    <2> QED
      BY <1>0, <2>1 DEF IssuanceSound, HeldIsCurrent, Issued
  <1>2. ASSUME NEW s \in Subjects, NEW cause \in IssueCauses, NEW p \in Refs \cup {None},
               RejectIssuance(r, s, cause, p)
        PROVE  Quiet /\ issuance[r].pc # "committed" /\ Own
    <2>1. /\ Quiet /\ issuance[r].pc = "new" /\ lock' = lock /\ stale' = stale
          /\ issuance'[r].pc = "rejected" /\ issuance'[r].prior = issuance[r].prior
      BY <1>0, <1>2 DEF RejectIssuance, TypeOK, IssuanceTable, IssuanceRecord
    <2> QED
      BY <1>0, <2>1 DEF IssuanceSound, IssuanceInTxn, HeldIsCurrent, Issued
  <1>3. ASSUME AllocateVersion(r) PROVE  Quiet /\ issuance[r].pc # "committed" /\ Own
    <2>1. /\ Quiet /\ issuance[r].pc = "read" /\ stale' = stale
          /\ issuance' = [issuance EXCEPT ![r].pc = "allocated"]
          /\ Take(r, issuance[r].subject)
      BY <1>3 DEF AllocateVersion
    <2>2. issuance[r].subject \in Rows
      BY <1>0, <2>1 DEF IssuanceSound, IssuanceInTxn, Rows
    <2>3. HeldIsCurrent(r)' /\ lock'[issuance[r].subject] = r
      BY <1>0, <2>1, <2>2 DEF Take, HeldIsCurrent, TypeOK, LockTable
    <2>4. /\ issuance'[r].pc = "allocated" /\ issuance'[r].subject = issuance[r].subject
          /\ issuance'[r].prior = issuance[r].prior /\ issuance'[r].epoch = issuance[r].epoch
          /\ issuance'[r].version = issuance[r].version
      BY <1>0, <2>1 DEF TypeOK, IssuanceTable, IssuanceRecord
    <2> QED
      BY <1>0, <2>1, <2>3, <2>4 DEF IssuanceSound, IssuanceInTxn, Issued
  <1>4. ASSUME RetirePrior(r) PROVE  Quiet /\ issuance[r].pc # "committed" /\ Own
    <2>1. /\ Quiet /\ issuance[r].pc = "allocated" /\ stale' = stale
          /\ issuance' = [issuance EXCEPT ![r].pc = "retired"]
          /\ \/ issuance[r].prior = None /\ lock' = lock
             \/ issuance[r].prior # None /\ Take(r, issuance[r].prior)
      BY <1>4 DEF RetirePrior
    <2>2. issuance[r].subject \in Rows /\ issuance[r].prior \in Refs \cup {None}
      BY <1>0, <2>1 DEF IssuanceSound, IssuanceInTxn, Rows, TypeOK, IssuanceTable, IssuanceRecord
    <2>3. /\ HeldIsCurrent(r)'
          /\ lock[issuance[r].subject] = r => lock'[issuance[r].subject] = r
          /\ issuance[r].prior # None => lock'[issuance[r].prior] = r
      BY <1>0, <2>1, <2>2 DEF Take, HeldIsCurrent, TypeOK, LockTable, Rows
    <2>4. /\ issuance'[r].pc = "retired" /\ issuance'[r].subject = issuance[r].subject
          /\ issuance'[r].prior = issuance[r].prior /\ issuance'[r].epoch = issuance[r].epoch
          /\ issuance'[r].version = issuance[r].version
      BY <1>0, <2>1 DEF TypeOK, IssuanceTable, IssuanceRecord
    <2> QED
      BY <1>0, <2>1, <2>3, <2>4 DEF IssuanceSound, IssuanceInTxn, Issued
  <1>5. ASSUME AbandonIssuance(r) PROVE  Quiet /\ issuance[r].pc # "committed" /\ Own
    <2>1. /\ Quiet /\ issuance[r].pc \in IssuanceInTxn /\ Discard(r)
          /\ issuance'[r].pc = "new" /\ issuance'[r].prior = None
      BY <1>0, <1>5 DEF AbandonIssuance, TypeOK, IssuanceTable, IssuanceRecord
    <2>2. HeldIsCurrent(r)'
      BY <1>0, <2>1 DEF Discard, HeldIsCurrent, TypeOK, StaleTable
    <2> QED
      BY <2>1, <2>2 DEF IssuanceSound, IssuanceInTxn
  <1>6. ASSUME CommitIssuance(r)
        PROVE  RowsKeep(r) /\ Own /\ \A q \in Refs : RowSound(q)' /\ RowAhead(q)'
    <2> DEFINE s == issuance[r].subject
               p == issuance[r].prior
    <2>1. /\ s \in Subjects /\ ~Issued(r)
          /\ session'[r].state = "active" /\ session'[r].subject = s
          /\ session'[r].epoch = authority[s].epoch
          /\ session'[r].version = authority[s].next
          /\ authority[s].lifecycle = "active"
          /\ authority'[s].next = authority[s].next + 1
          /\ authority'[s].epoch = authority[s].epoch
          /\ authority'[s].lifecycle = "active"
          /\ \A x \in Subjects : x # s => authority'[x] = authority[x]
          /\ \A q \in Refs : q # r =>
                /\ session'[q].subject = session[q].subject
                /\ session'[q].epoch = session[q].epoch
                /\ session'[q].version = session[q].version
                /\ q # p => session'[q].state = session[q].state
                /\ session'[q].state # "none" <=> session[q].state # "none"
      BY <1>6, IssuanceRows
    <2>2. /\ issuance'[r].pc = "committed" /\ issuance'[r].prior = p
          /\ issuance[r].pc = "retired"
          /\ Release(r) /\ Publish(r, Holds(r))
      BY <1>0, <1>6 DEF CommitIssuance, TypeOK, IssuanceTable, IssuanceRecord
    <2>3. /\ s \in Holds(r)
          /\ p # None => p \in Holds(r)
      BY <1>0, <2>1, <2>2 DEF IssuanceSound, Holds, Rows, TypeOK, IssuanceTable, IssuanceRecord
    <2>4. \A u \in Txns \ {r} : InTxn(u) => stale'[u] = stale[u] \cup Holds(r)
      BY <2>2 DEF Publish
    <2>5. RowsKeep(r)
      <3>1. None \notin Refs  BY NoneAssumption DEF Rows
      <3> QED  BY <2>1, <2>3, <2>4, <3>1 DEF RowsKeep, Issued
    <2>6. Own
      <3>1. HeldIsCurrent(r)'
        BY <1>0, <2>2 DEF Publish, HeldIsCurrent
      <3>2. issuance'[r].prior # None => Issued(issuance[r].prior)'
        BY <1>0, <2>1, <2>2 DEF IssuanceSound, Issued, TypeOK, IssuanceTable, IssuanceRecord
      <3> QED  BY <2>2, <3>1, <3>2 DEF IssuanceSound, IssuanceInTxn
    <2>7. ASSUME NEW q \in Refs PROVE RowSound(q)' /\ RowAhead(q)'
      <3>1. CASE q = r
        BY <1>0, <2>1, <2>2, <3>1 DEF RowSound, RowAhead, TypeOK, AuthorityTable, AuthorityRow
      <3>2. CASE q # r
        <4>1. authority[s].next \in Nat
          BY <1>0, <2>1 DEF TypeOK, AuthorityTable, AuthorityRow
        <4>2. Issued(q) => session[q].version \in Nat /\ session[q].subject \in Subjects
          BY <1>0 DEF TypeOK, SessionTable, SessionRow, RowSound
        <4>3. RowSound(q)'
          BY <1>0, <1>a, <2>1, <3>2 DEF RowSound, Issued
        <4>4. RowAhead(q)'
          BY <1>0, <2>1, <3>2, <4>1, <4>2 DEF RowAhead, Issued
        <4> QED  BY <4>3, <4>4
      <3> QED  BY <3>1, <3>2
    <2> QED  BY <2>5, <2>6, <2>7
  <1> QED
    BY <1>b, <1>c, <1>1, <1>2, <1>3, <1>4, <1>5, <1>6 DEF IssuanceStep

\* A step of an issuance preserves the invariant.
LEMMA IssuanceInv ==
  ASSUME IInv, NEW r \in Refs, IssuanceStep(r)
  PROVE  IInv'
  <1>1. TypeOK'  BY IssuanceType DEF IInv
  <1>2. /\ mutation' = mutation
        /\ \A q \in Refs : q # r => issuance'[q] = issuance[q]
        /\ OthersKeep(r)
    BY IssuanceFrame
  <1>3. /\ RowsKeep(r) /\ IssuanceSound(r)' /\ HeldIsCurrent(r)'
        /\ \A q \in Refs : RowSound(q)' /\ RowAhead(q)'
    BY <1>2, IssuanceOwn
  <1>4. \A q \in Refs : IssuanceSound(q)' /\ HeldIsCurrent(q)'
    BY <1>2, <1>3, OtherIssuance
  <1>5. \A m \in Mutations : MutationSound(m)' /\ HeldIsCurrent(m)'
    BY <1>2, <1>3, OtherMutation, DisjointAssumption
  <1> QED  BY <1>1, <1>3, <1>4, <1>5 DEF IInv, Txns

\* The invariant holds initially.
LEMMA InvInit == Init => IInv
  <1> SUFFICES ASSUME Init PROVE IInv
    OBVIOUS
  <1>1. TypeOK
    BY TypeInit
  <1>2. \A r \in Refs : RowSound(r) /\ RowAhead(r) /\ IssuanceSound(r)
    BY DEF Init, RowSound, RowAhead, IssuanceSound, Issued, IssuanceInTxn
  <1>3. \A m \in Mutations : MutationSound(m)
    BY DEF Init, MutationSound, MutationInTxn
  <1>4. \A t \in Txns : HeldIsCurrent(t)
    BY DEF Init, HeldIsCurrent
  <1> QED  BY <1>1, <1>2, <1>3, <1>4 DEF IInv

\* Every step preserves the invariant.
LEMMA InvNext == IInv /\ [Next]_vars => IInv'
  <1> SUFFICES ASSUME IInv, [Next]_vars PROVE IInv'
    OBVIOUS
  <1>1. CASE Next
    BY <1>1, MutationInv, IssuanceInv, StatementInv DEF Next
  <1>2. CASE UNCHANGED vars
    BY <1>2 DEF vars, IInv, TypeOK, RowSound, RowAhead, IssuanceSound, MutationSound,
                HeldIsCurrent, Issued, SubjectOf
  <1> QED  BY <1>1, <1>2

\* The inductive invariant is an invariant.
THEOREM Invariance == Spec => []IInv
  <1> QED  BY InvInit, InvNext, PTL DEF Spec

-----------------------------------------------------------------------------
(***************************************************************************)
(* The properties.                                                         *)
(***************************************************************************)

\* A disabled, deleted or security-blocked subject has no session that resolves.
THEOREM ClosedSubjects == Spec => []ClosedSubjectHasNoLiveSession
  <1>1. IInv => ClosedSubjectHasNoLiveSession
    BY DEF IInv, RowAhead, ClosedSubjectHasNoLiveSession, Live
  <1> QED  BY <1>1, Invariance, PTL

\* A mutation's transaction commits only while the session it acts for is live
\* and its subject active: no revocation is overtaken.
THEOREM NoOvertakenRevocation == Spec => CommitOnlyLive
  <1>1. ASSUME IInv, Next, NEW m \in Mutations, Commits(m)
        PROVE  /\ Live(mutation[m].ref)
               /\ authority[SubjectOf(m)].lifecycle = "active"
    <2>1. CommitMutation(m)
      <3>1. CASE MutationStep(m)
        <4> USE <1>1 DEF Commits, IInv, TypeOK, MutationTable, MutationRecord
        <4>1. ASSUME NEW r \in Refs, NEW g \in Grants \cup {None}, Authorize(m, r, g)
              PROVE  FALSE
          BY <4>1 DEF Authorize
        <4>2. CASE BeginAttempt(m)  BY <4>2 DEF BeginAttempt
        <4>3. CASE TouchSession(m)  BY <4>3 DEF TouchSession
        <4>4. CASE FenceEpoch(m)  BY <4>4 DEF FenceEpoch
        <4>5. CASE SpendGrant(m)  BY <4>5 DEF SpendGrant
        <4>6. CASE RetryAttempt(m)  BY <4>6 DEF RetryAttempt
        <4>7. CASE AbandonMutation(m)  BY <4>7 DEF AbandonMutation
        <4> QED  BY <3>1, <4>1, <4>2, <4>3, <4>4, <4>5, <4>6, <4>7 DEF MutationStep
      <3>2. ASSUME NEW n \in Mutations, n # m, MutationStep(n) PROVE FALSE
        BY <1>1, <3>2, MutationFrame DEF Commits
      <3>3. ASSUME NEW r \in Refs, IssuanceStep(r) PROVE FALSE
        BY <1>1, <3>3, IssuanceFrame DEF Commits
      <3>4. CASE StatementStep
        BY <1>1, <3>4 DEF StatementStep, Logout, BumpEpoch, GateRead, GateSlide, StepUpRead,
             StepUpInsert, Tick, Commits
      <3> QED  BY <1>1, <3>1, <3>2, <3>3, <3>4 DEF Next
    <2>2. /\ mutation[m].ref \in Refs /\ Issued(mutation[m].ref)
          /\ SubjectOf(m) \in Subjects
          /\ mutation[m].ref \in Rows /\ SubjectOf(m) \in Rows
          /\ lock[mutation[m].ref] = m /\ lock[SubjectOf(m)] = m
      BY <1>1, <2>1 DEF CommitMutation, IInv, MutationSound, RowSound, SubjectOf, Rows
    <2>3. mutation[m].ref \notin stale[m] /\ SubjectOf(m) \notin stale[m]
      BY <1>1, <2>2 DEF IInv, HeldIsCurrent, Txns
    <2> QED
      BY <1>1, <2>1, <2>2, <2>3
         DEF CommitMutation, IInv, MutationSound, MutationInTxn, RowAhead, Live, SubjectOf
  <1>2. IInv /\ [Next]_vars =>
          [\A m \in Mutations : Commits(m) => /\ Live(mutation[m].ref)
                                              /\ authority[SubjectOf(m)].lifecycle = "active"]_vars
    BY <1>1
  <1> QED  BY <1>2, Invariance, PTL DEF Spec, CommitOnlyLive

-----------------------------------------------------------------------------
(***************************************************************************)
(* Session versions.  The one step that adds a session gives it the value  *)
(* of its subject's counter, which every session of that subject is below. *)
(***************************************************************************)

\* Two sessions of one subject never share a version, although concurrent
\* sign-ins read the same counter.
THEOREM VersionsAreDistinct == Spec => []VersionsDistinct
  <1>1. Init => VersionsDistinct
    BY DEF Init, VersionsDistinct, Issued
  <1>2. IInv /\ VersionsDistinct /\ [Next]_vars => VersionsDistinct'
    <2> SUFFICES ASSUME IInv, VersionsDistinct, [Next]_vars PROVE VersionsDistinct'
      OBVIOUS
    <2>0. ASSUME \A q \in Refs : /\ Issued(q)' => Issued(q)
                                 /\ Issued(q) => /\ session'[q].subject = session[q].subject
                                                 /\ session'[q].version = session[q].version
          PROVE  VersionsDistinct'
      BY <2>0 DEF VersionsDistinct, Issued
    <2>1. CASE UNCHANGED vars
      BY <2>1 DEF vars, VersionsDistinct, Issued
    <2>2. ASSUME NEW m \in Mutations, MutationStep(m) PROVE VersionsDistinct'
      BY <2>0, <2>2, MutationFrame DEF SameSessions, Issued
    <2>3. CASE StatementStep
      BY <2>0, <2>3, StatementFrame DEF RowsKeep
    <2>4. ASSUME NEW r \in Refs, IssuanceStep(r) PROVE VersionsDistinct'
      <3>1. CASE session' = session
        BY <3>1 DEF VersionsDistinct, Issued
      <3>2. CASE CommitIssuance(r)
        <4> DEFINE s == issuance[r].subject
        <4>1. /\ session'[r].subject = s
              /\ session'[r].version = authority[s].next
              /\ \A q \in Refs : q # r => /\ session'[q].subject = session[q].subject
                                          /\ session'[q].version = session[q].version
                                          /\ (Issued(q)' <=> Issued(q))
          BY <3>2, IssuanceRows DEF Issued
        <4>2. ASSUME NEW q \in Refs, q # r, Issued(q)', session'[q].subject = s
              PROVE  session'[q].version < authority[s].next
          BY <4>1, <4>2 DEF IInv, RowAhead
        <4>3. /\ s \in Subjects /\ authority[s].next \in Nat
              /\ \A q \in Refs : session'[q].version \in Nat
          BY <3>2, <2>4, IssuanceRows, IssuanceType DEF IInv, TypeOK, AuthorityTable, AuthorityRow, SessionTable, SessionRow
        <4>4. \A q \in Refs : q # r /\ Issued(q)' /\ session'[q].subject = s
                              => session'[q].version # authority[s].next
          BY <4>2, <4>3
        <4> QED  BY <4>1, <4>4 DEF VersionsDistinct, Issued
      <3> QED
        BY <2>4, <3>1, <3>2 DEF IssuanceStep, BeginIssuance, RejectIssuance, AllocateVersion,
             RetirePrior, AbandonIssuance
    <2> QED  BY <2>1, <2>2, <2>3, <2>4 DEF Next
  <1> QED  BY <1>1, <1>2, Invariance, PTL DEF Spec

-----------------------------------------------------------------------------
(***************************************************************************)
(* The session an issuance replaces.  Until the issuance commits, the row  *)
(* its snapshot showed as active is active or stale for it; it commits     *)
(* holding the row, so the row is not stale.  What has ended never changes *)
(* again, so the record of how it ended stays true.                        *)
(***************************************************************************)

\* The session to replace is active, as far as the transaction can see.
PriorOpen(r) ==
    /\ issuance[r].pc \in IssuanceInTxn
    /\ issuance[r].prior # None
    /\ issuance[r].prior \notin stale[r]
    => session[issuance[r].prior].state = "active"

\* The session a committed issuance replaced ended as its cause demands.
PriorEnded(r) ==
    issuance[r].pc = "committed" /\ issuance[r].prior # None =>
        IF issuance[r].cause = "reauthentication"
        THEN session[issuance[r].prior].state = "revoked" /\ session[issuance[r].prior].heir = None
        ELSE session[issuance[r].prior].state = "rotated" /\ session[issuance[r].prior].heir = r

\* Only a rotated session names the one that replaced it.
HeirlessWhileActive(r) == session[r].state = "active" => session[r].heir = None

HeirInv == \A r \in Refs : PriorOpen(r) /\ PriorEnded(r) /\ HeirlessWhileActive(r)

\* A session that ended keeps its state and its heir; an active one has no heir.
EndedStay ==
    \A q \in Refs :
        /\ Issued(q) /\ session[q].state # "active" =>
              session'[q].state = session[q].state /\ session'[q].heir = session[q].heir
        /\ HeirlessWhileActive(q)'

\* An issuance that commits replaces an active session, if any, which is not
\* its own.
LEMMA PriorIsActive ==
  ASSUME IInv, HeirInv, NEW r \in Refs, issuance[r].pc = "retired", issuance[r].prior # None
  PROVE  /\ issuance[r].prior \in Refs /\ issuance[r].prior # r
         /\ session[issuance[r].prior].state = "active"
         /\ session[issuance[r].prior].heir = None
  <1>1. issuance[r].prior \in Refs /\ issuance[r].prior \in Rows
    BY DEF IInv, TypeOK, IssuanceTable, IssuanceRecord, Rows
  <1>2. /\ Issued(issuance[r].prior) /\ ~Issued(r)
        /\ lock[issuance[r].prior] = r
    BY DEF IInv, IssuanceSound, RowSound
  <1>3. issuance[r].prior \notin stale[r]
    BY <1>1, <1>2 DEF IInv, HeldIsCurrent, Txns
  <1>4. session[issuance[r].prior].state = "active"
    BY <1>3 DEF HeirInv, PriorOpen, IssuanceInTxn
  <1> QED  BY <1>1, <1>2, <1>4 DEF HeirInv, HeirlessWhileActive

\* What a commit does to the session it replaces and to the others.
LEMMA CommitHeirs ==
  ASSUME IInv, HeirInv, NEW r \in Refs, CommitIssuance(r)
  PROVE  /\ EndedStay
         /\ issuance[r].prior # None =>
              IF issuance[r].cause = "reauthentication"
              THEN session'[issuance[r].prior].state = "revoked" /\ session'[issuance[r].prior].heir = None
              ELSE session'[issuance[r].prior].state = "rotated" /\ session'[issuance[r].prior].heir = r
  <1> DEFINE i == issuance[r]
             p == issuance[r].prior
  <1>0. i.pc = "retired" /\ TypeOK /\ ~Issued(r)
    BY IssuanceRows DEF CommitIssuance, IInv
  <1>1. session'[r].state = "active" /\ session'[r].heir = None
    BY DEF CommitIssuance
  <1>2. ASSUME NEW q \in Refs, q # r, q # p PROVE session'[q] = session[q]
    BY <1>2 DEF CommitIssuance
  <1>3. ASSUME p # None
        PROVE  /\ p \in Refs /\ p # r /\ session[p].state = "active" /\ session[p].heir = None
               /\ session'[p] = IF i.cause = "reauthentication"
                                THEN [session[p] EXCEPT !.state = "revoked"]
                                ELSE [session[p] EXCEPT !.state = "rotated", !.heir = r]
    <2>1. p \in Refs /\ p # r /\ session[p].state = "active" /\ session[p].heir = None
      BY <1>0, <1>3, PriorIsActive
    <2> QED  BY <2>1 DEF CommitIssuance
  <1>4. ASSUME p # None
        PROVE  IF i.cause = "reauthentication"
               THEN session'[p].state = "revoked" /\ session'[p].heir = None
               ELSE session'[p].state = "rotated" /\ session'[p].heir = r
    <2>1. session[p] \in SessionRow
      BY <1>0, <1>3, <1>4 DEF TypeOK, SessionTable
    <2> QED  BY <1>3, <1>4, <2>1 DEF SessionRow
  <1>5. None \notin Refs
    BY NoneAssumption DEF Rows
  <1>6. EndedStay
    <2> SUFFICES ASSUME NEW q \in Refs
                 PROVE  /\ Issued(q) /\ session[q].state # "active" =>
                             session'[q].state = session[q].state /\ session'[q].heir = session[q].heir
                        /\ session'[q].state = "active" => session'[q].heir = None
      BY DEF EndedStay, HeirlessWhileActive
    <2>1. CASE q = r
      BY <1>0, <1>1, <2>1
    <2>2. CASE q = p /\ q # r
      BY <1>3, <1>4, <1>5, <2>2
    <2>3. CASE q # p /\ q # r
      BY <1>2, <2>3 DEF HeirInv, HeirlessWhileActive
    <2> QED  BY <2>1, <2>2, <2>3
  <1> QED  BY <1>4, <1>6

\* No step changes a session that has ended.
LEMMA EndedIsFinal ==
  ASSUME IInv, HeirInv, Next
  PROVE  EndedStay
  <1>0. TypeOK  BY DEF IInv
  <1>a. ASSUME \A q \in Refs : session'[q].state = session[q].state /\ session'[q].heir = session[q].heir
        PROVE  EndedStay
    BY <1>a DEF EndedStay, HeirInv, HeirlessWhileActive
  <1>1. ASSUME NEW m \in Mutations, MutationStep(m) PROVE EndedStay
    <2>1. CASE session' = session
      BY <1>a, <2>1
    <2>2. CASE CommitMutation(m)
      BY <1>0, <1>a, <2>2 DEF CommitMutation, TypeOK, SessionTable, SessionRow
    <2> QED
      BY <1>1, <2>1, <2>2 DEF MutationStep, Authorize, BeginAttempt, TouchSession, FenceEpoch,
           SpendGrant, RetryAttempt, AbandonMutation
  <1>2. ASSUME NEW r \in Refs, IssuanceStep(r) PROVE EndedStay
    <2>1. CASE session' = session
      BY <1>a, <2>1
    <2>2. CASE CommitIssuance(r)
      BY <2>2, CommitHeirs
    <2> QED
      BY <1>2, <2>1, <2>2 DEF IssuanceStep, BeginIssuance, RejectIssuance, AllocateVersion,
           RetirePrior, AbandonIssuance
  <1>3. CASE StatementStep
    <2>1. CASE session' = session
      BY <1>a, <2>1
    <2>2. ASSUME NEW r \in Refs, Logout(r) PROVE EndedStay
      <3>1. /\ session[r].state = "active" /\ session'[r].state = "revoked"
            /\ session'[r].heir = session[r].heir
            /\ \A q \in Refs : q # r => session'[q] = session[q]
        BY <1>0, <2>2 DEF Logout, TypeOK, SessionTable, SessionRow
      <3> QED  BY <3>1 DEF EndedStay, HeirInv, HeirlessWhileActive
    <2>3. ASSUME NEW q \in Gates, GateSlide(q) PROVE EndedStay
      <3>1. gate[q].ref \in Refs
        BY <1>0, <2>3 DEF GateSlide, TypeOK, GateTable
      <3>2. \/ session' = session
            \/ session' = [session EXCEPT ![gate[q].ref].idle =
                             Least(gate[q].at + IdleTimeout, session[gate[q].ref].absolute)]
        BY <2>3 DEF GateSlide
      <3> QED  BY <1>0, <1>a, <3>1, <3>2 DEF TypeOK, SessionTable, SessionRow
    <2> QED
      BY <1>3, <2>1, <2>2, <2>3 DEF StatementStep, BumpEpoch, GateRead, StepUpRead, StepUpInsert, Tick
  <1> QED  BY <1>1, <1>2, <1>3 DEF Next

\* An issuance another actor's step leaves alone keeps its prior as it was.
LEMMA OtherHeirs ==
  ASSUME IInv, HeirInv, EndedStay, NEW t, OthersKeep(t), RowsKeep(t),
         NEW r \in Refs, r # t, issuance'[r] = issuance[r]
  PROVE  PriorOpen(r)' /\ PriorEnded(r)'
  <1>1. r \in Txns \ {t} /\ (issuance[r].pc \in IssuanceInTxn => InTxn(r))
    BY DEF Txns, InTxn
  <1>2. issuance[r].prior # None =>
          issuance[r].prior \in Refs /\ issuance[r].prior \in Rows /\ Issued(issuance[r].prior)
    BY DEF IInv, TypeOK, IssuanceTable, IssuanceRecord, IssuanceSound, Rows
  <1>3. PriorOpen(r)'
    BY <1>1, <1>2 DEF HeirInv, PriorOpen, OthersKeep, RowsKeep
  <1>4. PriorEnded(r)'
    BY <1>2 DEF HeirInv, PriorEnded, EndedStay
  <1> QED  BY <1>3, <1>4

\* An issuance's own step keeps the record of the session it replaces.
LEMMA OwnHeirs ==
  ASSUME IInv, HeirInv, NEW r \in Refs, IssuanceStep(r)
  PROVE  PriorOpen(r)' /\ PriorEnded(r)'
  <1>0. TypeOK  BY DEF IInv
  <1>1. ASSUME NEW s \in Subjects, NEW cause \in IssueCauses, NEW p \in Refs \cup {None},
               BeginIssuance(r, s, cause, p)
        PROVE  PriorOpen(r)' /\ PriorEnded(r)'
    <2>1. /\ issuance'[r].pc = "read" /\ session' = session
          /\ issuance'[r].prior = None \/ session[issuance'[r].prior].state = "active"
      BY <1>0, <1>1 DEF BeginIssuance, TypeOK, IssuanceTable
    <2> QED  BY <2>1 DEF PriorOpen, PriorEnded
  <1>2. ASSUME issuance'[r].pc \in {"new", "rejected"} PROVE PriorOpen(r)' /\ PriorEnded(r)'
    BY <1>2 DEF PriorOpen, PriorEnded, IssuanceInTxn
  <1>3. ASSUME NEW s \in Subjects, NEW cause \in IssueCauses, NEW p \in Refs \cup {None},
               RejectIssuance(r, s, cause, p)
        PROVE  PriorOpen(r)' /\ PriorEnded(r)'
    BY <1>0, <1>2, <1>3 DEF RejectIssuance, TypeOK, IssuanceTable, IssuanceRecord
  <1>4. CASE AllocateVersion(r) \/ RetirePrior(r)
    <2>1. /\ issuance'[r].pc \in {"allocated", "retired"} /\ issuance[r].pc \in IssuanceInTxn
          /\ issuance'[r].prior = issuance[r].prior
          /\ session' = session /\ stale' = stale
      BY <1>0, <1>4 DEF AllocateVersion, RetirePrior, IssuanceInTxn, TypeOK, IssuanceTable, IssuanceRecord
    <2> QED  BY <2>1 DEF HeirInv, PriorOpen, PriorEnded
  <1>5. CASE CommitIssuance(r)
    <2>1. /\ issuance'[r].pc = "committed" /\ issuance'[r].prior = issuance[r].prior
          /\ issuance'[r].cause = issuance[r].cause
      BY <1>0, <1>5 DEF CommitIssuance, TypeOK, IssuanceTable, IssuanceRecord
    <2> QED  BY <1>5, <2>1, CommitHeirs DEF PriorOpen, PriorEnded, IssuanceInTxn
  <1>6. CASE AbandonIssuance(r)
    BY <1>0, <1>2, <1>6 DEF AbandonIssuance, TypeOK, IssuanceTable, IssuanceRecord
  <1> QED  BY <1>1, <1>3, <1>4, <1>5, <1>6 DEF IssuanceStep

\* Every step keeps the record of replaced sessions.
LEMMA HeirNext == IInv /\ HeirInv /\ [Next]_vars => HeirInv'
  <1> SUFFICES ASSUME IInv, HeirInv, [Next]_vars PROVE HeirInv'
    OBVIOUS
  <1>1. CASE UNCHANGED vars
    BY <1>1 DEF vars, HeirInv, PriorOpen, PriorEnded, HeirlessWhileActive
  <1>2. CASE Next
    <2>0. EndedStay
      BY <1>2, EndedIsFinal
    <2>1. ASSUME NEW m \in Mutations, MutationStep(m)
          PROVE  \A r \in Refs : PriorOpen(r)' /\ PriorEnded(r)'
      <3>1. RowsKeep(m)
        BY <2>1, MutationFrame DEF SameSessions, RowsKeep, Issued
      <3> QED
        BY <2>0, <2>1, <3>1, MutationFrame, OtherHeirs, DisjointAssumption
    <2>2. ASSUME NEW t \in Refs, IssuanceStep(t)
          PROVE  \A r \in Refs : PriorOpen(r)' /\ PriorEnded(r)'
      <3>1. RowsKeep(t) /\ OthersKeep(t) /\ (\A q \in Refs : q # t => issuance'[q] = issuance[q])
        BY <2>2, IssuanceFrame, IssuanceOwn
      <3> QED  BY <2>0, <2>2, <3>1, OwnHeirs, OtherHeirs
    <2>3. ASSUME StatementStep PROVE \A r \in Refs : PriorOpen(r)' /\ PriorEnded(r)'
      <3>1. RowsKeep(None) /\ OthersKeep(None) /\ issuance' = issuance /\ None \notin Refs
        BY <2>3, StatementFrame, NoneAssumption DEF Txns
      <3> QED  BY <2>0, <3>1, OtherHeirs
    <2> QED  BY <1>2, <2>0, <2>1, <2>2, <2>3 DEF Next, HeirInv, EndedStay
  <1> QED  BY <1>1, <1>2

\* The record holds from the start.
LEMMA HeirInit == Init => HeirInv
  BY DEF Init, HeirInv, PriorOpen, PriorEnded, HeirlessWhileActive, IssuanceInTxn

\* Replaced sessions are recorded as they ended, in every reachable state.
LEMMA HeirInvariance == Spec => []HeirInv
  <1> QED  BY HeirInit, HeirNext, Invariance, PTL DEF Spec

\* A committed issuance ended the very session it replaced, in the way its
\* cause demands; two issuances never replace the same one.
THEOREM ReplacedByItsHeir == Spec => []PriorEndedByItsHeir
  <1>1. HeirInv => PriorEndedByItsHeir
    BY DEF HeirInv, PriorEnded, PriorEndedByItsHeir
  <1> QED  BY <1>1, HeirInvariance, PTL

-----------------------------------------------------------------------------
(***************************************************************************)
(* The protocol implements the contract.  A grant a mutation saw usable is *)
(* still unspent unless its row is stale; the mutation commits holding the *)
(* row, so the grant it spends was spent by no one before.                 *)
(***************************************************************************)

\* The grant a mutation needs is issued as far as its transaction can see, and
\* locked once spent.
GrantHeld(m) ==
    /\ mutation[m].pc \in MutationInTxn /\ mutation[m].grant # None
          /\ mutation[m].grant \notin stale[m]
       => grant[mutation[m].grant].state = "issued"
    /\ mutation[m].pc = "spent" /\ mutation[m].grant # None => lock[mutation[m].grant] = m

GrantInv == \A m \in Mutations : GrantHeld(m)

\* A grant issued stays so, or its row becomes stale for every open transaction
\* other than t.
GrantsKeep(t) ==
    \A g \in Grants : grant[g].state = "issued" =>
        \/ grant'[g].state = "issued"
        \/ \A u \in Txns \ {t} : InTxn(u) => g \in stale'[u]

\* A mutation that another actor's step leaves alone keeps its grant.
LEMMA OtherGrant ==
  ASSUME IInv, GrantInv, NEW t, OthersKeep(t), GrantsKeep(t),
         NEW m \in Mutations, m # t, mutation'[m] = mutation[m]
  PROVE  GrantHeld(m)'
  <1>1. m \in Txns \ {t} /\ (mutation[m].pc \in MutationInTxn => InTxn(m))
    BY DEF Txns, InTxn
  <1>2. mutation[m].grant # None => mutation[m].grant \in Grants /\ mutation[m].grant \in Rows
    BY DEF IInv, TypeOK, MutationTable, MutationRecord, Rows
  <1>3. GrantHeld(m)
    BY DEF GrantInv
  <1>4. mutation[m].grant # None =>
          /\ lock[mutation[m].grant] = m => lock'[mutation[m].grant] = m
          /\ mutation[m].grant \notin stale'[m] => mutation[m].grant \notin stale[m]
    BY <1>1, <1>2 DEF OthersKeep
  <1>5. mutation[m].pc \in MutationInTxn /\ mutation[m].grant # None
           /\ mutation[m].grant \notin stale'[m]
        => grant'[mutation[m].grant].state = "issued"
    BY <1>1, <1>2, <1>3, <1>4 DEF GrantHeld, GrantsKeep
  <1> QED  BY <1>3, <1>4, <1>5 DEF GrantHeld

\* A mutation that commits spends a grant which is its own and unspent.
LEMMA SpentIsIssued ==
  ASSUME IInv, GrantInv, NEW m \in Mutations, mutation[m].pc = "spent",
         mutation[m].grant # None
  PROVE  /\ mutation[m].grant \in Grants
         /\ grant[mutation[m].grant].state = "issued"
         /\ mutation[m].grant \in Holds(m)
  <1>1. mutation[m].grant \in Grants /\ mutation[m].grant \in Rows
    BY DEF IInv, TypeOK, MutationTable, MutationRecord, Rows
  <1>2. lock[mutation[m].grant] = m
    BY DEF GrantInv, GrantHeld
  <1>3. mutation[m].grant \notin stale[m]
    BY <1>1, <1>2 DEF IInv, HeldIsCurrent, Txns
  <1> QED  BY <1>1, <1>2, <1>3 DEF GrantInv, GrantHeld, MutationInTxn, Holds

\* A mutation's step keeps its own grant and owes the others nothing.
LEMMA OwnGrant ==
  ASSUME IInv, GrantInv, NEW m \in Mutations, MutationStep(m)
  PROVE  GrantHeld(m)' /\ GrantsKeep(m)
  <1>0. TypeOK /\ m \in Txns /\ GrantHeld(m)
    BY DEF IInv, GrantInv, Txns
  <1>a. ASSUME grant' = grant PROVE GrantsKeep(m)
    BY <1>a DEF GrantsKeep
  <1>b. ASSUME mutation'[m].pc \in {"allowed", "denied", "committed"} PROVE GrantHeld(m)'
    BY <1>b DEF GrantHeld, MutationInTxn
  <1>1. ASSUME NEW r \in Refs, NEW g \in Grants \cup {None}, Authorize(m, r, g)
        PROVE  GrantHeld(m)' /\ GrantsKeep(m)
    <2>1. mutation'[m].pc = "allowed" /\ grant' = grant
      BY <1>0, <1>1 DEF Authorize, TypeOK, MutationTable, MutationRecord
    <2> QED  BY <1>a, <1>b, <2>1
  <1>2. CASE BeginAttempt(m)
    <2>1. /\ grant' = grant
          /\ mutation'[m].grant = mutation[m].grant
          /\ \/ mutation'[m].pc = "denied"
             \/ /\ mutation'[m].pc = "read"
                /\ mutation[m].grant # None => grant[mutation[m].grant].state = "issued"
      BY <1>0, <1>2 DEF BeginAttempt, Allowed, Usable, TypeOK, MutationTable, MutationRecord
    <2> QED  BY <1>a, <1>b, <2>1 DEF GrantHeld
  <1>3. CASE TouchSession(m) \/ FenceEpoch(m)
    <2>1. /\ mutation[m].pc \in MutationInTxn /\ mutation'[m].pc \in {"touched", "fenced"}
          /\ mutation'[m].grant = mutation[m].grant
          /\ grant' = grant /\ stale' = stale
      BY <1>0, <1>3 DEF TouchSession, FenceEpoch, MutationInTxn, TypeOK, MutationTable, MutationRecord
    <2> QED  BY <1>0, <1>a, <2>1 DEF GrantHeld
  <1>4. CASE SpendGrant(m)
    <2>1. /\ mutation[m].pc = "fenced" /\ mutation'[m].pc = "spent"
          /\ mutation'[m].grant = mutation[m].grant
          /\ grant' = grant /\ stale' = stale
          /\ mutation[m].grant # None => Take(m, mutation[m].grant)
      BY <1>0, <1>4 DEF SpendGrant, TypeOK, MutationTable, MutationRecord
    <2>2. mutation[m].grant # None => mutation[m].grant \in Rows
      BY <1>0 DEF TypeOK, MutationTable, MutationRecord, Rows
    <2>3. mutation[m].grant # None => lock'[mutation[m].grant] = m
      BY <1>0, <2>1, <2>2 DEF Take, TypeOK, LockTable
    <2> QED  BY <1>0, <1>a, <2>1, <2>3 DEF GrantHeld, MutationInTxn
  <1>5. CASE CommitMutation(m)
    <2>1. mutation'[m].pc = "committed" /\ mutation[m].pc = "spent" /\ Publish(m, Holds(m))
      BY <1>0, <1>5 DEF CommitMutation, TypeOK, MutationTable, MutationRecord
    <2>2. \/ mutation[m].grant = None /\ grant' = grant
          \/ mutation[m].grant # None /\ grant' = [grant EXCEPT ![mutation[m].grant].state = "consumed"]
      BY <1>5 DEF CommitMutation
    <2>3. CASE mutation[m].grant # None
      <3>1. mutation[m].grant \in Holds(m)
        BY <2>1, <2>3, SpentIsIssued
      <3>2. \A u \in Txns \ {m} : InTxn(u) => mutation[m].grant \in stale'[u]
        BY <2>1, <3>1 DEF Publish
      <3>3. \A g \in Grants : g # mutation[m].grant => grant'[g] = grant[g]
        BY <1>0, <2>2, <2>3 DEF TypeOK, GrantTable
      <3>4. GrantsKeep(m)
        BY <3>2, <3>3 DEF GrantsKeep
      <3> QED  BY <1>b, <2>1, <3>4
    <2> QED  BY <1>a, <1>b, <2>1, <2>2, <2>3
  <1>6. CASE RetryAttempt(m) \/ AbandonMutation(m)
    <2>1. mutation'[m].pc \in {"allowed", "denied"} /\ grant' = grant
      BY <1>0, <1>6 DEF RetryAttempt, AbandonMutation, TypeOK, MutationTable, MutationRecord
    <2> QED  BY <1>a, <1>b, <2>1
  <1> QED  BY <1>1, <1>2, <1>3, <1>4, <1>5, <1>6 DEF MutationStep

\* An autocommitted statement takes back no grant.
LEMMA StatementGrants ==
  ASSUME IInv, StatementStep
  PROVE  GrantsKeep(None) /\ \A g \in Grants : grant'[g].state = "consumed" <=> grant[g].state = "consumed"
  <1> DEFINE Goal == GrantsKeep(None) /\ \A g \in Grants : grant'[g].state = "consumed" <=> grant[g].state = "consumed"
  <1>0. TypeOK  BY DEF IInv
  <1>1. CASE grant' = grant
    BY <1>1 DEF GrantsKeep
  <1>2. ASSUME NEW g \in Grants, NEW r \in Refs, StepUpRead(g, r) PROVE Goal
    <2>1. /\ grant[g].state = "none" /\ grant'[g].state = "reading"
          /\ \A h \in Grants : h # g => grant'[h] = grant[h]
      BY <1>0, <1>2 DEF StepUpRead, TypeOK, GrantTable
    <2> QED  BY <2>1 DEF GrantsKeep
  <1>3. ASSUME NEW g \in Grants, StepUpInsert(g) PROVE Goal
    <2>1. /\ grant[g].state = "reading" /\ grant'[g].state \in {"refused", "issued"}
          /\ \A h \in Grants : h # g => grant'[h] = grant[h]
      BY <1>0, <1>3 DEF StepUpInsert, TypeOK, GrantTable
    <2> QED  BY <2>1 DEF GrantsKeep
  <1> QED
    BY <1>1, <1>2, <1>3 DEF StatementStep, Logout, BumpEpoch, GateRead, GateSlide, Tick

\* Every step keeps the grants of the mutations in flight.
LEMMA GrantNext == IInv /\ GrantInv /\ [Next]_vars => GrantInv'
  <1> SUFFICES ASSUME IInv, GrantInv, [Next]_vars PROVE GrantInv'
    OBVIOUS
  <1>1. CASE UNCHANGED vars
    BY <1>1 DEF vars, GrantInv, GrantHeld
  <1>2. ASSUME NEW n \in Mutations, MutationStep(n) PROVE GrantInv'
    <2>1. OthersKeep(n) /\ (\A m \in Mutations : m # n => mutation'[m] = mutation[m])
      BY <1>2, MutationFrame
    <2>2. GrantHeld(n)' /\ GrantsKeep(n)
      BY <1>2, OwnGrant
    <2>3. \A m \in Mutations : m # n => GrantHeld(m)'
      BY <2>1, <2>2, OtherGrant
    <2> QED  BY <2>2, <2>3 DEF GrantInv
  <1>3. ASSUME NEW r \in Refs, IssuanceStep(r) PROVE GrantInv'
    <2>1. OthersKeep(r) /\ mutation' = mutation
      BY <1>3, IssuanceFrame
    <2>2. grant' = grant
      BY <1>3 DEF IssuanceStep, BeginIssuance, RejectIssuance, AllocateVersion, RetirePrior,
           CommitIssuance, AbandonIssuance
    <2>3. GrantsKeep(r)
      BY <2>2 DEF GrantsKeep
    <2>4. \A m \in Mutations : m # r
      BY DisjointAssumption
    <2>5. \A m \in Mutations : GrantHeld(m)'
      BY <2>1, <2>3, <2>4, OtherGrant
    <2> QED  BY <2>5 DEF GrantInv
  <1>4. CASE StatementStep
    <2>1. OthersKeep(None) /\ mutation' = mutation /\ GrantsKeep(None)
      BY <1>4, StatementFrame, StatementGrants
    <2>2. \A m \in Mutations : m # None
      BY NoneAssumption DEF Txns
    <2>3. \A m \in Mutations : GrantHeld(m)'
      BY <2>1, <2>2, OtherGrant
    <2> QED  BY <2>3 DEF GrantInv
  <1> QED  BY <1>1, <1>2, <1>3, <1>4 DEF Next

\* The grants of the mutations in flight are sound from the start, and stay so.
LEMMA GrantInvariance == Spec => []GrantInv
  <1>1. Init => GrantInv
    BY DEF Init, GrantInv, GrantHeld, MutationInTxn
  <1> QED  BY <1>1, GrantNext, Invariance, PTL DEF Spec

-----------------------------------------------------------------------------
(***************************************************************************)
(* The steps of the contract.  The abstract variables, as definitions:     *)
(***************************************************************************)
LiveSet == {r \in Refs : Issued(r) /\ Live(r)}
EndedSet == {r \in Refs : Issued(r) /\ ~Live(r)}
Owners == [r \in Refs |-> session[r].subject]
ClosedSet == {s \in Subjects : authority[s].lifecycle # "active"}
SpentSet == {g \in Grants : grant[g].state = "consumed"}
Acts == [m \in Mutations |-> IF mutation[m].pc = "committed" THEN mutation[m].ref ELSE None]

\* A step that keeps the rows' states, subjects and epochs keeps who is live.
LEMMA SessionsStutter ==
  ASSUME IInv, SameSessions, authority' = authority
  PROVE  /\ LiveSet' = LiveSet /\ EndedSet' = EndedSet /\ Owners' = Owners
         /\ ClosedSet' = ClosedSet
  BY DEF SameSessions, LiveSet, EndedSet, Owners, ClosedSet, Issued, Live

\* A step that keeps the mutations that committed keeps who acted.
LEMMA ActsStutter ==
  ASSUME IInv, \A m \in Mutations : \/ mutation'[m] = mutation[m]
                                    \/ mutation[m].pc # "committed" /\ mutation'[m].pc # "committed"
  PROVE  Acts' = Acts
  BY DEF Acts

\* The contract's state does not change when the abstract variables do not.
LEMMA ContractStutter ==
  ASSUME LiveSet' = LiveSet, EndedSet' = EndedSet, Owners' = Owners,
         ClosedSet' = ClosedSet, SpentSet' = SpentSet, Acts' = Acts
  PROVE  UNCHANGED Contract!contractVars
  BY DEF Contract!contractVars, LiveSet, EndedSet, Owners, ClosedSet, SpentSet, Acts

\* Acting and issuing are steps of the contract.
LEMMA ActIsNext ==
  ASSUME NEW m \in Mutations, NEW q \in Refs, NEW grants \in SUBSET Grants,
         Contract!Act(m, q, grants)
  PROVE  Contract!Next
  BY DEF Contract!Next

LEMMA IssueIsNext ==
  ASSUME NEW q \in Refs, NEW s \in Subjects, NEW replaced \in SUBSET LiveSet,
         Contract!Issue(q, s, replaced)
  PROVE  Contract!Next
  BY DEF Contract!Next, LiveSet

\* A mutation that commits acts, on a live session, with grants unspent; no
\* other step of a mutation shows.
LEMMA MutationRefines ==
  ASSUME IInv, GrantInv, NEW m \in Mutations, MutationStep(m)
  PROVE  Contract!Next \/ UNCHANGED Contract!contractVars
  <1>0. TypeOK  BY DEF IInv
  <1>1. /\ SameSessions /\ authority' = authority
        /\ \A n \in Mutations : n # m => mutation'[n] = mutation[n]
    BY MutationFrame
  <1>2. /\ LiveSet' = LiveSet /\ EndedSet' = EndedSet /\ Owners' = Owners
        /\ ClosedSet' = ClosedSet
    BY <1>1, SessionsStutter
  <1>3. ASSUME grant' = grant, mutation[m].pc # "committed", mutation'[m].pc # "committed"
        PROVE  UNCHANGED Contract!contractVars
    <2>1. SpentSet' = SpentSet /\ Acts' = Acts
      BY <1>1, <1>3, ActsStutter DEF SpentSet
    <2> QED  BY <1>2, <2>1, ContractStutter
  <1>4. ASSUME NEW r \in Refs, NEW g \in Grants \cup {None}, Authorize(m, r, g)
        PROVE  UNCHANGED Contract!contractVars
    BY <1>0, <1>3, <1>4 DEF Authorize, TypeOK, MutationTable, MutationRecord
  <1>5. CASE BeginAttempt(m)
    <2>1. grant' = grant /\ mutation[m].pc = "allowed" /\ mutation'[m].pc \in {"read", "denied"}
      BY <1>0, <1>5 DEF BeginAttempt, TypeOK, MutationTable, MutationRecord
    <2> QED  BY <1>3, <2>1
  <1>6. CASE TouchSession(m) \/ FenceEpoch(m) \/ SpendGrant(m)
    BY <1>0, <1>3, <1>6 DEF TouchSession, FenceEpoch, SpendGrant, TypeOK, MutationTable, MutationRecord
  <1>7. CASE RetryAttempt(m)
    <2>1. grant' = grant /\ mutation[m].pc # "committed" /\ mutation'[m].pc \in {"allowed", "denied"}
      BY <1>0, <1>7 DEF RetryAttempt, TypeOK, MutationTable, MutationRecord
    <2> QED  BY <1>3, <2>1
  <1>8. CASE AbandonMutation(m)
    BY <1>0, <1>3, <1>8 DEF AbandonMutation, MutationInTxn, TypeOK, MutationTable, MutationRecord
  <1>9. CASE CommitMutation(m)
    <2> DEFINE r == mutation[m].ref
               g == mutation[m].grant
               grants == IF g = None THEN {} ELSE {g}
    <2>1. /\ mutation[m].pc = "spent"
          /\ mutation' = [mutation EXCEPT ![m].pc = "committed"]
          /\ grant' = IF g = None THEN grant ELSE [grant EXCEPT ![g].state = "consumed"]
      BY <1>9 DEF CommitMutation
    <2>2. r \in LiveSet
      <3>1. /\ r \in Refs /\ Issued(r) /\ SubjectOf(m) \in Subjects
            /\ r \in Rows /\ SubjectOf(m) \in Rows
            /\ lock[r] = m /\ lock[SubjectOf(m)] = m
        BY <2>1 DEF IInv, MutationSound, RowSound, SubjectOf, Rows
      <3>2. r \notin stale[m] /\ SubjectOf(m) \notin stale[m]
        BY <3>1 DEF IInv, HeldIsCurrent, Txns
      <3> QED
        BY <2>1, <3>1, <3>2 DEF IInv, MutationSound, MutationInTxn, Live, SubjectOf, LiveSet
    <2>3. /\ grants \in SUBSET Grants
          /\ grants \cap SpentSet = {}
      BY <2>1, SpentIsIssued DEF SpentSet
    <2>4. SpentSet' = SpentSet \cup grants
      <3>1. CASE g = None
        BY <2>1, <3>1 DEF SpentSet
      <3>2. CASE g # None
        <4>1. g \in Grants
          BY <2>1, <3>2, SpentIsIssued
        <4>2. /\ grant'[g].state = "consumed"
              /\ \A h \in Grants : h # g => grant'[h] = grant[h]
          BY <1>0, <2>1, <3>2, <4>1 DEF TypeOK, GrantTable
        <4> QED  BY <3>2, <4>1, <4>2 DEF SpentSet
      <3> QED  BY <3>1, <3>2
    <2>5. Acts[m] = None /\ Acts' = [Acts EXCEPT ![m] = r]
      <3>1. mutation'[m].pc = "committed" /\ mutation'[m].ref = r
        BY <1>0, <2>1 DEF TypeOK, MutationTable, MutationRecord
      <3>2. Acts[m] = None
        BY <2>1 DEF Acts
      <3>3. \A n \in Mutations : Acts'[n] = IF n = m THEN r ELSE Acts[n]
        BY <1>1, <3>1 DEF Acts
      <3>4. /\ Acts = [n \in Mutations |-> Acts[n]]
            /\ Acts' = [n \in Mutations |-> Acts'[n]]
        BY DEF Acts
      <3> HIDE DEF Acts, r
      <3> QED  BY <3>2, <3>3, <3>4
    <2>6. ASSUME NEW q \in Refs, q = r, NEW used \in SUBSET Grants, used = grants
          PROVE  Contract!Act(m, q, used)
      BY <2>6, <1>2, <2>2, <2>3, <2>4, <2>5
         DEF Contract!Act, LiveSet, EndedSet, Owners, ClosedSet, SpentSet, Acts
    <2>7. r \in Refs  BY <2>2 DEF LiveSet
    <2>8. ASSUME NEW q \in Refs, q = r, NEW used \in SUBSET Grants, used = grants
          PROVE  Contract!Next
      BY <2>6, <2>8, ActIsNext
    <2> HIDE DEF r, grants
    <2> QED  BY <2>3, <2>7, <2>8
  <1> QED
    BY <1>4, <1>5, <1>6, <1>7, <1>8, <1>9 DEF MutationStep

\* A commit of an issuance starts one session and ends the one it replaces, at
\* once; no other step of an issuance shows.
LEMMA IssuanceRefines ==
  ASSUME IInv, HeirInv, NEW r \in Refs, IssuanceStep(r)
  PROVE  Contract!Next \/ UNCHANGED Contract!contractVars
  <1>0. TypeOK  BY DEF IInv
  <1>1. mutation' = mutation /\ grant' = grant
    BY DEF IssuanceStep, BeginIssuance, RejectIssuance, AllocateVersion, RetirePrior,
           CommitIssuance, AbandonIssuance
  <1>2. SpentSet' = SpentSet /\ Acts' = Acts
    BY <1>1 DEF SpentSet, Acts
  <1>3. CASE session' = session /\ authority' = authority
    <2>1. /\ LiveSet' = LiveSet /\ EndedSet' = EndedSet /\ Owners' = Owners
          /\ ClosedSet' = ClosedSet
      BY <1>3, SessionsStutter DEF SameSessions
    <2> QED  BY <1>2, <2>1, ContractStutter
  <1>4. CASE CommitIssuance(r)
    <2> DEFINE s == issuance[r].subject
               p == issuance[r].prior
               replaced == {q \in LiveSet : q = p}
    <2>1. /\ s \in Subjects /\ ~Issued(r)
          /\ session'[r].state = "active" /\ session'[r].subject = s
          /\ session'[r].epoch = authority[s].epoch
          /\ authority[s].lifecycle = "active"
          /\ authority'[s].epoch = authority[s].epoch
          /\ authority'[s].lifecycle = "active"
          /\ \A x \in Subjects : x # s => authority'[x] = authority[x]
          /\ \A q \in Refs : q # r => /\ session'[q].subject = session[q].subject
                                      /\ session'[q].epoch = session[q].epoch
                                      /\ q # p => session'[q].state = session[q].state
                                      /\ (session'[q].state # "none" <=> session[q].state # "none")
      BY <1>4, IssuanceRows
    <2>2. p # None => p # r /\ session'[p].state \in {"revoked", "rotated"}
      <3>1. issuance[r].pc = "retired"
        BY <1>4 DEF CommitIssuance
      <3> QED  BY <1>4, <3>1, CommitHeirs, PriorIsActive
    <2>3. None \notin Refs
      BY NoneAssumption DEF Rows
    <2>4. \A x \in Subjects : authority'[x].epoch = authority[x].epoch
      BY <2>1
    <2>5. \A q \in Refs : Issued(q) => session[q].subject \in Subjects
      BY DEF IInv, RowSound
    <2>6. r \in LiveSet' /\ r \notin LiveSet /\ r \notin EndedSet
      BY <2>1 DEF LiveSet, EndedSet, Issued, Live
    <2>7. ASSUME NEW q \in Refs, q # r
          PROVE  /\ q \in LiveSet' <=> q \in LiveSet /\ q # p
                 /\ q \in EndedSet' <=> (q \in EndedSet \/ q \in replaced)
      <3>1. CASE q = p
        <4>1. session'[q].state \in {"revoked", "rotated"}
          BY <2>2, <2>3, <3>1
        <4> QED  BY <2>1, <2>7, <3>1, <4>1 DEF LiveSet, EndedSet, Issued, Live
      <3>2. CASE q # p
        BY <2>1, <2>4, <2>5, <2>7, <3>2 DEF LiveSet, EndedSet, Issued, Live
      <3> QED  BY <3>1, <3>2
    <2>8. LiveSet' = (LiveSet \ replaced) \cup {r}
      <3>1. LiveSet' \subseteq Refs /\ LiveSet \subseteq Refs
        BY DEF LiveSet
      <3> QED  BY <2>6, <2>7, <3>1
    <2>9. EndedSet' = EndedSet \cup replaced
      <3>1. EndedSet' \subseteq Refs /\ EndedSet \subseteq Refs /\ LiveSet \subseteq Refs
        BY DEF EndedSet, LiveSet
      <3>2. r \notin EndedSet'
        BY <2>6 DEF LiveSet, EndedSet
      <3> QED  BY <2>6, <2>7, <3>1, <3>2
    <2>10. Owners' = [Owners EXCEPT ![r] = s]
      BY <2>1 DEF Owners
    <2>11. ClosedSet' = ClosedSet /\ s \notin ClosedSet
      BY <2>1 DEF ClosedSet
    <2>12. replaced \in SUBSET LiveSet /\ \A x, y \in replaced : x = y
      OBVIOUS
    <2>13. ASSUME NEW x \in Subjects, x = s, NEW gone \in SUBSET LiveSet, gone = replaced
           PROVE  Contract!Issue(r, x, gone)
      <3> HIDE DEF replaced, s
      <3> QED
        BY <2>13, <1>2, <2>6, <2>8, <2>9, <2>10, <2>11, <2>12
           DEF Contract!Issue, LiveSet, EndedSet, Owners, ClosedSet, SpentSet, Acts
    <2>14. ASSUME NEW x \in Subjects, x = s, NEW gone \in SUBSET LiveSet, gone = replaced
           PROVE  Contract!Next
      BY <2>13, <2>14, IssueIsNext
    <2>15. s \in Subjects /\ replaced \in SUBSET LiveSet
      BY <2>1, <2>12
    <2> HIDE DEF replaced, s
    <2> QED  BY <2>14, <2>15
  <1> QED
    BY <1>3, <1>4 DEF IssuanceStep, BeginIssuance, RejectIssuance, AllocateVersion,
         RetirePrior, AbandonIssuance

\* A logout ends one session, a bump every session of its subject; no other
\* statement shows.
LEMMA StatementRefines ==
  ASSUME IInv, StatementStep
  PROVE  Contract!Next \/ UNCHANGED Contract!contractVars
  <1>0. TypeOK  BY DEF IInv
  <1>1. mutation' = mutation
    BY StatementFrame
  <1>2. SpentSet' = SpentSet /\ Acts' = Acts
    BY <1>1, StatementGrants DEF SpentSet, Acts
  <1>3. CASE SameSessions /\ authority' = authority
    BY <1>2, <1>3, SessionsStutter, ContractStutter
  <1>4. ASSUME NEW r \in Refs, Logout(r)
        PROVE  Contract!Next \/ UNCHANGED Contract!contractVars
    <2>1. /\ authority' = authority /\ session[r].state = "active"
          /\ session'[r] = [session[r] EXCEPT !.state = "revoked"]
          /\ \A q \in Refs : q # r => session'[q] = session[q]
      BY <1>0, <1>4 DEF Logout, TypeOK, SessionTable
    <2>2. /\ session'[r].state = "revoked" /\ session'[r].subject = session[r].subject
          /\ session'[r].epoch = session[r].epoch
      BY <1>0, <2>1 DEF TypeOK, SessionTable, SessionRow
    <2>3. ClosedSet' = ClosedSet /\ Owners' = Owners
      BY <2>1, <2>2 DEF ClosedSet, Owners
    <2>4. /\ r \notin LiveSet' /\ r \in EndedSet'
          /\ r \in LiveSet \/ r \in EndedSet
          /\ \A q \in Refs : q # r => /\ (q \in LiveSet' <=> q \in LiveSet)
                                      /\ (q \in EndedSet' <=> q \in EndedSet)
      BY <2>1, <2>2 DEF LiveSet, EndedSet, Issued, Live
    <2>5. LiveSet \subseteq Refs /\ EndedSet \subseteq Refs /\ LiveSet \cap EndedSet = {}
          /\ LiveSet' \subseteq Refs /\ EndedSet' \subseteq Refs
      BY DEF LiveSet, EndedSet
    <2>6. LiveSet' = LiveSet \ {r} /\ EndedSet' = EndedSet \cup {r}
      BY <2>4, <2>5
    <2>7. CASE r \in LiveSet
      <3>1. Contract!SignOut(r)
        BY <1>2, <2>3, <2>6, <2>7
           DEF Contract!SignOut, LiveSet, EndedSet, Owners, ClosedSet, SpentSet, Acts
      <3> QED  BY <3>1 DEF Contract!Next
    <2>8. CASE r \in EndedSet
      <3>1. LiveSet' = LiveSet /\ EndedSet' = EndedSet
        BY <2>5, <2>6, <2>8
      <3> QED  BY <1>2, <2>3, <3>1, ContractStutter
    <2> QED  BY <2>4, <2>7, <2>8
  <1>5. ASSUME NEW s \in Subjects, NEW cause \in BumpCauses, BumpEpoch(s, cause)
        PROVE  Contract!Next
    <2>1. /\ session' = session
          /\ authority' = [authority EXCEPT ![s] =
                              [authority[s] EXCEPT
                                 !.epoch = authority[s].epoch + 1,
                                 !.lifecycle = LifecycleAfter(cause, authority[s].lifecycle)]]
      BY <1>5, Zenon DEF BumpEpoch
    <2>2. /\ authority'[s].epoch = authority[s].epoch + 1
          /\ authority'[s].lifecycle = LifecycleAfter(cause, authority[s].lifecycle)
          /\ \A x \in Subjects : x # s => authority'[x] = authority[x]
      <3>1. authority[s] \in AuthorityRow /\ DOMAIN authority = Subjects
        BY <1>0 DEF TypeOK, AuthorityTable
      <3>2. /\ authority'[s] = [authority[s] EXCEPT
                                 !.epoch = authority[s].epoch + 1,
                                 !.lifecycle = LifecycleAfter(cause, authority[s].lifecycle)]
            /\ \A x \in Subjects : x # s => authority'[x] = authority[x]
        BY <2>1, <3>1
      <3> QED  BY <3>1, <3>2 DEF AuthorityRow
    <2>3. /\ \A q \in Refs : Issued(q) => session[q].subject \in Subjects
                                          /\ session[q].epoch <= authority[session[q].subject].epoch
          /\ authority[s].epoch \in Nat /\ \A q \in Refs : session[q].epoch \in Nat
      BY <1>0 DEF IInv, RowSound, RowAhead, TypeOK, AuthorityTable, AuthorityRow, SessionTable, SessionRow
    <2>4. Owners' = Owners
      BY <2>1 DEF Owners
    <2>5. ASSUME NEW q \in Refs
          PROVE  /\ q \in LiveSet' <=> (q \in LiveSet /\ Owners[q] # s)
                 /\ q \in EndedSet' <=> (q \in EndedSet \/ (q \in LiveSet /\ Owners[q] = s))
      <3>1. Owners[q] = session[q].subject
        BY DEF Owners
      <3>2. CASE Issued(q) /\ session[q].subject = s
        <4>1. session[q].epoch # authority'[s].epoch
          BY <2>2, <2>3, <3>2
        <4> QED  BY <2>1, <3>1, <3>2, <4>1 DEF LiveSet, EndedSet, Issued, Live
      <3>3. CASE Issued(q) /\ session[q].subject # s
        BY <2>1, <2>2, <2>3, <3>1, <3>3 DEF LiveSet, EndedSet, Issued, Live
      <3>4. CASE ~Issued(q)
        BY <2>1, <3>4 DEF LiveSet, EndedSet, Issued
      <3> QED  BY <3>2, <3>3, <3>4
    <2>6. /\ LiveSet' = {q \in LiveSet : Owners[q] # s}
          /\ EndedSet' = EndedSet \cup {q \in LiveSet : Owners[q] = s}
      <3>1. LiveSet \subseteq Refs /\ EndedSet \subseteq Refs
            /\ LiveSet' \subseteq Refs /\ EndedSet' \subseteq Refs
        BY DEF LiveSet, EndedSet
      <3> QED  BY <2>5, <3>1
    <2>7. ClosedSet' \in {ClosedSet, ClosedSet \cup {s}}
      <3>1. authority[s].lifecycle # "active" => authority'[s].lifecycle # "active"
        BY <2>2 DEF LifecycleAfter
      <3> QED  BY <2>2, <3>1 DEF ClosedSet
    <2>8. Contract!Revoke(s)
      BY <1>2, <2>4, <2>6, <2>7
         DEF Contract!Revoke, LiveSet, EndedSet, Owners, ClosedSet, SpentSet, Acts
    <2> QED  BY <2>8 DEF Contract!Next
  <1>6. ASSUME NEW q \in Gates, GateSlide(q) PROVE SameSessions /\ authority' = authority
    <2>1. gate[q].ref \in Refs
      BY <1>0, <1>6 DEF GateSlide, TypeOK, GateTable
    <2>2. /\ authority' = authority
          /\ \/ session' = session
             \/ session' = [session EXCEPT ![gate[q].ref].idle =
                              Least(gate[q].at + IdleTimeout, session[gate[q].ref].absolute)]
      BY <1>6 DEF GateSlide
    <2> QED  BY <1>0, <2>1, <2>2 DEF SameSessions, TypeOK, SessionTable, SessionRow
  <1>7. CASE session' = session /\ authority' = authority
    BY <1>3, <1>7 DEF SameSessions
  <1> QED
    BY <1>3, <1>4, <1>5, <1>6, <1>7 DEF StatementStep, GateRead, StepUpRead, StepUpInsert, Tick

\* The whole protocol -- snapshots, locks, retries, crashes -- implements the
\* contract: one atomic life per session, acts only on live sessions, each
\* grant spent by one act.
THEOREM SessionsImplementContract == Spec => ImplementsContract
  <1>1. Init => Contract!Init
    <2> SUFFICES ASSUME Init PROVE Contract!Init
      OBVIOUS
    <2>1. LiveSet = {} /\ EndedSet = {} /\ ClosedSet = {} /\ SpentSet = {}
      BY DEF Init, LiveSet, EndedSet, ClosedSet, SpentSet, Issued
    <2>2. Owners = [r \in Refs |-> None] /\ Acts = [m \in Mutations |-> None]
      BY DEF Init, Owners, Acts
    <2> QED  BY <2>1, <2>2 DEF Contract!Init, LiveSet, EndedSet, ClosedSet, SpentSet, Owners, Acts
  <1>2. IInv /\ HeirInv /\ GrantInv /\ [Next]_vars => [Contract!Next]_Contract!contractVars
    <2> SUFFICES ASSUME IInv, HeirInv, GrantInv, [Next]_vars
                 PROVE  Contract!Next \/ UNCHANGED Contract!contractVars
      BY DEF Contract!contractVars
    <2>1. CASE UNCHANGED vars
      BY <2>1 DEF vars, Contract!contractVars, Issued, Live
    <2>2. CASE Next
      BY <2>2, MutationRefines, IssuanceRefines, StatementRefines DEF Next
    <2> QED  BY <2>1, <2>2
  <1> QED
    BY <1>1, <1>2, Invariance, HeirInvariance, GrantInvariance, PTL
       DEF Spec, ImplementsContract, Contract!Spec
=============================================================================
