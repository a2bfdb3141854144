-------------------------------- MODULE Ledger --------------------------------
(***************************************************************************)
(* The manual transactions of a budget space: each keeps the line of its   *)
(* versions, a mutation appends one, and a mutation that names an          *)
(* idempotency key is answered from the key's row when it is retried.      *)
(*                                                                         *)
(* A call reads the membership, then the key's row, then runs its effect   *)
(* in one SERIALIZABLE transaction that is never re-run; calls of several  *)
(* clients, and retries of one, interleave between these steps.  Amounts,  *)
(* dates, accounts and allocations are the command's data.                 *)
(***************************************************************************)
EXTENDS Naturals, FiniteSets

CONSTANTS
    Calls,          \* HTTP calls of the three mutating routes
    Actors,         \* memberships
    Keys,           \* idempotency keys
    Commands,       \* parsed bodies of a create or an edit
    Transactions, Versions,     \* identifiers
    None,
    MaxAuthorization            \* bound on a membership's authorization version

ASSUME LedgerAssumption ==
    /\ None \notin Calls \cup Actors \cup Keys \cup Commands \cup Transactions \cup Versions
    /\ MaxAuthorization \in Nat

VARIABLES
    versions,       \* version rows
    rows,           \* idempotency rows
    authorization,  \* authorization version of each membership
    calls           \* where each call stands, and what it was answered

ledgerVars == <<versions, rows, authorization, calls>>

Actions == {"create", "edit", "remove"}
Answers == {"committed", "replayed", "mismatch", "denied", "stale", "removed", "conflict"}

NoVersion == [transaction |-> None, revision |-> 0, command |-> None, removed |-> FALSE,
              superseded |-> FALSE, replaces |-> None, call |-> None]

NoRequest == [actor |-> None, action |-> None, key |-> None, target |-> None,
              basis |-> None, command |-> None]

NoCall == [phase |-> "new", request |-> NoRequest, seen |-> 0, read |-> None, proved |-> 0,
           answer |-> None, version |-> None]

LedgerInit ==
    /\ versions = [v \in Versions |-> NoVersion]
    /\ rows = {}
    /\ authorization = [m \in Actors |-> 1]
    /\ calls = [c \in Calls |-> NoCall]

Written == {v \in Versions : versions[v].transaction # None}
Line(t) == {v \in Written : versions[v].transaction = t}
Current(t) == {v \in Line(t) : ~ versions[v].superseded}
Recorded == {t \in Transactions : Line(t) # {}}

Scope(q) == [actor |-> q.actor, action |-> q.action, key |-> q.key]
Digest(q) == [action |-> q.action, target |-> q.target, basis |-> q.basis, command |-> q.command]

\* The requests a client can form of what it may have read: an edit or a
\* removal states a version of its target as its basis, or none.
Forms(action, targets, bases, commands) ==
    [actor : Actors, action : {action}, key : Keys \cup {None},
     target : targets, basis : bases, command : commands]

Requests ==
    Forms("create", {None}, {None}, Commands) \cup
    UNION {Forms("edit", {t}, Line(t) \cup {None}, Commands)
             \cup Forms("remove", {t}, Line(t) \cup {None}, {None}) : t \in Recorded}

-----------------------------------------------------------------------------
(* The steps of a call.                                                    *)

Answer(c, kind, v) ==
    calls' = [calls EXCEPT ![c] = [NoCall EXCEPT !.phase = "answered", !.request = calls[c].request,
                                                 !.answer = kind, !.version = v]]

\* The replay hook reads the membership the key is scoped to.
Arrive(c, q) ==
    /\ calls[c].phase = "new"
    /\ calls' = [calls EXCEPT ![c] = [NoCall EXCEPT !.phase = "arrived", !.request = q,
                                                    !.seen = authorization[q.actor]]]
    /\ UNCHANGED <<versions, rows, authorization>>

Stored(q) == {w \in rows : w.scope = Scope(q)}

\* Faulty: whatever was stored under the key is the answer.
ReplyUnchecked(c, w) == Answer(c, "replayed", w.version)

\* The answer to a key already used.
Reply(c, w) ==
    IF w.digest # Digest(calls[c].request) THEN Answer(c, "mismatch", None)
    ELSE IF w.authorization < calls[c].seen THEN Answer(c, "denied", None)
    ELSE Answer(c, "replayed", w.version)

\* The hook's second read.  Without a row for the key the call goes on.
Lookup(c) ==
    /\ calls[c].phase = "arrived"
    /\ \/ \E w \in Stored(calls[c].request) : Reply(c, w)
       \/ /\ Stored(calls[c].request) = {}
          /\ calls' = [calls EXCEPT ![c] = [@ EXCEPT !.phase = "looked", !.seen = 0]]
    /\ UNCHANGED <<versions, rows, authorization>>

\* The policy denies the call.
Deny(c) ==
    /\ calls[c].phase = "looked"
    /\ Answer(c, "denied", None)
    /\ UNCHANGED <<versions, rows, authorization>>

\* Faulty: a stated basis is taken for one the client might have had.
BasisHoldsForAny(q, v) == q.basis \in Line(q.target) \cup {None}

BasisHolds(q, v) == q.basis \in {None, v}

\* The effect's transaction opens: the reads of its snapshot and the checks
\* on them, the basis first.
Begin(c) ==
    LET q == calls[c].request
        opened(v) == calls' = [calls EXCEPT ![c] = [@ EXCEPT !.phase = "open", !.read = v,
                                                             !.proved = authorization[q.actor]]]
    IN  /\ calls[c].phase = "looked"
        /\ \/ q.action = "create" /\ opened(None)
           \/ \E v \in Current(q.target) :
                 IF ~ BasisHolds(q, v) THEN Answer(c, "stale", None)
                 ELSE IF versions[v].removed THEN Answer(c, "removed", None) ELSE opened(v)
        /\ UNCHANGED <<versions, rows, authorization>>

\* Faulty: a supersession that changed no current row goes on.
StillCurrentUnchecked(c) == TRUE

\* The version the snapshot read is still the current one: the stamp of a
\* superseded row, and a second current row, are refused by the database.
StillCurrent(c) == calls[c].read # None => ~ versions[calls[c].read].superseded

\* Faulty: the scope is not unique.
KeyUnusedUnchecked(q) == TRUE

KeyUnused(q) == Stored(q) = {}

\* The version the call's effect appends to the transaction t.
Appended(c, t) ==
    LET q == calls[c].request
        r == calls[c].read
    IN  [transaction |-> t,
         revision |-> IF r = None THEN 1 ELSE versions[r].revision + 1,
         command |-> IF q.action = "remove" THEN versions[r].command ELSE q.command,
         removed |-> q.action = "remove", superseded |-> FALSE, replaces |-> r, call |-> c]

\* The transaction commits: the stamp, the version and the key's row, or none.
Commit(c, v, t) ==
    LET q == calls[c].request IN
    /\ calls[c].phase = "open"
    /\ v \notin Written
    /\ IF q.action = "create" THEN t \notin Recorded ELSE t = q.target
    /\ StillCurrent(c)
    /\ KeyUnused(q)
    /\ versions' = [u \in Versions |->
          IF u = v THEN Appended(c, t)
          ELSE IF u = calls[c].read THEN [versions[u] EXCEPT !.superseded = TRUE] ELSE versions[u]]
    /\ rows' = IF q.key = None THEN rows
               ELSE rows \cup {[scope |-> Scope(q), digest |-> Digest(q), version |-> v,
                                authorization |-> calls[c].proved]}
    /\ Answer(c, "committed", v)
    /\ UNCHANGED authorization

\* The transaction fails, for whatever reason, and rolls back.
Conflict(c) ==
    /\ calls[c].phase = "open"
    /\ Answer(c, "conflict", None)
    /\ UNCHANGED <<versions, rows, authorization>>

\* A change of the member's role bumps the version of its authorization.  Both
\* roles change when the space is handed over; here it may happen at any time.
RoleChanges(m) ==
    /\ authorization[m] < MaxAuthorization
    /\ authorization' = [authorization EXCEPT ![m] = @ + 1]
    /\ UNCHANGED <<versions, rows, calls>>

LedgerStep ==
    \/ \E c \in Calls :
          \/ \E q \in Requests : Arrive(c, q)
          \/ Lookup(c)
          \/ Deny(c)
          \/ Begin(c)
          \/ \E v \in Versions, t \in Transactions : Commit(c, v, t)
          \/ Conflict(c)
    \/ \E m \in Actors : RoleChanges(m)

LedgerSpec == LedgerInit /\ [][LedgerStep]_ledgerVars

-----------------------------------------------------------------------------
(* Properties.                                                             *)

LedgerTypeOK ==
    /\ versions \in [Versions ->
          [transaction : Transactions \cup {None}, revision : Nat, command : Commands \cup {None},
           removed : BOOLEAN, superseded : BOOLEAN, replaces : Versions \cup {None}, call : Calls \cup {None}]]
    /\ rows \subseteq [scope : [actor : Actors, action : Actions, key : Keys],
                       digest : [action : Actions, target : Transactions \cup {None},
                                 basis : Versions \cup {None}, command : Commands \cup {None}],
                       version : Versions, authorization : Nat]
    /\ authorization \in [Actors -> Nat]
    /\ calls \in [Calls ->
          [phase : {"new", "arrived", "looked", "open", "answered"},
           request : [actor : Actors \cup {None}, action : Actions \cup {None}, key : Keys \cup {None},
                      target : Transactions \cup {None}, basis : Versions \cup {None},
                      command : Commands \cup {None}],
           seen : Nat, read : Versions \cup {None}, proved : Nat,
           answer : Answers \cup {None}, version : Versions \cup {None}]]

\* However often a keyed mutation is sent, and however its retries race the
\* first attempt, it writes one version, and every retry that is told it
\* succeeded is told of that version of that very request.
OneEffectPerKey ==
    \A c, d \in Calls :
        LET q == calls[c].request
            p == calls[d].request
        IN  /\ q.key # None /\ Scope(q) = Scope(p)
            /\ calls[c].version # None /\ calls[d].version # None
            => calls[c].version = calls[d].version /\ Digest(q) = Digest(p)

\* The versions of a transaction are one unbroken line: one is current, each
\* replaces the one before it, nothing follows a removal, and an edit that
\* stated a basis replaced that version and no other.
VersionLine ==
    /\ \A t \in Recorded : Cardinality(Current(t)) = 1
    /\ \A v \in Written :
          LET row == versions[v]
              basis == calls[row.call].request.basis
          IN  /\ row.revision = 1 <=> row.replaces = None
              /\ row.replaces # None =>
                    /\ versions[row.replaces].transaction = row.transaction
                    /\ versions[row.replaces].revision + 1 = row.revision
                    /\ versions[row.replaces].superseded /\ ~ versions[row.replaces].removed
              /\ basis # None => row.replaces = basis
    /\ \A v, w \in Written :
          versions[v].replaces = versions[w].replaces /\ versions[v].transaction = versions[w].transaction => v = w
=============================================================================
