----------------------------- MODULE RequestProofs -----------------------------
(***************************************************************************)
(* Theorems of Ledger and of RateLimit, the two components that make a     *)
(* repeated request harmless, for every value of their constants.          *)
(*                                                                         *)
(* The ledger: a call that succeeded under a key left, or was answered     *)
(* from, the one row of the key's scope, which no step rewrites; and an    *)
(* open transaction has read a version of its target that no removal made, *)
(* which it can replace only while that version is the current one.        *)
(*                                                                         *)
(* The counter: a bucket counts exactly the units of its record that were  *)
(* admitted in the window and not returned, because a rotated secret keeps *)
(* leading to it for no less than a window; so a window is found below the *)
(* ceiling by every consumption that charges it.                           *)
(***************************************************************************)
EXTENDS Ledger, RateLimit, FiniteSetTheorems, TLAPS

RequestRecord == [actor : Actors \cup {None}, action : Actions \cup {None}, key : Keys \cup {None},
                  target : Transactions \cup {None}, basis : Versions \cup {None},
                  command : Commands \cup {None}]
CallRecord == [phase : {"new", "arrived", "looked", "open", "answered"}, request : RequestRecord,
               seen : Nat, read : Versions \cup {None}, proved : Nat,
               answer : Answers \cup {None}, version : Versions \cup {None}]
VersionRow == [transaction : Transactions \cup {None}, revision : Nat, command : Commands \cup {None},
               removed : BOOLEAN, superseded : BOOLEAN, replaces : Versions \cup {None},
               call : Calls \cup {None}]
KeyScope == [actor : Actors, action : Actions, key : Keys]
KeyDigest == [action : Actions, target : Transactions \cup {None},
              basis : Versions \cup {None}, command : Commands \cup {None}]
KeyRow == [scope : KeyScope, digest : KeyDigest, version : Versions, authorization : Nat]

\* What a client may ask: a create names no target and no basis, the other
\* two name a transaction.
ClientRequest == {q \in RequestRecord :
    /\ q.actor \in Actors /\ q.action \in Actions
    /\ q.action = "create" <=> q.target = None
    /\ q.action = "create" => q.basis = None}

\* A call that has begun carries a client's request, and until it is answered
\* it names no version.  An open transaction has read a version unless it
\* creates one.
CallsBegun ==
    \A c \in Calls :
        /\ calls[c].phase # "new" => calls[c].request \in ClientRequest
        /\ calls[c].phase = "new" => calls[c] = NoCall
        /\ calls[c].phase # "answered" => calls[c].version = None
        /\ calls[c].phase = "open" => (calls[c].read = None <=> calls[c].request.action = "create")

TypeInv == LedgerTypeOK /\ CallsBegun

-----------------------------------------------------------------------------
(***************************************************************************)
(* Type correctness.                                                       *)
(***************************************************************************)

\* The type invariant by its named records.
LEMMA TypeByRecords ==
  LedgerTypeOK <=> /\ versions \in [Versions -> VersionRow]
                   /\ rows \subseteq KeyRow
                   /\ authorization \in [Actors -> Nat]
                   /\ calls \in [Calls -> CallRecord]
  BY DEF LedgerTypeOK, VersionRow, KeyRow, KeyScope, KeyDigest, CallRecord, RequestRecord

\* The requests a client can form are a client's requests.
LEMMA RequestsAreClients ==
  ASSUME LedgerTypeOK, NEW q \in Requests
  PROVE  q \in ClientRequest
  <1>1. /\ None \notin Transactions
        /\ \A t \in Transactions : Line(t) \subseteq Versions
        /\ Recorded \subseteq Transactions
    BY LedgerAssumption DEF Line, Written, Recorded
  <1>2. CASE q \in Forms("create", {None}, {None}, Commands)
    BY <1>2 DEF Forms, ClientRequest, RequestRecord, Actions
  <1>3. CASE \E t \in Recorded : q \in Forms("edit", {t}, Line(t) \cup {None}, Commands)
    BY <1>1, <1>3 DEF Forms, ClientRequest, RequestRecord, Actions
  <1>4. CASE \E t \in Recorded : q \in Forms("remove", {t}, Line(t) \cup {None}, {None})
    BY <1>1, <1>4 DEF Forms, ClientRequest, RequestRecord, Actions
  <1> QED  BY <1>2, <1>3, <1>4 DEF Requests

\* An untouched call has its type.
LEMMA NoCallType == NoCall \in CallRecord
  BY DEF NoCall, NoRequest, CallRecord, RequestRecord

\* An answer keeps the request, and leaves a call its type.
LEMMA AnswerType ==
  ASSUME LedgerTypeOK, NEW c \in Calls, NEW kind \in Answers, NEW v \in Versions \cup {None},
         Answer(c, kind, v)
  PROVE  /\ calls' \in [Calls -> CallRecord]
         /\ calls'[c].phase = "answered" /\ calls'[c].version = v
         /\ calls'[c].request = calls[c].request
         /\ \A d \in Calls \ {c} : calls'[d] = calls[d]
  <1> DEFINE answered == [NoCall EXCEPT !.phase = "answered", !.request = calls[c].request,
                                        !.answer = kind, !.version = v]
  <1>1. calls \in [Calls -> CallRecord] /\ calls[c].request \in RequestRecord
    BY TypeByRecords DEF CallRecord
  <1>2. /\ answered \in CallRecord
        /\ answered.phase = "answered" /\ answered.version = v
        /\ answered.request = calls[c].request
    BY <1>1, NoCallType DEF NoCall, CallRecord
  <1>3. calls' = [calls EXCEPT ![c] = answered]
    BY DEF Answer
  <1> HIDE DEF answered
  <1> QED  BY <1>1, <1>2, <1>3

\* The records and calls a step of a call keeps in their types: those of a
\* call that only moves on or is answered.
LEMMA CallMoves ==
  ASSUME TypeInv, NEW c \in Calls, calls[c].phase # "new",
         NEW r \in CallRecord, r.request = calls[c].request, r.phase # "new",
         r.phase # "answered" => r.version = None,
         r.phase = "open" => (r.read = None <=> r.request.action = "create"),
         calls' = [calls EXCEPT ![c] = r]
  PROVE  calls' \in [Calls -> CallRecord] /\ CallsBegun'
  <1>1. calls \in [Calls -> CallRecord] /\ CallsBegun
    BY TypeByRecords DEF TypeInv
  <1>2. calls' \in [Calls -> CallRecord]
    BY <1>1
  <1>3. CallsBegun'
    BY <1>1 DEF CallsBegun
  <1> QED  BY <1>2, <1>3

\* An answered call moves on.
LEMMA AnswerMoves ==
  ASSUME TypeInv, NEW c \in Calls, calls[c].phase # "new", NEW kind \in Answers,
         NEW v \in Versions \cup {None}, Answer(c, kind, v)
  PROVE  calls' \in [Calls -> CallRecord] /\ CallsBegun'
  <1>1. calls \in [Calls -> CallRecord] /\ CallsBegun /\ LedgerTypeOK
    BY TypeByRecords DEF TypeInv
  <1>2. /\ calls' \in [Calls -> CallRecord]
        /\ calls'[c].phase = "answered" /\ calls'[c].version = v
        /\ calls'[c].request = calls[c].request
        /\ \A d \in Calls \ {c} : calls'[d] = calls[d]
    BY <1>1, AnswerType
  <1>3. CallsBegun'
    BY <1>1, <1>2 DEF CallsBegun
  <1> QED  BY <1>2, <1>3

\* The version a call appends is a version of the transaction.
LEMMA AppendedType ==
  ASSUME TypeInv, NEW c \in Calls, calls[c].phase = "open", NEW t \in Transactions
  PROVE  /\ Appended(c, t) \in VersionRow
         /\ Appended(c, t).transaction = t /\ Appended(c, t).call = c
         /\ Appended(c, t).replaces = calls[c].read /\ ~ Appended(c, t).superseded
         /\ Appended(c, t).revision = IF calls[c].read = None THEN 1 ELSE versions[calls[c].read].revision + 1
  <1>1. /\ calls[c].read \in Versions \cup {None} /\ calls[c].request \in RequestRecord
        /\ \A v \in Versions : versions[v] \in VersionRow
    BY TypeByRecords DEF CallRecord, TypeInv
  <1>2. calls[c].read # None => versions[calls[c].read].revision \in Nat
                                /\ versions[calls[c].read].command \in Commands \cup {None}
    BY <1>1 DEF VersionRow
  <1>3. calls[c].request.command \in Commands \cup {None}
    BY <1>1 DEF RequestRecord
  <1>4. calls[c].request.action = "remove" => calls[c].read # None
    BY DEF TypeInv, CallsBegun
  <1> QED  BY <1>1, <1>2, <1>3, <1>4 DEF Appended, VersionRow

\* Every step keeps the types.
LEMMA TypeStep == TypeInv /\ [LedgerStep]_ledgerVars => TypeInv'
  <1> SUFFICES ASSUME TypeInv, [LedgerStep]_ledgerVars PROVE TypeInv'
    OBVIOUS
  <1> USE TypeByRecords DEF TypeInv
  <1>0. /\ versions \in [Versions -> VersionRow] /\ rows \subseteq KeyRow
        /\ authorization \in [Actors -> Nat] /\ calls \in [Calls -> CallRecord] /\ CallsBegun
        /\ None \notin Calls /\ None \notin Versions
    BY LedgerAssumption
  <1>1. LedgerTypeOK' <=> /\ versions' \in [Versions -> VersionRow] /\ rows' \subseteq KeyRow
                          /\ authorization' \in [Actors -> Nat] /\ calls' \in [Calls -> CallRecord]
    BY DEF LedgerTypeOK, VersionRow, KeyRow, KeyScope, KeyDigest, CallRecord, RequestRecord
  <1>2. ASSUME NEW c \in Calls, NEW q \in Requests, Arrive(c, q) PROVE TypeInv'
    <2> DEFINE r == [NoCall EXCEPT !.phase = "arrived", !.request = q, !.seen = authorization[q.actor]]
    <2>1. q \in ClientRequest /\ q \in RequestRecord /\ authorization[q.actor] \in Nat
      BY <1>0, RequestsAreClients DEF ClientRequest
    <2>2. r \in CallRecord /\ r.request = q /\ r.phase = "arrived" /\ r.version = None
      BY <2>1, NoCallType DEF CallRecord, NoCall
    <2>3. calls' = [calls EXCEPT ![c] = r] /\ versions' = versions /\ rows' = rows /\ authorization' = authorization
      BY <1>2 DEF Arrive
    <2> HIDE DEF r
    <2>4. calls' \in [Calls -> CallRecord] /\ CallsBegun'
      BY <1>0, <2>1, <2>2, <2>3 DEF CallsBegun
    <2> QED  BY <1>0, <1>1, <2>3, <2>4
  <1>3. ASSUME NEW c \in Calls, Lookup(c) PROVE TypeInv'
    <2>1. calls[c].phase = "arrived" /\ versions' = versions /\ rows' = rows /\ authorization' = authorization
      BY <1>3 DEF Lookup
    <2>2. CASE \E w \in Stored(calls[c].request) : Reply(c, w)
      <3>1. PICK w \in Stored(calls[c].request) : Reply(c, w)
        BY <2>2
      <3>2. w \in KeyRow
        BY <1>0 DEF Stored
      <3>3. \E kind \in Answers, v \in Versions \cup {None} : Answer(c, kind, v)
        BY <3>1, <3>2 DEF Reply, Answers, KeyRow
      <3>4. calls' \in [Calls -> CallRecord] /\ CallsBegun'
        BY <2>1, <3>3, AnswerMoves
      <3> QED  BY <1>0, <1>1, <2>1, <3>4
    <2>3. CASE calls' = [calls EXCEPT ![c] = [@ EXCEPT !.phase = "looked", !.seen = 0]]
      <3> DEFINE r == [calls[c] EXCEPT !.phase = "looked", !.seen = 0]
      <3>1. calls[c] \in CallRecord
        BY <1>0
      <3>2. r \in CallRecord /\ r.request = calls[c].request /\ r.phase = "looked" /\ r.version = calls[c].version
        BY <3>1 DEF CallRecord
      <3>3. calls' = [calls EXCEPT ![c] = r] /\ calls[c].version = None
        BY <1>0, <2>1, <2>3 DEF CallsBegun
      <3> HIDE DEF r
      <3>4. calls' \in [Calls -> CallRecord] /\ CallsBegun'
        BY <1>0, <2>1, <3>2, <3>3, CallMoves
      <3> QED  BY <1>0, <1>1, <2>1, <3>4
    <2> QED  BY <1>3, <2>2, <2>3 DEF Lookup
  <1>4. ASSUME NEW c \in Calls, Deny(c) \/ Conflict(c) PROVE TypeInv'
    <2>1. /\ versions' = versions /\ rows' = rows /\ authorization' = authorization
          /\ calls[c].phase # "new"
          /\ Answer(c, "denied", None) \/ Answer(c, "conflict", None)
      BY <1>4 DEF Deny, Conflict
    <2>2. "denied" \in Answers /\ "conflict" \in Answers
      BY DEF Answers
    <2>3. calls' \in [Calls -> CallRecord] /\ CallsBegun'
      BY <2>1, <2>2, AnswerMoves
    <2> QED  BY <1>0, <1>1, <2>1, <2>3
  <1>5. ASSUME NEW c \in Calls, Begin(c) PROVE TypeInv'
    <2> DEFINE q == calls[c].request
               open(v) == [calls[c] EXCEPT !.phase = "open", !.read = v, !.proved = authorization[q.actor]]
    <2>1. /\ calls[c].phase = "looked" /\ versions' = versions /\ rows' = rows /\ authorization' = authorization
          /\ calls[c] \in CallRecord /\ q \in ClientRequest /\ authorization[q.actor] \in Nat
          /\ calls[c].version = None
      BY <1>0, <1>5 DEF Begin, CallsBegun, ClientRequest
    <2>2. \A v \in Versions \cup {None} :
             /\ open(v) \in CallRecord /\ open(v).request = q /\ open(v).phase = "open"
             /\ open(v).version = None /\ open(v).read = v
      BY <2>1 DEF CallRecord
    <2>3. ASSUME NEW v \in Versions \cup {None}, calls' = [calls EXCEPT ![c] = open(v)],
                 v = None <=> q.action = "create"
          PROVE  calls' \in [Calls -> CallRecord] /\ CallsBegun'
      <3> DEFINE r == open(v)
      <3>1. r \in CallRecord /\ r.request = calls[c].request /\ r.phase = "open" /\ r.version = None /\ r.read = v
        BY <2>2
      <3>2. calls' = [calls EXCEPT ![c] = r] /\ (r.read = None <=> r.request.action = "create")
        BY <2>2, <2>3
      <3> HIDE DEF r
      <3> QED  BY <2>1, <3>1, <3>2, CallMoves
    <2>4. CASE q.action = "create" /\ calls' = [calls EXCEPT ![c] = open(None)]
      BY <1>0, <1>1, <2>1, <2>3, <2>4
    <2>5. ASSUME NEW v \in Current(q.target), calls' = [calls EXCEPT ![c] = open(v)] PROVE TypeInv'
      <3>1. v \in Versions /\ v # None /\ q.target # None
        BY <1>0, <2>5 DEF Current, Line, Written
      <3>2. q.action # "create"
        BY <2>1, <3>1 DEF ClientRequest
      <3> QED  BY <1>0, <1>1, <2>1, <2>3, <2>5, <3>1, <3>2
    <2>6. CASE Answer(c, "stale", None) \/ Answer(c, "removed", None)
      <3>1. "stale" \in Answers /\ "removed" \in Answers
        BY DEF Answers
      <3>2. calls' \in [Calls -> CallRecord] /\ CallsBegun'
        BY <2>1, <2>6, <3>1, AnswerMoves
      <3> QED  BY <1>0, <1>1, <2>1, <3>2
    <2> QED  BY <1>5, <2>4, <2>5, <2>6 DEF Begin
  <1>6. ASSUME NEW c \in Calls, NEW v \in Versions, NEW t \in Transactions, Commit(c, v, t) PROVE TypeInv'
    <2> DEFINE q == calls[c].request
               w == [scope |-> Scope(q), digest |-> Digest(q), version |-> v, authorization |-> calls[c].proved]
    <2>1. calls[c].phase = "open" /\ authorization' = authorization /\ Answer(c, "committed", v)
      BY <1>6 DEF Commit
    <2>2. calls' \in [Calls -> CallRecord] /\ CallsBegun'
      <3>1. "committed" \in Answers
        BY DEF Answers
      <3> QED  BY <2>1, <3>1, AnswerMoves
    <2>3. versions' \in [Versions -> VersionRow]
      <3>1. Appended(c, t) \in VersionRow
        BY <2>1, AppendedType
      <3>2. \A u \in Versions : versions[u] \in VersionRow /\ [versions[u] EXCEPT !.superseded = TRUE] \in VersionRow
        BY ZenonT(40), <1>0 DEF VersionRow
      <3> QED  BY <1>6, <3>1, <3>2 DEF Commit
    <2>4. rows' \subseteq KeyRow
      <3>1. q \in ClientRequest /\ calls[c] \in CallRecord
        BY <1>0, <2>1 DEF CallsBegun
      <3>2. calls[c].proved \in Nat
        BY <3>1 DEF CallRecord
      <3>3. q.key # None => Scope(q) \in KeyScope
        BY <3>1 DEF ClientRequest, RequestRecord, Scope, KeyScope
      <3>4. Digest(q) \in KeyDigest
        BY <3>1 DEF ClientRequest, RequestRecord, Digest, KeyDigest
      <3>5. q.key # None => w \in KeyRow
        BY <3>2, <3>3, <3>4 DEF KeyRow
      <3>6. rows' = IF q.key = None THEN rows ELSE rows \cup {w}
        BY <1>6 DEF Commit
      <3> QED  BY <1>0, <3>5, <3>6
    <2> QED  BY <1>1, <2>1, <2>2, <2>3, <2>4
  <1>7. ASSUME NEW m \in Actors, RoleChanges(m) PROVE TypeInv'
    <2>1. authorization' \in [Actors -> Nat] /\ versions' = versions /\ rows' = rows /\ calls' = calls
      BY <1>0, <1>7 DEF RoleChanges
    <2> QED  BY <1>0, <1>1, <2>1 DEF CallsBegun
  <1>8. CASE UNCHANGED ledgerVars
    BY <1>0, <1>1, <1>8 DEF ledgerVars, CallsBegun
  <1> QED  BY <1>2, <1>3, <1>4, <1>5, <1>6, <1>7, <1>8 DEF LedgerStep

\* The ledger's rows and calls keep their types.
THEOREM LedgerTypes == LedgerSpec => []LedgerTypeOK
  <1>1. LedgerInit => TypeInv
    <2> SUFFICES ASSUME LedgerInit PROVE TypeInv
      OBVIOUS
    <2>1. NoVersion \in VersionRow /\ NoCall \in CallRecord
      BY NoCallType DEF NoVersion, VersionRow
    <2>2. LedgerTypeOK
      BY <2>1, TypeByRecords DEF LedgerInit
    <2>3. CallsBegun
      BY DEF LedgerInit, CallsBegun, NoCall
    <2> QED  BY <2>2, <2>3 DEF TypeInv
  <1>2. TypeInv => LedgerTypeOK
    BY DEF TypeInv
  <1> QED  BY <1>1, <1>2, TypeStep, PTL DEF LedgerSpec

-----------------------------------------------------------------------------
(***************************************************************************)
(* One effect of a key.                                                    *)
(***************************************************************************)

\* A scope has one row, and a call that succeeded under a key agrees with the
\* row of its scope.
KeyInv ==
    /\ \A v, w \in rows : v.scope = w.scope => v = w
    /\ \A c \in Calls :
          calls[c].request.key # None /\ calls[c].version # None
          => \E w \in rows : /\ w.scope = Scope(calls[c].request)
                            /\ w.digest = Digest(calls[c].request)
                            /\ w.version = calls[c].version

\* A step that writes no row, and names no version but one its key's row
\* names, keeps the rows and the calls agreed.
LEMMA KeyKept ==
  ASSUME KeyInv, rows' = rows, NEW c \in Calls,
         \A d \in Calls \ {c} : calls'[d] = calls[d],
         calls'[c].version # None =>
            \E w \in rows : /\ w.scope = Scope(calls'[c].request)
                           /\ w.digest = Digest(calls'[c].request)
                           /\ w.version = calls'[c].version
  PROVE  KeyInv'
  <1>1. \A v, w \in rows' : v.scope = w.scope => v = w
    BY DEF KeyInv
  <1>2. ASSUME NEW d \in Calls, calls'[d].request.key # None, calls'[d].version # None
        PROVE  \E w \in rows : /\ w.scope = Scope(calls'[d].request)
                              /\ w.digest = Digest(calls'[d].request)
                              /\ w.version = calls'[d].version
    <2>1. CASE d = c
      BY <1>2, <2>1
    <2>2. CASE d # c
      BY <1>2, <2>2 DEF KeyInv
    <2> QED  BY <2>1, <2>2
  <1> QED  BY <1>1, <1>2 DEF KeyInv

\* Every step keeps the rows and the calls agreed.
LEMMA KeyStep == TypeInv /\ KeyInv /\ [LedgerStep]_ledgerVars => KeyInv'
  <1> SUFFICES ASSUME TypeInv, KeyInv, [LedgerStep]_ledgerVars PROVE KeyInv'
    OBVIOUS
  <1>0. calls \in [Calls -> CallRecord] /\ LedgerTypeOK /\ CallsBegun
    BY TypeByRecords DEF TypeInv
  <1>1. ASSUME NEW c \in Calls, NEW q \in Requests, Arrive(c, q) PROVE KeyInv'
    <2> DEFINE r == [NoCall EXCEPT !.phase = "arrived", !.request = q, !.seen = authorization[q.actor]]
    <2>1. calls' = [calls EXCEPT ![c] = r] /\ rows' = rows /\ r.version = None
      BY <1>1 DEF Arrive, NoCall
    <2> HIDE DEF r
    <2>2. calls'[c].version = None /\ \A d \in Calls \ {c} : calls'[d] = calls[d]
      BY <1>0, <2>1
    <2> QED  BY <2>1, <2>2, KeyKept
  <1>2. ASSUME NEW c \in Calls, NEW kind \in Answers, Answer(c, kind, None), rows' = rows PROVE KeyInv'
    <2>1. calls'[c].version = None /\ \A d \in Calls \ {c} : calls'[d] = calls[d]
      BY <1>0, <1>2, AnswerType
    <2> QED  BY <1>2, <2>1, KeyKept
  <1>3. ASSUME NEW c \in Calls, NEW r, r.version = calls[c].version, calls[c].version = None,
               calls' = [calls EXCEPT ![c] = r], rows' = rows
        PROVE  KeyInv'
    <2>1. calls'[c].version = None /\ \A d \in Calls \ {c} : calls'[d] = calls[d]
      BY <1>0, <1>3
    <2> QED  BY <1>3, <2>1, KeyKept
  <1>4. ASSUME NEW c \in Calls, Lookup(c) PROVE KeyInv'
    <2>1. CASE calls' = [calls EXCEPT ![c] = [@ EXCEPT !.phase = "looked", !.seen = 0]]
      <3> DEFINE r == [calls[c] EXCEPT !.phase = "looked", !.seen = 0]
      <3>1. calls[c] \in CallRecord /\ calls[c].version = None /\ rows' = rows
        BY <1>0, <1>4 DEF Lookup, CallsBegun
      <3>2. r.version = calls[c].version /\ calls' = [calls EXCEPT ![c] = r]
        BY <2>1, <3>1 DEF CallRecord
      <3> HIDE DEF r
      <3> QED  BY <1>3, <3>1, <3>2
    <2>2. ASSUME NEW w \in Stored(calls[c].request), Reply(c, w) PROVE KeyInv'
      <3>1. /\ "mismatch" \in Answers /\ "denied" \in Answers /\ "replayed" \in Answers
            /\ rows' = rows /\ w \in rows /\ w.scope = Scope(calls[c].request) /\ w.version \in Versions
        BY <1>0, <1>4, TypeByRecords DEF Answers, Lookup, Stored, KeyRow
      <3>2. CASE Answer(c, "replayed", w.version) /\ w.digest = Digest(calls[c].request)
        <4>1. /\ calls'[c].version = w.version /\ calls'[c].request = calls[c].request
              /\ \A d \in Calls \ {c} : calls'[d] = calls[d]
          BY <1>0, <3>1, <3>2, AnswerType
        <4> QED  BY <3>1, <3>2, <4>1, KeyKept
      <3> QED  BY <1>2, <2>2, <3>1, <3>2 DEF Reply
    <2> QED  BY <1>4, <2>1, <2>2 DEF Lookup
  <1>5. ASSUME NEW c \in Calls, Deny(c) \/ Conflict(c) PROVE KeyInv'
    BY <1>2, <1>5 DEF Deny, Conflict, Answers
  <1>6. ASSUME NEW c \in Calls, Begin(c) PROVE KeyInv'
    <2> DEFINE open(v) == [calls[c] EXCEPT !.phase = "open", !.read = v,
                                           !.proved = authorization[calls[c].request.actor]]
    <2>1. calls[c] \in CallRecord /\ calls[c].version = None /\ rows' = rows
      BY <1>0, <1>6 DEF Begin, CallsBegun
    <2>2. ASSUME NEW v, calls' = [calls EXCEPT ![c] = open(v)] PROVE KeyInv'
      <3> DEFINE r == open(v)
      <3>1. r.version = calls[c].version /\ calls' = [calls EXCEPT ![c] = r]
        BY <2>1, <2>2 DEF CallRecord
      <3> HIDE DEF r
      <3> QED  BY <1>3, <2>1, <3>1
    <2>3. CASE Answer(c, "stale", None) \/ Answer(c, "removed", None)
      BY <1>2, <2>1, <2>3 DEF Answers
    <2> QED  BY <1>6, <2>2, <2>3 DEF Begin
  <1>7. ASSUME NEW c \in Calls, NEW v \in Versions, NEW t \in Transactions, Commit(c, v, t) PROVE KeyInv'
    <2> DEFINE q == calls[c].request
               w == [scope |-> Scope(q), digest |-> Digest(q), version |-> v, authorization |-> calls[c].proved]
    <2>1. /\ calls'[c].version = v /\ calls'[c].request = q
          /\ \A d \in Calls \ {c} : calls'[d] = calls[d]
      BY <1>0, <1>7, AnswerType DEF Commit, Answers
    <2>2. /\ rows' = IF q.key = None THEN rows ELSE rows \cup {w}
          /\ \A u \in rows : u.scope # Scope(q)
      BY <1>7 DEF Commit, KeyUnused, Stored
    <2>3. w.scope = Scope(q) /\ w.digest = Digest(q) /\ w.version = v
      OBVIOUS
    <2> HIDE DEF w
    <2>4. \A u, x \in rows' : u.scope = x.scope => u = x
      BY <2>2, <2>3 DEF KeyInv
    <2>5. ASSUME NEW d \in Calls, calls'[d].request.key # None, calls'[d].version # None
          PROVE  \E u \in rows' : /\ u.scope = Scope(calls'[d].request)
                                 /\ u.digest = Digest(calls'[d].request)
                                 /\ u.version = calls'[d].version
      <3>1. CASE d = c
        BY <2>1, <2>2, <2>3, <2>5, <3>1
      <3>2. CASE d # c
        <4>1. calls'[d] = calls[d]
          BY <2>1, <3>2
        <4> QED  BY <2>2, <2>5, <4>1 DEF KeyInv
      <3> QED  BY <3>1, <3>2
    <2> QED  BY <2>4, <2>5 DEF KeyInv
  <1>8. CASE UNCHANGED <<rows, calls>>
    BY <1>8 DEF KeyInv
  <1> QED  BY <1>1, <1>4, <1>5, <1>6, <1>7, <1>8 DEF LedgerStep, RoleChanges, ledgerVars

\* However often a keyed mutation is sent, it writes one version and is told
\* of that one.
THEOREM KeyHasOneEffect == LedgerSpec => []OneEffectPerKey
  <1>1. LedgerInit => TypeInv
    <2> SUFFICES ASSUME LedgerInit PROVE TypeInv
      OBVIOUS
    <2>1. NoVersion \in VersionRow /\ NoCall \in CallRecord
      BY NoCallType DEF NoVersion, VersionRow
    <2> QED  BY <2>1, TypeByRecords DEF LedgerInit, TypeInv, CallsBegun, NoCall
  <1>2. LedgerInit => KeyInv
    BY DEF LedgerInit, KeyInv, NoCall
  <1>3. KeyInv => OneEffectPerKey
    <2> SUFFICES ASSUME KeyInv, NEW c \in Calls, NEW d \in Calls,
                        calls[c].request.key # None, Scope(calls[c].request) = Scope(calls[d].request),
                        calls[c].version # None, calls[d].version # None
                 PROVE  calls[c].version = calls[d].version /\ Digest(calls[c].request) = Digest(calls[d].request)
      BY DEF OneEffectPerKey
    <2>1. \A q : Scope(q).key = q.key
      BY DEF Scope
    <2>2. calls[d].request.key # None
      BY <2>1
    <2> QED  BY <2>2 DEF KeyInv
  <1> QED  BY <1>1, <1>2, <1>3, TypeStep, KeyStep, PTL DEF LedgerSpec

-----------------------------------------------------------------------------
(***************************************************************************)
(* The line of a transaction's versions.                                   *)
(***************************************************************************)

\* What a version says of the one it replaces, of the call that wrote it and
\* of its place in the line.
VersionInv(v) ==
    LET row == versions[v] IN
    /\ row.call \in Calls /\ calls[row.call].phase = "answered"
    /\ row.revision >= 1
    /\ row.revision = 1 <=> row.replaces = None
    /\ row.replaces # None =>
          /\ row.replaces \in Written
          /\ versions[row.replaces].transaction = row.transaction
          /\ versions[row.replaces].revision + 1 = row.revision
          /\ versions[row.replaces].superseded /\ ~ versions[row.replaces].removed
    /\ calls[row.call].request.basis # None => row.replaces = calls[row.call].request.basis

\* What an open transaction has read, that its commit builds on.
ReadInv(c) ==
    calls[c].phase = "open" /\ calls[c].read # None =>
        /\ calls[c].read \in Written
        /\ versions[calls[c].read].transaction = calls[c].request.target
        /\ ~ versions[calls[c].read].removed
        /\ calls[c].request.basis \in {None, calls[c].read}

LineInv ==
    /\ \A v \in Written : VersionInv(v)
    /\ \A v, w \in Written :
          /\ versions[v].transaction = versions[w].transaction
          /\ \/ versions[v].replaces = versions[w].replaces
             \/ ~ versions[v].superseded /\ ~ versions[w].superseded
          => v = w
    /\ \A t \in Recorded : Current(t) # {}
    /\ \A c \in Calls : ReadInv(c)

\* A step that writes no version keeps the lines, if the calls that were
\* answered stay and the step's own open transaction has read well.
LEMMA LineKept ==
  ASSUME TypeInv, LineInv, versions' = versions, NEW c \in Calls, calls[c].phase # "answered",
         \A d \in Calls \ {c} : calls'[d] = calls[d], ReadInv(c)'
  PROVE  LineInv'
  <1>1. Written' = Written /\ Recorded' = Recorded /\ \A t : Current(t)' = Current(t)
    BY DEF Written, Recorded, Line, Current
  <1>2. ASSUME NEW v \in Written PROVE VersionInv(v)'
    <2>1. VersionInv(v) /\ versions[v].call # c
      BY DEF LineInv, VersionInv
    <2>2. calls'[versions[v].call] = calls[versions[v].call]
      BY <2>1 DEF VersionInv
    <2> QED  BY <1>1, <2>1, <2>2 DEF VersionInv
  <1>3. ASSUME NEW d \in Calls PROVE ReadInv(d)'
    BY <1>1 DEF LineInv, ReadInv
  <1>4. \A t \in Recorded' : Current(t)' # {}
    BY <1>1 DEF LineInv
  <1> QED  BY <1>1, <1>2, <1>3, <1>4 DEF LineInv

\* The commit appends to the line.
LEMMA LineGrows ==
  ASSUME TypeInv, LineInv, NEW c \in Calls, NEW v \in Versions, NEW t \in Transactions, Commit(c, v, t)
  PROVE  LineInv'
  <1> DEFINE q == calls[c].request
             r == calls[c].read
             new == Appended(c, t)
  <1>0. /\ versions \in [Versions -> VersionRow] /\ calls \in [Calls -> CallRecord]
        /\ LedgerTypeOK /\ CallsBegun /\ None \notin Versions /\ None \notin Transactions /\ None \notin Calls
    BY TypeByRecords, LedgerAssumption DEF TypeInv
  <1>1. /\ calls[c].phase = "open" /\ v \notin Written
        /\ IF q.action = "create" THEN t \notin Recorded ELSE t = q.target
        /\ r # None => ~ versions[r].superseded
        /\ Answer(c, "committed", v)
    BY DEF Commit, StillCurrent
  <1>2. /\ q \in ClientRequest /\ (r = None <=> q.action = "create") /\ ReadInv(c)
        /\ r \in Versions \cup {None}
    BY <1>0, <1>1 DEF CallsBegun, LineInv, CallRecord
  <1>3. /\ calls'[c].phase = "answered" /\ calls'[c].request = q
        /\ \A d \in Calls \ {c} : calls'[d] = calls[d]
    BY <1>0, <1>1, AnswerType DEF Answers
  <1>4. /\ new \in VersionRow /\ new.transaction = t /\ new.call = c /\ new.replaces = r
        /\ ~ new.superseded
        /\ new.revision = IF r = None THEN 1 ELSE versions[r].revision + 1
    BY <1>1, AppendedType
  <1> HIDE DEF new
  <1>5. r # None => /\ r \in Written /\ r # v /\ versions[r].transaction = t
                    /\ ~ versions[r].removed /\ q.basis \in {None, r}
    BY <1>1, <1>2 DEF ReadInv
  <1>6. r = None => q.basis = None /\ t \notin Recorded
    BY <1>1, <1>2 DEF ClientRequest
  <1>7. /\ versions' \in [Versions -> VersionRow] /\ versions'[v] = new
        /\ \A u \in Versions \ {v} :
              /\ u # r => versions'[u] = versions[u]
              /\ u = r => versions'[u] = [versions[u] EXCEPT !.superseded = TRUE]
    <2>1. versions' = [u \in Versions |->
              IF u = v THEN new
              ELSE IF u = r THEN [versions[u] EXCEPT !.superseded = TRUE] ELSE versions[u]]
      BY DEF Commit, new
    <2>2. \A u \in Versions : [versions[u] EXCEPT !.superseded = TRUE] \in VersionRow
      BY ZenonT(40), <1>0 DEF VersionRow
    <2> QED  BY <1>0, <1>4, <2>1, <2>2
  <1>8. \A u \in Written :
           /\ u # v /\ u \in Versions
           /\ versions'[u].transaction = versions[u].transaction
           /\ versions'[u].revision = versions[u].revision
           /\ versions'[u].replaces = versions[u].replaces
           /\ versions'[u].removed = versions[u].removed
           /\ versions'[u].call = versions[u].call
           /\ (versions[u].superseded \/ u = r) => versions'[u].superseded
           /\ u # r => (versions'[u].superseded <=> versions[u].superseded)
    <2> SUFFICES ASSUME NEW u \in Written
                 PROVE  /\ u # v /\ u \in Versions
                        /\ versions'[u].transaction = versions[u].transaction
                        /\ versions'[u].revision = versions[u].revision
                        /\ versions'[u].replaces = versions[u].replaces
                        /\ versions'[u].removed = versions[u].removed
                        /\ versions'[u].call = versions[u].call
                        /\ (versions[u].superseded \/ u = r) => versions'[u].superseded
                        /\ u # r => (versions'[u].superseded <=> versions[u].superseded)
      OBVIOUS
    <2>1. u # v /\ u \in Versions /\ versions[u] \in VersionRow
      BY <1>0, <1>1 DEF Written
    <2>2. CASE u = r
      <3>1. versions'[u] = [versions[u] EXCEPT !.superseded = TRUE]
        BY <1>7, <2>1, <2>2
      <3> QED  BY <2>1, <2>2, <3>1 DEF VersionRow
    <2>3. CASE u # r
      <3>1. versions'[u] = versions[u]
        BY <1>7, <2>1, <2>3
      <3> QED  BY <2>1, <2>3, <3>1 DEF VersionRow
    <2> QED  BY <2>2, <2>3
  <1>9. Written' = Written \cup {v}
    <2>1. \A u \in Versions \ {v} : versions'[u].transaction = versions[u].transaction
      BY <1>0, <1>7 DEF VersionRow
    <2> QED  BY <1>0, <1>4, <1>7, <2>1 DEF Written
  <1>10. ASSUME NEW u \in Written' PROVE VersionInv(u)'
    <2>1. CASE u = v
      <3>1. r # None => /\ VersionInv(r) /\ versions[r].revision \in Nat
                        /\ versions'[r].superseded /\ ~ versions'[r].removed
                        /\ versions'[r].transaction = t /\ versions'[r].revision = versions[r].revision
        BY <1>0, <1>5, <1>8 DEF LineInv, VersionRow
      <3>2. new.revision >= 1 /\ (new.revision = 1 <=> r = None)
        BY <1>4, <3>1 DEF VersionInv
      <3>3. r # None => r \in Written' /\ versions'[r].revision + 1 = new.revision
        BY <1>4, <1>5, <1>9, <3>1
      <3>4. q.basis # None => r = q.basis
        BY <1>5, <1>6
      <3> QED  BY <1>3, <1>4, <1>7, <2>1, <3>1, <3>2, <3>3, <3>4 DEF VersionInv
    <2>2. CASE u # v
      <3>1. u \in Written /\ VersionInv(u) /\ versions[u].call # c
        BY <1>1, <1>9, <2>2 DEF LineInv, VersionInv
      <3>2. calls'[versions[u].call] = calls[versions[u].call]
        BY <1>3, <3>1 DEF VersionInv
      <3>3. versions[u].replaces # None => versions[u].replaces \in Written
        BY <3>1 DEF VersionInv
      <3> QED  BY <1>8, <1>9, <3>1, <3>2, <3>3 DEF VersionInv
    <2> QED  BY <2>1, <2>2
  <1>11. ASSUME NEW u \in Written', NEW w \in Written',
                versions'[u].transaction = versions'[w].transaction,
                \/ versions'[u].replaces = versions'[w].replaces
                \/ ~ versions'[u].superseded /\ ~ versions'[w].superseded
         PROVE  u = w
    <2>1. CASE u # v /\ w # v
      BY <1>8, <1>9, <1>11, <2>1 DEF LineInv
    <2>2. ASSUME NEW x \in Written, versions[x].transaction = t,
                 \/ versions[x].replaces = r
                 \/ ~ versions'[x].superseded
          PROVE  FALSE
      <3>1. r # None
        BY <1>6, <2>2 DEF Recorded, Line
      <3>2. versions[x].replaces = r => versions[r].superseded
        BY <3>1 DEF LineInv, VersionInv
      <3>3. ~ versions[x].superseded => x = r
        BY <1>1, <1>5, <2>2, <3>1 DEF LineInv
      <3> QED  BY <1>1, <1>8, <2>2, <3>1, <3>2, <3>3
    <2>3. CASE u = v /\ w # v
      BY <1>4, <1>7, <1>8, <1>9, <1>11, <2>2, <2>3
    <2>4. CASE u # v /\ w = v
      BY <1>4, <1>7, <1>8, <1>9, <1>11, <2>2, <2>4
    <2> QED  BY <2>1, <2>3, <2>4
  <1>12. ASSUME NEW s \in Recorded' PROVE Current(s)' # {}
    <2>1. CASE s = t
      BY <1>4, <1>7, <1>9, <2>1 DEF Current, Line
    <2>2. CASE s # t
      <3>1. s \in Recorded
        BY <1>4, <1>7, <1>8, <1>9, <2>2 DEF Recorded, Line
      <3>2. PICK u \in Written : versions[u].transaction = s /\ ~ versions[u].superseded
        BY <3>1 DEF LineInv, Current, Line
      <3>3. u # r
        BY <1>5, <2>2, <3>2, <1>0 DEF Written
      <3> QED  BY <1>8, <1>9, <3>2, <3>3 DEF Current, Line
    <2> QED  BY <2>1, <2>2
  <1>13. ASSUME NEW d \in Calls PROVE ReadInv(d)'
    <2>1. CASE d = c
      BY <1>3, <2>1 DEF ReadInv
    <2>2. CASE d # c
      <3>1. calls'[d] = calls[d] /\ ReadInv(d)
        BY <1>3, <2>2 DEF LineInv
      <3> QED  BY <1>8, <1>9, <3>1 DEF ReadInv
    <2> QED  BY <2>1, <2>2
  <1> QED  BY <1>10, <1>11, <1>12, <1>13 DEF LineInv

\* Every step keeps the lines.
LEMMA LineStep == TypeInv /\ LineInv /\ [LedgerStep]_ledgerVars => LineInv'
  <1> SUFFICES ASSUME TypeInv, LineInv, [LedgerStep]_ledgerVars PROVE LineInv'
    OBVIOUS
  <1>0. calls \in [Calls -> CallRecord] /\ LedgerTypeOK /\ CallsBegun /\ None \notin Versions
    BY TypeByRecords, LedgerAssumption DEF TypeInv
  <1>1. ASSUME NEW c \in Calls, calls[c].phase # "answered", versions' = versions,
               NEW r, r.phase # "open", calls' = [calls EXCEPT ![c] = r]
        PROVE  LineInv'
    <2>1. calls'[c].phase # "open" /\ \A d \in Calls \ {c} : calls'[d] = calls[d]
      BY <1>0, <1>1
    <2>2. ReadInv(c)'
      BY <2>1 DEF ReadInv
    <2> QED  BY <1>1, <2>1, <2>2, LineKept
  <1>2. ASSUME NEW c \in Calls, calls[c].phase # "answered", versions' = versions,
               NEW kind, NEW v, Answer(c, kind, v)
        PROVE  LineInv'
    <2> DEFINE r == [NoCall EXCEPT !.phase = "answered", !.request = calls[c].request,
                                   !.answer = kind, !.version = v]
    <2>1. r.phase # "open" /\ calls' = [calls EXCEPT ![c] = r]
      BY <1>2 DEF Answer, NoCall
    <2> HIDE DEF r
    <2> QED  BY <1>1, <1>2, <2>1
  <1>3. ASSUME NEW c \in Calls, NEW q \in Requests, Arrive(c, q) PROVE LineInv'
    <2> DEFINE r == [NoCall EXCEPT !.phase = "arrived", !.request = q, !.seen = authorization[q.actor]]
    <2>1. calls[c].phase # "answered" /\ versions' = versions /\ r.phase # "open" /\ calls' = [calls EXCEPT ![c] = r]
      BY <1>3 DEF Arrive, NoCall
    <2> HIDE DEF r
    <2> QED  BY <1>1, <2>1
  <1>4. ASSUME NEW c \in Calls, Lookup(c) PROVE LineInv'
    <2>1. CASE calls' = [calls EXCEPT ![c] = [@ EXCEPT !.phase = "looked", !.seen = 0]]
      <3> DEFINE r == [calls[c] EXCEPT !.phase = "looked", !.seen = 0]
      <3>1. calls[c] \in CallRecord /\ calls[c].phase # "answered" /\ versions' = versions
        BY <1>0, <1>4 DEF Lookup
      <3>2. r.phase # "open" /\ calls' = [calls EXCEPT ![c] = r]
        BY <2>1, <3>1 DEF CallRecord
      <3> HIDE DEF r
      <3> QED  BY <1>1, <3>1, <3>2
    <2> QED  BY <1>2, <1>4, <2>1 DEF Lookup, Reply
  <1>5. ASSUME NEW c \in Calls, Deny(c) \/ Conflict(c) PROVE LineInv'
    BY <1>2, <1>5 DEF Deny, Conflict
  <1>6. ASSUME NEW c \in Calls, Begin(c) PROVE LineInv'
    <2> DEFINE q == calls[c].request
               open(v) == [calls[c] EXCEPT !.phase = "open", !.read = v, !.proved = authorization[q.actor]]
    <2>1. calls[c] \in CallRecord /\ calls[c].phase = "looked" /\ versions' = versions
      BY <1>0, <1>6 DEF Begin
    <2>2. ASSUME NEW v, calls' = [calls EXCEPT ![c] = open(v)],
                 v # None => /\ v \in Current(q.target) /\ BasisHolds(q, v) /\ ~ versions[v].removed
          PROVE  LineInv'
      <3> DEFINE r == open(v)
      <3>1. r.read = v /\ r.request = q /\ calls' = [calls EXCEPT ![c] = r]
        BY <2>1, <2>2 DEF CallRecord
      <3> HIDE DEF r
      <3>2. calls'[c] = r /\ \A d \in Calls \ {c} : calls'[d] = calls[d]
        BY <1>0, <3>1
      <3>3. Written' = Written
        BY <2>1 DEF Written
      <3>4. ReadInv(c)'
        BY <2>1, <2>2, <3>1, <3>2, <3>3 DEF ReadInv, Current, Line, BasisHolds
      <3> QED  BY <2>1, <3>2, <3>4, LineKept
    <2>3. CASE Answer(c, "stale", None) \/ Answer(c, "removed", None)
      BY <1>2, <2>1, <2>3
    <2> QED  BY <1>6, <2>2, <2>3 DEF Begin
  <1>7. ASSUME NEW c \in Calls, NEW v \in Versions, NEW t \in Transactions, Commit(c, v, t) PROVE LineInv'
    BY <1>7, LineGrows
  <1>8. CASE UNCHANGED <<versions, calls>>
    BY <1>8 DEF LineInv, VersionInv, ReadInv, Written, Recorded, Current, Line
  <1> QED  BY <1>3, <1>4, <1>5, <1>6, <1>7, <1>8 DEF LedgerStep, RoleChanges, ledgerVars

\* The line, stated with a count of the current versions.
LEMMA LineIsVersionLine == TypeInv /\ LineInv => VersionLine
  <1> SUFFICES ASSUME TypeInv, LineInv PROVE VersionLine
    OBVIOUS
  <1>1. ASSUME NEW t \in Recorded PROVE Cardinality(Current(t)) = 1
    <2>1. PICK v : v \in Current(t)
      BY DEF LineInv
    <2>2. Current(t) = {v}
      BY <2>1 DEF LineInv, Current, Line
    <2> QED  BY <2>2, FS_Singleton
  <1>2. ASSUME NEW v \in Written PROVE VersionInv(v)
    BY DEF LineInv
  <1>3. \A v, w \in Written :
           versions[v].replaces = versions[w].replaces /\ versions[v].transaction = versions[w].transaction => v = w
    BY DEF LineInv
  <1> QED  BY <1>1, <1>2, <1>3 DEF VersionLine, VersionInv

\* The versions of a transaction are one unbroken line, whatever races.
THEOREM LedgerKeepsLines == LedgerSpec => []VersionLine
  <1>1. LedgerInit => TypeInv
    <2> SUFFICES ASSUME LedgerInit PROVE TypeInv
      OBVIOUS
    <2>1. NoVersion \in VersionRow /\ NoCall \in CallRecord
      BY NoCallType DEF NoVersion, VersionRow
    <2> QED  BY <2>1, TypeByRecords DEF LedgerInit, TypeInv, CallsBegun, NoCall
  <1>2. LedgerInit => LineInv
    <2> SUFFICES ASSUME LedgerInit PROVE LineInv
      OBVIOUS
    <2>1. Written = {}
      BY DEF LedgerInit, Written, NoVersion
    <2>2. Recorded = {}
      BY <2>1 DEF Recorded, Line
    <2>3. \A c \in Calls : calls[c].phase # "open"
      BY DEF LedgerInit, NoCall
    <2> QED  BY <2>1, <2>2, <2>3 DEF LineInv, ReadInv
  <1> QED  BY <1>1, <1>2, TypeStep, LineStep, LineIsVersionLine, PTL DEF LedgerSpec

-----------------------------------------------------------------------------
(***************************************************************************)
(* The counter.                                                            *)
(***************************************************************************)

UnitRecord == [phase : {"new", "held", "released"}, record : Records \cup {Nil},
               stage : Stages \cup {Nil}, at : 0 .. MaxInstant,
               bucket : Buckets \cup {Nil}, refunded : BOOLEAN]
BucketRecord == [made : BOOLEAN, accepted : SUBSET Units, ordinary : SUBSET Units,
                 reservations : [Reserved -> Units \cup {Nil}], tokens : 0 .. Burst, refillAt : Nat,
                 inFlight : SUBSET Units]

\* The units that table tab has admitted to a bucket and not got back.
Counts(tab, u, id) == tab[u].phase # "new" /\ tab[u].bucket = id /\ ~ tab[u].refunded

\* What bucket b, of identity id, counts at time now, and where.
Agrees(b, id, tab, now) ==
    /\ \A u \in b.accepted : Counts(tab, u, id)
    /\ \A u \in Units : Counts(tab, u, id) /\ tab[u].at + Window > now =>
          u \in b.accepted /\ (tab[u].stage \in Reserved => b.reservations[tab[u].stage] = u)
    /\ \A s \in Reserved : b.reservations[s] # Nil =>
          Counts(tab, b.reservations[s], id) /\ tab[b.reservations[s]].stage = s
    /\ \A u \in b.accepted : tab[u].record \in Bootstrap /\ tab[u].stage = "ordinary" => u \in b.ordinary
    /\ IsFiniteSet(b.accepted)
    /\ IsFiniteSet(b.ordinary) /\ Cardinality(b.ordinary) + 2 <= Ceiling
    /\ b.refillAt <= now

Admitted(u) == units[u].phase # "new"

\* Where an admitted unit was counted.
UnitInv(u) ==
    IF Admitted(u)
    THEN /\ units[u].record \in Records /\ units[u].stage \in Stages /\ units[u].bucket \in Buckets
         /\ units[u].at <= instant
         /\ units[u].stage \in Reserved => units[u].record \in Bootstrap
         /\ \E k \in 0 .. secret.current : alias[units[u].record][k] = units[u].bucket
    ELSE units[u] = NoUnit

\* A unit in the window is counted under a key that is still derived: a secret
\* is kept for no less than a window.
Home(u) ==
    Admitted(u) /\ InWindow(units[u].at) =>
        \/ alias[units[u].record][secret.current] = units[u].bucket
        \/ /\ secret.current > 0 /\ units[u].at + Window <= secret.until
           /\ alias[units[u].record][secret.current - 1] = units[u].bucket

\* Derived keys lead to one bucket of their record alone.
AliasInv ==
    /\ \A r \in Records, k \in 0 .. MaxRotations :
          alias[r][k] # Nil => k <= secret.current /\ buckets[alias[r][k]].made
    /\ \A r, q \in Records, k, l \in 0 .. MaxRotations :
          alias[r][k] # Nil /\ alias[r][k] = alias[q][l] => r = q
    /\ \A r \in Records, k, l \in Derived :
          alias[r][k] # Nil /\ alias[r][l] # Nil => alias[r][k] = alias[r][l]

BucketInv == \A id \in Buckets : Agrees(buckets[id], id, units, instant)

\* The ceiling, and the stages, of every window.
SpentInv ==
    \A r \in Records, t \in 0 .. MaxInstant :
        /\ IsFiniteSet(Spent(r, t)) /\ Cardinality(Spent(r, t)) <= Ceiling
        /\ \A u, v \in Spent(r, t) :
              units[u].stage \in Reserved /\ units[u].stage = units[v].stage => u = v

LimitInv == LimitTypeOK /\ (\A u \in Units : UnitInv(u) /\ Home(u)) /\ AliasInv /\ BucketInv /\ SpentInv

-----------------------------------------------------------------------------
(* Types and the parts of a step.                                          *)

\* The constants are numbers, and the ceiling leaves room for both stages.
LEMMA LimitNumbers ==
  /\ Window \in Nat /\ Threshold \in Nat /\ Burst \in Nat /\ Overlap \in Nat
  /\ RefillUnits \in Nat /\ RefillInterval \in Nat /\ MaxInstant \in Nat /\ MaxRotations \in Nat
  /\ Window > 0 /\ Threshold > 0 /\ RefillUnits > 0 /\ RefillInterval > 0
  /\ Overlap >= Window /\ Ceiling \in Nat /\ Ceiling >= 3
  /\ Nil \notin Units /\ Nil \notin Buckets /\ Nil \notin Records
  BY RateLimitAssumption DEF Ceiling

\* The type invariant by its named records.
LEMMA LimitTypeByRecords ==
  LimitTypeOK <=> /\ buckets \in [Buckets -> BucketRecord]
                  /\ alias \in [Records -> [0 .. MaxRotations -> Buckets \cup {Nil}]]
                  /\ units \in [Units -> UnitRecord]
                  /\ secret \in [current : 0 .. MaxRotations, until : Nat]
                  /\ instant \in 0 .. MaxInstant
  BY DEF LimitTypeOK, BucketRecord, UnitRecord

\* A unit that nobody asked for, and a bucket that nobody counts in, have
\* their types.
LEMMA UntouchedTypes == NoUnit \in UnitRecord /\ Unmade \in BucketRecord
  BY LimitNumbers DEF NoUnit, Unmade, UnitRecord, BucketRecord

\* The whole intervals that fit in a span are no longer than the span.
LEMMA IntervalsFit ==
  ASSUME NEW x \in Nat, NEW d \in Nat, d > 0
  PROVE  x \div d \in Nat /\ (x \div d) * d <= x
  OBVIOUS

\* What a consumption first does to a bucket: it forgets what left the window.
LEMMA RefreshedBucket ==
  ASSUME LimitTypeOK, NEW id \in Buckets, NEW b \in BucketRecord, Agrees(b, id, units, instant)
  PROVE  /\ Refreshed(b) \in BucketRecord /\ Agrees(Refreshed(b), id, units, instant)
         /\ Refreshed(b).made = b.made
         /\ Refreshed(b).ordinary = {u \in b.ordinary : InWindow(units[u].at)}
         /\ Refreshed(b).accepted = {u \in b.accepted : InWindow(units[u].at)}
         /\ \A s \in Reserved : Refreshed(b).reservations[s] # Nil =>
               InWindow(units[Refreshed(b).reservations[s]].at)
  <1> DEFINE n == (instant - b.refillAt) \div RefillInterval
             a == {u \in b.accepted : InWindow(units[u].at)}
             o == {u \in b.ordinary : InWindow(units[u].at)}
             v == [s \in Reserved |-> IF b.reservations[s] # Nil /\ ~ InWindow(units[b.reservations[s]].at)
                                      THEN Nil ELSE b.reservations[s]]
             k == Lesser(Burst, b.tokens + n * RefillUnits)
             f == b.refillAt + n * RefillInterval
             c == [b EXCEPT !.accepted = a, !.ordinary = o, !.reservations = v, !.tokens = k, !.refillAt = f]
  <1>1. Refreshed(b) = c
    BY DEF Refreshed, BucketRecord
  <1>2. n \in Nat /\ f \in Nat /\ f <= instant
    <2>1. instant \in Nat /\ b.refillAt \in Nat /\ instant - b.refillAt \in Nat
      BY LimitNumbers DEF LimitTypeOK, Agrees, BucketRecord
    <2>2. n \in Nat /\ n * RefillInterval <= instant - b.refillAt
      BY <2>1, IntervalsFit, LimitNumbers
    <2>3. n * RefillInterval \in Nat
      BY <2>2, LimitNumbers
    <2> HIDE DEF n
    <2> QED  BY <2>1, <2>2, <2>3
  <1>3. k \in 0 .. Burst
    <2>1. b.tokens \in 0 .. Burst /\ n * RefillUnits \in Nat
      BY <1>2, LimitNumbers DEF BucketRecord
    <2> HIDE DEF n
    <2> QED  BY <2>1, LimitNumbers DEF Lesser
  <1>4. a \in SUBSET Units /\ o \in SUBSET Units /\ v \in [Reserved -> Units \cup {Nil}]
    BY DEF BucketRecord
  <1> HIDE DEF n, k, f
  <1>5. /\ c \in BucketRecord /\ c.made = b.made /\ c.accepted = a /\ c.ordinary = o
        /\ c.reservations = v /\ c.refillAt = f
    BY <1>2, <1>3, <1>4 DEF BucketRecord
  <1>6. \A s \in Reserved : c.reservations[s] # Nil =>
            c.reservations[s] = b.reservations[s] /\ InWindow(units[c.reservations[s]].at)
    BY <1>5
  <1>7. IsFiniteSet(a) /\ IsFiniteSet(o) /\ Cardinality(o) + 2 <= Ceiling
    <2>1. IsFiniteSet(b.accepted) /\ IsFiniteSet(b.ordinary) /\ Cardinality(b.ordinary) + 2 <= Ceiling
      BY DEF Agrees, InWindow
    <2>2. IsFiniteSet(a) /\ IsFiniteSet(o) /\ Cardinality(o) <= Cardinality(b.ordinary)
      BY <2>1, FS_Subset
    <2>3. Cardinality(o) \in Nat /\ Cardinality(b.ordinary) \in Nat
      BY <2>1, <2>2, FS_CardinalityType
    <2> QED  BY <2>1, <2>2, <2>3, LimitNumbers
  <1>8. \A u \in Units : Counts(units, u, id) /\ InWindow(units[u].at) =>
            u \in a /\ (units[u].stage \in Reserved => v[units[u].stage] = u)
    BY DEF Agrees, InWindow
  <1>9. /\ \A u \in a : Counts(units, u, id)
        /\ \A u \in a : units[u].record \in Bootstrap /\ units[u].stage = "ordinary" => u \in o
    BY DEF Agrees, InWindow
  <1>10. \A s \in Reserved : v[s] # Nil => Counts(units, v[s], id) /\ units[v[s]].stage = s
    BY DEF Agrees, InWindow
  <1>11. Agrees(c, id, units, instant)
    <2> HIDE DEF c, a, o, v
    <2> QED  BY <1>2, <1>5, <1>7, <1>8, <1>9, <1>10 DEF Agrees, InWindow
  <1> QED  BY <1>1, <1>5, <1>6, <1>11

\* A bucket that was never made counts nothing, and begins empty.
LEMMA FreshBucket ==
  ASSUME LimitInv, NEW id \in Buckets, ~ buckets[id].made
  PROVE  /\ Fresh \in BucketRecord /\ Agrees(Fresh, id, units, instant) /\ Fresh.made
         /\ Fresh.accepted = {} /\ \A s \in Reserved : Fresh.reservations[s] = Nil
  <1>1. \A u \in Units : ~ Counts(units, u, id)
    BY LimitNumbers DEF LimitInv, UnitInv, AliasInv, Counts, Admitted, LimitTypeOK
  <1>2. instant \in Nat
    BY LimitNumbers DEF LimitInv, LimitTypeOK
  <1>3. Unmade.accepted = {} /\ Unmade.ordinary = {} /\ Unmade.reservations = [s \in Reserved |-> Nil]
    BY DEF Unmade
  <1>4. /\ Fresh \in BucketRecord /\ Fresh.made
        /\ Fresh.accepted = {} /\ Fresh.ordinary = {} /\ Fresh.refillAt = instant
        /\ \A s \in Reserved : Fresh.reservations[s] = Nil
    <2>1. Unmade \in BucketRecord /\ Burst \in 0 .. Burst /\ instant \in Nat
      BY <1>2, UntouchedTypes, LimitNumbers
    <2>2. Fresh \in BucketRecord
      BY <2>1 DEF Fresh, BucketRecord
    <2>3. Fresh.made /\ Fresh.refillAt = instant
      BY <2>1 DEF Fresh, BucketRecord
    <2>4. Fresh.accepted = Unmade.accepted /\ Fresh.ordinary = Unmade.ordinary
      BY <2>1 DEF Fresh, BucketRecord
    <2>5. Fresh.reservations = Unmade.reservations
      BY <2>1 DEF Fresh, BucketRecord
    <2> QED  BY <1>3, <2>2, <2>3, <2>4, <2>5
  <1>5. Agrees(Fresh, id, units, instant)
    BY <1>1, <1>2, <1>4, FS_EmptySet, LimitNumbers DEF Agrees
  <1> QED  BY <1>4, <1>5

\* A unit in the window is counted in the one bucket its record's derived
\* keys lead to.
LEMMA FoundAtHome ==
  ASSUME LimitInv, NEW u \in Units, Admitted(u), InWindow(units[u].at)
  PROVE  Found(units[u].record) = {units[u].bucket} /\ units[u].record \in Records
  <1>1. /\ units[u].record \in Records /\ units[u].bucket \in Buckets /\ units[u].bucket # Nil
        /\ units[u].at \in Nat /\ instant \in Nat
        /\ secret.current \in 0 .. MaxRotations /\ secret.until \in Nat
    BY LimitNumbers DEF LimitInv, LimitTypeOK, UnitInv, Admitted
  <1>2. PICK k \in Derived : alias[units[u].record][k] = units[u].bucket
    <2>1. Home(u)
      BY DEF LimitInv
    <2>2. CASE alias[units[u].record][secret.current] = units[u].bucket
      BY <2>2 DEF Derived
    <2>3. CASE /\ secret.current > 0 /\ units[u].at + Window <= secret.until
               /\ alias[units[u].record][secret.current - 1] = units[u].bucket
      <3>1. instant < secret.until
        BY <1>1, <2>3, LimitNumbers DEF InWindow
      <3> QED  BY <2>3, <3>1 DEF Derived
    <2> QED  BY <2>1, <2>2, <2>3 DEF Home
  <1>3. \A l \in Derived : alias[units[u].record][l] # Nil => alias[units[u].record][l] = units[u].bucket
    BY <1>1, <1>2 DEF LimitInv, AliasInv
  <1> QED  BY <1>1, <1>2, <1>3 DEF Found

\* The bucket a consumption finds or makes, refreshed.
Counted(id) == IF buckets[id].made THEN Refreshed(buckets[id]) ELSE Fresh

\* A consumption starts from a bucket that counts exactly the units of its
\* record in the window.
LEMMA CountedBucket ==
  ASSUME LimitInv, NEW r \in Records, NEW id \in Buckets,
         IF Found(r) = {} THEN ~ buckets[id].made ELSE Found(r) = {id}
  PROVE  /\ Counted(id) \in BucketRecord /\ Agrees(Counted(id), id, units, instant)
         /\ Counted(id).made
         /\ \A u \in Counted(id).accepted : InWindow(units[u].at)
         /\ \A s \in Reserved : Counted(id).reservations[s] # Nil =>
               InWindow(units[Counted(id).reservations[s]].at)
         /\ \A t \in 0 .. MaxInstant : t >= instant => Spent(r, t) \subseteq Counted(id).accepted
  <1>1. buckets[id] \in BucketRecord /\ Agrees(buckets[id], id, units, instant) /\ LimitTypeOK
    BY LimitTypeByRecords DEF LimitInv, BucketInv
  <1>2. /\ Counted(id) \in BucketRecord /\ Agrees(Counted(id), id, units, instant) /\ Counted(id).made
        /\ \A u \in Counted(id).accepted : InWindow(units[u].at)
        /\ \A s \in Reserved : Counted(id).reservations[s] # Nil =>
               InWindow(units[Counted(id).reservations[s]].at)
    <2>1. CASE buckets[id].made
      BY <1>1, <2>1, RefreshedBucket DEF Counted
    <2>2. CASE ~ buckets[id].made
      BY <2>2, FreshBucket DEF Counted
    <2> QED  BY <2>1, <2>2
  <1>3. ASSUME NEW t \in 0 .. MaxInstant, t >= instant, NEW u \in Spent(r, t)
        PROVE  u \in Counted(id).accepted
    <2>1. /\ u \in Units /\ Admitted(u) /\ units[u].record = r /\ ~ units[u].refunded
          /\ t < units[u].at + Window /\ units[u].at \in Nat /\ instant \in Nat
      BY <1>1, LimitNumbers DEF Spent, LimitInv, UnitInv, Admitted, NoUnit, LimitTypeOK
    <2>2. InWindow(units[u].at)
      BY <1>3, <2>1, LimitNumbers DEF InWindow
    <2>3. units[u].bucket = id
      BY <2>1, <2>2, FoundAtHome
    <2> QED  BY <1>2, <2>1, <2>2, <2>3 DEF Agrees, Counts, Admitted, InWindow
  <1> QED  BY <1>2, <1>3

\* A bucket agrees with a later state that changes nothing it counts.
LEMMA StillAgrees ==
  ASSUME NEW id, NEW b, NEW c, NEW tab, NEW next, NEW now \in Nat, NEW later \in Nat, now <= later,
         Agrees(b, id, tab, now), b \in BucketRecord,
         \A u \in Units : tab[u].at \in Nat,
         c.accepted = b.accepted, c.ordinary = b.ordinary, c.reservations = b.reservations,
         c.refillAt = b.refillAt,
         \A u \in Units : Counts(next, u, id) <=> Counts(tab, u, id),
         \A u \in Units : Counts(tab, u, id) =>
             next[u].at = tab[u].at /\ next[u].stage = tab[u].stage /\ next[u].record = tab[u].record
  PROVE  Agrees(c, id, next, later)
  <1>1. b.refillAt \in Nat /\ b.accepted \in SUBSET Units /\ b.reservations \in [Reserved -> Units \cup {Nil}]
    BY DEF BucketRecord
  <1>2. \A u \in b.accepted : Counts(next, u, id)
    BY <1>1 DEF Agrees
  <1>3. ASSUME NEW u \in Units, Counts(next, u, id), next[u].at + Window > later
        PROVE  u \in b.accepted /\ (next[u].stage \in Reserved => b.reservations[next[u].stage] = u)
    <2>1. /\ Counts(tab, u, id) /\ next[u].at = tab[u].at /\ next[u].stage = tab[u].stage
          /\ tab[u].at \in Nat
      BY <1>3
    <2>2. tab[u].at + Window > now
      BY <1>3, <2>1, LimitNumbers
    <2> QED  BY <2>1, <2>2 DEF Agrees
  <1>4. ASSUME NEW s \in Reserved, b.reservations[s] # Nil
        PROVE  Counts(next, b.reservations[s], id) /\ next[b.reservations[s]].stage = s
    BY <1>1, <1>4 DEF Agrees
  <1>5. \A u \in b.accepted : next[u].record \in Bootstrap /\ next[u].stage = "ordinary" => u \in b.ordinary
    BY <1>1 DEF Agrees
  <1>6. /\ IsFiniteSet(b.accepted) /\ IsFiniteSet(b.ordinary) /\ Cardinality(b.ordinary) + 2 <= Ceiling
        /\ b.refillAt <= later
    BY <1>1 DEF Agrees
  <1> QED  BY <1>2, <1>3, <1>4, <1>5, <1>6 DEF Agrees

-----------------------------------------------------------------------------
(* A consumption.                                                          *)

\* The unit that a consumption admits.
Taken(r, s, id) == [NoUnit EXCEPT !.phase = "held", !.record = r, !.stage = s, !.at = instant, !.bucket = id]

LEMMA TakenUnit ==
  ASSUME LimitTypeOK, NEW r \in Records, NEW s \in Stages, NEW id \in Buckets
  PROVE  /\ Taken(r, s, id) \in UnitRecord
         /\ Taken(r, s, id).phase = "held" /\ Taken(r, s, id).record = r /\ Taken(r, s, id).stage = s
         /\ Taken(r, s, id).at = instant /\ Taken(r, s, id).bucket = id /\ ~ Taken(r, s, id).refunded
  <1>1. NoUnit \in UnitRecord /\ ~ NoUnit.refunded
    BY UntouchedTypes DEF NoUnit
  <1> QED  BY <1>1 DEF Taken, UnitRecord, LimitTypeOK

\* A bucket charged with an admitted unit agrees with the units.
LEMMA ChargedBucket ==
  ASSUME LimitTypeOK, NEW u \in Units, ~ Admitted(u), NEW r \in Records, NEW s \in Stages,
         NEW id \in Buckets, s # "ordinary" => r \in Bootstrap,
         NEW b \in BucketRecord, Agrees(b, id, units, instant), ~ Refused(b, r, s),
         NEW tab, tab = [units EXCEPT ![u] = Taken(r, s, id)]
  PROVE  /\ Charged(b, u, r, s) \in BucketRecord /\ Charged(b, u, r, s).made = b.made
         /\ Agrees(Charged(b, u, r, s), id, tab, instant)
  <1> DEFINE c == Charged(b, u, r, s)
             a == b.accepted \cup {u}
             o == IF r \in Bootstrap /\ s = "ordinary" THEN b.ordinary \cup {u} ELSE b.ordinary
             v == IF r \in Bootstrap /\ s # "ordinary" THEN [b.reservations EXCEPT ![s] = u] ELSE b.reservations
             k == IF r \notin Bootstrap /\ Cardinality(b.accepted) >= Threshold THEN b.tokens - 1 ELSE b.tokens
  <1>1. k \in 0 .. Burst
    BY LimitNumbers DEF Refused, BucketRecord
  <1>2. a \in SUBSET Units /\ o \in SUBSET Units /\ v \in [Reserved -> Units \cup {Nil}]
    BY DEF BucketRecord
  <1>3. c = [b EXCEPT !.accepted = a, !.inFlight = b.inFlight \cup {u}, !.ordinary = o,
                      !.reservations = v, !.tokens = k]
    BY DEF Charged, BucketRecord
  <1> HIDE DEF a, o, v, k, c
  <1>4. /\ c \in BucketRecord /\ c.made = b.made /\ c.accepted = a /\ c.ordinary = o
        /\ c.reservations = v /\ c.refillAt = b.refillAt
    BY <1>1, <1>2, <1>3 DEF BucketRecord
  <1>5. /\ tab[u].phase = "held" /\ tab[u].record = r /\ tab[u].stage = s /\ tab[u].at = instant
        /\ tab[u].bucket = id /\ ~ tab[u].refunded
        /\ \A w \in Units \ {u} : tab[w] = units[w]
    BY TakenUnit, LimitTypeByRecords
  <1>6. Counts(tab, u, id) /\ \A w \in Units \ {u} : Counts(tab, w, id) <=> Counts(units, w, id)
    BY <1>5 DEF Counts
  <1>7. b.accepted \in SUBSET Units /\ b.reservations \in [Reserved -> Units \cup {Nil}] /\ u \notin b.accepted
    BY DEF BucketRecord, Agrees, Counts, Admitted
  <1>8. \A w \in a : Counts(tab, w, id)
    BY <1>6, <1>7 DEF a, Agrees
  <1>9. ASSUME NEW w \in Units, Counts(tab, w, id), tab[w].at + Window > instant
        PROVE  w \in a /\ (tab[w].stage \in Reserved => v[tab[w].stage] = w)
    <2>1. CASE w = u
      BY <1>5, <1>7, <2>1 DEF a, v, Reserved
    <2>2. CASE w # u
      <3>1. /\ tab[w] = units[w] /\ w \in b.accepted
            /\ units[w].stage \in Reserved => b.reservations[units[w].stage] = w
        BY <1>5, <1>6, <1>9, <2>2 DEF Agrees
      <3>2. r \in Bootstrap /\ s # "ordinary" => b.reservations[s] = Nil
        BY DEF Refused
      <3> QED  BY <1>7, <3>1, <3>2, LimitNumbers DEF a, v
    <2> QED  BY <2>1, <2>2
  <1>10. ASSUME NEW p \in Reserved, v[p] # Nil PROVE Counts(tab, v[p], id) /\ tab[v[p]].stage = p
    <2>1. CASE v[p] = u /\ p = s
      BY <1>5, <1>6, <2>1
    <2>2. CASE v[p] = b.reservations[p]
      <3>1. Counts(units, v[p], id) /\ units[v[p]].stage = p /\ v[p] \in Units
        BY <1>7, <1>10, <2>2 DEF Agrees
      <3>2. v[p] # u
        BY <3>1 DEF Counts, Admitted
      <3> QED  BY <1>5, <1>6, <3>1, <3>2
    <2> QED  BY <1>7, <2>1, <2>2 DEF v
  <1>11. ASSUME NEW w \in a, tab[w].record \in Bootstrap, tab[w].stage = "ordinary" PROVE w \in o
    <2>1. CASE w = u
      BY <1>5, <1>11, <2>1 DEF o
    <2>2. CASE w # u
      <3>1. w \in b.accepted /\ tab[w] = units[w]
        BY <1>5, <1>7, <2>2 DEF a
      <3> QED  BY <1>11, <3>1 DEF o, Agrees
    <2> QED  BY <2>1, <2>2
  <1>12. IsFiniteSet(a) /\ IsFiniteSet(o) /\ Cardinality(o) + 2 <= Ceiling
    <2>1. IsFiniteSet(b.accepted) /\ IsFiniteSet(b.ordinary) /\ Cardinality(b.ordinary) + 2 <= Ceiling
      BY DEF Agrees
    <2>2. IsFiniteSet(a)
      BY <2>1, FS_AddElement DEF a
    <2>3. CASE r \in Bootstrap /\ s = "ordinary"
      <3>1. Cardinality(b.ordinary) < Ceiling - 2 /\ Cardinality(b.ordinary) \in Nat
        BY <2>1, <2>3, FS_CardinalityType, LimitNumbers DEF Refused
      <3>2. o = b.ordinary \cup {u}
        BY <2>3 DEF o
      <3>3. /\ IsFiniteSet(o)
            /\ Cardinality(o) = IF u \in b.ordinary THEN Cardinality(b.ordinary) ELSE Cardinality(b.ordinary) + 1
        BY <2>1, <3>2, FS_AddElement
      <3> QED  BY <2>2, <3>1, <3>3, LimitNumbers
    <2>4. CASE ~ (r \in Bootstrap /\ s = "ordinary")
      BY <2>1, <2>2, <2>4 DEF o
    <2> QED  BY <2>3, <2>4
  <1>13. c.refillAt <= instant
    BY <1>4 DEF Agrees
  <1>14. Agrees(c, id, tab, instant)
    BY <1>4, <1>8, <1>9, <1>10, <1>11, <1>12, <1>13 DEF Agrees
  <1> QED  BY <1>4, <1>14 DEF c

\* A consumption leads every derived key of its record to its bucket, and no
\* other key anywhere else.
LEMMA ConsumeAliases ==
  ASSUME LimitInv, NEW r \in Records, NEW id \in Buckets,
         IF Found(r) = {} THEN ~ buckets[id].made ELSE Found(r) = {id},
         UNCHANGED <<secret, instant>>,
         alias' = [alias EXCEPT ![r] = [k \in 0 .. MaxRotations |-> IF k \in Derived THEN id ELSE @[k]]],
         \A j \in Buckets : buckets'[j].made <=> buckets[j].made \/ j = id
  PROVE  /\ alias' \in [Records -> [0 .. MaxRotations -> Buckets \cup {Nil}]]
         /\ \A q \in Records, k \in 0 .. MaxRotations : alias[q][k] # Nil => alias'[q][k] = alias[q][k]
         /\ alias'[r][secret.current] = id
         /\ AliasInv'
  <1>1. /\ alias \in [Records -> [0 .. MaxRotations -> Buckets \cup {Nil}]]
        /\ secret.current \in 0 .. MaxRotations /\ secret.until \in Nat /\ instant \in Nat
        /\ Derived \subseteq 0 .. secret.current /\ Derived \subseteq 0 .. MaxRotations
        /\ secret.current \in Derived /\ Derived' = Derived
    BY LimitNumbers DEF LimitInv, LimitTypeOK, Derived
  <1>2. /\ alias' \in [Records -> [0 .. MaxRotations -> Buckets \cup {Nil}]]
        /\ \A q \in Records \ {r} : alias'[q] = alias[q]
        /\ \A k \in 0 .. MaxRotations : alias'[r][k] = IF k \in Derived THEN id ELSE alias[r][k]
    BY <1>1
  <1>3. \A k \in Derived : alias[r][k] # Nil => alias[r][k] = id
    BY DEF Found
  <1>4. \A q \in Records, k \in 0 .. MaxRotations : alias[q][k] # Nil => alias'[q][k] = alias[q][k]
    BY <1>2, <1>3
  <1>5. \A q \in Records, k \in 0 .. MaxRotations : alias[q][k] = id => q = r
    <2>1. CASE Found(r) = {}
      BY <2>1, <1>1, LimitNumbers DEF LimitInv, AliasInv
    <2>2. CASE Found(r) # {}
      <3>1. PICK l \in Derived : alias[r][l] = id
        BY <2>2 DEF Found
      <3> QED  BY <1>1, <3>1, LimitNumbers DEF LimitInv, AliasInv
    <2> QED  BY <2>1, <2>2
  <1>6. \A q \in Records, k \in 0 .. MaxRotations :
            alias'[q][k] = alias[q][k] \/ (q = r /\ k \in Derived /\ alias'[q][k] = id)
    BY <1>2
  <1>7. ASSUME NEW q \in Records, NEW k \in 0 .. MaxRotations, alias'[q][k] # Nil
        PROVE  k <= secret.current /\ buckets'[alias'[q][k]].made /\ alias'[q][k] \in Buckets
    <2>1. CASE alias'[q][k] = alias[q][k]
      <3>1. AliasInv /\ alias[q][k] # Nil
        BY <1>7, <2>1 DEF LimitInv
      <3>2. k <= secret.current /\ buckets[alias[q][k]].made
        BY <3>1 DEF AliasInv
      <3>3. alias[q][k] \in Buckets
        BY <1>1, <3>1
      <3> QED  BY <2>1, <3>2, <3>3
    <2>2. CASE k \in Derived /\ alias'[q][k] = id
      <3>1. k <= secret.current
        BY <1>1, <2>2
      <3> QED  BY <2>2, <3>1
    <2> QED  BY <1>6, <2>1, <2>2
  <1>8. ASSUME NEW p \in Records, NEW q \in Records, NEW k \in 0 .. MaxRotations, NEW l \in 0 .. MaxRotations,
               alias'[p][k] # Nil, alias'[p][k] = alias'[q][l]
        PROVE  p = q
    BY <1>5, <1>6, <1>8 DEF LimitInv, AliasInv
  <1>9. ASSUME NEW q \in Records, NEW k \in Derived, NEW l \in Derived, alias'[q][k] # Nil, alias'[q][l] # Nil
        PROVE  alias'[q][k] = alias'[q][l]
    BY <1>1, <1>2, <1>9 DEF LimitInv, AliasInv
  <1>10. AliasInv'
    <2>1. secret' = secret /\ Derived' = Derived
      BY <1>1
    <2>2. \A q \in Records, k \in 0 .. MaxRotations :
              alias'[q][k] # Nil => k <= secret'.current /\ buckets'[alias'[q][k]].made
      BY <1>7, <2>1
    <2>3. \A q \in Records, k, l \in Derived' :
              alias'[q][k] # Nil /\ alias'[q][l] # Nil => alias'[q][k] = alias'[q][l]
      BY <1>9, <2>1
    <2> HIDE DEF Derived
    <2> QED  BY <1>8, <2>2, <2>3 DEF AliasInv
  <1>11. alias'[r][secret.current] = id
    BY <1>1, <1>2
  <1> QED  BY <1>2, <1>4, <1>10, <1>11

\* Every window keeps its ceiling and its stages when no unit is admitted.
LEMMA SpentKept ==
  ASSUME SpentInv,
         \A u \in Units : /\ units'[u].record = units[u].record /\ units'[u].at = units[u].at
                          /\ units'[u].stage = units[u].stage
                          /\ units[u].refunded => units'[u].refunded
  PROVE  SpentInv'
  <1> SUFFICES ASSUME NEW r \in Records, NEW t \in 0 .. MaxInstant
               PROVE  /\ IsFiniteSet(Spent(r, t)') /\ Cardinality(Spent(r, t)') <= Ceiling
                      /\ \A u, v \in Spent(r, t)' :
                            units'[u].stage \in Reserved /\ units'[u].stage = units'[v].stage => u = v
    BY DEF SpentInv
  <1>1. Spent(r, t)' \subseteq Spent(r, t)
    BY DEF Spent
  <1>2. /\ IsFiniteSet(Spent(r, t)) /\ Cardinality(Spent(r, t)) <= Ceiling
        /\ \A u, v \in Spent(r, t) : units[u].stage \in Reserved /\ units[u].stage = units[v].stage => u = v
    BY DEF SpentInv
  <1>3. IsFiniteSet(Spent(r, t)') /\ Cardinality(Spent(r, t)') <= Ceiling
    <2>1. IsFiniteSet(Spent(r, t)') /\ Cardinality(Spent(r, t)') <= Cardinality(Spent(r, t))
      BY <1>1, <1>2, FS_Subset
    <2>2. Cardinality(Spent(r, t)') \in Nat /\ Cardinality(Spent(r, t)) \in Nat
      BY <1>2, <2>1, FS_CardinalityType
    <2> QED  BY <1>2, <2>1, <2>2, LimitNumbers
  <1>4. \A u \in Spent(r, t)' : u \in Units
    BY DEF Spent
  <1> QED  BY <1>1, <1>2, <1>3, <1>4

\* An admission charges the windows it falls in, which the bucket counts in
\* full and found below the ceiling.
LEMMA SpentGrows ==
  ASSUME LimitInv, NEW u \in Units, ~ Admitted(u), NEW r \in Records, NEW s \in Stages, NEW id \in Buckets,
         s # "ordinary" => r \in Bootstrap,
         IF Found(r) = {} THEN ~ buckets[id].made ELSE Found(r) = {id},
         ~ Refused(Counted(id), r, s),
         units' = [units EXCEPT ![u] = Taken(r, s, id)]
  PROVE  SpentInv'
  <1> SUFFICES ASSUME NEW q \in Records, NEW t \in 0 .. MaxInstant
               PROVE  /\ IsFiniteSet(Spent(q, t)') /\ Cardinality(Spent(q, t)') <= Ceiling
                      /\ \A v, w \in Spent(q, t)' :
                            units'[v].stage \in Reserved /\ units'[v].stage = units'[w].stage => v = w
    BY DEF SpentInv
  <1>1. LimitTypeOK /\ SpentInv /\ units \in [Units -> UnitRecord] /\ UnitInv(u)
    BY LimitTypeByRecords DEF LimitInv
  <1>2. /\ units'[u].record = r /\ units'[u].stage = s /\ units'[u].at = instant
        /\ \A w \in Units \ {u} : units'[w] = units[w]
    BY <1>1, TakenUnit
  <1>3. /\ IsFiniteSet(Spent(q, t)) /\ Cardinality(Spent(q, t)) <= Ceiling
        /\ \A v, w \in Spent(q, t) : units[v].stage \in Reserved /\ units[v].stage = units[w].stage => v = w
    BY <1>1 DEF SpentInv
  <1>4. u \notin Spent(q, t)
    BY <1>1, LimitNumbers DEF UnitInv, NoUnit, Spent
  <1>5. instant \in 0 .. MaxInstant
    BY <1>1 DEF LimitTypeOK
  <1>6. CASE q # r \/ t < instant
    <2>1. u \notin Spent(q, t)'
      BY <1>2, <1>5, <1>6, LimitNumbers DEF Spent
    <2>2. Spent(q, t)' = Spent(q, t)
      BY <1>2, <1>4, <2>1 DEF Spent
    <2>3. \A v \in Spent(q, t) : units'[v] = units[v]
      BY <1>2, <1>4 DEF Spent
    <2> QED  BY <1>3, <2>2, <2>3
  <1>7. CASE q = r /\ t >= instant
    <2> DEFINE b == Counted(id)
    <2>1. /\ b \in BucketRecord /\ Agrees(b, id, units, instant)
          /\ \A v \in b.accepted : InWindow(units[v].at)
          /\ Spent(q, t) \subseteq b.accepted
      BY <1>7, CountedBucket
    <2> HIDE DEF b
    <2>2. Spent(q, t)' \subseteq Spent(q, t) \cup {u}
      BY <1>2 DEF Spent
    <2>3. Cardinality(Spent(q, t)) < Ceiling
      <3>1. Cardinality(b.accepted) < Ceiling /\ IsFiniteSet(b.accepted)
        <4>1. IsFiniteSet(b.accepted) /\ ~ (Cardinality(b.accepted) >= Ceiling)
          BY <2>1 DEF Refused, Agrees, b
        <4>2. Cardinality(b.accepted) \in Nat
          BY <4>1, FS_CardinalityType
        <4> QED  BY <4>1, <4>2, LimitNumbers
      <3>2. Cardinality(Spent(q, t)) <= Cardinality(b.accepted)
        BY <2>1, <3>1, FS_Subset
      <3>3. Cardinality(Spent(q, t)) \in Nat /\ Cardinality(b.accepted) \in Nat
        BY <1>3, <3>1, FS_CardinalityType
      <3> QED  BY <3>1, <3>2, <3>3, LimitNumbers
    <2>4. IsFiniteSet(Spent(q, t)') /\ Cardinality(Spent(q, t)') <= Ceiling
      <3>1. /\ IsFiniteSet(Spent(q, t) \cup {u})
            /\ Cardinality(Spent(q, t) \cup {u}) = Cardinality(Spent(q, t)) + 1
        BY <1>3, <1>4, FS_AddElement
      <3>2. /\ IsFiniteSet(Spent(q, t)')
            /\ Cardinality(Spent(q, t)') <= Cardinality(Spent(q, t) \cup {u})
        BY <2>2, <3>1, FS_Subset
      <3>3. Cardinality(Spent(q, t)) \in Nat /\ Cardinality(Spent(q, t)') \in Nat
        BY <1>3, <3>2, FS_CardinalityType
      <3> QED  BY <2>3, <3>1, <3>2, <3>3, LimitNumbers
    <2>5. ASSUME NEW v \in Spent(q, t), s \in Reserved, units[v].stage = s PROVE FALSE
      <3>1. v \in Units /\ Counts(units, v, id) /\ units[v].at + Window > instant
        BY <2>1 DEF Agrees, Spent, InWindow
      <3>2. b.reservations[s] = v
        BY <2>1, <2>5, <3>1 DEF Agrees
      <3>3. r \in Bootstrap /\ s # "ordinary"
        BY <2>5 DEF Reserved
      <3> QED  BY <3>1, <3>2, <3>3, LimitNumbers DEF Refused, b
    <2>6. \A v \in Spent(q, t) : v \in Units \ {u} /\ units'[v] = units[v]
      BY <1>2, <1>4 DEF Spent
    <2>7. ASSUME NEW v \in Spent(q, t)', NEW w \in Spent(q, t)',
                 units'[v].stage \in Reserved, units'[v].stage = units'[w].stage
          PROVE  v = w
      <3>1. v \in Spent(q, t) \cup {u} /\ w \in Spent(q, t) \cup {u}
        BY <2>2
      <3>2. CASE v \in Spent(q, t) /\ w \in Spent(q, t)
        BY <1>3, <2>6, <2>7, <3>2
      <3>3. CASE v \in Spent(q, t) /\ w = u
        BY <1>2, <2>5, <2>6, <2>7, <3>3
      <3>4. CASE v = u /\ w \in Spent(q, t)
        BY <1>2, <2>5, <2>6, <2>7, <3>4
      <3> QED  BY <3>1, <3>2, <3>3, <3>4
    <2> QED  BY <2>4, <2>7
  <1>8. t \in Nat /\ instant \in Nat
    BY <1>5, LimitNumbers
  <1> QED  BY <1>6, <1>7, <1>8

\* Units keep their place when keys only come to lead somewhere and the
\* clock, the secret and what was counted where stay.
LEMMA PlacesKept ==
  ASSUME LimitInv, NEW u \in Units, UNCHANGED <<secret, instant>>,
         \A q \in Records, k \in 0 .. MaxRotations : alias[q][k] # Nil => alias'[q][k] = alias[q][k],
         units'[u] = units[u]
           \/ /\ Admitted(u) /\ units'[u].phase # "new"
              /\ units'[u].record = units[u].record /\ units'[u].stage = units[u].stage
              /\ units'[u].at = units[u].at /\ units'[u].bucket = units[u].bucket
  PROVE  UnitInv(u)' /\ Home(u)'
  <1>1. /\ UnitInv(u) /\ Home(u) /\ secret.current \in 0 .. MaxRotations
        /\ secret' = secret /\ instant' = instant
    BY DEF LimitInv, LimitTypeOK
  <1>2. CASE Admitted(u)
    <2>1. /\ units'[u].phase # "new" /\ units'[u].record = units[u].record /\ units'[u].stage = units[u].stage
          /\ units'[u].at = units[u].at /\ units'[u].bucket = units[u].bucket
      BY <1>2 DEF Admitted
    <2>2. /\ units[u].record \in Records /\ units[u].bucket \in Buckets /\ units[u].bucket # Nil
          /\ \E k \in 0 .. secret.current : alias[units[u].record][k] = units[u].bucket
      BY <1>1, <1>2, LimitNumbers DEF UnitInv
    <2>3. \E k \in 0 .. secret.current : alias'[units[u].record][k] = units[u].bucket
      BY <1>1, <2>2, LimitNumbers
    <2>4. UnitInv(u)'
      BY <1>1, <1>2, <2>1, <2>3 DEF UnitInv, Admitted
    <2>5. Home(u)'
      <3>1. secret.current > 0 => secret.current - 1 \in 0 .. MaxRotations
        BY <1>1, LimitNumbers
      <3>2. \A k \in 0 .. MaxRotations : alias[units[u].record][k] = units[u].bucket
                                         => alias'[units[u].record][k] = units[u].bucket
        BY <2>2
      <3> QED  BY <1>1, <1>2, <2>1, <3>1, <3>2 DEF Home, Admitted, InWindow
    <2> QED  BY <2>4, <2>5
  <1>3. CASE ~ Admitted(u)
    <2>1. units'[u] = units[u]
      BY <1>3
    <2> QED  BY <1>1, <1>3, <2>1 DEF UnitInv, Home, Admitted
  <1> QED  BY <1>2, <1>3

\* A step of the counter that admits a unit or refuses it.
LEMMA ConsumeStep ==
  ASSUME LimitInv, NEW u \in Units, NEW r \in Records, NEW s \in Stages, NEW id \in Buckets,
         Consume(u, r, s, id)
  PROVE  LimitInv'
  <1> DEFINE b == Counted(id)
             c == IF Refused(b, r, s) THEN b ELSE Charged(b, u, r, s)
  <1>1. /\ ~ Admitted(u)
        /\ s # "ordinary" => r \in Bootstrap
        /\ IF Found(r) = {} THEN ~ buckets[id].made ELSE Found(r) = {id}
        /\ alias' = [alias EXCEPT ![r] = [k \in 0 .. MaxRotations |-> IF k \in Derived THEN id ELSE @[k]]]
        /\ buckets' = [buckets EXCEPT ![id] = c]
        /\ units' = IF Refused(b, r, s) THEN units ELSE [units EXCEPT ![u] = Taken(r, s, id)]
        /\ secret' = secret /\ instant' = instant
    BY DEF Consume, Counted, Taken, Admitted
  <1>2. LimitTypeOK /\ buckets \in [Buckets -> BucketRecord] /\ units \in [Units -> UnitRecord]
    BY LimitTypeByRecords DEF LimitInv
  <1>3. b \in BucketRecord /\ Agrees(b, id, units, instant) /\ b.made
    BY <1>1, CountedBucket
  <1>4. c \in BucketRecord /\ c.made /\ Agrees(c, id, units', instant)
    <2>1. CASE Refused(b, r, s)
      BY <1>1, <1>3, <2>1
    <2>2. CASE ~ Refused(b, r, s)
      <3> HIDE DEF b
      <3> QED  BY <1>1, <1>2, <1>3, <2>2, ChargedBucket
    <2> QED  BY <2>1, <2>2
  <1> HIDE DEF c
  <1>5. /\ buckets'[id] = c /\ buckets' \in [Buckets -> BucketRecord]
        /\ \A j \in Buckets \ {id} : buckets'[j] = buckets[j]
    BY <1>1, <1>2, <1>4
  <1>6. /\ alias' \in [Records -> [0 .. MaxRotations -> Buckets \cup {Nil}]]
        /\ \A q \in Records, k \in 0 .. MaxRotations : alias[q][k] # Nil => alias'[q][k] = alias[q][k]
        /\ alias'[r][secret.current] = id
        /\ AliasInv'
    <2>1. \A j \in Buckets : buckets'[j].made <=> buckets[j].made \/ j = id
      BY <1>4, <1>5
    <2>2. UNCHANGED <<secret, instant>>
      BY <1>1
    <2> QED  BY <1>1, <2>1, <2>2, ConsumeAliases
  <1>7. /\ units' \in [Units -> UnitRecord] /\ \A v \in Units \ {u} : units'[v] = units[v]
        /\ \/ units'[u] = units[u]
           \/ units'[u] = Taken(r, s, id)
    BY <1>1, <1>2, TakenUnit
  <1>8. LimitTypeOK'
    BY <1>1, <1>2, <1>5, <1>6, <1>7 DEF LimitTypeOK, BucketRecord, UnitRecord
  <1>9. ASSUME NEW v \in Units PROVE UnitInv(v)' /\ Home(v)'
    <2>1. CASE units'[v] = units[v]
      BY <1>1, <1>6, <2>1, PlacesKept
    <2>2. CASE v = u /\ units'[u] = Taken(r, s, id)
      <3>1. /\ units'[u].phase # "new" /\ units'[u].record = r /\ units'[u].stage = s /\ units'[u].at = instant
            /\ units'[u].bucket = id
        BY <1>2, <2>2, TakenUnit
      <3>2. /\ instant \in Nat /\ secret.current \in Nat
            /\ s \in Reserved => r \in Bootstrap
        BY <1>1, <1>2, LimitNumbers DEF LimitTypeOK, Reserved
      <3>3. UnitInv(u)'
        BY <1>1, <1>2, <1>6, <3>1, <3>2, LimitNumbers DEF UnitInv, Admitted, LimitTypeOK
      <3>4. Home(u)'
        BY <1>1, <1>6, <3>1 DEF Home
      <3> QED  BY <2>2, <3>3, <3>4
    <2> QED  BY <1>7, <2>1, <2>2
  <1>10. BucketInv'
    <2> SUFFICES ASSUME NEW j \in Buckets PROVE Agrees(buckets'[j], j, units', instant')
      BY DEF BucketInv
    <2>1. CASE j = id
      BY <1>1, <1>4, <1>5, <2>1
    <2>2. CASE j # id
      <3>1. buckets'[j] = buckets[j] /\ Agrees(buckets[j], j, units, instant) /\ buckets[j] \in BucketRecord
        BY <1>2, <1>5, <2>2 DEF LimitInv, BucketInv
      <3>2. \A v \in Units : Counts(units', v, j) <=> Counts(units, v, j)
        <4>1. CASE units'[u] = units[u]
          BY <1>7, <4>1 DEF Counts
        <4>2. CASE units'[u] = Taken(r, s, id)
          <5>1. units'[u].bucket = id /\ units[u].phase = "new"
            BY <1>1, <1>2, <4>2, TakenUnit DEF Admitted
          <5> QED  BY <1>7, <2>2, <5>1 DEF Counts
        <4> QED  BY <1>7, <4>1, <4>2
      <3>3. \A v \in Units : Counts(units, v, j) =>
                units'[v].at = units[v].at /\ units'[v].stage = units[v].stage /\ units'[v].record = units[v].record
        BY <1>1, <1>7 DEF Counts, Admitted
      <3>4. instant \in Nat /\ \A v \in Units : units[v].at \in Nat
        BY <1>2, LimitNumbers DEF LimitTypeOK
      <3>5. Agrees(buckets[j], j, units', instant)
        BY <3>1, <3>2, <3>3, <3>4, StillAgrees
      <3> QED  BY <1>1, <3>1, <3>5
    <2> QED  BY <2>1, <2>2
  <1>11. SpentInv'
    <2>1. CASE Refused(b, r, s)
      BY <1>1, <2>1, SpentKept DEF LimitInv
    <2>2. CASE ~ Refused(b, r, s)
      BY <1>1, <2>2, SpentGrows
    <2> QED  BY <2>1, <2>2
  <1> QED  BY <1>6, <1>8, <1>9, <1>10, <1>11 DEF LimitInv

-----------------------------------------------------------------------------
(* The other steps of the counter, and the invariant.                      *)

\* Releases and refunds keep the keys, and what each key leads to was made.
LEMMA AliasKept ==
  ASSUME LimitInv, UNCHANGED <<alias, secret, instant>>,
         \A id \in Buckets : buckets'[id].made = buckets[id].made
  PROVE  AliasInv' /\ Derived' = Derived
  <1>1. Derived' = Derived /\ alias' = alias /\ secret' = secret
    BY DEF Derived
  <1>2. AliasInv /\ alias \in [Records -> [0 .. MaxRotations -> Buckets \cup {Nil}]]
    BY DEF LimitInv, LimitTypeOK
  <1>3. \A r \in Records, k \in 0 .. MaxRotations :
            alias[r][k] # Nil => k <= secret.current /\ buckets'[alias[r][k]].made
    <2> SUFFICES ASSUME NEW r \in Records, NEW k \in 0 .. MaxRotations, alias[r][k] # Nil
                 PROVE  k <= secret.current /\ buckets'[alias[r][k]].made
      OBVIOUS
    <2>1. alias[r][k] \in Buckets
      BY <1>2
    <2>2. k <= secret.current /\ buckets[alias[r][k]].made
      BY <1>2 DEF AliasInv
    <2> QED  BY <2>1, <2>2
  <1> HIDE DEF Derived
  <1>4. AliasInv'
    BY <1>1, <1>2, <1>3 DEF AliasInv
  <1> QED  BY <1>1, <1>4

\* The response of a unit's request is sent.
LEMMA ReleaseStep ==
  ASSUME LimitInv, NEW u \in Units, Release(u)
  PROVE  LimitInv'
  <1> DEFINE id == units[u].bucket
             b == Freed(buckets[id], u)
             w == [units[u] EXCEPT !.phase = "released"]
  <1>1. /\ LimitTypeOK /\ buckets \in [Buckets -> BucketRecord] /\ units \in [Units -> UnitRecord]
        /\ UnitInv(u) /\ Admitted(u) /\ id \in Buckets
    BY LimitTypeByRecords DEF LimitInv, Release, UnitInv, Admitted
  <1>2. /\ buckets' = [buckets EXCEPT ![id] = b] /\ units' = [units EXCEPT ![u] = w]
        /\ alias' = alias /\ secret' = secret /\ instant' = instant
    BY DEF Release
  <1>3. /\ b \in BucketRecord /\ b.made = buckets[id].made /\ b.accepted = buckets[id].accepted
        /\ b.ordinary = buckets[id].ordinary /\ b.reservations = buckets[id].reservations
        /\ b.refillAt = buckets[id].refillAt
    BY <1>1 DEF Freed, BucketRecord
  <1>4. /\ w \in UnitRecord /\ w.phase = "released" /\ w.record = units[u].record /\ w.stage = units[u].stage
        /\ w.at = units[u].at /\ w.bucket = id /\ w.refunded = units[u].refunded
    BY <1>1 DEF UnitRecord
  <1> HIDE DEF b, w
  <1>5. /\ buckets' \in [Buckets -> BucketRecord] /\ units' \in [Units -> UnitRecord]
        /\ buckets'[id] = b /\ \A j \in Buckets \ {id} : buckets'[j] = buckets[j]
        /\ units'[u] = w /\ \A v \in Units \ {u} : units'[v] = units[v]
    BY <1>1, <1>2, <1>3, <1>4
  <1>6. LimitTypeOK'
    BY <1>1, <1>2, <1>5 DEF LimitTypeOK, BucketRecord, UnitRecord
  <1>7. ASSUME NEW v \in Units PROVE UnitInv(v)' /\ Home(v)'
    <2>1. \/ units'[v] = units[v]
          \/ /\ Admitted(v) /\ units'[v].phase # "new"
             /\ units'[v].record = units[v].record /\ units'[v].stage = units[v].stage
             /\ units'[v].at = units[v].at /\ units'[v].bucket = units[v].bucket
      BY <1>1, <1>4, <1>5
    <2>2. /\ UNCHANGED <<secret, instant>>
          /\ \A q \in Records, k \in 0 .. MaxRotations : alias[q][k] # Nil => alias'[q][k] = alias[q][k]
      BY <1>2
    <2> QED  BY <2>1, <2>2, PlacesKept
  <1>8. AliasInv'
    <2>1. /\ UNCHANGED <<alias, secret, instant>>
          /\ \A j \in Buckets : buckets'[j].made = buckets[j].made
      BY <1>2, <1>3, <1>5
    <2> QED  BY <2>1, AliasKept
  <1>9. BucketInv'
    <2> SUFFICES ASSUME NEW j \in Buckets PROVE Agrees(buckets'[j], j, units', instant')
      BY DEF BucketInv
    <2>1. /\ Agrees(buckets[j], j, units, instant) /\ buckets[j] \in BucketRecord
          /\ instant \in Nat /\ \A v \in Units : units[v].at \in Nat
      BY <1>1, LimitNumbers DEF LimitInv, BucketInv, LimitTypeOK
    <2>2. \A v \in Units : Counts(units', v, j) <=> Counts(units, v, j)
      BY <1>1, <1>4, <1>5 DEF Counts, Admitted
    <2>3. \A v \in Units : units'[v].at = units[v].at /\ units'[v].stage = units[v].stage
                           /\ units'[v].record = units[v].record
      BY <1>4, <1>5
    <2>4. /\ buckets'[j].accepted = buckets[j].accepted /\ buckets'[j].ordinary = buckets[j].ordinary
          /\ buckets'[j].reservations = buckets[j].reservations /\ buckets'[j].refillAt = buckets[j].refillAt
      BY <1>3, <1>5
    <2>5. Agrees(buckets'[j], j, units', instant)
      BY <2>1, <2>2, <2>3, <2>4, StillAgrees
    <2> QED  BY <1>2, <2>5
  <1>10. SpentInv'
    BY <1>4, <1>5, SpentKept DEF LimitInv
  <1> QED  BY <1>6, <1>7, <1>8, <1>9, <1>10 DEF LimitInv

\* A bucket that returned a unit agrees with the units that remain: the
\* reservation it gave up, in the window, was that unit's own.
LEMMA ReturnedBucket ==
  ASSUME LimitTypeOK, NEW u \in Units, Counts(units, u, units[u].bucket), units[u].stage \in Reserved,
         OwnReservation(u), buckets[units[u].bucket] \in BucketRecord,
         Agrees(buckets[units[u].bucket], units[u].bucket, units, instant),
         NEW tab, tab[u].refunded, \A v \in Units \ {u} : tab[v] = units[v]
  PROVE  /\ Returned(buckets[units[u].bucket], u) \in BucketRecord
         /\ Returned(buckets[units[u].bucket], u).made = buckets[units[u].bucket].made
         /\ Agrees(Returned(buckets[units[u].bucket], u), units[u].bucket, tab, instant)
  <1> DEFINE id == units[u].bucket
             b == buckets[id]
             a == b.accepted \ {u}
             r == [b.reservations EXCEPT ![units[u].stage] = Nil]
             c == Returned(b, u)
  <1>1. b \in BucketRecord /\ Agrees(b, id, units, instant)
    OBVIOUS
  <1>2. PICK h \in Units : h = b.reservations[units[u].stage] /\ units[h].at = units[u].at
    BY <1>1 DEF OwnReservation, BucketRecord
  <1> HIDE DEF b, id
  <1>3. /\ c \in BucketRecord /\ c.made = b.made /\ c.accepted = a /\ c.ordinary = b.ordinary
        /\ c.reservations = r /\ c.refillAt = b.refillAt
    BY <1>1 DEF Returned, BucketRecord
  <1> HIDE DEF c, a, r
  <1>4. /\ b.accepted \in SUBSET Units /\ b.reservations \in [Reserved -> Units \cup {Nil}]
    BY <1>1 DEF BucketRecord
  <1>5. ~ Counts(tab, u, id) /\ \A v \in Units \ {u} : Counts(tab, v, id) <=> Counts(units, v, id)
    BY DEF Counts
  <1>6. \A v \in a : Counts(tab, v, id)
    BY <1>1, <1>4, <1>5 DEF a, Agrees
  <1>7. ASSUME NEW v \in Units, Counts(tab, v, id), tab[v].at + Window > instant
        PROVE  v \in a /\ (tab[v].stage \in Reserved => r[tab[v].stage] = v)
    <2>1. /\ v # u /\ tab[v] = units[v] /\ v \in b.accepted
          /\ units[v].stage \in Reserved => b.reservations[units[v].stage] = v
      BY <1>1, <1>5, <1>7 DEF Agrees
    <2>2. CASE units[v].stage = units[u].stage
      <3>1. h = v
        BY <1>2, <2>1, <2>2
      <3>2. units[u].at + Window > instant
        BY <1>2, <1>7, <2>1, <3>1
      <3>3. b.reservations[units[u].stage] = u
        BY <1>1, <3>2 DEF Agrees, id
      <3> QED  BY <1>2, <2>1, <3>1, <3>3
    <2>3. CASE units[v].stage # units[u].stage
      BY <1>4, <2>1, <2>3 DEF a, r
    <2> QED  BY <2>2, <2>3
  <1>8. ASSUME NEW s \in Reserved, r[s] # Nil PROVE Counts(tab, r[s], id) /\ tab[r[s]].stage = s
    <2>1. s # units[u].stage /\ r[s] = b.reservations[s] /\ r[s] \in Units
      BY <1>4, <1>8 DEF r
    <2>2. Counts(units, r[s], id) /\ units[r[s]].stage = s
      BY <1>1, <1>8, <2>1 DEF Agrees
    <2> QED  BY <1>5, <2>1, <2>2
  <1>9. \A v \in a : tab[v].record \in Bootstrap /\ tab[v].stage = "ordinary" => v \in b.ordinary
    BY SMTT(30), <1>1, <1>4 DEF a, Agrees
  <1>10. /\ IsFiniteSet(a) /\ IsFiniteSet(b.ordinary) /\ Cardinality(b.ordinary) + 2 <= Ceiling
         /\ b.refillAt <= instant
    BY <1>1, FS_RemoveElement DEF a, Agrees
  <1>11. Agrees(c, id, tab, instant)
    BY <1>3, <1>6, <1>7, <1>8, <1>9, <1>10 DEF Agrees
  <1> QED  BY <1>3, <1>11 DEF c, b, id

\* A reserved unit is returned.
LEMMA RefundStep ==
  ASSUME LimitInv, NEW u \in Units, Refund(u)
  PROVE  LimitInv'
  <1> DEFINE id == units[u].bucket
             b == Returned(buckets[id], u)
             w == [units[u] EXCEPT !.refunded = TRUE]
  <1>1. /\ LimitTypeOK /\ buckets \in [Buckets -> BucketRecord] /\ units \in [Units -> UnitRecord]
        /\ UnitInv(u) /\ Admitted(u) /\ id \in Buckets
    BY LimitTypeByRecords DEF LimitInv, Refund, UnitInv, Admitted
  <1>2. /\ buckets' = [buckets EXCEPT ![id] = b] /\ units' = [units EXCEPT ![u] = w]
        /\ alias' = alias /\ secret' = secret /\ instant' = instant
    BY DEF Refund
  <1>3. /\ w \in UnitRecord /\ w.phase = "held" /\ w.record = units[u].record /\ w.stage = units[u].stage
        /\ w.at = units[u].at /\ w.bucket = id /\ w.refunded
    BY <1>1 DEF UnitRecord, Refund
  <1> HIDE DEF w
  <1>4. /\ units' \in [Units -> UnitRecord]
        /\ units'[u] = w /\ \A v \in Units \ {u} : units'[v] = units[v]
    BY <1>1, <1>2, <1>3
  <1>5. b \in BucketRecord /\ b.made = buckets[id].made /\ Agrees(b, id, units', instant)
    <2>1. /\ Counts(units, u, id) /\ units[u].stage \in Reserved /\ OwnReservation(u)
          /\ buckets[id] \in BucketRecord /\ Agrees(buckets[id], id, units, instant)
      BY <1>1 DEF Refund, Counts, LimitInv, BucketInv
    <2> QED  BY <1>1, <1>3, <1>4, <2>1, ReturnedBucket
  <1> HIDE DEF b
  <1>6. /\ buckets' \in [Buckets -> BucketRecord] /\ buckets'[id] = b
        /\ \A j \in Buckets \ {id} : buckets'[j] = buckets[j]
    BY <1>1, <1>2, <1>5
  <1>7. LimitTypeOK'
    BY <1>1, <1>2, <1>4, <1>6 DEF LimitTypeOK, BucketRecord, UnitRecord
  <1>8. ASSUME NEW v \in Units PROVE UnitInv(v)' /\ Home(v)'
    <2>1. \/ units'[v] = units[v]
          \/ /\ Admitted(v) /\ units'[v].phase # "new"
             /\ units'[v].record = units[v].record /\ units'[v].stage = units[v].stage
             /\ units'[v].at = units[v].at /\ units'[v].bucket = units[v].bucket
      BY <1>1, <1>3, <1>4
    <2>2. /\ UNCHANGED <<secret, instant>>
          /\ \A q \in Records, k \in 0 .. MaxRotations : alias[q][k] # Nil => alias'[q][k] = alias[q][k]
      BY <1>2
    <2> QED  BY <2>1, <2>2, PlacesKept
  <1>9. AliasInv'
    <2>1. /\ UNCHANGED <<alias, secret, instant>>
          /\ \A j \in Buckets : buckets'[j].made = buckets[j].made
      BY <1>2, <1>5, <1>6
    <2> QED  BY <2>1, AliasKept
  <1>10. BucketInv'
    <2> SUFFICES ASSUME NEW j \in Buckets PROVE Agrees(buckets'[j], j, units', instant')
      BY DEF BucketInv
    <2>1. CASE j = id
      BY <1>2, <1>5, <1>6, <2>1
    <2>2. CASE j # id
      <3>1. /\ Agrees(buckets[j], j, units, instant) /\ buckets[j] \in BucketRecord
            /\ instant \in Nat /\ \A v \in Units : units[v].at \in Nat
        BY <1>1, LimitNumbers DEF LimitInv, BucketInv, LimitTypeOK
      <3>2. \A v \in Units : Counts(units', v, j) <=> Counts(units, v, j)
        BY <1>3, <1>4, <2>2 DEF Counts
      <3>3. \A v \in Units : units'[v].at = units[v].at /\ units'[v].stage = units[v].stage
                             /\ units'[v].record = units[v].record
        BY <1>3, <1>4
      <3>4. Agrees(buckets[j], j, units', instant)
        BY <3>1, <3>2, <3>3, StillAgrees
      <3> QED  BY <1>2, <1>6, <2>2, <3>4
    <2> QED  BY <2>1, <2>2
  <1>11. SpentInv'
    BY <1>3, <1>4, SpentKept DEF LimitInv
  <1> QED  BY <1>7, <1>8, <1>9, <1>10, <1>11 DEF LimitInv

\* A new secret: the previous one counts for no less than a window.
LEMMA RotateStep ==
  ASSUME LimitInv, Rotate
  PROVE  LimitInv'
  <1>1. /\ LimitTypeOK /\ units \in [Units -> UnitRecord] /\ buckets \in [Buckets -> BucketRecord]
        /\ secret.current \in 0 .. MaxRotations /\ secret.until \in Nat /\ instant \in 0 .. MaxInstant
        /\ alias \in [Records -> [0 .. MaxRotations -> Buckets \cup {Nil}]]
    BY LimitTypeByRecords DEF LimitInv, LimitTypeOK
  <1>2. /\ secret.current < MaxRotations /\ instant >= secret.until
        /\ secret'.current = secret.current + 1 /\ secret'.until = instant + Overlap
        /\ secret' = [current |-> secret.current + 1, until |-> instant + Overlap]
        /\ buckets' = buckets /\ alias' = alias /\ units' = units /\ instant' = instant
    BY DEF Rotate
  <1>3. LimitTypeOK'
    <2>1. secret.current + 1 \in 0 .. MaxRotations /\ instant + Overlap \in Nat
      BY <1>1, <1>2, LimitNumbers
    <2> QED  BY <1>1, <1>2, <2>1 DEF LimitTypeOK
  <1>4. ASSUME NEW u \in Units PROVE UnitInv(u)' /\ Home(u)'
    <2>1. UnitInv(u) /\ Home(u)
      BY DEF LimitInv
    <2>2. UnitInv(u)'
      <3>1. \A k \in 0 .. secret.current : k \in 0 .. secret'.current
        BY <1>1, <1>2, LimitNumbers
      <3> QED  BY <1>2, <2>1, <3>1 DEF UnitInv, Admitted
    <2>3. ASSUME Admitted(u), InWindow(units[u].at)
          PROVE  /\ secret'.current > 0 /\ units[u].at + Window <= secret'.until
                 /\ alias[units[u].record][secret'.current - 1] = units[u].bucket
      <3>1. units[u].at \in Nat /\ units[u].at <= instant /\ instant \in Nat
        BY <1>1, <2>1, <2>3, LimitNumbers DEF UnitInv, UnitRecord
      <3>2. alias[units[u].record][secret.current] = units[u].bucket
        BY <1>1, <1>2, <2>1, <2>3, <3>1, LimitNumbers DEF Home, InWindow
      <3>3. secret'.current - 1 = secret.current
        BY <1>1, <1>2, LimitNumbers
      <3>4. secret'.current > 0 /\ units[u].at + Window <= secret'.until
        BY <1>1, <1>2, <3>1, LimitNumbers
      <3> QED  BY <3>2, <3>3, <3>4
    <2>4. Home(u)'
      BY <1>2, <2>3 DEF Home, Admitted, InWindow
    <2> QED  BY <2>2, <2>4
  <1>5. AliasInv'
    <2>1. AliasInv
      BY DEF LimitInv
    <2>2. \A r \in Records, k \in 0 .. MaxRotations :
              alias[r][k] # Nil => k <= secret.current /\ buckets[alias[r][k]].made
      BY <2>1 DEF AliasInv
    <2>3. \A r \in Records, k \in 0 .. MaxRotations :
              alias[r][k] # Nil => k <= secret'.current /\ buckets[alias[r][k]].made
      BY <1>1, <1>2, <2>2, LimitNumbers
    <2>4. \A r \in Records, k, l \in Derived' :
              alias[r][k] # Nil /\ alias[r][l] # Nil => alias[r][k] = alias[r][l]
      <3>1. \A k \in Derived' : k = secret.current \/ k = secret.current + 1
        BY <1>1, <1>2, LimitNumbers DEF Derived
      <3>2. \A r \in Records : alias[r][secret.current + 1] = Nil
        BY <1>1, <1>2, <2>2, LimitNumbers
      <3> QED  BY <3>1, <3>2
    <2> HIDE DEF Derived
    <2> QED  BY <1>2, <2>1, <2>3, <2>4 DEF AliasInv
  <1>6. BucketInv'
    BY <1>2 DEF LimitInv, BucketInv
  <1>7. SpentInv'
    BY <1>2, SpentKept DEF LimitInv
  <1> QED  BY <1>3, <1>4, <1>5, <1>6, <1>7 DEF LimitInv

\* Time passes: units leave the window, and a secret leaves the keys.
LEMMA PassStep ==
  ASSUME LimitInv, Pass
  PROVE  LimitInv'
  <1>1. /\ LimitTypeOK /\ units \in [Units -> UnitRecord] /\ buckets \in [Buckets -> BucketRecord]
        /\ secret.current \in 0 .. MaxRotations /\ secret.until \in Nat /\ instant \in Nat
        /\ alias \in [Records -> [0 .. MaxRotations -> Buckets \cup {Nil}]]
    BY LimitTypeByRecords, LimitNumbers DEF LimitInv, LimitTypeOK
  <1>2. /\ instant < MaxInstant /\ instant' = instant + 1
        /\ buckets' = buckets /\ alias' = alias /\ units' = units /\ secret' = secret
    BY DEF Pass
  <1>3. LimitTypeOK'
    BY <1>1, <1>2, LimitNumbers DEF LimitTypeOK
  <1>4. ASSUME NEW u \in Units PROVE UnitInv(u)' /\ Home(u)'
    <2>1. UnitInv(u) /\ Home(u) /\ units[u].at \in Nat
      BY <1>1, LimitNumbers DEF LimitInv, UnitRecord
    <2>2. UnitInv(u)'
      BY <1>1, <1>2, <2>1 DEF UnitInv, Admitted
    <2>3. Home(u)'
      BY <1>1, <1>2, <2>1, LimitNumbers DEF Home, Admitted, InWindow
    <2> QED  BY <2>2, <2>3
  <1>5. AliasInv'
    <2>1. Derived' \subseteq Derived
      BY <1>1, <1>2 DEF Derived
    <2>2. AliasInv
      BY DEF LimitInv
    <2> HIDE DEF Derived
    <2> QED  BY <1>2, <2>1, <2>2 DEF AliasInv
  <1>6. BucketInv'
    <2> SUFFICES ASSUME NEW j \in Buckets PROVE Agrees(buckets[j], j, units, instant')
      BY <1>2 DEF BucketInv
    <2>1. /\ Agrees(buckets[j], j, units, instant) /\ buckets[j] \in BucketRecord
          /\ instant' \in Nat /\ instant <= instant' /\ \A v \in Units : units[v].at \in Nat
      BY <1>1, <1>2, LimitNumbers DEF LimitInv, BucketInv, UnitRecord
    <2> QED  BY <1>1, <2>1, StillAgrees
  <1>7. SpentInv'
    BY <1>2, SpentKept DEF LimitInv
  <1> QED  BY <1>3, <1>4, <1>5, <1>6, <1>7 DEF LimitInv

\* The invariant of the counter.
THEOREM LimitInvariance == LimitSpec => []LimitInv
  <1>1. LimitInit => LimitInv
    <2> SUFFICES ASSUME LimitInit PROVE LimitInv
      OBVIOUS
    <2>1. /\ Unmade \in BucketRecord /\ NoUnit \in UnitRecord /\ NoUnit.phase = "new"
          /\ NoUnit.record = Nil
          /\ Unmade.accepted = {} /\ Unmade.ordinary = {} /\ Unmade.refillAt = 0
          /\ \A s \in Reserved : Unmade.reservations[s] = Nil
      BY UntouchedTypes DEF Unmade, NoUnit
    <2>2. /\ \A u \in Units : units[u] = NoUnit
          /\ \A id \in Buckets : buckets[id] = Unmade
          /\ \A r \in Records, k \in 0 .. MaxRotations : alias[r][k] = Nil
          /\ instant = 0 /\ secret.current = 0 /\ secret.until = 0
      BY DEF LimitInit
    <2>3. LimitTypeOK
      <3>1. 0 \in 0 .. MaxRotations /\ 0 \in 0 .. MaxInstant /\ 0 \in Nat
        BY LimitNumbers
      <3> QED  BY <2>1, <3>1, LimitTypeByRecords DEF LimitInit
    <2>4. \A u \in Units : UnitInv(u) /\ Home(u)
      BY <2>1, <2>2 DEF UnitInv, Home, Admitted
    <2>5. AliasInv
      BY <2>2, LimitNumbers DEF AliasInv, Derived
    <2>6. BucketInv
      <3> SUFFICES ASSUME NEW id \in Buckets PROVE Agrees(Unmade, id, units, instant)
        BY <2>2 DEF BucketInv
      <3>1. \A u \in Units : ~ Counts(units, u, id)
        BY <2>1, <2>2 DEF Counts
      <3> QED  BY <2>1, <2>2, <3>1, FS_EmptySet, LimitNumbers DEF Agrees
    <2>7. \A r \in Records, t \in 0 .. MaxInstant : Spent(r, t) = {}
      BY <2>1, <2>2, LimitNumbers DEF Spent
    <2>8. SpentInv
      BY <2>7, FS_EmptySet, LimitNumbers DEF SpentInv
    <2> QED  BY <2>3, <2>4, <2>5, <2>6, <2>8 DEF LimitInv
  <1>2. LimitInv /\ [LimitStep]_limitVars => LimitInv'
    <2> SUFFICES ASSUME LimitInv, [LimitStep]_limitVars PROVE LimitInv'
      OBVIOUS
    <2>1. CASE UNCHANGED limitVars
      <3>1. /\ buckets' = buckets /\ alias' = alias /\ units' = units /\ secret' = secret
            /\ instant' = instant
        BY <2>1 DEF limitVars
      <3>2. LimitTypeOK' /\ BucketInv'
        BY <3>1 DEF LimitInv, LimitTypeOK, BucketInv
      <3>3. \A u \in Units : UnitInv(u)' /\ Home(u)'
        BY <3>1 DEF LimitInv, UnitInv, Home, Admitted, InWindow
      <3>4. AliasInv'
        BY <3>1, AliasKept
      <3>5. SpentInv'
        BY <3>1, SpentKept DEF LimitInv
      <3> QED  BY <3>2, <3>3, <3>4, <3>5 DEF LimitInv
    <2> QED  BY <2>1, ConsumeStep, ReleaseStep, RefundStep, RotateStep, PassStep DEF LimitStep
  <1> QED  BY <1>1, <1>2, PTL DEF LimitSpec

\* Every variable of the counter keeps its shape.
THEOREM LimitTypes == LimitSpec => []LimitTypeOK
  <1>1. LimitInv => LimitTypeOK
    BY DEF LimitInv
  <1> QED  BY <1>1, LimitInvariance, PTL

\* No window admits more than the ceiling, and no rotation leads to two
\* histories.
THEOREM CeilingHolds == LimitSpec => []WindowCeiling
  <1>1. LimitInv => WindowCeiling
    <2> SUFFICES ASSUME LimitInv PROVE WindowCeiling
      OBVIOUS
    <2>1. \A r \in Records, t \in 0 .. MaxInstant : Cardinality(Spent(r, t)) <= Ceiling
      BY DEF LimitInv, SpentInv
    <2>2. ASSUME NEW r \in Records PROVE Cardinality(Found(r)) <= 1
      <3>1. \A a, b \in Found(r) : a = b
        BY DEF LimitInv, AliasInv, Found
      <3>2. CASE Found(r) = {}
        BY <3>2, FS_EmptySet
      <3>3. CASE Found(r) # {}
        <4>1. PICK a : Found(r) = {a}
          BY <3>1, <3>3
        <4>2. Cardinality({a}) = 1
          BY FS_Singleton
        <4> QED  BY <4>1, <4>2
      <3> QED  BY <3>2, <3>3
    <2> QED  BY <2>1, <2>2 DEF WindowCeiling
  <1> QED  BY <1>1, LimitInvariance, PTL

\* A ceremony's ordinary traffic leaves the units of its two stages.
THEOREM StagesKept == LimitSpec => []ReservedUnits
  <1>1. LimitInv => ReservedUnits
    <2> SUFFICES ASSUME LimitInv, NEW r \in Bootstrap, NEW s \in Reserved
                 PROVE  /\ \A t \in 0 .. MaxInstant :
                              Cardinality({u \in Spent(r, t) : units[u].stage = s}) <= 1
                        /\ {u \in Spent(r, instant) : units[u].stage = s} = {} /\ r \notin Exclusive
                              => \A id \in Found(r) : ~ Refused(Refreshed(buckets[id]), r, s)
      BY DEF ReservedUnits
    <2>1. /\ r \in Records /\ LimitTypeOK /\ AliasInv /\ SpentInv
          /\ instant \in 0 .. MaxInstant /\ instant \in Nat /\ units \in [Units -> UnitRecord]
      BY RateLimitAssumption, LimitNumbers, LimitTypeByRecords DEF LimitInv
    <2>2. ASSUME NEW t \in 0 .. MaxInstant PROVE Cardinality({u \in Spent(r, t) : units[u].stage = s}) <= 1
      <3> DEFINE taken == {u \in Spent(r, t) : units[u].stage = s}
      <3>1. \A u, v \in taken : u = v
        BY <2>1 DEF SpentInv
      <3>2. CASE taken = {}
        <4>1. Cardinality(taken) = 0
          BY <3>2, FS_EmptySet
        <4> QED  BY <4>1
      <3>3. CASE taken # {}
        <4>1. PICK u : taken = {u}
          BY <3>1, <3>3
        <4>2. Cardinality({u}) = 1
          BY FS_Singleton
        <4>3. Cardinality(taken) = 1
          BY <4>1, <4>2
        <4> QED  BY <4>3
      <3> QED  BY <3>2, <3>3
    <2>3. ASSUME {u \in Spent(r, instant) : units[u].stage = s} = {}, r \notin Exclusive, NEW id \in Found(r)
          PROVE  ~ Refused(Refreshed(buckets[id]), r, s)
      <3> DEFINE b == Refreshed(buckets[id])
      <3>1. PICK l \in Derived : alias[r][l] = id /\ id # Nil /\ id \in Buckets /\ l \in 0 .. MaxRotations
        <4>1. Derived \subseteq 0 .. MaxRotations
          BY <2>1, LimitNumbers DEF Derived, LimitTypeOK
        <4>2. PICK l \in Derived : alias[r][l] = id /\ id # Nil
          BY <2>3 DEF Found
        <4>3. alias[r][l] \in Buckets \cup {Nil}
          <5>1. alias \in [Records -> [0 .. MaxRotations -> Buckets \cup {Nil}]] /\ l \in 0 .. MaxRotations
            BY <2>1, <4>1, <4>2 DEF LimitTypeOK
          <5> QED  BY <2>1, <5>1
        <4> QED  BY <4>1, <4>2, <4>3
      <3>2. buckets[id] \in BucketRecord /\ Agrees(buckets[id], id, units, instant)
        BY <3>1, LimitTypeByRecords DEF LimitInv, BucketInv
      <3>3. /\ b \in BucketRecord /\ Agrees(b, id, units, instant)
            /\ \A u \in b.accepted : InWindow(units[u].at)
            /\ b.reservations[s] # Nil => InWindow(units[b.reservations[s]].at)
        BY <2>1, <3>1, <3>2, RefreshedBucket
      <3> HIDE DEF b
      <3>4. b.accepted \in SUBSET Units /\ b.reservations[s] \in Units \cup {Nil}
        BY <3>3 DEF BucketRecord
      <3>5. ASSUME NEW u \in Units, Counts(units, u, id), InWindow(units[u].at)
            PROVE  u \in Spent(r, instant) /\ units[u].stage \in Stages
        <4>1. UnitInv(u) /\ Admitted(u) /\ units[u].at \in Nat
          BY <2>1, <3>5, LimitNumbers DEF LimitInv, Counts, Admitted, UnitRecord
        <4>2. PICK k \in 0 .. MaxRotations : alias[units[u].record][k] = id
          BY <2>1, <3>5, <4>1, LimitNumbers DEF UnitInv, Counts, LimitTypeOK
        <4>3. units[u].record = r
          BY <2>1, <3>1, <4>1, <4>2 DEF AliasInv, UnitInv
        <4> QED  BY <2>1, <3>5, <4>1, <4>3, LimitNumbers DEF Spent, Counts, InWindow, UnitInv
      <3>6. b.reservations[s] = Nil
        BY <2>3, <3>3, <3>4, <3>5 DEF Agrees
      <3>7. Cardinality(b.accepted) < Ceiling
        <4>1. \A u \in b.accepted : /\ u \in Spent(r, instant) /\ u \in Units
                                    /\ units[u].stage \in Stages /\ units[u].stage # s
                                    /\ units[u].record = r
          BY <2>3, <3>3, <3>4, <3>5 DEF Agrees, Spent
        <4>2. \A u \in b.accepted \ b.ordinary : units[u].stage \in Reserved \ {s}
          BY <3>3, <4>1 DEF Agrees, Stages
        <4>3. \A u, v \in b.accepted \ b.ordinary : u = v
          <5>1. \A p, q \in Reserved \ {s} : p = q
            BY DEF Reserved
          <5> QED  BY <2>1, <4>1, <4>2, <5>1 DEF SpentInv
        <4>4. PICK x : b.accepted \subseteq b.ordinary \cup {x}
          <5>1. CASE b.accepted \subseteq b.ordinary
            BY <5>1
          <5>2. CASE \E x \in b.accepted : x \notin b.ordinary
            BY <4>3, <5>2
          <5> QED  BY <5>1, <5>2
        <4>5. IsFiniteSet(b.accepted) /\ IsFiniteSet(b.ordinary) /\ Cardinality(b.ordinary) + 2 <= Ceiling
          BY <3>3 DEF Agrees
        <4>6. /\ IsFiniteSet(b.ordinary \cup {x})
              /\ Cardinality(b.ordinary \cup {x})
                   = IF x \in b.ordinary THEN Cardinality(b.ordinary) ELSE Cardinality(b.ordinary) + 1
          BY <4>5, FS_AddElement
        <4>7. Cardinality(b.accepted) <= Cardinality(b.ordinary \cup {x})
          BY <4>4, <4>6, FS_Subset
        <4>8. Cardinality(b.accepted) \in Nat /\ Cardinality(b.ordinary) \in Nat
          BY <4>5, FS_CardinalityType
        <4> QED  BY <4>5, <4>6, <4>7, <4>8, LimitNumbers
      <3>8. Cardinality(b.accepted) \in Nat /\ s # "ordinary"
        BY <3>3, FS_CardinalityType DEF Agrees, Reserved
      <3>9. ~ (Cardinality(b.accepted) >= Ceiling)
        BY <3>7, <3>8, LimitNumbers
      <3> QED  BY <2>3, <3>6, <3>8, <3>9 DEF Refused, b
    <2> QED  BY <2>2, <2>3
  <1> QED  BY <1>1, LimitInvariance, PTL
=============================================================================
