------------------------ MODULE IdentityCeremonyProofs ------------------------
(***************************************************************************)
(* Theorems of IdentityCeremony, for every value of its constants.         *)
(*                                                                         *)
(* The argument: a challenge leaves the pending state for good when it is  *)
(* taken, so it has one owner, which alone maps it; the rows of a challenge*)
(* and the bindings only grow; and a transaction that nobody doomed still  *)
(* finds its own rows as its snapshot showed them.  Hence the subject of a *)
(* hand-off is its identity's, the session of a delivery is the only one   *)
(* minted, and who names a session names that one.                         *)
(***************************************************************************)
EXTENDS IdentityCeremony, FiniteSetTheorems, TLAPS

\* The stages of a request: its challenge is being mapped, by its owner; its
\* hand-off exists; it holds the name of a session, or may have ended.
MappingPc == {"exchanging", "mapping", "mapped", "settling"}
HandoffPc == {"storedHandoff", "numbering", "issuing", "issued", "rejected", "acking", "answering"}
Acknowledging == {"acking", "answering"}
Late == Acknowledging \cup {"done", "dead"}

\* The challenge store keeps its bound, on a finite set.
Known == {c \in Challenges : challenge[c].known}
StoreInv == IsFiniteSet(Known) /\ Cardinality(Known) <= Capacity

\* A request is at a challenge that is taken for good, and only an owner maps;
\* a call that joined another waits for one of the same challenge.
Placed(q) ==
    LET r == request[q]
    IN  /\ r.pc = "new" => r.challenge = None /\ ~r.owner
        /\ r.pc # "new" => r.challenge \in Challenges
        /\ r.owner => challenge[r.challenge].status \in {"consumed", "terminated"}
        /\ r.pc \in MappingPc => r.owner /\ callback[r.challenge].state = "none"
        /\ r.pc \in {"mapping", "mapped"} => r.identity \in Identities
        /\ r.pc \in HandoffPc => handoff[r.challenge].state # "none"
        /\ r.pc = "joined" => /\ r.joined \in Callbacks
                              /\ request[r.joined].challenge = r.challenge

\* What the snapshot of an open transaction showed of the rows it will write
\* still holds, unless a commit doomed it.
SnapshotHolds(q) ==
    LET r == request[q]
    IN  /\ r.pc = "mapped" =>
              \/ /\ r.plan = "create" /\ r.subject = r.challenge
                 /\ <<"binding", r.identity>> \in r.writes
                 /\ q \in doomed \/ binding[r.identity] = None
              \/ /\ r.plan \in {"reuse", "unavailable"}
                 /\ r.subject = binding[r.identity] /\ binding[r.identity] # None
        /\ r.pc = "issued" =>
              \/ /\ r.plan = "mint" /\ <<"delivery", r.challenge>> \in r.writes
                 /\ q \in doomed \/ delivery[r.challenge].state = "none"
              \/ r.plan = "replay" /\ delivery[r.challenge].state # "none"

\* A session's name is known late, and is the one that the delivery row holds.
Names(q) ==
    LET r == request[q]
    IN  /\ r.named # None => r.pc \in Late
        /\ r.answer = "success" => r.pc = "done"
        /\ session[q] # "none" => r.pc \in Late
        /\ r.pc = "storedHandoff" /\ r.committed => delivery[r.challenge].state # "none"
        /\ r.pc \in Acknowledging \/ r.answer = "success" =>
              delivery[r.challenge].state # "none" /\ r.named = delivery[r.challenge].session

OneOwner ==
    \A p, q \in Callbacks :
        request[p].owner /\ request[q].owner /\ Ch(p) = Ch(q) => p = q

\* The rows of a challenge tell of each other.
RowsAgree(c) ==
    /\ callback[c].state # "none" => challenge[c].status \in {"consumed", "terminated"}
    /\ callback[c].state = "none" => ~callback[c].committed /\ handoff[c].state = "none"
    /\ callback[c].state = "handoff_ready" => handoff[c].state # "none"
    /\ callback[c].state = "handoff_ready" /\ callback[c].committed => delivery[c].state # "none"
    /\ handoff[c].state # "none" =>
          /\ handoff[c].identity \in Identities /\ handoff[c].subject \in Challenges
          /\ binding[handoff[c].identity] = handoff[c].subject
    /\ delivery[c].state # "none" =>
          delivery[c].session \in Callbacks /\ session[delivery[c].session] # "none"

\* A session was minted for the challenge of its request, whose delivery names it.
MintedOnce ==
    \A q \in Callbacks :
        session[q] # "none" =>
            delivery[Ch(q)].state # "none" /\ delivery[Ch(q)].session = q
OwnDelivery == \A c \in Challenges : delivery[c].state # "none" => Ch(delivery[c].session) = c

\* The sweep holds delivery rows; the session of the one at hand is revoked.
SweepInv ==
    /\ \A c \in sweep.left : delivery[c].state # "none"
    /\ sweep.revoked # None =>
          /\ delivery[sweep.revoked].state # "none"
          /\ session[delivery[sweep.revoked].session] = "revoked"

CeremonyInv ==
    /\ TypeOK /\ StoreInv /\ OneOwner
    /\ \A q \in Callbacks : Placed(q) /\ SnapshotHolds(q) /\ Names(q)
    /\ \A c \in Challenges : RowsAgree(c)
    /\ MintedOnce /\ OwnDelivery /\ SweepInv /\ NoOrphanSession

-----------------------------------------------------------------------------
(***************************************************************************)
(* What every step keeps.                                                  *)
(***************************************************************************)
RequestRecord ==
    [pc : Running \cup {"new", "done", "dead"},
     challenge : Challenges \cup {None}, owner : BOOLEAN,
     joined : Callbacks \cup {None}, identity : Identities \cup {None},
     subject : Challenges \cup {None}, attempt : 1..MappingAttempts,
     plan : {"none", "create", "reuse", "unavailable", "mint", "replay"},
     committed : BOOLEAN, now : Nat, writes : SUBSET Rows,
     answer : Outcomes, named : Callbacks \cup {None}, cookie : BOOLEAN]

LEMMA RequestTableType == RequestTable = [Callbacks -> RequestRecord]
  BY DEF RequestTable, RequestRecord

\* Only request q moves; it keeps its challenge and the name it has.
Moves(q) ==
    /\ request' \in [Callbacks -> RequestRecord]
    /\ \A p \in Callbacks \ {q} : request'[p] = request[p]
    /\ request[q].challenge # None => request'[q].challenge = request[q].challenge
    /\ request[q].named # None => request'[q].named = request[q].named

\* A challenge that is taken stays so, and rows and bindings only grow.
Grows ==
    /\ \A c \in Challenges :
          /\ challenge[c].status \in {"consumed", "terminated"} =>
                challenge'[c].status \in {"consumed", "terminated"}
          /\ handoff[c].state # "none" =>
                /\ handoff'[c].state # "none" /\ handoff'[c].identity = handoff[c].identity
                /\ handoff'[c].subject = handoff[c].subject
          /\ delivery[c].state # "none" =>
                delivery'[c].state # "none" /\ delivery'[c].session = delivery[c].session
    /\ \A i \in Identities : binding[i] # None => binding'[i] = binding[i]

\* A step leaves request p alone: no row appears that it relies on the absence
\* of, unless it is doomed.
LeftAlone(p) ==
    /\ request'[p] = request[p]
    /\ request[p].pc \in MappingPc => callback'[Ch(p)].state = callback[Ch(p)].state
    /\ p \in doomed /\ request[p].pc \in InTxn => p \in doomed'
    /\ request[p].pc = "mapped" /\ <<"binding", request[p].identity>> \in request[p].writes =>
          p \in doomed' \/ binding'[request[p].identity] = binding[request[p].identity]
    /\ request[p].pc = "issued" /\ <<"delivery", Ch(p)>> \in request[p].writes =>
          p \in doomed' \/ delivery'[Ch(p)].state = "none" \/ delivery[Ch(p)].state # "none"
    /\ session'[p] = "none" <=> session[p] = "none"

\* A request that a step leaves alone stays where it is, and what it saw holds.
LEMMA LeftAloneKeeps ==
  ASSUME CeremonyInv, CeremonyAssumption, Grows, NEW p \in Callbacks, LeftAlone(p),
         \A o \in Callbacks :
            request[o].challenge # None => request'[o].challenge = request[o].challenge
  PROVE  Placed(p)' /\ SnapshotHolds(p)' /\ Names(p)'
  <1>1. /\ Placed(p) /\ SnapshotHolds(p) /\ Names(p) /\ request'[p] = request[p]
        /\ request \in [Callbacks -> RequestRecord] /\ None \notin Challenges
    BY RequestTableType DEF CeremonyInv, TypeOK, LeftAlone, CeremonyAssumption
  <1>2. request[p] \in RequestRecord
    BY <1>1
  <1>3. Placed(p)'
    <2>1. CASE request[p].pc = "new"
      BY <1>1, <2>1 DEF Placed, MappingPc, HandoffPc
    <2>2. CASE request[p].pc # "new"
      <3>1. request[p].challenge \in Challenges
        BY <1>1, <2>2 DEF Placed
      <3>2. request[p].pc = "joined" => request'[request[p].joined].challenge = request[p].challenge
        BY <1>1, <3>1 DEF Placed
      <3> QED  BY <1>1, <3>1, <3>2 DEF Placed, Grows, LeftAlone, Ch
    <2> QED  BY <2>1, <2>2
  <1>4. SnapshotHolds(p)'
    <2>1. CASE request[p].pc = "mapped"
      <3>1. request[p].identity \in Identities
        BY <1>1, <2>1 DEF Placed
      <3> QED  BY <1>1, <2>1, <3>1 DEF SnapshotHolds, Grows, LeftAlone, InTxn
    <2>2. CASE request[p].pc = "issued"
      <3>1. request[p].challenge \in Challenges
        BY <1>1, <2>2 DEF Placed
      <3> QED  BY <1>1, <2>2, <3>1 DEF SnapshotHolds, Grows, LeftAlone, InTxn, Ch
    <2>3. CASE request[p].pc \notin {"mapped", "issued"}
      BY <1>1, <2>3 DEF SnapshotHolds
    <2> QED  BY <2>1, <2>2, <2>3
  <1>5. Names(p)'
    <2>1. CASE request[p].pc = "new"
      BY <1>1, <2>1 DEF Names, LeftAlone, Late, Acknowledging
    <2>2. CASE request[p].pc # "new"
      <3>1. request[p].challenge \in Challenges
        BY <1>1, <2>2 DEF Placed
      <3> QED  BY <1>1, <3>1 DEF Names, Grows, LeftAlone
    <2> QED  BY <2>1, <2>2
  <1> QED  BY <1>3, <1>4, <1>5

\* A step of one request that writes no row keeps the invariant, if that
\* request is where it may be, and is no second owner.
LEMMA RequestMoves ==
  ASSUME CeremonyInv, CeremonyAssumption, NEW q \in Callbacks, Moves(q),
         UNCHANGED <<durable, sweep, clock, restarts>>,
         challenge' \in ChallengeStore, StoreInv', Grows,
         doomed' \subseteq Callbacks, doomed \ {q} \subseteq doomed',
         \/ request'[q].owner => request[q].owner /\ request'[q].challenge = request[q].challenge
         \/ \A p \in Callbacks : request[p].owner => Ch(p) # request'[q].challenge,
         Placed(q)', SnapshotHolds(q)', Names(q)'
  PROVE  CeremonyInv'
  <1>1. UNCHANGED <<binding, closed, callback, handoff, delivery, session>>
    BY DEF durable
  <1>2. \A p \in Callbacks :
           /\ request[p].challenge # None => request'[p].challenge = request[p].challenge
           /\ request[p].named # None => request'[p].named = request[p].named
    BY DEF Moves
  <1>3. TypeOK'
    BY <1>1, RequestTableType DEF CeremonyInv, TypeOK, Moves, StoreInv, Known
  <1>4. ASSUME NEW p \in Callbacks PROVE Placed(p)' /\ SnapshotHolds(p)' /\ Names(p)'
    <2>1. CASE p = q
      BY <2>1
    <2>2. CASE p # q
      <3>1. LeftAlone(p)
        BY <1>1, <2>2 DEF LeftAlone, Moves
      <3> QED  BY <1>2, <3>1, LeftAloneKeeps
    <2> QED  BY <2>1, <2>2
  <1>5. OneOwner'
    BY DEF CeremonyInv, OneOwner, Moves, Ch
  <1>6. \A c \in Challenges : RowsAgree(c)'
    BY <1>1 DEF CeremonyInv, RowsAgree, Grows
  <1>7. MintedOnce' /\ OwnDelivery'
    <2>1. \A p \in Callbacks : session[p] # "none" => request[p].challenge # None
      BY DEF CeremonyInv, Names, Placed, Late, Acknowledging, CeremonyAssumption
    <2>2. \A c \in Challenges : delivery[c].state # "none" =>
             delivery[c].session \in Callbacks /\ session[delivery[c].session] # "none"
      BY DEF CeremonyInv, RowsAgree
    <2> QED  BY <1>1, <1>2, <2>1, <2>2 DEF CeremonyInv, MintedOnce, OwnDelivery, Ch
  <1>8. SweepInv'
    BY <1>1 DEF CeremonyInv, SweepInv
  <1>9. NoOrphanSession'
    <2>1. \A c \in Challenges : delivery[c].state = "erased" => delivery[c].session # None
      BY DEF CeremonyInv, RowsAgree, CeremonyAssumption
    <2> QED  BY <1>1, <1>2, <2>1 DEF CeremonyInv, NoOrphanSession
  <1> QED  BY <1>3, <1>4, <1>5, <1>6, <1>7, <1>8, <1>9 DEF CeremonyInv

-----------------------------------------------------------------------------
(***************************************************************************)
(* The challenge store, and the steps that write no row.                   *)
(***************************************************************************)
\* What every record of a request is like.
LEMMA RequestType ==
  ASSUME CeremonyInv, NEW q \in Callbacks
  PROVE  request[q] \in RequestRecord /\ request \in [Callbacks -> RequestRecord]
  BY RequestTableType DEF CeremonyInv, TypeOK

\* The store's bound survives when challenges are only forgotten.
LEMMA ForgettingKeeps ==
  ASSUME CeremonyInv, CeremonyAssumption,
         \A c \in Challenges : challenge'[c].known => challenge[c].known
  PROVE  StoreInv'
  <1>1. IsFiniteSet(Known) /\ Cardinality(Known) <= Capacity /\ Capacity \in Nat
    BY DEF CeremonyInv, StoreInv, CeremonyAssumption
  <1>2. Known' \subseteq Known
    BY DEF Known
  <1>3. IsFiniteSet(Known') /\ Cardinality(Known') <= Cardinality(Known)
    BY <1>1, <1>2, FS_Subset
  <1>4. Cardinality(Known) \in Nat /\ Cardinality(Known') \in Nat
    BY <1>1, <1>3, FS_CardinalityType
  <1> QED  BY <1>1, <1>3, <1>4 DEF StoreInv

\* A step that writes no row, and forgets and settles challenges at most.
LEMMA StatusStep ==
  ASSUME CeremonyInv, CeremonyAssumption, UNCHANGED durable,
         \A c \in Challenges :
            /\ challenge'[c].known => challenge[c].known
            /\ \/ challenge'[c].status = challenge[c].status
               \/ challenge'[c].status \in {"consumed", "terminated"}
  PROVE  StoreInv' /\ Grows
  <1>1. StoreInv'
    BY ForgettingKeeps
  <1>2. Grows
    BY DEF Grows, durable
  <1> QED  BY <1>1, <1>2

\* An update of a request that keeps its challenge and its name moves it alone.
LEMMA Updates ==
  ASSUME CeremonyInv, NEW q \in Callbacks, NEW r \in RequestRecord, Update(q, r),
         request[q].challenge # None => r.challenge = request[q].challenge,
         request[q].named # None => r.named = request[q].named
  PROVE  Moves(q) /\ request'[q] = r
  BY RequestType DEF Update, Moves

\* A fresh request has its type.
LEMMA FreshType ==
  ASSUME CeremonyAssumption
  PROVE  Fresh \in RequestRecord /\ Fresh.committed = FALSE /\ Fresh.answer = "none"
  <1>1. 1 \in 1 .. MappingAttempts
    BY DEF CeremonyAssumption
  <1>2. Fresh \in RequestRecord
    BY <1>1 DEF RequestRecord, Fresh, Outcomes
  <1> QED  BY <1>2 DEF Fresh

\* What is kept of a request has its type.
LEMMA LeftType ==
  ASSUME CeremonyInv, CeremonyAssumption, NEW q \in Callbacks,
         NEW pc \in Running \cup {"new", "done", "dead"}
  PROVE  /\ Left(q, pc) \in RequestRecord /\ Left(q, pc).pc = pc
         /\ Left(q, pc).challenge = request[q].challenge /\ Left(q, pc).owner = request[q].owner
         /\ Left(q, pc).named = request[q].named /\ Left(q, pc).answer = "none"
         /\ Left(q, pc).committed = FALSE
  <1>1. /\ request[q].challenge \in Challenges \cup {None} /\ request[q].owner \in BOOLEAN
        /\ request[q].named \in Callbacks \cup {None}
    BY RequestType DEF RequestRecord
  <1>2. Fresh \in RequestRecord /\ Fresh.committed = FALSE /\ Fresh.answer = "none"
    BY FreshType
  <1>3. Left(q, pc) \in RequestRecord
    BY <1>1, <1>2 DEF Left, RequestRecord
  <1>4. Left(q, pc).pc = pc /\ Left(q, pc).challenge = request[q].challenge
    BY <1>1, <1>2 DEF Left, RequestRecord
  <1>5. Left(q, pc).owner = request[q].owner
    BY <1>1, <1>2 DEF Left, RequestRecord
  <1>6. Left(q, pc).named = request[q].named
    BY <1>1, <1>2 DEF Left, RequestRecord
  <1>7. Left(q, pc).answer = "none" /\ Left(q, pc).committed = FALSE
    BY <1>1, <1>2 DEF Left, RequestRecord
  <1> QED  BY <1>3, <1>4, <1>5, <1>6, <1>7

LEMMA AnsweredType ==
  ASSUME CeremonyInv, CeremonyAssumption, NEW q \in Callbacks, NEW o \in Outcomes
  PROVE  /\ Answered(q, o) \in RequestRecord /\ Answered(q, o).pc = "done"
         /\ Answered(q, o).challenge = request[q].challenge
         /\ Answered(q, o).owner = request[q].owner
         /\ Answered(q, o).named = request[q].named /\ Answered(q, o).answer = o
  <1>1. ASSUME NEW l \in RequestRecord, l = Left(q, "done")
        PROVE  /\ [l EXCEPT !.answer = o] \in RequestRecord /\ [l EXCEPT !.answer = o].answer = o
               /\ [l EXCEPT !.answer = o].pc = l.pc
               /\ [l EXCEPT !.answer = o].challenge = l.challenge
               /\ [l EXCEPT !.answer = o].owner = l.owner /\ [l EXCEPT !.answer = o].named = l.named
    BY DEF RequestRecord
  <1>2. Left(q, "done") \in RequestRecord
    BY LeftType
  <1>3. /\ Answered(q, o) \in RequestRecord /\ Answered(q, o).answer = o
        /\ Answered(q, o).pc = Left(q, "done").pc
        /\ Answered(q, o).challenge = Left(q, "done").challenge
        /\ Answered(q, o).owner = Left(q, "done").owner
        /\ Answered(q, o).named = Left(q, "done").named
    BY <1>1, <1>2 DEF Answered
  <1> QED  BY <1>3, LeftType

\* A refusal of a request, or an answer that it goes on, keeps the invariant.
LEMMA RefusalKeeps ==
  ASSUME CeremonyInv, CeremonyAssumption, NEW q \in Callbacks, NEW o \in Outcomes \ {"success"},
         request[q].pc # "new", Answer(q, o),
         UNCHANGED <<durable, sweep, clock, restarts>>,
         challenge' \in ChallengeStore, doomed' \subseteq Callbacks, doomed \ {q} \subseteq doomed',
         \A c \in Challenges :
            /\ challenge'[c].known => challenge[c].known
            /\ \/ challenge'[c].status = challenge[c].status
               \/ challenge'[c].status \in {"consumed", "terminated"}
  PROVE  CeremonyInv'
  <1>1. Moves(q) /\ request'[q] = Answered(q, o)
    BY AnsweredType, Updates DEF Answer
  <1>2. StoreInv' /\ Grows
    BY StatusStep
  <1>3. Placed(q) /\ Names(q)
    BY DEF CeremonyInv
  <1>4. /\ request'[q].pc = "done" /\ request'[q].challenge = request[q].challenge
        /\ request'[q].owner = request[q].owner /\ request'[q].named = request[q].named
        /\ request'[q].answer # "success"
    BY <1>1, AnsweredType
  <1>5. Placed(q)'
    BY <1>2, <1>3, <1>4 DEF Placed, Grows, MappingPc, HandoffPc
  <1>6. SnapshotHolds(q)'
    BY <1>4 DEF SnapshotHolds
  <1>7. Names(q)'
    BY <1>4 DEF Names, Late, Acknowledging
  <1> QED  BY <1>1, <1>2, <1>4, <1>5, <1>6, <1>7, RequestMoves

LEMMA ReceiveUnusableKeeps ==
  ASSUME CeremonyInv, CeremonyAssumption, NEW q \in Callbacks, NEW c \in Challenges,
         NEW why \in {"unknown", "malformed", "wrong_context"}, ReceiveUnusable(q, c, why)
  PROVE  CeremonyInv'
  <1> DEFINE r == [Answered(q, "refused") EXCEPT !.challenge = c]
  <1>1. /\ request[q].pc = "new" /\ request[q].challenge = None /\ ~request[q].owner
        /\ request[q].named = None
    BY DEF ReceiveUnusable, CeremonyInv, Placed, Names, Late, Acknowledging
  <1>2. /\ r \in RequestRecord /\ r.pc = "done" /\ r.challenge = c /\ r.owner = FALSE
        /\ r.named = None /\ r.answer = "refused"
    BY <1>1, AnsweredType DEF RequestRecord, Outcomes
  <1> HIDE DEF r
  <1>3. Moves(q) /\ request'[q] = r
    BY <1>1, <1>2, Updates DEF ReceiveUnusable, r
  <1>4. /\ challenge' \in ChallengeStore
        /\ \A d \in Challenges :
              /\ challenge'[d].known = challenge[d].known
              /\ \/ challenge'[d].status = challenge[d].status
                 \/ challenge'[d].status \in {"consumed", "terminated"}
    BY DEF ReceiveUnusable, CeremonyInv, TypeOK, ChallengeStore, StatusNow
  <1>5. UNCHANGED <<durable, doomed, sweep, clock, restarts>>
    BY DEF ReceiveUnusable
  <1>6. StoreInv' /\ Grows
    BY <1>4, <1>5, StatusStep
  <1>7. Placed(q)' /\ SnapshotHolds(q)' /\ Names(q)'
    <2>1. session[q] = "none" \/ "done" \in Late
      BY DEF Late
    <2> QED  BY <1>2, <1>3 DEF Placed, SnapshotHolds, Names, MappingPc, HandoffPc, Late, Acknowledging
  <1> QED  BY <1>2, <1>3, <1>4, <1>5, <1>6, <1>7, RequestMoves DEF CeremonyInv, TypeOK

\* A delivery that is received is at its challenge.
LEMMA ReceivedType ==
  ASSUME CeremonyInv, CeremonyAssumption, NEW q \in Callbacks, NEW c \in Challenges
  PROVE  /\ Received(q, c) \in RequestRecord /\ Received(q, c).challenge = c
         /\ Received(q, c).owner = request[q].owner /\ Received(q, c).named = request[q].named
         /\ Received(q, c).answer = request[q].answer
  <1>1. request[q] \in RequestRecord
    BY RequestType
  <1>2. Received(q, c) \in RequestRecord
    BY <1>1 DEF RequestRecord, Received
  <1>3. Received(q, c).owner = request[q].owner
    BY <1>1 DEF RequestRecord, Received
  <1> QED  BY <1>1, <1>2, <1>3 DEF RequestRecord, Received

LEMMA ReceiveErrorKeeps ==
  ASSUME CeremonyInv, CeremonyAssumption, NEW q \in Callbacks, NEW c \in Challenges,
         ReceiveError(q, c)
  PROVE  CeremonyInv'
  <1> DEFINE r == [Answered(q, "refused") EXCEPT !.challenge = c]
  <1>1. /\ request[q].pc = "new" /\ request[q].challenge = None /\ ~request[q].owner
        /\ request[q].named = None
    BY DEF ReceiveError, CeremonyInv, Placed, Names, Late, Acknowledging
  <1>2. /\ r \in RequestRecord /\ r.pc = "done" /\ r.challenge = c /\ r.owner = FALSE
        /\ r.named = None /\ r.answer = "refused"
    BY <1>1, AnsweredType DEF RequestRecord, Outcomes
  <1> HIDE DEF r
  <1>3. Moves(q) /\ request'[q] = r
    BY <1>1, <1>2, Updates DEF ReceiveError, r
  <1>4. /\ challenge' \in ChallengeStore
        /\ \A d \in Challenges :
              /\ challenge'[d].known = challenge[d].known
              /\ \/ challenge'[d].status = challenge[d].status
                 \/ challenge'[d].status \in {"consumed", "terminated"}
    BY DEF ReceiveError, CeremonyInv, TypeOK, ChallengeStore, StatusNow
  <1>5. UNCHANGED <<durable, doomed, sweep, clock, restarts>>
    BY DEF ReceiveError
  <1>6. StoreInv' /\ Grows
    BY <1>4, <1>5, StatusStep
  <1>7. Placed(q)' /\ SnapshotHolds(q)' /\ Names(q)'
    BY <1>2, <1>3 DEF Placed, SnapshotHolds, Names, MappingPc, HandoffPc, Late, Acknowledging
  <1> QED  BY <1>2, <1>3, <1>4, <1>5, <1>6, <1>7, RequestMoves DEF CeremonyInv, TypeOK

\* The delivery that takes a pending challenge is its only owner, and finds no
\* row of it.
LEMMA TakeChallengeKeeps ==
  ASSUME CeremonyInv, CeremonyAssumption, NEW q \in Callbacks, NEW c \in Challenges,
         TakeChallenge(q, c)
  PROVE  CeremonyInv'
  <1> DEFINE r == [Received(q, c) EXCEPT !.pc = "exchanging", !.owner = TRUE]
  <1>1. /\ request[q].pc = "new" /\ request[q].challenge = None /\ ~request[q].owner
        /\ request[q].named = None /\ request[q].answer # "success" /\ session[q] = "none"
    BY DEF TakeChallenge, CeremonyInv, Placed, Names, Late, Acknowledging
  <1>2. /\ r \in RequestRecord /\ r.pc = "exchanging" /\ r.challenge = c /\ r.owner = TRUE
        /\ r.named = None /\ r.answer # "success"
    <2>1. ASSUME NEW l \in RequestRecord
          PROVE  [l EXCEPT !.pc = "exchanging", !.owner = TRUE] \in RequestRecord
      BY DEF RequestRecord, Running
    <2>2. r \in RequestRecord
      BY <2>1, ReceivedType
    <2>3. r.owner = TRUE
      BY ReceivedType DEF RequestRecord
    <2>4. r.pc = "exchanging" /\ r.challenge = c /\ r.named = None /\ r.answer # "success"
      BY <1>1, ReceivedType DEF RequestRecord
    <2> QED  BY <2>2, <2>3, <2>4
  <1> HIDE DEF r
  <1>3. Moves(q) /\ request'[q] = r
    BY <1>1, <1>2, Updates DEF TakeChallenge, r
  <1>4. /\ challenge' \in ChallengeStore
        /\ \A d \in Challenges :
              /\ challenge'[d].known = challenge[d].known
              /\ \/ challenge'[d].status = challenge[d].status
                 \/ challenge'[d].status \in {"consumed", "terminated"}
        /\ challenge'[c].status = "consumed" /\ challenge[c].status = "pending"
    BY DEF TakeChallenge, CeremonyInv, TypeOK, ChallengeStore, StatusNow
  <1>5. UNCHANGED <<durable, doomed, sweep, clock, restarts>>
    BY DEF TakeChallenge
  <1>6. StoreInv' /\ Grows
    BY <1>4, <1>5, StatusStep
  <1>7. \A p \in Callbacks : request[p].owner => Ch(p) # request'[q].challenge
    BY <1>2, <1>3, <1>4 DEF CeremonyInv, Placed, Ch
  <1>8. Placed(q)' /\ SnapshotHolds(q)' /\ Names(q)'
    <2>1. callback'[c].state = "none" /\ session'[q] = "none"
      BY <1>1, <1>4, <1>5 DEF durable, CeremonyInv, RowsAgree
    <2> QED  BY <1>2, <1>3, <1>4, <2>1 DEF Placed, SnapshotHolds, Names, HandoffPc, Late, Acknowledging
  <1> QED  BY <1>2, <1>3, <1>4, <1>5, <1>6, <1>7, <1>8, RequestMoves DEF CeremonyInv, TypeOK

LEMMA ReceiveAgainKeeps ==
  ASSUME CeremonyInv, CeremonyAssumption, NEW q \in Callbacks, NEW c \in Challenges,
         ReceiveAgain(q, c)
  PROVE  CeremonyInv'
  <1>1. /\ request[q].pc = "new" /\ request[q].challenge = None /\ ~request[q].owner
        /\ request[q].named = None /\ request[q].answer # "success" /\ session[q] = "none"
    BY DEF ReceiveAgain, CeremonyInv, Placed, Names, Late, Acknowledging
  <1>2. /\ challenge' \in ChallengeStore
        /\ \A d \in Challenges :
              /\ challenge'[d].known = challenge[d].known
              /\ \/ challenge'[d].status = challenge[d].status
                 \/ challenge'[d].status \in {"consumed", "terminated"}
    <2>1. /\ challenge \in ChallengeStore /\ StatusNow(c) \in {"consumed", "terminated"}
          /\ challenge' = [challenge EXCEPT ![c].status = StatusNow(c)]
      BY DEF ReceiveAgain, CeremonyInv, TypeOK
    <2>2. challenge' = [challenge EXCEPT ![c] = [challenge[c] EXCEPT !.status = StatusNow(c)]]
      BY <2>1
    <2> QED  BY <2>1, <2>2 DEF ChallengeStore
  <1>3. UNCHANGED <<durable, doomed, sweep, clock, restarts>>
    BY DEF ReceiveAgain
  <1>4. StoreInv' /\ Grows
    BY <1>2, <1>3, StatusStep
  <1>5. ASSUME NEW r \in RequestRecord, Update(q, r), r.challenge = c, r.named = None, ~r.owner,
               r.answer # "success", r.pc \in {"joined", "stored"},
               r.pc = "joined" => r.joined \in Callbacks /\ request[r.joined].challenge = c
        PROVE  CeremonyInv'
    <2>1. Moves(q) /\ request'[q] = r
      BY <1>1, <1>5, Updates
    <2>2. r.pc = "joined" => request'[r.joined].challenge = c
      BY <1>1, <1>5, <2>1 DEF Moves, CeremonyAssumption
    <2>3. session'[q] = "none"
      BY <1>1, <1>3 DEF durable
    <2>4. Placed(q)' /\ SnapshotHolds(q)' /\ Names(q)'
      BY <1>5, <2>1, <2>2, <2>3
      DEF Placed, SnapshotHolds, Names, MappingPc, HandoffPc, Acknowledging
    <2> QED  BY <1>2, <1>3, <1>4, <1>5, <2>1, <2>4, RequestMoves DEF CeremonyInv, TypeOK
  <1>6. ASSUME Update(q, [Received(q, c) EXCEPT !.pc = "stored"]) PROVE CeremonyInv'
    <2> DEFINE r == [Received(q, c) EXCEPT !.pc = "stored"]
    <2>1. /\ r \in RequestRecord /\ r.pc = "stored" /\ r.challenge = c /\ ~r.owner
          /\ r.named = None /\ r.answer # "success"
      <3>1. r \in RequestRecord
        BY ReceivedType DEF RequestRecord, Running
      <3>2. r.owner = request[q].owner
        BY ReceivedType DEF RequestRecord
      <3>3. r.pc = "stored" /\ r.challenge = c /\ r.named = None /\ r.answer # "success"
        BY <1>1, ReceivedType DEF RequestRecord
      <3> QED  BY <1>1, <3>1, <3>2, <3>3
    <2> HIDE DEF r
    <2> QED  BY <1>5, <1>6, <2>1 DEF r
  <1>7. ASSUME NEW p \in InFlight(c),
               Update(q, [Received(q, c) EXCEPT !.pc = "joined", !.joined = p])
        PROVE  CeremonyInv'
    <2> DEFINE r == [Received(q, c) EXCEPT !.pc = "joined", !.joined = p]
    <2>1. p \in Callbacks /\ request[p].challenge = c
      BY DEF InFlight
    <2>2. /\ r \in RequestRecord /\ r.pc = "joined" /\ r.challenge = c /\ ~r.owner
          /\ r.named = None /\ r.answer # "success" /\ r.joined = p
      <3>0. ASSUME NEW l \in RequestRecord
            PROVE  [l EXCEPT !.pc = "joined", !.joined = p] \in RequestRecord
        BY <2>1 DEF RequestRecord, Running
      <3>1. r \in RequestRecord
        BY <3>0, ReceivedType
      <3>2. r.owner = request[q].owner
        BY ReceivedType DEF RequestRecord
      <3>3. /\ r.pc = "joined" /\ r.challenge = c /\ r.named = None /\ r.answer # "success"
            /\ r.joined = p
        BY <1>1, ReceivedType DEF RequestRecord
      <3> QED  BY <1>1, <3>1, <3>2, <3>3
    <2> HIDE DEF r
    <2> QED  BY <1>5, <1>7, <2>1, <2>2 DEF r
  <1> QED  BY <1>6, <1>7 DEF ReceiveAgain

\* A step of one request that writes no row and stays at its challenge.
LEMMA QuietMoves ==
  ASSUME CeremonyInv, CeremonyAssumption, NEW q \in Callbacks, Moves(q),
         UNCHANGED <<challenge, durable, sweep, clock, restarts>>,
         doomed' \subseteq Callbacks, doomed \ {q} \subseteq doomed',
         request'[q].owner => request[q].owner, request'[q].challenge = request[q].challenge,
         Placed(q)', SnapshotHolds(q)', Names(q)'
  PROVE  CeremonyInv'
  <1>1. StoreInv' /\ Grows
    BY StatusStep
  <1> QED  BY <1>1, RequestMoves DEF CeremonyInv, TypeOK

\* A completion that another one joined is of the same challenge.
LEMMA LeaveJoinKeeps ==
  ASSUME CeremonyInv, CeremonyAssumption, NEW q \in Callbacks, LeaveJoin(q)
  PROVE  CeremonyInv'
  <1> DEFINE p == request[q].joined
             c == request[q].challenge
  <1>1. /\ request[q].pc = "joined" /\ p \in Callbacks /\ request[p].challenge = c
        /\ c \in Challenges /\ request[q].named = None /\ session[q] = "none"
        /\ request[q].answer # "success"
        /\ request[q].owner => challenge[c].status \in {"consumed", "terminated"}
        /\ UNCHANGED <<challenge, durable, doomed, sweep, clock, restarts>>
    BY DEF LeaveJoin, CeremonyInv, Placed, Names, Late, Acknowledging
  <1>2. request[q] \in RequestRecord /\ request[p] \in RequestRecord
    BY <1>1, RequestType
  <1>3. CASE request[p].pc = "done"
    <2> DEFINE r == [Answered(q, request[p].answer) EXCEPT !.named = request[p].named]
    <2>1. request[p].answer \in Outcomes /\ request[p].named \in Callbacks \cup {None}
      BY <1>2 DEF RequestRecord
    <2>2. ASSUME NEW l \in RequestRecord
          PROVE  /\ [l EXCEPT !.named = request[p].named] \in RequestRecord
                 /\ [l EXCEPT !.named = request[p].named].named = request[p].named
                 /\ [l EXCEPT !.named = request[p].named].pc = l.pc
                 /\ [l EXCEPT !.named = request[p].named].challenge = l.challenge
                 /\ [l EXCEPT !.named = request[p].named].owner = l.owner
                 /\ [l EXCEPT !.named = request[p].named].answer = l.answer
      BY <2>1 DEF RequestRecord
    <2>3. /\ r \in RequestRecord /\ r.pc = "done" /\ r.challenge = c
          /\ r.owner = request[q].owner /\ r.named = request[p].named
          /\ r.answer = request[p].answer
      BY <2>1, <2>2, AnsweredType
    <2>4. Update(q, r)
      BY <1>1, <1>3 DEF LeaveJoin
    <2> HIDE DEF r
    <2>5. Moves(q) /\ request'[q] = r
      BY <1>1, <2>3, <2>4, Updates
    <2>6. request[p].answer = "success" =>
             delivery[c].state # "none" /\ request[p].named = delivery[c].session
      BY <1>1 DEF CeremonyInv, Names
    <2>7. Placed(q)' /\ SnapshotHolds(q)' /\ Names(q)'
      BY <1>1, <2>3, <2>5, <2>6
      DEF Placed, SnapshotHolds, Names, MappingPc, HandoffPc, Late, Acknowledging, durable
    <2> QED  BY <1>1, <2>3, <2>5, <2>7, QuietMoves DEF CeremonyInv, TypeOK
  <1>4. CASE request[p].pc # "done"
    <2> DEFINE r == [request[q] EXCEPT !.pc = "stored", !.joined = None]
    <2>1. /\ r \in RequestRecord /\ r.pc = "stored" /\ r.challenge = c
          /\ r.owner = request[q].owner /\ r.named = None /\ r.answer # "success"
      <3>1. r \in RequestRecord
        BY ZenonT(40), <1>2 DEF RequestRecord, Running
      <3>2. r.owner = request[q].owner
        BY <1>2 DEF RequestRecord
      <3>3. r.pc = "stored" /\ r.challenge = c /\ r.named = None /\ r.answer # "success"
        BY <1>1, <1>2 DEF RequestRecord
      <3> QED  BY <3>1, <3>2, <3>3
    <2>2. Update(q, r)
      BY <1>1, <1>4 DEF LeaveJoin
    <2> HIDE DEF r
    <2>3. Moves(q) /\ request'[q] = r
      BY <1>1, <2>1, <2>2, Updates
    <2>4. Placed(q)' /\ SnapshotHolds(q)' /\ Names(q)'
      BY <1>1, <2>1, <2>3
      DEF Placed, SnapshotHolds, Names, MappingPc, HandoffPc, Acknowledging, durable
    <2> QED  BY <1>1, <2>1, <2>3, <2>4, QuietMoves DEF CeremonyInv, TypeOK
  <1> QED  BY <1>3, <1>4

\* Request q at stage pc: what the invariant says of it there.
LEMMA WhereItIs ==
  ASSUME CeremonyInv, CeremonyAssumption, NEW q \in Callbacks
  PROVE  /\ Placed(q) /\ SnapshotHolds(q) /\ Names(q) /\ request[q] \in RequestRecord
         /\ request[q].pc # "new" => request[q].challenge \in Challenges
         /\ request[q].pc \notin Late => request[q].named = None /\ session[q] = "none"
         /\ request[q].pc # "done" => request[q].answer # "success"
         /\ doomed \subseteq Callbacks /\ challenge \in ChallengeStore
  BY RequestType DEF CeremonyInv, Placed, Names, TypeOK

\* A request that goes on to another stage before its session is minted, where
\* it relies on no row.
LEMMA GoesOnKeeps ==
  ASSUME CeremonyInv, CeremonyAssumption, NEW q \in Callbacks, NEW r \in RequestRecord,
         Update(q, r), request[q].pc \notin Late \cup {"new"},
         UNCHANGED <<challenge, durable, sweep, clock, restarts>>,
         doomed' \subseteq Callbacks, doomed \ {q} \subseteq doomed',
         r.challenge = request[q].challenge, r.owner = request[q].owner, r.named = None,
         r.answer # "success", r.pc \notin {"new", "joined", "mapped", "issued"} \cup Acknowledging,
         r.pc \in MappingPc => request[q].pc \in MappingPc,
         r.pc = "mapping" => r.identity \in Identities,
         r.pc \in HandoffPc => handoff[request[q].challenge].state # "none",
         r.pc = "storedHandoff" /\ r.committed => delivery[request[q].challenge].state # "none"
  PROVE  CeremonyInv'
  <1>1. /\ Placed(q) /\ request[q].challenge \in Challenges /\ request[q].named = None
        /\ session[q] = "none"
    BY WhereItIs
  <1>2. Moves(q) /\ request'[q] = r
    BY <1>1, Updates
  <1>3. UNCHANGED <<challenge, callback, handoff, delivery, session>>
    BY DEF durable
  <1>4. Placed(q)'
    BY <1>1, <1>2, <1>3 DEF Placed
  <1>5. SnapshotHolds(q)' /\ Names(q)'
    BY <1>1, <1>2, <1>3 DEF SnapshotHolds, Names
  <1> QED  BY <1>2, <1>4, <1>5, QuietMoves

\* A request that leaves for a stage at which it relies on no row.
LEMMA LeavesKeeps ==
  ASSUME CeremonyInv, CeremonyAssumption, NEW q \in Callbacks,
         NEW pc \in {"settling", "issuing", "numbering", "rejected"},
         Update(q, Left(q, pc)) \/ Update(q, [Left(q, pc) EXCEPT !.now = clock]),
         request[q].pc \notin Late \cup {"new"},
         UNCHANGED <<challenge, durable, sweep, clock, restarts>>,
         doomed' \subseteq Callbacks, doomed \ {q} \subseteq doomed',
         pc \in MappingPc => request[q].pc \in MappingPc,
         pc \in HandoffPc => handoff[request[q].challenge].state # "none"
  PROVE  CeremonyInv'
  <1>1. clock \in Nat /\ request[q].named = None
    BY WhereItIs DEF CeremonyInv, TypeOK
  <1>2. pc \in Running \cup {"new", "done", "dead"}
    BY DEF Running
  <1>3. ASSUME NEW l \in RequestRecord, l = Left(q, pc)
        PROVE  /\ [l EXCEPT !.now = clock] \in RequestRecord
               /\ [l EXCEPT !.now = clock].pc = l.pc
               /\ [l EXCEPT !.now = clock].challenge = l.challenge
               /\ [l EXCEPT !.now = clock].owner = l.owner
               /\ [l EXCEPT !.now = clock].named = l.named
               /\ [l EXCEPT !.now = clock].answer = l.answer
    BY <1>1 DEF RequestRecord
  <1>4. /\ Left(q, pc) \in RequestRecord /\ Left(q, pc).pc = pc
        /\ Left(q, pc).challenge = request[q].challenge
        /\ Left(q, pc).owner = request[q].owner /\ Left(q, pc).named = None
        /\ Left(q, pc).answer = "none"
    BY ZenonT(40), <1>1, <1>2, LeftType
  <1> DEFINE s == [Left(q, pc) EXCEPT !.now = clock]
  <1>5. /\ s \in RequestRecord /\ s.pc = pc /\ s.challenge = request[q].challenge
        /\ s.owner = request[q].owner /\ s.named = None /\ s.answer = "none"
    BY <1>3, <1>4
  <1> HIDE DEF s
  <1>6. CASE Update(q, Left(q, pc))
    BY <1>4, <1>6, GoesOnKeeps DEF Acknowledging
  <1>7. CASE Update(q, s)
    BY <1>5, <1>7, GoesOnKeeps DEF Acknowledging
  <1> QED  BY <1>6, <1>7 DEF s

LEMMA ExchangeKeeps ==
  ASSUME CeremonyInv, CeremonyAssumption, NEW q \in Callbacks, Exchange(q)
  PROVE  CeremonyInv'
  <1>1. /\ request[q].pc = "exchanging" /\ request[q] \in RequestRecord
        /\ request[q].pc \notin Late \cup {"new"}
        /\ request[q].challenge \in Challenges /\ request[q].named = None
        /\ request[q].answer # "success" /\ request[q].pc \in MappingPc
        /\ challenge \in ChallengeStore /\ doomed \subseteq Callbacks
        /\ UNCHANGED <<durable, doomed, sweep, clock, restarts>>
    BY WhereItIs DEF Exchange, Late, Acknowledging, MappingPc
  <1>2. ASSUME NEW i \in Identities,
               Update(q, [request[q] EXCEPT !.pc = "mapping", !.identity = i]),
               UNCHANGED challenge
        PROVE  CeremonyInv'
    <2>1. ASSUME NEW l \in RequestRecord
          PROVE  /\ [l EXCEPT !.pc = "mapping", !.identity = i] \in RequestRecord
                 /\ [l EXCEPT !.pc = "mapping", !.identity = i].pc = "mapping"
                 /\ [l EXCEPT !.pc = "mapping", !.identity = i].identity = i
                 /\ [l EXCEPT !.pc = "mapping", !.identity = i].challenge = l.challenge
                 /\ [l EXCEPT !.pc = "mapping", !.identity = i].owner = l.owner
                 /\ [l EXCEPT !.pc = "mapping", !.identity = i].named = l.named
                 /\ [l EXCEPT !.pc = "mapping", !.identity = i].answer = l.answer
      BY ZenonT(40) DEF RequestRecord, Running
    <2> DEFINE r == [request[q] EXCEPT !.pc = "mapping", !.identity = i]
    <2>2. /\ r \in RequestRecord /\ r.pc = "mapping" /\ r.identity = i
          /\ r.challenge = request[q].challenge /\ r.owner = request[q].owner
          /\ r.named = None /\ r.answer # "success"
      BY <1>1, <2>1
    <2> HIDE DEF r
    <2>3. Update(q, r)
      BY <1>2 DEF r
    <2> QED  BY <1>1, <1>2, <2>2, <2>3, GoesOnKeeps DEF Acknowledging, HandoffPc
  <1>3. ASSUME Answer(q, "refused"),
               challenge' = [challenge EXCEPT ![Ch(q)].status = "terminated"]
        PROVE  CeremonyInv'
    <2>1. challenge' = [challenge EXCEPT ![Ch(q)] =
                           [challenge[Ch(q)] EXCEPT !.status = "terminated"]]
      BY <1>3
    <2>2. /\ challenge' \in ChallengeStore
          /\ \A c \in Challenges :
                /\ challenge'[c].known => challenge[c].known
                /\ \/ challenge'[c].status = challenge[c].status
                   \/ challenge'[c].status \in {"consumed", "terminated"}
      BY <1>1, <2>1 DEF ChallengeStore, Ch
    <2> QED  BY <1>1, <1>3, <2>2, RefusalKeeps DEF Outcomes
  <1> QED  BY <1>2, <1>3 DEF Exchange

\* The snapshot of a mapping shows the binding as it is.
LEMMA MapReadKeeps ==
  ASSUME CeremonyInv, CeremonyAssumption, NEW q \in Callbacks, MapRead(q)
  PROVE  CeremonyInv'
  <1> DEFINE i == request[q].identity
             c == request[q].challenge
  <1>1. /\ request[q].pc = "mapping" /\ request[q] \in RequestRecord
        /\ request[q].pc \notin Late \cup {"new"} /\ Placed(q)
        /\ c \in Challenges /\ request[q].named = None
        /\ request[q].answer # "success" /\ session[q] = "none"
        /\ request[q].pc \in MappingPc /\ i \in Identities
        /\ doomed \subseteq Callbacks
        /\ UNCHANGED <<challenge, durable, doomed, sweep, clock, restarts>>
    BY WhereItIs DEF MapRead, Late, Acknowledging, MappingPc, Placed
  <1>2. /\ binding[i] \in Challenges \cup {None} /\ None \notin Challenges
        /\ UNCHANGED <<binding, callback, handoff, delivery, session>>
    BY <1>1 DEF CeremonyInv, TypeOK, CeremonyAssumption, durable
  <1>3. ASSUME NEW s \in Challenges, NEW plan \in {"create", "reuse", "unavailable"},
               NEW ws \in SUBSET Rows,
               Update(q, [request[q] EXCEPT !.pc = "mapped", !.subject = s, !.plan = plan,
                                            !.writes = ws]),
               \/ /\ plan = "create" /\ s = c /\ ws = {<<"binding", i>>} /\ binding[i] = None
               \/ plan # "create" /\ s = binding[i] /\ binding[i] # None
        PROVE  CeremonyInv'
    <2>1. ASSUME NEW l \in RequestRecord, l = request[q]
          PROVE  LET r == [l EXCEPT !.pc = "mapped", !.subject = s, !.plan = plan, !.writes = ws]
                 IN  /\ r \in RequestRecord /\ r.pc = "mapped" /\ r.subject = s
                     /\ r.plan = plan /\ r.writes = ws
                     /\ r.identity = l.identity /\ r.challenge = l.challenge
                     /\ r.owner = l.owner /\ r.named = l.named /\ r.answer = l.answer
      <3> DEFINE r == [l EXCEPT !.pc = "mapped", !.subject = s, !.plan = plan, !.writes = ws]
      <3>1. r \in RequestRecord
        BY DEF RequestRecord, Running
      <3>2. r.owner = l.owner
        BY DEF RequestRecord
      <3>3. /\ r.pc = "mapped" /\ r.subject = s /\ r.plan = plan /\ r.writes = ws
            /\ r.identity = l.identity /\ r.challenge = l.challenge
        BY DEF RequestRecord
      <3>4. r.named = l.named /\ r.answer = l.answer
        BY DEF RequestRecord
      <3> QED  BY <3>1, <3>2, <3>3, <3>4
    <2> DEFINE r == [request[q] EXCEPT !.pc = "mapped", !.subject = s, !.plan = plan,
                                       !.writes = ws]
    <2>2. /\ r \in RequestRecord /\ r.pc = "mapped" /\ r.subject = s /\ r.plan = plan
          /\ r.writes = ws /\ r.identity = i /\ r.challenge = c
          /\ r.owner = request[q].owner /\ r.named = None /\ r.answer # "success"
      BY <1>1, <2>1
    <2>3. Update(q, r)
      BY <1>3
    <2> HIDE DEF r
    <2>4. Moves(q) /\ request'[q] = r
      BY <1>1, <2>2, <2>3, Updates
    <2>5. Placed(q)'
      BY <1>1, <1>2, <2>2, <2>4 DEF Placed, MappingPc, HandoffPc
    <2>6. SnapshotHolds(q)'
      BY <1>1, <1>2, <1>3, <2>2, <2>4 DEF SnapshotHolds
    <2>7. Names(q)'
      BY <1>1, <1>2, <2>2, <2>4 DEF Names, Acknowledging
    <2> QED  BY <1>1, <2>2, <2>4, <2>5, <2>6, <2>7, QuietMoves
  <1>4. ASSUME binding[i] = None,
               Update(q, [request[q] EXCEPT !.pc = "mapped", !.subject = c, !.plan = "create",
                                            !.writes = {<<"binding", i>>}])
        PROVE  CeremonyInv'
    <2>1. {<<"binding", i>>} \in SUBSET Rows
      BY <1>1 DEF Rows
    <2> QED  BY <1>1, <1>3, <1>4, <2>1
  <1>5. ASSUME binding[i] # None, NEW plan \in {"reuse", "unavailable"},
               Update(q, [request[q] EXCEPT !.pc = "mapped", !.subject = binding[i], !.plan = plan,
                                            !.writes = {}])
        PROVE  CeremonyInv'
    BY <1>2, <1>3, <1>5
  <1>6. CASE Update(q, Left(q, "settling"))
    BY <1>1, <1>6, LeavesKeeps DEF MappingPc, HandoffPc
  <1> QED  BY <1>4, <1>5, <1>6 DEF MapRead, Ch

LEMMA MapConflictKeeps ==
  ASSUME CeremonyInv, CeremonyAssumption, NEW q \in Callbacks, MapConflict(q)
  PROVE  CeremonyInv'
  <1>1. /\ request[q].pc = "mapped" /\ request[q] \in RequestRecord
        /\ request[q].pc \notin Late \cup {"new"} /\ request[q].pc \in MappingPc
        /\ request[q].named = None /\ request[q].answer # "success"
        /\ request[q].identity \in Identities
        /\ UNCHANGED <<challenge, durable, sweep, clock, restarts>>
        /\ doomed' = doomed \ {q} /\ doomed \subseteq Callbacks
        /\ MappingAttempts \in Nat
    BY WhereItIs DEF MapConflict, Late, Acknowledging, MappingPc, Placed, CeremonyAssumption
  <1>2. CASE request[q].attempt < MappingAttempts
    <2> DEFINE r == [[request[q] EXCEPT !.writes = {}] EXCEPT
                        !.pc = "mapping", !.attempt = request[q].attempt + 1]
    <2>1. ASSUME NEW l \in RequestRecord, l = request[q]
          PROVE  LET s == [l EXCEPT !.writes = {}]
                 IN  /\ s \in RequestRecord /\ s.attempt = l.attempt
                     /\ s.identity = l.identity /\ s.challenge = l.challenge
                     /\ s.owner = l.owner /\ s.named = l.named /\ s.answer = l.answer
      BY DEF RequestRecord
    <2>2. ASSUME NEW l \in RequestRecord, NEW n \in 1 .. MappingAttempts
          PROVE  LET s == [l EXCEPT !.pc = "mapping", !.attempt = n]
                 IN  /\ s \in RequestRecord /\ s.pc = "mapping"
                     /\ s.identity = l.identity /\ s.challenge = l.challenge
                     /\ s.owner = l.owner /\ s.named = l.named /\ s.answer = l.answer
      BY ZenonT(40) DEF RequestRecord, Running
    <2>3. request[q].attempt + 1 \in 1 .. MappingAttempts
      BY <1>1, <1>2 DEF RequestRecord
    <2>4. /\ r \in RequestRecord /\ r.pc = "mapping" /\ r.identity = request[q].identity
          /\ r.challenge = request[q].challenge /\ r.owner = request[q].owner
          /\ r.named = None /\ r.answer # "success"
      <3> DEFINE s == [request[q] EXCEPT !.writes = {}]
      <3>1. /\ s \in RequestRecord /\ s.identity = request[q].identity
            /\ s.challenge = request[q].challenge /\ s.owner = request[q].owner
            /\ s.named = None /\ s.answer # "success"
        BY <1>1, <2>1
      <3> HIDE DEF s
      <3>2. LET t == [s EXCEPT !.pc = "mapping", !.attempt = request[q].attempt + 1]
            IN  /\ t \in RequestRecord /\ t.pc = "mapping"
                /\ t.identity = s.identity /\ t.challenge = s.challenge
                /\ t.owner = s.owner /\ t.named = s.named /\ t.answer = s.answer
        BY <2>2, <2>3, <3>1
      <3> QED  BY <3>1, <3>2 DEF s
    <2>5. Update(q, r)
      <3>1. [request[q] EXCEPT !.writes = {}].attempt = request[q].attempt
        BY <1>1, <2>1
      <3> QED  BY <1>2, <3>1 DEF MapConflict
    <2> HIDE DEF r
    <2> QED  BY <1>1, <2>4, <2>5, GoesOnKeeps DEF HandoffPc, Acknowledging
  <1>3. CASE ~(request[q].attempt < MappingAttempts)
    <2>1. [request[q] EXCEPT !.writes = {}].attempt = request[q].attempt
      BY <1>1 DEF RequestRecord
    <2>2. Update(q, Left(q, "settling"))
      BY <1>3, <2>1 DEF MapConflict
    <2> QED  BY <1>1, <2>2, LeavesKeeps DEF MappingPc, HandoffPc
  <1> QED  BY <1>2, <1>3

\* A refusal that leaves the challenge store as it is.
LEMMA PlainRefusalKeeps ==
  ASSUME CeremonyInv, CeremonyAssumption, NEW q \in Callbacks, NEW o \in Outcomes \ {"success"},
         request[q].pc # "new", Answer(q, o),
         UNCHANGED <<challenge, durable, sweep, clock, restarts>>,
         doomed' = doomed \/ doomed' = doomed \ {q}
  PROVE  CeremonyInv'
  <1>1. challenge' \in ChallengeStore /\ doomed' \subseteq Callbacks
    BY DEF CeremonyInv, TypeOK
  <1> QED  BY <1>1, RefusalKeeps

LEMMA MapFailsKeeps ==
  ASSUME CeremonyInv, CeremonyAssumption, NEW q \in Callbacks, MapFails(q)
  PROVE  CeremonyInv'
  BY PlainRefusalKeeps DEF MapFails, Outcomes

LEMMA IssueFailsKeeps ==
  ASSUME CeremonyInv, CeremonyAssumption, NEW q \in Callbacks, IssueFails(q)
  PROVE  CeremonyInv'
  BY PlainRefusalKeeps DEF IssueFails, Outcomes

LEMMA StoredCallbackKeeps ==
  ASSUME CeremonyInv, CeremonyAssumption, NEW q \in Callbacks, StoredCallback(q)
  PROVE  CeremonyInv'
  <1> DEFINE c == request[q].challenge
  <1>1. /\ request[q].pc = "stored" /\ request[q] \in RequestRecord /\ c \in Challenges
        /\ request[q].pc \notin Late \cup {"new"}
        /\ request[q].named = None /\ request[q].answer # "success"
        /\ UNCHANGED <<challenge, durable, doomed, sweep, clock, restarts>>
        /\ callback[c].state \in {"none", "handoff_ready", "terminal"}
        /\ callback[c].committed \in BOOLEAN /\ RowsAgree(c) /\ doomed \subseteq Callbacks
    BY WhereItIs DEF StoredCallback, Late, Acknowledging, CeremonyInv, TypeOK, CallbackTable
  <1>2. CASE callback[c].state = "none"
    <2>1. \/ Answer(q, "still_processing")
          \/ Answer(q, "refused")
      BY <1>2 DEF StoredCallback, Ch
    <2> QED  BY <1>1, <2>1, PlainRefusalKeeps DEF Outcomes
  <1>3. CASE callback[c].state = "terminal"
    <2>1. Answer(q, "refused")
      BY <1>3 DEF StoredCallback, Ch
    <2> QED  BY <1>1, <2>1, PlainRefusalKeeps DEF Outcomes
  <1>4. CASE callback[c].state = "handoff_ready"
    <2>1. ASSUME NEW b, b = callback[c].committed,
                 Update(q, [request[q] EXCEPT !.pc = "storedHandoff", !.committed = b])
          PROVE  CeremonyInv'
      <3> DEFINE r == [request[q] EXCEPT !.pc = "storedHandoff", !.committed = b]
      <3>1. b \in BOOLEAN
        BY <1>1, <2>1
      <3>2. /\ r \in RequestRecord /\ r.pc = "storedHandoff" /\ r.committed = b
            /\ r.challenge = c /\ r.owner = request[q].owner
            /\ r.named = None /\ r.answer # "success"
        <4>0. ASSUME NEW l \in RequestRecord, NEW d \in BOOLEAN
              PROVE  [l EXCEPT !.pc = "storedHandoff", !.committed = d] \in RequestRecord
          BY DEF RequestRecord, Running
        <4>1. r \in RequestRecord
          BY <1>1, <3>1, <4>0, Zenon
        <4>2. r.committed = b
          BY <1>1, <3>1 DEF RequestRecord
        <4>3. r.owner = request[q].owner
          BY <1>1 DEF RequestRecord
        <4>4. r.pc = "storedHandoff" /\ r.challenge = c
          BY <1>1 DEF RequestRecord
        <4>5. r.named = None /\ r.answer # "success"
          BY <1>1 DEF RequestRecord
        <4> QED  BY <4>1, <4>2, <4>3, <4>4, <4>5
      <3>3. Update(q, r)
        BY <2>1
      <3> HIDE DEF r
      <3>4. handoff[c].state # "none" /\ (r.committed => delivery[c].state # "none")
        BY <1>1, <1>4, <2>1, <3>2 DEF RowsAgree
      <3> QED  BY <1>1, <3>2, <3>3, <3>4, GoesOnKeeps DEF Acknowledging, MappingPc
    <2>2. Update(q, [request[q] EXCEPT !.pc = "storedHandoff",
                                       !.committed = callback[c].committed])
      BY <1>4 DEF StoredCallback, Ch
    <2> QED  BY <2>1, <2>2
  <1> QED  BY <1>1, <1>2, <1>3, <1>4

\* A success that is told again names the session of the delivery.
LEMMA StoredHandoffKeeps ==
  ASSUME CeremonyInv, CeremonyAssumption, NEW q \in Callbacks, StoredHandoff(q)
  PROVE  CeremonyInv'
  <1> DEFINE c == request[q].challenge
  <1>1. /\ request[q].pc = "storedHandoff" /\ request[q] \in RequestRecord /\ c \in Challenges
        /\ request[q].pc \notin Late \cup {"new"} /\ Placed(q)
        /\ request[q].named = None /\ request[q].answer # "success" /\ session[q] = "none"
        /\ UNCHANGED <<challenge, durable, doomed, sweep, clock, restarts>>
        /\ handoff[c].state # "none"
        /\ request[q].committed \in BOOLEAN
        /\ request[q].committed => delivery[c].state # "none"
        /\ handoff[c].state \in {"none", "prepared", "consumed", "terminal_failed"}
        /\ RowsAgree(c) /\ doomed \subseteq Callbacks
    BY WhereItIs
    DEF StoredHandoff, Late, Acknowledging, CeremonyInv, TypeOK, HandoffTable, Placed, HandoffPc,
        Names, RequestRecord
  <1>2. CASE handoff[c].state = "terminal_failed"
    <2>1. Answer(q, "refused")
      BY <1>2 DEF StoredHandoff, Ch
    <2> QED  BY <1>1, <2>1, PlainRefusalKeeps DEF Outcomes
  <1>3. CASE handoff[c].state = "consumed" /\ request[q].committed
    <2> DEFINE r == [Answered(q, "success") EXCEPT !.named = delivery[c].session]
    <2>1. delivery[c].state # "none" /\ delivery[c].session \in Callbacks
      BY <1>1, <1>3 DEF RowsAgree
    <2>2. ASSUME NEW l \in RequestRecord, NEW n \in Callbacks
          PROVE  LET s == [l EXCEPT !.named = n]
                 IN  /\ s \in RequestRecord /\ s.named = n /\ s.pc = l.pc
                     /\ s.challenge = l.challenge /\ s.owner = l.owner /\ s.answer = l.answer
      BY DEF RequestRecord
    <2>3. /\ Answered(q, "success") \in RequestRecord /\ Answered(q, "success").pc = "done"
          /\ Answered(q, "success").challenge = c
          /\ Answered(q, "success").owner = request[q].owner
          /\ Answered(q, "success").answer = "success"
      BY AnsweredType DEF Outcomes
    <2>4. /\ r \in RequestRecord /\ r.pc = "done" /\ r.challenge = c
          /\ r.owner = request[q].owner /\ r.named = delivery[c].session /\ r.answer = "success"
      BY <2>1, <2>2, <2>3
    <2>5. Update(q, r)
      BY <1>3 DEF StoredHandoff, Ch
    <2> HIDE DEF r
    <2>6. Moves(q) /\ request'[q] = r
      BY <1>1, <2>4, <2>5, Updates
    <2>7. Placed(q)' /\ SnapshotHolds(q)' /\ Names(q)'
      BY <1>1, <2>1, <2>4, <2>6
      DEF Placed, SnapshotHolds, Names, MappingPc, HandoffPc, Late, Acknowledging, durable
    <2> QED  BY <1>1, <2>4, <2>6, <2>7, QuietMoves
  <1>4. CASE handoff[c].state = "consumed" /\ ~request[q].committed
    <2>1. Update(q, [Left(q, "issuing") EXCEPT !.now = clock])
      BY <1>4 DEF StoredHandoff, Ch
    <2> QED  BY <1>1, <2>1, LeavesKeeps DEF MappingPc
  <1>5. CASE handoff[c].state = "prepared"
    <2>1. Update(q, [Left(q, "numbering") EXCEPT !.now = clock])
      BY <1>5 DEF StoredHandoff, Ch
    <2> QED  BY <1>1, <2>1, LeavesKeeps DEF MappingPc
  <1> QED  BY <1>1, <1>2, <1>3, <1>4, <1>5

LEMMA NumberAttemptKeeps ==
  ASSUME CeremonyInv, CeremonyAssumption, NEW q \in Callbacks, NumberAttempt(q)
  PROVE  CeremonyInv'
  <1>1. /\ request[q].pc = "numbering" /\ request[q] \in RequestRecord
        /\ request[q].pc \notin Late \cup {"new"}
        /\ request[q].named = None /\ request[q].answer # "success"
        /\ handoff[request[q].challenge].state # "none"
        /\ UNCHANGED <<challenge, durable, sweep, clock, restarts>>
        /\ doomed \subseteq Callbacks
    BY WhereItIs DEF NumberAttempt, Late, Acknowledging, Placed, HandoffPc
  <1>2. doomed' \subseteq Callbacks /\ doomed \ {q} \subseteq doomed'
    BY <1>1 DEF NumberAttempt, Publish
  <1> DEFINE r == [request[q] EXCEPT !.pc = "issuing"]
  <1>3. /\ r \in RequestRecord /\ r.pc = "issuing" /\ r.challenge = request[q].challenge
        /\ r.owner = request[q].owner /\ r.named = None /\ r.answer # "success"
    BY <1>1 DEF RequestRecord, Running
  <1>4. Update(q, r)
    BY DEF NumberAttempt
  <1> HIDE DEF r
  <1> QED  BY <1>1, <1>2, <1>3, <1>4, GoesOnKeeps DEF Acknowledging, MappingPc

\* The rows that end a hand-off are among those that transactions may write.
LEMMA OpenRowsType == ASSUME NEW c \in Challenges PROVE OpenRows(c) \subseteq Rows
  BY DEF OpenRows, Rows

\* The snapshot of an issuing transaction shows the delivery as it is.
LEMMA IssueReadKeeps ==
  ASSUME CeremonyInv, CeremonyAssumption, NEW q \in Callbacks, IssueRead(q)
  PROVE  CeremonyInv'
  <1> DEFINE c == request[q].challenge
  <1>1. /\ request[q].pc = "issuing" /\ request[q] \in RequestRecord
        /\ request[q].pc \notin Late \cup {"new"} /\ Placed(q)
        /\ c \in Challenges /\ request[q].named = None
        /\ request[q].answer # "success" /\ session[q] = "none"
        /\ handoff[c].state # "none" /\ RowsAgree(c)
        /\ doomed \subseteq Callbacks
        /\ UNCHANGED <<challenge, durable, doomed, sweep, clock, restarts>>
    BY WhereItIs DEF IssueRead, Late, Acknowledging, HandoffPc, Placed, CeremonyInv
  <1>2. handoff[c].subject \in Challenges
    BY <1>1 DEF RowsAgree
  <1>3. ASSUME NEW plan \in {"mint", "replay"}, NEW ws \in SUBSET Rows,
               Update(q, [request[q] EXCEPT !.pc = "issued", !.plan = plan, !.writes = ws]),
               \/ plan = "mint" /\ <<"delivery", c>> \in ws /\ delivery[c].state = "none"
               \/ plan = "replay" /\ delivery[c].state # "none"
        PROVE  CeremonyInv'
    <2>1. ASSUME NEW l \in RequestRecord
          PROVE  LET s == [l EXCEPT !.pc = "issued", !.plan = plan, !.writes = ws]
                 IN  /\ s \in RequestRecord /\ s.pc = "issued" /\ s.plan = plan /\ s.writes = ws
                     /\ s.challenge = l.challenge
                     /\ s.owner = l.owner /\ s.named = l.named /\ s.answer = l.answer
      <3> DEFINE s == [l EXCEPT !.pc = "issued", !.plan = plan, !.writes = ws]
      <3>1. s \in RequestRecord
        BY DEF RequestRecord, Running
      <3>2. s.owner = l.owner
        BY DEF RequestRecord
      <3>3. s.pc = "issued" /\ s.plan = plan /\ s.writes = ws
        BY DEF RequestRecord
      <3>4. s.challenge = l.challenge /\ s.named = l.named /\ s.answer = l.answer
        BY DEF RequestRecord
      <3> QED  BY <3>1, <3>2, <3>3, <3>4
    <2> DEFINE r == [request[q] EXCEPT !.pc = "issued", !.plan = plan, !.writes = ws]
    <2>2. /\ r \in RequestRecord /\ r.pc = "issued" /\ r.plan = plan /\ r.writes = ws
          /\ r.challenge = c /\ r.owner = request[q].owner
          /\ r.named = None /\ r.answer # "success"
      BY <1>1, <2>1
    <2>3. Update(q, r)
      BY <1>3
    <2> HIDE DEF r
    <2>4. Moves(q) /\ request'[q] = r
      BY <1>1, <2>2, <2>3, Updates
    <2>5. UNCHANGED <<handoff, delivery, session>>
      BY <1>1 DEF durable
    <2>6. Placed(q)'
      BY <1>1, <2>2, <2>4, <2>5 DEF Placed, MappingPc
    <2>7. SnapshotHolds(q)'
      BY <1>3, <2>2, <2>4, <2>5 DEF SnapshotHolds
    <2>8. Names(q)'
      BY <1>1, <2>2, <2>4, <2>5 DEF Names, Acknowledging
    <2> QED  BY <1>1, <2>2, <2>4, <2>6, <2>7, <2>8, QuietMoves
  <1>4. CASE delivery[c].state = "sealed" /\ clock < handoff[c].expires
    <2>1. {} \cup OpenRows(c) \in SUBSET Rows
      BY <1>1, OpenRowsType
    <2>2. Update(q, [request[q] EXCEPT !.pc = "issued", !.plan = "replay",
                                       !.writes = {} \cup OpenRows(c)])
      BY <1>4 DEF IssueRead, Ch
    <2> QED  BY <1>3, <1>4, <2>1, <2>2
  <1>5. CASE /\ delivery[c].state = "none"
             /\ request[q].now < handoff[c].expires
             /\ handoff[c].subject \notin closed
    <2> DEFINE ws == {<<"authority", handoff[c].subject>>, <<"delivery", c>>} \cup OpenRows(c)
    <2>1. ws \in SUBSET Rows /\ <<"delivery", c>> \in ws
      BY <1>1, <1>2, OpenRowsType DEF Rows
    <2>2. Update(q, [request[q] EXCEPT !.pc = "issued", !.plan = "mint", !.writes = ws])
      BY <1>5 DEF IssueRead, Ch
    <2> HIDE DEF ws
    <2> QED  BY <1>3, <1>5, <2>1, <2>2
  <1>6. CASE Update(q, Left(q, "rejected"))
    BY <1>1, <1>6, LeavesKeeps DEF MappingPc
  <1>7. \/ delivery[c].state = "sealed" /\ clock < handoff[c].expires
        \/ /\ delivery[c].state = "none"
           /\ request[q].now < handoff[c].expires
           /\ handoff[c].subject \notin closed
        \/ Update(q, Left(q, "rejected"))
    BY DEF IssueRead, Ch
  <1> QED  BY <1>4, <1>5, <1>6, <1>7

\* The answer that sets the cookie names the session of the delivery.
LEMMA AnswerFirstKeeps ==
  ASSUME CeremonyInv, CeremonyAssumption, NEW q \in Callbacks, AnswerFirst(q)
  PROVE  CeremonyInv'
  <1> DEFINE c == request[q].challenge
             r == [Answered(q, "success") EXCEPT !.cookie = TRUE]
  <1>1. /\ request[q].pc = "answering" /\ c \in Challenges /\ Placed(q)
        /\ delivery[c].state # "none" /\ request[q].named = delivery[c].session
        /\ doomed \subseteq Callbacks
        /\ UNCHANGED <<challenge, durable, doomed, sweep, clock, restarts>>
    BY WhereItIs DEF AnswerFirst, Acknowledging, Names
  <1>2. ASSUME NEW l \in RequestRecord
        PROVE  LET s == [l EXCEPT !.cookie = TRUE]
               IN  /\ s \in RequestRecord /\ s.named = l.named /\ s.pc = l.pc
                   /\ s.challenge = l.challenge /\ s.owner = l.owner /\ s.answer = l.answer
    BY DEF RequestRecord
  <1>3. /\ Answered(q, "success") \in RequestRecord /\ Answered(q, "success").pc = "done"
        /\ Answered(q, "success").challenge = c
        /\ Answered(q, "success").owner = request[q].owner
        /\ Answered(q, "success").named = request[q].named
        /\ Answered(q, "success").answer = "success"
    BY AnsweredType DEF Outcomes
  <1>4. /\ r \in RequestRecord /\ r.pc = "done" /\ r.challenge = c
        /\ r.owner = request[q].owner /\ r.named = request[q].named /\ r.answer = "success"
    BY <1>2, <1>3
  <1>5. Update(q, r)
    BY DEF AnswerFirst
  <1> HIDE DEF r
  <1>6. Moves(q) /\ request'[q] = r
    BY <1>4, <1>5, Updates
  <1>7. Placed(q)' /\ SnapshotHolds(q)' /\ Names(q)'
    BY <1>1, <1>4, <1>6
    DEF Placed, SnapshotHolds, Names, MappingPc, HandoffPc, Late, Acknowledging, durable
  <1> QED  BY <1>1, <1>4, <1>6, <1>7, QuietMoves

-----------------------------------------------------------------------------
(***************************************************************************)
(* The steps that write rows.                                              *)
(***************************************************************************)
\* A commit dooms the other open transactions that write one of its rows.
LEMMA Publishing ==
  ASSUME doomed \subseteq Callbacks, NEW q, NEW rows, Publish(q, rows)
  PROVE  /\ doomed' \subseteq Callbacks
         /\ \A p \in Callbacks : p # q =>
               /\ p \in doomed => p \in doomed'
               /\ request[p].pc \in InTxn /\ rows \cap request[p].writes # {} => p \in doomed'
  BY DEF Publish

\* A request that answers keeps what it has but its stage.
LEMMA AnswerMoves ==
  ASSUME CeremonyInv, CeremonyAssumption, NEW q \in Callbacks, NEW o \in Outcomes, Answer(q, o)
  PROVE  /\ Moves(q) /\ request'[q].pc = "done" /\ request'[q].answer = o
         /\ request'[q].challenge = request[q].challenge
         /\ request'[q].owner = request[q].owner /\ request'[q].named = request[q].named
  <1>1. /\ Answered(q, o) \in RequestRecord /\ Answered(q, o).pc = "done"
        /\ Answered(q, o).challenge = request[q].challenge
        /\ Answered(q, o).owner = request[q].owner
        /\ Answered(q, o).named = request[q].named /\ Answered(q, o).answer = o
    BY AnsweredType
  <1>2. Moves(q) /\ request'[q] = Answered(q, o)
    BY <1>1, Updates DEF Answer
  <1> QED  BY <1>1, <1>2

\* So does one that leaves for the issuing stage.
LEMMA IssuingMoves ==
  ASSUME CeremonyInv, CeremonyAssumption, NEW q \in Callbacks,
         Update(q, [Left(q, "issuing") EXCEPT !.now = clock])
  PROVE  /\ Moves(q) /\ request'[q].pc = "issuing" /\ request'[q].answer # "success"
         /\ request'[q].challenge = request[q].challenge
         /\ request'[q].owner = request[q].owner /\ request'[q].named = request[q].named
  <1>1. clock \in Nat
    BY DEF CeremonyInv, TypeOK
  <1>2. "issuing" \in Running
    BY DEF Running
  <1>3. ASSUME NEW l \in RequestRecord
        PROVE  LET s == [l EXCEPT !.now = clock]
               IN  /\ s \in RequestRecord /\ s.pc = l.pc /\ s.challenge = l.challenge
                   /\ s.owner = l.owner /\ s.named = l.named /\ s.answer = l.answer
    BY <1>1 DEF RequestRecord
  <1>4. /\ Left(q, "issuing") \in RequestRecord /\ Left(q, "issuing").pc = "issuing"
        /\ Left(q, "issuing").challenge = request[q].challenge
        /\ Left(q, "issuing").owner = request[q].owner
        /\ Left(q, "issuing").named = request[q].named /\ Left(q, "issuing").answer = "none"
    BY <1>2, LeftType
  <1> DEFINE r == [Left(q, "issuing") EXCEPT !.now = clock]
  <1>5. /\ r \in RequestRecord /\ r.pc = "issuing" /\ r.challenge = request[q].challenge
        /\ r.owner = request[q].owner /\ r.named = request[q].named /\ r.answer = "none"
    BY <1>3, <1>4
  <1> HIDE DEF r
  <1>6. Update(q, r)
    BY DEF r
  <1>7. Moves(q) /\ request'[q] = r
    BY <1>5, <1>6, Updates
  <1> QED  BY <1>5, <1>7

\* The requests that keep to their challenges have no second owner.
LEMMA OwnersKeep ==
  ASSUME CeremonyInv, CeremonyAssumption,
         \A p \in Callbacks :
            /\ request'[p].owner => request[p].owner
            /\ request[p].challenge # None => request'[p].challenge = request[p].challenge
  PROVE  OneOwner'
  <1>1. \A p \in Callbacks : request[p].owner => request[p].challenge # None
    BY WhereItIs DEF Placed, CeremonyAssumption
  <1> QED  BY <1>1 DEF CeremonyInv, OneOwner, Ch

\* A step that touches no session and no delivery keeps what is told of them.
LEMMA OutcomesKeep ==
  ASSUME CeremonyInv, CeremonyAssumption, UNCHANGED <<delivery, session, sweep>>,
         \A p \in Callbacks :
            /\ request[p].challenge # None => request'[p].challenge = request[p].challenge
            /\ request[p].named # None => request'[p].named = request[p].named
  PROVE  MintedOnce' /\ OwnDelivery' /\ SweepInv' /\ NoOrphanSession'
  <1>1. \A p \in Callbacks : session[p] # "none" => request[p].challenge # None
    BY DEF CeremonyInv, Names, Placed, Late, Acknowledging, CeremonyAssumption
  <1>2. \A c \in Challenges : delivery[c].state # "none" =>
           delivery[c].session \in Callbacks /\ session[delivery[c].session] # "none"
    BY DEF CeremonyInv, RowsAgree
  <1>3. MintedOnce' /\ OwnDelivery'
    BY <1>1, <1>2 DEF CeremonyInv, MintedOnce, OwnDelivery, Ch
  <1>4. SweepInv'
    BY DEF CeremonyInv, SweepInv
  <1>5. NoOrphanSession'
    <2>1. \A c \in Challenges : delivery[c].state = "erased" => delivery[c].session # None
      BY <1>2 DEF CeremonyAssumption
    <2> QED  BY <2>1 DEF CeremonyInv, NoOrphanSession
  <1> QED  BY <1>3, <1>4, <1>5

\* A step of one request that writes rows of its challenge, but no session and
\* no delivery.
LEMMA RowsMove ==
  ASSUME CeremonyInv, CeremonyAssumption, TypeOK', Grows, NEW q \in Callbacks, Moves(q),
         UNCHANGED <<challenge, delivery, session, sweep>>,
         request'[q].owner => request[q].owner,
         \A p \in Callbacks \ {q} :
            /\ request[p].pc \in MappingPc => callback'[Ch(p)].state = callback[Ch(p)].state
            /\ p \in doomed => p \in doomed'
            /\ request[p].pc = "mapped" /\ <<"binding", request[p].identity>> \in request[p].writes =>
                  p \in doomed' \/ binding'[request[p].identity] = binding[request[p].identity],
         Placed(q)', SnapshotHolds(q)', Names(q)',
         \A c \in Challenges : RowsAgree(c)'
  PROVE  CeremonyInv'
  <1>1. \A p \in Callbacks :
           /\ request[p].challenge # None => request'[p].challenge = request[p].challenge
           /\ request[p].named # None => request'[p].named = request[p].named
           /\ request'[p].owner => request[p].owner
    BY DEF Moves
  <1>2. StoreInv'
    BY DEF CeremonyInv, StoreInv, Known
  <1>3. OneOwner'
    BY <1>1, OwnersKeep
  <1>4. MintedOnce' /\ OwnDelivery' /\ SweepInv' /\ NoOrphanSession'
    BY <1>1, OutcomesKeep
  <1>5. ASSUME NEW p \in Callbacks PROVE Placed(p)' /\ SnapshotHolds(p)' /\ Names(p)'
    <2>1. CASE p = q
      BY <2>1
    <2>2. CASE p # q
      <3>1. LeftAlone(p)
        BY <2>2 DEF LeftAlone, Moves
      <3> QED  BY <1>1, <3>1, LeftAloneKeeps
    <2> QED  BY <2>1, <2>2
  <1> QED  BY <1>2, <1>3, <1>4, <1>5 DEF CeremonyInv

\* Only the owner of a challenge maps it, so no other request minds its rows.
LEMMA OnlyOwnerMaps ==
  ASSUME CeremonyInv, CeremonyAssumption, NEW q \in Callbacks, request[q].pc \in MappingPc
  PROVE  \A p \in Callbacks \ {q} :
            request[p].pc \in MappingPc => Ch(p) # Ch(q) /\ Ch(p) \in Challenges
  <1>1. \A p \in Callbacks :
           request[p].pc \in MappingPc => request[p].owner /\ request[p].pc # "new"
    BY DEF CeremonyInv, Placed, MappingPc
  <1> QED  BY <1>1, WhereItIs DEF CeremonyInv, OneOwner, Ch

\* A mapping that nobody doomed gives its identity the subject it read, or the
\* one that it creates.
LEMMA MapCommitKeeps ==
  ASSUME CeremonyInv, CeremonyAssumption, NEW q \in Callbacks, NEW told \in BOOLEAN,
         MapCommit(q, told)
  PROVE  CeremonyInv'
  <1> DEFINE c == request[q].challenge
             i == request[q].identity
             s == request[q].subject
  <1>1. /\ request[q].pc = "mapped" /\ request[q] \in RequestRecord /\ q \notin doomed
        /\ c \in Challenges /\ i \in Identities /\ s \in Challenges \cup {None}
        /\ request[q].named = None /\ session[q] = "none" /\ request[q].pc \in MappingPc
        /\ Placed(q) /\ SnapshotHolds(q) /\ RowsAgree(c)
        /\ callback[c].state = "none" /\ handoff[c].state = "none"
        /\ challenge[c].status \in {"consumed", "terminated"}
        /\ UNCHANGED <<challenge, closed, delivery, session, sweep, clock, restarts>>
        /\ Publish(q, request[q].writes)
    BY WhereItIs
    DEF MapCommit, Late, Acknowledging, MappingPc, Placed, CeremonyInv, RowsAgree, RequestRecord
  <1>2. /\ binding \in [Identities -> Challenges \cup {None}]
        /\ callback \in CallbackTable /\ handoff \in HandoffTable
        /\ clock \in Nat /\ HandoffLifetime \in Nat /\ None \notin Challenges
        /\ doomed \subseteq Callbacks
    BY DEF CeremonyInv, TypeOK, CeremonyAssumption
  <1>3. /\ doomed' \subseteq Callbacks
        /\ \A p \in Callbacks \ {q} :
              /\ p \in doomed => p \in doomed'
              /\ (request[p].pc \in InTxn /\ request[q].writes \cap request[p].writes # {}) =>
                    p \in doomed'
    BY <1>1, <1>2 DEF Publish
  <1>4. \A p \in Callbacks \ {q} :
            request[p].pc \in MappingPc => Ch(p) # c /\ Ch(p) \in Challenges
    BY <1>1, OnlyOwnerMaps DEF Ch
  <1>5. CASE request[q].plan = "unavailable"
    <2>1. /\ callback' = [callback EXCEPT ![c] = [state |-> "terminal", committed |-> FALSE]]
          /\ Answer(q, "refused") /\ UNCHANGED <<binding, handoff>>
      BY <1>5 DEF MapCommit, Ch
    <2>2. /\ Moves(q) /\ request'[q].pc = "done" /\ request'[q].answer = "refused"
          /\ request'[q].challenge = c
          /\ request'[q].owner = request[q].owner /\ request'[q].named = None
      BY <1>1, <2>1, AnswerMoves DEF Outcomes
    <2>3. callback' \in CallbackTable
      BY <1>1, <1>2, <2>1 DEF CallbackTable
    <2>4. TypeOK'
      BY <1>1, <1>3, <2>1, <2>2, <2>3, RequestTableType DEF CeremonyInv, TypeOK, Moves
    <2>5. Grows
      BY <1>1, <2>1 DEF Grows
    <2>6. Placed(q)' /\ SnapshotHolds(q)' /\ Names(q)'
      BY <1>1, <2>2
      DEF Placed, SnapshotHolds, Names, MappingPc, HandoffPc, Late, Acknowledging
    <2>7. ASSUME NEW d \in Challenges PROVE RowsAgree(d)'
      <3>1. RowsAgree(d)
        BY DEF CeremonyInv
      <3> QED  BY <1>1, <1>2, <2>1, <3>1 DEF RowsAgree, CallbackTable
    <2>8. \A p \in Callbacks \ {q} :
             request[p].pc \in MappingPc => callback'[Ch(p)].state = callback[Ch(p)].state
      BY <1>2, <1>4, <2>1 DEF CallbackTable
    <2> QED  BY <1>1, <1>3, <2>1, <2>2, <2>4, <2>5, <2>6, <2>7, <2>8, RowsMove
  <1>6. CASE request[q].plan # "unavailable"
    <2>1. /\ binding' = [binding EXCEPT ![i] = s]
          /\ callback' = [callback EXCEPT ![c] = [callback[c] EXCEPT !.state = "handoff_ready"]]
          /\ handoff' = [handoff EXCEPT ![c] =
                           [state |-> "prepared", identity |-> i,
                            subject |-> s, expires |-> clock + HandoffLifetime]]
          /\ Update(q, [Left(q, "issuing") EXCEPT !.now = clock]) \/ Answer(q, "refused")
      BY <1>6 DEF MapCommit, Ch
    <2>2. /\ Moves(q) /\ request'[q].pc \in {"issuing", "done"} /\ request'[q].answer # "success"
          /\ request'[q].challenge = c
          /\ request'[q].owner = request[q].owner /\ request'[q].named = None
      <3>1. CASE Update(q, [Left(q, "issuing") EXCEPT !.now = clock])
        BY <1>1, <3>1, IssuingMoves
      <3>2. CASE Answer(q, "refused")
        BY <1>1, <3>2, AnswerMoves DEF Outcomes
      <3> QED  BY <2>1, <3>1, <3>2
    <2>3. /\ s \in Challenges
          /\ \/ binding[i] = None /\ <<"binding", i>> \in request[q].writes
             \/ binding[i] = s
      BY <1>1, <1>2, <1>6 DEF SnapshotHolds
    <2>4. callback' \in CallbackTable /\ callback'[c].state = "handoff_ready"
          /\ callback'[c].committed = callback[c].committed
          /\ \A d \in Challenges \ {c} : callback'[d] = callback[d]
      BY <1>1, <1>2, <2>1 DEF CallbackTable
    <2>5. handoff' \in HandoffTable /\ handoff'[c].state # "none"
          /\ handoff'[c].identity = i /\ handoff'[c].subject = s
          /\ \A d \in Challenges \ {c} : handoff'[d] = handoff[d]
      BY <1>1, <1>2, <2>1, <2>3 DEF HandoffTable
    <2>6. binding' \in [Identities -> Challenges \cup {None}] /\ binding'[i] = s
          /\ \A j \in Identities : binding[j] # None => binding'[j] = binding[j]
      BY <1>1, <1>2, <2>1, <2>3
    <2>7. TypeOK'
      BY <1>1, <1>3, <2>2, <2>4, <2>5, <2>6, RequestTableType DEF CeremonyInv, TypeOK, Moves
    <2>8. Grows
      BY <1>1, <2>5, <2>6 DEF Grows
    <2>9. Placed(q)' /\ SnapshotHolds(q)' /\ Names(q)'
      BY <1>1, <2>2, <2>5
      DEF Placed, SnapshotHolds, Names, MappingPc, HandoffPc, Late, Acknowledging
    <2>10. ASSUME NEW d \in Challenges PROVE RowsAgree(d)'
      <3>1. RowsAgree(d)
        BY DEF CeremonyInv
      <3>2. CASE d = c
        BY <1>1, <2>3, <2>4, <2>5, <2>6, <3>1, <3>2 DEF RowsAgree
      <3>3. CASE d # c
        <4>1. callback'[d] = callback[d] /\ handoff'[d] = handoff[d]
          BY <2>4, <2>5, <3>3
        <4> QED  BY <1>1, <1>2, <2>6, <3>1, <4>1 DEF RowsAgree
      <3> QED  BY <3>2, <3>3
    <2>11. ASSUME NEW p \in Callbacks \ {q}
           PROVE  /\ request[p].pc \in MappingPc => callback'[Ch(p)].state = callback[Ch(p)].state
                  /\ request[p].pc = "mapped"
                     /\ <<"binding", request[p].identity>> \in request[p].writes =>
                        \/ p \in doomed'
                        \/ binding'[request[p].identity] = binding[request[p].identity]
      <3>1. request[p].pc \in MappingPc => callback'[Ch(p)].state = callback[Ch(p)].state
        BY <1>4, <2>4
      <3>2. ASSUME request[p].pc = "mapped",
                   <<"binding", request[p].identity>> \in request[p].writes
            PROVE  \/ p \in doomed'
                   \/ binding'[request[p].identity] = binding[request[p].identity]
        <4>1. request[p].identity \in Identities
          BY <3>2, WhereItIs DEF Placed
        <4>2. CASE request[p].identity = i /\ <<"binding", i>> \in request[q].writes
          BY <1>3, <3>2, <4>2 DEF InTxn
        <4>3. CASE request[p].identity # i \/ binding[i] = s
          BY <1>1, <1>2, <2>1, <4>1, <4>3
        <4> QED  BY <2>3, <4>2, <4>3
      <3> QED  BY <3>1, <3>2
    <2> QED  BY <1>1, <1>3, <2>2, <2>7, <2>8, <2>9, <2>10, <2>11, RowsMove
  <1> QED  BY <1>5, <1>6

LEMMA SettleKeeps ==
  ASSUME CeremonyInv, CeremonyAssumption, NEW q \in Callbacks, Settle(q)
  PROVE  CeremonyInv'
  <1> DEFINE c == request[q].challenge
  <1>1. /\ request[q].pc = "settling" /\ c \in Challenges
        /\ request[q].named = None /\ session[q] = "none" /\ request[q].pc \in MappingPc
        /\ Placed(q) /\ RowsAgree(c) /\ callback[c].state = "none" /\ handoff[c].state = "none"
        /\ challenge[c].status \in {"consumed", "terminated"}
        /\ UNCHANGED <<challenge, binding, closed, handoff, delivery, session, doomed, sweep,
                       clock, restarts>>
    BY WhereItIs DEF Settle, Late, Acknowledging, MappingPc, Placed, CeremonyInv, RowsAgree
  <1>2. callback \in CallbackTable /\ doomed \subseteq Callbacks
    BY DEF CeremonyInv, TypeOK
  <1>3. CASE UNCHANGED callback /\ \E o \in {"still_processing", "refused"} : Answer(q, o)
    <2>1. UNCHANGED durable
      BY <1>1, <1>3 DEF durable
    <2> QED  BY <1>1, <1>3, <2>1, PlainRefusalKeeps DEF Outcomes
  <1>4. CASE /\ callback' = [callback EXCEPT ![Ch(q)] = [state |-> "terminal", committed |-> FALSE]]
             /\ Answer(q, "refused")
    <2>1. callback' = [callback EXCEPT ![c] = [state |-> "terminal", committed |-> FALSE]]
      BY <1>4 DEF Ch
    <2>2. /\ Moves(q) /\ request'[q].pc = "done" /\ request'[q].answer = "refused"
          /\ request'[q].challenge = c
          /\ request'[q].owner = request[q].owner /\ request'[q].named = None
      BY <1>1, <1>4, AnswerMoves DEF Outcomes
    <2>3. callback' \in CallbackTable
      BY <1>1, <1>2, <2>1 DEF CallbackTable
    <2>4. TypeOK'
      BY <1>1, <2>2, <2>3, RequestTableType DEF CeremonyInv, TypeOK, Moves
    <2>5. Grows
      BY <1>1 DEF Grows
    <2>6. Placed(q)' /\ SnapshotHolds(q)' /\ Names(q)'
      BY <1>1, <2>2
      DEF Placed, SnapshotHolds, Names, MappingPc, HandoffPc, Late, Acknowledging
    <2>7. ASSUME NEW d \in Challenges PROVE RowsAgree(d)'
      <3>1. RowsAgree(d)
        BY DEF CeremonyInv
      <3> QED  BY <1>1, <1>2, <2>1, <3>1 DEF RowsAgree, CallbackTable
    <2>8. \A p \in Callbacks \ {q} :
             request[p].pc \in MappingPc => Ch(p) # c /\ Ch(p) \in Challenges
      BY <1>1, OnlyOwnerMaps DEF Ch
    <2>9. \A p \in Callbacks \ {q} :
             request[p].pc \in MappingPc => callback'[Ch(p)].state = callback[Ch(p)].state
      BY <1>2, <2>1, <2>8 DEF CallbackTable
    <2> QED  BY <1>1, <2>2, <2>4, <2>5, <2>6, <2>7, <2>9, RowsMove
  <1> QED  BY <1>3, <1>4 DEF Settle

\* A rejection ends open rows only, so no mapping loses its absent row.
LEMMA RejectKeeps ==
  ASSUME CeremonyInv, CeremonyAssumption, NEW q \in Callbacks, Reject(q)
  PROVE  CeremonyInv'
  <1> DEFINE c == request[q].challenge
  <1>1. /\ request[q].pc = "rejected" /\ c \in Challenges
        /\ request[q].named = None /\ session[q] = "none"
        /\ Placed(q) /\ RowsAgree(c) /\ Answer(q, "refused")
        /\ UNCHANGED <<challenge, binding, closed, delivery, session, sweep, clock, restarts>>
    BY WhereItIs DEF Reject, Late, Acknowledging, CeremonyInv
  <1>2. callback \in CallbackTable /\ handoff \in HandoffTable /\ doomed \subseteq Callbacks
    BY DEF CeremonyInv, TypeOK
  <1>3. CASE UNCHANGED <<handoff, callback, doomed>>
    <2>1. UNCHANGED durable
      BY <1>1, <1>3 DEF durable
    <2> QED  BY <1>1, <1>3, <2>1, PlainRefusalKeeps DEF Outcomes
  <1>4. CASE ~UNCHANGED <<handoff, callback, doomed>>
    <2>1. /\ \/ handoff' = [handoff EXCEPT ![c] = [handoff[c] EXCEPT !.state = "terminal_failed"]]
                /\ handoff[c].state = "prepared"
             \/ handoff' = handoff
          /\ \/ callback' = [callback EXCEPT ![c] = [state |-> "terminal", committed |-> TRUE]]
                /\ callback[c].state = "handoff_ready"
             \/ callback' = callback
          /\ Publish(q, OpenRows(c))
      <3>1. /\ <<"handoff", c>> \in OpenRows(c) <=> handoff[c].state = "prepared"
            /\ <<"callback", c>> \in OpenRows(c) <=> callback[c].state = "handoff_ready"
        BY DEF OpenRows
      <3>2. /\ handoff' = IF <<"handoff", c>> \in OpenRows(c)
                          THEN [handoff EXCEPT ![c].state = "terminal_failed"] ELSE handoff
            /\ callback' = IF <<"callback", c>> \in OpenRows(c)
                           THEN [callback EXCEPT ![c] = [state |-> "terminal", committed |-> TRUE]]
                           ELSE callback
            /\ Publish(q, OpenRows(c))
        BY <1>4 DEF Reject, Ch
      <3> QED  BY <3>1, <3>2
    <2>2. /\ Moves(q) /\ request'[q].pc = "done" /\ request'[q].answer = "refused"
          /\ request'[q].challenge = c
          /\ request'[q].owner = request[q].owner /\ request'[q].named = None
      BY <1>1, AnswerMoves DEF Outcomes
    <2>3. /\ doomed' \subseteq Callbacks
          /\ \A p \in Callbacks \ {q} : p \in doomed => p \in doomed'
      BY <1>2, <2>1 DEF Publish
    <2>4. /\ callback' \in CallbackTable
          /\ \/ callback'[c] = callback[c]
             \/ callback[c].state = "handoff_ready" /\ callback'[c].state = "terminal"
          /\ \A d \in Challenges \ {c} : callback'[d] = callback[d]
      <3>1. CASE callback' = callback
        BY <1>2, <3>1
      <3>2. CASE /\ callback' = [callback EXCEPT ![c] = [state |-> "terminal", committed |-> TRUE]]
                 /\ callback[c].state = "handoff_ready"
        <4>1. callback' \in CallbackTable
          BY <1>1, <1>2, <3>2 DEF CallbackTable
        <4>2. callback'[c] = [state |-> "terminal", committed |-> TRUE]
          BY <1>1, <1>2, <3>2 DEF CallbackTable
        <4>3. \A d \in Challenges \ {c} : callback'[d] = callback[d]
          BY <1>2, <3>2 DEF CallbackTable
        <4> QED  BY <3>2, <4>1, <4>2, <4>3
      <3> QED  BY <2>1, <3>1, <3>2
    <2>5. /\ handoff' \in HandoffTable
          /\ \A d \in Challenges :
                /\ handoff'[d].state = "none" <=> handoff[d].state = "none"
                /\ handoff'[d].identity = handoff[d].identity
                /\ handoff'[d].subject = handoff[d].subject
      BY <1>1, <1>2, <2>1 DEF HandoffTable
    <2>6. TypeOK'
      BY <1>1, <2>2, <2>3, <2>4, <2>5, RequestTableType DEF CeremonyInv, TypeOK, Moves
    <2>7. Grows
      BY <1>1, <2>5 DEF Grows
    <2>8. Placed(q)' /\ SnapshotHolds(q)' /\ Names(q)'
      BY <1>1, <2>2
      DEF Placed, SnapshotHolds, Names, MappingPc, HandoffPc, Late, Acknowledging
    <2>9. ASSUME NEW d \in Challenges PROVE RowsAgree(d)'
      <3>1. RowsAgree(d) /\ UNCHANGED <<challenge, binding, delivery, session>>
        BY <1>1 DEF CeremonyInv
      <3>2. \/ callback'[d] = callback[d]
            \/ callback[d].state = "handoff_ready" /\ callback'[d].state = "terminal"
        BY <2>4
      <3> QED  BY <2>5, <3>1, <3>2 DEF RowsAgree
    <2>10. \A p \in Callbacks \ {q} :
             request[p].pc \in MappingPc => callback'[Ch(p)].state = callback[Ch(p)].state
      <3>1. \A p \in Callbacks :
               request[p].pc \in MappingPc => /\ callback[Ch(p)].state = "none"
                                              /\ Ch(p) \in Challenges
        BY WhereItIs DEF Placed, Ch, MappingPc
      <3> QED  BY <2>4, <3>1
    <2> QED  BY <1>1, <2>2, <2>3, <2>6, <2>7, <2>8, <2>9, <2>10, RowsMove
  <1> QED  BY <1>3, <1>4

\* An epoch bump dooms those who write the authority row.
LEMMA CloseSubjectKeeps ==
  ASSUME CeremonyInv, CeremonyAssumption, NEW s \in Challenges, CloseSubject(s)
  PROVE  CeremonyInv'
  <1>1. /\ UNCHANGED <<challenge, binding, callback, handoff, delivery, session, request, sweep,
                       clock, restarts>>
        /\ closed' = closed \cup {s} /\ Publish(None, {<<"authority", s>>})
    BY DEF CloseSubject
  <1>2. doomed' \subseteq Callbacks /\ \A p \in Callbacks : p \in doomed => p \in doomed'
    BY <1>1 DEF Publish, CeremonyInv, TypeOK, CeremonyAssumption
  <1>3. TypeOK'
    BY <1>1, <1>2 DEF CeremonyInv, TypeOK
  <1>4. Grows /\ StoreInv' /\ OneOwner'
    BY <1>1 DEF Grows, CeremonyInv, StoreInv, Known, OneOwner, Ch
  <1>5. ASSUME NEW p \in Callbacks PROVE Placed(p)' /\ SnapshotHolds(p)' /\ Names(p)'
    <2>1. LeftAlone(p)
      BY <1>1, <1>2 DEF LeftAlone
    <2> QED  BY <1>1, <1>4, <2>1, LeftAloneKeeps
  <1>6. \A c \in Challenges : RowsAgree(c)'
    BY <1>1 DEF CeremonyInv, RowsAgree
  <1>7. MintedOnce' /\ OwnDelivery' /\ SweepInv' /\ NoOrphanSession'
    BY <1>1, OutcomesKeep
  <1> QED  BY <1>3, <1>4, <1>5, <1>6, <1>7 DEF CeremonyInv

\* The challenge store and the clock move on their own.
LEMMA StoreStepKeeps ==
  ASSUME CeremonyInv, CeremonyAssumption, UNCHANGED <<durable, request, doomed, sweep>>,
         challenge' \in ChallengeStore, StoreInv', Grows, clock' \in Nat, restarts' \in Nat
  PROVE  CeremonyInv'
  <1>1. UNCHANGED <<binding, closed, callback, handoff, delivery, session>>
    BY DEF durable
  <1>2. TypeOK'
    BY <1>1 DEF CeremonyInv, TypeOK, StoreInv, Known
  <1>3. ASSUME NEW p \in Callbacks PROVE Placed(p)' /\ SnapshotHolds(p)' /\ Names(p)'
    <2>1. LeftAlone(p)
      BY <1>1 DEF LeftAlone
    <2> QED  BY <2>1, LeftAloneKeeps
  <1>4. \A c \in Challenges : RowsAgree(c)'
    BY <1>1 DEF CeremonyInv, RowsAgree, Grows
  <1>5. MintedOnce' /\ OwnDelivery' /\ SweepInv' /\ NoOrphanSession' /\ OneOwner'
    BY <1>1, OutcomesKeep, OwnersKeep
  <1> QED  BY <1>2, <1>3, <1>4, <1>5 DEF CeremonyInv

\* What the sweep of the store makes of a challenge.
LEMMA SweptType ==
  ASSUME CeremonyInv, NEW c \in Challenges
  PROVE  /\ Swept(c) \in [status : {"unused", "pending", "consumed", "terminated"},
                          expires : Nat, known : BOOLEAN]
         /\ Swept(c).known => challenge[c].known
         /\ Swept(c).status = challenge[c].status \/ Swept(c).status = "terminated"
  <1>1. challenge[c] \in [status : {"unused", "pending", "consumed", "terminated"},
                          expires : Nat, known : BOOLEAN]
    BY DEF CeremonyInv, TypeOK, ChallengeStore
  <1> DEFINE status == IF Overdue(c) THEN "terminated" ELSE challenge[c].status
             old == status # "pending" /\ challenge[c].expires + Grace <= clock
             stays == challenge[c].known /\ ~old
  <1>2. status \in {"unused", "pending", "consumed", "terminated"}
        /\ (status = challenge[c].status \/ status = "terminated")
    BY <1>1
  <1>3. stays \in BOOLEAN /\ (stays => challenge[c].known)
    OBVIOUS
  <1>4. Swept(c) = [challenge[c] EXCEPT !.status = status, !.known = stays]
    BY DEF Swept
  <1> HIDE DEF status, stays
  <1>5. /\ Swept(c) \in [status : {"unused", "pending", "consumed", "terminated"},
                          expires : Nat, known : BOOLEAN]
        /\ Swept(c).status = status
    BY <1>1, <1>2, <1>3, <1>4
  <1>6. Swept(c).known = stays
    BY <1>1, <1>3, <1>4
  <1> QED  BY <1>2, <1>3, <1>5, <1>6

LEMMA SweepChallengesKeeps ==
  ASSUME CeremonyInv, CeremonyAssumption, SweepChallenges
  PROVE  CeremonyInv'
  <1>1. /\ challenge' = [c \in Challenges |-> Swept(c)]
        /\ UNCHANGED <<durable, request, doomed, sweep, clock, restarts>>
    BY DEF SweepChallenges
  <1>2. challenge' \in ChallengeStore
    BY <1>1, SweptType DEF ChallengeStore
  <1>3. \A c \in Challenges :
           /\ challenge'[c].known => challenge[c].known
           /\ \/ challenge'[c].status = challenge[c].status
              \/ challenge'[c].status \in {"consumed", "terminated"}
    BY <1>1, SweptType
  <1>4. StoreInv' /\ Grows
    BY <1>1, <1>3, StatusStep
  <1>5. clock' \in Nat /\ restarts' \in Nat
    BY <1>1 DEF CeremonyInv, TypeOK
  <1> QED  BY <1>1, <1>2, <1>4, <1>5, StoreStepKeeps

\* A challenge begins only while the store has room for it.
LEMMA BeginKeeps ==
  ASSUME CeremonyInv, CeremonyAssumption, NEW c \in Challenges, Begin(c)
  PROVE  CeremonyInv'
  <1> DEFINE store == [x \in Challenges |-> Swept(x)]
             left == {x \in Challenges : store[x].known}
             new == [status |-> "pending", expires |-> clock + ChallengeLifetime, known |-> TRUE]
  <1>1. /\ challenge[c].status = "unused"
        /\ challenge' = IF Cardinality(left) >= Capacity THEN store ELSE [store EXCEPT ![c] = new]
        /\ UNCHANGED <<durable, request, doomed, sweep, clock, restarts>>
    BY DEF Begin
  <1>2. /\ clock \in Nat /\ restarts \in Nat /\ ChallengeLifetime \in Nat /\ Capacity \in Nat
        /\ IsFiniteSet(Known)
    BY DEF CeremonyInv, TypeOK, CeremonyAssumption, StoreInv
  <1>3. store \in ChallengeStore
    BY SweptType DEF ChallengeStore
  <1>4. \A x \in Challenges :
           /\ store[x].known => challenge[x].known
           /\ store[x].status = challenge[x].status \/ store[x].status = "terminated"
    BY SweptType
  <1>5. left \subseteq Known
    BY <1>4 DEF Known
  <1>6. IsFiniteSet(left) /\ Cardinality(left) \in Nat
    BY <1>2, <1>5, FS_Subset, FS_CardinalityType
  <1> HIDE DEF store, left
  <1>7. CASE Cardinality(left) >= Capacity
    <2>1. challenge' = store
      BY <1>1, <1>7
    <2>2. StoreInv' /\ Grows
      BY <1>1, <1>4, <2>1, StatusStep
    <2> QED  BY <1>1, <1>2, <1>3, <2>1, <2>2, StoreStepKeeps
  <1>8. CASE ~(Cardinality(left) >= Capacity)
    <2>1. challenge' = [store EXCEPT ![c] = new]
      BY <1>1, <1>8
    <2>2. new \in [status : {"unused", "pending", "consumed", "terminated"},
                   expires : Nat, known : BOOLEAN]
      BY <1>2
    <2> HIDE DEF new
    <2>3. challenge' \in ChallengeStore
      BY <1>3, <2>1, <2>2 DEF ChallengeStore
    <2>4. \A x \in Challenges \ {c} : challenge'[x] = store[x]
      BY <1>3, <2>1 DEF ChallengeStore
    <2>5. Known' \subseteq left \cup {c}
      BY <2>4 DEF Known, left
    <2>6. IsFiniteSet(left \cup {c}) /\ Cardinality(left \cup {c}) <= Cardinality(left) + 1
      BY SMTT(30), <1>6, FS_AddElement
    <2>7. /\ IsFiniteSet(Known') /\ Cardinality(Known') <= Cardinality(left \cup {c})
          /\ Cardinality(Known') \in Nat /\ Cardinality(left \cup {c}) \in Nat
      BY <2>5, <2>6, FS_Subset, FS_CardinalityType
    <2>8. StoreInv'
      BY <1>2, <1>6, <1>8, <2>6, <2>7 DEF StoreInv
    <2>9. Grows
      BY <1>1, <1>4, <2>4 DEF Grows, durable
    <2> QED  BY <1>1, <1>2, <2>3, <2>8, <2>9, StoreStepKeeps
  <1> QED  BY <1>7, <1>8

LEMMA TickKeeps ==
  ASSUME CeremonyInv, CeremonyAssumption, Tick
  PROVE  CeremonyInv'
  <1>1. /\ UNCHANGED <<challenge, durable, request, doomed, sweep, restarts>>
        /\ challenge \in ChallengeStore /\ clock' \in Nat /\ restarts' \in Nat
    BY DEF Tick, CeremonyInv, TypeOK
  <1>2. StoreInv' /\ Grows
    BY <1>1, StatusStep
  <1> QED  BY <1>1, <1>2, StoreStepKeeps

\* The issuing transaction commits its delivery, or finds the one there is.
LEMMA IssueCommitKeeps ==
  ASSUME CeremonyInv, CeremonyAssumption, NEW q \in Callbacks, NEW told \in BOOLEAN,
         IssueCommit(q, told)
  PROVE  CeremonyInv'
  <1> DEFINE c == request[q].challenge
             n == IF request[q].plan = "mint" THEN q ELSE delivery[c].session
  <1>1. /\ request[q].pc = "issued" /\ request[q] \in RequestRecord /\ q \notin doomed
        /\ c \in Challenges /\ request[q].named = None /\ session[q] = "none"
        /\ Placed(q) /\ SnapshotHolds(q) /\ RowsAgree(c)
        /\ handoff[c].state # "none"
        /\ Issue(q)
        /\ UNCHANGED <<challenge, binding, closed, sweep, clock, restarts>>
        /\ Publish(q, request[q].writes)
        /\ doomed \subseteq Callbacks
    BY WhereItIs DEF IssueCommit, Issue, Late, Acknowledging, Placed, HandoffPc, CeremonyInv
  <1>2. /\ callback \in CallbackTable /\ handoff \in HandoffTable /\ delivery \in DeliveryTable
        /\ session \in [Callbacks -> {"none", "active", "revoked"}] /\ None \notin Callbacks
    BY DEF CeremonyInv, TypeOK, CeremonyAssumption
  <1>3. /\ doomed' \subseteq Callbacks
        /\ \A p \in Callbacks \ {q} :
              /\ p \in doomed => p \in doomed'
              /\ (request[p].pc \in InTxn /\ request[q].writes \cap request[p].writes # {}) =>
                    p \in doomed'
    BY <1>1 DEF Publish
  <1>4. \/ /\ request[q].plan = "mint" /\ <<"delivery", c>> \in request[q].writes
           /\ delivery[c].state = "none"
           /\ session' = [session EXCEPT ![q] = "active"]
           /\ delivery' = [delivery EXCEPT ![c] = [state |-> "sealed", session |-> q]]
        \/ /\ request[q].plan = "replay" /\ delivery[c].state # "none"
           /\ UNCHANGED <<session, delivery>>
    BY <1>1 DEF SnapshotHolds, Issue, Ch
  <1>5. /\ \/ handoff' = [handoff EXCEPT ![c] = [handoff[c] EXCEPT !.state = "consumed"]]
           \/ handoff' = handoff
        /\ \/ callback' = [callback EXCEPT ![c] = [callback[c] EXCEPT !.committed = TRUE]]
           \/ callback' = callback
    BY <1>1 DEF Issue, Ch
  <1>6. /\ handoff' \in HandoffTable
        /\ \A d \in Challenges :
              /\ handoff'[d].state = "none" <=> handoff[d].state = "none"
              /\ handoff'[d].identity = handoff[d].identity
              /\ handoff'[d].subject = handoff[d].subject
    BY <1>1, <1>2, <1>5 DEF HandoffTable
  <1>7. callback' \in CallbackTable
    <2>1. CASE callback' = callback
      BY <1>2, <2>1
    <2>2. CASE callback' = [callback EXCEPT ![c] = [callback[c] EXCEPT !.committed = TRUE]]
      <3>1. callback[c] \in [state : {"none", "handoff_ready", "terminal"}, committed : BOOLEAN]
        BY <1>1, <1>2 DEF CallbackTable
      <3>2. [callback[c] EXCEPT !.committed = TRUE]
               \in [state : {"none", "handoff_ready", "terminal"}, committed : BOOLEAN]
        BY <3>1
      <3> QED  BY <1>1, <1>2, <2>2, <3>2 DEF CallbackTable
    <2> QED  BY <1>5, <2>1, <2>2
  <1>8. \A d \in Challenges : callback'[d].state = callback[d].state
    BY <1>1, <1>2, <1>5 DEF CallbackTable
  <1>9. \A d \in Challenges \ {c} : callback'[d] = callback[d]
    BY <1>2, <1>5 DEF CallbackTable
  <1>10. \A d \in Challenges : delivery[d].state # "none" =>
            /\ delivery[d].session \in Callbacks /\ session[delivery[d].session] # "none"
            /\ Ch(delivery[d].session) = d
    BY DEF CeremonyInv, RowsAgree, OwnDelivery
  <1>11. /\ delivery' \in DeliveryTable
         /\ delivery'[c].state # "none" /\ delivery'[c].session = n /\ n \in Callbacks
         /\ \A d \in Challenges \ {c} : delivery'[d] = delivery[d]
         /\ delivery'[c] = delivery[c] \/ (delivery[c].state = "none" /\ delivery'[c].state = "sealed")
    <2>1. CASE request[q].plan = "mint"
      BY <1>1, <1>2, <1>4, <2>1 DEF DeliveryTable
    <2>2. CASE request[q].plan # "mint"
      BY <1>1, <1>2, <1>4, <1>10, <2>2
    <2> QED  BY <2>1, <2>2
  <1>12. /\ session' \in [Callbacks -> {"none", "active", "revoked"}]
         /\ session'[n] # "none"
         /\ \A p \in Callbacks \ {q} : session'[p] = session[p]
         /\ session'[q] # "none" => n = q
    <2>1. CASE request[q].plan = "mint"
      BY <1>1, <1>2, <1>4, <2>1
    <2>2. CASE request[q].plan # "mint"
      BY <1>1, <1>2, <1>4, <1>10, <2>2
    <2> QED  BY <2>1, <2>2
  <1>13. /\ Moves(q) /\ request'[q].pc \in {"acking", "done"} /\ request'[q].answer # "success"
         /\ request'[q].challenge = c /\ request'[q].owner = request[q].owner
         /\ request'[q].pc = "acking" => request'[q].named = n
         /\ request'[q].pc = "done" => request'[q].named = None
    <2>1. CASE Acking(q)
      <3>1. ASSUME NEW l \in RequestRecord, NEW m \in Callbacks
            PROVE  LET s == [l EXCEPT !.named = m]
                   IN  /\ s \in RequestRecord /\ s.named = m /\ s.pc = l.pc
                       /\ s.challenge = l.challenge /\ s.owner = l.owner /\ s.answer = l.answer
        BY DEF RequestRecord
      <3> HIDE DEF n
      <3>7. "acking" \in Running \cup {"new", "done", "dead"}
        BY DEF Running
      <3>2. /\ Left(q, "acking") \in RequestRecord /\ Left(q, "acking").pc = "acking"
            /\ Left(q, "acking").challenge = c
            /\ Left(q, "acking").owner = request[q].owner
            /\ Left(q, "acking").answer = "none"
        BY <3>7, LeftType
      <3> USE DEF n
      <3> DEFINE r == [Left(q, "acking") EXCEPT !.named = n]
      <3>3. Update(q, r)
        BY <2>1 DEF Acking, Ch
      <3>4. n \in Callbacks
        BY <1>11
      <3> HIDE DEF n
      <3>5. /\ r \in RequestRecord /\ r.pc = "acking" /\ r.challenge = c
            /\ r.owner = request[q].owner /\ r.named = n /\ r.answer = "none"
        BY <3>1, <3>2, <3>4
      <3> HIDE DEF r
      <3>6. Moves(q) /\ request'[q] = r
        BY <1>1, <3>3, <3>5, Updates
      <3> QED  BY <3>5, <3>6
    <2>2. CASE Answer(q, "still_processing")
      BY <1>1, <2>2, AnswerMoves DEF Outcomes
    <2> QED  BY <2>1, <2>2 DEF IssueCommit
  <1> HIDE DEF n
  <1>14. TypeOK'
    BY <1>1, <1>3, <1>6, <1>7, <1>11, <1>12, <1>13, RequestTableType DEF CeremonyInv, TypeOK, Moves
  <1>15. Grows
    BY <1>1, <1>6, <1>11 DEF Grows
  <1>16. StoreInv'
    BY <1>1 DEF CeremonyInv, StoreInv, Known
  <1>17. \A p \in Callbacks :
           /\ request[p].challenge # None => request'[p].challenge = request[p].challenge
           /\ request[p].named # None => request'[p].named = request[p].named
           /\ request'[p].owner => request[p].owner
    BY <1>13 DEF Moves
  <1>18. OneOwner'
    BY <1>17, OwnersKeep
  <1>19. ASSUME NEW p \in Callbacks PROVE Placed(p)' /\ SnapshotHolds(p)' /\ Names(p)'
    <2>1. CASE p = q
      <3>1. Placed(q)'
        BY <1>1, <1>6, <1>13 DEF Placed, MappingPc, HandoffPc
      <3>2. SnapshotHolds(q)'
        BY <1>13 DEF SnapshotHolds
      <3>3. Names(q)'
        BY <1>11, <1>13 DEF Names, Late, Acknowledging
      <3> QED  BY <2>1, <3>1, <3>2, <3>3
    <2>2. CASE p # q
      <3>1. request[p].pc # "new" => Ch(p) \in Challenges
        BY WhereItIs DEF Ch
      <3>2. request[p].pc \in MappingPc => callback'[Ch(p)].state = callback[Ch(p)].state
        BY <1>8, <3>1 DEF MappingPc
      <3>3. request[p].pc = "issued" /\ <<"delivery", Ch(p)>> \in request[p].writes =>
                p \in doomed' \/ delivery'[Ch(p)].state = "none" \/ delivery[Ch(p)].state # "none"
        <4> SUFFICES ASSUME request[p].pc = "issued", <<"delivery", Ch(p)>> \in request[p].writes
                     PROVE  p \in doomed' \/ delivery'[Ch(p)].state = "none"
                              \/ delivery[Ch(p)].state # "none"
          OBVIOUS
        <4>1. CASE Ch(p) # c
          BY <1>11, <3>1, <4>1
        <4>2. CASE Ch(p) = c
          BY <1>3, <1>4, <2>2, <4>2 DEF InTxn
        <4> QED  BY <4>1, <4>2
      <3>4. LeftAlone(p)
        BY <1>1, <1>3, <1>12, <1>13, <2>2, <3>2, <3>3 DEF LeftAlone, Moves
      <3> QED  BY <1>15, <1>17, <3>4, LeftAloneKeeps
    <2> QED  BY <2>1, <2>2
  <1>20. ASSUME NEW d \in Challenges PROVE RowsAgree(d)'
    <2>1. RowsAgree(d) /\ UNCHANGED <<challenge, binding>>
      BY <1>1 DEF CeremonyInv
    <2>2. CASE d = c
      <3>1. callback[c].state # "none"
        BY <1>1 DEF RowsAgree
      <3> QED  BY <1>6, <1>8, <1>11, <1>12, <2>1, <2>2, <3>1 DEF RowsAgree
    <2>3. CASE d # c
      <3>1. callback'[d] = callback[d] /\ delivery'[d] = delivery[d]
        BY <1>9, <1>11, <2>3
      <3>2. delivery[d].state # "none" => session'[delivery[d].session] # "none"
        BY <1>1, <1>10, <1>12
      <3> QED  BY <1>6, <2>1, <3>1, <3>2 DEF RowsAgree
    <2> QED  BY <2>2, <2>3
  <1>21. MintedOnce'
    <2> SUFFICES ASSUME NEW p \in Callbacks, session'[p] # "none"
                 PROVE  delivery'[Ch(p)'].state # "none" /\ delivery'[Ch(p)'].session = p
      BY DEF MintedOnce
    <2>1. CASE p = q
      BY <1>11, <1>12, <1>13, <2>1 DEF Ch
    <2>2. CASE p # q
      <3>1. session[p] # "none" /\ Ch(p)' = Ch(p) /\ Ch(p) \in Challenges
        BY <1>12, <1>13, <2>2, WhereItIs DEF Moves, Ch, Late, Acknowledging
      <3>2. delivery[Ch(p)].state # "none" /\ delivery[Ch(p)].session = p
        BY <3>1 DEF CeremonyInv, MintedOnce
      <3> QED  BY <1>11, <3>1, <3>2
    <2> QED  BY <2>1, <2>2
  <1>22. OwnDelivery'
    <2> SUFFICES ASSUME NEW d \in Challenges, delivery'[d].state # "none"
                 PROVE  request'[delivery'[d].session].challenge = d
      BY DEF OwnDelivery, Ch
    <2>1. CASE delivery'[d] = delivery[d]
      <3>1. /\ delivery[d].session \in Callbacks \ {q}
            /\ request[delivery[d].session].challenge = d
        BY <1>1, <1>10, <2>1 DEF Ch
      <3> QED  BY <1>13, <2>1, <3>1 DEF Moves
    <2>2. CASE delivery'[d] # delivery[d]
      <3>1. d = c /\ delivery'[d].session = q
        BY <1>4, <1>11, <2>2 DEF n
      <3> QED  BY <1>13, <3>1
    <2> QED  BY <2>1, <2>2
  <1>23. SweepInv'
    <2>1. /\ \A d \in sweep.left : d \in Challenges
          /\ sweep.revoked # None => sweep.revoked \in Challenges
      BY DEF CeremonyInv, TypeOK
    <2>2. \A d \in Challenges : delivery[d].state # "none" =>
             /\ delivery'[d].state # "none" /\ delivery'[d].session = delivery[d].session
             /\ session'[delivery[d].session] = session[delivery[d].session]
      BY <1>1, <1>10, <1>12, <1>15 DEF Grows
    <2> QED  BY <1>1, <2>1, <2>2 DEF CeremonyInv, SweepInv
  <1>24. NoOrphanSession'
    <2> SUFFICES ASSUME NEW d \in Challenges, delivery'[d].state = "erased",
                        session'[delivery'[d].session] = "active"
                 PROVE  \E p \in Callbacks : request'[p].named = delivery'[d].session
      BY DEF NoOrphanSession
    <2>1. delivery'[d] = delivery[d]
      BY <1>11
    <2>2. delivery[d].session \in Callbacks \ {q}
      BY <1>1, <1>10, <2>1
    <2>3. PICK p \in Callbacks : request[p].named = delivery[d].session
      BY <1>12, <2>1, <2>2 DEF CeremonyInv, NoOrphanSession
    <2> QED  BY <1>2, <1>17, <2>1, <2>2, <2>3
  <1> QED  BY <1>14, <1>16, <1>18, <1>19, <1>20, <1>21, <1>22, <1>23, <1>24 DEF CeremonyInv

\* Who acknowledges a delivery holds the name of its session.
LEMMA AcknowledgeKeeps ==
  ASSUME CeremonyInv, CeremonyAssumption, NEW q \in Callbacks, Acknowledge(q)
  PROVE  CeremonyInv'
  <1> DEFINE c == request[q].challenge
  <1>1. /\ request[q].pc = "acking" /\ request[q] \in RequestRecord /\ c \in Challenges
        /\ Placed(q) /\ Names(q) /\ request[q].answer # "success"
        /\ delivery[c].state # "none" /\ request[q].named = delivery[c].session
        /\ UNCHANGED <<challenge, binding, closed, callback, handoff, session, doomed, sweep,
                       clock, restarts>>
    BY WhereItIs DEF Acknowledge, Acknowledging, Names
  <1>2. /\ delivery \in DeliveryTable
        /\ \/ delivery' = delivery
           \/ delivery' = [delivery EXCEPT ![c] = [delivery[c] EXCEPT !.state = "erased"]]
    BY DEF Acknowledge, Ch, CeremonyInv, TypeOK
  <1>3. /\ delivery' \in DeliveryTable
        /\ delivery'[c].state # "none"
        /\ \A d \in Challenges :
              /\ delivery'[d].state = "none" <=> delivery[d].state = "none"
              /\ delivery'[d].session = delivery[d].session
    BY <1>1, <1>2 DEF DeliveryTable
  <1>4. \A d \in Challenges \ {c} : delivery'[d] = delivery[d]
    BY <1>2 DEF DeliveryTable
  <1> DEFINE r == [request[q] EXCEPT !.pc = "answering"]
  <1>5. /\ r \in RequestRecord /\ r.pc = "answering" /\ r.challenge = c
        /\ r.owner = request[q].owner /\ r.named = request[q].named /\ r.answer # "success"
    BY <1>1 DEF RequestRecord, Running
  <1>6. Update(q, r)
    BY DEF Acknowledge
  <1> HIDE DEF r
  <1>7. Moves(q) /\ request'[q] = r
    BY <1>5, <1>6, Updates
  <1>8. TypeOK'
    BY <1>1, <1>3, <1>7, RequestTableType DEF CeremonyInv, TypeOK, Moves
  <1>9. Grows /\ StoreInv'
    BY <1>1, <1>3 DEF Grows, CeremonyInv, StoreInv, Known
  <1>10. \A p \in Callbacks :
           /\ request[p].challenge # None => request'[p].challenge = request[p].challenge
           /\ request[p].named # None => request'[p].named = request[p].named
           /\ request'[p].owner => request[p].owner
    BY <1>5, <1>7 DEF Moves
  <1>11. OneOwner'
    BY <1>10, OwnersKeep
  <1>12. ASSUME NEW p \in Callbacks PROVE Placed(p)' /\ SnapshotHolds(p)' /\ Names(p)'
    <2>1. CASE p = q
      <3>1. Placed(q)' /\ SnapshotHolds(q)'
        BY <1>1, <1>5, <1>7 DEF Placed, SnapshotHolds, MappingPc, HandoffPc
      <3>2. Names(q)'
        BY <1>1, <1>3, <1>5, <1>7 DEF Names, Late, Acknowledging
      <3> QED  BY <2>1, <3>1, <3>2
    <2>2. CASE p # q
      <3>1. request[p].pc # "new" => Ch(p) \in Challenges
        BY WhereItIs DEF Ch
      <3>2. LeftAlone(p)
        BY <1>1, <1>3, <1>7, <2>2, <3>1 DEF LeftAlone, Moves
      <3> QED  BY <1>9, <1>10, <3>2, LeftAloneKeeps
    <2> QED  BY <2>1, <2>2
  <1>13. ASSUME NEW d \in Challenges PROVE RowsAgree(d)'
    <2>1. RowsAgree(d)
      BY DEF CeremonyInv
    <2> QED  BY <1>1, <1>3, <2>1 DEF RowsAgree
  <1>14. \A p \in Callbacks : session[p] # "none" => Ch(p)' = Ch(p) /\ Ch(p) \in Challenges
    BY <1>5, <1>7, WhereItIs DEF Moves, Ch, Late, Acknowledging
  <1>15. MintedOnce'
    BY <1>1, <1>3, <1>14 DEF CeremonyInv, MintedOnce
  <1>16. OwnDelivery'
    <2>1. \A d \in Challenges : delivery[d].state # "none" =>
             /\ delivery[d].session \in Callbacks
             /\ request'[delivery[d].session].challenge = d
      BY <1>14 DEF CeremonyInv, RowsAgree, OwnDelivery, Ch
    <2> QED  BY <1>3, <2>1 DEF OwnDelivery, Ch
  <1>17. SweepInv'
    BY <1>1, <1>3 DEF CeremonyInv, SweepInv, TypeOK
  <1>18. NoOrphanSession'
    <2> SUFFICES ASSUME NEW d \in Challenges, delivery'[d].state = "erased",
                        session'[delivery'[d].session] = "active"
                 PROVE  \E p \in Callbacks : request'[p].named = delivery'[d].session
      BY DEF NoOrphanSession
    <2>1. CASE d = c
      BY <1>1, <1>3, <1>5, <1>7, <2>1
    <2>2. CASE d # c
      <3>1. delivery'[d] = delivery[d] /\ delivery[d].session \in Callbacks
        BY <1>3, <1>4, <2>2 DEF CeremonyInv, RowsAgree
      <3>2. PICK p \in Callbacks : request[p].named = delivery[d].session
        BY <1>1, <3>1 DEF CeremonyInv, NoOrphanSession
      <3> QED  BY <1>10, <3>1, <3>2 DEF CeremonyAssumption
    <2> QED  BY <2>1, <2>2
  <1> QED  BY <1>8, <1>9, <1>11, <1>12, <1>13, <1>15, <1>16, <1>17, <1>18 DEF CeremonyInv

-----------------------------------------------------------------------------
(***************************************************************************)
(* The sweep of the deliveries, and restarts.                              *)
(***************************************************************************)
\* A step of the sweep leaves every request alone.
LEMMA SweepLeavesRequests ==
  ASSUME CeremonyInv, CeremonyAssumption,
         UNCHANGED <<challenge, binding, closed, callback, handoff, request, doomed, clock, restarts>>,
         \A c \in Challenges :
            /\ delivery'[c].state = "none" <=> delivery[c].state = "none"
            /\ delivery'[c].session = delivery[c].session,
         \A p \in Callbacks : session'[p] = "none" <=> session[p] = "none"
  PROVE  /\ StoreInv' /\ OneOwner'
         /\ \A p \in Callbacks : Placed(p)' /\ SnapshotHolds(p)' /\ Names(p)'
         /\ \A c \in Challenges : RowsAgree(c)'
         /\ MintedOnce' /\ OwnDelivery'
  <1>1. Grows /\ StoreInv' /\ OneOwner'
    BY DEF Grows, CeremonyInv, StoreInv, Known, OneOwner, Ch
  <1>2. ASSUME NEW p \in Callbacks PROVE Placed(p)' /\ SnapshotHolds(p)' /\ Names(p)'
    <2>1. request[p].pc # "new" => Ch(p) \in Challenges
      BY WhereItIs DEF Ch
    <2>2. LeftAlone(p)
      BY <2>1 DEF LeftAlone
    <2> QED  BY <1>1, <2>2, LeftAloneKeeps
  <1>3. ASSUME NEW c \in Challenges PROVE RowsAgree(c)'
    <2>1. RowsAgree(c)
      BY DEF CeremonyInv
    <2> QED  BY <2>1 DEF RowsAgree
  <1>4. \A p \in Callbacks : session[p] # "none" => Ch(p) \in Challenges
    BY WhereItIs DEF Ch, Late, Acknowledging
  <1>5. MintedOnce'
    BY <1>4 DEF CeremonyInv, MintedOnce, Ch
  <1>6. OwnDelivery'
    BY DEF CeremonyInv, OwnDelivery, Ch
  <1> QED  BY <1>1, <1>2, <1>3, <1>5, <1>6

LEMMA SweepSelectKeeps ==
  ASSUME CeremonyInv, CeremonyAssumption, SweepSelect
  PROVE  CeremonyInv'
  <1> DEFINE expired == {c \in Challenges : delivery[c].state = "sealed"
                                            /\ handoff[c].expires < clock}
  <1>1. /\ sweep' = [sweep EXCEPT !.left = expired]
        /\ UNCHANGED <<challenge, binding, closed, callback, handoff, delivery, session, request,
                       doomed, clock, restarts>>
    BY DEF SweepSelect, durable
  <1>2. sweep \in [left : SUBSET Challenges, revoked : Challenges \cup {None}]
    BY DEF CeremonyInv, TypeOK
  <1>3. /\ sweep' \in [left : SUBSET Challenges, revoked : Challenges \cup {None}]
        /\ sweep'.left = expired /\ sweep'.revoked = sweep.revoked
    BY <1>1, <1>2
  <1>4. TypeOK' /\ NoOrphanSession'
    BY <1>1, <1>3 DEF CeremonyInv, TypeOK, NoOrphanSession
  <1>5. SweepInv'
    BY <1>1, <1>3 DEF CeremonyInv, SweepInv
  <1> QED  BY <1>1, <1>4, <1>5, SweepLeavesRequests DEF CeremonyInv

LEMMA SweepRevokeKeeps ==
  ASSUME CeremonyInv, CeremonyAssumption, NEW c \in Challenges, SweepRevoke(c)
  PROVE  CeremonyInv'
  <1> DEFINE s == delivery[c].session
  <1>1. /\ c \in sweep.left /\ delivery[c].state # "none"
        /\ s \in Callbacks /\ session[s] # "none"
        /\ session' = [session EXCEPT ![s] = "revoked"]
        /\ sweep' = [sweep EXCEPT !.revoked = c]
        /\ UNCHANGED <<challenge, binding, closed, callback, handoff, delivery, request, doomed,
                       clock, restarts>>
    BY DEF SweepRevoke, CeremonyInv, SweepInv, RowsAgree
  <1>2. /\ sweep \in [left : SUBSET Challenges, revoked : Challenges \cup {None}]
        /\ session \in [Callbacks -> {"none", "active", "revoked"}]
    BY DEF CeremonyInv, TypeOK
  <1>3. /\ sweep' \in [left : SUBSET Challenges, revoked : Challenges \cup {None}]
        /\ sweep'.left = sweep.left /\ sweep'.revoked = c
    BY <1>1, <1>2
  <1>4. /\ session' \in [Callbacks -> {"none", "active", "revoked"}] /\ session'[s] = "revoked"
        /\ \A p \in Callbacks : session'[p] = session[p] \/ (p = s /\ session'[p] = "revoked")
        /\ \A p \in Callbacks : session'[p] = "none" <=> session[p] = "none"
    BY <1>1, <1>2
  <1>5. TypeOK'
    BY <1>1, <1>3, <1>4 DEF CeremonyInv, TypeOK
  <1>6. SweepInv'
    BY <1>1, <1>3, <1>4 DEF CeremonyInv, SweepInv
  <1>7. NoOrphanSession'
    <2>1. \A d \in Challenges : delivery[d].state = "erased" => delivery[d].session \in Callbacks
      BY DEF CeremonyInv, RowsAgree
    <2> QED  BY <1>1, <1>4, <2>1 DEF CeremonyInv, NoOrphanSession
  <1> QED  BY <1>1, <1>4, <1>5, <1>6, <1>7, SweepLeavesRequests DEF CeremonyInv

\* The envelope that the sweep erases is of a session it has revoked.
LEMMA SweepAcknowledgeKeeps ==
  ASSUME CeremonyInv, CeremonyAssumption, SweepAcknowledge
  PROVE  CeremonyInv'
  <1> DEFINE c == sweep.revoked
  <1>1. /\ c \in Challenges /\ delivery[c].state # "none"
        /\ session[delivery[c].session] = "revoked"
        /\ UNCHANGED <<challenge, binding, closed, callback, handoff, session, request, doomed,
                       clock, restarts>>
    BY DEF SweepAcknowledge, CeremonyInv, TypeOK, SweepInv
  <1>2. delivery \in DeliveryTable /\ sweep.left \in SUBSET Challenges
    BY DEF CeremonyInv, TypeOK
  <1>3. \/ /\ delivery' = [delivery EXCEPT ![c] = [delivery[c] EXCEPT !.state = "erased"]]
           /\ sweep' = [left |-> sweep.left \ {c}, revoked |-> None]
        \/ delivery' = delivery /\ sweep' = [left |-> {}, revoked |-> None]
    BY DEF SweepAcknowledge
  <1>4. /\ sweep' \in [left : SUBSET Challenges, revoked : Challenges \cup {None}]
        /\ sweep'.left \subseteq sweep.left /\ sweep'.revoked = None
    BY <1>2, <1>3
  <1>5. /\ delivery' \in DeliveryTable
        /\ \A d \in Challenges :
              /\ delivery'[d].state = "none" <=> delivery[d].state = "none"
              /\ delivery'[d].session = delivery[d].session
    BY <1>1, <1>2, <1>3 DEF DeliveryTable
  <1>6. \A d \in Challenges \ {c} : delivery'[d] = delivery[d]
    BY <1>2, <1>3 DEF DeliveryTable
  <1>7. TypeOK'
    BY <1>1, <1>4, <1>5 DEF CeremonyInv, TypeOK
  <1>8. SweepInv'
    BY <1>2, <1>4, <1>5 DEF CeremonyInv, SweepInv
  <1>9. NoOrphanSession'
    BY <1>1, <1>5, <1>6 DEF CeremonyInv, NoOrphanSession
  <1>10. /\ StoreInv' /\ OneOwner'
         /\ \A p \in Callbacks : Placed(p)' /\ SnapshotHolds(p)' /\ Names(p)'
         /\ \A d \in Challenges : RowsAgree(d)'
         /\ MintedOnce' /\ OwnDelivery'
    BY <1>1, <1>5, SweepLeavesRequests
  <1> QED  BY <1>7, <1>8, <1>9, <1>10 DEF CeremonyInv

\* A restart forgets what was under way, and no row.
LEMMA RestartKeeps ==
  ASSUME CeremonyInv, CeremonyAssumption, Restart
  PROVE  CeremonyInv'
  <1>1. /\ UNCHANGED <<binding, closed, callback, handoff, delivery, session, clock>>
        /\ challenge' = [c \in Challenges |-> [challenge[c] EXCEPT !.known = FALSE]]
        /\ request' = [q \in Callbacks |-> IF request[q].pc \in Running
                                           THEN Left(q, "dead") ELSE request[q]]
        /\ doomed' = {} /\ sweep' = [left |-> {}, revoked |-> None]
    BY DEF Restart, durable
  <1>2. ASSUME NEW q \in Callbacks
        PROVE  /\ request'[q] \in RequestRecord
               /\ request'[q].challenge = request[q].challenge
               /\ request'[q].owner = request[q].owner /\ request'[q].named = request[q].named
               /\ request'[q].pc \in {"new", "done", "dead"}
               /\ request'[q].pc = "new" <=> request[q].pc = "new"
               /\ request'[q].answer = "success" =>
                     request'[q].pc = "done" /\ request[q].answer = "success"
    <2>1. CASE request[q].pc \in Running
      <3>1. request'[q] = Left(q, "dead")
        BY <1>1, <2>1
      <3>2. /\ Left(q, "dead") \in RequestRecord /\ Left(q, "dead").pc = "dead"
            /\ Left(q, "dead").challenge = request[q].challenge
            /\ Left(q, "dead").owner = request[q].owner
            /\ Left(q, "dead").named = request[q].named /\ Left(q, "dead").answer = "none"
        BY LeftType
      <3>3. request[q].pc # "new"
        BY <2>1 DEF Running
      <3> QED  BY <3>1, <3>2, <3>3
    <2>2. CASE request[q].pc \notin Running
      <3>1. request'[q] = request[q]
        BY <1>1, <2>2
      <3>2. request[q] \in RequestRecord /\ (request[q].pc # "done" => request[q].answer # "success")
        BY WhereItIs
      <3>3. request[q].pc \in {"new", "done", "dead"}
        BY <2>2, <3>2 DEF RequestRecord
      <3> QED  BY <3>1, <3>2, <3>3
    <2> QED  BY <2>1, <2>2
  <1>3. /\ challenge' \in ChallengeStore
        /\ \A c \in Challenges : challenge'[c].status = challenge[c].status /\ ~challenge'[c].known
    <2>1. challenge \in ChallengeStore
      BY DEF CeremonyInv, TypeOK
    <2>2. ASSUME NEW c \in Challenges
          PROVE  /\ challenge'[c] \in [status : {"unused", "pending", "consumed", "terminated"},
                                        expires : Nat, known : BOOLEAN]
                 /\ challenge'[c].status = challenge[c].status /\ ~challenge'[c].known
      <3>1. challenge[c] \in [status : {"unused", "pending", "consumed", "terminated"},
                              expires : Nat, known : BOOLEAN]
        BY <2>1 DEF ChallengeStore
      <3>2. challenge'[c] = [challenge[c] EXCEPT !.known = FALSE]
        BY <1>1
      <3>3. ~challenge'[c].known
        BY <3>1, <3>2
      <3> QED  BY <3>1, <3>2, <3>3
    <2> QED  BY <1>1, <2>2 DEF ChallengeStore
  <1>4. StoreInv' /\ Grows
    <2>1. StoreInv'
      BY <1>3, ForgettingKeeps
    <2> QED  BY <1>1, <1>3, <2>1 DEF Grows
  <1>5. TypeOK'
    <2>1. request' \in [Callbacks -> RequestRecord]
      BY <1>1, <1>2
    <2>2. restarts' \in Nat
      BY DEF Restart, CeremonyInv, TypeOK
    <2> QED  BY <1>1, <1>3, <1>4, <2>1, <2>2, RequestTableType
             DEF CeremonyInv, TypeOK, StoreInv, Known
  <1>6. ASSUME NEW q \in Callbacks PROVE Placed(q)' /\ SnapshotHolds(q)' /\ Names(q)'
    <2>1. Placed(q) /\ Names(q)
      BY WhereItIs
    <2>2. Placed(q)'
      BY <1>2, <1>3, <2>1 DEF Placed, MappingPc, HandoffPc
    <2>3. SnapshotHolds(q)'
      BY <1>2 DEF SnapshotHolds
    <2>4. Names(q)'
      <3>1. request'[q].pc # "new" => request'[q].pc \in Late
        BY <1>2 DEF Late
      <3>2. request[q].pc = "new" => request[q].named = None /\ session[q] = "none"
        BY WhereItIs DEF Late, Acknowledging
      <3> QED  BY <1>1, <1>2, <2>1, <3>1, <3>2 DEF Names, Acknowledging
    <2> QED  BY <2>2, <2>3, <2>4
  <1>7. \A c \in Challenges : RowsAgree(c)'
    BY <1>1, <1>3 DEF CeremonyInv, RowsAgree
  <1>8. OneOwner'
    BY <1>2, OwnersKeep
  <1>9. MintedOnce' /\ OwnDelivery'
    <2>1. \A c \in Challenges : delivery[c].state # "none" => delivery[c].session \in Callbacks
      BY DEF CeremonyInv, RowsAgree
    <2> QED  BY <1>1, <1>2, <2>1 DEF CeremonyInv, MintedOnce, OwnDelivery, Ch
  <1>10. SweepInv' /\ NoOrphanSession'
    BY <1>1, <1>2 DEF CeremonyInv, SweepInv, NoOrphanSession
  <1> QED  BY <1>4, <1>5, <1>6, <1>7, <1>8, <1>9, <1>10 DEF CeremonyInv

-----------------------------------------------------------------------------
(***************************************************************************)
(* The theorems.                                                           *)
(***************************************************************************)
LEMMA CeremonyInit ==
  ASSUME CeremonyAssumption, Init PROVE CeremonyInv
  <1>1. Known = {} /\ StoreInv
    <2>1. Known = {}
      BY DEF Init, Known
    <2> QED  BY <2>1, FS_EmptySet DEF StoreInv, CeremonyAssumption
  <1>2. TypeOK
    <2>1. request \in RequestTable
      BY FreshType, RequestTableType DEF Init
    <2>2. Cardinality({c \in Challenges : challenge[c].known}) <= Capacity
      BY <1>1 DEF StoreInv, Known
    <2> QED  BY <2>1, <2>2
             DEF Init, TypeOK, ChallengeStore, CallbackTable, HandoffTable, DeliveryTable
  <1>3. ASSUME NEW q \in Callbacks PROVE Placed(q) /\ SnapshotHolds(q) /\ Names(q)
    BY DEF Init, Fresh, Placed, SnapshotHolds, Names, MappingPc, HandoffPc, Acknowledging
  <1>4. OneOwner
    BY DEF Init, Fresh, OneOwner
  <1>5. \A c \in Challenges : RowsAgree(c)
    BY DEF Init, RowsAgree
  <1>6. MintedOnce /\ OwnDelivery /\ SweepInv /\ NoOrphanSession
    BY DEF Init, MintedOnce, OwnDelivery, SweepInv, NoOrphanSession
  <1> QED  BY <1>1, <1>2, <1>3, <1>4, <1>5, <1>6 DEF CeremonyInv

LEMMA CeremonyStep ==
  ASSUME CeremonyAssumption, CeremonyInv, [Next]_vars PROVE CeremonyInv'
  <1>1. ASSUME NEW c \in Challenges, Begin(c) \/ CloseSubject(c) PROVE CeremonyInv'
    BY <1>1, BeginKeeps, CloseSubjectKeeps
  <1>2. ASSUME NEW q \in Callbacks, NEW c \in Challenges, Receive(q, c) PROVE CeremonyInv'
    BY <1>2, ReceiveUnusableKeeps, ReceiveErrorKeeps, TakeChallengeKeeps, ReceiveAgainKeeps
    DEF Receive
  <1>3. ASSUME NEW q \in Callbacks, Work(q) PROVE CeremonyInv'
    <2>1. CASE LeaveJoin(q) \/ Exchange(q) \/ MapRead(q) \/ MapConflict(q) \/ MapFails(q)
               \/ Settle(q)
      BY <2>1, LeaveJoinKeeps, ExchangeKeeps, MapReadKeeps, MapConflictKeeps, MapFailsKeeps,
         SettleKeeps
    <2>2. CASE StoredCallback(q) \/ StoredHandoff(q) \/ NumberAttempt(q) \/ IssueRead(q)
               \/ IssueFails(q) \/ Reject(q)
      BY <2>2, StoredCallbackKeeps, StoredHandoffKeeps, NumberAttemptKeeps, IssueReadKeeps,
         IssueFailsKeeps, RejectKeeps
    <2>3. CASE Acknowledge(q) \/ AnswerFirst(q)
      BY <2>3, AcknowledgeKeeps, AnswerFirstKeeps
    <2>4. ASSUME NEW told \in BOOLEAN, MapCommit(q, told) \/ IssueCommit(q, told)
          PROVE  CeremonyInv'
      <3>1. CASE MapCommit(q, told)
        BY <3>1, MapCommitKeeps
      <3>2. CASE IssueCommit(q, told)
        BY <3>2, IssueCommitKeeps
      <3> QED  BY <2>4, <3>1, <3>2
    <2> QED  BY <1>3, <2>1, <2>2, <2>3, <2>4 DEF Work
  <1>4. CASE Sweep \/ SweepChallenges \/ Restart \/ Tick
    BY <1>4, SweepSelectKeeps, SweepRevokeKeeps, SweepAcknowledgeKeeps, SweepChallengesKeeps,
       RestartKeeps, TickKeeps
    DEF Sweep
  <1>5. CASE UNCHANGED vars
    <2>1. /\ UNCHANGED <<durable, request, doomed, sweep, challenge, clock, restarts>>
          /\ challenge' \in ChallengeStore /\ clock' \in Nat /\ restarts' \in Nat
      BY <1>5 DEF vars, CeremonyInv, TypeOK
    <2>2. StoreInv' /\ Grows
      BY <2>1, StatusStep
    <2> QED  BY <2>1, <2>2, StoreStepKeeps
  <1> QED  BY <1>1, <1>2, <1>3, <1>4, <1>5 DEF Next

\* The inductive invariant, of every instance.
THEOREM CeremonyInvariance == Spec => []CeremonyInv
  <1>1. Init => CeremonyInv
    BY CeremonyInit, CeremonyAssumption
  <1>2. CeremonyInv /\ [Next]_vars => CeremonyInv'
    BY CeremonyStep, CeremonyAssumption
  <1> QED  BY <1>1, <1>2, PTL DEF Spec

\* Every variable of the sign-in keeps its shape, the challenge store its
\* capacity and the mapping its attempts.
THEOREM CeremonyTypes == Spec => []TypeOK
  <1>1. CeremonyInv => TypeOK
    BY DEF CeremonyInv
  <1> QED  BY <1>1, CeremonyInvariance, PTL

\* Concurrent first sign-ins of one identity end with one account subject: the
\* hand-off of every challenge is of the subject its identity is bound to
\* (mapping.ts).
THEOREM OneSubjectHolds == Spec => []OneSubjectPerIdentity
  <1>1. CeremonyInv => OneSubjectPerIdentity
    BY DEF CeremonyInv, RowsAgree, OneSubjectPerIdentity
  <1> QED  BY <1>1, CeremonyInvariance, PTL

\* A challenge is exchanged by one delivery and its hand-off mints one session,
\* which its delivery row names, and so does whoever is told of a success
\* (challenge.ts take, issuance.ts consumeAndIssue, ceremony.ts #storedResult).
THEOREM OneSessionHolds == Spec => []OneSessionPerHandoff
  <1>1. CeremonyInv => OneSessionPerHandoff
    <2> SUFFICES ASSUME CeremonyInv, NEW c \in Challenges
                 PROVE  /\ Cardinality({q \in Callbacks : request[q].owner /\ Ch(q) = c}) <= 1
                        /\ Minted(c) = IF delivery[c].state = "none" THEN {}
                                       ELSE {delivery[c].session}
                        /\ \A q \in Callbacks :
                              Ch(q) = c /\ request[q].answer = "success" =>
                                 Minted(c) = {request[q].named}
      BY DEF OneSessionPerHandoff
    <2> DEFINE owners == {q \in Callbacks : request[q].owner /\ Ch(q) = c}
    <2>1. Cardinality(owners) <= 1
      <3>1. \A p, q \in owners : p = q
        BY DEF CeremonyInv, OneOwner
      <3> HIDE DEF owners
      <3>2. CASE owners = {}
        BY <3>2, FS_EmptySet
      <3>3. CASE owners # {}
        <4>1. PICK q : owners = {q}
          BY <3>1, <3>3
        <4>2. Cardinality({q}) = 1
          BY FS_Singleton, Zenon
        <4>3. Cardinality(owners) = 1
          BY <4>1, <4>2, Zenon
        <4> QED  BY <4>3
      <3> QED  BY <3>2, <3>3
    <2>2. Minted(c) = IF delivery[c].state = "none" THEN {} ELSE {delivery[c].session}
      <3>1. CASE delivery[c].state = "none"
        BY <3>1 DEF Minted, CeremonyInv, MintedOnce
      <3>2. CASE delivery[c].state # "none"
        <4>1. /\ delivery[c].session \in Callbacks /\ session[delivery[c].session] # "none"
              /\ Ch(delivery[c].session) = c
          BY <3>2 DEF CeremonyInv, RowsAgree, OwnDelivery
        <4> QED  BY <3>2, <4>1 DEF Minted, CeremonyInv, MintedOnce
      <3> QED  BY <3>1, <3>2
    <2>3. ASSUME NEW q \in Callbacks, Ch(q) = c, request[q].answer = "success"
          PROVE  Minted(c) = {request[q].named}
      <3>1. delivery[c].state # "none" /\ request[q].named = delivery[c].session
        BY <2>3 DEF CeremonyInv, Names, Ch
      <3> QED  BY <2>2, <3>1
    <2> QED  BY <2>1, <2>2, <2>3
  <1> QED  BY <1>1, CeremonyInvariance, PTL

\* The envelope of a session that stays active is erased only once a delivery
\* holds its cookie (issuance.ts, sweep-worker.ts).
THEOREM NoOrphanHolds == Spec => []NoOrphanSession
  <1>1. CeremonyInv => NoOrphanSession
    BY DEF CeremonyInv
  <1> QED  BY <1>1, CeremonyInvariance, PTL
=============================================================================
