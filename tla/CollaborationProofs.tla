-------------------------- MODULE CollaborationProofs --------------------------
(***************************************************************************)
(* Theorems of Collaboration, for every value of its constants.            *)
(*                                                                         *)
(* The argument: three steps write a membership or a consent, the commit   *)
(* of a transfer, the confirmation of an invitation and a departure; each  *)
(* finds the space with its one Primary and leaves it so.  An invitation   *)
(* under permission 26 is created by that Primary, and the commit that     *)
(* changes the Primary cancels it.                                         *)
(*                                                                         *)
(* The invitations: every step but an acceptance lets the rows follow (a   *)
(* row that is accepted stays as it is, one that is over is not reopened,  *)
(* a candidate enters only while not a member); an acceptance seats one    *)
(* member in a place that was empty.  Hence each seat comes of one row,    *)
(* a destination has one open row, and the stays of a subject are disjoint.*)
(***************************************************************************)
EXTENDS Collaboration, FiniteSetTheorems, TLAPS

ConsentRow == [member : Members, role : Roles, source : Sources,
               grant : Grants \cup {None}, current : BOOLEAN]

\* The types of the fields of a row, which the proofs seldom look into.
MaybeMember == Members \cup {None}
MaybeSubject == Subjects \cup {None}
MaybeRole == InvitableRoles \cup {None}
MaybeDest == Destinations \cup {None}
CodeStates == {"none", "active", "consumed", "invalidated"}
CeremonyStates == {"none", "open", "accepted", "consumed", "declined", "invalidated"}
ProofStates == {"none", "challenged", "proved", "exhausted"}
AttemptCounts == 0 .. MaxChannelAttempts
ConfirmationStates == {"none", "requested", "confirmed", "rejected"}

MemberStates == {"absent", "active", "ended"}
MaybeMemberRole == Roles \cup {None}
MaybeSource == Sources \cup {None}
MaybeInstant == Instants \cup {None}
MaybeGrant == Grants \cup {None}

MemberRow == [subject : MaybeSubject, role : MaybeMemberRole, status : MemberStates, version : Nat,
              via : MaybeSource, ended : MaybeInstant]

InviteRow == [state : InviteStates, role : MaybeRole, creator : MaybeMember, dest : MaybeDest,
              issued : Nat, expires : Nat, disclosure : Nat, code : CodeStates,
              candidate : MaybeSubject, ceremony : CeremonyStates, proof : ProofStates,
              attempts : AttemptCounts, attached : MaybeSubject, until : Nat,
              confirmation : ConfirmationStates, confirmBy : Nat, member : MaybeMember]

TransferStates == LiveTransfer \cup OverTransfer \cup {"absent"}

TransferRow == [state : TransferStates, proposer : MaybeMember, recipient : MaybeMember,
                ownership : Nat, proposerVersion : Nat, recipientVersion : Nat, disclosure : Nat,
                expires : Nat, acceptedAt : MaybeInstant, confirmedAt : MaybeInstant,
                grant : MaybeGrant]

\* An invitation that exists has its role, creator and destination, and an
\* open ceremony whose channel is still to be proved has an attempt left.
InviteFacts(row) ==
    /\ row.state # "absent" =>
          row.role \in InvitableRoles /\ row.creator \in Members /\ row.dest \in Destinations
    /\ row.ceremony = "open" /\ row.proof = "challenged" => row.attempts < MaxChannelAttempts

GoodInvite == {row \in InviteRow : InviteFacts(row)}

\* A workflow that exists is between two members.
TransferFacts(row) ==
    row.state # "absent" =>
        row.proposer \in Members /\ row.recipient \in Members /\ row.proposer # row.recipient

GoodTransfer == {row \in TransferRow : TransferFacts(row)}

TypeInv ==
    /\ members \in [Members -> MemberRow]
    /\ space \in [primary : Members, version : Nat]
    /\ consents \subseteq ConsentRow
    /\ invitations \in [Invites -> GoodInvite]
    /\ registry \in Nat /\ now \in Instants
    /\ transfers \in [Transfers -> GoodTransfer]
    /\ grants \in [Grants -> Transfers \cup {None}]

-----------------------------------------------------------------------------
(***************************************************************************)
(* Type correctness.                                                       *)
(***************************************************************************)

\* The typed state has the type the runs check.
LEMMA TypeInvGivesTypeOK == TypeInv => TypeOK
  BY DEF TypeInv, TypeOK, SpaceTypeOK, TransferTypeOK, MemberRow, ConsentRow, InviteRow, TransferRow,
         GoodInvite, GoodTransfer, TransferStates, MemberStates, MaybeMemberRole, MaybeSource, MaybeInstant, MaybeGrant, MaybeMember, MaybeSubject, MaybeRole, MaybeDest, CodeStates, CeremonyStates,
         ProofStates, AttemptCounts, ConfirmationStates

\* The instants are numbers, and never the nobody of an unset field.
LEMMA InstantsType == Instants \subseteq Nat /\ LiveTransfer \cap {"absent"} = {}
  BY BudgetSpaceAssumption DEF Instants, LiveTransfer

\* The empty rows have their types.
LEMMA EmptyRows ==
  /\ NoMember \in MemberRow /\ NoInvite \in GoodInvite /\ NoTransfer \in GoodTransfer
  <1>1. NoMember \in MemberRow
    BY DEF NoMember, MemberRow, MaybeSubject, MaybeMemberRole, MemberStates, MaybeSource, MaybeInstant
  <1>2. NoInvite \in GoodInvite
    BY InvitationsAssumption DEF NoInvite, GoodInvite, InviteRow, InviteFacts, InviteStates, ActiveInvite, MaybeMember, MaybeSubject, MaybeRole, MaybeDest, CodeStates, CeremonyStates,
         ProofStates, AttemptCounts, ConfirmationStates
  <1>3. NoTransfer \in GoodTransfer
    BY DEF NoTransfer, GoodTransfer, TransferRow, TransferFacts, TransferStates, MaybeMember,
           MaybeInstant, MaybeGrant
  <1> QED  BY <1>1, <1>2, <1>3

\* A membership that begins has its type.
LEMMA NewMemberType ==
  ASSUME NEW s \in Subjects \cup {None}, NEW role \in Roles, NEW source \in Sources
  PROVE  NewMember(s, role, source) \in MemberRow
  BY DEF NewMember, MemberRow, MaybeSubject, MaybeMemberRole, MemberStates, MaybeSource, MaybeInstant

\* A consent has its type.
LEMMA ConsentType ==
  ASSUME NEW m \in Members, NEW role \in Roles, NEW source \in Sources, NEW g \in Grants \cup {None}
  PROVE  Consent(m, role, source, g) \in ConsentRow
  BY DEF Consent, ConsentRow

\* Superseding consents keeps them consents.
LEMMA SupersededType ==
  ASSUME consents \subseteq ConsentRow, NEW ms PROVE Superseded(ms) \subseteq ConsentRow
  BY DEF Superseded, ConsentRow

\* What a retired row keeps and loses.
LEMMA RetiredRow ==
  ASSUME NEW row \in GoodInvite, row.state # "absent", NEW to \in InviteStates
  PROVE  /\ Retired(row, to) \in GoodInvite /\ Retired(row, to).state = to
         /\ Retired(row, to).role = row.role /\ Retired(row, to).creator = row.creator
         /\ Retired(row, to).dest = row.dest
  <1>1. row \in InviteRow /\ InviteFacts(row)
    BY DEF GoodInvite
  <1>2. Retired(row, to) \in InviteRow
    <2> DEFINE code == IF row.code = "active" THEN "invalidated" ELSE row.code
               ceremony == IF row.ceremony \in {"open", "accepted"} THEN "invalidated" ELSE row.ceremony
    <2>1. code \in CodeStates /\ ceremony \in CeremonyStates
      BY <1>1 DEF InviteRow, CodeStates, CeremonyStates
    <2>2. Retired(row, to) = [row EXCEPT !.state = to, !.code = code, !.ceremony = ceremony]
      BY <1>1 DEF Retired, InviteRow
    <2> HIDE DEF code, ceremony
    <2> QED  BY <1>1, <2>1, <2>2 DEF InviteRow
  <1>3. /\ Retired(row, to).state = to /\ Retired(row, to).role = row.role
        /\ Retired(row, to).creator = row.creator /\ Retired(row, to).dest = row.dest
        /\ Retired(row, to).ceremony # "open"
    BY <1>1 DEF Retired, InviteRow
  <1>4. InviteFacts(Retired(row, to))
    BY <1>1, <1>3 DEF InviteFacts
  <1> QED  BY <1>2, <1>3, <1>4 DEF GoodInvite

\* A cancelled row is no open invitation any more.
LEMMA CancelledRow ==
  ASSUME NEW row \in GoodInvite, row.state # "absent"
  PROVE  Cancelled(row) \in GoodInvite /\ Cancelled(row).state \notin ActiveInvite /\ Cancelled(row).state # "absent"
  <1>1. {"cancelled", "synthetic_inactive"} \subseteq InviteStates \ (ActiveInvite \cup {"absent"})
    BY DEF InviteStates, ActiveInvite
  <1> QED  BY <1>1, RetiredRow DEF Cancelled

\* An observed row is as it was, or no open invitation any more.
LEMMA ObservedRow ==
  ASSUME NEW row \in GoodInvite
  PROVE  /\ Observed(row) \in GoodInvite
         /\ Observed(row) = row \/ Observed(row).state \notin ActiveInvite
  <1>1. /\ {"expired", "synthetic_inactive"} \subseteq InviteStates \ ActiveInvite
        /\ "absent" \notin ActiveInvite
    BY DEF InviteStates, ActiveInvite
  <1> QED  BY <1>1, RetiredRow DEF Observed

\* A row as it is sent, or kept from being sent.
LEMMA DispatchedRow ==
  ASSUME TypeInv, NEW m \in Members, NEW d \in Destinations, NEW role \in InvitableRoles
  PROVE  /\ Dispatched(m, d, role) \in GoodInvite /\ Suppressed(m, d, role) \in GoodInvite
         /\ Dispatched(m, d, role).creator = m /\ Dispatched(m, d, role).role = role
         /\ Suppressed(m, d, role).state \notin ActiveInvite
  <1> DEFINE sent == Dispatched(m, d, role)
  <1>1. now \in Nat /\ registry \in Nat /\ now + InvitationLife \in Nat
    BY InvitationsAssumption, InstantsType DEF TypeInv
  <1>2. NoInvite \in InviteRow /\ NoInvite.ceremony = "none"
    BY EmptyRows DEF GoodInvite, NoInvite
  <1>3. "pending" \in InviteStates /\ "synthetic" \in InviteStates \ ActiveInvite
    BY DEF InviteStates, ActiveInvite
  <1>4. sent \in InviteRow /\ sent.creator = m /\ sent.role = role /\ sent.dest = d /\ sent.ceremony = "none"
    BY <1>1, <1>2, <1>3 DEF Dispatched, InviteRow, MaybeMember, MaybeDest, MaybeRole, CodeStates
  <1> HIDE DEF sent
  <1>5. Suppressed(m, d, role) = [sent EXCEPT !.state = "synthetic", !.code = "none"]
    BY DEF Suppressed, sent
  <1>6. /\ Suppressed(m, d, role) \in InviteRow /\ Suppressed(m, d, role).creator = m
        /\ Suppressed(m, d, role).role = role /\ Suppressed(m, d, role).dest = d
        /\ Suppressed(m, d, role).ceremony = "none" /\ Suppressed(m, d, role).state = "synthetic"
    BY ZenonT(40), <1>3, <1>4, <1>5 DEF InviteRow, CodeStates
  <1>7. sent \in GoodInvite /\ Suppressed(m, d, role) \in GoodInvite
    BY <1>4, <1>6 DEF GoodInvite, InviteFacts
  <1> QED  BY <1>3, <1>4, <1>6, <1>7 DEF sent

\* A step of an invitation alone keeps the types when the row it writes has its own.
LEMMA WriteKeepsTypes ==
  ASSUME TypeInv, NEW i \in Invites, NEW row \in GoodInvite, Write(i, row)
  PROVE  TypeInv'
  BY DEF TypeInv, Write, transferVars

\* A creation keeps the types.
LEMMA CreateTypes ==
  ASSUME TypeInv, NEW i \in Invites, NEW m \in Members, NEW d \in Destinations,
         NEW role \in InvitableRoles, NEW known, Create(i, m, d, role, known)
  PROVE  TypeInv'
  <1>1. \A j \in Invites : invitations[j] \in GoodInvite /\ Observed(invitations[j]) \in GoodInvite
    BY ObservedRow DEF TypeInv
  <1>2. Dispatched(m, d, role) \in GoodInvite /\ Suppressed(m, d, role) \in GoodInvite
    BY DispatchedRow
  <1>3. invitations' \in [Invites -> GoodInvite]
    BY <1>1, <1>2 DEF Create
  <1> QED  BY <1>3 DEF Create, TypeInv, transferVars

\* A replacement keeps the types.
LEMMA ReplaceTypes ==
  ASSUME TypeInv, NEW i \in Invites, NEW j \in Invites, NEW m \in Members, Replace(i, j, m)
  PROVE  TypeInv'
  <1>1. invitations[j] \in GoodInvite /\ invitations[j].state = "pending"
    BY DEF TypeInv, Replace
  <1>2. SupersededRow(invitations[j]) \in GoodInvite
    BY <1>1, RetiredRow DEF SupersededRow, InviteStates
  <1>3. Dispatched(m, invitations[j].dest, invitations[j].role) \in GoodInvite
    <2>1. invitations[j].role \in InvitableRoles
      BY <1>1 DEF GoodInvite, InviteFacts
    <2>2. invitations[j].dest \in Destinations
      BY <1>1 DEF GoodInvite, InviteFacts
    <2> QED  BY <2>1, <2>2, DispatchedRow
  <1>4. invitations' \in [Invites -> GoodInvite]
    BY <1>2, <1>3 DEF Replace, TypeInv
  <1> QED  BY <1>4 DEF Replace, TypeInv, transferVars

\* An edit of the claim's fields of an open invitation keeps its type.
LEMMA ClaimRow ==
  ASSUME NEW row \in GoodInvite, row.state # "absent",
         NEW ceremony \in CeremonyStates, NEW proof \in ProofStates, NEW attempts \in AttemptCounts,
         NEW attached \in MaybeSubject, NEW candidate \in MaybeSubject, NEW until \in Nat,
         ceremony = "open" /\ proof = "challenged" => attempts < MaxChannelAttempts
  PROVE  [row EXCEPT !.ceremony = ceremony, !.proof = proof, !.attempts = attempts,
                     !.attached = attached, !.candidate = candidate, !.until = until] \in GoodInvite
  <1> DEFINE edited == [row EXCEPT !.ceremony = ceremony, !.proof = proof, !.attempts = attempts,
                     !.attached = attached, !.candidate = candidate, !.until = until]
  <1>1. row \in InviteRow /\ InviteFacts(row)
    BY DEF GoodInvite
  <1>2. /\ edited \in InviteRow /\ edited.state = row.state /\ edited.role = row.role
        /\ edited.creator = row.creator /\ edited.dest = row.dest /\ edited.ceremony = ceremony
        /\ edited.proof = proof /\ edited.attempts = attempts
    BY <1>1 DEF InviteRow
  <1> HIDE DEF edited
  <1>3. InviteFacts(edited)
    BY <1>1, <1>2 DEF InviteFacts
  <1>4. edited \in GoodInvite
    BY <1>2, <1>3 DEF GoodInvite
  <1> QED  BY <1>4 DEF edited

\* A resolved link keeps the types.
LEMMA ResolveTypes ==
  ASSUME TypeInv, NEW i \in Invites, Resolve(i)
  PROVE  TypeInv'
  <1> DEFINE row == Observed(invitations[i])
             until == Earliest(now + CeremonyLife, row.expires)
             opened == [row EXCEPT !.ceremony = "open", !.proof = "challenged", !.attempts = 0,
                                   !.attached = None, !.until = until]
  <1>1. row \in GoodInvite
    BY ObservedRow DEF TypeInv
  <1>2. until \in Nat
    <2>1. row.expires \in Nat /\ now \in Nat /\ CeremonyLife \in Nat
      BY <1>1, InstantsType, InvitationsAssumption DEF GoodInvite, InviteRow, TypeInv
    <2> QED  BY <2>1 DEF Earliest
  <1>3. CASE row.code = "active" /\ row.state = "pending"
    <2>1. Write(i, opened)
      BY <1>3 DEF Resolve
    <2> HIDE DEF row, until
    <2>2. /\ row.candidate \in MaybeSubject /\ 0 \in AttemptCounts /\ 0 < MaxChannelAttempts
          /\ None \in MaybeSubject /\ "open" \in CeremonyStates /\ "challenged" \in ProofStates
          /\ row.candidate = row.candidate
      BY <1>1, InvitationsAssumption
      DEF GoodInvite, InviteRow, MaybeSubject, AttemptCounts, CeremonyStates, ProofStates
    <2>3. [row EXCEPT !.ceremony = "open", !.proof = "challenged", !.attempts = 0, !.attached = None,
                      !.candidate = row.candidate, !.until = until] \in GoodInvite
      BY <1>1, <1>2, <1>3, <2>2, ClaimRow
    <2>4. opened = [row EXCEPT !.ceremony = "open", !.proof = "challenged", !.attempts = 0, !.attached = None,
                               !.candidate = row.candidate, !.until = until]
      BY <1>1 DEF GoodInvite, InviteRow
    <2>5. opened \in GoodInvite
      BY <2>3, <2>4
    <2> QED  BY <2>1, <2>5, WriteKeepsTypes
  <1>4. CASE ~ (row.code = "active" /\ row.state = "pending")
    <2>1. Write(i, row)
      BY <1>4 DEF Resolve
    <2> QED  BY <1>1, <2>1, WriteKeepsTypes
  <1> QED  BY <1>3, <1>4

\* A usable ceremony's invitation exists, and its ceremony is open.
LEMMA UsableRow ==
  ASSUME NEW row, Usable(row)
  PROVE  row.state \in ActiveInvite /\ row.state # "absent" /\ row.ceremony = "open"
  BY DEF Usable, ActiveInvite

\* A guess of the channel challenge keeps the types: it had an attempt left.
LEMMA VerifyTypes ==
  ASSUME TypeInv, NEW i \in Invites, NEW right \in BOOLEAN, VerifyChannel(i, right)
  PROVE  TypeInv'
  <1> DEFINE row == invitations[i]
             tried == [row EXCEPT !.attempts = row.attempts + 1]
  <1>1. /\ row \in GoodInvite /\ row.state # "absent" /\ row.state \in InviteStates
        /\ row.ceremony = "open" /\ row.proof = "challenged"
    BY UsableRow DEF TypeInv, VerifyChannel, GoodInvite, InviteRow
  <1>2. row.attempts + 1 \in AttemptCounts
    <2>1. row.attempts \in 0 .. MaxChannelAttempts /\ row.attempts < MaxChannelAttempts
      BY <1>1 DEF GoodInvite, InviteRow, InviteFacts, AttemptCounts
    <2> QED  BY <2>1, InvitationsAssumption DEF AttemptCounts
  <1>3. /\ row.candidate \in MaybeSubject /\ row.attached \in MaybeSubject /\ row.until \in Nat
        /\ row.ceremony \in CeremonyStates
    BY <1>1 DEF GoodInvite, InviteRow
  <1>4. ASSUME NEW proof \in {"proved", "exhausted"}
        PROVE  [tried EXCEPT !.proof = proof] \in GoodInvite
    <2>1. proof \in ProofStates /\ proof # "challenged"
      BY <1>4 DEF ProofStates
    <2>2. [row EXCEPT !.ceremony = row.ceremony, !.proof = proof, !.attempts = row.attempts + 1,
                      !.attached = row.attached, !.candidate = row.candidate, !.until = row.until] \in GoodInvite
      BY <1>1, <1>2, <1>3, <2>1, ClaimRow
    <2>3. [tried EXCEPT !.proof = proof]
            = [row EXCEPT !.ceremony = row.ceremony, !.proof = proof, !.attempts = row.attempts + 1,
                      !.attached = row.attached, !.candidate = row.candidate, !.until = row.until]
      BY <1>1 DEF GoodInvite, InviteRow
    <2> QED  BY <2>2, <2>3
  <1>5. ASSUME row.attempts + 1 < MaxChannelAttempts
        PROVE  tried \in GoodInvite
    <2>1. row.proof \in ProofStates
      BY <1>1 DEF GoodInvite, InviteRow
    <2>2. [row EXCEPT !.ceremony = row.ceremony, !.proof = row.proof, !.attempts = row.attempts + 1,
                      !.attached = row.attached, !.candidate = row.candidate, !.until = row.until] \in GoodInvite
      BY ZenonT(40), <1>1, <1>2, <1>3, <1>5, <2>1, ClaimRow
    <2>3. tried = [row EXCEPT !.ceremony = row.ceremony, !.proof = row.proof, !.attempts = row.attempts + 1,
                      !.attached = row.attached, !.candidate = row.candidate, !.until = row.until]
      BY <1>1 DEF GoodInvite, InviteRow
    <2> QED  BY <2>2, <2>3
  <1>6. tried.attempts = row.attempts + 1 /\ [tried EXCEPT !.proof = "exhausted"].state = row.state
    BY <1>1 DEF GoodInvite, InviteRow
  <1>7. CASE right
    <2>1. Write(i, [tried EXCEPT !.proof = "proved"])
      BY <1>7 DEF VerifyChannel
    <2> HIDE DEF tried
    <2> QED  BY <1>4, <2>1, WriteKeepsTypes
  <1>8. CASE ~ right /\ row.attempts + 1 >= MaxChannelAttempts
    <2>1. Write(i, Retired([tried EXCEPT !.proof = "exhausted"], row.state))
      BY <1>6, <1>8 DEF VerifyChannel
    <2>2. [tried EXCEPT !.proof = "exhausted"] \in GoodInvite
      BY <1>4
    <2> HIDE DEF tried
    <2>3. Retired([tried EXCEPT !.proof = "exhausted"], row.state) \in GoodInvite
      BY <1>1, <1>6, <2>2, RetiredRow
    <2> HIDE DEF row
    <2> QED  BY <2>1, <2>3, WriteKeepsTypes
  <1>9. CASE ~ right /\ ~ (row.attempts + 1 >= MaxChannelAttempts)
    <2>1. Write(i, tried)
      BY <1>6, <1>9 DEF VerifyChannel
    <2>2. row.attempts + 1 < MaxChannelAttempts
      BY <1>2, <1>9, InvitationsAssumption DEF AttemptCounts
    <2>3. tried \in GoodInvite
      BY <1>5, <2>2
    <2> HIDE DEF tried
    <2> QED  BY <2>1, <2>3, WriteKeepsTypes
  <1> QED  BY <1>7, <1>8, <1>9

\* A decline keeps the types.
LEMMA DeclineInviteTypes ==
  ASSUME TypeInv, NEW i \in Invites, DeclineInvite(i)
  PROVE  TypeInv'
  <1> DEFINE row == invitations[i]
             declined == [row EXCEPT !.ceremony = "declined"]
  <1>1. row \in InviteRow /\ InviteFacts(row) /\ row.state # "absent"
    BY UsableRow DEF TypeInv, DeclineInvite, GoodInvite
  <1>2. /\ declined \in InviteRow /\ declined.state = row.state /\ declined.role = row.role
        /\ declined.creator = row.creator /\ declined.dest = row.dest /\ declined.ceremony = "declined"
    BY <1>1 DEF InviteRow, CeremonyStates
  <1>3. Write(i, Retired(declined, "declined"))
    BY DEF DeclineInvite
  <1> HIDE DEF declined
  <1>4. declined \in GoodInvite /\ declined.state # "absent" /\ "declined" \in InviteStates
    BY <1>1, <1>2 DEF GoodInvite, InviteFacts, InviteStates
  <1>5. Retired(declined, "declined") \in GoodInvite
    BY <1>4, RetiredRow
  <1> QED  BY <1>3, <1>5, WriteKeepsTypes

\* An attachment keeps the types.
LEMMA AttachTypes ==
  ASSUME TypeInv, NEW i \in Invites, NEW s \in Subjects, Attach(i, s)
  PROVE  TypeInv'
  <1> DEFINE row == invitations[i]
             attached == [row EXCEPT !.attached = s, !.candidate = s]
  <1>1. /\ row \in GoodInvite /\ row.state # "absent" /\ row.proof = "proved"
        /\ row.ceremony \in CeremonyStates /\ row.proof \in ProofStates
        /\ row.attempts \in AttemptCounts /\ row.until \in Nat
    BY UsableRow DEF TypeInv, Attach, GoodInvite, InviteRow
  <1>2. [row EXCEPT !.ceremony = row.ceremony, !.proof = row.proof, !.attempts = row.attempts,
                    !.attached = s, !.candidate = s, !.until = row.until] \in GoodInvite
    BY <1>1, ClaimRow DEF MaybeSubject
  <1>3. attached = [row EXCEPT !.ceremony = row.ceremony, !.proof = row.proof, !.attempts = row.attempts,
                               !.attached = s, !.candidate = s, !.until = row.until]
    BY <1>1 DEF GoodInvite, InviteRow
  <1>4. attached \in GoodInvite /\ Cancelled(row) \in GoodInvite
    BY <1>1, <1>2, <1>3, CancelledRow
  <1>5. Write(i, attached) \/ Write(i, Cancelled(row))
    BY DEF Attach
  <1> HIDE DEF row, attached
  <1> QED  BY <1>4, <1>5, WriteKeepsTypes

\* An acceptance keeps the types.
LEMMA AcceptInviteTypes ==
  ASSUME TypeInv, NEW i \in Invites, AcceptInvite(i)
  PROVE  TypeInv'
  <1> DEFINE row == invitations[i]
             by == Earliest(now + ConfirmationLife, row.expires)
             accepted == [row EXCEPT !.state = "awaiting_confirmation", !.ceremony = "accepted",
                                     !.confirmation = "requested", !.confirmBy = by]
  <1>1. row \in GoodInvite /\ row \in InviteRow /\ InviteFacts(row) /\ row.state # "absent"
    BY UsableRow DEF TypeInv, AcceptInvite, GoodInvite
  <1>2. by \in Nat
    <2>1. row.expires \in Nat /\ now \in Nat /\ ConfirmationLife \in Nat
      BY <1>1, InstantsType, InvitationsAssumption DEF InviteRow, TypeInv
    <2> QED  BY <2>1 DEF Earliest
  <1>3. Write(i, accepted) \/ Write(i, Cancelled(row))
    BY DEF AcceptInvite
  <1> HIDE DEF by
  <1>4. /\ "awaiting_confirmation" \in InviteStates /\ "accepted" \in CeremonyStates
        /\ "requested" \in ConfirmationStates
    BY DEF InviteStates, ActiveInvite, CeremonyStates, ConfirmationStates
  <1>5. /\ accepted \in InviteRow /\ accepted.role = row.role /\ accepted.creator = row.creator
        /\ accepted.dest = row.dest /\ accepted.ceremony = "accepted"
    BY <1>1, <1>2, <1>4 DEF InviteRow
  <1> HIDE DEF accepted
  <1>6. accepted \in GoodInvite /\ Cancelled(row) \in GoodInvite
    BY <1>1, <1>5, CancelledRow DEF GoodInvite, InviteFacts
  <1> HIDE DEF row
  <1> QED  BY <1>3, <1>6, WriteKeepsTypes

\* A cancellation keeps the types.
LEMMA CancelTypes ==
  ASSUME TypeInv, NEW i \in Invites, NEW m \in Members, Cancel(i, m)
  PROVE  TypeInv'
  <1>1. invitations[i] \in GoodInvite /\ invitations[i].state # "absent" /\ Write(i, Cancelled(invitations[i]))
    BY DEF TypeInv, Cancel, ActiveInvite
  <1> QED  BY <1>1, CancelledRow, WriteKeepsTypes

\* A rejection keeps the types.
LEMMA RejectTypes ==
  ASSUME TypeInv, NEW i \in Invites, NEW m \in Members, RejectAcceptance(i, m)
  PROVE  TypeInv'
  <1> DEFINE row == invitations[i]
             rejected == [row EXCEPT !.confirmation = "rejected"]
  <1>1. row \in InviteRow /\ InviteFacts(row) /\ row.state # "absent" /\ Write(i, Cancelled(rejected))
    BY DEF TypeInv, GoodInvite, RejectAcceptance, Decidable
  <1>2. /\ rejected \in InviteRow /\ rejected.role = row.role /\ rejected.creator = row.creator
        /\ rejected.dest = row.dest /\ rejected.ceremony = row.ceremony /\ rejected.state = row.state
        /\ rejected.proof = row.proof /\ rejected.attempts = row.attempts
    BY <1>1 DEF InviteRow, ConfirmationStates
  <1> HIDE DEF rejected
  <1>3. rejected \in GoodInvite /\ rejected.state # "absent"
    BY <1>1, <1>2 DEF GoodInvite, InviteFacts
  <1> QED  BY <1>1, <1>3, CancelledRow, WriteKeepsTypes

\* A list keeps the types.
LEMMA ListTypes ==
  ASSUME TypeInv, NEW m \in Members, List(m)
  PROVE  TypeInv'
  <1>1. invitations' \in [Invites -> GoodInvite]
    BY ObservedRow DEF List, TypeInv
  <1> QED  BY <1>1 DEF List, TypeInv, transferVars

\* The row of an accepted invitation, and the records it leaves behind.
LEMMA AcceptedRows ==
  ASSUME TypeInv, NEW i \in Invites, NEW n \in Members, invitations[i].state = "awaiting_confirmation"
  PROVE  LET accepted == AcceptedRow(invitations[i], n)
         IN  /\ accepted \in GoodInvite /\ accepted.state = "accepted"
             /\ SiblingsCancelled(i, accepted) \in [Invites -> GoodInvite]
  <1> DEFINE row == invitations[i]
             accepted == AcceptedRow(row, n)
  <1>1. row \in InviteRow /\ InviteFacts(row) /\ row.state # "absent"
    BY DEF TypeInv, GoodInvite
  <1>2. /\ "accepted" \in InviteStates /\ "consumed" \in CodeStates /\ "consumed" \in CeremonyStates
        /\ "confirmed" \in ConfirmationStates /\ n \in MaybeMember
    BY DEF InviteStates, CodeStates, CeremonyStates, ConfirmationStates, MaybeMember
  <1>3. /\ accepted \in InviteRow /\ accepted.role = row.role /\ accepted.creator = row.creator
        /\ accepted.dest = row.dest /\ accepted.ceremony = "consumed" /\ accepted.state = "accepted"
    BY <1>1, <1>2 DEF AcceptedRow, InviteRow
  <1> HIDE DEF accepted
  <1>4. accepted \in GoodInvite
    BY <1>1, <1>3 DEF GoodInvite, InviteFacts
  <1>5. ASSUME NEW j \in Invites, invitations[j].state \in ActiveInvite \cup {"synthetic"}
        PROVE  Cancelled(invitations[j]) \in GoodInvite
    BY <1>5, CancelledRow DEF TypeInv, ActiveInvite
  <1>6. SiblingsCancelled(i, accepted) \in [Invites -> GoodInvite]
    BY <1>4, <1>5 DEF SiblingsCancelled, TypeInv
  <1> QED  BY <1>3, <1>4, <1>6 DEF accepted

\* A confirmation keeps the types.
LEMMA ConfirmAcceptanceTypes ==
  ASSUME TypeInv, NEW i \in Invites, NEW m \in Members, NEW n \in Members, ConfirmAcceptance(i, m, n)
  PROVE  TypeInv'
  <1> DEFINE row == invitations[i]
  <1>1. /\ row.state = "awaiting_confirmation" /\ row.state # "absent" /\ row \in GoodInvite
        /\ row.role \in InvitableRoles
    BY DEF ConfirmAcceptance, Decidable, TypeInv, GoodInvite, InviteFacts
  <1>2. row.attached \in Subjects \cup {None} /\ row.role \in Roles /\ i \in Sources
    BY <1>1 DEF GoodInvite, InviteRow, MaybeSubject, InvitableRoles, Roles, Sources
  <1>3. NewMember(row.attached, row.role, i) \in MemberRow /\ Consent(n, row.role, i, None) \in ConsentRow
    BY <1>2, NewMemberType, ConsentType
  <1>4. invitations' \in [Invites -> GoodInvite]
    BY <1>1, AcceptedRows DEF ConfirmAcceptance
  <1>5. /\ members' = [members EXCEPT ![n] = NewMember(row.attached, row.role, i)]
        /\ consents' = consents \cup {Consent(n, row.role, i, None)}
        /\ UNCHANGED <<space, registry, now, transfers, grants>>
    BY DEF ConfirmAcceptance, transferVars
  <1> QED  BY <1>3, <1>4, <1>5 DEF TypeInv

\* Every invitation command keeps the types.
LEMMA InvitationTypes == ASSUME TypeInv, InvitationStep PROVE TypeInv'
  BY CreateTypes, ReplaceTypes, CancelTypes, ConfirmAcceptanceTypes, RejectTypes, ListTypes,
     ResolveTypes, VerifyTypes, DeclineInviteTypes, AttachTypes, AcceptInviteTypes
  DEF InvitationStep

\* A proposal keeps the types.
LEMMA ProposeTypes ==
  ASSUME TypeInv, NEW t \in Transfers, NEW p \in Members, NEW r \in Members, Propose(t, p, r)
  PROVE  TypeInv'
  <1> DEFINE row == [NoTransfer EXCEPT !.state = "proposed", !.proposer = p, !.recipient = r,
                !.ownership = space.version, !.proposerVersion = members[p].version,
                !.recipientVersion = members[r].version, !.disclosure = registry,
                !.expires = now + TransferLife]
  <1>1. /\ NoTransfer \in TransferRow /\ "proposed" \in TransferStates
        /\ p \in MaybeMember /\ r \in MaybeMember
    BY EmptyRows DEF GoodTransfer, TransferStates, LiveTransfer, MaybeMember
  <1>2. /\ space.version \in Nat /\ members[p].version \in Nat /\ members[r].version \in Nat
        /\ registry \in Nat /\ now + TransferLife \in Nat
    BY TransferAssumption, InstantsType DEF TypeInv, MemberRow
  <1>3. row \in TransferRow /\ row.proposer = p /\ row.recipient = r
    BY <1>1, <1>2 DEF TransferRow
  <1>4. transfers' = [transfers EXCEPT ![t] = row] /\ p # r /\ UNCHANGED <<rowVars, grants>>
    BY DEF Propose
  <1> HIDE DEF row
  <1>5. row \in GoodTransfer
    BY <1>3, <1>4 DEF GoodTransfer, TransferFacts
  <1> QED  BY <1>4, <1>5 DEF TypeInv, rowVars

\* A row of a live workflow that changes its state alone keeps its type.
LEMMA StateRow ==
  ASSUME NEW row \in GoodTransfer, row.state # "absent", NEW to \in TransferStates
  PROVE  /\ [row EXCEPT !.state = to] \in GoodTransfer
         /\ [row EXCEPT !.state = to].proposer = row.proposer
         /\ [row EXCEPT !.state = to].recipient = row.recipient
         /\ [row EXCEPT !.state = to].grant = row.grant
         /\ [row EXCEPT !.state = to].state = to
  <1>1. row \in TransferRow /\ TransferFacts(row)
    BY DEF GoodTransfer
  <1>2. /\ [row EXCEPT !.state = to] \in TransferRow
        /\ [row EXCEPT !.state = to].proposer = row.proposer
        /\ [row EXCEPT !.state = to].recipient = row.recipient
        /\ [row EXCEPT !.state = to].grant = row.grant
        /\ [row EXCEPT !.state = to].state = to
    BY <1>1 DEF TransferRow
  <1> QED  BY <1>1, <1>2 DEF GoodTransfer, TransferFacts

\* A workflow that is not absent has two different members for its parties.
LEMMA PartiesAreMembers ==
  ASSUME TypeInv, NEW t \in Transfers, transfers[t].state # "absent"
  PROVE  /\ transfers[t] \in GoodTransfer /\ transfers[t] \in TransferRow
         /\ transfers[t].proposer \in Members /\ transfers[t].recipient \in Members
         /\ transfers[t].proposer # transfers[t].recipient
  BY DEF TypeInv, GoodTransfer, TransferFacts

\* A workflow's standing tells its state, and is a state it can close in.
LEMMA StandingState ==
  ASSUME NEW t \in Transfers
  PROVE  /\ Standing(t) # "over" => transfers[t].state \in LiveTransfer /\ transfers[t].state # "absent"
         /\ Standing(t) \in {"over", "expired", "invalidated", "live"}
         /\ Standing(t) = "live" => ~ Stale(transfers[t]) /\ ~ Expired(transfers[t])
         /\ {"expired", "invalidated", "declined", "withdrawn", "committed"} \subseteq TransferStates
  BY DEF Standing, LiveTransfer, TransferStates, OverTransfer

\* Closing, declining and withdrawing keep the types.
LEMMA ClosingTypes ==
  ASSUME TypeInv, NEW t \in Transfers, NEW to \in TransferStates, transfers[t].state # "absent",
         transfers' = [transfers EXCEPT ![t] = [@ EXCEPT !.state = to]], UNCHANGED <<rowVars, grants>>
  PROVE  TypeInv'
  <1>1. [transfers[t] EXCEPT !.state = to] \in GoodTransfer
    BY PartiesAreMembers, StateRow
  <1>2. transfers' \in [Transfers -> GoodTransfer]
    BY <1>1 DEF TypeInv
  <1> QED  BY <1>2 DEF TypeInv, rowVars

\* Superseding consents and adding those of a commit keeps them consents.
LEMMA CommitConsents ==
  ASSUME TypeInv, NEW t \in Transfers, NEW row \in GoodTransfer, row.state # "absent"
  PROVE  ConsentsAfter(t, row) \subseteq ConsentRow
  <1>1. row.proposer \in Members /\ row.recipient \in Members /\ row.grant \in Grants \cup {None}
    BY DEF GoodTransfer, TransferFacts, TransferRow, MaybeGrant
  <1>2. t \in Sources /\ "primary_owner" \in Roles /\ "co_owner" \in Roles /\ None \in Grants \cup {None}
    BY DEF Sources, Roles
  <1>3. /\ Consent(row.recipient, "primary_owner", t, None) \in ConsentRow
        /\ Consent(row.proposer, "co_owner", t, row.grant) \in ConsentRow
    BY <1>1, <1>2, ConsentType
  <1>4. Superseded({row.proposer, row.recipient}) \subseteq ConsentRow
    BY SupersededType DEF TypeInv
  <1> QED  BY <1>3, <1>4 DEF ConsentsAfter

\* What a commit does to the memberships.
LEMMA HandOverRows ==
  ASSUME TypeInv, NEW row \in GoodTransfer, row.state # "absent"
  PROVE  /\ HandOver(row) \in [Members -> MemberRow]
         /\ HandOver(row)[row.proposer].role = "co_owner"
         /\ HandOver(row)[row.recipient].role = "primary_owner"
         /\ \A m \in Members : /\ HandOver(row)[m].status = members[m].status
                               /\ HandOver(row)[m].subject = members[m].subject
                               /\ HandOver(row)[m].via = members[m].via
                               /\ HandOver(row)[m].ended = members[m].ended
         /\ \A m \in Members \ {row.proposer, row.recipient} : HandOver(row)[m] = members[m]
  <1>1. row.proposer \in Members /\ row.recipient \in Members /\ row.proposer # row.recipient
    BY DEF GoodTransfer, TransferFacts
  <1>2. ASSUME NEW m \in Members, NEW role \in Roles
        PROVE  /\ Taking(m, role) \in MemberRow /\ Taking(m, role).role = role
               /\ Taking(m, role).status = members[m].status
               /\ Taking(m, role).subject = members[m].subject /\ Taking(m, role).via = members[m].via
               /\ Taking(m, role).ended = members[m].ended
    <2>1. members[m] \in MemberRow /\ role \in MaybeMemberRole /\ members[m].version + 1 \in Nat
      BY DEF TypeInv, MemberRow, MaybeMemberRole
    <2> QED  BY <2>1 DEF Taking, MemberRow
  <1>3. "co_owner" \in Roles /\ "primary_owner" \in Roles
    BY DEF Roles
  <1> QED  BY <1>1, <1>2, <1>3 DEF HandOver, TypeInv

\* What losing permission 26 does to the invitations.
LEMMA PermissionLostRows ==
  ASSUME TypeInv, NEW m
  PROVE  /\ PermissionLost(m) \in [Invites -> GoodInvite]
         /\ \A i \in Invites : \/ PermissionLost(m)[i].state \notin ActiveInvite
                               \/ /\ PermissionLost(m)[i] = invitations[i]
                                  /\ ~ (invitations[i].creator = m /\ Permission(invitations[i].role) = "p26")
  <1>1. ASSUME NEW i \in Invites, invitations[i].state \in ActiveInvite
        PROVE  Cancelled(invitations[i]) \in GoodInvite /\ Cancelled(invitations[i]).state \notin ActiveInvite
    BY <1>1, CancelledRow DEF TypeInv, ActiveInvite
  <1> QED  BY <1>1 DEF PermissionLost, TypeInv

\* A commit keeps the types.
LEMMA CommitTypes ==
  ASSUME TypeInv, NEW t \in Transfers, NEW row \in GoodTransfer, row.state # "absent", Commit(t, row),
         grants' \in [Grants -> Transfers \cup {None}]
  PROVE  TypeInv'
  <1>1. row.recipient \in Members
    BY DEF GoodTransfer, TransferFacts
  <1>2. members' \in [Members -> MemberRow]
    BY HandOverRows DEF Commit
  <1>3. space' \in [primary : Members, version : Nat]
    BY <1>1 DEF Commit, SpaceAfter, TypeInv
  <1>4. consents' \subseteq ConsentRow
    BY CommitConsents DEF Commit
  <1>5. invitations' \in [Invites -> GoodInvite]
    BY PermissionLostRows DEF Commit, OpenWorkAfter
  <1>6. transfers' \in [Transfers -> GoodTransfer]
    <2>1. [row EXCEPT !.state = "committed"] \in GoodTransfer
      BY StateRow DEF TransferStates, OverTransfer
    <2> QED  BY <2>1 DEF Commit, TypeInv
  <1> QED  BY <1>2, <1>3, <1>4, <1>5, <1>6 DEF Commit, TypeInv

\* The recipient's leg keeps the type of its row.
LEMMA AcceptedLeg ==
  ASSUME NEW row \in GoodTransfer, row.state # "absent", NEW at \in Instants
  PROVE  LET leg == [row EXCEPT !.state = "recipient_accepted", !.acceptedAt = at]
         IN  /\ leg \in GoodTransfer /\ leg.state # "absent"
             /\ leg.proposer = row.proposer /\ leg.recipient = row.recipient
  <1> DEFINE leg == [row EXCEPT !.state = "recipient_accepted", !.acceptedAt = at]
  <1>1. row \in TransferRow /\ TransferFacts(row)
    BY DEF GoodTransfer
  <1>2. "recipient_accepted" \in TransferStates /\ at \in MaybeInstant
    BY DEF TransferStates, LiveTransfer, MaybeInstant
  <1>3. /\ leg \in TransferRow /\ leg.proposer = row.proposer
        /\ leg.recipient = row.recipient /\ leg.state = "recipient_accepted"
    BY <1>1, <1>2 DEF TransferRow
  <1> HIDE DEF leg
  <1>4. leg \in GoodTransfer /\ leg.state # "absent"
    BY <1>1, <1>3 DEF GoodTransfer, TransferFacts
  <1> QED  BY <1>3, <1>4 DEF leg

\* The Primary's leg keeps the type of its row.
LEMMA ConfirmedLeg ==
  ASSUME NEW row \in GoodTransfer, row.state # "absent", NEW at \in Instants, NEW g \in Grants
  PROVE  LET leg == [row EXCEPT !.state = "primary_confirmed", !.confirmedAt = at, !.grant = g]
         IN  /\ leg \in GoodTransfer /\ leg.state # "absent"
             /\ leg.proposer = row.proposer /\ leg.recipient = row.recipient
  <1> DEFINE leg == [row EXCEPT !.state = "primary_confirmed", !.confirmedAt = at, !.grant = g]
  <1>1. row \in TransferRow /\ TransferFacts(row)
    BY DEF GoodTransfer
  <1>2. "primary_confirmed" \in TransferStates /\ at \in MaybeInstant /\ g \in MaybeGrant
    BY DEF TransferStates, LiveTransfer, MaybeInstant, MaybeGrant
  <1>3. /\ leg \in TransferRow /\ leg.proposer = row.proposer
        /\ leg.recipient = row.recipient /\ leg.state = "primary_confirmed"
    BY <1>1, <1>2 DEF TransferRow
  <1> HIDE DEF leg
  <1>4. leg \in GoodTransfer /\ leg.state # "absent"
    BY <1>1, <1>3 DEF GoodTransfer, TransferFacts
  <1> QED  BY <1>3, <1>4 DEF leg

\* A transfer row that changes, alone or with the grants, keeps the types.
LEMMA TransferWriteTypes ==
  ASSUME TypeInv, NEW t \in Transfers, NEW row \in GoodTransfer,
         transfers' = [transfers EXCEPT ![t] = row], UNCHANGED rowVars,
         grants' \in [Grants -> Transfers \cup {None}]
  PROVE  TypeInv'
  BY DEF TypeInv, rowVars

\* An acceptance of a transfer keeps the types.
LEMMA AcceptTypes ==
  ASSUME TypeInv, NEW t \in Transfers, Accept(t)
  PROVE  TypeInv'
  <1> DEFINE row == transfers[t]
             accepted == [row EXCEPT !.state = "recipient_accepted", !.acceptedAt = now]
  <1>1. row \in GoodTransfer /\ row.state # "absent" /\ now \in Instants /\ UNCHANGED grants
        /\ grants \in [Grants -> Transfers \cup {None}]
    BY StandingState DEF Accept, TypeInv
  <1>2. accepted \in GoodTransfer /\ accepted.state # "absent"
    BY <1>1, AcceptedLeg
  <1>3. \/ transfers' = [transfers EXCEPT ![t] = accepted] /\ UNCHANGED rowVars
        \/ Commit(t, accepted)
    BY DEF Accept
  <1> HIDE DEF accepted
  <1> QED  BY <1>1, <1>2, <1>3, TransferWriteTypes, CommitTypes

\* A confirmation of a transfer keeps the types.
LEMMA ConfirmTypes ==
  ASSUME TypeInv, NEW t \in Transfers, NEW g \in Grants, Confirm(t, g)
  PROVE  TypeInv'
  <1> DEFINE row == transfers[t]
             confirmed == [row EXCEPT !.state = "primary_confirmed", !.confirmedAt = now, !.grant = g]
  <1>1. row \in GoodTransfer /\ row.state # "absent" /\ now \in Instants
    BY DEF Confirm, TypeInv
  <1>2. confirmed \in GoodTransfer /\ confirmed.state # "absent"
    BY <1>1, ConfirmedLeg
  <1>3. grants' \in [Grants -> Transfers \cup {None}]
    BY DEF Confirm, TypeInv
  <1>4. \/ UNCHANGED <<rowVars, transfers>>
        \/ transfers' = [transfers EXCEPT ![t] = confirmed] /\ UNCHANGED rowVars
        \/ Commit(t, confirmed)
    BY DEF Confirm, PrimaryLeg
  <1>5. CASE UNCHANGED <<rowVars, transfers>>
    BY <1>3, <1>5 DEF TypeInv, rowVars
  <1> HIDE DEF confirmed
  <1>6. CASE transfers' = [transfers EXCEPT ![t] = confirmed] /\ UNCHANGED rowVars
    BY <1>2, <1>3, <1>6, TransferWriteTypes
  <1>7. CASE Commit(t, confirmed)
    BY <1>2, <1>3, <1>7, CommitTypes
  <1> QED  BY <1>4, <1>5, <1>6, <1>7

\* Every transfer command keeps the types.
LEMMA TransferTypes == ASSUME TypeInv, TransferStep PROVE TypeInv'
  <1>1. ASSUME NEW t \in Transfers, NEW m \in Members, CloseOnLoad(t, m)
        PROVE  TypeInv'
    <2>1. /\ transfers' = [transfers EXCEPT ![t] = [@ EXCEPT !.state = Standing(t)]]
          /\ UNCHANGED <<rowVars, grants>> /\ transfers[t].state # "absent"
          /\ Standing(t) \in TransferStates
      BY <1>1, StandingState DEF CloseOnLoad, Close
    <2> QED  BY <2>1, ClosingTypes
  <1>2. ASSUME NEW t \in Transfers, Decline(t) PROVE TypeInv'
    <2>1. transfers[t].state # "absent" /\ "declined" \in TransferStates
      BY <1>2, StandingState DEF Decline
    <2> QED  BY <1>2, <2>1, ClosingTypes DEF Decline
  <1>3. ASSUME NEW t \in Transfers, Withdraw(t) PROVE TypeInv'
    <2>1. transfers[t].state # "absent" /\ "withdrawn" \in TransferStates
      BY <1>3, StandingState DEF Withdraw
    <2> QED  BY <1>3, <2>1, ClosingTypes DEF Withdraw
  <1> QED  BY <1>1, <1>2, <1>3, ProposeTypes, AcceptTypes, ConfirmTypes DEF TransferStep

\* What a departure does to the memberships.
LEMMA DepartedRows ==
  ASSUME TypeInv, NEW m \in Members, MembershipEnds(m)
  PROVE  /\ members' \in [Members -> MemberRow]
         /\ members'[m].status = "ended"
         /\ \A n \in Members \ {m} : members'[n] = members[n]
         /\ UNCHANGED <<space, consents, invitations, registry, now, transferVars>>
  <1> DEFINE gone == [members[m] EXCEPT !.status = "ended", !.ended = now]
  <1>1. members[m] \in MemberRow /\ now \in MaybeInstant /\ "ended" \in MemberStates
    BY DEF TypeInv, MaybeInstant, MemberStates
  <1>2. gone \in MemberRow /\ gone.status = "ended"
    BY <1>1 DEF MemberRow
  <1>3. members' = [members EXCEPT ![m] = gone]
    BY DEF MembershipEnds
  <1> HIDE DEF gone
  <1> QED  BY <1>2, <1>3 DEF MembershipEnds, TypeInv

\* Time, a new disclosure and a departure keep the types.
LEMMA EnvironmentTypes == ASSUME TypeInv, Environment PROVE TypeInv'
  <1>1. CASE Tick
    <2>1. now' \in Instants
      BY <1>1, BudgetSpaceAssumption DEF Tick, TypeInv, Instants
    <2> QED  BY <1>1, <2>1 DEF Tick, TypeInv, transferVars
  <1>2. CASE RegistryMoves
    BY <1>2 DEF RegistryMoves, TypeInv, transferVars
  <1>3. ASSUME NEW m \in Members, MembershipEnds(m) PROVE TypeInv'
    BY <1>3, DepartedRows DEF TypeInv, transferVars
  <1> QED  BY <1>1, <1>2, <1>3 DEF Environment

\* What a space begins with.
LEMMA InitialRows ==
  ASSUME Init
  PROVE  \E role \in InvitableRoles :
           /\ members = [m \in Members |->
                        IF m = Founder THEN NewMember(FounderSubject, "primary_owner", Creation)
                        ELSE IF m = Partner THEN NewMember(PartnerSubject, role, Creation) ELSE NoMember]
           /\ consents = {Consent(Founder, "primary_owner", Creation, None),
                          Consent(Partner, role, Creation, None)}
  BY DEF Init, SpaceInit

\* The initial state has its types.
LEMMA InitTypes == Init => TypeInv
  <1> SUFFICES ASSUME Init PROVE TypeInv
    OBVIOUS
  <1>1. PICK role \in InvitableRoles :
           /\ members = [m \in Members |->
                        IF m = Founder THEN NewMember(FounderSubject, "primary_owner", Creation)
                        ELSE IF m = Partner THEN NewMember(PartnerSubject, role, Creation) ELSE NoMember]
           /\ consents = {Consent(Founder, "primary_owner", Creation, None),
                          Consent(Partner, role, Creation, None)}
    BY InitialRows
  <1>2. /\ "primary_owner" \in Roles /\ role \in Roles /\ Creation \in Sources
        /\ Founder \in Members /\ Partner \in Members
        /\ FounderSubject \in Subjects \cup {None} /\ PartnerSubject \in Subjects \cup {None}
        /\ None \in Grants \cup {None}
    BY BudgetSpaceAssumption DEF Roles, InvitableRoles, Sources
  <1>3. /\ NewMember(FounderSubject, "primary_owner", Creation) \in MemberRow
        /\ NewMember(PartnerSubject, role, Creation) \in MemberRow
    BY <1>2, NewMemberType
  <1>4. members \in [Members -> MemberRow]
    BY <1>1, <1>3, EmptyRows
  <1>5. /\ Consent(Founder, "primary_owner", Creation, None) \in ConsentRow
        /\ Consent(Partner, role, Creation, None) \in ConsentRow
    BY <1>2, ConsentType
  <1>6. consents \subseteq ConsentRow
    BY <1>1, <1>5
  <1>7. space \in [primary : Members, version : Nat] /\ registry \in Nat /\ now \in Instants
    BY <1>2, BudgetSpaceAssumption DEF Init, SpaceInit, Instants
  <1>8. invitations \in [Invites -> GoodInvite] /\ transfers \in [Transfers -> GoodTransfer]
    BY EmptyRows DEF Init, SpaceInit, TransferInit
  <1>9. grants \in [Grants -> Transfers \cup {None}]
    BY DEF Init, TransferInit
  <1> QED  BY <1>4, <1>6, <1>7, <1>8, <1>9 DEF TypeInv

\* Every step keeps the types.
LEMMA NextTypes == TypeInv /\ [Next]_vars => TypeInv'
  <1>1. ASSUME TypeInv, Next PROVE TypeInv'
    BY <1>1, TransferTypes, InvitationTypes, EnvironmentTypes DEF Next
  <1>2. ASSUME TypeInv, UNCHANGED vars PROVE TypeInv'
    BY <1>2 DEF TypeInv, vars, rowVars, transferVars
  <1> QED  BY <1>1, <1>2

\* Every reachable state of the collaborating commands is typed, and its
\* existing rows name their people.
THEOREM TypesHold == Spec => []TypeInv
  <1> QED  BY InitTypes, NextTypes, PTL DEF Spec

\* The rows of memberships, consents, invitations and transfers keep the
\* types of their columns, whatever the commands do.
THEOREM CollaborationTypes == Spec => []TypeOK
  <1> QED  BY TypesHold, TypeInvGivesTypeOK, PTL

-----------------------------------------------------------------------------
(***************************************************************************)
(* The Primary and the seats.                                              *)
(***************************************************************************)

\* The leg that completes the pair, the recipient's or the Primary's.
Completes(t, row) ==
    \/ /\ row = [transfers[t] EXCEPT !.state = "recipient_accepted", !.acceptedAt = now]
       /\ transfers[t].state = "primary_confirmed"
       /\ UNCHANGED grants
    \/ /\ transfers[t].state = "recipient_accepted"
       /\ \E g \in Grants :
             /\ row = [transfers[t] EXCEPT !.state = "primary_confirmed", !.confirmedAt = now, !.grant = g]
             /\ grants[g] = None
             /\ grants' = [grants EXCEPT ![g] = t]

\* A commit as the commands reach it: what it checked still holds.
Handing(t, row) ==
    /\ Commit(t, row) /\ Completes(t, row)
    /\ row \in GoodTransfer /\ row.state # "absent"
    /\ row.proposer = space.primary /\ Active(row.proposer) /\ Active(row.recipient)
    /\ row.proposer = transfers[t].proposer /\ row.recipient = transfers[t].recipient
    /\ row.ownership = transfers[t].ownership /\ row.expires = transfers[t].expires
    /\ transfers[t].state \in LiveTransfer /\ ~ Stale(transfers[t]) /\ ~ Expired(transfers[t])

\* How one workflow changes when it does not commit.
Moves(t) ==
    \/ /\ transfers[t].state = "absent"
       /\ \A u \in Transfers : transfers[u].state \notin LiveTransfer
       /\ \E p, r \in Members : 
             /\ p = space.primary /\ p # r
             /\ \E row \in TransferRow :
                   /\ transfers' = [transfers EXCEPT ![t] = row]
                   /\ row.state = "proposed" /\ row.proposer = p /\ row.recipient = r
                   /\ row.acceptedAt = None /\ row.confirmedAt = None /\ row.grant = None
       /\ UNCHANGED grants
    \/ /\ transfers[t].state \in LiveTransfer
       /\ \E to \in OverTransfer \ {"committed"} :
             transfers' = [transfers EXCEPT ![t] = [transfers[t] EXCEPT !.state = to]]
       /\ UNCHANGED grants
    \/ /\ transfers[t].state \in {"proposed", "recipient_accepted"} /\ transfers[t].acceptedAt = None
       /\ ~ Expired(transfers[t])
       /\ transfers' = [transfers EXCEPT ![t] =
                           [transfers[t] EXCEPT !.state = "recipient_accepted", !.acceptedAt = now]]
       /\ UNCHANGED grants
    \/ /\ transfers[t].state \in {"proposed", "primary_confirmed"} /\ transfers[t].confirmedAt = None
       /\ ~ Expired(transfers[t])
       /\ \E g \in Grants :
             /\ transfers' = [transfers EXCEPT ![t] =
                    [transfers[t] EXCEPT !.state = "primary_confirmed", !.confirmedAt = now, !.grant = g]]
             /\ grants[g] = None /\ grants' = [grants EXCEPT ![g] = t]
    \/ /\ UNCHANGED transfers
       /\ \E g \in Grants : grants[g] = None /\ grants' = [grants EXCEPT ![g] = t]

\* A proposal moves its workflow.
LEMMA ProposeMoves ==
  ASSUME TypeInv, NEW t \in Transfers, NEW p \in Members, NEW r \in Members, Propose(t, p, r)
  PROVE  Moves(t) /\ UNCHANGED rowVars
  <1> DEFINE row == [NoTransfer EXCEPT !.state = "proposed", !.proposer = p, !.recipient = r,
                !.ownership = space.version, !.proposerVersion = members[p].version,
                !.recipientVersion = members[r].version, !.disclosure = registry,
                !.expires = now + TransferLife]
  <1>1. /\ NoTransfer \in TransferRow /\ "proposed" \in TransferStates
        /\ p \in MaybeMember /\ r \in MaybeMember
    BY EmptyRows DEF GoodTransfer, TransferStates, LiveTransfer, MaybeMember
  <1>2. /\ space.version \in Nat /\ members[p].version \in Nat /\ members[r].version \in Nat
        /\ registry \in Nat /\ now + TransferLife \in Nat
    BY TransferAssumption, InstantsType DEF TypeInv, MemberRow
  <1>3. /\ row \in TransferRow /\ row.state = "proposed" /\ row.proposer = p /\ row.recipient = r
        /\ row.acceptedAt = NoTransfer.acceptedAt /\ row.confirmedAt = NoTransfer.confirmedAt
        /\ row.grant = NoTransfer.grant
    BY <1>1, <1>2 DEF TransferRow
  <1>4. /\ NoTransfer.acceptedAt = None /\ NoTransfer.confirmedAt = None /\ NoTransfer.grant = None
    BY DEF NoTransfer
  <1>5. /\ transfers' = [transfers EXCEPT ![t] = row] /\ p # r /\ UNCHANGED <<rowVars, grants>>
        /\ transfers[t].state = "absent" /\ NoLiveTransfer /\ p = space.primary
    BY DEF Propose, Allowed, PrimaryCells
  <1> HIDE DEF row
  <1> QED  BY <1>3, <1>4, <1>5 DEF Moves, NoLiveTransfer

\* An acceptance records a leg or commits.
LEMMA AcceptMoves ==
  ASSUME TypeInv, NEW t \in Transfers, Accept(t)
  PROVE  (Moves(t) /\ UNCHANGED rowVars) \/ \E row \in GoodTransfer : Handing(t, row)
  <1> DEFINE row == transfers[t]
             accepted == [row EXCEPT !.state = "recipient_accepted", !.acceptedAt = now]
  <1>1. /\ row \in GoodTransfer /\ row.state # "absent" /\ row.state \in LiveTransfer
        /\ now \in Instants /\ ~ Stale(row) /\ ~ Expired(row) /\ row \in TransferRow
    BY StandingState DEF Accept, TypeInv, GoodTransfer
  <1>2. CASE row.state # "primary_confirmed" /\ transfers' = [transfers EXCEPT ![t] = accepted] /\ UNCHANGED rowVars
    <2>1. row.state \in {"proposed", "recipient_accepted"} /\ row.acceptedAt = None /\ UNCHANGED grants
      BY <1>1, <1>2 DEF LiveTransfer, Accept
    <2> QED  BY <1>1, <1>2, <2>1 DEF Moves
  <1>3. CASE Commit(t, accepted) /\ Discharged(t, row.grant) /\ Completes(t, accepted)
    <2>1. /\ accepted \in GoodTransfer /\ accepted.state # "absent"
          /\ accepted.proposer = row.proposer /\ accepted.recipient = row.recipient
      BY <1>1, AcceptedLeg
    <2>2. accepted.ownership = row.ownership /\ accepted.expires = row.expires
      BY <1>1 DEF TransferRow
    <2> HIDE DEF accepted
    <2>3. Handing(t, accepted)
      BY <1>1, <1>3, <2>1, <2>2 DEF Handing, Discharged
    <2> QED  BY <2>1, <2>3
  <1>4. \/ row.state # "primary_confirmed" /\ transfers' = [transfers EXCEPT ![t] = accepted] /\ UNCHANGED rowVars
        \/ Commit(t, accepted) /\ Discharged(t, row.grant) /\ Completes(t, accepted)
    BY DEF Accept, Completes
  <1> QED  BY <1>2, <1>3, <1>4

\* A confirmation spends its grant, and records a leg, commits or does no more.
LEMMA ConfirmMoves ==
  ASSUME TypeInv, NEW t \in Transfers, NEW g \in Grants, Confirm(t, g)
  PROVE  (Moves(t) /\ UNCHANGED rowVars) \/ \E row \in GoodTransfer : Handing(t, row)
  <1> DEFINE row == transfers[t]
             confirmed == [row EXCEPT !.state = "primary_confirmed", !.confirmedAt = now, !.grant = g]
  <1>1. CASE UNCHANGED <<rowVars, transfers>>
    BY <1>1 DEF Confirm, Moves
  <1>2. CASE /\ Standing(t) = "live" /\ row.confirmedAt = None /\ row.state # "recipient_accepted"
             /\ transfers' = [transfers EXCEPT ![t] = confirmed] /\ UNCHANGED rowVars
    <2>1. row.state \in {"proposed", "primary_confirmed"} /\ ~ Expired(row)
      BY <1>2, StandingState DEF LiveTransfer
    <2>2. grants[g] = None /\ grants' = [grants EXCEPT ![g] = t]
      BY DEF Confirm
    <2> QED  BY <1>2, <2>1, <2>2 DEF Moves
  <1>3. CASE Standing(t) = "live" /\ Discharged(t, g) /\ Commit(t, confirmed) /\ Completes(t, confirmed)
    <2>1. /\ row \in GoodTransfer /\ row.state # "absent" /\ row.state \in LiveTransfer
          /\ now \in Instants /\ ~ Stale(row) /\ ~ Expired(row) /\ row \in TransferRow
      BY <1>3, StandingState DEF TypeInv, GoodTransfer
    <2>2. /\ confirmed \in GoodTransfer /\ confirmed.state # "absent"
          /\ confirmed.proposer = row.proposer /\ confirmed.recipient = row.recipient
      BY <2>1, ConfirmedLeg
    <2>3. confirmed.ownership = row.ownership /\ confirmed.expires = row.expires
      BY <2>1 DEF TransferRow
    <2> HIDE DEF confirmed
    <2>4. Handing(t, confirmed)
      BY <1>3, <2>1, <2>2, <2>3 DEF Handing, Discharged
    <2> QED  BY <2>2, <2>4
  <1>4. \/ UNCHANGED <<rowVars, transfers>>
        \/ /\ Standing(t) = "live" /\ row.confirmedAt = None /\ row.state # "recipient_accepted"
           /\ transfers' = [transfers EXCEPT ![t] = confirmed] /\ UNCHANGED rowVars
        \/ Standing(t) = "live" /\ Discharged(t, g) /\ Commit(t, confirmed) /\ Completes(t, confirmed)
    BY DEF Confirm, PrimaryLeg, Completes
  <1> QED  BY <1>1, <1>2, <1>3, <1>4

\* A transfer command commits a workflow, or moves one and writes nothing else.
LEMMA TransfersMove ==
  ASSUME TypeInv, TransferStep
  PROVE  \E t \in Transfers : \/ Moves(t) /\ UNCHANGED rowVars
                              \/ \E row \in GoodTransfer : Handing(t, row)
  <1>1. ASSUME NEW t \in Transfers, NEW m \in Members, CloseOnLoad(t, m)
        PROVE  Moves(t) /\ UNCHANGED rowVars
    <2>1. /\ transfers' = [transfers EXCEPT ![t] = [transfers[t] EXCEPT !.state = Standing(t)]]
          /\ UNCHANGED <<rowVars, grants>> /\ Standing(t) \in {"expired", "invalidated"}
      BY <1>1 DEF CloseOnLoad, Close
    <2>2. transfers[t].state \in LiveTransfer /\ Standing(t) \in OverTransfer \ {"committed"}
      BY <2>1, StandingState DEF OverTransfer
    <2> QED  BY <2>1, <2>2 DEF Moves
  <1>2. ASSUME NEW t \in Transfers, Decline(t) PROVE Moves(t) /\ UNCHANGED rowVars
    <2>1. transfers[t].state \in LiveTransfer /\ "declined" \in OverTransfer \ {"committed"}
      BY <1>2, StandingState DEF Decline, OverTransfer
    <2> QED  BY <1>2, <2>1 DEF Moves, Decline
  <1>3. ASSUME NEW t \in Transfers, Withdraw(t) PROVE Moves(t) /\ UNCHANGED rowVars
    <2>1. transfers[t].state \in LiveTransfer /\ "withdrawn" \in OverTransfer \ {"committed"}
      BY <1>3, StandingState DEF Withdraw, OverTransfer
    <2> QED  BY <1>3, <2>1 DEF Moves, Withdraw
  <1> QED  BY <1>1, <1>2, <1>3, ProposeMoves, AcceptMoves, ConfirmMoves DEF TransferStep

\* The memberships, the space and the consents are written by a commit, by
\* the confirmation of an invitation and by a departure alone.
LEMMA WhoWritesMembers ==
  ASSUME TypeInv, [Next]_vars
  PROVE  \/ UNCHANGED <<members, space, consents>>
         \/ \E t \in Transfers, row \in GoodTransfer : Handing(t, row)
         \/ \E i \in Invites, m, n \in Members : ConfirmAcceptance(i, m, n)
         \/ \E m \in Members : MembershipEnds(m)
  <1>1. CASE TransferStep
    BY <1>1, TransfersMove DEF rowVars
  <1>2. CASE InvitationStep
    <2> DEFINE Kept == UNCHANGED <<members, space, consents>>
    <2>1. ASSUME NEW i \in Invites, NEW m \in Members PROVE
            /\ \A d \in Destinations, role \in InvitableRoles, known \in Indexed \cup {None} :
                  Create(i, m, d, role, known) => Kept
            /\ \A j \in Invites : Replace(i, j, m) => Kept
            /\ Cancel(i, m) => Kept
            /\ RejectAcceptance(i, m) => Kept
      BY DEF Create, Replace, Cancel, RejectAcceptance, Write
    <2>2. ASSUME NEW m \in Members, List(m) PROVE Kept
      BY <2>2 DEF List
    <2>3. ASSUME NEW i \in Invites PROVE
            /\ Resolve(i) => Kept
            /\ \A right \in BOOLEAN : VerifyChannel(i, right) => Kept
            /\ DeclineInvite(i) => Kept
            /\ \A s \in Subjects : Attach(i, s) => Kept
            /\ AcceptInvite(i) => Kept
      BY DEF Resolve, VerifyChannel, DeclineInvite, Attach, AcceptInvite, Write
    <2> HIDE DEF Kept
    <2>4. Kept \/ \E i \in Invites, m, n \in Members : ConfirmAcceptance(i, m, n)
      BY <1>2, <2>1, <2>2, <2>3 DEF InvitationStep
    <2> QED  BY <2>4 DEF Kept
  <1>3. CASE Environment
    BY <1>3 DEF Environment, Tick, RegistryMoves
  <1>4. CASE UNCHANGED vars
    BY <1>4 DEF vars, rowVars
  <1> QED  BY <1>1, <1>2, <1>3, <1>4 DEF Next

\* What the confirmation of an invitation does to the memberships.
LEMMA SeatedRows ==
  ASSUME TypeInv, NEW i \in Invites, NEW m \in Members, NEW n \in Members, ConfirmAcceptance(i, m, n)
  PROVE  /\ members[n].status = "absent" /\ members'[n].status = "active"
         /\ members'[n].subject = invitations[i].attached /\ members'[n].role = invitations[i].role
         /\ invitations[i].role \in InvitableRoles
         /\ ~ ActiveSubject(invitations[i].attached)
         /\ \A k \in Members \ {n} : members'[k] = members[k]
         /\ space' = space /\ UNCHANGED <<registry, now, transferVars>>
         /\ consents' = consents \cup {Consent(n, invitations[i].role, i, None)}
  <1>1. invitations[i].role \in InvitableRoles
    BY DEF ConfirmAcceptance, Decidable, TypeInv, GoodInvite, InviteFacts
  <1>2. members' = [members EXCEPT ![n] = NewMember(invitations[i].attached, invitations[i].role, i)]
    BY DEF ConfirmAcceptance
  <1>3. members'[n] = NewMember(invitations[i].attached, invitations[i].role, i)
    BY <1>2 DEF TypeInv
  <1> QED  BY <1>1, <1>2, <1>3 DEF ConfirmAcceptance, Eligible, NewMember, TypeInv

\* The one Primary is kept by every step.
LEMMA OnePrimaryStep == TypeInv /\ OnePrimary /\ [Next]_vars => OnePrimary'
  <1> SUFFICES ASSUME TypeInv, OnePrimary, [Next]_vars PROVE OnePrimary'
    OBVIOUS
  <1>1. CASE UNCHANGED <<members, space, consents>>
    BY <1>1 DEF OnePrimary, Active
  <1>2. ASSUME NEW t \in Transfers, NEW row \in GoodTransfer, Handing(t, row) PROVE OnePrimary'
    <2>1. /\ members' = HandOver(row) /\ space'.primary = row.recipient
          /\ row.proposer = space.primary /\ Active(row.recipient) /\ row.state # "absent"
          /\ row.proposer \in Members /\ row.recipient \in Members /\ row.proposer # row.recipient
      BY <1>2 DEF Handing, Commit, SpaceAfter, GoodTransfer, TransferFacts
    <2> QED  BY <2>1, HandOverRows DEF OnePrimary, Active
  <1>3. ASSUME NEW i \in Invites, NEW m \in Members, NEW n \in Members, ConfirmAcceptance(i, m, n)
        PROVE  OnePrimary'
    <2>1. members'[n].role # "primary_owner" /\ n # space.primary
      BY <1>3, SeatedRows DEF InvitableRoles, OnePrimary, Active
    <2> QED  BY <1>3, <2>1, SeatedRows DEF OnePrimary, Active, TypeInv
  <1>4. ASSUME NEW m \in Members, MembershipEnds(m) PROVE OnePrimary'
    <2>1. m # space.primary /\ ~ Active(m)'
      BY <1>4, DepartedRows DEF MembershipEnds, Active
    <2> QED  BY <1>4, <2>1, DepartedRows DEF OnePrimary, Active, TypeInv
  <1> QED  BY <1>1, <1>2, <1>3, <1>4, WhoWritesMembers

\* The one seat of a person is kept by every step.
LEMMA OneSeatStep == TypeInv /\ OneSeat /\ [Next]_vars => OneSeat'
  <1> SUFFICES ASSUME TypeInv, OneSeat, [Next]_vars PROVE OneSeat'
    OBVIOUS
  <1>1. CASE UNCHANGED <<members, space, consents>>
    BY <1>1 DEF OneSeat, Active
  <1>2. ASSUME NEW t \in Transfers, NEW row \in GoodTransfer, Handing(t, row) PROVE OneSeat'
    <2>1. members' = HandOver(row) /\ row.state # "absent"
      BY <1>2 DEF Handing, Commit
    <2> QED  BY <2>1, HandOverRows DEF OneSeat, Active
  <1>3. ASSUME NEW i \in Invites, NEW m \in Members, NEW n \in Members, ConfirmAcceptance(i, m, n)
        PROVE  OneSeat'
    BY <1>3, SeatedRows DEF OneSeat, Active, ActiveSubject
  <1>4. ASSUME NEW m \in Members, MembershipEnds(m) PROVE OneSeat'
    <2>1. ~ Active(m)'
      BY <1>4, DepartedRows DEF Active
    <2> QED  BY <1>4, <2>1, DepartedRows DEF OneSeat, Active
  <1> QED  BY <1>1, <1>2, <1>3, <1>4, WhoWritesMembers

\* The space begins with one Primary and one seat for each of its two members.
LEMMA InitSeats == Init => OnePrimary /\ OneSeat
  <1> SUFFICES ASSUME Init PROVE OnePrimary /\ OneSeat
    OBVIOUS
  <1>1. PICK role \in InvitableRoles :
           members = [m \in Members |->
                        IF m = Founder THEN NewMember(FounderSubject, "primary_owner", Creation)
                        ELSE IF m = Partner THEN NewMember(PartnerSubject, role, Creation) ELSE NoMember]
    BY InitialRows
  <1>2. /\ Founder \in Members /\ Partner \in Members /\ Founder # Partner
        /\ FounderSubject # PartnerSubject /\ role # "primary_owner" /\ space.primary = Founder
    BY BudgetSpaceAssumption DEF InvitableRoles, Init, SpaceInit
  <1>3. /\ members[Founder].status = "active" /\ members[Founder].role = "primary_owner"
        /\ members[Founder].subject = FounderSubject
        /\ members[Partner].status = "active" /\ members[Partner].role = role
        /\ members[Partner].subject = PartnerSubject
        /\ \A m \in Members \ {Founder, Partner} : members[m].status = "absent"
    BY <1>1, <1>2 DEF NewMember, NoMember
  <1> QED  BY <1>2, <1>3 DEF OnePrimary, OneSeat, Active

\* The space has exactly one active Primary, the one its row names, after any
\* interleaving of transfers, invitations and departures.
THEOREM OnePrimaryHolds == Spec => []OnePrimary
  <1> QED  BY InitSeats, OnePrimaryStep, TypesHold, PTL DEF Spec

\* A person holds one active membership at most, however many invitations and
\* decisions are in flight.
THEOREM OneSeatHolds == Spec => []OneSeat
  <1> QED  BY InitSeats, OneSeatStep, TypesHold, PTL DEF Spec

-----------------------------------------------------------------------------
(***************************************************************************)
(* Permission 26.                                                          *)
(***************************************************************************)

\* An open co-owner invitation is the Primary's own.
Vouched(row) == row.state \in ActiveInvite /\ Permission(row.role) = "p26" => row.creator = space.primary

AllVouched == \A i \in Invites : Vouched(invitations[i])

\* A row that is open only if the old row was, with its role and creator, is vouched for.
LEMMA SameOffer ==
  ASSUME NEW old, NEW row, Vouched(old),
         row.state \in ActiveInvite => old.state \in ActiveInvite,
         row.role = old.role, row.creator = old.creator
  PROVE  Vouched(row)
  BY DEF Vouched

\* A row that is not open needs nobody to vouch for it.
LEMMA ClosedIsVouched == ASSUME NEW row, row.state \notin ActiveInvite PROVE Vouched(row)
  BY DEF Vouched

\* Whoever may create an invitation under permission 26 is the Primary.
LEMMA CreatorIsPrimary ==
  ASSUME TypeInv, OnePrimary, NEW m \in Members, NEW d \in Destinations, NEW role \in InvitableRoles,
         Allowed(m, Permission(role))
  PROVE  Vouched(Dispatched(m, d, role))
  <1>1. Dispatched(m, d, role).creator = m /\ Dispatched(m, d, role).role = role
    BY DispatchedRow
  <1>2. CASE Permission(role) = "p26"
    <2>1. Active(m) /\ members[m].role \in Cells["p26"]
      BY <1>2 DEF Allowed
    <2>2. members[m].role = "primary_owner"
      BY <2>1 DEF Cells
    <2>3. m = space.primary
      BY <2>1, <2>2 DEF OnePrimary
    <2> QED  BY <1>1, <2>3 DEF Vouched
  <1>3. CASE Permission(role) # "p26"
    BY <1>1, <1>3 DEF Vouched
  <1> QED  BY <1>2, <1>3

\* A step of one invitation keeps the others as they are.
LEMMA WriteVouched ==
  ASSUME TypeInv, AllVouched, NEW i \in Invites, NEW row, Vouched(row), Write(i, row)
  PROVE  AllVouched'
  BY DEF TypeInv, AllVouched, Vouched, Write

\* The owners' commands keep every open invitation vouched for.
LEMMA OwnersVouched ==
  ASSUME TypeInv, OnePrimary, AllVouched, NEW i \in Invites, NEW m \in Members,
         \/ \E d \in Destinations, role \in InvitableRoles, known \in Indexed \cup {None} :
               Create(i, m, d, role, known)
         \/ \E j \in Invites : Replace(i, j, m)
         \/ Cancel(i, m)
         \/ RejectAcceptance(i, m)
         \/ \E n \in Members : ConfirmAcceptance(i, m, n)
  PROVE  AllVouched'
  <1>1. ASSUME NEW d \in Destinations, NEW role \in InvitableRoles, NEW known, Create(i, m, d, role, known)
        PROVE  AllVouched'
    <2>1. Vouched(Dispatched(m, d, role)) /\ Vouched(Suppressed(m, d, role))
      BY <1>1, CreatorIsPrimary, DispatchedRow, ClosedIsVouched DEF Create
    <2>2. \A j \in Invites : Vouched(invitations[j]) /\ Vouched(Observed(invitations[j]))
      BY ObservedRow, ClosedIsVouched DEF TypeInv, AllVouched
    <2>3. \A j \in Invites : Vouched(invitations'[j])
      BY <1>1, <2>1, <2>2 DEF Create
    <2>4. space' = space
      BY <1>1 DEF Create
    <2> QED  BY <2>3, <2>4 DEF AllVouched, Vouched
  <1>2. ASSUME NEW j \in Invites, Replace(i, j, m) PROVE AllVouched'
    <2>1. invitations[j] \in GoodInvite /\ invitations[j].state # "absent"
      BY <1>2 DEF TypeInv, Replace
    <2>2. Vouched(SupersededRow(invitations[j]))
      <3>1. "superseded" \in InviteStates \ ActiveInvite
        BY DEF InviteStates, ActiveInvite
      <3> QED  BY <2>1, <3>1, RetiredRow, ClosedIsVouched DEF SupersededRow
    <2>3. Vouched(Dispatched(m, invitations[j].dest, invitations[j].role))
      BY <1>2, <2>1, CreatorIsPrimary DEF GoodInvite, InviteFacts, Replace
    <2>4. \A k \in Invites : Vouched(invitations'[k])
      BY <1>2, <2>2, <2>3 DEF Replace, TypeInv, AllVouched
    <2>5. space' = space
      BY <1>2 DEF Replace
    <2> QED  BY <2>4, <2>5 DEF AllVouched, Vouched
  <1>3. CASE Cancel(i, m)
    <2>1. invitations[i] \in GoodInvite /\ invitations[i].state # "absent" /\ Write(i, Cancelled(invitations[i]))
      BY <1>3 DEF TypeInv, Cancel, ActiveInvite
    <2> QED  BY <2>1, CancelledRow, ClosedIsVouched, WriteVouched
  <1>4. CASE RejectAcceptance(i, m)
    <2> DEFINE rejected == [invitations[i] EXCEPT !.confirmation = "rejected"]
    <2>1. Write(i, Cancelled(rejected))
      BY <1>4 DEF RejectAcceptance
    <2>2. rejected.state # "synthetic" /\ invitations[i] \in InviteRow
      BY <1>4 DEF RejectAcceptance, Decidable, TypeInv, GoodInvite, InviteRow
    <2>3. rejected \in InviteRow
      BY <2>2 DEF InviteRow, ConfirmationStates
    <2> HIDE DEF rejected
    <2>4. Cancelled(rejected).state \notin ActiveInvite
      BY <2>2, <2>3 DEF Cancelled, Retired, InviteRow, ActiveInvite
    <2> QED  BY <2>1, <2>4, ClosedIsVouched, WriteVouched
  <1>5. ASSUME NEW n \in Members, ConfirmAcceptance(i, m, n) PROVE AllVouched'
    <2> DEFINE accepted == AcceptedRow(invitations[i], n)
    <2>1. invitations' = SiblingsCancelled(i, accepted) /\ space' = space
      BY <1>5 DEF ConfirmAcceptance
    <2>2. accepted.state = "accepted"
      BY <1>5, AcceptedRows DEF ConfirmAcceptance, Decidable
    <2>3. Vouched(accepted)
      BY <2>2, ClosedIsVouched DEF ActiveInvite
    <2>4. ASSUME NEW j \in Invites, invitations[j].state \in ActiveInvite \cup {"synthetic"}
          PROVE  Vouched(Cancelled(invitations[j]))
      BY <2>4, CancelledRow, ClosedIsVouched DEF TypeInv, ActiveInvite
    <2> HIDE DEF accepted
    <2>5. \A j \in Invites : Vouched(invitations'[j])
      BY <2>1, <2>3, <2>4 DEF SiblingsCancelled, AllVouched
    <2> QED  BY <2>1, <2>5 DEF AllVouched, Vouched
  <1> QED  BY <1>1, <1>2, <1>3, <1>4, <1>5

\* The commands of whoever holds a link keep every open invitation vouched for.
LEMMA HoldersVouched ==
  ASSUME TypeInv, AllVouched, NEW i \in Invites,
         \/ Resolve(i)
         \/ \E right \in BOOLEAN : VerifyChannel(i, right)
         \/ DeclineInvite(i)
         \/ \E s \in Subjects : Attach(i, s)
         \/ AcceptInvite(i)
  PROVE  AllVouched'
  <1> DEFINE row == invitations[i]
  <1>1. row \in InviteRow /\ row \in GoodInvite /\ Vouched(row) /\ row.state \in InviteStates
    BY DEF TypeInv, GoodInvite, AllVouched, InviteRow
  <1>2. ASSUME row.state \in ActiveInvite PROVE Vouched(Cancelled(row))
    BY <1>1, <1>2, CancelledRow, ClosedIsVouched DEF ActiveInvite
  <1>3. CASE Resolve(i)
    <2> DEFINE seen == Observed(row)
               opened == [seen EXCEPT !.ceremony = "open", !.proof = "challenged", !.attempts = 0,
                                 !.attached = None, !.until = Earliest(now + CeremonyLife, seen.expires)]
    <2>1. Write(i, opened) \/ Write(i, seen)
      BY <1>3 DEF Resolve
    <2>2. seen \in InviteRow /\ Vouched(seen)
      BY <1>1, ObservedRow, ClosedIsVouched DEF GoodInvite
    <2> HIDE DEF seen
    <2>3. opened.state = seen.state /\ opened.role = seen.role /\ opened.creator = seen.creator
      BY <2>2 DEF InviteRow
    <2> HIDE DEF opened
    <2>4. Vouched(opened)
      BY <2>2, <2>3, SameOffer
    <2> QED  BY <2>1, <2>2, <2>4, WriteVouched
  <1>4. ASSUME NEW right \in BOOLEAN, VerifyChannel(i, right) PROVE AllVouched'
    <2> DEFINE tried == [row EXCEPT !.attempts = row.attempts + 1]
               proved == [tried EXCEPT !.proof = "proved"]
               exhausted == [tried EXCEPT !.proof = "exhausted"]
    <2>1. \/ Write(i, proved) \/ Write(i, tried)
          \/ Write(i, Retired(exhausted, row.state))
      BY <1>1, <1>4 DEF VerifyChannel, InviteRow
    <2>2. /\ tried.state = row.state /\ tried.role = row.role /\ tried.creator = row.creator
          /\ proved.state = row.state /\ proved.role = row.role /\ proved.creator = row.creator
      BY <1>1 DEF InviteRow
    <2>3. /\ Retired(exhausted, row.state).state = row.state
          /\ Retired(exhausted, row.state).role = row.role
          /\ Retired(exhausted, row.state).creator = row.creator
      BY <1>1 DEF Retired, InviteRow
    <2> HIDE DEF tried, proved, exhausted
    <2>4. Vouched(tried) /\ Vouched(proved) /\ Vouched(Retired(exhausted, row.state))
      BY <1>1, <2>2, <2>3, SameOffer
    <2> QED  BY <2>1, <2>4, WriteVouched
  <1>5. CASE DeclineInvite(i)
    <2> DEFINE declined == [row EXCEPT !.ceremony = "declined"]
    <2>1. Write(i, Retired(declined, "declined"))
      BY <1>5 DEF DeclineInvite
    <2>2. Retired(declined, "declined").state = "declined"
      BY <1>1 DEF Retired, InviteRow
    <2>3. Vouched(Retired(declined, "declined"))
      BY <2>2, ClosedIsVouched DEF ActiveInvite
    <2> QED  BY <2>1, <2>3, WriteVouched
  <1>6. ASSUME NEW s \in Subjects, Attach(i, s) PROVE AllVouched'
    <2> DEFINE attached == [row EXCEPT !.attached = s, !.candidate = s]
    <2>1. row.state \in ActiveInvite /\ (Write(i, attached) \/ Write(i, Cancelled(row)))
      BY <1>6, UsableRow DEF Attach
    <2>2. attached.state = row.state /\ attached.role = row.role /\ attached.creator = row.creator
      BY <1>1 DEF InviteRow
    <2> HIDE DEF attached
    <2>3. Vouched(attached)
      BY <1>1, <2>2, SameOffer
    <2> QED  BY <1>2, <2>1, <2>3, WriteVouched
  <1>7. CASE AcceptInvite(i)
    <2> DEFINE accepted == [row EXCEPT !.state = "awaiting_confirmation", !.ceremony = "accepted",
                                 !.confirmation = "requested",
                                 !.confirmBy = Earliest(now + ConfirmationLife, row.expires)]
    <2>1. row.state \in ActiveInvite /\ (Write(i, accepted) \/ Write(i, Cancelled(row)))
      BY <1>7, UsableRow DEF AcceptInvite
    <2>2. accepted.role = row.role /\ accepted.creator = row.creator
      BY <1>1 DEF InviteRow
    <2> HIDE DEF accepted
    <2>3. Vouched(accepted)
      BY <1>1, <2>1, <2>2, SameOffer
    <2> QED  BY <1>2, <2>1, <2>3, WriteVouched
  <1> QED  BY <1>3, <1>4, <1>5, <1>6, <1>7

\* Every step keeps the open invitations under permission 26 the Primary's own.
LEMMA VouchedStep == TypeInv /\ OnePrimary /\ AllVouched /\ [Next]_vars => AllVouched'
  <1> SUFFICES ASSUME TypeInv, OnePrimary, AllVouched, [Next]_vars PROVE AllVouched'
    OBVIOUS
  <1>1. ASSUME UNCHANGED <<space, invitations>> PROVE AllVouched'
    BY <1>1 DEF AllVouched, Vouched
  <1>2. ASSUME NEW m \in Members, List(m) PROVE AllVouched'
    <2>1. \A j \in Invites : Vouched(Observed(invitations[j]))
      BY ObservedRow, ClosedIsVouched DEF TypeInv, AllVouched
    <2> QED  BY <1>2, <2>1 DEF List, AllVouched, Vouched
  <1>3. CASE InvitationStep
    BY <1>2, <1>3, OwnersVouched, HoldersVouched DEF InvitationStep
  <1>4. ASSUME NEW t \in Transfers, NEW row \in GoodTransfer, Handing(t, row) PROVE AllVouched'
    <2>1. invitations' = PermissionLost(row.proposer) /\ row.proposer = space.primary
      BY <1>4 DEF Handing, Commit, OpenWorkAfter
    <2>2. \A i \in Invites : ~ (invitations'[i].state \in ActiveInvite /\ Permission(invitations'[i].role) = "p26")
      BY <2>1, PermissionLostRows DEF AllVouched, Vouched
    <2> QED  BY <2>2 DEF AllVouched, Vouched
  <1>5. CASE TransferStep
    BY <1>1, <1>4, <1>5, TransfersMove DEF rowVars
  <1>6. CASE Environment
    BY <1>1, <1>6 DEF Environment, Tick, RegistryMoves, MembershipEnds
  <1>7. CASE UNCHANGED vars
    BY <1>1, <1>7 DEF vars, rowVars
  <1> QED  BY <1>3, <1>5, <1>6, <1>7 DEF Next

\* An open co-owner invitation is always one of the current Primary's own:
\* the commit that hands the ownership over closes the former Primary's.
THEOREM NoStalePermission26Holds == Spec => []NoStalePermission26
  <1>1. Init => AllVouched
    BY DEF Init, SpaceInit, AllVouched, Vouched, NoInvite, ActiveInvite
  <1>2. AllVouched => NoStalePermission26
    BY DEF AllVouched, Vouched, NoStalePermission26
  <1>3. Spec => [](TypeInv /\ OnePrimary)
    BY TypesHold, OnePrimaryHolds, PTL
  <1>4. Spec => []AllVouched
    BY <1>1, <1>3, VouchedStep, PTL DEF Spec
  <1> QED  BY <1>2, <1>4, PTL

-----------------------------------------------------------------------------
(***************************************************************************)
(* Consents.                                                               *)
(***************************************************************************)

\* The one consent a member has.
ItsConsent(m, c) ==
    /\ c \in consents /\ c.member = m /\ c.current /\ c.role = members[m].role
    /\ \A d \in consents : d.member = m /\ d.current => d = c

\* Every active member has its consent, and nobody who never came has any.
ConsentInv ==
    /\ \A m \in Members : Active(m) => \E c \in consents : ItsConsent(m, c)
    /\ \A c \in consents : members[c.member].status # "absent"

\* The inductive form gives the one the runs check.
LEMMA ConsentInvGivesMatch == TypeInv /\ ConsentInv => ConsentMatchesRole
  <1> SUFFICES ASSUME TypeInv, ConsentInv, NEW m \in Members, Active(m)
               PROVE  LET current == {c \in consents : c.member = m /\ c.current}
                      IN  Cardinality(current) = 1 /\ \A c \in current : c.role = members[m].role
    BY DEF ConsentMatchesRole
  <1> DEFINE current == {c \in consents : c.member = m /\ c.current}
  <1>1. PICK c \in consents : ItsConsent(m, c)
    BY DEF ConsentInv
  <1>2. current = {c}
    BY <1>1 DEF ItsConsent
  <1>3. Cardinality(current) = 1
    BY <1>2, FS_Singleton
  <1> QED  BY <1>1, <1>2, <1>3 DEF ItsConsent

\* What superseding the consents of some members leaves.
LEMMA SupersededConsents ==
  ASSUME consents \subseteq ConsentRow, NEW ms
  PROVE  /\ \A c \in Superseded(ms) : c.current => c.member \notin ms /\ c \in consents
         /\ \A c \in consents : c.member \notin ms => c \in Superseded(ms)
         /\ \A c \in Superseded(ms) : \E d \in consents :
               c.member = d.member /\ c.role = d.role /\ c.source = d.source /\ c.grant = d.grant
         /\ \A d \in consents : \E c \in Superseded(ms) :
               c.member = d.member /\ c.role = d.role /\ c.source = d.source /\ c.grant = d.grant
  <1> DEFINE kept(c) == IF c.member \in ms THEN [c EXCEPT !.current = FALSE] ELSE c
  <1>1. ASSUME NEW c \in consents
        PROVE  /\ kept(c).member = c.member /\ kept(c).role = c.role /\ kept(c).source = c.source
               /\ kept(c).grant = c.grant
               /\ kept(c).current => c.member \notin ms /\ kept(c) = c
    BY <1>1 DEF ConsentRow
  <1>2. Superseded(ms) = {kept(c) : c \in consents}
    BY DEF Superseded
  <1>3. \A c \in consents : c.member \notin ms => kept(c) = c
    OBVIOUS
  <1> HIDE DEF kept
  <1> QED  BY <1>1, <1>2, <1>3

\* Every step keeps each active member's one consent.
LEMMA ConsentStep == TypeInv /\ OnePrimary /\ ConsentInv /\ [Next]_vars => ConsentInv'
  <1> SUFFICES ASSUME TypeInv, OnePrimary, ConsentInv, [Next]_vars PROVE ConsentInv'
    OBVIOUS
  <1>1. CASE UNCHANGED <<members, space, consents>>
    BY <1>1 DEF ConsentInv, ItsConsent, Active
  <1>2. ASSUME NEW t \in Transfers, NEW row \in GoodTransfer, Handing(t, row) PROVE ConsentInv'
    <2> DEFINE ms == {row.proposer, row.recipient}
               up == Consent(row.recipient, "primary_owner", t, None)
               down == Consent(row.proposer, "co_owner", t, row.grant)
    <2>1. /\ members' = HandOver(row) /\ consents' = Superseded(ms) \cup {up, down}
          /\ row.state # "absent" /\ Active(row.proposer) /\ Active(row.recipient)
          /\ row.proposer \in Members /\ row.recipient \in Members /\ row.proposer # row.recipient
          /\ consents \subseteq ConsentRow
      BY <1>2 DEF Handing, Commit, ConsentsAfter, GoodTransfer, TransferFacts, TypeInv
    <2>2. /\ up.member = row.recipient /\ up.current /\ up.role = "primary_owner"
          /\ down.member = row.proposer /\ down.current /\ down.role = "co_owner"
      BY DEF Consent
    <2> HIDE DEF up, down
    <2>3. \A m \in Members : members'[m].status = members[m].status
      BY <2>1, HandOverRows
    <2>4. ASSUME NEW c \in consents' PROVE members'[c.member].status # "absent"
      <3>1. CASE c \in {up, down}
        BY <2>1, <2>2, <2>3, <3>1 DEF Active
      <3>2. CASE c \in Superseded(ms)
        <4>1. PICK d \in consents : c.member = d.member
          BY <2>1, <3>2, SupersededConsents
        <4>2. d.member \in Members /\ members[d.member].status # "absent"
          BY <2>1 DEF ConsentRow, ConsentInv
        <4> QED  BY <2>3, <4>1, <4>2
      <3> QED  BY <2>1, <3>1, <3>2
    <2>5. ASSUME NEW m \in Members, Active(m)' PROVE \E c \in consents' : ItsConsent(m, c)'
      <3>1. Active(m)
        BY <2>3, <2>5 DEF Active
      <3>2. CASE m = row.recipient
        <4>1. \A d \in consents' : d.member = m /\ d.current => d = up
          BY <2>1, <2>2, <3>2, SupersededConsents
        <4>2. members'[m].role = "primary_owner"
          BY <2>1, <3>2, HandOverRows
        <4>3. ItsConsent(m, up)'
          BY <2>1, <2>2, <3>2, <4>1, <4>2 DEF ItsConsent
        <4> QED  BY <2>1, <4>3
      <3>3. CASE m = row.proposer
        <4>1. \A d \in consents' : d.member = m /\ d.current => d = down
          BY <2>1, <2>2, <3>3, SupersededConsents
        <4>2. members'[m].role = "co_owner"
          BY <2>1, <3>3, HandOverRows
        <4>3. ItsConsent(m, down)'
          BY <2>1, <2>2, <3>3, <4>1, <4>2 DEF ItsConsent
        <4> QED  BY <2>1, <4>3
      <3>4. CASE m \notin ms
        <4>1. PICK c \in consents : ItsConsent(m, c)
          BY <3>1 DEF ConsentInv
        <4>2. c \in consents'
          BY <2>1, <3>4, <4>1, SupersededConsents DEF ItsConsent
        <4>3. \A d \in consents' : d.member = m /\ d.current => d = c
          BY <2>1, <2>2, <3>4, <4>1, SupersededConsents DEF ItsConsent
        <4>4. members'[m] = members[m]
          BY <2>1, <3>4, HandOverRows
        <4>5. ItsConsent(m, c)'
          BY <4>1, <4>2, <4>3, <4>4 DEF ItsConsent
        <4> QED  BY <4>2, <4>5
      <3> QED  BY <3>2, <3>3, <3>4
    <2> QED  BY <2>4, <2>5 DEF ConsentInv
  <1>3. ASSUME NEW i \in Invites, NEW m \in Members, NEW n \in Members, ConfirmAcceptance(i, m, n)
        PROVE  ConsentInv'
    <2>0. PICK new : new = Consent(n, invitations[i].role, i, None)
      OBVIOUS
    <2>1. new.member = n /\ new.current /\ new.role = invitations[i].role
      BY <2>0 DEF Consent
    <2>2. /\ members[n].status = "absent" /\ members'[n].status = "active"
          /\ members'[n].role = invitations[i].role
          /\ \A k \in Members \ {n} : members'[k] = members[k]
          /\ consents' = consents \cup {new}
      BY <1>3, <2>0, SeatedRows
    <2>3. \A c \in consents : c.member \in Members /\ c.member # n
      BY <2>2 DEF ConsentInv, TypeInv, ConsentRow
    <2>4. \A c \in consents' : members'[c.member].status # "absent"
      BY <2>1, <2>2, <2>3 DEF ConsentInv
    <2>5. ASSUME NEW k \in Members, Active(k)' PROVE \E c \in consents' : ItsConsent(k, c)'
      <3>1. CASE k = n
        <4>1. ItsConsent(k, new)'
          BY <2>1, <2>2, <2>3, <3>1 DEF ItsConsent
        <4> QED  BY <2>2, <4>1
      <3>2. CASE k # n
        <4>1. PICK c \in consents : ItsConsent(k, c)
          BY <2>2, <2>5, <3>2 DEF ConsentInv, Active
        <4>2. ItsConsent(k, c)'
          BY <2>1, <2>2, <3>2, <4>1 DEF ItsConsent
        <4> QED  BY <2>2, <4>2
      <3> QED  BY <3>1, <3>2
    <2> QED  BY <2>4, <2>5 DEF ConsentInv
  <1>4. ASSUME NEW m \in Members, MembershipEnds(m) PROVE ConsentInv'
    <2>1. /\ members'[m].status = "ended" /\ consents' = consents
          /\ \A n \in Members \ {m} : members'[n] = members[n]
      BY <1>4, DepartedRows
    <2>2. \A c \in consents : c.member \in Members
      BY DEF TypeInv, ConsentRow
    <2> QED  BY <2>1, <2>2 DEF ConsentInv, ItsConsent, Active
  <1> QED  BY <1>1, <1>2, <1>3, <1>4, WhoWritesMembers

\* The two first members have one consent each.
LEMMA InitConsents == Init => ConsentInv
  <1> SUFFICES ASSUME Init PROVE ConsentInv
    OBVIOUS
  <1>1. PICK role \in InvitableRoles :
           /\ members = [m \in Members |->
                        IF m = Founder THEN NewMember(FounderSubject, "primary_owner", Creation)
                        ELSE IF m = Partner THEN NewMember(PartnerSubject, role, Creation) ELSE NoMember]
           /\ consents = {Consent(Founder, "primary_owner", Creation, None),
                          Consent(Partner, role, Creation, None)}
    BY InitialRows
  <1>2. Founder \in Members /\ Partner \in Members /\ Founder # Partner
    BY BudgetSpaceAssumption
  <1>3. /\ members[Founder].status = "active" /\ members[Founder].role = "primary_owner"
        /\ members[Partner].status = "active" /\ members[Partner].role = role
        /\ \A m \in Members \ {Founder, Partner} : members[m].status = "absent"
    BY <1>1, <1>2 DEF NewMember, NoMember
  <1> DEFINE one == Consent(Founder, "primary_owner", Creation, None)
             two == Consent(Partner, role, Creation, None)
  <1>4. /\ one.member = Founder /\ one.current /\ one.role = "primary_owner"
        /\ two.member = Partner /\ two.current /\ two.role = role
    BY DEF Consent
  <1>5. consents = {one, two}
    BY <1>1
  <1> HIDE DEF one, two
  <1>6. ItsConsent(Founder, one) /\ ItsConsent(Partner, two)
    BY <1>2, <1>3, <1>4, <1>5 DEF ItsConsent
  <1> QED  BY <1>2, <1>3, <1>4, <1>5, <1>6 DEF ConsentInv, Active

\* Every active member has one current consent, for the role it has now,
\* through every change of role and every entry.
THEOREM ConsentsMatchRoles == Spec => []ConsentMatchesRole
  <1>1. Spec => [](TypeInv /\ OnePrimary)
    BY TypesHold, OnePrimaryHolds, PTL
  <1>2. Spec => []ConsentInv
    BY <1>1, InitConsents, ConsentStep, PTL DEF Spec
  <1> QED  BY <1>1, <1>2, ConsentInvGivesMatch, PTL

-----------------------------------------------------------------------------
(***************************************************************************)
(* The legs and the grants of a workflow.                                  *)
(***************************************************************************)

\* The legs a workflow has in each state, each within its deadline.
LegFacts(row) ==
    /\ row.state = "absent" => row = NoTransfer
    /\ row.acceptedAt # None => row.acceptedAt < row.expires
    /\ row.confirmedAt # None => row.confirmedAt < row.expires /\ row.grant # None
    /\ row.state = "proposed" => row.acceptedAt = None /\ row.confirmedAt = None
    /\ row.state = "recipient_accepted" => row.acceptedAt # None /\ row.confirmedAt = None
    /\ row.state = "primary_confirmed" => row.acceptedAt = None /\ row.confirmedAt # None
    /\ row.state = "committed" => row.acceptedAt # None /\ row.confirmedAt # None

LegsInv == \A t \in Transfers : LegFacts(transfers[t])

\* A workflow names a grant that was spent on it.
GrantInv == \A t \in Transfers : transfers[t].grant # None => grants[transfers[t].grant] = t

\* A consent that came of an invitation.
Entered(c) == c.source \in Invites

\* Every step leaves the workflows alone, moves one, or commits one.
LEMMA StepKinds ==
  ASSUME TypeInv, [Next]_vars
  PROVE  \/ /\ UNCHANGED <<space, transfers, grants>>
            /\ consents' = consents \/ \E c : Entered(c) /\ consents' = consents \cup {c}
         \/ \E t \in Transfers : Moves(t) /\ UNCHANGED rowVars
         \/ \E t \in Transfers, row \in GoodTransfer : Handing(t, row)
  <1>1. CASE TransferStep
    BY <1>1, TransfersMove
  <1>2. CASE InvitationStep
    <2>1. UNCHANGED <<space, transfers, grants>>
      <3>1. ASSUME NEW i \in Invites, NEW m \in Members PROVE
              /\ \A d \in Destinations, role \in InvitableRoles, known \in Indexed \cup {None} :
                    Create(i, m, d, role, known) => UNCHANGED <<space, transfers, grants>>
              /\ \A j \in Invites : Replace(i, j, m) => UNCHANGED <<space, transfers, grants>>
              /\ Cancel(i, m) => UNCHANGED <<space, transfers, grants>>
              /\ RejectAcceptance(i, m) => UNCHANGED <<space, transfers, grants>>
              /\ \A n \in Members : ConfirmAcceptance(i, m, n) => UNCHANGED <<space, transfers, grants>>
        BY DEF Create, Replace, Cancel, RejectAcceptance, ConfirmAcceptance, Write, transferVars
      <3>2. ASSUME NEW m \in Members, List(m) PROVE UNCHANGED <<space, transfers, grants>>
        BY <3>2 DEF List, transferVars
      <3>3. ASSUME NEW i \in Invites PROVE
              /\ Resolve(i) => UNCHANGED <<space, transfers, grants>>
              /\ \A right \in BOOLEAN : VerifyChannel(i, right) => UNCHANGED <<space, transfers, grants>>
              /\ DeclineInvite(i) => UNCHANGED <<space, transfers, grants>>
              /\ \A s \in Subjects : Attach(i, s) => UNCHANGED <<space, transfers, grants>>
              /\ AcceptInvite(i) => UNCHANGED <<space, transfers, grants>>
        BY DEF Resolve, VerifyChannel, DeclineInvite, Attach, AcceptInvite, Write, transferVars
      <3> QED  BY <1>2, <3>1, <3>2, <3>3 DEF InvitationStep
    <2>2. consents' = consents \/ \E c : Entered(c) /\ consents' = consents \cup {c}
      <3>1. ASSUME NEW t \in Transfers, NEW row \in GoodTransfer, Handing(t, row) PROVE FALSE
        <4>1. transfers[t].state \in LiveTransfer /\ transfers'[t].state = "committed"
          <5>1. transfers'[t] = [row EXCEPT !.state = "committed"] /\ row \in GoodTransfer /\ row.state # "absent"
            BY <3>1 DEF Handing, Commit, TypeInv
          <5>2. transfers'[t].state = "committed"
            BY <5>1, StateRow DEF TransferStates, OverTransfer
          <5> QED  BY <3>1, <5>2 DEF Handing
        <4> QED  BY <2>1, <4>1 DEF LiveTransfer
      <3>2. ASSUME NEW i \in Invites, NEW m \in Members, NEW n \in Members, ConfirmAcceptance(i, m, n)
            PROVE  \E c : Entered(c) /\ consents' = consents \cup {c}
        <4>1. Entered(Consent(n, invitations[i].role, i, None))
          BY DEF Entered, Consent
        <4> QED  BY <3>2, <4>1, SeatedRows
      <3>3. ASSUME NEW m \in Members, MembershipEnds(m) PROVE consents' = consents
        BY <3>3, DepartedRows
      <3> QED  BY <1>2, <3>1, <3>2, <3>3, WhoWritesMembers DEF Next
    <2> QED  BY <2>1, <2>2
  <1>3. CASE Environment
    BY <1>3 DEF Environment, Tick, RegistryMoves, MembershipEnds, transferVars
  <1>4. CASE UNCHANGED vars
    BY <1>4 DEF vars, rowVars, transferVars
  <1> QED  BY <1>1, <1>2, <1>3, <1>4 DEF Next

\* The row a commit leaves.
LEMMA CommittedRow ==
  ASSUME TypeInv, NEW t \in Transfers, NEW row \in GoodTransfer, Handing(t, row)
  PROVE  /\ transfers' = [transfers EXCEPT ![t] = transfers'[t]]
         /\ transfers'[t] \in TransferRow /\ transfers'[t].state = "committed"
         /\ transfers'[t].proposer = row.proposer /\ transfers'[t].recipient = row.recipient
         /\ transfers'[t].grant = row.grant /\ transfers'[t].ownership = row.ownership
         /\ transfers'[t].acceptedAt = row.acceptedAt /\ transfers'[t].confirmedAt = row.confirmedAt
         /\ transfers'[t].expires = row.expires
         /\ \A u \in Transfers \ {t} : transfers'[u] = transfers[u]
  <1>1. /\ transfers' = [transfers EXCEPT ![t] = [row EXCEPT !.state = "committed"]]
        /\ row \in TransferRow
    BY DEF Handing, Commit, GoodTransfer
  <1>2. transfers'[t] = [row EXCEPT !.state = "committed"]
    BY <1>1 DEF TypeInv
  <1>3. /\ [row EXCEPT !.state = "committed"] \in TransferRow
        /\ [row EXCEPT !.state = "committed"].state = "committed"
        /\ [row EXCEPT !.state = "committed"].proposer = row.proposer
        /\ [row EXCEPT !.state = "committed"].recipient = row.recipient
        /\ [row EXCEPT !.state = "committed"].grant = row.grant
        /\ [row EXCEPT !.state = "committed"].ownership = row.ownership
        /\ [row EXCEPT !.state = "committed"].acceptedAt = row.acceptedAt
        /\ [row EXCEPT !.state = "committed"].confirmedAt = row.confirmedAt
        /\ [row EXCEPT !.state = "committed"].expires = row.expires
    BY <1>1, "committed" \in TransferStates DEF TransferRow, TransferStates, OverTransfer
  <1> QED  BY <1>1, <1>2, <1>3 DEF TypeInv

\* A leg is recorded before its deadline.
LEMMA InTime ==
  ASSUME TypeInv, NEW row \in TransferRow, ~ Expired(row)
  PROVE  now < row.expires /\ now # None
  <1>1. now \in Nat /\ row.expires \in Nat /\ now # None
    BY InstantsType, BudgetSpaceAssumption DEF TypeInv, TransferRow
  <1> QED  BY <1>1 DEF Expired

\* The completed row of a commit has both legs in time.
LEMMA CompletedLegs ==
  ASSUME TypeInv, LegsInv, NEW t \in Transfers, NEW row \in GoodTransfer, Handing(t, row)
  PROVE  /\ row.acceptedAt # None /\ row.acceptedAt < row.expires
         /\ row.confirmedAt # None /\ row.confirmedAt < row.expires /\ row.grant # None
  <1> DEFINE old == transfers[t]
  <1>1. /\ old \in TransferRow /\ LegFacts(old) /\ now < old.expires /\ now # None
        /\ row.expires = old.expires /\ Completes(t, row)
    <2>1. old \in TransferRow /\ ~ Expired(old)
      BY DEF Handing, TypeInv, GoodTransfer
    <2> QED  BY <2>1, InTime DEF Handing, LegsInv
  <1>2. CASE row = [old EXCEPT !.state = "recipient_accepted", !.acceptedAt = now] /\ old.state = "primary_confirmed"
    <2>1. row.acceptedAt = now /\ row.confirmedAt = old.confirmedAt /\ row.grant = old.grant
      BY <1>1, <1>2 DEF TransferRow
    <2> QED  BY <1>1, <1>2, <2>1 DEF LegFacts
  <1>3. ASSUME NEW g \in Grants, old.state = "recipient_accepted",
               row = [old EXCEPT !.state = "primary_confirmed", !.confirmedAt = now, !.grant = g]
        PROVE  /\ row.acceptedAt # None /\ row.acceptedAt < row.expires
               /\ row.confirmedAt # None /\ row.confirmedAt < row.expires /\ row.grant # None
    <2>1. row.confirmedAt = now /\ row.acceptedAt = old.acceptedAt /\ row.grant = g /\ g # None
      BY <1>1, <1>3, BudgetSpaceAssumption DEF TransferRow
    <2> QED  BY <1>1, <1>3, <2>1 DEF LegFacts
  <1> QED  BY <1>1, <1>2, <1>3 DEF Completes

\* Every step keeps the legs each state of a workflow has.
LEMMA LegsStep == TypeInv /\ LegsInv /\ [Next]_vars => LegsInv'
  <1> SUFFICES ASSUME TypeInv, LegsInv, [Next]_vars PROVE LegsInv'
    OBVIOUS
  <1>1. CASE UNCHANGED <<space, transfers, grants>>
    BY <1>1 DEF LegsInv
  <1>2. ASSUME NEW t \in Transfers, NEW row \in TransferRow, LegFacts(row),
               transfers' = [transfers EXCEPT ![t] = row]
        PROVE  LegsInv'
    BY <1>2 DEF LegsInv, TypeInv
  <1>3. ASSUME NEW t \in Transfers, NEW row \in GoodTransfer, Handing(t, row) PROVE LegsInv'
    <2>1. LegFacts(transfers'[t])
      BY <1>3, CommittedRow, CompletedLegs DEF LegFacts
    <2> QED  BY <1>3, <2>1, CommittedRow DEF LegsInv
  <1>4. ASSUME NEW t \in Transfers, Moves(t) PROVE LegsInv'
    <2> DEFINE old == transfers[t]
    <2>1. old \in TransferRow /\ LegFacts(old)
      BY DEF TypeInv, GoodTransfer, LegsInv
    <2>2. ASSUME NEW row \in TransferRow, row.state = "proposed", row.acceptedAt = None, row.confirmedAt = None,
                 transfers' = [transfers EXCEPT ![t] = row]
          PROVE  LegsInv'
      BY <1>2, <2>2 DEF LegFacts
    <2>3. ASSUME old.state \in LiveTransfer, NEW to \in OverTransfer \ {"committed"},
                 transfers' = [transfers EXCEPT ![t] = [old EXCEPT !.state = to]]
          PROVE  LegsInv'
      <3> DEFINE row == [old EXCEPT !.state = to]
      <3>1. to \in TransferStates /\ to \notin LiveTransfer \cup {"absent", "committed"}
        BY <2>3 DEF TransferStates, LiveTransfer, OverTransfer
      <3>2. /\ row \in TransferRow /\ row.state = to /\ row.acceptedAt = old.acceptedAt
            /\ row.confirmedAt = old.confirmedAt /\ row.expires = old.expires /\ row.grant = old.grant
        BY <2>1, <3>1 DEF TransferRow
      <3> HIDE DEF row
      <3>3. LegFacts(row)
        BY <2>1, <3>1, <3>2 DEF LegFacts, LiveTransfer
      <3> QED  BY <1>2, <2>3, <3>2, <3>3 DEF row
    <2>4. ASSUME old.state \in {"proposed", "recipient_accepted"}, old.acceptedAt = None, ~ Expired(old),
                 transfers' = [transfers EXCEPT ![t] = [old EXCEPT !.state = "recipient_accepted", !.acceptedAt = now]]
          PROVE  LegsInv'
      <3> DEFINE row == [old EXCEPT !.state = "recipient_accepted", !.acceptedAt = now]
      <3>1. now < old.expires /\ now # None /\ now \in MaybeInstant /\ "recipient_accepted" \in TransferStates
        BY <2>1, <2>4, InTime DEF TypeInv, MaybeInstant, TransferStates, LiveTransfer
      <3>2. /\ row \in TransferRow /\ row.state = "recipient_accepted" /\ row.acceptedAt = now
            /\ row.confirmedAt = old.confirmedAt /\ row.expires = old.expires /\ row.grant = old.grant
        BY <2>1, <3>1 DEF TransferRow
      <3> HIDE DEF row
      <3>3. LegFacts(row)
        BY <2>1, <2>4, <3>1, <3>2 DEF LegFacts
      <3> QED  BY <1>2, <2>4, <3>2, <3>3 DEF row
    <2>5. ASSUME old.state \in {"proposed", "primary_confirmed"}, old.confirmedAt = None, ~ Expired(old),
                 NEW g \in Grants,
                 transfers' = [transfers EXCEPT ![t] =
                    [old EXCEPT !.state = "primary_confirmed", !.confirmedAt = now, !.grant = g]]
          PROVE  LegsInv'
      <3> DEFINE row == [old EXCEPT !.state = "primary_confirmed", !.confirmedAt = now, !.grant = g]
      <3>1. /\ now < old.expires /\ now # None /\ now \in MaybeInstant /\ "primary_confirmed" \in TransferStates
            /\ g \in MaybeGrant /\ g # None
        BY <2>1, <2>5, InTime, BudgetSpaceAssumption
        DEF TypeInv, MaybeInstant, MaybeGrant, TransferStates, LiveTransfer
      <3>2. /\ row \in TransferRow /\ row.state = "primary_confirmed" /\ row.confirmedAt = now
            /\ row.acceptedAt = old.acceptedAt /\ row.expires = old.expires /\ row.grant = g
        BY <2>1, <3>1 DEF TransferRow
      <3> HIDE DEF row
      <3>3. LegFacts(row)
        BY <2>1, <2>5, <3>1, <3>2 DEF LegFacts
      <3> QED  BY <1>2, <2>5, <3>2, <3>3 DEF row
    <2>6. CASE UNCHANGED transfers
      BY <2>6 DEF LegsInv
    <2> QED  BY <1>4, <2>2, <2>3, <2>4, <2>5, <2>6 DEF Moves
  <1> QED  BY <1>1, <1>3, <1>4, StepKinds

\* Every step keeps each workflow's grant spent on it.
LEMMA GrantStep == TypeInv /\ GrantInv /\ [Next]_vars => GrantInv'
  <1> SUFFICES ASSUME TypeInv, GrantInv, [Next]_vars PROVE GrantInv'
    OBVIOUS
  <1>1. CASE UNCHANGED <<space, transfers, grants>>
    BY <1>1 DEF GrantInv
  <1>2. ASSUME NEW t \in Transfers, NEW row \in TransferRow, row.grant = transfers[t].grant \/ row.grant = None,
               transfers' = [transfers EXCEPT ![t] = row], UNCHANGED grants
        PROVE  GrantInv'
    BY <1>2 DEF GrantInv, TypeInv
  <1>3. ASSUME NEW t \in Transfers, NEW row \in TransferRow, NEW g \in Grants, row.grant = g,
               transfers' = [transfers EXCEPT ![t] = row], grants[g] = None,
               grants' = [grants EXCEPT ![g] = t]
        PROVE  GrantInv'
    <2>1. transfers'[t] = row /\ grants'[g] = t
      BY <1>3 DEF TypeInv
    <2>2. ASSUME NEW u \in Transfers \ {t}, transfers'[u].grant # None
          PROVE  grants'[transfers'[u].grant] = u
      <3>1. transfers'[u] = transfers[u] /\ grants[transfers[u].grant] = u /\ u # None
        BY <1>3, <2>2, BudgetSpaceAssumption DEF GrantInv, TypeInv
      <3>2. transfers[u].grant # g
        BY <1>3, <3>1
      <3> QED  BY <1>3, <3>1, <3>2 DEF TypeInv
    <2> QED  BY <1>3, <2>1, <2>2 DEF GrantInv
  <1>4. ASSUME NEW t \in Transfers, NEW row \in GoodTransfer, Handing(t, row) PROVE GrantInv'
    <2> DEFINE old == transfers[t]
    <2>1. /\ transfers' = [transfers EXCEPT ![t] = transfers'[t]] /\ transfers'[t] \in TransferRow
          /\ transfers'[t].grant = row.grant /\ old \in TransferRow /\ Completes(t, row)
      BY <1>4, CommittedRow DEF Handing, TypeInv, GoodTransfer
    <2>2. CASE row = [old EXCEPT !.state = "recipient_accepted", !.acceptedAt = now] /\ UNCHANGED grants
      <3>1. row.grant = old.grant
        BY <2>1, <2>2 DEF TransferRow
      <3> QED  BY <1>2, <2>1, <2>2, <3>1
    <2>3. ASSUME NEW g \in Grants, grants[g] = None, grants' = [grants EXCEPT ![g] = t],
                 row = [old EXCEPT !.state = "primary_confirmed", !.confirmedAt = now, !.grant = g]
          PROVE  GrantInv'
      <3>1. row.grant = g
        BY <2>1, <2>3 DEF TransferRow
      <3> QED  BY <1>3, <2>1, <2>3, <3>1
    <2> QED  BY <2>1, <2>2, <2>3 DEF Completes
  <1>5. ASSUME NEW t \in Transfers, Moves(t) PROVE GrantInv'
    <2> DEFINE old == transfers[t]
    <2>1. old \in TransferRow
      BY DEF TypeInv, GoodTransfer
    <2>2. ASSUME NEW row \in TransferRow, row.grant = None, UNCHANGED grants,
                 transfers' = [transfers EXCEPT ![t] = row]
          PROVE  GrantInv'
      BY <1>2, <2>2
    <2>3. ASSUME NEW to \in OverTransfer \ {"committed"}, UNCHANGED grants,
                 transfers' = [transfers EXCEPT ![t] = [old EXCEPT !.state = to]]
          PROVE  GrantInv'
      <3>1. [old EXCEPT !.state = to] \in TransferRow /\ [old EXCEPT !.state = to].grant = old.grant
        BY <2>1, <2>3 DEF TransferRow, TransferStates
      <3> QED  BY <1>2, <2>3, <3>1
    <2>4. ASSUME UNCHANGED grants,
                 transfers' = [transfers EXCEPT ![t] = [old EXCEPT !.state = "recipient_accepted", !.acceptedAt = now]]
          PROVE  GrantInv'
      <3> DEFINE row == [old EXCEPT !.state = "recipient_accepted", !.acceptedAt = now]
      <3>1. now \in MaybeInstant /\ "recipient_accepted" \in TransferStates
        BY DEF TypeInv, MaybeInstant, TransferStates, LiveTransfer
      <3>2. row \in TransferRow /\ row.grant = old.grant
        BY <2>1, <3>1 DEF TransferRow
      <3> QED  BY <1>2, <2>4, <3>2
    <2>5. ASSUME NEW g \in Grants, grants[g] = None, grants' = [grants EXCEPT ![g] = t],
                 transfers' = [transfers EXCEPT ![t] =
                    [old EXCEPT !.state = "primary_confirmed", !.confirmedAt = now, !.grant = g]]
          PROVE  GrantInv'
      <3> DEFINE row == [old EXCEPT !.state = "primary_confirmed", !.confirmedAt = now, !.grant = g]
      <3>1. now \in MaybeInstant /\ "primary_confirmed" \in TransferStates /\ g \in MaybeGrant
        BY DEF TypeInv, MaybeInstant, MaybeGrant, TransferStates, LiveTransfer
      <3>2. row \in TransferRow /\ row.grant = g
        BY <2>1, <3>1 DEF TransferRow
      <3> QED  BY <1>3, <2>5, <3>2
    <2>6. ASSUME NEW g \in Grants, UNCHANGED transfers, grants[g] = None, grants' = [grants EXCEPT ![g] = t]
          PROVE  GrantInv'
      <3>1. ASSUME NEW u \in Transfers, transfers[u].grant # None PROVE grants'[transfers[u].grant] = u
        <4>1. grants[transfers[u].grant] = u /\ u # None
          BY <3>1, BudgetSpaceAssumption DEF GrantInv
        <4> QED  BY <2>6, <4>1 DEF TypeInv
      <3> QED  BY <2>6, <3>1 DEF GrantInv
    <2> QED  BY <1>5, <2>2, <2>3, <2>4, <2>5, <2>6 DEF Moves
  <1> QED  BY <1>1, <1>4, <1>5, StepKinds

-----------------------------------------------------------------------------
(***************************************************************************)
(* What a committed transfer rests on.                                     *)
(***************************************************************************)

\* The consents a source left, current or not.
Left(t) ==
    {[member |-> c.member, role |-> c.role, grant |-> c.grant] : c \in {d \in consents : d.source = t}}

\* The consents a committed row should have left.
Owed(row) ==
    {[member |-> row.recipient, role |-> "primary_owner", grant |-> None],
     [member |-> row.proposer, role |-> "co_owner", grant |-> row.grant]}

\* A committed transfer left its two consents, another none.
SourceInv ==
    \A t \in Transfers :
        Left(t) = IF transfers[t].state = "committed" THEN Owed(transfers[t]) ELSE {}

\* A workflow that moves is not a committed one, before or after.
LEMMA MovesKeepCommitted ==
  ASSUME TypeInv, NEW t \in Transfers, Moves(t)
  PROVE  \/ UNCHANGED transfers
         \/ /\ transfers[t].state # "committed" /\ transfers'[t].state # "committed"
            /\ \A u \in Transfers \ {t} : transfers'[u] = transfers[u]
  <1> DEFINE old == transfers[t]
  <1>1. /\ old \in TransferRow
        /\ {"absent", "proposed", "recipient_accepted", "primary_confirmed"} \cap {"committed"} = {}
        /\ LiveTransfer \cap {"committed"} = {}
    BY DEF TypeInv, GoodTransfer, LiveTransfer
  <1>2. ASSUME NEW row, transfers' = [transfers EXCEPT ![t] = row], row.state # "committed",
               old.state # "committed"
        PROVE  /\ transfers[t].state # "committed" /\ transfers'[t].state # "committed"
               /\ \A u \in Transfers \ {t} : transfers'[u] = transfers[u]
    BY <1>2 DEF TypeInv
  <1>3. /\ \A to \in OverTransfer \ {"committed"} : [old EXCEPT !.state = to].state # "committed"
        /\ [old EXCEPT !.state = "recipient_accepted", !.acceptedAt = now].state # "committed"
        /\ \A g \in Grants :
              [old EXCEPT !.state = "primary_confirmed", !.confirmedAt = now, !.grant = g].state # "committed"
    BY <1>1 DEF TransferRow
  <1> HIDE DEF old
  <1> QED  BY <1>1, <1>2, <1>3 DEF Moves, old

\* Every step keeps what each transfer left.
LEMMA SourceStep == TypeInv /\ SourceInv /\ [Next]_vars => SourceInv'
  <1> SUFFICES ASSUME TypeInv, SourceInv, [Next]_vars PROVE SourceInv'
    OBVIOUS
  <1>1. ASSUME UNCHANGED transfers, consents' = consents \/ \E c : Entered(c) /\ consents' = consents \cup {c}
        PROVE  SourceInv'
    <2>1. ASSUME NEW t \in Transfers PROVE {d \in consents : d.source = t}' = {d \in consents : d.source = t}
      <3>1. t \notin Invites
        BY BudgetSpaceAssumption
      <3> QED  BY <1>1, <3>1 DEF Entered
    <2> QED  BY <1>1, <2>1 DEF SourceInv, Left, Owed
  <1>2. ASSUME NEW t \in Transfers, Moves(t), UNCHANGED rowVars PROVE SourceInv'
    BY <1>2, MovesKeepCommitted DEF SourceInv, Left, Owed, rowVars
  <1>3. ASSUME NEW t \in Transfers, NEW row \in GoodTransfer, Handing(t, row) PROVE SourceInv'
    <2> DEFINE ms == {row.proposer, row.recipient}
               up == Consent(row.recipient, "primary_owner", t, None)
               down == Consent(row.proposer, "co_owner", t, row.grant)
    <2>1. /\ consents' = Superseded(ms) \cup {up, down} /\ consents \subseteq ConsentRow
          /\ transfers[t].state # "committed"
      BY <1>3 DEF Handing, Commit, ConsentsAfter, TypeInv, LiveTransfer
    <2>2. /\ up.source = t /\ down.source = t
          /\ [member |-> up.member, role |-> up.role, grant |-> up.grant]
                = [member |-> row.recipient, role |-> "primary_owner", grant |-> None]
          /\ [member |-> down.member, role |-> down.role, grant |-> down.grant]
                = [member |-> row.proposer, role |-> "co_owner", grant |-> row.grant]
      BY DEF Consent
    <2> HIDE DEF up, down
    <2>3. {d \in consents : d.source = t} = {}
      BY <2>1 DEF SourceInv, Left
    <2>4. {d \in consents' : d.source = t} = {up, down}
      <3>1. \A c \in Superseded(ms) : c.source # t
        BY <2>1, <2>3, SupersededConsents
      <3> QED  BY <2>1, <2>2, <3>1
    <2>5. /\ transfers'[t].state = "committed" /\ transfers'[t].proposer = row.proposer
          /\ transfers'[t].recipient = row.recipient /\ transfers'[t].grant = row.grant
          /\ \A u \in Transfers \ {t} : transfers'[u] = transfers[u]
      BY <1>3, CommittedRow
    <2>6. Left(t)' = {[member |-> c.member, role |-> c.role, grant |-> c.grant] : c \in {up, down}}
      BY <2>4 DEF Left
    <2>7. Left(t)' = Owed(transfers[t])'
      BY <2>2, <2>5, <2>6 DEF Owed
    <2>8. ASSUME NEW u \in Transfers \ {t} PROVE Left(u)' = Left(u)
      <3> DEFINE was == {d \in consents : d.source = u}
                 is == {d \in consents' : d.source = u}
      <3>1. is = {d \in Superseded(ms) : d.source = u}
        BY <2>1, <2>2, <2>8
      <3>2. ASSUME NEW c \in is
            PROVE  \E d \in was : c.member = d.member /\ c.role = d.role /\ c.grant = d.grant
        <4>1. c \in Superseded(ms) /\ c.source = u
          BY <3>1, <3>2
        <4>2. PICK d \in consents : c.member = d.member /\ c.role = d.role /\ c.source = d.source /\ c.grant = d.grant
          BY <2>1, <4>1, SupersededConsents
        <4> QED  BY <4>1, <4>2
      <3>3. ASSUME NEW d \in was
            PROVE  \E c \in is : c.member = d.member /\ c.role = d.role /\ c.grant = d.grant
        BY <2>1, <3>1, <3>3, SupersededConsents
      <3>4. /\ Left(u) = {[member |-> c.member, role |-> c.role, grant |-> c.grant] : c \in was}
            /\ Left(u)' = {[member |-> c.member, role |-> c.role, grant |-> c.grant] : c \in is}
        BY DEF Left
      <3> HIDE DEF was, is
      <3> QED  BY <3>2, <3>3, <3>4
    <2> QED  BY <2>5, <2>7, <2>8 DEF SourceInv, Owed
  <1> QED  BY <1>1, <1>2, <1>3, StepKinds

\* What the three invariants say of a committed transfer is what the runs check.
LEMMA LegsGiveAgreement == TypeInv /\ LegsInv /\ GrantInv /\ SourceInv => AgreedByBoth
  <1> SUFFICES ASSUME TypeInv, LegsInv, GrantInv, SourceInv, NEW t \in Transfers, transfers[t].state = "committed"
               PROVE  LET row == transfers[t] IN
                      /\ row.acceptedAt # None /\ row.acceptedAt < row.expires
                      /\ row.confirmedAt # None /\ row.confirmedAt < row.expires
                      /\ row.grant # None /\ grants[row.grant] = t
                      /\ \A u \in Transfers \ {t} : transfers[u].grant # row.grant
                      /\ Left(t) = Owed(row)
    BY DEF AgreedByBoth, Left, Owed
  <1>1. LegFacts(transfers[t])
    BY DEF LegsInv
  <1>2. transfers[t].grant # None /\ grants[transfers[t].grant] = t
    BY <1>1 DEF LegFacts, GrantInv
  <1>3. \A u \in Transfers \ {t} : transfers[u].grant # transfers[t].grant
    BY <1>2 DEF GrantInv
  <1>4. Left(t) = Owed(transfers[t])
    BY DEF SourceInv
  <1> QED  BY <1>1, <1>2, <1>3, <1>4 DEF LegFacts

\* The workflows begin with nothing recorded.
LEMMA InitLegs == Init => LegsInv /\ GrantInv /\ SourceInv
  <1> SUFFICES ASSUME Init PROVE LegsInv /\ GrantInv /\ SourceInv
    OBVIOUS
  <1>1. \A t \in Transfers : transfers[t] = NoTransfer
    BY DEF Init, TransferInit
  <1>2. /\ NoTransfer.state = "absent" /\ NoTransfer.acceptedAt = None
        /\ NoTransfer.confirmedAt = None /\ NoTransfer.grant = None
    BY DEF NoTransfer
  <1>3. ASSUME NEW t \in Transfers PROVE Left(t) = {}
    <2>1. \A c \in consents : c.source = Creation
      BY InitialRows DEF Consent
    <2>2. {d \in consents : d.source = t} = {}
      BY <2>1, BudgetSpaceAssumption
    <2> QED  BY <2>2 DEF Left
  <1> QED  BY <1>1, <1>2, <1>3 DEF LegsInv, LegFacts, GrantInv, SourceInv

\* A committed transfer had both parties' legs in time, on one grant spent on
\* it alone, and left one consent of each party.
THEOREM CommittedTransfersWereAgreed == Spec => []AgreedByBoth
  <1>1. Spec => [](LegsInv /\ GrantInv /\ SourceInv)
    BY InitLegs, TypesHold, LegsStep, GrantStep, SourceStep, PTL DEF Spec
  <1> QED  BY <1>1, TypesHold, LegsGiveAgreement, PTL

-----------------------------------------------------------------------------
(***************************************************************************)
(* The chain of owners.                                                    *)
(***************************************************************************)

\* The transfers that committed.
Committed == {t \in Transfers : transfers[t].state = "committed"}

\* Each committed transfer is of a version before the current one, and none
\* of them share theirs.
ChainInv ==
    /\ \A t \in Committed : transfers[t].ownership + 1 <= space.version
    /\ OwnershipChain

\* Every step keeps the chain: a commit appends to its end.
LEMMA ChainStep == TypeInv /\ ChainInv /\ [Next]_vars => ChainInv'
  <1> SUFFICES ASSUME TypeInv, ChainInv, [Next]_vars PROVE ChainInv'
    OBVIOUS
  <1>1. ASSUME space' = space, Committed' = Committed, \A t \in Committed : transfers'[t] = transfers[t]
        PROVE  ChainInv'
    <2>1. \A t \in Committed' : transfers'[t] = transfers[t]
      BY <1>1
    <2>2. OwnershipChain <=>
            /\ \A t, u \in Committed : transfers[t].ownership = transfers[u].ownership => t = u
            /\ \A t \in Committed :
                  \/ /\ transfers[t].ownership + 1 = space.version
                     /\ transfers[t].recipient = space.primary
                  \/ \E u \in Committed :
                        /\ transfers[u].ownership = transfers[t].ownership + 1
                        /\ transfers[u].proposer = transfers[t].recipient
      BY DEF OwnershipChain, Committed
    <2>3. OwnershipChain' <=>
            /\ \A t, u \in Committed' : transfers'[t].ownership = transfers'[u].ownership => t = u
            /\ \A t \in Committed' :
                  \/ /\ transfers'[t].ownership + 1 = space'.version
                     /\ transfers'[t].recipient = space'.primary
                  \/ \E u \in Committed' :
                        /\ transfers'[u].ownership = transfers'[t].ownership + 1
                        /\ transfers'[u].proposer = transfers'[t].recipient
      BY DEF OwnershipChain, Committed
    <2> QED  BY <1>1, <2>1, <2>2, <2>3 DEF ChainInv
  <1>2. CASE UNCHANGED <<space, transfers, grants>>
    BY <1>1, <1>2 DEF Committed
  <1>3. ASSUME NEW t \in Transfers, Moves(t), UNCHANGED rowVars PROVE ChainInv'
    <2>1. Committed' = Committed /\ \A u \in Committed : transfers'[u] = transfers[u]
      BY <1>3, MovesKeepCommitted DEF Committed
    <2> QED  BY <1>1, <1>3, <2>1 DEF rowVars
  <1>4. ASSUME NEW t \in Transfers, NEW row \in GoodTransfer, Handing(t, row) PROVE ChainInv'
    <2>1. /\ transfers'[t].state = "committed" /\ transfers'[t].ownership = space.version
          /\ transfers'[t].proposer = space.primary /\ transfers'[t].recipient = row.recipient
          /\ \A u \in Transfers \ {t} : transfers'[u] = transfers[u]
          /\ t \notin Committed /\ space' = [primary |-> row.recipient, version |-> space.version + 1]
      <3>1. row.ownership = space.version /\ row.proposer = space.primary
        BY <1>4 DEF Handing, Stale
      <3>2. space' = [primary |-> row.recipient, version |-> space.version + 1] /\ t \notin Committed
        BY <1>4 DEF Handing, Commit, SpaceAfter, Committed, LiveTransfer
      <3> QED  BY <1>4, <3>1, <3>2, CommittedRow
    <2>2. Committed' = Committed \cup {t}
      BY <2>1 DEF Committed
    <2>3. /\ space.version \in Nat
          /\ \A u \in Committed : /\ u # t /\ transfers'[u] = transfers[u] /\ transfers[u].ownership \in Nat
                                  /\ transfers[u].ownership + 1 <= space.version
      <3>1. \A u \in Committed : u # t /\ transfers'[u] = transfers[u]
        BY <2>1 DEF Committed
      <3>2. \A u \in Committed : transfers[u].ownership \in Nat
        BY DEF Committed, TypeInv, GoodTransfer, TransferRow
      <3> QED  BY <3>1, <3>2 DEF ChainInv, TypeInv
    <2>4. \A u \in Committed' : transfers'[u].ownership + 1 <= space'.version
      BY <2>1, <2>2, <2>3
    <2>5. ASSUME NEW u \in Committed', NEW v \in Committed', transfers'[u].ownership = transfers'[v].ownership
          PROVE  u = v
      <3>1. CASE u \in Committed /\ v \in Committed
        BY <2>3, <2>5, <3>1 DEF ChainInv, OwnershipChain, Committed
      <3>2. ASSUME NEW w \in Committed PROVE transfers'[w].ownership # transfers'[t].ownership
        BY <2>1, <2>3, <3>2
      <3> QED  BY <2>2, <2>5, <3>1, <3>2
    <2>6. ASSUME NEW u \in Committed'
          PROVE  \/ /\ transfers'[u].ownership + 1 = space'.version
                    /\ transfers'[u].recipient = space'.primary
                 \/ \E v \in Committed' :
                       /\ transfers'[v].ownership = transfers'[u].ownership + 1
                       /\ transfers'[v].proposer = transfers'[u].recipient
      <3>1. CASE u = t
        BY <2>1, <3>1
      <3>2. CASE u \in Committed
        <4>1. \/ /\ transfers[u].ownership + 1 = space.version
                 /\ transfers[u].recipient = space.primary
              \/ \E v \in Committed :
                    /\ transfers[v].ownership = transfers[u].ownership + 1
                    /\ transfers[v].proposer = transfers[u].recipient
          BY <3>2 DEF ChainInv, OwnershipChain, Committed
        <4>2. CASE /\ transfers[u].ownership + 1 = space.version
                   /\ transfers[u].recipient = space.primary
          BY <2>1, <2>2, <2>3, <3>2, <4>2
        <4>3. ASSUME NEW v \in Committed, transfers[v].ownership = transfers[u].ownership + 1,
                     transfers[v].proposer = transfers[u].recipient
              PROVE  \E w \in Committed' :
                       /\ transfers'[w].ownership = transfers'[u].ownership + 1
                       /\ transfers'[w].proposer = transfers'[u].recipient
          BY <2>2, <2>3, <3>2, <4>3
        <4> QED  BY <4>1, <4>2, <4>3
      <3> QED  BY <2>2, <3>1, <3>2
    <2>7. OwnershipChain'
      BY <2>5, <2>6 DEF OwnershipChain, Committed
    <2> QED  BY <2>4, <2>7 DEF ChainInv
  <1> QED  BY <1>2, <1>3, <1>4, StepKinds

\* The committed transfers form one chain of owners that ends at the Primary,
\* whatever transfers were proposed, left or overtaken on the way.
THEOREM OwnershipIsAChain == Spec => []OwnershipChain
  <1>1. Init => ChainInv
    <2>1. Init => Committed = {}
      BY DEF Init, TransferInit, Committed, NoTransfer
    <2> QED  BY <2>1 DEF ChainInv, OwnershipChain, Committed
  <1>2. ChainInv => OwnershipChain
    BY DEF ChainInv
  <1> QED  BY <1>1, <1>2, TypesHold, ChainStep, PTL DEF Spec

-----------------------------------------------------------------------------
(***************************************************************************)
(* The ownership contract.                                                 *)
(***************************************************************************)

\* The offer a transfer row stands for.
OfferOf(row) ==
    [state |-> IF row.state = "absent" THEN "none"
               ELSE IF row.state \in LiveTransfer THEN "open"
               ELSE IF row.state = "committed" THEN "passed" ELSE "closed",
     from |-> row.proposer, to |-> row.recipient,
     agreed |-> {p \in {row.proposer} : row.confirmedAt # None}
                  \cup {p \in {row.recipient} : row.acceptedAt # None}]

\* The offers are those of the rows.
LEMMA OffersOfRows ==
  /\ Standings = [t \in Transfers |-> OfferOf(transfers[t])]
  /\ Standings' = [t \in Transfers |-> OfferOf(transfers'[t])]
  BY DEF Standings, OfferOf

\* The offer of a changed row.
LEMMA OneOffer ==
  ASSUME TypeInv, NEW t \in Transfers, NEW row, transfers' = [transfers EXCEPT ![t] = row]
  PROVE  Standings' = [Standings EXCEPT ![t] = OfferOf(row)] /\ Standings'[t] = OfferOf(row)
         /\ Standings[t] = OfferOf(transfers[t])
  BY OffersOfRows DEF TypeInv

\* The offer's state tells the row's.
LEMMA OfferStates ==
  ASSUME NEW row
  PROVE  /\ OfferOf(row).state = "open" <=> row.state \in LiveTransfer
         /\ row.state \in OverTransfer \ {"committed"} => OfferOf(row).state = "closed"
         /\ row.state = "committed" => OfferOf(row).state = "passed"
         /\ OfferOf(row).from = row.proposer /\ OfferOf(row).to = row.recipient
         /\ row.acceptedAt = None /\ row.confirmedAt = None => OfferOf(row).agreed = {}
         /\ row.acceptedAt # None /\ row.confirmedAt = None => OfferOf(row).agreed = {row.recipient}
         /\ row.acceptedAt = None /\ row.confirmedAt # None => OfferOf(row).agreed = {row.proposer}
         /\ row.acceptedAt # None /\ row.confirmedAt # None => OfferOf(row).agreed = {row.proposer, row.recipient}
  BY DEF OfferOf, LiveTransfer, OverTransfer

\* An offer is its four fields.
LEMMA OfferFields ==
  ASSUME NEW row
  PROVE  OfferOf(row) = [state |-> OfferOf(row).state, from |-> row.proposer, to |-> row.recipient,
                         agreed |-> OfferOf(row).agreed]
  BY DEF OfferOf

\* A workflow that moves is an offer made, agreed to by one, closed, or none of these.
LEMMA MovesKeepContract ==
  ASSUME TypeInv, LegsInv, NEW t \in Transfers, Moves(t), UNCHANGED rowVars
  PROVE  Contract!Next \/ UNCHANGED Contract!contractVars
  <1> DEFINE old == transfers[t]
  <1>1. /\ old \in TransferRow /\ LegFacts(old) /\ space' = space
    BY DEF TypeInv, GoodTransfer, LegsInv, rowVars
  <1>2. ASSUME old.state = "absent", \A u \in Transfers : transfers[u].state \notin LiveTransfer,
               NEW r \in Members, r # space.primary, NEW row \in TransferRow,
               transfers' = [transfers EXCEPT ![t] = row],
               row.state = "proposed", row.proposer = space.primary, row.recipient = r,
               row.acceptedAt = None, row.confirmedAt = None
        PROVE  Contract!Next
    <2>1. Standings[t] = Contract!NoOffer
      <3>1. old = NoTransfer
        BY <1>1, <1>2 DEF LegFacts
      <3>2. Standings[t] = OfferOf(NoTransfer)
        BY <1>2, <3>1, OneOffer
      <3> QED  BY <3>2 DEF OfferOf, NoTransfer, Contract!NoOffer
    <2>2. \A u \in Transfers : ~ Contract!Open(u)
      BY <1>2, OffersOfRows, OfferStates DEF Contract!Open
    <2>3. OfferOf(row) = [state |-> "open", from |-> space.primary, to |-> r, agreed |-> {}]
      BY <1>2 DEF OfferOf, LiveTransfer
    <2>4. Standings' = [Standings EXCEPT ![t] = OfferOf(row)] /\ Standings'[t] = OfferOf(row)
      BY <1>2, OneOffer
    <2>5. Standings'[t].state = "open" /\ Standings[t].state = "none"
      BY <2>1, <2>3, <2>4 DEF Contract!NoOffer
    <2>6. Contract!Make(t, r)
      BY <1>1, <1>2, <2>1, <2>2, <2>3, <2>4 DEF Contract!Make
    <2>7. Standings'[t] # Standings[t]
      BY <2>5
    <2> QED  BY <2>6, <2>7 DEF Contract!Next
  <1>3. ASSUME old.state \in LiveTransfer, NEW to \in OverTransfer \ {"committed"},
               transfers' = [transfers EXCEPT ![t] = [old EXCEPT !.state = to]]
        PROVE  Contract!Next
    <2> DEFINE row == [old EXCEPT !.state = to]
    <2>1. /\ row.state = to /\ row.proposer = old.proposer /\ row.recipient = old.recipient
          /\ row.acceptedAt = old.acceptedAt /\ row.confirmedAt = old.confirmedAt
      BY <1>1 DEF TransferRow
    <2> HIDE DEF row
    <2>2. OfferOf(row) = [OfferOf(old) EXCEPT !.state = "closed"] /\ OfferOf(old).state = "open"
      BY <1>3, <2>1 DEF OfferOf, LiveTransfer, OverTransfer
    <2>3. OfferOf(row) # OfferOf(old)
      BY <1>3, <2>1, OfferStates
    <2>4. Standings' = [Standings EXCEPT ![t] = OfferOf(row)] /\ Standings'[t] = OfferOf(row)
          /\ Standings[t] = OfferOf(old)
      BY <1>3, OneOffer DEF row
    <2>5. Contract!Withdraw(t)
      BY <1>1, <2>2, <2>4 DEF Contract!Withdraw, Contract!Open, Contract!Closed
    <2> QED  BY <2>3, <2>4, <2>5 DEF Contract!Next
  <1>4. ASSUME old.state \in {"proposed", "recipient_accepted"}, old.acceptedAt = None,
               transfers' = [transfers EXCEPT ![t] = [old EXCEPT !.state = "recipient_accepted", !.acceptedAt = now]]
        PROVE  Contract!Next
    <2> DEFINE row == [old EXCEPT !.state = "recipient_accepted", !.acceptedAt = now]
    <2>1. old.state = "proposed" /\ old.confirmedAt = None /\ now # None
      BY <1>1, <1>4, InstantsType, BudgetSpaceAssumption DEF LegFacts, TypeInv
    <2>2. /\ row.state = "recipient_accepted" /\ row.proposer = old.proposer /\ row.recipient = old.recipient
          /\ row.acceptedAt = now /\ row.confirmedAt = None
      BY <1>1, <2>1 DEF TransferRow
    <2> HIDE DEF row
    <2>3. /\ OfferOf(old).agreed = {} /\ OfferOf(row).agreed = {old.recipient} /\ OfferOf(old).state = "open"
          /\ OfferOf(row) = [OfferOf(old) EXCEPT !.agreed = {old.recipient}]
          /\ OfferOf(old).to = old.recipient /\ old.recipient \in Members
      <3>1. OfferOf(old).agreed = {} /\ OfferOf(row).agreed = {old.recipient}
        BY <1>4, <2>1, <2>2, OfferStates
      <3>2. old.recipient \in Members
        BY <2>1, PartiesAreMembers
      <3> QED  BY <2>1, <2>2, <3>1, <3>2 DEF OfferOf, LiveTransfer
    <2>4. Standings' = [Standings EXCEPT ![t] = OfferOf(row)] /\ Standings'[t] = OfferOf(row)
          /\ Standings[t] = OfferOf(old)
      BY <1>4, OneOffer DEF row
    <2>5. Contract!Agree(t, old.recipient)
      BY <1>1, <2>3, <2>4 DEF Contract!Agree, Contract!Open
    <2>6. Standings'[t].agreed = {old.recipient} /\ Standings[t].agreed = {}
      BY <2>3, <2>4
    <2>7. Standings'[t] # Standings[t]
      BY <2>6
    <2> QED  BY <2>3, <2>5, <2>7 DEF Contract!Next
  <1>5. ASSUME old.state \in {"proposed", "primary_confirmed"}, old.confirmedAt = None, NEW g \in Grants,
               transfers' = [transfers EXCEPT ![t] =
                    [old EXCEPT !.state = "primary_confirmed", !.confirmedAt = now, !.grant = g]]
        PROVE  Contract!Next
    <2> DEFINE row == [old EXCEPT !.state = "primary_confirmed", !.confirmedAt = now, !.grant = g]
    <2>1. old.state = "proposed" /\ old.acceptedAt = None /\ now # None
      BY <1>1, <1>5, InstantsType, BudgetSpaceAssumption DEF LegFacts, TypeInv
    <2>2. /\ row.state = "primary_confirmed" /\ row.proposer = old.proposer /\ row.recipient = old.recipient
          /\ row.confirmedAt = now /\ row.acceptedAt = None
      BY <1>1, <2>1 DEF TransferRow
    <2> HIDE DEF row
    <2>3. /\ OfferOf(old).agreed = {} /\ OfferOf(row).agreed = {old.proposer} /\ OfferOf(old).state = "open"
          /\ OfferOf(row) = [OfferOf(old) EXCEPT !.agreed = {old.proposer}]
          /\ OfferOf(old).from = old.proposer /\ old.proposer \in Members
      <3>1. OfferOf(old).agreed = {} /\ OfferOf(row).agreed = {old.proposer}
        BY <1>5, <2>1, <2>2, OfferStates
      <3>2. old.proposer \in Members
        BY <2>1, PartiesAreMembers
      <3> QED  BY <2>1, <2>2, <3>1, <3>2 DEF OfferOf, LiveTransfer
    <2>4. Standings' = [Standings EXCEPT ![t] = OfferOf(row)] /\ Standings'[t] = OfferOf(row)
          /\ Standings[t] = OfferOf(old)
      BY <1>5, OneOffer DEF row
    <2>5. Contract!Agree(t, old.proposer)
      BY <1>1, <2>3, <2>4 DEF Contract!Agree, Contract!Open
    <2>6. Standings'[t].agreed = {old.proposer} /\ Standings[t].agreed = {}
      BY <2>3, <2>4
    <2>7. Standings'[t] # Standings[t]
      BY <2>6
    <2> QED  BY <2>3, <2>5, <2>7 DEF Contract!Next
  <1>6. ASSUME UNCHANGED transfers PROVE UNCHANGED Contract!contractVars
    BY <1>1, <1>6, OffersOfRows DEF Contract!contractVars
  <1> QED  BY <1>2, <1>3, <1>4, <1>5, <1>6 DEF Moves

\* A commit passes the ownership by an offer both parties agreed to.
LEMMA CommitPasses ==
  ASSUME TypeInv, LegsInv, NEW t \in Transfers, NEW row \in GoodTransfer, Handing(t, row)
  PROVE  Contract!Next
  <1> DEFINE old == transfers[t]
  <1>1. /\ transfers' = [transfers EXCEPT ![t] = transfers'[t]] /\ transfers'[t].state = "committed"
        /\ transfers'[t].proposer = old.proposer /\ transfers'[t].recipient = old.recipient
        /\ transfers'[t].acceptedAt # None /\ transfers'[t].confirmedAt # None
    BY CommittedRow, CompletedLegs DEF Handing
  <1>2. old.state \in LiveTransfer /\ LegFacts(old) /\ old.state # "proposed"
    BY DEF Handing, Completes, LegsInv
  <1>3. OfferOf(old).state = "open" /\ OfferOf(old).agreed # {}
    <2>1. OfferOf(old).state = "open"
      BY <1>2, OfferStates
    <2>2. OfferOf(old).agreed \in {{old.proposer}, {old.recipient}}
      <3>1. CASE old.state = "recipient_accepted"
        BY <1>2, <3>1, OfferStates DEF LegFacts
      <3>2. CASE old.state = "primary_confirmed"
        BY <1>2, <3>2, OfferStates DEF LegFacts
      <3> QED  BY <1>2, <3>1, <3>2 DEF LiveTransfer
    <2> QED  BY <2>1, <2>2
  <1>4. OfferOf(transfers'[t]) = [state |-> "passed", from |-> old.proposer, to |-> old.recipient,
                                  agreed |-> {old.proposer, old.recipient}]
    <2>1. /\ OfferOf(transfers'[t]).state = "passed"
          /\ OfferOf(transfers'[t]).agreed = {old.proposer, old.recipient}
      BY <1>1, OfferStates
    <2> QED  BY <1>1, <2>1, OfferFields
  <1>5. Standings' = [Standings EXCEPT ![t] = OfferOf(transfers'[t])] /\ Standings[t] = OfferOf(old)
        /\ Standings'[t] = OfferOf(transfers'[t])
    BY <1>1, OneOffer
  <1>6. space.primary = old.proposer /\ space'.primary = old.recipient
    BY DEF Handing, Commit, SpaceAfter
  <1>7. Standings'[t] # Standings[t]
    BY <1>1, <1>3, <1>5, OfferStates
  <1>8. Contract!Pass(t)
    BY ZenonT(40), <1>3, <1>4, <1>5, <1>6, OfferStates DEF Contract!Pass, Contract!Open
  <1> QED  BY <1>7, <1>8 DEF Contract!Next

\* Whatever the commands, the invitations and the departures do, the ownership
\* passes by the contract: only by an offer both its parties agreed to.
THEOREM TransfersImplementOwnership == Spec => ImplementsOwnership
  <1>1. Init => Contract!Init
    <2> SUFFICES ASSUME Init PROVE Contract!Init
      OBVIOUS
    <2>1. space.primary \in Members
      BY BudgetSpaceAssumption DEF Init, SpaceInit
    <2>2. \A t \in Transfers : OfferOf(transfers[t]) = Contract!NoOffer
      BY DEF Init, TransferInit, OfferOf, NoTransfer, Contract!NoOffer
    <2> QED  BY <2>1, <2>2, OffersOfRows DEF Contract!Init
  <1>2. TypeInv /\ LegsInv /\ [Next]_vars => [Contract!Next]_Contract!contractVars
    <2> SUFFICES ASSUME TypeInv, LegsInv, [Next]_vars PROVE Contract!Next \/ UNCHANGED Contract!contractVars
      OBVIOUS
    <2>1. CASE UNCHANGED <<space, transfers, grants>>
      BY <2>1, OffersOfRows DEF Contract!contractVars
    <2> QED  BY <2>1, StepKinds, MovesKeepContract, CommitPasses
  <1>3. Spec => [](TypeInv /\ LegsInv)
    BY InitLegs, TypesHold, LegsStep, PTL DEF Spec
  <1> QED  BY <1>1, <1>2, <1>3, PTL DEF Spec, ImplementsOwnership, Contract!Spec

-----------------------------------------------------------------------------
(***************************************************************************)
(* The life of an invitation's row.  Every step but an acceptance lets the *)
(* rows that exist follow: nothing of them reopens, what was accepted stays*)
(* as it was, and a candidate enters an open row only while not a member.  *)
(***************************************************************************)

\* A row's code, ceremony and confirmation agree with its state.
RowAgrees(row) ==
    /\ row.code = "active" => row.state \in ActiveInvite
    /\ row.ceremony \in {"open", "accepted"} => row.code = "active"
    /\ row.attached # None => row.candidate = row.attached
    /\ row.state = "awaiting_confirmation" => row.attached # None
    /\ row.state = "accepted" =>
          /\ row.code = "consumed" /\ row.ceremony = "consumed" /\ row.confirmation = "confirmed"
          /\ row.attached # None

Follows(old, row) ==
    /\ RowAgrees(row)
    /\ row.dest = old.dest /\ row.issued = old.issued
    /\ row.state = "accepted" \/ old.state = "accepted" => row = old
    /\ row.state \in ActiveInvite =>
          /\ old.state \in ActiveInvite
          /\ row.candidate = old.candidate \/ ~ ActiveSubject(row.candidate)

RowsAgree == \A i \in Invites : RowAgrees(invitations[i])
RowsFollow == \A i \in Invites : Follows(invitations[i], invitations'[i])

\* A row left alone follows.
LEMMA SelfFollows == ASSUME NEW row, RowAgrees(row) PROVE Follows(row, row)
  BY DEF Follows

\* What follows a row that follows, follows.
LEMMA FollowsOn ==
  ASSUME NEW old, NEW mid, NEW row, Follows(old, mid), Follows(mid, row)
  PROVE  Follows(old, row)
  BY DEF Follows

\* A row that leaves an open state, for one that is not an acceptance, follows.
LEMMA RetiredFollows ==
  ASSUME NEW row \in GoodInvite, RowAgrees(row), row.state # "accepted",
         NEW to \in InviteStates, to \notin ActiveInvite, to # "accepted"
  PROVE  Follows(row, Retired(row, to))
  <1> DEFINE code == IF row.code = "active" THEN "invalidated" ELSE row.code
             ceremony == IF row.ceremony \in {"open", "accepted"} THEN "invalidated" ELSE row.ceremony
  <1>1. row \in InviteRow
    BY DEF GoodInvite
  <1>2. Retired(row, to) = [row EXCEPT !.state = to, !.code = code, !.ceremony = ceremony]
    BY <1>1 DEF Retired, InviteRow
  <1>3. code # "active" /\ ceremony \notin {"open", "accepted"}
    OBVIOUS
  <1> HIDE DEF code, ceremony
  <1>4. /\ Retired(row, to).state = to /\ Retired(row, to).code = code
        /\ Retired(row, to).ceremony = ceremony
        /\ Retired(row, to).dest = row.dest /\ Retired(row, to).issued = row.issued
        /\ Retired(row, to).attached = row.attached /\ Retired(row, to).candidate = row.candidate
    BY <1>1, <1>2 DEF InviteRow
  <1> QED  BY <1>3, <1>4 DEF Follows, RowAgrees, ActiveInvite

\* A cancelled row follows the open one.
LEMMA CancelledFollows ==
  ASSUME NEW row \in GoodInvite, RowAgrees(row), row.state # "accepted"
  PROVE  Follows(row, Cancelled(row))
  <1>1. /\ "synthetic_inactive" \in InviteStates /\ "cancelled" \in InviteStates
        /\ "synthetic_inactive" \notin ActiveInvite /\ "cancelled" \notin ActiveInvite
    BY DEF InviteStates, ActiveInvite
  <1> QED  BY <1>1, RetiredFollows DEF Cancelled

\* So does a row whose deadline was observed, which is not open.
LEMMA ObservedFollows ==
  ASSUME NEW row \in GoodInvite, RowAgrees(row)
  PROVE  Follows(row, Observed(row)) /\ (Due(row) => Observed(row).state \notin ActiveInvite)
  <1>1. /\ "synthetic_inactive" \in InviteStates /\ "expired" \in InviteStates
        /\ "synthetic_inactive" \notin ActiveInvite /\ "expired" \notin ActiveInvite
        /\ "synthetic" \notin ActiveInvite
    BY DEF InviteStates, ActiveInvite
  <1>2. row \in InviteRow
    BY DEF GoodInvite
  <1>3. Follows(row, Observed(row))
    <2>1. CASE row.state \in ActiveInvite /\ Due(row)
      BY <1>1, <2>1, RetiredFollows DEF Observed, ActiveInvite
    <2>2. CASE row.state = "synthetic" /\ Due(row)
      BY <1>1, <2>2, RetiredFollows DEF Observed
    <2>3. CASE ~ ((row.state \in ActiveInvite \/ row.state = "synthetic") /\ Due(row))
      BY <2>3, SelfFollows DEF Observed
    <2> QED  BY <2>1, <2>2, <2>3
  <1>4. Due(row) => Observed(row).state \notin ActiveInvite
    <2>1. \A to \in {"expired", "synthetic_inactive"} : Retired(row, to).state = to
      BY <1>2 DEF Retired, InviteRow
    <2> QED  BY <1>1, <2>1 DEF Observed
  <1> QED  BY <1>3, <1>4

\* A written row that follows lets all rows follow.
LEMMA WriteFollows ==
  ASSUME TypeInv, RowsAgree, NEW i \in Invites, NEW row, Follows(invitations[i], row), Write(i, row)
  PROVE  RowsFollow
  <1>1. ASSUME NEW j \in Invites, j # i PROVE invitations'[j] = invitations[j]
    BY <1>1 DEF Write, TypeInv
  <1>2. invitations'[i] = row
    BY DEF Write, TypeInv
  <1>3. ASSUME NEW j \in Invites PROVE Follows(invitations[j], invitations'[j])
    BY <1>1, <1>2, SelfFollows DEF RowsAgree
  <1> QED  BY <1>3 DEF RowsFollow

-----------------------------------------------------------------------------
(* The commands.                                                           *)

\* A cancellation, a rejection and a list let the rows follow.
LEMMA DecisionsFollow ==
  ASSUME TypeInv, RowsAgree, NEW m \in Members,
         List(m) \/ \E i \in Invites : Cancel(i, m) \/ RejectAcceptance(i, m)
  PROVE  RowsFollow
  <1>1. \A i \in Invites : invitations[i] \in GoodInvite /\ RowAgrees(invitations[i])
    BY DEF TypeInv, RowsAgree
  <1>2. CASE List(m)
    BY <1>1, <1>2, ObservedFollows DEF List, RowsFollow
  <1>3. ASSUME NEW i \in Invites, Cancel(i, m) PROVE RowsFollow
    <2>1. invitations[i].state # "accepted" /\ Write(i, Cancelled(invitations[i]))
      BY <1>3 DEF Cancel, ActiveInvite
    <2> QED  BY <1>1, <2>1, CancelledFollows, WriteFollows
  <1>4. ASSUME NEW i \in Invites, RejectAcceptance(i, m) PROVE RowsFollow
    <2> DEFINE row == invitations[i]
               rejected == [row EXCEPT !.confirmation = "rejected"]
    <2>1. Write(i, Cancelled(rejected)) /\ row.state = "awaiting_confirmation"
      BY <1>4 DEF RejectAcceptance, Decidable
    <2>2. row \in GoodInvite /\ row \in InviteRow /\ InviteFacts(row) /\ RowAgrees(row)
      BY <1>1 DEF GoodInvite
    <2>3. /\ rejected \in InviteRow /\ rejected.state = row.state /\ rejected.code = row.code
          /\ rejected.ceremony = row.ceremony /\ rejected.attached = row.attached
          /\ rejected.candidate = row.candidate /\ rejected.dest = row.dest
          /\ rejected.issued = row.issued /\ rejected.role = row.role /\ rejected.creator = row.creator
          /\ rejected.proof = row.proof /\ rejected.attempts = row.attempts
      BY <2>2 DEF InviteRow, ConfirmationStates
    <2> HIDE DEF rejected
    <2>4. rejected \in GoodInvite
      BY <2>2, <2>3 DEF GoodInvite, InviteFacts
    <2>5. Follows(row, rejected)
      BY <2>1, <2>2, <2>3 DEF Follows, RowAgrees
    <2>6. Follows(rejected, Cancelled(rejected))
      BY <2>1, <2>3, <2>4, <2>5, CancelledFollows DEF Follows
    <2> QED  BY <2>1, <2>5, <2>6, FollowsOn, WriteFollows
  <1> QED  BY <1>2, <1>3, <1>4

\* A link resolved lets the rows follow.
LEMMA ResolveFollows ==
  ASSUME TypeInv, RowsAgree, NEW i \in Invites, Resolve(i)
  PROVE  RowsFollow
  <1> DEFINE seen == Observed(invitations[i])
             opened == [seen EXCEPT !.ceremony = "open", !.proof = "challenged", !.attempts = 0,
                               !.attached = None, !.until = Earliest(now + CeremonyLife, seen.expires)]
  <1>1. \/ Write(i, seen)
        \/ Write(i, opened) /\ seen.code = "active" /\ seen.state = "pending"
    BY DEF Resolve
  <1>2. seen \in InviteRow /\ Follows(invitations[i], seen)
    BY ObservedRow, ObservedFollows DEF TypeInv, RowsAgree, GoodInvite
  <1> HIDE DEF seen
  <1>3. /\ opened.state = seen.state /\ opened.code = seen.code /\ opened.ceremony = "open"
        /\ opened.attached = None /\ opened.candidate = seen.candidate
        /\ opened.dest = seen.dest /\ opened.issued = seen.issued
    BY <1>2 DEF InviteRow
  <1> HIDE DEF opened
  <1>4. ASSUME seen.code = "active", seen.state = "pending" PROVE Follows(seen, opened)
    BY <1>3, <1>4 DEF Follows, RowAgrees, ActiveInvite
  <1> QED  BY <1>1, <1>2, <1>4, FollowsOn, WriteFollows

\* The commands on a usable ceremony let the rows follow.
LEMMA HoldersFollow ==
  ASSUME TypeInv, RowsAgree, NEW i \in Invites,
         \/ \E right \in BOOLEAN : VerifyChannel(i, right)
         \/ DeclineInvite(i)
         \/ \E s \in Subjects : Attach(i, s)
         \/ AcceptInvite(i)
  PROVE  RowsFollow
  <1> DEFINE row == invitations[i]
  <1>1. row \in GoodInvite /\ row \in InviteRow /\ InviteFacts(row) /\ RowAgrees(row)
    BY DEF TypeInv, RowsAgree, GoodInvite
  <1>2. row.state \in ActiveInvite /\ row.state # "accepted" /\ row.code = "active" /\ row.ceremony = "open"
    BY DEF VerifyChannel, DeclineInvite, Attach, AcceptInvite, Usable, ActiveInvite
  <1>3. Follows(row, Cancelled(row))
    BY <1>1, <1>2, CancelledFollows
  <1>4. ASSUME NEW right \in BOOLEAN, VerifyChannel(i, right) PROVE RowsFollow
    <2> DEFINE tried == [row EXCEPT !.attempts = row.attempts + 1]
               proved == [tried EXCEPT !.proof = "proved"]
               exhausted == [tried EXCEPT !.proof = "exhausted"]
               dead == Retired(exhausted, row.state)
    <2>1. \/ Write(i, proved) \/ Write(i, tried) \/ Write(i, dead)
      BY <1>1, <1>4 DEF VerifyChannel, InviteRow
    <2>2. /\ tried.state = row.state /\ tried.code = row.code /\ tried.ceremony = row.ceremony
          /\ tried.attached = row.attached /\ tried.candidate = row.candidate
          /\ tried.dest = row.dest /\ tried.issued = row.issued
          /\ proved.state = row.state /\ proved.code = row.code /\ proved.ceremony = row.ceremony
          /\ proved.attached = row.attached /\ proved.candidate = row.candidate
          /\ proved.dest = row.dest /\ proved.issued = row.issued
      BY <1>1 DEF InviteRow
    <2>3. /\ dead.state = row.state /\ dead.code = "invalidated" /\ dead.ceremony = "invalidated"
          /\ dead.attached = row.attached /\ dead.candidate = row.candidate
          /\ dead.dest = row.dest /\ dead.issued = row.issued
      BY <1>1, <1>2 DEF Retired, InviteRow
    <2> HIDE DEF tried, proved, exhausted, dead
    <2>4. Follows(row, tried) /\ Follows(row, proved) /\ Follows(row, dead)
      BY <1>1, <1>2, <2>2, <2>3 DEF Follows, RowAgrees
    <2> QED  BY <2>1, <2>4, WriteFollows
  <1>5. CASE DeclineInvite(i)
    <2> DEFINE declined == [row EXCEPT !.ceremony = "declined"]
    <2>1. Write(i, Retired(declined, "declined"))
      BY <1>5 DEF DeclineInvite
    <2>2. /\ declined \in InviteRow
          /\ declined.state = row.state /\ declined.code = row.code /\ declined.ceremony = "declined"
          /\ declined.attached = row.attached /\ declined.candidate = row.candidate
          /\ declined.dest = row.dest /\ declined.issued = row.issued
          /\ declined.role = row.role /\ declined.creator = row.creator
      BY <1>1 DEF InviteRow, CeremonyStates
    <2> HIDE DEF declined
    <2>3. declined \in GoodInvite
      BY <1>1, <2>2 DEF GoodInvite, InviteFacts
    <2>4. Follows(row, declined)
      BY <1>1, <1>2, <2>2 DEF Follows, RowAgrees
    <2>5. "declined" \in InviteStates /\ "declined" \notin ActiveInvite
      BY DEF InviteStates, ActiveInvite
    <2>6. Follows(declined, Retired(declined, "declined"))
      BY <1>2, <2>2, <2>3, <2>4, <2>5, RetiredFollows DEF Follows
    <2> QED  BY <2>1, <2>4, <2>6, FollowsOn, WriteFollows
  <1>6. ASSUME NEW s \in Subjects, Attach(i, s) PROVE RowsFollow
    <2> DEFINE attached == [row EXCEPT !.attached = s, !.candidate = s]
    <2>1. \/ Write(i, Cancelled(row))
          \/ Write(i, attached) /\ ~ ActiveSubject(s)
      BY <1>6 DEF Attach
    <2>2. /\ attached.state = row.state /\ attached.code = row.code /\ attached.ceremony = row.ceremony
          /\ attached.attached = s /\ attached.candidate = s
          /\ attached.dest = row.dest /\ attached.issued = row.issued
      BY <1>1 DEF InviteRow
    <2>3. s # None
      BY BudgetSpaceAssumption
    <2> HIDE DEF attached
    <2>4. ASSUME ~ ActiveSubject(s) PROVE Follows(row, attached)
      BY <1>1, <1>2, <2>2, <2>3, <2>4 DEF Follows, RowAgrees
    <2> QED  BY <1>3, <2>1, <2>4, WriteFollows
  <1>7. CASE AcceptInvite(i)
    <2> DEFINE accepted == [row EXCEPT !.state = "awaiting_confirmation", !.ceremony = "accepted",
                                 !.confirmation = "requested",
                                 !.confirmBy = Earliest(now + ConfirmationLife, row.expires)]
    <2>1. /\ row.attached # None
          /\ Write(i, accepted) \/ Write(i, Cancelled(row))
      BY <1>7 DEF AcceptInvite
    <2>2. /\ accepted.state = "awaiting_confirmation" /\ accepted.code = row.code
          /\ accepted.ceremony = "accepted"
          /\ accepted.attached = row.attached /\ accepted.candidate = row.candidate
          /\ accepted.dest = row.dest /\ accepted.issued = row.issued
      BY <1>1 DEF InviteRow
    <2> HIDE DEF accepted
    <2>3. Follows(row, accepted)
      BY <1>1, <1>2, <2>1, <2>2 DEF Follows, RowAgrees, ActiveInvite
    <2> QED  BY <1>3, <2>1, <2>3, WriteFollows
  <1> QED  BY <1>4, <1>5, <1>6, <1>7

-----------------------------------------------------------------------------
(* Every step, by what it does to the rows.                                *)

\* Invitation i is issued: its row was absent, nobody is a candidate of it,
\* and no other row of its destination is open.
Opens(i) ==
    /\ invitations[i].state = "absent"
    /\ RowAgrees(invitations'[i])
    /\ invitations'[i].state # "accepted" /\ invitations'[i].candidate = None
    /\ \A j \in Invites \ {i} :
          /\ Follows(invitations[j], invitations'[j])
          /\ ~ (/\ invitations'[i].state \in ActiveInvite /\ invitations'[j].state \in ActiveInvite
                /\ invitations'[j].dest = invitations'[i].dest)

\* One open row for each destination.
OneOpenRow ==
    \A i, j \in Invites :
        /\ invitations[i].state \in ActiveInvite /\ invitations[j].state \in ActiveInvite
        /\ invitations[i].dest = invitations[j].dest
        => i = j

\* The fields of a row as it is issued.
LEMMA IssuedRow ==
  ASSUME NEW m, NEW d, NEW role
  PROVE  /\ Dispatched(m, d, role).dest = d /\ Dispatched(m, d, role).candidate = None
         /\ Dispatched(m, d, role).state = "pending" /\ RowAgrees(Dispatched(m, d, role))
         /\ Suppressed(m, d, role).candidate = None
         /\ Suppressed(m, d, role).state = "synthetic" /\ RowAgrees(Suppressed(m, d, role))
  <1>1. /\ Dispatched(m, d, role).dest = d /\ Dispatched(m, d, role).candidate = None
        /\ Dispatched(m, d, role).state = "pending" /\ Dispatched(m, d, role).ceremony = "none"
        /\ Dispatched(m, d, role).attached = None
    BY DEF Dispatched, NoInvite
  <1>2. /\ Suppressed(m, d, role).candidate = None /\ Suppressed(m, d, role).code = "none"
        /\ Suppressed(m, d, role).state = "synthetic" /\ Suppressed(m, d, role).ceremony = "none"
        /\ Suppressed(m, d, role).attached = None
    BY DEF Suppressed, Dispatched, NoInvite
  <1> QED  BY <1>1, <1>2 DEF RowAgrees, ActiveInvite

\* A creation opens one row: whatever else its destination had is past due.
LEMMA CreateOpens ==
  ASSUME TypeInv, RowsAgree, NEW i \in Invites, NEW m \in Members, NEW d \in Destinations,
         NEW role \in InvitableRoles, NEW known, Create(i, m, d, role, known)
  PROVE  Opens(i)
  <1>1. /\ invitations[i].state = "absent"
        /\ invitations'[i] = Dispatched(m, d, role) \/ invitations'[i] = Suppressed(m, d, role)
        /\ \A j \in Invites \ {i} :
              invitations'[j] = IF j \in Open(d) THEN Observed(invitations[j]) ELSE invitations[j]
        /\ \A j \in Open(d) : Due(invitations[j])
    BY DEF Create
  <1>2. ASSUME NEW j \in Invites \ {i}
        PROVE  /\ Follows(invitations[j], invitations'[j])
               /\ ~ (invitations'[j].state \in ActiveInvite /\ invitations'[j].dest = d)
    <2>1. invitations[j] \in GoodInvite /\ RowAgrees(invitations[j])
      BY DEF TypeInv, RowsAgree
    <2>2. CASE j \in Open(d)
      BY <1>1, <2>1, <2>2, ObservedFollows
    <2>3. CASE j \notin Open(d)
      BY <1>1, <2>1, <2>3, SelfFollows DEF Open
    <2> QED  BY <2>2, <2>3
  <1>3. /\ RowAgrees(invitations'[i]) /\ invitations'[i].state # "accepted"
        /\ invitations'[i].candidate = None
        /\ invitations'[i].state \in ActiveInvite => invitations'[i].dest = d
    BY <1>1, IssuedRow DEF ActiveInvite
  <1> QED  BY <1>1, <1>2, <1>3 DEF Opens

\* A replacement opens one row, and closes its predecessor.
LEMMA ReplaceOpens ==
  ASSUME TypeInv, RowsAgree, OneOpenRow, NEW i \in Invites, NEW j \in Invites, NEW m \in Members,
         Replace(i, j, m)
  PROVE  Opens(i)
  <1> DEFINE row == invitations[j]
  <1>1. /\ invitations[i].state = "absent" /\ row.state = "pending" /\ i # j
        /\ invitations'[j] = SupersededRow(row)
        /\ invitations'[i] = Dispatched(m, row.dest, row.role)
        /\ \A k \in Invites \ {i, j} : invitations'[k] = invitations[k]
    BY DEF Replace, TypeInv
  <1>2. row \in GoodInvite /\ row \in InviteRow /\ RowAgrees(row)
    BY DEF TypeInv, RowsAgree, GoodInvite
  <1>3. Follows(row, invitations'[j]) /\ invitations'[j].state \notin ActiveInvite
    <2>1. "superseded" \in InviteStates /\ "superseded" \notin ActiveInvite
      BY DEF InviteStates, ActiveInvite
    <2>2. Retired(row, "superseded").state = "superseded"
      BY <1>2 DEF Retired, InviteRow
    <2> QED  BY <1>1, <1>2, <2>1, <2>2, RetiredFollows DEF SupersededRow
  <1>4. ASSUME NEW k \in Invites \ {i, j}
        PROVE  /\ Follows(invitations[k], invitations'[k])
               /\ ~ (invitations'[k].state \in ActiveInvite /\ invitations'[k].dest = row.dest)
    BY <1>1, SelfFollows DEF RowsAgree, OneOpenRow, ActiveInvite
  <1>5. /\ RowAgrees(invitations'[i]) /\ invitations'[i].state = "pending"
        /\ invitations'[i].candidate = None /\ invitations'[i].dest = row.dest
    BY <1>1, IssuedRow
  <1> QED  BY <1>1, <1>3, <1>4, <1>5 DEF Opens

\* Every step lets the rows follow, opens one, or accepts one.
LEMMA InvitationsMove ==
  ASSUME TypeInv, RowsAgree, OneOpenRow, [Next]_vars
  PROVE  \/ RowsFollow
         \/ \E i \in Invites : Opens(i)
         \/ \E i \in Invites, m, n \in Members : ConfirmAcceptance(i, m, n)
  <1>1. ASSUME invitations' = invitations PROVE RowsFollow
    BY <1>1, SelfFollows DEF RowsFollow, RowsAgree
  <1>2. CASE InvitationStep
    BY <1>2, CreateOpens, ReplaceOpens, DecisionsFollow, ResolveFollows, HoldersFollow DEF InvitationStep
  <1>3. ASSUME NEW t \in Transfers, NEW row \in GoodTransfer, Handing(t, row) PROVE RowsFollow
    <2>1. invitations' = PermissionLost(row.proposer)
      BY <1>3 DEF Handing, Commit, OpenWorkAfter
    <2>2. ASSUME NEW i \in Invites PROVE Follows(invitations[i], invitations'[i])
      <3>1. invitations[i] \in GoodInvite /\ RowAgrees(invitations[i])
        BY DEF TypeInv, RowsAgree
      <3>2. \/ invitations'[i] = invitations[i]
            \/ invitations'[i] = Cancelled(invitations[i]) /\ invitations[i].state \in ActiveInvite
        BY <2>1 DEF PermissionLost
      <3> QED  BY <3>1, <3>2, SelfFollows, CancelledFollows DEF ActiveInvite
    <2> QED  BY <2>2 DEF RowsFollow
  <1>4. CASE TransferStep
    BY <1>1, <1>3, <1>4, TransfersMove DEF rowVars
  <1>5. CASE Environment
    BY <1>1, <1>5 DEF Environment, Tick, RegistryMoves, MembershipEnds
  <1>6. CASE UNCHANGED vars
    BY <1>1, <1>6 DEF vars, rowVars
  <1> QED  BY <1>2, <1>4, <1>5, <1>6 DEF Next

\* What stays of a membership, whatever happens but an acceptance: whose it is,
\* what it came from, and when it ended.
SeatsStay ==
    \A m \in Members :
        /\ members'[m].subject = members[m].subject /\ members'[m].via = members[m].via
        /\ \/ members'[m].status = members[m].status /\ members'[m].ended = members[m].ended
           \/ members[m].status = "active" /\ members'[m].status = "ended" /\ members'[m].ended # None

\* Every step keeps the memberships or is an acceptance.
LEMMA MembersMove ==
  ASSUME TypeInv, [Next]_vars
  PROVE  SeatsStay \/ \E i \in Invites, m, n \in Members : ConfirmAcceptance(i, m, n)
  <1>1. ASSUME members' = members PROVE SeatsStay
    BY <1>1 DEF SeatsStay
  <1>2. ASSUME NEW t \in Transfers, NEW row \in GoodTransfer, Handing(t, row) PROVE SeatsStay
    <2>1. members' = HandOver(row) /\ row.state # "absent"
      BY <1>2 DEF Handing, Commit
    <2> QED  BY <2>1, HandOverRows DEF SeatsStay
  <1>3. ASSUME NEW m \in Members, MembershipEnds(m) PROVE SeatsStay
    <2>1. members[m] \in MemberRow /\ members[m].status = "active" /\ now # None
      BY <1>3, BudgetSpaceAssumption, InstantsType DEF MembershipEnds, Active, TypeInv
    <2>2. members' = [members EXCEPT ![m] = [members[m] EXCEPT !.status = "ended", !.ended = now]]
      BY <1>3 DEF MembershipEnds
    <2>3. /\ members'[m].subject = members[m].subject /\ members'[m].via = members[m].via
          /\ members'[m].status = "ended" /\ members'[m].ended = now
          /\ \A k \in Members \ {m} : members'[k] = members[k]
      BY <2>1, <2>2 DEF TypeInv, MemberRow
    <2> QED  BY <2>1, <2>3 DEF SeatsStay
  <1> QED  BY <1>1, <1>2, <1>3, WhoWritesMembers

-----------------------------------------------------------------------------
(***************************************************************************)
(* The invariant: the seats and the rows of the invitations they came from.*)
(***************************************************************************)

\* An absent row has no source; a membership that ended has its end.
SeatFacts ==
    \A m \in Members :
        /\ members[m].status = "absent" => members[m].via = None
        /\ members[m].status = "active" => members[m].ended = None
        /\ members[m].status = "ended" => members[m].ended # None

\* A seat that came of an invitation is the one that invitation's row names.
SeatsCameOf ==
    \A m \in Members : members[m].via \in Invites =>
        LET row == invitations[members[m].via] IN
        row.state = "accepted" /\ row.member = m /\ row.attached = members[m].subject

\* An accepted invitation's row names the seat that came of it.
AcceptedHaveSeats ==
    \A i \in Invites : invitations[i].state = "accepted" =>
        invitations[i].member \in Members /\ members[invitations[i].member].via = i

\* No open row has a member for its candidate.
CandidatesAreOut ==
    \A i \in Invites :
        invitations[i].state \in ActiveInvite /\ invitations[i].candidate # None
            => ~ ActiveSubject(invitations[i].candidate)

SeatInv ==
    /\ RowsAgree /\ OneOpenRow /\ SeatFacts /\ SeatsCameOf /\ AcceptedHaveSeats
    /\ CandidatesAreOut /\ StaysAreDisjoint

\* Whoever is not a member becomes one by an acceptance only.
LEMMA NobodyEnters ==
  ASSUME SeatsStay, NEW s, ~ ActiveSubject(s)
  PROVE  ~ ActiveSubject(s)'
  BY DEF SeatsStay, ActiveSubject, Active

\* Stays, once disjoint, remain so while seats and accepted rows stay.
LEMMA StaysKept ==
  ASSUME TypeInv, SeatsStay, SeatFacts, SeatsCameOf, StaysAreDisjoint,
         \A i \in Invites : invitations[i].state = "accepted" => invitations'[i] = invitations[i]
  PROVE  StaysAreDisjoint'
  <1> SUFFICES ASSUME NEW m \in Members, NEW n \in Members, m # n,
                      members'[m].subject = members'[n].subject, members'[m].subject # None,
                      members'[m].via \in Invites, members'[n].via \in Invites
               PROVE  \/ members'[m].ended # None /\ members'[m].ended < invitations'[members'[n].via].issued
                      \/ members'[n].ended # None /\ members'[n].ended < invitations'[members'[m].via].issued
    BY DEF StaysAreDisjoint
  <1>1. /\ members[m].subject = members[n].subject /\ members[m].subject # None
        /\ members[m].via \in Invites /\ members[n].via \in Invites
        /\ members'[m].via = members[m].via /\ members'[n].via = members[n].via
    BY DEF SeatsStay
  <1>2. /\ invitations'[members[m].via] = invitations[members[m].via]
        /\ invitations'[members[n].via] = invitations[members[n].via]
    BY <1>1 DEF SeatsCameOf
  <1>3. /\ members[m].ended # None => members'[m].ended = members[m].ended
        /\ members[n].ended # None => members'[n].ended = members[n].ended
    BY DEF SeatsStay, SeatFacts
  <1> QED  BY <1>1, <1>2, <1>3 DEF StaysAreDisjoint

\* The invariant is kept while the seats stay.
LEMMA SeatStayStep ==
  ASSUME TypeInv, SeatInv, SeatsStay, RowsFollow \/ \E i \in Invites : Opens(i)
  PROVE  SeatInv'
  <1>1. RowsAgree'
    BY DEF RowsFollow, Opens, Follows, RowsAgree
  <1>2. \A i \in Invites : invitations[i].state = "accepted" => invitations'[i] = invitations[i]
    BY DEF RowsFollow, Opens, Follows
  <1>3. \A i \in Invites : invitations'[i].state = "accepted" => invitations'[i] = invitations[i]
    BY DEF RowsFollow, Opens, Follows
  <1>4. OneOpenRow'
    <2>1. CASE RowsFollow
      BY <2>1 DEF RowsFollow, Follows, SeatInv, OneOpenRow
    <2>2. ASSUME NEW i \in Invites, Opens(i) PROVE OneOpenRow'
      <3>1. \A j \in Invites \ {i} : Follows(invitations[j], invitations'[j])
        BY <2>2 DEF Opens
      <3>2. \A j \in Invites \ {i} :
               ~ (/\ invitations'[i].state \in ActiveInvite /\ invitations'[j].state \in ActiveInvite
                  /\ invitations'[j].dest = invitations'[i].dest)
        BY <2>2 DEF Opens
      <3> QED  BY <3>1, <3>2 DEF Follows, SeatInv, OneOpenRow
    <2> QED  BY <2>1, <2>2
  <1>5. SeatFacts'
    BY DEF SeatInv, SeatFacts, SeatsStay
  <1>6. SeatsCameOf'
    BY <1>2 DEF SeatInv, SeatsCameOf, SeatsStay
  <1>7. AcceptedHaveSeats'
    BY <1>3 DEF SeatInv, AcceptedHaveSeats, SeatsStay
  <1>8. CandidatesAreOut'
    <2> SUFFICES ASSUME NEW i \in Invites, invitations'[i].state \in ActiveInvite,
                        invitations'[i].candidate # None
                 PROVE  \E s : s = invitations'[i].candidate /\ ~ ActiveSubject(s)'
      BY DEF CandidatesAreOut, ActiveSubject, Active
    <2>1. /\ invitations[i].state \in ActiveInvite
          /\ \/ invitations'[i].candidate = invitations[i].candidate
             \/ ~ ActiveSubject(invitations'[i].candidate)
      BY DEF RowsFollow, Opens, Follows
    <2>2. ~ ActiveSubject(invitations'[i].candidate)
      BY <2>1 DEF SeatInv, CandidatesAreOut
    <2>3. ASSUME NEW s, s = invitations'[i].candidate PROVE ~ ActiveSubject(s)'
      <3>1. ~ ActiveSubject(s)
        BY <2>2, <2>3
      <3> QED  BY <3>1, NobodyEnters
    <2> QED  BY <2>3
  <1>9. StaysAreDisjoint'
    BY <1>2, StaysKept DEF SeatInv
  <1> QED  BY <1>1, <1>4, <1>5, <1>6, <1>7, <1>8, <1>9 DEF SeatInv

\* An acceptance's fields, and what becomes of every other row.
LEMMA AcceptanceRows ==
  ASSUME TypeInv, SeatInv, NEW i \in Invites, NEW m \in Members, NEW n \in Members,
         ConfirmAcceptance(i, m, n)
  PROVE  /\ invitations[i].state = "awaiting_confirmation"
         /\ invitations[i].attached # None /\ invitations[i].candidate = invitations[i].attached
         /\ members[n].status = "absent"
         /\ members'[n].status = "active" /\ members'[n].subject = invitations[i].attached
         /\ members'[n].via = i /\ members'[n].ended = None
         /\ \A k \in Members \ {n} : members'[k] = members[k]
         /\ invitations'[i].state = "accepted" /\ invitations'[i].member = n
         /\ invitations'[i].attached = invitations[i].attached
         /\ invitations'[i].issued = invitations[i].issued
         /\ RowAgrees(invitations'[i])
         /\ \A j \in Invites \ {i} :
               /\ Follows(invitations[j], invitations'[j])
               /\ invitations'[j].state \in ActiveInvite =>
                     invitations'[j] = invitations[j] /\ invitations[j].candidate # invitations[i].attached
  <1> DEFINE row == invitations[i]
             accepted == AcceptedRow(row, n)
  <1>1. row.state = "awaiting_confirmation" /\ members[n].status = "absent"
    BY DEF ConfirmAcceptance, Decidable
  <1>2. row \in InviteRow /\ RowAgrees(row)
    BY DEF SeatInv, RowsAgree, TypeInv, GoodInvite
  <1>3. row.attached # None /\ row.candidate = row.attached
    BY <1>1, <1>2 DEF RowAgrees
  <1>4. /\ accepted.state = "accepted" /\ accepted.member = n /\ accepted.attached = row.attached
        /\ accepted.candidate = row.candidate /\ accepted.code = "consumed"
        /\ accepted.ceremony = "consumed" /\ accepted.confirmation = "confirmed"
        /\ accepted.issued = row.issued
    BY <1>2 DEF AcceptedRow, InviteRow
  <1>5. invitations' = SiblingsCancelled(i, accepted)
    BY DEF ConfirmAcceptance
  <1>6. /\ members'[n].via = i /\ members'[n].ended = None /\ members'[n].status = "active"
        /\ members'[n].subject = row.attached
        /\ \A k \in Members \ {n} : members'[k] = members[k]
    <2>1. members'[n] = NewMember(row.attached, row.role, i)
      BY DEF ConfirmAcceptance, TypeInv
    <2>2. \A k \in Members \ {n} : members'[k] = members[k]
      BY DEF ConfirmAcceptance, TypeInv
    <2> QED  BY <2>1, <2>2 DEF NewMember
  <1>7. invitations'[i] = accepted
    BY <1>5 DEF SiblingsCancelled
  <1> HIDE DEF accepted
  <1>8. RowAgrees(accepted)
    BY <1>3, <1>4 DEF RowAgrees, ActiveInvite
  <1>9. ASSUME NEW j \in Invites \ {i}
        PROVE  /\ Follows(invitations[j], invitations'[j])
               /\ invitations'[j].state \in ActiveInvite =>
                     invitations'[j] = invitations[j] /\ invitations[j].candidate # row.attached
    <2>1. invitations[j] \in GoodInvite /\ RowAgrees(invitations[j])
      BY DEF SeatInv, RowsAgree, TypeInv
    <2>2. CASE invitations[j].candidate = row.attached
               /\ invitations[j].state \in ActiveInvite \cup {"synthetic"}
      <3>1. invitations'[j] = Cancelled(invitations[j])
        BY <1>4, <1>5, <1>9, <2>2 DEF SiblingsCancelled
      <3>2. invitations[j].state # "accepted" /\ invitations[j].state # "absent"
        BY <2>2 DEF ActiveInvite
      <3> QED  BY <2>1, <3>1, <3>2, CancelledFollows, CancelledRow
    <2>3. CASE ~ (invitations[j].candidate = row.attached
                  /\ invitations[j].state \in ActiveInvite \cup {"synthetic"})
      <3>1. invitations'[j] = invitations[j]
        BY <1>4, <1>5, <1>9, <2>3 DEF SiblingsCancelled
      <3> QED  BY <2>1, <2>3, <3>1, SelfFollows
    <2> QED  BY <2>2, <2>3
  <1> QED  BY <1>1, <1>3, <1>4, <1>6, <1>7, <1>8, <1>9

\* Who entered comes after every former stay of theirs.
LEMMA StaysAccepted ==
  ASSUME TypeInv, SeatInv, NEW i \in Invites, NEW m \in Members, NEW n \in Members,
         ConfirmAcceptance(i, m, n)
  PROVE  StaysAreDisjoint'
  <1> DEFINE s == invitations[i].attached
             Apart(k, l) == \/ members'[k].ended # None /\ members'[k].ended < invitations'[members'[l].via].issued
                            \/ members'[l].ended # None /\ members'[l].ended < invitations'[members'[k].via].issued
  <1>1. /\ members'[n].subject = s /\ members'[n].via = i /\ members'[n].ended = None
        /\ \A k \in Members \ {n} : members'[k] = members[k]
        /\ invitations'[i].issued = invitations[i].issued
        /\ invitations[i].state # "accepted"
        /\ \A j \in Invites \ {i} : Follows(invitations[j], invitations'[j])
    BY AcceptanceRows
  <1>2. ~ ActiveSubject(s) /\ ~ Outdated(invitations[i], s)
    BY DEF ConfirmAcceptance, Eligible
  <1>3. ASSUME NEW k \in Members \ {n}, members[k].subject = s, members[k].via \in Invites
        PROVE  members'[k].ended # None /\ members'[k].ended < invitations'[i].issued
    <2>1. members[k].status = "ended" /\ members[k].ended # None
      <3>1. members[k].status # "active"
        BY <1>2, <1>3 DEF ActiveSubject, Active
      <3>2. members[k].status # "absent"
        BY <1>3, BudgetSpaceAssumption DEF SeatInv, SeatFacts
      <3>3. members[k].status \in MemberStates
        BY DEF TypeInv, MemberRow
      <3> QED  BY <3>1, <3>2, <3>3 DEF MemberStates, SeatInv, SeatFacts
    <2>2. ~ (members[k].ended >= invitations[i].issued)
      BY <1>2, <1>3, <2>1 DEF Outdated
    <2>3. members[k].ended \in Nat /\ invitations[i].issued \in Nat
      BY <2>1, InstantsType DEF TypeInv, MemberRow, MaybeInstant, GoodInvite, InviteRow
    <2> QED  BY <1>1, <2>1, <2>2, <2>3
  <1>4. ASSUME NEW k \in Members \ {n}, NEW l \in Members \ {n}, k # l,
               members[k].subject = members[l].subject, members[k].subject # None,
               members[k].via \in Invites, members[l].via \in Invites
        PROVE  Apart(k, l)
    <2>1. /\ invitations[members[k].via].state = "accepted" /\ invitations[members[l].via].state = "accepted"
      BY <1>4 DEF SeatInv, SeatsCameOf
    <2>2. /\ invitations'[members[k].via] = invitations[members[k].via]
          /\ invitations'[members[l].via] = invitations[members[l].via]
      BY <1>1, <1>4, <2>1 DEF Follows
    <2> QED  BY <1>1, <1>4, <2>2 DEF SeatInv, StaysAreDisjoint
  <1>5. ASSUME NEW k \in Members, NEW l \in Members, k # l,
               members'[k].subject = members'[l].subject, members'[k].subject # None,
               members'[k].via \in Invites, members'[l].via \in Invites
        PROVE  Apart(k, l)
    <2>1. CASE k = n
      <3>1. members[l].subject = s /\ members[l].via \in Invites
        BY <1>1, <1>5, <2>1
      <3> QED  BY <1>1, <1>3, <1>5, <2>1, <3>1
    <2>2. CASE l = n
      <3>1. members[k].subject = s /\ members[k].via \in Invites
        BY <1>1, <1>5, <2>2
      <3> QED  BY <1>1, <1>3, <1>5, <2>2, <3>1
    <2>3. CASE k # n /\ l # n
      BY <1>1, <1>4, <1>5, <2>3
    <2> QED  BY <2>1, <2>2, <2>3
  <1> QED  BY <1>5 DEF StaysAreDisjoint

\* The invariant is kept by an acceptance.
LEMMA AcceptanceStep ==
  ASSUME TypeInv, SeatInv, NEW i \in Invites, NEW m \in Members, NEW n \in Members,
         ConfirmAcceptance(i, m, n)
  PROVE  SeatInv'
  <1> DEFINE s == invitations[i].attached
  <1>1. /\ invitations[i].state = "awaiting_confirmation" /\ s # None
        /\ members[n].status = "absent" /\ members'[n].status = "active"
        /\ members'[n].subject = s /\ members'[n].via = i /\ members'[n].ended = None
        /\ \A k \in Members \ {n} : members'[k] = members[k]
        /\ invitations'[i].state = "accepted" /\ invitations'[i].member = n
        /\ invitations'[i].attached = s
        /\ RowAgrees(invitations'[i])
    BY AcceptanceRows
  <1>2. \A j \in Invites \ {i} :
           /\ Follows(invitations[j], invitations'[j])
           /\ invitations'[j].state \in ActiveInvite =>
                 invitations'[j] = invitations[j] /\ invitations[j].candidate # s
    BY AcceptanceRows
  <1>3. RowsAgree'
    BY <1>1, <1>2 DEF Follows, RowsAgree
  <1>4. OneOpenRow'
    BY <1>1, <1>2 DEF SeatInv, OneOpenRow, ActiveInvite
  <1>5. SeatFacts'
    BY <1>1 DEF SeatInv, SeatFacts
  <1>6. /\ \A j \in Invites \ {i} : /\ invitations[j].state = "accepted" => invitations'[j] = invitations[j]
                                    /\ invitations'[j].state = "accepted" => invitations'[j] = invitations[j]
        /\ \A k \in Members : members[k].via # i
        /\ members[n].via = None /\ None \notin Invites
    BY <1>1, <1>2, BudgetSpaceAssumption DEF Follows, SeatInv, SeatsCameOf, SeatFacts
  <1>7. SeatsCameOf'
    BY <1>1, <1>6 DEF SeatInv, SeatsCameOf
  <1>8. AcceptedHaveSeats'
    BY <1>1, <1>6 DEF SeatInv, AcceptedHaveSeats
  <1>9. CandidatesAreOut'
    <2> SUFFICES ASSUME NEW j \in Invites, invitations'[j].state \in ActiveInvite,
                        invitations'[j].candidate # None
                 PROVE  \E x : x = invitations'[j].candidate /\ ~ ActiveSubject(x)'
      BY DEF CandidatesAreOut, ActiveSubject, Active
    <2>1. /\ invitations'[j] = invitations[j] /\ invitations[j].candidate # s
      BY <1>1, <1>2 DEF ActiveInvite
    <2>2. ~ ActiveSubject(invitations[j].candidate)
      BY <2>1 DEF SeatInv, CandidatesAreOut
    <2>3. ASSUME NEW x, x = invitations'[j].candidate PROVE ~ ActiveSubject(x)'
      <3>1. ~ ActiveSubject(x) /\ x # s
        BY <2>1, <2>2, <2>3
      <3> QED  BY <1>1, <3>1 DEF ActiveSubject, Active
    <2> QED  BY <2>3
  <1>10. StaysAreDisjoint'
    BY StaysAccepted
  <1> QED  BY <1>3, <1>4, <1>5, <1>7, <1>8, <1>9, <1>10 DEF SeatInv

\* Every step keeps the invariant.
LEMMA SeatStep == TypeInv /\ SeatInv /\ [Next]_vars => SeatInv'
  <1> SUFFICES ASSUME TypeInv, SeatInv, [Next]_vars PROVE SeatInv'
    OBVIOUS
  <1>1. RowsAgree /\ OneOpenRow
    BY DEF SeatInv
  <1> QED  BY <1>1, InvitationsMove, MembersMove, SeatStayStep, AcceptanceStep

\* The space begins with no invitation, and two seats that came of none.
LEMMA SeatInit == Init => SeatInv
  <1> SUFFICES ASSUME Init PROVE SeatInv
    OBVIOUS
  <1>1. PICK role \in InvitableRoles :
           members = [m \in Members |->
                        IF m = Founder THEN NewMember(FounderSubject, "primary_owner", Creation)
                        ELSE IF m = Partner THEN NewMember(PartnerSubject, role, Creation) ELSE NoMember]
    BY InitialRows
  <1>2. \A i \in Invites : invitations[i] = NoInvite
    BY DEF Init, SpaceInit
  <1>3. RowAgrees(NoInvite) /\ NoInvite.state = "absent"
    BY DEF RowAgrees, NoInvite
  <1>4. ASSUME NEW m \in Members
        PROVE  /\ members[m].via \notin Invites
               /\ members[m].status = "absent" => members[m].via = None
               /\ members[m].status = "active" => members[m].ended = None
               /\ members[m].status # "ended"
    <2>1. members[m].via \in {Creation, None} /\ members[m].ended = None
          /\ \/ members[m].status = "active"
             \/ members[m].status = "absent" /\ members[m].via = None
      BY <1>1 DEF NewMember, NoMember
    <2> QED  BY <2>1, BudgetSpaceAssumption
  <1>5. RowsAgree /\ OneOpenRow /\ AcceptedHaveSeats /\ CandidatesAreOut
    BY <1>2, <1>3 DEF RowsAgree, OneOpenRow, AcceptedHaveSeats, CandidatesAreOut, ActiveInvite
  <1>6. SeatFacts /\ SeatsCameOf /\ StaysAreDisjoint
    BY <1>4 DEF SeatFacts, SeatsCameOf, StaysAreDisjoint
  <1> QED  BY <1>5, <1>6 DEF SeatInv

\* Seats and invitations agree in every reachable state.
LEMMA SeatInvariance == Spec => [](TypeInv /\ SeatInv)
  <1> QED  BY SeatInit, SeatStep, TypesHold, PTL DEF Spec

-----------------------------------------------------------------------------
(* The theorems.                                                           *)

\* An invitation is accepted exactly when one membership came of it, the one of
\* the subject its ceremony attached, and no open invitation is attached to a member.
THEOREM AcceptedOnceHolds == Spec => []AcceptedOnce
  <1>1. TypeInv /\ SeatInv => AcceptedOnce
    <2> SUFFICES ASSUME TypeInv, SeatInv, NEW i \in Invites
                 PROVE  LET row == invitations[i]
                            seated == {m \in Members : members[m].via = i}
                        IN  /\ row.state = "accepted" <=> seated # {}
                            /\ row.state = "accepted" =>
                                  /\ seated = {row.member}
                                  /\ members[row.member].subject = row.attached
                                  /\ row.code = "consumed" /\ row.ceremony = "consumed"
                                  /\ row.confirmation = "confirmed"
                            /\ row.state \in ActiveInvite /\ row.candidate # None => ~ ActiveSubject(row.candidate)
      BY DEF AcceptedOnce
    <2> DEFINE row == invitations[i]
               seated == {m \in Members : members[m].via = i}
    <2>1. \A m \in seated : row.state = "accepted" /\ row.member = m /\ row.attached = members[m].subject
      BY DEF SeatInv, SeatsCameOf
    <2>2. row.state = "accepted" => row.member \in seated
      BY DEF SeatInv, AcceptedHaveSeats
    <2>3. row.state = "accepted" =>
             row.code = "consumed" /\ row.ceremony = "consumed" /\ row.confirmation = "confirmed"
      BY DEF SeatInv, RowsAgree, RowAgrees
    <2>4. row.state \in ActiveInvite /\ row.candidate # None => ~ ActiveSubject(row.candidate)
      BY DEF SeatInv, CandidatesAreOut
    <2>5. row.state = "accepted" => seated = {row.member}
      BY <2>1, <2>2
    <2> HIDE DEF seated, row
    <2>6. row.state = "accepted" => members[row.member].subject = row.attached
      BY <2>1, <2>2
    <2>7. row.state = "accepted" <=> seated # {}
      BY <2>1, <2>2
    <2> QED  BY <2>3, <2>4, <2>5, <2>6, <2>7 DEF seated, row
  <1> QED  BY <1>1, SeatInvariance, PTL

\* A link works only for an open invitation, and a destination has one.
THEOREM LinksAreCurrentHolds == Spec => []LinksAreCurrent
  <1>1. SeatInv => LinksAreCurrent
    <2> SUFFICES ASSUME SeatInv PROVE LinksAreCurrent
      OBVIOUS
    <2>1. \A i \in Invites : RowAgrees(invitations[i])
      BY DEF SeatInv, RowsAgree
    <2>2. ASSUME NEW d \in Destinations PROVE Cardinality(Open(d)) <= 1
      <3>1. \A i, j \in Open(d) : i = j
        BY DEF SeatInv, OneOpenRow, Open
      <3>2. CASE Open(d) = {}
        BY <3>2, FS_EmptySet
      <3>3. CASE Open(d) # {}
        <4>1. PICK i : Open(d) = {i}
          BY <3>1, <3>3
        <4>2. Cardinality({i}) = 1
          BY FS_Singleton, Zenon
        <4>3. Cardinality(Open(d)) = 1
          BY <4>1, <4>2, Zenon
        <4> QED  BY <4>3
      <3> QED  BY <3>2, <3>3
    <2> QED  BY <2>1, <2>2 DEF LinksAreCurrent, RowAgrees
  <1> QED  BY <1>1, SeatInvariance, PTL

\* Whoever left the space came back only on an invitation issued after that.
THEOREM StaysAreDisjointHolds == Spec => []StaysAreDisjoint
  <1>1. SeatInv => StaysAreDisjoint
    BY DEF SeatInv
  <1> QED  BY <1>1, SeatInvariance, PTL

=============================================================================
