---------------------------- MODULE Collaboration ----------------------------
(***************************************************************************)
(* A budget space whose members transfer its primary ownership while       *)
(* invitations bring in and departures take away members: the two command  *)
(* sets over the rows they share.                                          *)
(***************************************************************************)
EXTENDS PrimaryTransfer, Invitations

vars == <<rowVars, transferVars>>

Init == SpaceInit /\ TransferInit

Next == TransferStep \/ InvitationStep \/ Environment

Spec == Init /\ [][Next]_vars

-----------------------------------------------------------------------------
(* Properties.                                                             *)

InviteStates == ActiveInvite \cup {"absent", "synthetic", "synthetic_inactive", "accepted",
                                   "declined", "expired", "superseded", "cancelled"}

SpaceTypeOK ==
    /\ members \in [Members ->
          [subject : Subjects \cup {None}, role : Roles \cup {None},
           status : {"absent", "active", "ended"}, version : Nat,
           via : Sources \cup {None}, ended : Instants \cup {None}]]
    /\ space \in [primary : Members, version : Nat]
    /\ consents \subseteq [member : Members, role : Roles, source : Sources,
                           grant : Grants \cup {None}, current : BOOLEAN]
    /\ invitations \in [Invites ->
          [state : InviteStates, role : InvitableRoles \cup {None}, creator : Members \cup {None},
           dest : Destinations \cup {None}, issued : Nat, expires : Nat, disclosure : Nat,
           code : {"none", "active", "consumed", "invalidated"},
           candidate : Subjects \cup {None},
           ceremony : {"none", "open", "accepted", "consumed", "declined", "invalidated"},
           proof : {"none", "challenged", "proved", "exhausted"}, attempts : 0 .. MaxChannelAttempts,
           attached : Subjects \cup {None}, until : Nat,
           confirmation : {"none", "requested", "confirmed", "rejected"}, confirmBy : Nat,
           member : Members \cup {None}]]
    /\ registry \in Nat /\ now \in Instants

TypeOK == SpaceTypeOK /\ TransferTypeOK

\* The offers of the ownership contract the transfer rows stand for.
Standings ==
    [t \in Transfers |->
        LET row == transfers[t] IN
        [state |-> IF row.state = "absent" THEN "none"
                   ELSE IF row.state \in LiveTransfer THEN "open"
                   ELSE IF row.state = "committed" THEN "passed" ELSE "closed",
         from |-> row.proposer, to |-> row.recipient,
         agreed |-> {p \in {row.proposer} : row.confirmedAt # None}
                      \cup {p \in {row.recipient} : row.acceptedAt # None}]]

Contract == INSTANCE OwnershipContract
    WITH People <- Members, Offers <- Transfers, Nobody <- None,
         owner <- space.primary, offers <- Standings

\* The transfer commands, in any interleaving with the rest, keep the
\* ownership contract: it passes only by an offer both parties agreed to.
ImplementsOwnership == Contract!Spec
=============================================================================
