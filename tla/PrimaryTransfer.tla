--------------------------- MODULE PrimaryTransfer ---------------------------
(***************************************************************************)
(* The transfer of a space's primary ownership: the Primary proposes it to *)
(* another member, each party records a leg, and the leg that completes    *)
(* the pair commits the transfer in the same transaction.                  *)
(***************************************************************************)
EXTENDS BudgetSpace

CONSTANT TransferLife       \* transferSeconds

ASSUME TransferAssumption == TransferLife \in Nat \ {0}

LiveTransfer == {"proposed", "recipient_accepted", "primary_confirmed"}
OverTransfer == {"committed", "declined", "withdrawn", "expired", "invalidated"}

NoTransfer == [state |-> "absent", proposer |-> None, recipient |-> None, ownership |-> 0,
               proposerVersion |-> 0, recipientVersion |-> 0, disclosure |-> 0, expires |-> 0,
               acceptedAt |-> None, confirmedAt |-> None, grant |-> None]

Parties(t) == {transfers[t].proposer, transfers[t].recipient}

TransferInit ==
    /\ transfers = [t \in Transfers |-> NoTransfer]
    /\ grants = [g \in Grants |-> None]

-----------------------------------------------------------------------------
(* What a command finds when it loads a workflow, and closes it for.       *)

\* The rows the workflow captured have moved on.
Stale(row) ==
    \/ space.primary # row.proposer
    \/ space.version # row.ownership
    \/ members[row.proposer].version # row.proposerVersion
    \/ members[row.recipient].version # row.recipientVersion
    \/ ~ Active(row.proposer)
    \/ ~ Active(row.recipient)

Expired(row) == now >= row.expires

Standing(t) ==
    LET row == transfers[t] IN
    IF row.state \notin LiveTransfer THEN "over"
    ELSE IF Expired(row) THEN "expired"
    ELSE IF Stale(row) THEN "invalidated" ELSE "live"

Close(t) ==
    /\ Standing(t) \in {"expired", "invalidated"}
    /\ transfers' = [transfers EXCEPT ![t] = [@ EXCEPT !.state = Standing(t)]]
    /\ UNCHANGED rowVars

\* The four obligations of a protected confirm, on the workflow t and the evidence g.
Discharged(t, g) ==
    LET row == transfers[t] IN
    /\ row.state \in LiveTransfer /\ ~ Expired(row)
    /\ g # None /\ row.grant \in {None, g}
    /\ space.primary = row.proposer
    /\ Active(row.proposer) /\ Active(row.recipient)
    /\ HasConsent(row.proposer) /\ HasConsent(row.recipient)
    /\ registry = row.disclosure

-----------------------------------------------------------------------------
(* The commit.                                                             *)

\* The membership row of m after it takes the role.
Taking(m, role) == [members[m] EXCEPT !.role = role, !.version = @ + 1]

\* Faulty: the proposer keeps the Primary's role.
HandOverWithoutStepDown(row) ==
    [members EXCEPT ![row.recipient] = Taking(row.recipient, "primary_owner"),
                    ![row.proposer] = Taking(row.proposer, members[row.proposer].role)]

\* The two memberships exchange the Primary's role and the co-owner's.
HandOver(row) ==
    [members EXCEPT ![row.proposer] = Taking(row.proposer, "co_owner"),
                    ![row.recipient] = Taking(row.recipient, "primary_owner")]

\* Faulty: the recipient's former consent stays current.
ConsentsAfterOneSuperseded(t, row) ==
    Superseded({row.proposer})
    \cup {Consent(row.recipient, "primary_owner", t, None), Consent(row.proposer, "co_owner", t, row.grant)}

\* Both current consents are superseded by one of each party's own.
ConsentsAfter(t, row) ==
    Superseded({row.proposer, row.recipient})
    \cup {Consent(row.recipient, "primary_owner", t, None), Consent(row.proposer, "co_owner", t, row.grant)}

\* Faulty: the space row names its new Primary under the version it had.
SpaceAfterInPlace(row) == [space EXCEPT !.primary = row.recipient]

SpaceAfter(row) == [primary |-> row.recipient, version |-> space.version + 1]

\* Faulty: the former Primary's permission-26 invitations stay open.
OpenWorkAfterKept(row) == invitations

OpenWorkAfter(row) == PermissionLost(row.proposer)

\* The workflow whose completed row is given commits.
Commit(t, row) ==
    /\ members' = HandOver(row)
    /\ space' = SpaceAfter(row)
    /\ consents' = ConsentsAfter(t, row)
    /\ invitations' = OpenWorkAfter(row)
    /\ transfers' = [transfers EXCEPT ![t] = [row EXCEPT !.state = "committed"]]
    /\ UNCHANGED <<registry, now>>

-----------------------------------------------------------------------------
(* The commands.                                                           *)

\* Faulty: only a workflow within its deadline blocks the next.
NoLiveTransferInTime ==
    \A t \in Transfers : transfers[t].state \in LiveTransfer => Expired(transfers[t])

\* A workflow past its deadline blocks the next until a command closes it.
NoLiveTransfer == \A t \in Transfers : transfers[t].state \notin LiveTransfer

Propose(t, p, r) ==
    /\ transfers[t].state = "absent"
    /\ Allowed(p, "propose")
    /\ p # r /\ Active(r) /\ members[r].role \in InvitableRoles
    /\ members[r].subject # members[p].subject
    /\ NoLiveTransfer
    /\ transfers' = [transfers EXCEPT ![t] =
            [NoTransfer EXCEPT !.state = "proposed", !.proposer = p, !.recipient = r,
                !.ownership = space.version, !.proposerVersion = members[p].version,
                !.recipientVersion = members[r].version, !.disclosure = registry,
                !.expires = now + TransferLife]]
    /\ UNCHANGED <<rowVars, grants>>

\* A party's command, of any cell that admits it, finds the workflow over its
\* deadline or stale and closes it before looking at which party is asking.
CloseOnLoad(t, m) ==
    /\ m \in Parties(t)
    /\ Allowed(m, "answer") \/ Allowed(m, "withdraw")
    /\ Close(t)
    /\ UNCHANGED grants

\* The recipient's claim is for the captured disclosure; a leg recorded
\* before changes nothing.
Accept(t) ==
    LET row == transfers[t]
        accepted == [row EXCEPT !.state = "recipient_accepted", !.acceptedAt = now]
    IN  /\ Standing(t) = "live"
        /\ Allowed(row.recipient, "answer")
        /\ row.acceptedAt = None
        /\ \/ /\ row.state # "primary_confirmed"
              /\ transfers' = [transfers EXCEPT ![t] = accepted]
              /\ UNCHANGED rowVars
           \/ /\ row.state = "primary_confirmed"
              /\ Discharged(t, row.grant)
              /\ Commit(t, accepted)
        /\ UNCHANGED grants

\* Faulty: the Primary's leg completes the pair by itself.
PrimaryLegAlone(t, g) ==
    Commit(t, [transfers[t] EXCEPT !.state = "primary_confirmed", !.confirmedAt = now, !.grant = g])

\* The Primary's leg, with the evidence its request spent.
PrimaryLeg(t, g) ==
    LET row == transfers[t]
        confirmed == [row EXCEPT !.state = "primary_confirmed", !.confirmedAt = now, !.grant = g]
    IN  \/ /\ row.state # "recipient_accepted"
           /\ transfers' = [transfers EXCEPT ![t] = confirmed]
           /\ UNCHANGED rowVars
        \/ /\ row.state = "recipient_accepted"
           /\ Commit(t, confirmed)

\* The boundary spends the grant and discharges the obligations on the space's
\* live workflow, whose recipient must be the one of the named workflow t; the
\* handler then loads t, and whatever it answers, the grant stays spent.  What
\* the obligations accepted is not stale, so nothing is closed here.
Confirm(t, g) ==
    \E p \in Parties(t), live \in Transfers :
        /\ transfers[t].state # "absent"
        /\ Allowed(p, "confirm")
        /\ grants[g] = None
        /\ transfers[live].recipient = transfers[t].recipient
        /\ Discharged(live, g)
        /\ grants' = [grants EXCEPT ![g] = t]
        /\ \/ /\ Standing(t) = "over"
              /\ UNCHANGED <<rowVars, transfers>>
           \/ /\ Standing(t) = "live"
              /\ p = transfers[t].proposer
              /\ transfers[t].confirmedAt = None
              /\ live = t
              /\ PrimaryLeg(t, g)

Decline(t) ==
    /\ Standing(t) = "live"
    /\ Allowed(transfers[t].recipient, "answer")
    /\ transfers' = [transfers EXCEPT ![t] = [@ EXCEPT !.state = "declined"]]
    /\ UNCHANGED <<rowVars, grants>>

Withdraw(t) ==
    /\ Standing(t) = "live"
    /\ Allowed(transfers[t].proposer, "withdraw")
    /\ transfers' = [transfers EXCEPT ![t] = [@ EXCEPT !.state = "withdrawn"]]
    /\ UNCHANGED <<rowVars, grants>>

TransferStep ==
    \E t \in Transfers :
        \/ \E p, r \in Members : Propose(t, p, r)
        \/ \E m \in Members : CloseOnLoad(t, m)
        \/ Accept(t)
        \/ \E g \in Grants : Confirm(t, g)
        \/ Decline(t)
        \/ Withdraw(t)

-----------------------------------------------------------------------------
(* Properties.                                                             *)

TransferTypeOK ==
    /\ transfers \in [Transfers ->
          [state : LiveTransfer \cup OverTransfer \cup {"absent"},
           proposer : Members \cup {None}, recipient : Members \cup {None}, ownership : Nat,
           proposerVersion : Nat, recipientVersion : Nat, disclosure : Nat, expires : Nat,
           acceptedAt : Instants \cup {None}, confirmedAt : Instants \cup {None},
           grant : Grants \cup {None}]]
    /\ grants \in [Grants -> Transfers \cup {None}]

\* The space always has exactly one active Primary, the one its row names:
\* no transfer leaves it with two or with none.
OnePrimary ==
    /\ Active(space.primary)
    /\ \A m \in Members : Active(m) => (members[m].role = "primary_owner" <=> m = space.primary)

\* The committed transfers form one chain by ownership version: each version
\* was handed over once, by the member the transfer before it made Primary,
\* and the last one made the current Primary.
OwnershipChain ==
    LET committed == {t \in Transfers : transfers[t].state = "committed"}
    IN  /\ \A t, u \in committed : transfers[t].ownership = transfers[u].ownership => t = u
        /\ \A t \in committed :
              \/ /\ transfers[t].ownership + 1 = space.version
                 /\ transfers[t].recipient = space.primary
              \/ \E u \in committed :
                    /\ transfers[u].ownership = transfers[t].ownership + 1
                    /\ transfers[u].proposer = transfers[t].recipient

\* A committed transfer had both parties' legs before its deadline, on one
\* grant that was spent on this transfer alone, and left one consent of each
\* party for the role it took, the outgoing one naming the grant.
AgreedByBoth ==
    \A t \in Transfers : transfers[t].state = "committed" =>
        LET row == transfers[t] IN
        /\ row.acceptedAt # None /\ row.acceptedAt < row.expires
        /\ row.confirmedAt # None /\ row.confirmedAt < row.expires
        /\ row.grant # None /\ grants[row.grant] = t
        /\ \A u \in Transfers \ {t} : transfers[u].grant # row.grant
        /\ {[member |-> c.member, role |-> c.role, grant |-> c.grant] :
              c \in {d \in consents : d.source = t}}
             = {[member |-> row.recipient, role |-> "primary_owner", grant |-> None],
                [member |-> row.proposer, role |-> "co_owner", grant |-> row.grant]}

\* An open co-owner invitation is one of the current Primary's own: the
\* permission it needs never outlives its creator's ownership.
NoStalePermission26 ==
    \A i \in Invites :
        invitations[i].state \in ActiveInvite /\ Permission(invitations[i].role) = "p26"
            => invitations[i].creator = space.primary

\* Every active member has one current consent, for the role it has now.
ConsentMatchesRole ==
    \A m \in Members : Active(m) =>
        LET current == {c \in consents : c.member = m /\ c.current}
        IN  Cardinality(current) = 1 /\ \A c \in current : c.role = members[m].role
=============================================================================
