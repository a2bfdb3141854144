----------------------------- MODULE Invitations -----------------------------
(***************************************************************************)
(* Invitations to a budget space: an owner creates, replaces, cancels and  *)
(* decides; whoever holds the link resolves it into a ceremony, proves the *)
(* channel, attaches an account and accepts or declines; the owner's       *)
(* confirmation creates the membership.                                    *)
(*                                                                         *)
(* The row of an invitation carries its code's disposition, its current or *)
(* last ceremony and its one confirmation: a replaced ceremony is never    *)
(* usable again, and an invitation reaches its confirmation at most once.  *)
(* A retried confirmation is answered from the stored receipt and writes   *)
(* nothing.  Profiles are active.                                          *)
(***************************************************************************)
EXTENDS BudgetSpace

CONSTANTS
    InvitationLife, CeremonyLife, ConfirmationLife,     \* in ticks of the clock
    MaxChannelAttempts

ASSUME InvitationsAssumption ==
    /\ {InvitationLife, CeremonyLife, ConfirmationLife} \subseteq Nat \ {0}
    /\ MaxChannelAttempts \in Nat \ {0}

Earliest(a, b) == IF a < b THEN a ELSE b

Due(row) == now >= row.expires

\* The row as a read that observes its deadline leaves it.
Observed(row) ==
    IF ~ Due(row) THEN row
    ELSE IF row.state \in ActiveInvite THEN Retired(row, "expired")
    ELSE IF row.state = "synthetic" THEN Retired(row, "synthetic_inactive") ELSE row

Write(i, row) ==
    /\ invitations' = [invitations EXCEPT ![i] = row]
    /\ UNCHANGED <<members, space, consents, registry, now, transferVars>>

-----------------------------------------------------------------------------
(* The owners' commands.                                                   *)

Dispatched(m, d, role) ==
    [NoInvite EXCEPT !.state = "pending", !.role = role, !.creator = m, !.dest = d,
        !.issued = now, !.expires = now + InvitationLife, !.disclosure = registry,
        !.code = "active"]

\* A record that is never sent: its destination is the creator's own or a
\* member's, and the creator must not learn it.
Suppressed(m, d, role) ==
    [Dispatched(m, d, role) EXCEPT !.state = "synthetic", !.code = "none"]

\* The dispatched records of a destination.
Open(d) == {i \in Invites : invitations[i].state \in ActiveInvite /\ invitations[i].dest = d}

\* The destination index names the subject it knows for the address, or none.
Create(i, m, d, role, known) ==
    /\ invitations[i].state = "absent"
    /\ Allowed(m, Permission(role))
    /\ \A j \in Open(d) : Due(invitations[j])
    /\ invitations' = [j \in Invites |->
          IF j = i THEN IF known = members[m].subject \/ (known # None /\ ActiveSubject(known))
                        THEN Suppressed(m, d, role) ELSE Dispatched(m, d, role)
          ELSE IF j \in Open(d) THEN Observed(invitations[j]) ELSE invitations[j]]
    /\ UNCHANGED <<members, space, consents, registry, now, transferVars>>

\* Faulty: the predecessor's ceremony and code survive its replacement.
SupersededRowCode(row) == [row EXCEPT !.state = "superseded"]

SupersededRow(row) == Retired(row, "superseded")

\* A resend, and a create for a destination whose record is still pending:
\* the predecessor is superseded and i takes its place.  Both need the
\* predecessor's own permission, so its role stays.
Replace(i, j, m) ==
    LET row == invitations[j] IN
    /\ invitations[i].state = "absent"
    /\ row.state = "pending" /\ ~ Due(row)
    /\ Allowed(m, Permission(row.role))
    /\ invitations' = [invitations EXCEPT ![j] = SupersededRow(row), ![i] = Dispatched(m, row.dest, row.role)]
    /\ UNCHANGED <<members, space, consents, registry, now, transferVars>>

Cancel(i, m) ==
    LET row == invitations[i] IN
    /\ row.state \in ActiveInvite \cup {"synthetic"} /\ ~ Due(row)
    /\ Allowed(m, Permission(row.role))
    /\ Write(i, Cancelled(row))

\* The owners' list observes every deadline.
List(m) ==
    /\ Allowed(m, "p24")
    /\ invitations' = [i \in Invites |-> Observed(invitations[i])]
    /\ UNCHANGED <<members, space, consents, registry, now, transferVars>>

-----------------------------------------------------------------------------
(* The commands of whoever holds the link.                                 *)

\* A resolved link replaces the ceremony that was current; a link that cannot
\* be resolved leaves the row as it was observed.
Resolve(i) ==
    LET row == Observed(invitations[i]) IN
    /\ invitations[i].state \notin {"absent", "synthetic", "synthetic_inactive"}
    /\ Write(i, IF row.code = "active" /\ row.state = "pending"
                THEN [row EXCEPT !.ceremony = "open", !.proof = "challenged", !.attempts = 0,
                                 !.attached = None, !.until = Earliest(now + CeremonyLife, row.expires)]
                ELSE row)

\* The ceremony is open, current and in time, and so is its invitation.
Usable(row) ==
    /\ row.ceremony = "open" /\ now < row.until
    /\ row.state \in ActiveInvite /\ ~ Due(row)
    /\ row.code = "active"

\* Faulty: the ceremony outlives its attempts.
VerifyChannelUnbounded(i, right) ==
    LET row == invitations[i]
        tried == [row EXCEPT !.attempts = @ + 1]
    IN  /\ Usable(row) /\ row.proof = "challenged"
        /\ Write(i, IF right THEN [tried EXCEPT !.proof = "proved"] ELSE tried)

\* A guess of the channel challenge.  The last wrong one kills the code.
VerifyChannel(i, right) ==
    LET row == invitations[i]
        tried == [row EXCEPT !.attempts = @ + 1]
    IN  /\ Usable(row) /\ row.proof = "challenged"
        /\ Write(i, IF right THEN [tried EXCEPT !.proof = "proved"]
                    ELSE IF tried.attempts >= MaxChannelAttempts
                    THEN Retired([tried EXCEPT !.proof = "exhausted"], row.state)
                    ELSE tried)

DeclineInvite(i) ==
    LET row == invitations[i] IN
    /\ Usable(row) /\ row.proof = "proved"
    /\ Write(i, Retired([row EXCEPT !.ceremony = "declined"], "declined"))

\* Faulty: an instant shared with the invitation does not count as after it.
OutdatedStrictly(row, s) ==
    \E m \in Members : members[m].subject = s /\ members[m].status = "ended" /\ members[m].ended > row.issued

\* The invitation was issued no later than the end of a membership of s.
Outdated(row, s) ==
    \E m \in Members : members[m].subject = s /\ members[m].status = "ended" /\ members[m].ended >= row.issued

\* An attachment or an acceptance by a member, or by someone whose membership
\* ended since the invitation, cancels it.
Attach(i, s) ==
    LET row == invitations[i] IN
    /\ Usable(row) /\ row.proof = "proved" /\ row.attached = None
    /\ Write(i, IF ActiveSubject(s) \/ Outdated(row, s) THEN Cancelled(row)
                ELSE [row EXCEPT !.attached = s, !.candidate = s])

AcceptInvite(i) ==
    LET row == invitations[i] IN
    /\ Usable(row) /\ row.proof = "proved" /\ row.attached # None
    /\ registry = row.disclosure
    /\ Write(i, IF ActiveSubject(row.attached) \/ Outdated(row, row.attached) THEN Cancelled(row)
                ELSE [row EXCEPT !.state = "awaiting_confirmation", !.ceremony = "accepted",
                                 !.confirmation = "requested",
                                 !.confirmBy = Earliest(now + ConfirmationLife, row.expires)])

-----------------------------------------------------------------------------
(* The owner's decision.                                                   *)

\* The confirmation in force, which lapses before its invitation may.
Decidable(row) ==
    /\ row.state = "awaiting_confirmation" /\ ~ Due(row)
    /\ row.confirmation = "requested" /\ now < row.confirmBy

\* Faulty: the person's other invitations stay open.
SiblingsKept(i, accepted) == [invitations EXCEPT ![i] = accepted]

\* The accepted row, and every other open record of the same candidate cancelled.
SiblingsCancelled(i, accepted) ==
    [j \in Invites |->
        LET row == invitations[j] IN
        IF j = i THEN accepted
        ELSE IF row.candidate = accepted.attached /\ row.state \in ActiveInvite \cup {"synthetic"}
        THEN Cancelled(row) ELSE row]

Eligible(row) == ~ ActiveSubject(row.attached) /\ ~ Outdated(row, row.attached)

AcceptedRow(row, n) ==
    [row EXCEPT !.state = "accepted", !.code = "consumed", !.ceremony = "consumed",
                !.confirmation = "confirmed", !.member = n]

\* The owner m confirms: the membership n, its consent and every terminal
\* state are written together.
ConfirmAcceptance(i, m, n) ==
    LET row == invitations[i] IN
    /\ Decidable(row)
    /\ row.ceremony = "accepted" /\ row.proof = "proved"
    /\ registry = row.disclosure
    /\ Allowed(m, Permission(row.role))
    /\ Eligible(row)
    /\ members[n].status = "absent"
    /\ members' = [members EXCEPT ![n] = NewMember(row.attached, row.role, i)]
    /\ consents' = consents \cup {Consent(n, row.role, i, None)}
    /\ invitations' = SiblingsCancelled(i, AcceptedRow(row, n))
    /\ UNCHANGED <<space, registry, now, transferVars>>

RejectAcceptance(i, m) ==
    LET row == invitations[i] IN
    /\ Decidable(row)
    /\ Allowed(m, Permission(row.role))
    /\ Write(i, Cancelled([row EXCEPT !.confirmation = "rejected"]))

InvitationStep ==
    \/ \E i \in Invites, m \in Members :
          \/ \E d \in Destinations, role \in InvitableRoles, known \in Indexed \cup {None} :
                Create(i, m, d, role, known)
          \/ \E j \in Invites : Replace(i, j, m)
          \/ Cancel(i, m)
          \/ \E n \in Members : ConfirmAcceptance(i, m, n)
          \/ RejectAcceptance(i, m)
    \/ \E m \in Members : List(m)
    \/ \E i \in Invites :
          \/ Resolve(i)
          \/ \E right \in BOOLEAN : VerifyChannel(i, right)
          \/ DeclineInvite(i)
          \/ \E s \in Subjects : Attach(i, s)
          \/ AcceptInvite(i)

-----------------------------------------------------------------------------
(* Properties.                                                             *)

\* A person holds one active membership of the space at most, however many
\* invitations reach them.
OneSeat ==
    \A m, n \in Members :
        Active(m) /\ Active(n) /\ members[m].subject = members[n].subject => m = n

\* An invitation is accepted exactly when one membership came of it, the
\* membership of the subject its ceremony attached; nothing of it is open then,
\* and no open invitation is attached to someone who is a member already.
AcceptedOnce ==
    \A i \in Invites :
        LET row == invitations[i]
            seated == {m \in Members : members[m].via = i}
        IN  /\ row.state = "accepted" <=> seated # {}
            /\ row.state = "accepted" =>
                  /\ seated = {row.member}
                  /\ members[row.member].subject = row.attached
                  /\ row.code = "consumed" /\ row.ceremony = "consumed"
                  /\ row.confirmation = "confirmed"
            /\ row.state \in ActiveInvite /\ row.candidate # None => ~ ActiveSubject(row.candidate)

\* A link works only for an open invitation, and a destination has one.
LinksAreCurrent ==
    /\ \A i \in Invites : invitations[i].code = "active" => invitations[i].state \in ActiveInvite
    /\ \A i \in Invites : invitations[i].ceremony \in {"open", "accepted"} => invitations[i].code = "active"
    /\ \A d \in Destinations : Cardinality(Open(d)) <= 1

\* Whoever left the space came back only on an invitation issued after that.
StaysAreDisjoint ==
    \A m, n \in Members :
        /\ m # n /\ members[m].subject = members[n].subject /\ members[m].subject # None
        /\ members[m].via \in Invites /\ members[n].via \in Invites
        => \/ members[m].ended # None /\ members[m].ended < invitations[members[n].via].issued
           \/ members[n].ended # None /\ members[n].ended < invitations[members[m].via].issued
=============================================================================
