----------------------------- MODULE BudgetSpace -----------------------------
(***************************************************************************)
(* The rows one budget space's collaboration commands share: memberships,  *)
(* the space row, consents, invitations, transfers, the disclosure         *)
(* registry and the database clock; and the policy cells that admit a      *)
(* command.                                                                *)
(*                                                                         *)
(* Each command of PrimaryTransfer and of Invitations runs in one          *)
(* SERIALIZABLE transaction that is re-run on a conflict, with the         *)
(* policy's facts re-read inside it, so a command is one step here.  A     *)
(* command that throws rolls back and one that only denies writes no row   *)
(* of these: both are stuttering steps and have no action.                 *)
(***************************************************************************)
EXTENDS Naturals, FiniteSets

CONSTANTS
    Members,        \* membership row identifiers
    Subjects,       \* account subjects
    Indexed,        \* the subjects the destination index may name for an address
    Destinations,   \* tokens of the addresses invitations are sent to
    Invites,        \* invitation row identifiers
    Transfers,      \* primary-transfer row identifiers
    Grants,         \* fresh-assurance grants
    Founder, FounderSubject,    \* the membership row and subject that created the space
    Partner, PartnerSubject,    \* a member who had joined before
    Creation,       \* the source of these two memberships and consents
    None,
    MaxClock,       \* bound on the clock
    MaxRegistry     \* bound on the disclosure registry's version

ASSUME BudgetSpaceAssumption ==
    /\ None \notin Nat \cup Members \cup Subjects \cup Transfers \cup Invites \cup Grants
    /\ Creation \notin Transfers \cup Invites \cup {None}
    /\ Transfers \cap Invites = {}
    /\ {Founder, Partner} \subseteq Members /\ Founder # Partner
    /\ {FounderSubject, PartnerSubject} \subseteq Subjects /\ FounderSubject # PartnerSubject
    /\ Indexed \subseteq Subjects
    /\ MaxClock \in Nat /\ MaxRegistry \in Nat

VARIABLES
    members,        \* membership rows
    space,          \* the space row: its Primary and the ownership version
    consents,       \* consent rows, superseded ones included
    invitations,    \* invitation rows, each with its code, current ceremony and confirmation
    registry,       \* version of the approved disclosures in force
    now,            \* the database clock
    transfers,      \* transfer rows
    grants          \* what each fresh-assurance grant was spent on

rowVars == <<members, space, consents, invitations, registry, now>>
transferVars == <<transfers, grants>>

Instants == 0 .. MaxClock
Roles == {"primary_owner", "co_owner", "collaborator"}
InvitableRoles == {"co_owner", "collaborator"}
Sources == {Creation} \cup Transfers \cup Invites

-----------------------------------------------------------------------------
(* Memberships, consents and policy.                                       *)

NoMember == [subject |-> None, role |-> None, status |-> "absent", version |-> 0,
             via |-> None, ended |-> None]

NewMember(s, role, source) ==
    [subject |-> s, role |-> role, status |-> "active", version |-> 1,
     via |-> source, ended |-> None]

Active(m) == members[m].status = "active"

\* Faulty: the read misses the memberships no invitation created.
ActiveInvitee(s) == \E m \in Members : Active(m) /\ members[m].subject = s /\ members[m].via \in Invites

ActiveSubject(s) == \E m \in Members : Active(m) /\ members[m].subject = s

Consent(m, role, source, grant) ==
    [member |-> m, role |-> role, source |-> source, grant |-> grant, current |-> TRUE]

HasConsent(m) == \E c \in consents : c.member = m /\ c.current

\* The consent rows after those of the members in ms were superseded.
Superseded(ms) == {IF c.member \in ms THEN [c EXCEPT !.current = FALSE] ELSE c : c \in consents}

\* The roles with a cell for each action; "24" and "26" stand for every
\* invitation action under that permission.
Cells == [propose  |-> {"primary_owner"},
          withdraw |-> {"primary_owner"},
          confirm  |-> {"primary_owner"},
          answer   |-> {"co_owner", "collaborator"},
          p24      |-> {"primary_owner", "co_owner"},
          p26      |-> {"primary_owner"}]

\* The cells of notation Primary: the space row must name the member, too.
PrimaryCells == {"propose", "withdraw", "confirm"}

Allowed(m, action) ==
    /\ Active(m) /\ HasConsent(m)
    /\ members[m].role \in Cells[action]
    /\ action \in PrimaryCells => space.primary = m

-----------------------------------------------------------------------------
(* Invitation rows.                                                        *)

NoInvite == [state |-> "absent", role |-> None, creator |-> None, dest |-> None,
             issued |-> 0, expires |-> 0, disclosure |-> 0, code |-> "none",
             candidate |-> None, ceremony |-> "none", proof |-> "none", attempts |-> 0,
             attached |-> None, until |-> 0, confirmation |-> "none", confirmBy |-> 0,
             member |-> None]

ActiveInvite == {"pending", "awaiting_confirmation"}

\* The permission an invitation to a role requires of whoever decides on it.
Permission(role) == IF role = "co_owner" THEN "p26" ELSE "p24"

\* A row that leaves its active state: its code and its ceremony die with it.
Retired(row, to) ==
    [row EXCEPT !.state = to,
                !.code = IF @ = "active" THEN "invalidated" ELSE @,
                !.ceremony = IF @ \in {"open", "accepted"} THEN "invalidated" ELSE @]

\* A cancellation, by an owner or by the system.
Cancelled(row) ==
    IF row.state = "synthetic" THEN Retired(row, "synthetic_inactive") ELSE Retired(row, "cancelled")

\* Every open invitation the member created under permission 26 is cancelled.
PermissionLost(m) ==
    [i \in Invites |->
        LET row == invitations[i] IN
        IF row.state \in ActiveInvite /\ row.creator = m /\ Permission(row.role) = "p26"
        THEN Cancelled(row) ELSE row]

-----------------------------------------------------------------------------
(* The environment: time, deployments of a disclosure, departures.         *)

\* The founder created the space, and one co-owner or collaborator is there.
SpaceInit ==
    \E role \in InvitableRoles :
        /\ members = [m \in Members |->
                        IF m = Founder THEN NewMember(FounderSubject, "primary_owner", Creation)
                        ELSE IF m = Partner THEN NewMember(PartnerSubject, role, Creation) ELSE NoMember]
        /\ space = [primary |-> Founder, version |-> 1]
        /\ consents = {Consent(Founder, "primary_owner", Creation, None),
                       Consent(Partner, role, Creation, None)}
        /\ invitations = [i \in Invites |-> NoInvite]
        /\ registry = 1 /\ now = 0

Tick ==
    /\ now < MaxClock
    /\ now' = now + 1
    /\ UNCHANGED <<members, space, consents, invitations, registry, transferVars>>

RegistryMoves ==
    /\ registry < MaxRegistry
    /\ registry' = registry + 1
    /\ UNCHANGED <<members, space, consents, invitations, now, transferVars>>

\* No command of this version ends a membership; the commands check that one ended.
MembershipEnds(m) ==
    /\ Active(m) /\ m # space.primary
    /\ members' = [members EXCEPT ![m] = [@ EXCEPT !.status = "ended", !.ended = now]]
    /\ UNCHANGED <<space, consents, invitations, registry, now, transferVars>>

Environment == Tick \/ RegistryMoves \/ \E m \in Members : MembershipEnds(m)
=============================================================================
