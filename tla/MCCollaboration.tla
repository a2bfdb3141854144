--------------------------- MODULE MCCollaboration ---------------------------
(***************************************************************************)
(* Instances of Collaboration for TLC.                                     *)
(***************************************************************************)
EXTENDS Collaboration, TLC

MCSymmetry ==
    Permutations(Invites) \cup Permutations(Transfers) \cup Permutations(Grants) \cup Permutations(Destinations)

\* The bounds of the run.  Two workflows, of either kind, are ever begun; two
\* invitations at the first instant, or the second once the first was accepted
\* or expired.  The last instant, at which an invitation expires, is reached
\* without a transfer.  One disturbance happens: a departure (with two
\* invitations, of a member one of them brought), or a deployed disclosure
\* while a single workflow was begun.
MCBounds ==
    LET begun == {t \in Transfers : transfers[t].state # "absent"}
        invited == {i \in Invites : invitations[i].state # "absent"}
        departed == {m \in Members : members[m].status = "ended"}
        workflows == Cardinality(begun) + Cardinality(invited)
    IN  /\ workflows <= 2
        /\ Cardinality(invited) = 2 =>
              /\ now = 0 \/ \E i \in Invites : invitations[i].state \in {"accepted", "expired"}
              /\ \A m \in departed : members[m].via \in Invites
        /\ now = MaxClock => begun = {}
        /\ Cardinality(departed) <= 1
        /\ registry > 1 => departed = {} /\ workflows <= 1
=============================================================================
