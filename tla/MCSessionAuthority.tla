------------------------- MODULE MCSessionAuthority -------------------------
(***************************************************************************)
(* Instances of SessionAuthority for TLC.                                  *)
(***************************************************************************)
EXTENDS SessionAuthority, FiniteSets, TLC

MCSymmetry == Permutations(Mutations) \cup Permutations(Refs) \cup Permutations(Grants)

\* The bound of the mutations run: of a second mutation, a second session and
\* a gate that slides the session, only one has joined the first mutation.
MCOneRival ==
    LET rivals == <<Cardinality({m \in Mutations : mutation[m].pc # "new"}) > 1,
                    Cardinality({r \in Refs : issuance[r].pc # "new"}) > 1,
                    \E q \in Gates : gate[q].ref # None>>
    IN  \A i, j \in 1..3 : rivals[i] /\ rivals[j] => i = j
=============================================================================
