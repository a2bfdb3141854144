--------------------------- MODULE MCBudgetWrites ---------------------------
(***************************************************************************)
(* What stands between a client's retries and the records of a budget: the *)
(* proposals a budget is made from, its plan, its ledger and the counter   *)
(* of a surface, one instance of each for TLC.                             *)
(***************************************************************************)
EXTENDS CreationProposals, Ledger, RateLimit, MCBudgetPlan, TLC

writeVars == <<creationVars, ledgerVars, limitVars, planVars>>

Init == CreationInit /\ LedgerInit /\ LimitInit /\ PlanInit

CreationAtRest ==
    submissions = [c \in Submissions |-> NoCallYet] /\ clock = 0 /\ generation = 1 /\ release = 1

LedgerAtRest == calls = [c \in Calls |-> NoCall] /\ authorization = [m \in Actors |-> 1]

LimitAtRest ==
    alias = [r \in Records |-> [k \in 0 .. MaxRotations |-> Nil]] /\ instant = 0 /\ secret.current = 0

PlanAtRest == today = 0

\* Every variable has its shape.
TypeOK == CreationTypeOK /\ LedgerTypeOK /\ LimitTypeOK /\ PlanTypeOK

\* Identifiers are numbers, and are given out in their order: which of them a
\* row or a request gets makes no other difference.
Prefix(used) == \A n \in used : n = 1 \/ n - 1 \in used

\* The bounds of the run.  Of the calls of a creation two are under way at
\* once, and the clock, the session and the release change twice between them,
\* once while two are under way.  The third begins after the first issued a
\* proposal, with two under way or one change and one, the fourth with no
\* change: the third and the fourth are then two confirmations.
MCSubmissions ==
    LET begun == {c \in Submissions : submissions[c].phase # "new"}
        changes == clock + generation + release - 2
    IN  /\ Prefix(begun) /\ Prefix(Issued)
        /\ submissions[1].query.key \in {Nobody, 1}
        /\ Cardinality(InFlight) <= 2 /\ changes + Cardinality(InFlight) <= 3
        /\ Cardinality(begun) >= 3 =>
              submissions[1].answer = "issued" /\ changes + Cardinality(InFlight) <= 2
        /\ begun = Submissions =>
              /\ changes = 0
              /\ submissions[2].phase = "answered"
              /\ \A c \in {3, 4} : submissions[c].query.kind = "confirm" /\ submissions[c].query.acknowledged
              /\ \A p \in Issued : proposals[p].status = "invalidated" => proposals[p].successor # Nobody

\* Of the calls of the ledger, two are under way at once and the last begins
\* after the others; with a role changed two begin, and with two transactions
\* recorded three.
MCCalls ==
    LET begun == {c \in Calls : calls[c].phase # "new"}
    IN  /\ Prefix(begun) /\ Prefix(Written) /\ Prefix(Recorded)
        /\ Cardinality({c \in begun : calls[c].phase # "answered"}) <= 2
        /\ begun = Calls =>
              /\ Cardinality({c \in begun : calls[c].phase # "answered"}) <= 1
              /\ Cardinality(Recorded) <= 1
        /\ (\E m \in Actors : authorization[m] > 1) => Cardinality(begun) <= 2

\* The units are counted under one record, for records share nothing either,
\* and one is refunded.  Once the secret was rotated a ceremony's responses
\* are not sent.
MCOneRecord ==
    /\ Prefix({u \in Units : units[u].phase # "new"})
    /\ Prefix({b \in Buckets : buckets[b].made})
    /\ Cardinality({u \in Units : units[u].refunded}) <= 1
    /\ \A u, w \in Units : {units[u].record, units[w].record} \ {Nil} # Records
    /\ secret.current > 0 => \A u \in Units : units[u].record \in Bootstrap => units[u].phase # "released"

\* No request tells one category from another.
MCSymmetry == Permutations(MCCategories)

\* The four share nothing, so every state of one is reached with the others
\* at rest, where the run leaves them, and within the bounds.
Next ==
    \/ /\ LedgerAtRest /\ LimitAtRest /\ PlanAtRest
       /\ CreationStep /\ UNCHANGED <<ledgerVars, limitVars, planVars>> /\ MCSubmissions'
    \/ /\ CreationAtRest /\ LimitAtRest /\ PlanAtRest
       /\ LedgerStep /\ UNCHANGED <<creationVars, limitVars, planVars>> /\ MCCalls'
    \/ /\ CreationAtRest /\ LedgerAtRest /\ PlanAtRest
       /\ LimitStep /\ UNCHANGED <<creationVars, ledgerVars, planVars>> /\ MCOneRecord'
    \/ /\ CreationAtRest /\ LedgerAtRest /\ LimitAtRest
       /\ PlanStep /\ UNCHANGED <<creationVars, ledgerVars, limitVars>>

Spec == Init /\ [][Next]_writeVars
=============================================================================
