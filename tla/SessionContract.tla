--------------------------- MODULE SessionContract ---------------------------
(***************************************************************************)
(* What the session subsystem promises, without rows, locks or retries: a  *)
(* session is live from its issue until one atomic end, a request acts on  *)
(* a live session or not at all, and a fresh-assurance grant backs one act.*)
(***************************************************************************)
CONSTANTS Subjects, Refs, Grants, Mutations, None

VARIABLES
    live,     \* sessions that resolve
    ended,    \* sessions that will never resolve again
    owner,    \* the subject of each session issued
    closed,   \* subjects that may hold no session any more
    spent,    \* grants used up
    acted     \* the session each request acted on, or None

contractVars == <<live, ended, owner, closed, spent, acted>>

Init ==
    /\ live = {} /\ ended = {} /\ closed = {} /\ spent = {}
    /\ owner = [r \in Refs |-> None]
    /\ acted = [m \in Mutations |-> None]

\* A new session of an open subject replaces at most one live session.
Issue(r, s, replaced) ==
    /\ r \notin live \cup ended
    /\ s \notin closed
    /\ replaced \subseteq live
    /\ \A x, y \in replaced : x = y
    /\ live' = (live \ replaced) \cup {r}
    /\ ended' = ended \cup replaced
    /\ owner' = [owner EXCEPT ![r] = s]
    /\ UNCHANGED <<closed, spent, acted>>

SignOut(r) ==
    /\ r \in live
    /\ live' = live \ {r}
    /\ ended' = ended \cup {r}
    /\ UNCHANGED <<owner, closed, spent, acted>>

\* Every session of the subject ends at once; the subject may be closed too.
Revoke(s) ==
    /\ live' = {r \in live : owner[r] # s}
    /\ ended' = ended \cup {r \in live : owner[r] = s}
    /\ closed' \in {closed, closed \cup {s}}
    /\ UNCHANGED <<owner, spent, acted>>

Act(m, r, grants) ==
    /\ acted[m] = None
    /\ r \in live
    /\ grants \cap spent = {}
    /\ acted' = [acted EXCEPT ![m] = r]
    /\ spent' = spent \cup grants
    /\ UNCHANGED <<live, ended, owner, closed>>

Next ==
    \/ \E r \in Refs, s \in Subjects : \E replaced \in SUBSET live : Issue(r, s, replaced)
    \/ \E r \in Refs : SignOut(r)
    \/ \E s \in Subjects : Revoke(s)
    \/ \E m \in Mutations, r \in Refs : \E grants \in SUBSET Grants : Act(m, r, grants)

Spec == Init /\ [][Next]_contractVars
=============================================================================
