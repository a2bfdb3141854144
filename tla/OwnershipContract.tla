-------------------------- MODULE OwnershipContract --------------------------
(***************************************************************************)
(* What a transfer of primary ownership promises: the ownership passes     *)
(* only by an offer of its holder that both the holder and the one it was  *)
(* made to agreed to while it stood, and one offer stands at a time.       *)
(***************************************************************************)
EXTENDS FiniteSets

CONSTANTS People, Offers, Nobody

VARIABLES owner, offers

contractVars == <<owner, offers>>

Closed == "closed"
NoOffer == [state |-> "none", from |-> Nobody, to |-> Nobody, agreed |-> {}]

Init ==
    /\ owner \in People
    /\ offers = [o \in Offers |-> NoOffer]

Open(o) == offers[o].state = "open"

Make(o, p) ==
    /\ offers[o] = NoOffer
    /\ \A u \in Offers : ~ Open(u)
    /\ p # owner
    /\ offers' = [offers EXCEPT ![o] = [state |-> "open", from |-> owner, to |-> p, agreed |-> {}]]
    /\ UNCHANGED owner

\* One party agrees first; the ownership stays.
Agree(o, p) ==
    /\ Open(o) /\ p \in {offers[o].from, offers[o].to} /\ offers[o].agreed = {}
    /\ offers' = [offers EXCEPT ![o] = [@ EXCEPT !.agreed = {p}]]
    /\ UNCHANGED owner

\* The other agrees, and with that the ownership passes.
Pass(o) ==
    /\ Open(o) /\ offers[o].agreed # {} /\ owner = offers[o].from
    /\ owner' = offers[o].to
    /\ offers' = [offers EXCEPT ![o] =
            [state |-> "passed", from |-> owner, to |-> offers[o].to, agreed |-> {owner, offers[o].to}]]

Withdraw(o) ==
    /\ Open(o)
    /\ offers' = [offers EXCEPT ![o] = [@ EXCEPT !.state = Closed]]
    /\ UNCHANGED owner

Next ==
    \E o \in Offers :
        /\ offers'[o] # offers[o]
        /\ Pass(o) \/ Withdraw(o) \/ \E p \in People : Make(o, p) \/ Agree(o, p)

Spec == Init /\ [][Next]_contractVars
=============================================================================
