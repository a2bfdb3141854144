-------------------------- MODULE MCProviderEvents --------------------------
(***************************************************************************)
(* An instance of ProviderEvents for TLC: cursors out of order, an event   *)
(* without one, one of another environment, and one ahead of the clock.    *)
(***************************************************************************)
EXTENDS ProviderEvents, TLC

CONSTANTS e1, e2, e3, e4, e5

MCEvents == {e1, e2, e3, e4, e5}
MCCursor == (e1 :> 1) @@ (e2 :> 2) @@ (e3 :> 3) @@ (e4 :> 1) @@ (e5 :> 0)
MCForeign == {e4}
MCAhead == {e2}
MCSymmetry == Permutations(Deliveries)
=============================================================================
