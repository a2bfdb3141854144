------------------------- MODULE MCIdentityCeremony -------------------------
(***************************************************************************)
(* Instances of IdentityCeremony for TLC.                                  *)
(***************************************************************************)
EXTENDS IdentityCeremony, TLC
=============================================================================
