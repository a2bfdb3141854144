------------------------- MODULE MCRevocationOutbox -------------------------
(***************************************************************************)
(* Instances of RevocationOutbox for TLC.                                  *)
(***************************************************************************)
EXTENDS RevocationOutbox

\* A target that may answer ambiguously, and one that only returns or throws.
MCCauses == {"logout", "permission_loss"}
MCLogout == {"logout"}
=============================================================================
