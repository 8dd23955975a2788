--------------------------- MODULE MCRecoveryCheck ---------------------------
(* Instances of the recovery check for TLC. *)
EXTENDS RecoveryCheck

CONSTANTS acted, p1, p2, other
=============================================================================
