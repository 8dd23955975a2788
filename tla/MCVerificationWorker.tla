------------------------- MODULE MCVerificationWorker -------------------------
(* The verification worker for TLC. *)
EXTENDS VerificationWorker, TLC
=============================================================================
