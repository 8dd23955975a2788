------------------------- MODULE MCIncidentRegistry -------------------------
(***************************************************************************)
(* Instances of the incident registry for TLC.  Fewer clock readings than   *)
(* versions are enough: every operation may be given any of them.           *)
(***************************************************************************)
EXTENDS IncidentRegistry, TLC

CONSTANTS h1, h2, p1, p2, alert1, alert2, s1, s2

MCActionKey == [incident: IncidentID, plan: Plan]
MCVersion == 1..6
MCTime == 1..2
MCHolderSymmetry == Permutations(Holder)

(* The second incident of the one key is created and left alone: it is the  *)
(* recurrence of the alert after the first was resolved.                    *)
MCSecondIsNew == nextSequence = 2 => incidents[2].version = 1
=============================================================================
