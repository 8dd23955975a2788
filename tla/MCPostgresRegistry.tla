------------------------- MODULE MCPostgresRegistry -------------------------
(* The PostgreSQL registry for TLC. *)
EXTENDS PostgresRegistry, TLC

CONSTANTS k1, plan1, rs, h1, h2, c1, c2, MaxVersion

MCVersion == 1..MaxVersion
MCClock == 3..4
MCActionKey == [incident: 1..MaxIncidents, plan: {plan1}]
MCSymmetry == Permutations({c1, c2}) \cup Permutations({h1, h2})

(* Four versions are enough to be put under verification, also after two    *)
(* lost claims; the rest are for the claims of the verification's workers.  *)
MCVerifiesInTime ==
  \A i \in 1..MaxIncidents : incidentRows[i].version <= 4 \/
    \E k \in ActionKey : verificationRows[k].version > 0
=============================================================================
