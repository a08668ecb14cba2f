---------------------------- MODULE MCRunIntake ----------------------------
(* Two creations that share a key and ask for different limits, one with   *)
(* that key and a parent that does not exist, and one without a key.       *)
EXTENDS RunIntake

CONSTANTS first, again, keyless, orphan

MCKey == [r \in Requests |-> IF r = keyless THEN NoKey ELSE "k"]
MCAdmission == [r \in Requests |-> IF r = again THEN "tight" ELSE "ample"]
MCPacing == [r \in Requests |-> IF r = first THEN "slow" ELSE "default"]
=============================================================================
