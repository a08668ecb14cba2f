---------------------------- MODULE MCToolLedger ----------------------------
(* Three racing calls for two keys: one of an UNSAFE tool, one of a tool   *)
(* that may be executed again.                                             *)
EXTENDS ToolLedger, TLC

CONSTANTS unsafeKey, readKey

MCEffect == (unsafeKey :> "UNSAFE") @@ (readKey :> "READ_ONLY")

Symmetry == Permutations(Callers) \cup Permutations(Outputs)
=============================================================================
