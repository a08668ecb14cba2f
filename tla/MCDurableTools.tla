--------------------------- MODULE MCDurableTools ---------------------------
(* Two worker processes and two durable calls: one of an UNSAFE tool, one  *)
(* of a tool that may be executed again.                                   *)
EXTENDS DurableTools, TLC

CONSTANTS unsafeKey, readKey

MCEffect == [k \in Keys |-> IF k = unsafeKey THEN "UNSAFE" ELSE "READ_ONLY"]

Symmetry == Permutations(Callers) \cup Permutations(Outputs)
=============================================================================
