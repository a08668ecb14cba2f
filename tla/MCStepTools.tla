---------------------------- MODULE MCStepTools -----------------------------
(* Two loops and one worker process.  A reply charges twice with the same  *)
(* arguments written in two orders, or makes a call that does not validate *)
(* and then another charge, or asks for a tool that does not exist and     *)
(* then for a durable transfer.                                            *)
EXTENDS StepTools, TLC

CONSTANTS Workers, v1, v2

Args(q, limit) == <<<<"q", q>>, <<"limit", limit>>>>
ArgsReversed(q, limit) == <<<<"limit", limit>>, <<"q", q>>>>
Make(name, args) == [name |-> name, args |-> args]

MCCallers == Loops \cup Workers
MCRegistered == {"charge", "transfer"}
MCDurable == {"transfer"}

SameTwice == <<Make("charge", Args(v1, v1)), Make("charge", ArgsReversed(v1, v1))>>
Refused == <<Make("charge", <<>>), Make("charge", Args(v2, v1))>>
Dispatched == <<Make("ghost", <<>>), Make("transfer", Args(v1, v1))>>

MCInvalid == {<<"charge", {}>>}
MCAsks == {SameTwice, Refused, Dispatched}

MCKeys ==
    {<<"charge", args>> : args \in {<<>>, Args(v1, v1), ArgsReversed(v1, v1),
                                    Args(v2, v1), ArgsReversed(v2, v1)}}
    \cup {<<"transfer", args>> : args \in {<<>>, Args(v1, v1), ArgsReversed(v1, v1)}}

MCEffect == [k \in Keys |-> "UNSAFE"]

Symmetry == Permutations(Loops)
=============================================================================
