---------------------------- MODULE RunLifecycle ----------------------------
(***************************************************************************)
(* What the runtime promises about one run, whoever works on it: the       *)
(* states of RunStatus (core/runtime/state.py), one driver at a time, a    *)
(* history that only its driver extends, and an end that is final.         *)
(*                                                                         *)
(* AgentLoop implements it as long as no lease runs out under its owner.   *)
(***************************************************************************)
EXTENDS Naturals, Sequences

CONSTANTS
    Drivers,    \* who may drive the run
    NoDriver,   \* nobody does
    Steps,      \* what a step can be: at least a stop reason and a body
    Failures    \* the reasons a run can fail for

VARIABLES
    status,     \* RunStatus
    driver,     \* who drives the run
    history,    \* the steps taken
    answer,     \* what a completed run answered
    failure     \* why a failed run failed

lifecycleVars == <<status, driver, history, answer, failure>>

Nothing == "null"

Init ==
    /\ status = "QUEUED" /\ driver = NoDriver
    /\ history = <<>> /\ answer = Nothing /\ failure = Nothing

\* QUEUED, PAUSED, or RUNNING with nobody driving: the run is started, or
\* picked up where its history ends.
PickUp(d) ==
    /\ status \in {"QUEUED", "RUNNING", "PAUSED"}
    /\ driver = NoDriver
    /\ driver' = d /\ status' = "RUNNING"
    /\ UNCHANGED <<history, answer, failure>>

TakeStep(step) ==
    /\ status = "RUNNING" /\ driver # NoDriver
    /\ history' = Append(history, step)
    /\ UNCHANGED <<status, driver, answer, failure>>

\* The driver gives the run up, or is found dead.
LetGo(becomes) ==
    /\ driver # NoDriver
    /\ driver' = NoDriver /\ status' = becomes
    /\ UNCHANGED <<history, answer, failure>>

\* The last step answers, and the run is over.
Complete ==
    /\ status = "RUNNING" /\ driver # NoDriver
    /\ history # <<>> /\ history[Len(history)].stop = "end_turn"
    /\ status' = "COMPLETED" /\ driver' = NoDriver
    /\ answer' = history[Len(history)].body
    /\ UNCHANGED <<history, failure>>

Fail(reason) ==
    /\ status = "RUNNING" /\ driver # NoDriver
    /\ status' = "FAILED" /\ driver' = NoDriver
    /\ failure' = reason
    /\ UNCHANGED <<history, answer>>

Next ==
    \/ \E d \in Drivers : PickUp(d)
    \/ \E step \in Steps : TakeStep(step)
    \/ \E becomes \in {"RUNNING", "PAUSED"} : LetGo(becomes)
    \/ Complete
    \/ \E reason \in Failures : Fail(reason)

Spec == Init /\ [][Next]_lifecycleVars

=============================================================================
