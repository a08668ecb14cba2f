---------------------------- MODULE DurableTools ----------------------------
(***************************************************************************)
(* DURABLE tools: the loop dispatches a call to Celery and polls the       *)
(* ledger (loop.py _execute_durable); a worker process executes it through *)
(* execute_invocation (workers/tasks.py) and the row is the rendezvous.    *)
(*                                                                         *)
(* ToolLedger is the worker's side: here its Callers are task executions   *)
(* in worker processes.  Added are the broker, configured by               *)
(* build_celery_app for at-least-once delivery, and the run that waits.    *)
(*                                                                         *)
(* The broker holds copies of the task message of a key that nobody works  *)
(* on (ready) or that a task has not acknowledged yet (held).  An enqueue  *)
(* whose await is cancelled publishes all the same, from its thread: that  *)
(* is Enqueue followed by Stop.                                            *)
(***************************************************************************)
EXTENDS ToolLedger

CONSTANTS
    NoMessage,      \* a task execution that has no message to acknowledge
    MaxSent,        \* bound: messages published per key
    MaxFaults,      \* bound: workers lost, visibility timeouts, other mishaps
    WorkerMishaps   \* what may go wrong in a worker besides its being killed

ASSUME NoMessageAssumption == NoMessage \notin Keys
ASSUME MaxFaultsAssumption == MaxFaults \in Nat
ASSUME MishapAssumption == WorkerMishaps \subseteq {"time_limit", "bad_deploy"}

VARIABLES
    ready,      \* messages waiting in the broker, per key
    held,       \* the unacknowledged message of each task execution
    wpc,        \* where the run that asked for the key is
    sent,       \* messages published so far, per key
    lost,       \* history: executions that were cut short, per key
    collected,  \* history: outcomes handed to the run, per key
    mishaps     \* faults so far

brokerVars == <<ready, held>>
waitVars == <<wpc, sent, collected>>
durableVars == <<vars, brokerVars, waitVars, lost, mishaps>>

DurableInit ==
    /\ Init
    /\ ready = [k \in Keys |-> 0]
    /\ held = [c \in Callers |-> NoMessage]
    /\ wpc = [k \in Keys |-> "away"]
    /\ sent = [k \in Keys |-> 0]
    /\ lost = [k \in Keys |-> 0]
    /\ collected = [k \in Keys |-> {}]
    /\ mishaps = 0

-----------------------------------------------------------------------------
(* The run that waits: _execute_durable.                                   *)

GotoW(k, where) == wpc' = [wpc EXCEPT ![k] = where]

\* The model asks for the call, for the first time or again: after a retry, a
\* pause or a crash the uncommitted step is repeated.
Ask(k) ==
    /\ wpc[k] = "away"
    /\ GotoW(k, "lookup")
    /\ UNCHANGED <<vars, brokerVars, sent, collected, lost, mishaps>>

\* _result_from on a terminal row.  NEEDS_REVIEW fails the run.
Collect(k) ==
    /\ collected' = [collected EXCEPT ![k] = @ \cup {row[k]}]
    /\ GotoW(k, IF row[k] = InReview THEN "failed" ELSE "away")

\* Mutant: a row in any state is taken for the answer.
LookupTrustsAnyRow(k) ==
    /\ wpc[k] = "lookup"
    /\ \/ row[k] = Absent /\ GotoW(k, "enqueue") /\ UNCHANGED collected
       \/ row[k] # Absent /\ Collect(k)
    /\ UNCHANGED <<vars, brokerVars, sent, lost, mishaps>>

\* The first ledger.lookup: dispatch only when there is no row at all.
Lookup(k) ==
    /\ wpc[k] = "lookup"
    /\ \/ row[k] = Absent /\ GotoW(k, "enqueue") /\ UNCHANGED collected
       \/ row[k] = Pending /\ GotoW(k, "poll") /\ UNCHANGED collected
       \/ IsTerminal(row[k]) /\ Collect(k)
    /\ UNCHANGED <<vars, brokerVars, sent, lost, mishaps>>

\* Mutant: the dispatcher claims the row itself.
EnqueueClaims(k) ==
    /\ wpc[k] = "enqueue"
    /\ sent[k] < MaxSent
    /\ row' = [row EXCEPT ![k] = Pending]
    /\ ready' = [ready EXCEPT ![k] = @ + 1]
    /\ sent' = [sent EXCEPT ![k] = @ + 1]
    /\ GotoW(k, "poll")
    /\ UNCHANGED <<callVars, historyVars, held, collected, lost, mishaps>>

\* enqueue_tool returns: the broker has accepted the message.
Enqueue(k) ==
    /\ wpc[k] = "enqueue"
    /\ sent[k] < MaxSent
    /\ ready' = [ready EXCEPT ![k] = @ + 1]
    /\ sent' = [sent EXCEPT ![k] = @ + 1]
    /\ GotoW(k, "poll")
    /\ UNCHANGED <<vars, held, collected, lost, mishaps>>

\* The poll finds a terminal row.  (Otherwise it sleeps and looks again.)
Poll(k) ==
    /\ wpc[k] = "poll"
    /\ IsTerminal(row[k])
    /\ Collect(k)
    /\ UNCHANGED <<vars, brokerVars, sent, lost, mishaps>>

\* The run stops waiting: the broker is unavailable, the step timed out, its
\* patience ran out and the run was paused, or its process died.
Stop(k) ==
    /\ wpc[k] \in {"lookup", "enqueue", "poll"}
    /\ GotoW(k, "away")
    /\ UNCHANGED <<vars, brokerVars, sent, collected, lost, mishaps>>

-----------------------------------------------------------------------------
(* The broker and its workers.                                             *)

\* Mutant: task_acks_late = False.
DeliverAcksEarly(c, k) ==
    /\ held[c] = NoMessage
    /\ ready[k] > 0
    /\ ready' = [ready EXCEPT ![k] = @ - 1]
    /\ Call(c, k)
    /\ UNCHANGED <<held, waitVars, lost, mishaps>>

\* A worker takes a message and calls execute_tool.  task_acks_late: the
\* message stays unacknowledged.
Deliver(c, k) ==
    /\ held[c] = NoMessage
    /\ ready[k] > 0
    /\ ready' = [ready EXCEPT ![k] = @ - 1]
    /\ held' = [held EXCEPT ![c] = k]
    /\ Call(c, k)
    /\ UNCHANGED <<waitVars, lost, mishaps>>

\* execute_tool goes on.  The message is acknowledged when it returns, and when
\* it raises ToolCrashed.  (Another exception, such as a lost database
\* connection, is acknowledged with the row left PENDING: what TimeLimit does.)
Work(c) ==
    /\ \/ Begin(c) \/ Decide(c) \/ NeedsReview(c)
       \/ InvokeHandler(c) \/ HandlerEnds(c) \/ Complete(c)
    /\ held' = [held EXCEPT ![c] = IF pc'[c] = "idle" THEN NoMessage ELSE @]
    /\ UNCHANGED <<ready, waitVars, lost, mishaps>>

Fault == mishaps < MaxFaults /\ mishaps' = mishaps + 1

\* Mutant: task_reject_on_worker_lost = False; the task is marked failed.
RequeuedNot(c) == ready' = ready

\* Back to the front of the line, if this execution has a message at all.
Requeued(c) ==
    ready' = [k \in Keys |-> IF k = held[c] THEN ready[k] + 1 ELSE ready[k]]

\* The worker process is killed.  task_reject_on_worker_lost: the message is
\* requeued.
WorkerLost(c) ==
    /\ Fault
    /\ Vanish(c)
    /\ Requeued(c)
    /\ held' = [held EXCEPT ![c] = NoMessage]
    /\ lost' = [lost EXCEPT ![key[c]] = @ + 1]
    /\ UNCHANGED waitVars

\* The visibility timeout runs out under a worker that is not dead: it is stuck,
\* or busy within its limits (up to a tool timeout of 30 s the hard limit comes
\* no earlier).  The message goes back and its acknowledgement counts for nothing.
VisibilityExpires(c) ==
    /\ Fault
    /\ held[c] # NoMessage
    /\ Requeued(c)
    /\ held' = [held EXCEPT ![c] = NoMessage]
    /\ UNCHANGED <<vars, waitVars, lost>>

\* A time limit cuts execute_tool short.  Celery acknowledges a task that fails
\* or times out (task_acks_on_failure_or_timeout is left at its default), so
\* the message is gone.  The hard limit kills the process.  The soft limit,
\* raised while the event loop waits for the handler's I/O, leaves run_async
\* and a coroutine that goes on if another task runs the loop.
TimeLimit(c) ==
    /\ "time_limit" \in WorkerMishaps
    /\ Fault
    /\ pc[c] # "idle"
    /\ \/ Vanish(c)
       \/ pc[c] = "running" /\ UNCHANGED vars
    /\ held' = [held EXCEPT ![c] = NoMessage]
    /\ lost' = [lost EXCEPT ![key[c]] = @ + 1]
    /\ UNCHANGED <<ready, waitVars>>

\* The worker runs other code than the API: ToolNotFound or ToolInputInvalid is
\* raised before the ledger is touched, and the task fails.
Unroutable(k) ==
    /\ "bad_deploy" \in WorkerMishaps
    /\ Fault
    /\ ready[k] > 0
    /\ ready' = [ready EXCEPT ![k] = @ - 1]
    /\ UNCHANGED <<vars, held, waitVars, lost>>

Waiting(k) == Ask(k) \/ Lookup(k) \/ Enqueue(k) \/ Poll(k) \/ Stop(k)

Working(c) ==
    \/ \E k \in Keys : Deliver(c, k)
    \/ Work(c)
    \/ WorkerLost(c)
    \/ VisibilityExpires(c)
    \/ TimeLimit(c)

\* Every run has failed, and there is nothing left to deliver.
Quiet ==
    /\ \A k \in Keys : wpc[k] = "failed" /\ ready[k] = 0
    /\ \A c \in Callers : pc[c] = "idle"
    /\ UNCHANGED durableVars

DurableNext ==
    \/ \E k \in Keys : Waiting(k) \/ Unroutable(k)
    \/ \E c \in Callers : Working(c)
    \/ Quiet

DurableSpec == DurableInit /\ [][DurableNext]_durableVars

\* Workers that are alive keep working, and the broker keeps delivering.
\* Nothing is assumed of the run: it may ask once and never come back.
DurableFairness ==
    /\ \A c \in Callers : WF_durableVars(Work(c))
    /\ \A k \in Keys : WF_durableVars(\E c \in Callers : Deliver(c, k))

DurableFairSpec == DurableSpec /\ DurableFairness

-----------------------------------------------------------------------------
(* Properties.                                                             *)

BrokerTypeOK ==
    /\ ready \in [Keys -> Nat]
    /\ held \in [Callers -> Keys \cup {NoMessage}]
    /\ sent \in [Keys -> Nat]

DurableTypeOK ==
    /\ TypeOK
    /\ BrokerTypeOK
    /\ wpc \in [Keys -> {"away", "lookup", "enqueue", "poll", "failed"}]
    /\ lost \in [Keys -> Nat]
    /\ collected \in [Keys -> SUBSET ({InReview} \cup HandlerOutcome)]
    /\ mishaps \in 0..MaxFaults

\* Whatever the broker and the runs do, to the ledger it is calls of
\* execute_invocation that race, return or vanish: ToolLedger is implemented,
\* and what is true of it is true here.
ImplementsLedger == Spec

\* What the run is told about an UNSAFE call, over all its polls, retries and
\* resumes, is one outcome that really happened, or NEEDS_REVIEW.
CollectedOnce ==
    \A k \in Keys :
        /\ collected[k] \ {InReview} \subseteq produced[k]
        /\ Effect[k] = "UNSAFE" => \A a, b \in collected[k] \ {InReview} : a = b

\* Somebody will still deal with the call, or it has been dealt with.
Promised(k) ==
    \/ ready[k] > 0
    \/ \E c \in Callers : held[c] = k
    \/ IsTerminal(row[k])

\* A dispatched call is never dropped: the loop that finds a PENDING row, and
\* waits instead of dispatching again, waits for something.
DispatchedIsPromised ==
    \A k \in Keys : sent[k] > 0 => Promised(k)

\* A PENDING row is a promise that somebody is still working, or that a message
\* will bring somebody: "running it now, or dead and awaiting redelivery".
PendingIsPromised ==
    \A k \in Keys : row[k] = Pending =>
        \/ ready[k] > 0
        \/ \E c \in Callers : pc[c] # "idle" /\ key[c] = k

\* A dispatched call ends, whether or not the run that asked is still there.
EveryDispatchEnds ==
    \A k \in Keys : (sent[k] > 0) ~> IsTerminal(row[k])

\* A human is asked to look at a call only after something went wrong: it was
\* dispatched twice, or a worker was lost, timed out or was redelivered to.  One
\* dispatch and one undisturbed execution never end in NEEDS_REVIEW.
ReviewHasCause ==
    \A k \in Keys : row[k] = InReview => sent[k] > 1 \/ mishaps > 0

-----------------------------------------------------------------------------
(* The inductive invariant behind DispatchedIsPromised.                    *)

\* Every execution was dispatched, and works on the message it holds.
ExecutionsDispatched ==
    \A c \in Callers :
        /\ pc[c] # "idle" => sent[key[c]] > 0
        /\ held[c] # NoMessage => pc[c] # "idle" /\ held[c] = key[c]

\* Only what was dispatched has messages, or a row.
RowsDispatched ==
    \A k \in Keys : ready[k] > 0 \/ row[k] # Absent => sent[k] > 0

DurableInv ==
    /\ BrokerTypeOK
    /\ ExecutionsDispatched
    /\ RowsDispatched
    /\ DispatchedIsPromised

-----------------------------------------------------------------------------
(* The inductive invariant behind ReviewHasCause.                          *)

\* One dispatch at most, and no fault anywhere.
Undisturbed(k) == sent[k] <= 1 /\ mishaps = 0

WorksOn(c, k) == pc[c] # "idle" /\ key[c] = k

\* The one message is waiting and nothing has been done, or it has been taken by
\* the one execution there will be, which finds no row.
OneUndisturbedExecution ==
    \A k \in Keys : Undisturbed(k) =>
        /\ row[k] # InReview
        /\ ready[k] <= sent[k]
        /\ row[k] # Absent => ready[k] = 0 /\ sent[k] = 1
        /\ \A c \in Callers : WorksOn(c, k) =>
             /\ ready[k] = 0 /\ sent[k] = 1
             /\ pc[c] \notin {"decide", "review"}
             /\ pc[c] = "begin" => row[k] = Absent
             /\ \A d \in Callers : WorksOn(d, k) => d = c

=============================================================================
