----------------------------- MODULE ToolLedger -----------------------------
(***************************************************************************)
(* The tool ledger and the one function that writes it.                    *)
(*                                                                         *)
(* execute_invocation (core/tools/execution.py) is called by the agent     *)
(* loop for an inline tool, and by a Celery worker for a durable one.  A   *)
(* call claims an idempotency key by inserting a PENDING row, runs the     *)
(* tool's handler, and records the outcome; a call that finds a row obeys  *)
(* it.  Any number of calls for one key may be under way at once (a        *)
(* redelivered task, a second worker driving the run, a retried step), and *)
(* a call may disappear at any await: its process is killed, or            *)
(* asyncio.timeout cancels it.                                             *)
(*                                                                         *)
(* Every database transaction is one atomic step; the code between two     *)
(* awaits belongs to the step before it.  A tool's output is a member of   *)
(* Outputs: the text as it is recorded, after the length cap.              *)
(***************************************************************************)
EXTENDS Naturals, FiniteSets

CONSTANTS
    Callers,    \* concurrent calls of execute_invocation
    Keys,       \* idempotency keys
    Effect,     \* the effect class of the tool each key is about
    Outputs,    \* texts a handler's outcome can be recorded as
    Reason,     \* the explanation written into a NEEDS_REVIEW row
    NoResult,   \* the NULL of the result column
    MaxCalls    \* bound: calls of execute_invocation per key

EffectClass == {"READ_ONLY", "IDEMPOTENT_WRITE", "UNSAFE"}

ASSUME EffectAssumption == Effect \in [Keys -> EffectClass]
ASSUME MaxCallsAssumption == MaxCalls \in Nat
ASSUME ResultAssumption == Reason \notin Outputs /\ NoResult \notin Outputs

VARIABLES
    row,        \* tool_invocations: the row of each key
    pc,         \* where each call is suspended
    key,        \* the key each call was made for
    got,        \* the outcome a call is about to record
    calls,      \* calls made so far for each key
    handlerRuns,\* history: how many times the handler was entered
    produced,   \* history: outcomes the handler produced
    returned    \* history: outcomes execute_invocation returned

ledgerVars == <<row>>
callVars == <<pc, key, got, calls>>
historyVars == <<handlerRuns, produced, returned>>
vars == <<ledgerVars, callVars, historyVars>>

-----------------------------------------------------------------------------

InvocationStatus == {"pending", "succeeded", "failed", "needs_review"}

\* A row that has not been inserted is Absent.
Absent == [status |-> "absent", result |-> NoResult]
Pending == [status |-> "pending", result |-> NoResult]
InReview == [status |-> "needs_review", result |-> Reason]

\* What a handler's return or exception is recorded as; is_error holds exactly
\* of "failed" and "needs_review".
HandlerOutcome == [status : {"succeeded", "failed"}, result : Outputs]

\* InvocationOutcome.is_terminal, for a row that exists.
IsTerminal(r) == r.status \in {"succeeded", "failed", "needs_review"}

PCs == {"idle", "begin", "decide", "handler", "running", "complete",
        "completeThenRaise", "review"}

TypeOK ==
    /\ row \in [Keys -> {Absent, Pending, InReview} \cup HandlerOutcome]
    /\ pc \in [Callers -> PCs]
    /\ key \in [Callers -> Keys]
    /\ got \in [Callers -> {Absent} \cup HandlerOutcome]
    /\ calls \in [Keys -> 0..MaxCalls]
    /\ handlerRuns \in [Keys -> Nat]
    /\ produced \in [Keys -> SUBSET HandlerOutcome]
    /\ returned \in [Keys -> SUBSET ({InReview} \cup HandlerOutcome)]

Init ==
    /\ row = [k \in Keys |-> Absent]
    /\ pc = [c \in Callers |-> "idle"]
    /\ key \in [Callers -> Keys]
    /\ got = [c \in Callers |-> Absent]
    /\ calls = [k \in Keys |-> 0]
    /\ handlerRuns = [k \in Keys |-> 0]
    /\ produced = [k \in Keys |-> {}]
    /\ returned = [k \in Keys |-> {}]

-----------------------------------------------------------------------------
(* Helpers.                                                                *)

Goto(c, where) == pc' = [pc EXCEPT ![c] = where]

\* Mutant: the author's effect class is ignored.
ResolvePendingIgnoresEffect(effectClass) == "handler"

\* Mutant: a class the match does not cover falls through to the caller.
ResolvePendingUncovered(effectClass) ==
    IF effectClass = "READ_ONLY" THEN "none" ELSE "review"

\* resolve_pending: what to do about a PENDING row some earlier call left.
\* RE_EXECUTE enters the handler, NEEDS_REVIEW refuses.
resolve_pending(effectClass) ==
    IF effectClass = "UNSAFE" THEN "review" ELSE "handler"

\* The call ends and its caller is handed an outcome.
Return(c, outcome) ==
    /\ Goto(c, "idle")
    /\ returned' = [returned EXCEPT ![key[c]] = @ \cup {outcome}]

-----------------------------------------------------------------------------
(* The actions, one per stretch of execute_invocation between two awaits.  *)

\* The tool exists and its arguments validate.  (When they do not, the call
\* raises before the ledger is touched: no state changes.)
Call(c, k) ==
    /\ pc[c] = "idle"
    /\ calls[k] < MaxCalls
    /\ calls' = [calls EXCEPT ![k] = @ + 1]
    /\ key' = [key EXCEPT ![c] = k]
    /\ got' = [got EXCEPT ![c] = Absent]
    /\ Goto(c, "begin")
    /\ UNCHANGED <<row, historyVars>>

\* Mutant: begin written as an upsert, so a second claim resets the row.
BeginUpserts(c) ==
    /\ pc[c] = "begin"
    /\ row' = [row EXCEPT ![key[c]] = Pending]
    /\ Goto(c, IF row[key[c]] = Absent THEN "handler" ELSE "decide")
    /\ UNCHANGED <<key, got, calls, historyVars>>

\* Mutant: begin always reads the row back, so that a claim that succeeded
\* finds its own PENDING row.
BeginReadsBack(c) ==
    /\ pc[c] = "begin"
    /\ row' = [row EXCEPT ![key[c]] = IF @ = Absent THEN Pending ELSE @]
    /\ Goto(c, "decide")
    /\ UNCHANGED <<key, got, calls, historyVars>>

\* PostgresToolLedger.begin: insert first and let UNIQUE(idempotency_key)
\* arbitrate.  The loser reads the winner's row in a transaction of its own.
\* Every IntegrityError is the unique key's here, as begin takes it to be: the
\* foreign key on the run cannot fail while the run that calls exists.
Begin(c) ==
    /\ pc[c] = "begin"
    /\ \/ /\ row[key[c]] = Absent
          /\ row' = [row EXCEPT ![key[c]] = Pending]
          /\ Goto(c, "handler")
       \/ /\ row[key[c]] # Absent
          /\ Goto(c, "decide")
          /\ UNCHANGED row
    /\ UNCHANGED <<key, got, calls, historyVars>>

\* Mutant: any existing row is replayed, a PENDING one as a failure.
DecideReplaysPending(c) ==
    /\ pc[c] = "decide"
    /\ Return(c, IF row[key[c]] \in HandlerOutcome THEN row[key[c]] ELSE InReview)
    /\ UNCHANGED <<row, key, got, calls, handlerRuns, produced>>

\* _decide_from_existing, and the match on the decision in execute_invocation.
Decide(c) ==
    /\ pc[c] = "decide"
    /\ \/ /\ row[key[c]].status \in {"succeeded", "failed"}     \* REPLAY
          /\ Return(c, row[key[c]])
       \/ /\ row[key[c]].status = "pending"
          /\ Goto(c, resolve_pending(Effect[key[c]]))
          /\ UNCHANGED returned
       \/ /\ row[key[c]].status = "needs_review"
          /\ Goto(c, "review")
          /\ UNCHANGED returned
    /\ UNCHANGED <<row, key, got, calls, handlerRuns, produced>>

\* ledger.needs_review: an UPDATE by key, whatever the row's status is now.
NeedsReview(c) ==
    /\ pc[c] = "review"
    /\ row' = [row EXCEPT ![key[c]] = InReview]
    /\ Return(c, InReview)
    /\ UNCHANGED <<key, got, calls, handlerRuns, produced>>

\* EXECUTE and RE_EXECUTE: the handler is entered.
InvokeHandler(c) ==
    /\ pc[c] = "handler"
    /\ Goto(c, "running")
    /\ handlerRuns' = [handlerRuns EXCEPT ![key[c]] = @ + 1]
    /\ UNCHANGED <<row, key, got, calls, produced, returned>>

\* The handler is over: it returned, declared that it could not succeed, or
\* raised something else (then ToolCrashed is raised once the row is closed).
HandlerEnds(c) ==
    /\ pc[c] = "running"
    /\ \E outcome \in HandlerOutcome :
         /\ got' = [got EXCEPT ![c] = outcome]
         /\ produced' = [produced EXCEPT ![key[c]] = @ \cup {outcome}]
         /\ \/ Goto(c, "complete")
            \/ outcome.status = "failed" /\ Goto(c, "completeThenRaise")
    /\ UNCHANGED <<row, key, calls, handlerRuns, returned>>

\* Mutant: complete is called without is_error.
CompleteLosesError(c) ==
    /\ pc[c] \in {"complete", "completeThenRaise"}
    /\ row' = [row EXCEPT ![key[c]] = [status |-> "succeeded", result |-> got[c].result]]
    /\ \/ pc[c] = "complete" /\ Return(c, got[c])
       \/ pc[c] = "completeThenRaise" /\ Goto(c, "idle") /\ UNCHANGED returned
    /\ UNCHANGED <<key, got, calls, handlerRuns, produced>>

\* ledger.complete: an UPDATE by key, whatever the row's status is now; then
\* the call returns the outcome, or raises.
Complete(c) ==
    /\ pc[c] \in {"complete", "completeThenRaise"}
    /\ row' = [row EXCEPT ![key[c]] = got[c]]
    /\ \/ pc[c] = "complete" /\ Return(c, got[c])
       \/ pc[c] = "completeThenRaise" /\ Goto(c, "idle") /\ UNCHANGED returned
    /\ UNCHANGED <<key, got, calls, handlerRuns, produced>>

\* The process dies, or asyncio.timeout cancels the call at an await.  The
\* row is left as the last committed transaction made it.
Vanish(c) ==
    /\ pc[c] # "idle"
    /\ Goto(c, "idle")
    /\ UNCHANGED <<row, key, got, calls, historyVars>>

CallerStep(c) ==
    \/ \E k \in Keys : Call(c, k)
    \/ Begin(c)
    \/ Decide(c)
    \/ NeedsReview(c)
    \/ InvokeHandler(c)
    \/ HandlerEnds(c)
    \/ Complete(c)
    \/ Vanish(c)

\* Every call there is a bound for was made, and none is under way.
AllCallsOver ==
    /\ \A c \in Callers : pc[c] = "idle"
    /\ \A k \in Keys : calls[k] = MaxCalls
    /\ UNCHANGED vars

Next == AllCallsOver \/ \E c \in Callers : CallerStep(c)

Spec == Init /\ [][Next]_vars

-----------------------------------------------------------------------------
(* Properties.                                                             *)

\* The handler of an UNSAFE tool is entered at most once per key, whatever
\* calls race, die or are repeated: the claim the ledger exists for.
UnsafeAtMostOnce ==
    \A k \in Keys : Effect[k] = "UNSAFE" => handlerRuns[k] <= 1

\* What a caller is told, and what a row records, as success or failure really
\* is what some run of the handler ended with: no PENDING row is ever replayed
\* as an answer.
AnswersHappened ==
    \A k \in Keys :
        /\ returned[k] \ {InReview} \subseteq produced[k]
        /\ row[k] \in HandlerOutcome => row[k] \in produced[k]

\* Two callers of one UNSAFE key are never given two different answers; one of
\* them may have been refused with NEEDS_REVIEW.
UnsafeAnswersAgree ==
    \A k \in Keys : Effect[k] = "UNSAFE" =>
        \A a, b \in returned[k] \ {InReview} : a = b

\* execute_invocation's postcondition: once any call for a key has returned,
\* the key's row is terminal, and stays so.
ReturnedMeansTerminal ==
    \A k \in Keys : returned[k] # {} => IsTerminal(row[k])

\* A row is never deleted, and never goes back to PENDING once closed.
RowsNeverReopen ==
    [][\A k \in Keys :
         /\ row[k] # Absent => row'[k] # Absent
         /\ IsTerminal(row[k]) => IsTerminal(row'[k])]_vars

-----------------------------------------------------------------------------
(* The inductive invariant behind the safety properties.                   *)

\* A call between its claim and the end of its handler.
Executing(c) == pc[c] \in {"handler", "running"}

\* What a call is about to record came out of the handler.
RecordsWhatHappened ==
    \A c \in Callers :
        pc[c] \in {"complete", "completeThenRaise"} => got[c] \in produced[key[c]]

\* Past begin, the key has a row.
ClaimedFirst ==
    \A c \in Callers : pc[c] \notin {"idle", "begin"} => row[key[c]] # Absent

\* A key without a row was never executed.
NoRowNoEffect ==
    \A k \in Keys : row[k] = Absent => handlerRuns[k] = 0 /\ produced[k] = {}

\* The right to execute an UNSAFE key is a token: one call has it, before the
\* handler has run or produced anything.
UnsafeToken ==
    \A c \in Callers : Executing(c) /\ Effect[key[c]] = "UNSAFE" =>
        /\ produced[key[c]] = {}
        /\ pc[c] = "handler" => handlerRuns[key[c]] = 0
        /\ \A d \in Callers : Executing(d) /\ key[d] = key[c] => d = c

\* An UNSAFE handler has produced at most one outcome.
UnsafeOneOutcome ==
    \A k \in Keys : Effect[k] = "UNSAFE" =>
        \A a, b \in produced[k] : a = b

LedgerInv ==
    /\ TypeOK
    /\ RecordsWhatHappened
    /\ ClaimedFirst
    /\ NoRowNoEffect
    /\ UnsafeToken
    /\ UnsafeOneOutcome
    /\ UnsafeAtMostOnce
    /\ AnswersHappened
    /\ ReturnedMeansTerminal

=============================================================================
