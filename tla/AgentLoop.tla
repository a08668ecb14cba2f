------------------------------ MODULE AgentLoop ------------------------------
(***************************************************************************)
(* AgentLoop.run (core/runtime/loop.py): workers driving one run through   *)
(* the store, one committed step at a time.                                *)
(*                                                                         *)
(* Several workers may call run on the same run.  A worker is suspended    *)
(* only at an await, so one action is the code between two awaits.  Any    *)
(* worker may be killed at any await, and a lease may run out under a      *)
(* worker that is still driving: the TTL (60 s) is renewed only at a step  *)
(* boundary, and a step may take max_step_attempts * step_timeout_seconds  *)
(* (3 * 60 s) and its backoffs.                                            *)
(*                                                                         *)
(* A model's reply is its stop reason, a body and a token cost.  The tools *)
(* a step runs are seen here by how the step ends; ToolLedger has the      *)
(* rest.                                                                   *)
(***************************************************************************)
EXTENDS RunStore

CONSTANTS
    Bodies,             \* contents a reply can have
    Costs,              \* tokens a model call can cost
    MaxSteps,           \* RunLimits.max_steps
    TokenBudget,        \* RunLimits.token_budget
    MinViable,          \* policy.MIN_VIABLE_OUTPUT_TOKENS
    MaxOutputTokens,    \* RunLimits.max_output_tokens
    MaxInputTokens,     \* the input tokens of the largest request
    MaxStepAttempts,    \* RunLimits.max_step_attempts
    MaxRunRetries,      \* RunLimits.max_run_retries
    Mishaps,            \* what a model call or its tools may do other than answer
    LeasesCanLapse,     \* may a lease run out under a worker that is driving?
    MaxFaults           \* bound: crashes, and leases lapsing under a driver

AllMishaps == {"unreachable", "refusal", "truncated", "in_flight", "needs_review",
               "tool_bug", "request_error"}

ASSUME LimitsAssumption ==
    /\ Costs \subseteq Nat /\ TokenBudget \in Nat /\ MinViable \in Nat
    /\ MaxOutputTokens \in Nat /\ MaxInputTokens \in Nat
    /\ MaxSteps \in Nat /\ MaxStepAttempts \in Nat /\ MaxRunRetries \in Nat
    /\ MaxFaults \in Nat /\ LeasesCanLapse \in BOOLEAN
    /\ Mishaps \subseteq AllMishaps
ASSUME NobodyAssumption == Nobody \notin Owners

VARIABLES
    pc,         \* the await each worker is suspended at
    nsteps,     \* len(steps): the steps a worker knows of, and its next step_idx
    usage,      \* the worker's RunUsage
    conv,       \* messages: the conversation the worker holds
    pending,    \* the turns of it not yet stored
    attempt,    \* attempts at the current step
    reply,      \* the reply being committed
    snap,       \* what the open transaction has read
    end,        \* the outcome being written
    faults,     \* faults so far
    basis,      \* history: the conversation each stored step answered
    late,       \* history: how many steps a worker stored without a live lease
    lateSteps   \* history: the indices of the steps stored without one

memoryVars == <<nsteps, usage, conv, pending, attempt, reply, snap, end>>
historyVars == <<basis, late, lateSteps>>
vars == <<storeVars, pc, memoryVars, faults, historyVars>>

-----------------------------------------------------------------------------
(* Conversations.                                                          *)

Turn(role, body) == [role |-> role, body |-> body]

\* The user message _conversation derives from runs.input.
Opening == Turn("user", Null)

\* What a reply adds to the conversation: the assistant's turn verbatim and,
\* when it asks for tools, one user turn that holds every result.
TurnsOf(r) ==
    IF r.stop = "tool_use"
      THEN <<Turn("assistant", r.body), Turn("user", r.body)>>
      ELSE <<Turn("assistant", r.body)>>

\* run_messages in index order.
StoredConversation == [i \in 1..MessageCount |-> messages[i - 1]]

NoReply == [stop |-> Null, body |-> Null, cost |-> 0]
NoSnap == [status |-> Null]
NoEnd == [status |-> Null]
NoUsage == [steps |-> 0, tokens |-> 0]

\* stop_sequence is treated as end_turn.
Replies == [stop : {"tool_use", "end_turn"}, body : Bodies, cost : Costs]

Completed(r) == [status |-> "COMPLETED", output |-> r.body, error_code |-> Null]
Failed(code) == [status |-> "FAILED", output |-> Null, error_code |-> code]

ErrorCodes == {"BUDGET_EXCEEDED", "STEP_FAILED", "UPSTREAM_REFUSAL",
               "UPSTREAM_TRUNCATED", "NEEDS_REVIEW", "TOOL_FAILED"}

-----------------------------------------------------------------------------

Init ==
    /\ Created
    /\ pc = [w \in Owners |-> "idle"]
    /\ nsteps = [w \in Owners |-> 0]
    /\ usage = [w \in Owners |-> NoUsage]
    /\ conv = [w \in Owners |-> <<>>]
    /\ pending = [w \in Owners |-> <<>>]
    /\ attempt = [w \in Owners |-> 0]
    /\ reply = [w \in Owners |-> NoReply]
    /\ snap = [w \in Owners |-> NoSnap]
    /\ end = [w \in Owners |-> NoEnd]
    /\ faults = 0
    /\ basis = [i \in {} |-> <<>>]
    /\ late = [w \in Owners |-> 0]
    /\ lateSteps = {}

Goto(w, where) == pc' = [pc EXCEPT ![w] = where]

\* run returns or raises, or the process dies: the worker's memory is gone.
Leave(w) ==
    /\ Goto(w, "idle")
    /\ nsteps' = [nsteps EXCEPT ![w] = 0]
    /\ usage' = [usage EXCEPT ![w] = NoUsage]
    /\ conv' = [conv EXCEPT ![w] = <<>>]
    /\ pending' = [pending EXCEPT ![w] = <<>>]
    /\ attempt' = [attempt EXCEPT ![w] = 0]
    /\ reply' = [reply EXCEPT ![w] = NoReply]
    /\ snap' = [snap EXCEPT ![w] = NoSnap]
    /\ end' = [end EXCEPT ![w] = NoEnd]

\* The run is about to be finished with this outcome.
Conclude(w, outcome) ==
    /\ Goto(w, "finishRead")
    /\ end' = [end EXCEPT ![w] = outcome]

-----------------------------------------------------------------------------
(* Claiming and loading the run.                                           *)

\* store.claim succeeded.
Claim(w) ==
    /\ pc[w] = "idle"
    /\ claim(w)
    /\ Goto(w, "loadRun")
    /\ late' = [late EXCEPT ![w] = 0]
    /\ UNCHANGED <<memoryVars, faults, basis, lateSteps>>

\* store.load: three SELECTs, each seeing what is committed when it runs.
LoadRun(w) ==
    /\ pc[w] = "loadRun"
    /\ usage' = [usage EXCEPT ![w] = [steps |-> steps_taken, tokens |-> tokens]]
    /\ Goto(w, "loadSteps")
    /\ UNCHANGED <<storeVars, nsteps, conv, pending, attempt, reply, snap, end,
                   faults, historyVars>>

LoadSteps(w) ==
    /\ pc[w] = "loadSteps"
    /\ nsteps' = [nsteps EXCEPT ![w] = Cardinality(DOMAIN steps)]
    /\ Goto(w, "loadMessages")
    /\ UNCHANGED <<storeVars, usage, conv, pending, attempt, reply, snap, end,
                   faults, historyVars>>

\* Mutant: a resumed run stores its opening message again.
LoadMessagesReopens(w) ==
    /\ pc[w] = "loadMessages"
    /\ conv' = [conv EXCEPT ![w] = IF DOMAIN messages = {} THEN <<Opening>>
                                   ELSE StoredConversation]
    /\ pending' = [pending EXCEPT ![w] = <<Opening>>]
    /\ Goto(w, "top")
    /\ UNCHANGED <<storeVars, nsteps, usage, attempt, reply, snap, end,
                   faults, historyVars>>

\* _conversation: replayed from the store, or freshly opened (and then still
\* to be stored with the first step).
LoadMessages(w) ==
    /\ pc[w] = "loadMessages"
    /\ \/ /\ DOMAIN messages # {}
          /\ conv' = [conv EXCEPT ![w] = StoredConversation]
          /\ pending' = [pending EXCEPT ![w] = <<>>]
       \/ /\ DOMAIN messages = {}
          /\ conv' = [conv EXCEPT ![w] = <<Opening>>]
          /\ pending' = [pending EXCEPT ![w] = <<Opening>>]
    /\ Goto(w, "top")
    /\ UNCHANGED <<storeVars, nsteps, usage, attempt, reply, snap, end,
                   faults, historyVars>>

-----------------------------------------------------------------------------
(* One step.                                                               *)

\* Mutant: the step cap is off by one.
BudgetExceededOffByOne(u) ==
    \/ u.steps > MaxSteps
    \/ TokenBudget - u.tokens < MinViable

\* LoopPolicy.check refuses one more step.
BudgetExceeded(u) ==
    \/ u.steps >= MaxSteps
    \/ TokenBudget - u.tokens < MinViable

\* The top of the loop: the policy authorises a step, or the run fails.
PolicyCheck(w) ==
    /\ pc[w] = "top"
    /\ \/ /\ BudgetExceeded(usage[w])
          /\ Conclude(w, Failed("BUDGET_EXCEEDED"))
          /\ UNCHANGED attempt
       \/ /\ ~BudgetExceeded(usage[w])
          /\ attempt' = [attempt EXCEPT ![w] = 1]
          /\ Goto(w, "ask")
          /\ UNCHANGED end
    /\ UNCHANGED <<storeVars, nsteps, usage, conv, pending, reply, snap,
                   faults, historyVars>>

\* Mutant: max_tokens is not clamped to what the budget has left.
unclampedMaxTokens(u) == MaxOutputTokens

\* The max_tokens a request is sent with.
max_tokens_for_next_step(u) ==
    IF MaxOutputTokens <= TokenBudget - u.tokens
      THEN MaxOutputTokens
      ELSE TokenBudget - u.tokens

\* What a call may cost: the request's input, and no more output than allowed.
Affordable(cost, u) == cost <= MaxInputTokens + max_tokens_for_next_step(u)

\* The model answered, and every tool it asked for has a result.
Respond(w) ==
    /\ pc[w] = "ask"
    /\ \E r \in Replies :
         /\ Affordable(r.cost, usage[w])
         /\ reply' = [reply EXCEPT ![w] = r]
         /\ usage' = [usage EXCEPT ![w] = [steps |-> @.steps + 1,
                                           tokens |-> @.tokens + r.cost]]
         /\ conv' = [conv EXCEPT ![w] = @ \o TurnsOf(r)]
         /\ pending' = [pending EXCEPT ![w] = @ \o TurnsOf(r)]
    /\ Goto(w, "commitRead")
    /\ UNCHANGED <<storeVars, nsteps, attempt, snap, end, faults, historyVars>>

\* The model refused, stopped at max_tokens or pause_turn, or signalled a tool
\* call without one; an UNSAFE tool needs review; a tool's handler is broken.
\* The run fails, and nothing of this step is stored.
FailStep(w) ==
    /\ pc[w] = "ask"
    /\ \/ "refusal" \in Mishaps /\ Conclude(w, Failed("UPSTREAM_REFUSAL"))
       \/ "truncated" \in Mishaps /\ Conclude(w, Failed("UPSTREAM_TRUNCATED"))
       \/ "needs_review" \in Mishaps /\ Conclude(w, Failed("NEEDS_REVIEW"))
       \/ "tool_bug" \in Mishaps /\ Conclude(w, Failed("TOOL_FAILED"))
    /\ UNCHANGED <<storeVars, nsteps, usage, conv, pending, attempt, reply, snap,
                   faults, historyVars>>

\* A durable tool outlasts the step's patience: the run is paused, and no retry
\* is charged.
ToolInFlight(w) ==
    /\ pc[w] = "ask"
    /\ "in_flight" \in Mishaps
    /\ Goto(w, "pause")
    /\ UNCHANGED <<storeVars, memoryVars, faults, historyVars>>

\* LLMRequestError: caught neither by _attempt_step nor by run.  It leaves the
\* loop with the run RUNNING and leased.
RequestError(w) ==
    /\ pc[w] = "ask"
    /\ "request_error" \in Mishaps
    /\ Leave(w)
    /\ UNCHANGED <<storeVars, faults, historyVars>>

\* The provider or the broker could not be reached, or the step timed out.
\* The last attempt pauses the run; an earlier one is charged and repeated.
AttemptFails(w) ==
    /\ pc[w] = "ask"
    /\ "unreachable" \in Mishaps
    /\ attempt' = [attempt EXCEPT ![w] = @ + 1]
    /\ Goto(w, IF attempt[w] + 1 > MaxStepAttempts THEN "pause" ELSE "retry")
    /\ UNCHANGED <<storeVars, nsteps, usage, conv, pending, reply, snap, end,
                   faults, historyVars>>

\* Mutant: the durable budget is charged but never enforced.
RecordRetryUnenforced(w) ==
    /\ pc[w] = "retry"
    /\ record_retry
    /\ Goto(w, "ask")
    /\ UNCHANGED <<memoryVars, faults, historyVars>>

\* Mutant: a retry is not charged to the run.
RecordRetryUncharged(w) ==
    /\ pc[w] = "retry"
    /\ Goto(w, "ask")
    /\ UNCHANGED <<storeVars, memoryVars, faults, historyVars>>

\* record_retry, then the backoff; or the run's whole allowance is spent.
RecordRetry(w) ==
    /\ pc[w] = "retry"
    /\ record_retry
    /\ \/ /\ retries_used + 1 > MaxRunRetries
          /\ Conclude(w, Failed("STEP_FAILED"))
       \/ /\ retries_used + 1 <= MaxRunRetries
          /\ Goto(w, "ask")
          /\ UNCHANGED end
    /\ UNCHANGED <<nsteps, usage, conv, pending, attempt, reply, snap,
                   faults, historyVars>>

-----------------------------------------------------------------------------
(* _commit: commit_step, then renew.                                       *)

CommitRead(w) ==
    /\ pc[w] = "commitRead"
    /\ snap' = [snap EXCEPT ![w] = RowRead]
    /\ Goto(w, "commitCount")
    /\ UNCHANGED <<storeVars, nsteps, usage, conv, pending, attempt, reply, end,
                   faults, historyVars>>

CommitCount(w) ==
    /\ pc[w] = "commitCount"
    /\ snap' = [snap EXCEPT ![w] = CountRead(@)]
    /\ Goto(w, "commitWrite")
    /\ UNCHANGED <<storeVars, nsteps, usage, conv, pending, attempt, reply, end,
                   faults, historyVars>>

\* The conversation the reply being committed answered.
Asked(w) == SubSeq(conv[w], 1, Len(conv[w]) - Len(TurnsOf(reply[w])))

\* The step is stored, or StepAlreadyCommitted is raised and swallowed.
CommitWrite(w) ==
    /\ pc[w] = "commitWrite"
    /\ \/ /\ ~Conflicts(nsteps[w], pending[w], snap[w])
          /\ insertStep(nsteps[w], reply[w], pending[w], snap[w])
          /\ basis' = Inserted(basis, nsteps[w], <<Asked(w)>>)
          /\ late' = [late EXCEPT ![w] = IF HoldsLease(w) THEN @ ELSE @ + 1]
          /\ lateSteps' = lateSteps \cup (IF HoldsLease(w) THEN {} ELSE {nsteps[w]})
       \/ /\ Conflicts(nsteps[w], pending[w], snap[w])
          /\ UNCHANGED <<storeVars, historyVars>>
    /\ snap' = [snap EXCEPT ![w] = NoSnap]
    /\ Goto(w, "renew")
    /\ UNCHANGED <<nsteps, usage, conv, pending, attempt, reply, end, faults>>

\* Mutant: a lost lease is noticed, and the worker goes on.
RenewIgnored(w) ==
    /\ pc[w] = "renew"
    /\ nsteps' = [nsteps EXCEPT ![w] = @ + 1]
    /\ pending' = [pending EXCEPT ![w] = <<>>]
    /\ \/ reply[w].stop = "tool_use" /\ Goto(w, "top") /\ UNCHANGED end
       \/ reply[w].stop = "end_turn" /\ Conclude(w, Completed(reply[w]))
    /\ UNCHANGED <<storeVars, usage, conv, attempt, reply, snap, faults, historyVars>>

\* renew: the worker goes on only if it still holds a live lease.  After a
\* tool_use step the loop continues; otherwise the run is complete.
Renew(w) ==
    /\ pc[w] = "renew"
    /\ \/ /\ HoldsLease(w)
          /\ nsteps' = [nsteps EXCEPT ![w] = @ + 1]
          /\ pending' = [pending EXCEPT ![w] = <<>>]
          /\ reply' = [reply EXCEPT ![w] = NoReply]
          /\ \/ reply[w].stop = "tool_use" /\ Goto(w, "top") /\ UNCHANGED end
             \/ reply[w].stop = "end_turn" /\ Conclude(w, Completed(reply[w]))
          /\ UNCHANGED <<usage, conv, attempt, snap>>
       \/ /\ ~HoldsLease(w)
          /\ Leave(w)
    /\ UNCHANGED <<storeVars, faults, historyVars>>

-----------------------------------------------------------------------------
(* How a worker stops.                                                     *)

FinishRead(w) ==
    /\ pc[w] = "finishRead"
    /\ snap' = [snap EXCEPT ![w] = FinishSnapshot]
    /\ Goto(w, "finishWrite")
    /\ UNCHANGED <<storeVars, nsteps, usage, conv, pending, attempt, reply, end,
                   faults, historyVars>>

FinishWrite(w) ==
    /\ pc[w] = "finishWrite"
    /\ finish(end[w], snap[w])
    /\ Leave(w)
    /\ UNCHANGED <<faults, historyVars>>

\* _pause
Pause(w) ==
    /\ pc[w] = "pause"
    /\ release(w, "PAUSED")
    /\ Leave(w)
    /\ UNCHANGED <<faults, historyVars>>

\* The process is killed at whatever await it was suspended at.
Crash(w) ==
    /\ pc[w] # "idle"
    /\ faults < MaxFaults
    /\ faults' = faults + 1
    /\ Leave(w)
    /\ UNCHANGED <<storeVars, historyVars>>

\* The TTL of a lease nobody is working under runs out.
LeaseExpires ==
    /\ lease_owner # Nobody /\ pc[lease_owner] = "idle"
    /\ expire
    /\ UNCHANGED <<pc, memoryVars, faults, historyVars>>

\* The TTL runs out while its owner is still driving the run.
LeaseLapses ==
    /\ LeasesCanLapse
    /\ lease_owner # Nobody /\ pc[lease_owner] # "idle"
    /\ faults < MaxFaults
    /\ faults' = faults + 1
    /\ expire
    /\ UNCHANGED <<pc, memoryVars, historyVars>>

\* What a worker does by itself.
Drive(w) ==
    \/ LoadRun(w) \/ LoadSteps(w) \/ LoadMessages(w)
    \/ PolicyCheck(w)
    \/ Respond(w) \/ FailStep(w) \/ ToolInFlight(w) \/ RequestError(w)
    \/ AttemptFails(w) \/ RecordRetry(w)
    \/ CommitRead(w) \/ CommitCount(w) \/ CommitWrite(w) \/ Renew(w)
    \/ FinishRead(w) \/ FinishWrite(w) \/ Pause(w)

\* The run is over and nobody is driving it.
Over ==
    /\ status \in Terminal
    /\ \A w \in Owners : pc[w] = "idle"
    /\ UNCHANGED vars

Next ==
    \/ \E w \in Owners : Claim(w) \/ Drive(w) \/ Crash(w)
    \/ LeaseExpires
    \/ LeaseLapses
    \/ Over

Spec == Init /\ [][Next]_vars

\* A live process keeps taking steps, time passes, and somebody keeps calling
\* run on a run that nobody works on: the repository has no such scheduler yet,
\* and its documents rely on one.
Fairness ==
    /\ \A w \in Owners : WF_vars(Drive(w))
    /\ WF_vars(LeaseExpires)
    /\ WF_vars(\E w \in Owners : Claim(w))

FairSpec == Spec /\ Fairness

-----------------------------------------------------------------------------
(* Types.                                                                  *)

PCs == {"idle", "loadRun", "loadSteps", "loadMessages", "top", "ask", "retry",
        "commitRead", "commitCount", "commitWrite", "renew",
        "finishRead", "finishWrite", "pause"}

Turns == [role : {"user", "assistant"}, body : Bodies \cup {Null}]

Ends == [status : {"COMPLETED"}, output : Bodies, error_code : {Null}]
          \cup [status : {"FAILED"}, output : {Null}, error_code : ErrorCodes]

RowReads == [tokens : Nat, status : RunStatus]

CommitSnapshots == [count : Nat, tokens : Nat, status : RunStatus]

FinishSnapshots ==
    [status : RunStatus, lease_owner : Owners \cup {Nobody},
     output : Bodies \cup {Null}, error_code : ErrorCodes \cup {Null}]

Snapshots == RowReads \cup CommitSnapshots \cup FinishSnapshots \cup {NoSnap}

StoreTypeOK ==
    /\ status \in RunStatus
    /\ lease_owner \in Owners \cup {Nobody}
    /\ live \in BOOLEAN
    /\ steps_taken \in Nat /\ tokens \in Nat /\ retries_used \in Nat
    /\ output \in Bodies \cup {Null}
    /\ error_code \in ErrorCodes \cup {Null}
    /\ DOMAIN steps \subseteq Nat /\ steps \in [DOMAIN steps -> Replies]
    /\ DOMAIN messages \subseteq Nat /\ messages \in [DOMAIN messages -> Turns]

TypeOK ==
    /\ StoreTypeOK
    /\ pc \in [Owners -> PCs]
    /\ nsteps \in [Owners -> Nat]
    /\ usage \in [Owners -> [steps : Nat, tokens : Nat]]
    /\ conv \in [Owners -> Seq(Turns)]
    /\ pending \in [Owners -> Seq(Turns)]
    /\ attempt \in [Owners -> Nat]
    /\ reply \in [Owners -> Replies \cup {NoReply}]
    /\ snap \in [Owners -> Snapshots]
    /\ end \in [Owners -> Ends \cup {NoEnd}]
    /\ faults \in 0..MaxFaults
    /\ late \in [Owners -> Nat]
    /\ lateSteps \subseteq Nat

-----------------------------------------------------------------------------
(* What holds whatever the leases do.                                      *)

\* Step rows are numbered 0, 1, ... without a gap and steps_taken counts them;
\* message rows likewise.  commit_step computes indices and counters from a
\* read it has no lock for, in whatever order workers commit.
RowsContiguous ==
    /\ DOMAIN steps = 0..(steps_taken - 1)
    /\ DOMAIN messages = 0..(MessageCount - 1)

\* The first k stored steps, as a conversation and as a token count.
Transcript(k) ==
    LET upTo[i \in 0..k] ==
          IF i = 0 THEN <<Opening>> ELSE upTo[i - 1] \o TurnsOf(steps[i - 1])
    IN  upTo[k]

TokensUpTo(k) ==
    LET upTo[i \in 0..k] ==
          IF i = 0 THEN 0 ELSE upTo[i - 1] + steps[i - 1].cost
    IN  upTo[k]

\* The run's token counter is the sum over its step rows: no read-modify-write
\* of commit_step loses or repeats an update.
TokensMatchSteps == tokens = TokensUpTo(steps_taken)

\* The stored conversation is the opening message followed by the turns of the
\* stored steps, in order, each exactly once.
MessagesMatchSteps ==
    StoredConversation = IF steps_taken = 0 THEN <<>> ELSE Transcript(steps_taken)

\* A committed step, or message, is never rewritten or deleted.
StepsAppendOnly ==
    [][/\ \A i \in DOMAIN steps : i \in DOMAIN steps' /\ steps'[i] = steps[i]
       /\ \A i \in DOMAIN messages :
            i \in DOMAIN messages' /\ messages'[i] = messages[i]]_vars

\* A live lease is given up or cleared, never taken over.
LiveLeaseNotStolen ==
    [][live /\ lease_owner' # lease_owner => lease_owner' = Nobody]_vars

\* A worker that has lost its lease stores at most one more step: it finds out
\* at the boundary of the step it was in.
OneLateStep == \A w \in Owners : late[w] <= 1

\* A step answers a conversation other than the stored one only after an earlier
\* step was stored without a live lease.  A swallowed StepAlreadyCommitted, and
\* a load torn by another worker's commit, do not suffice by themselves.
DivergesOnlyAfterLateStep ==
    \A k \in DOMAIN steps :
        basis[k] # Transcript(k) => \E j \in lateSteps : j < k

-----------------------------------------------------------------------------
(* What holds as long as no lease runs out under a driver.                 *)

\* COMPLETED and FAILED are final: neither the status nor what was recorded
\* with it changes again, and no step is added.
TerminalIsFinal ==
    [][(status \in Terminal) =>
         UNCHANGED <<status, resultVars, countVars, childVars>>]_vars

\* Every stored step answers exactly the conversation stored before it, so the
\* run replayed from the store is the run that happened.
ReplayFidelity ==
    \A k \in DOMAIN steps : basis[k] = Transcript(k)

\* A COMPLETED run ends with an end_turn step, and its output is that answer.
CompletedIsAnswered ==
    status = "COMPLETED" =>
        /\ steps_taken > 0
        /\ steps[steps_taken - 1].stop = "end_turn"
        /\ output = steps[steps_taken - 1].body
        /\ error_code = Null

\* A terminal run holds no lease, so no recovery scan keeps finding it.
TerminalHoldsNoLease == status \in Terminal => lease_owner = Nobody

\* No run stores more steps than max_steps.
StepCapHolds == steps_taken <= MaxSteps

\* The durable retry counter overruns its limit by the one charge that ends the
\* run, and by one more for each crash between a charge and that end.
RetriesBounded == retries_used <= MaxRunRetries + 1 + faults

\* max_tokens_for_next_step caps the overshoot of the token budget at the input
\* tokens of a single request, over any number of steps, crashes and resumes.
BudgetOvershootBounded == tokens <= TokenBudget + MaxInputTokens

\* The stored run, seen from outside: a lease that is live is somebody driving.
Lifecycle == INSTANCE RunLifecycle WITH
    Drivers <- Owners, NoDriver <- Nobody, Steps <- Replies, Failures <- ErrorCodes,
    driver <- IF live THEN lease_owner ELSE Nobody,
    history <- [i \in 1..steps_taken |-> steps[i - 1]],
    answer <- output, failure <- error_code

\* The workers, the store and its leases together implement RunLifecycle: one
\* driver at a time, a history only it extends, and an end that is final.
ImplementsLifecycle == Lifecycle!Spec

\* The precondition of LLMClient.complete: the model is asked only with messages
\* that end with a user turn.  It does not hold: a worker may die between
\* commit_step of an answer and finish, and the next one asks again.
AskedEndsWithUserTurn ==
    \A w \in Owners : pc[w] = "ask" => conv[w][Len(conv[w])].role = "user"

\* A run that is picked up whenever nobody works on it ends for good.
EveryRunEnds == <>[](status \in Terminal)

-----------------------------------------------------------------------------
(* The inductive invariant behind the properties that hold whatever the    *)
(* leases do.                                                              *)

\* Between two awaits a worker holds what the next one needs.
MemoryReady ==
    \A w \in Owners :
        /\ pc[w] \in {"commitRead", "commitCount", "commitWrite", "renew"} =>
             reply[w] \in Replies
        /\ pc[w] = "commitCount" => snap[w] \in RowReads
        /\ pc[w] = "commitWrite" => snap[w] \in CommitSnapshots
        /\ pc[w] \in {"finishRead", "finishWrite"} => end[w] \in Ends
        /\ pc[w] = "finishWrite" => snap[w] \in FinishSnapshots

\* No worker knows of a step that is not stored, and one that has passed
\* commit_step knows its step index is taken, by itself or by another.
NothingBelievedUntilStored ==
    \A w \in Owners :
        /\ nsteps[w] <= steps_taken
        /\ pc[w] = "renew" => nsteps[w] < steps_taken

\* A snapshot whose step index is still free is not stale: counters and
\* message rows move only together with the step rows.
FreshIfFree ==
    \A w \in Owners :
        nsteps[w] = steps_taken =>
          /\ pc[w] \in {"commitCount", "commitWrite"} => snap[w].tokens = tokens
          /\ pc[w] = "commitWrite" => snap[w].count = MessageCount

\* A worker that stored a step without a live lease is stopped by renew.
LateMeansLosing ==
    \A w \in Owners :
        \/ late[w] = 0
        \/ late[w] = 1 /\ pc[w] = "idle"
        \/ late[w] = 1 /\ pc[w] = "renew" /\ ~HoldsLease(w)

\* A lease nobody holds has no expiry.
LiveMeansOwned == live => lease_owner # Nobody

LoopInv ==
    /\ TypeOK
    /\ IsFiniteSet(DOMAIN messages)
    /\ RowsContiguous
    /\ MemoryReady
    /\ NothingBelievedUntilStored
    /\ FreshIfFree
    /\ LateMeansLosing
    /\ LiveMeansOwned

-----------------------------------------------------------------------------
(* The inductive invariant behind what holds as long as no lease runs out  *)
(* under a driver.                                                         *)

\* Whoever drives the run holds the lease, so nobody else does.
DriverHoldsLease ==
    \A w \in Owners : pc[w] # "idle" => HoldsLease(w) /\ status = "RUNNING"

\* finish has read that the worker it acts for is the owner.
FinishKnowsOwner ==
    \A w \in Owners : pc[w] = "finishWrite" => snap[w].lease_owner = w

FencedInv ==
    /\ DriverHoldsLease
    /\ FinishKnowsOwner
    /\ TerminalHoldsNoLease

-----------------------------------------------------------------------------
(* What the counters and the messages agree on, whatever the leases do.    *)

\* The conversation a worker that loads the run now would hold.
Conversation == IF steps_taken = 0 THEN <<Opening>> ELSE StoredConversation

\* What the next step stores besides its own turns.
OpeningIfNew == IF steps_taken = 0 THEN <<Opening>> ELSE <<>>

\* A worker whose step index is still free holds as pending exactly what the
\* store lacks: its reply's turns, and the opening if nothing is stored yet.
PendingIsNew ==
    \A w \in Owners :
        nsteps[w] = steps_taken =>
          /\ pc[w] \in {"top", "ask", "retry"} => pending[w] = OpeningIfNew
          /\ pc[w] \in {"commitRead", "commitCount", "commitWrite"} =>
               pending[w] = OpeningIfNew \o TurnsOf(reply[w])

\* Messages come with steps, and the last one tells how the last step ended.
MessagesComeWithSteps ==
    IF steps_taken = 0
      THEN MessageCount = 0
      ELSE /\ MessageCount > 0
           /\ messages[MessageCount - 1].role =
                IF steps[steps_taken - 1].stop = "tool_use" THEN "user" ELSE "assistant"

\* The holder of the lease is at the store's next step, or has just stored its
\* last; and a worker whose step index is still free holds the conversation
\* that is stored.
InStep(w) ==
    /\ HoldsLease(w) =>
         /\ pc[w] \in {"loadMessages", "top", "ask", "retry",
                      "commitRead", "commitCount", "commitWrite"} =>
              nsteps[w] = steps_taken
         /\ pc[w] = "renew" => nsteps[w] + 1 = steps_taken /\ conv[w] = StoredConversation
    /\ nsteps[w] = steps_taken =>
         /\ pc[w] \in {"top", "ask", "retry"} => conv[w] = Conversation
         /\ pc[w] \in {"commitRead", "commitCount", "commitWrite"} =>
              conv[w] = Conversation \o TurnsOf(reply[w])

\* Workers are in step with the store until one stores a step late.
InStepUntilLate == lateSteps = {} => \A w \in Owners : InStep(w)

LateStepsAreStored == lateSteps \subseteq DOMAIN steps

-----------------------------------------------------------------------------
(* How a run ends as long as no lease runs out under a driver.             *)

\* What a driver remembers is what is stored, up to the step it is taking; that
\* step was authorised, and its cost is within what was asked for.
RemembersStore(w) ==
    /\ pc[w] \in {"loadSteps", "loadMessages", "top", "ask", "retry", "renew"} =>
         usage[w] = [steps |-> steps_taken, tokens |-> tokens]
    /\ pc[w] \in {"loadMessages", "top", "ask", "retry"} => nsteps[w] = steps_taken
    /\ pc[w] \in {"top", "ask", "retry"} => conv[w] = Conversation
    /\ pc[w] \in {"ask", "retry"} => ~BudgetExceeded(usage[w])
    /\ pc[w] \in {"commitRead", "commitCount", "commitWrite"} =>
         /\ nsteps[w] = steps_taken /\ steps_taken < MaxSteps
         /\ usage[w] = [steps |-> steps_taken + 1, tokens |-> tokens + reply[w].cost]
         /\ tokens + reply[w].cost <= TokenBudget + MaxInputTokens
         /\ conv[w] = Conversation \o TurnsOf(reply[w])
    /\ pc[w] = "renew" =>
         /\ nsteps[w] + 1 = steps_taken /\ steps[nsteps[w]] = reply[w]
         /\ conv[w] = StoredConversation

\* The run's last step is an answer.
Answered == steps_taken > 0 /\ steps[steps_taken - 1].stop = "end_turn"

\* A driver that finishes the run as COMPLETED has stored the answer, and finish
\* has read what it is about to replace.
EndsTruly(w) ==
    /\ pc[w] \in {"finishRead", "finishWrite"} /\ end[w].status = "COMPLETED" =>
         Answered /\ end[w].output = steps[steps_taken - 1].body
    /\ pc[w] = "finishWrite" => snap[w] = FinishSnapshot

\* Only a driver's run has a live lease, and only an ended one an outcome.
StatusIsTrue ==
    /\ live => status = "RUNNING"
    /\ status \notin Terminal => output = Null /\ error_code = Null

\* The worker that is finishing the run.
Finishing == \E w \in Owners : pc[w] \in {"finishRead", "finishWrite"}

\* The charge beyond the allowance is the last one, unless its worker dies.
RetryRoom ==
    \/ retries_used <= MaxRunRetries + faults
    \/ /\ retries_used <= MaxRunRetries + 1 + faults
       /\ status \in Terminal \/ Finishing

OutcomeInv ==
    /\ \A w \in Owners : RemembersStore(w) /\ EndsTruly(w)
    /\ StatusIsTrue
    /\ RetryRoom
    /\ StepCapHolds
    /\ BudgetOvershootBounded
    /\ CompletedIsAnswered

=============================================================================
