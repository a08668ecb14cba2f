----------------------- MODULE AgentLoopOutcomeProofs -----------------------
(***************************************************************************)
(* What a run comes to as long as no lease runs out under its driver: its  *)
(* limits hold, an answer is what was answered, the store replays what     *)
(* happened, and the whole system implements RunLifecycle.                 *)
(***************************************************************************)
EXTENDS AgentLoopFencedProofs, AgentLoopLedgerProofs

USE LimitsAssumption, NobodyAssumption

\* Whoever drives the run drives it alone.
LEMMA Alone ==
    ASSUME FencedInv, NEW w \in Owners, pc[w] # "idle"
    PROVE  /\ status = "RUNNING" /\ lease_owner = w /\ live
           /\ \A v \in Owners \ {w} : pc[v] = "idle"
BY DEF FencedInv, DriverHoldsLease, HoldsLease

\* A worker that does not drive the run relies on nothing.
LEMMA IdleIsTrue ==
    /\ \A v \in Owners : pc[v] = "idle" => RemembersStore(v) /\ EndsTruly(v)
    /\ \A v \in Owners : pc'[v] = "idle" => RemembersStore(v)' /\ EndsTruly(v)'
BY DEF RemembersStore, EndsTruly

-----------------------------------------------------------------------------
(* Steps that leave the store alone.                                       *)

\* What the store holds is unchanged, and so is all that is derived from it.
LEMMA StoreKept ==
    ASSUME UNCHANGED storeVars
    PROVE  /\ UNCHANGED <<status, lease_owner, live, steps_taken, tokens, retries_used,
                          output, error_code, steps, messages>>
           /\ StoredConversation' = StoredConversation /\ Conversation' = Conversation
           /\ FinishSnapshot' = FinishSnapshot /\ Answered' = Answered
<1>1. UNCHANGED <<status, lease_owner, live, steps_taken, tokens, retries_used,
                  output, error_code, steps, messages>>
  BY DEF storeVars, leaseVars, countVars, resultVars, childVars
<1>2. StoredConversation' = StoredConversation
  BY <1>1 DEF StoredConversation, MessageCount
<1> QED BY <1>1, <1>2 DEF Conversation, FinishSnapshot, Answered

\* Loading the run: the driver ends up with what is stored.
LEMMA LoadRemembers ==
    ASSUME LoopInv, FencedInv, LedgerInv, OutcomeInv, NEW w \in Owners,
           LoadRun(w) \/ LoadSteps(w) \/ LoadMessages(w)
    PROVE  RemembersStore(w)'
<1> USE DEF LoopInv, TypeOK, Goto
<1>0. /\ UNCHANGED <<steps_taken, tokens, steps, messages>>
      /\ Conversation' = Conversation
  BY StoreKept DEF LoadRun, LoadSteps, LoadMessages
<1>r. RemembersStore(w)
  BY DEF OutcomeInv
<1>1. CASE LoadRun(w)
  <2>1. pc'[w] = "loadSteps" /\ usage'[w] = [steps |-> steps_taken, tokens |-> tokens]
    BY <1>1 DEF LoadRun
  <2> QED BY <1>0, <2>1 DEF RemembersStore
<1>2. CASE LoadSteps(w)
  <2>1. Cardinality(DOMAIN steps) = steps_taken
    BY IntervalCount DEF RowsContiguous, StoreTypeOK
  <2>2. /\ pc[w] = "loadSteps" /\ pc'[w] = "loadMessages"
        /\ nsteps'[w] = steps_taken /\ usage'[w] = usage[w]
    BY <1>2, <2>1 DEF LoadSteps
  <2> QED BY <1>0, <1>r, <2>2 DEF RemembersStore
<1>3. CASE LoadMessages(w)
  <2>1. DOMAIN messages = {} <=> steps_taken = 0
    <3>1. MessageCount \in Nat /\ DOMAIN messages = 0..(MessageCount - 1)
      BY StoredConversationType DEF RowsContiguous
    <3>2. MessagesComeWithSteps
      BY DEF LedgerInv
    <3> QED BY ONLY <3>1, <3>2 DEF MessagesComeWithSteps
  <2>2. /\ pc[w] = "loadMessages" /\ pc'[w] = "top"
        /\ nsteps'[w] = nsteps[w] /\ usage'[w] = usage[w]
        /\ conv'[w] = IF DOMAIN messages = {} THEN <<Opening>> ELSE StoredConversation
    BY <1>3 DEF LoadMessages
  <2>3. conv'[w] = Conversation
    BY <2>1, <2>2 DEF Conversation
  <2> QED BY <1>0, <1>r, <2>2, <2>3 DEF RemembersStore
<1> QED BY <1>1, <1>2, <1>3

\* A reply costs no more than its request allowed for.
LEMMA RespondRemembers ==
    ASSUME LoopInv, OutcomeInv, NEW w \in Owners, Respond(w)
    PROVE  RemembersStore(w)'
<1> USE DEF LoopInv, TypeOK, Goto
<1>0. /\ UNCHANGED <<steps_taken, tokens, steps, messages>>
      /\ Conversation' = Conversation
  BY StoreKept DEF Respond
<1>1. PICK r \in Replies :
        /\ Affordable(r.cost, usage[w])
        /\ reply' = [reply EXCEPT ![w] = r]
        /\ usage' = [usage EXCEPT ![w] = [steps |-> @.steps + 1, tokens |-> @.tokens + r.cost]]
        /\ conv' = [conv EXCEPT ![w] = @ \o TurnsOf(r)]
  BY DEF Respond
<1>2. /\ pc[w] = "ask" /\ pc'[w] = "commitRead" /\ nsteps'[w] = nsteps[w]
      /\ reply'[w] = r /\ conv'[w] = conv[w] \o TurnsOf(r)
      /\ usage'[w] = [steps |-> usage[w].steps + 1, tokens |-> usage[w].tokens + r.cost]
  BY <1>1 DEF Respond
<1>3. /\ usage[w] = [steps |-> steps_taken, tokens |-> tokens]
      /\ nsteps[w] = steps_taken /\ conv[w] = Conversation /\ ~BudgetExceeded(usage[w])
  BY <1>2 DEF OutcomeInv, RemembersStore
<1>4. usage[w].steps = steps_taken /\ usage[w].tokens = tokens
  BY <1>3
<1>5. steps_taken \in Nat /\ tokens \in Nat /\ r.cost \in Nat
  <2>1. r.cost \in Costs
    BY DEF Replies
  <2> QED BY <2>1 DEF StoreTypeOK
<1> HIDE DEF LoopInv, TypeOK
<1>6. steps_taken < MaxSteps
  BY <1>3, <1>4, <1>5 DEF BudgetExceeded
<1>7. tokens + r.cost <= TokenBudget + MaxInputTokens
  <2>1. r.cost <= MaxInputTokens + max_tokens_for_next_step(usage[w])
    BY <1>1 DEF Affordable
  <2>2. /\ max_tokens_for_next_step(usage[w]) \in Int
        /\ max_tokens_for_next_step(usage[w]) <= TokenBudget - tokens
    BY <1>4, <1>5 DEF max_tokens_for_next_step
  <2> QED BY <1>5, <2>1, <2>2
<1>8. usage'[w] = [steps |-> steps_taken + 1, tokens |-> tokens + r.cost]
  BY <1>2, <1>4
<1> QED BY <1>0, <1>2, <1>3, <1>6, <1>7, <1>8 DEF RemembersStore

\* The other quiet steps keep what the driver remembers.
LEMMA QuietRemembers ==
    ASSUME LoopInv, FencedInv, LedgerInv, OutcomeInv, NEW w \in Owners, QuietStep(w)
    PROVE  RemembersStore(w)'
<1> USE DEF LoopInv, TypeOK, Goto
<1>0. /\ UNCHANGED <<steps_taken, tokens, steps, messages>>
      /\ Conversation' = Conversation /\ StoredConversation' = StoredConversation
  BY StoreKept, QuietActions
<1>r. RemembersStore(w)
  BY DEF OutcomeInv
<1>1. CASE LoadRun(w) \/ LoadSteps(w) \/ LoadMessages(w)
  BY <1>1, LoadRemembers
<1>2. CASE Respond(w)
  BY <1>2, RespondRemembers
<1>3. CASE PolicyCheck(w)
  <2>1. /\ pc[w] = "top" /\ usage' = usage /\ nsteps' = nsteps /\ conv' = conv
        /\ \/ pc'[w] = "finishRead"
           \/ pc'[w] = "ask" /\ ~BudgetExceeded(usage[w])
    BY <1>3 DEF PolicyCheck, Conclude
  <2> QED BY <1>0, <1>r, <2>1 DEF RemembersStore
<1>4. CASE AttemptFails(w)
  <2>1. /\ pc[w] = "ask" /\ usage' = usage /\ nsteps' = nsteps /\ conv' = conv
        /\ pc'[w] \in {"retry", "pause"}
    BY <1>4 DEF AttemptFails
  <2> QED BY <1>0, <1>r, <2>1 DEF RemembersStore
<1>5. CASE CommitRead(w) \/ CommitCount(w)
  <2>1. /\ pc[w] \in {"commitRead", "commitCount"} /\ pc'[w] \in {"commitCount", "commitWrite"}
        /\ usage' = usage /\ nsteps' = nsteps /\ conv' = conv /\ reply' = reply
    BY <1>5 DEF CommitRead, CommitCount
  <2> QED BY <1>0, <1>r, <2>1 DEF RemembersStore
<1>6. CASE Renew(w)
  <2>1. pc[w] = "renew" /\ HoldsLease(w)
    BY <1>6 DEF Renew, FencedInv, DriverHoldsLease
  <2>2. /\ nsteps'[w] = nsteps[w] + 1 /\ usage' = usage /\ conv' = conv
        /\ pc'[w] \in {"top", "finishRead"}
    BY <1>6, <2>1 DEF Renew, Conclude
  <2>3. /\ usage[w] = [steps |-> steps_taken, tokens |-> tokens]
        /\ nsteps[w] + 1 = steps_taken /\ conv[w] = StoredConversation
    BY <1>r, <2>1 DEF RemembersStore
  <2>4. conv[w] = Conversation
    BY <2>3 DEF Conversation
  <2> QED BY <1>0, <2>2, <2>3, <2>4 DEF RemembersStore
<1>7. CASE FailStep(w) \/ ToolInFlight(w) \/ RequestError(w) \/ FinishRead(w)
  <2>1. pc'[w] \in {"finishRead", "pause", "idle", "finishWrite"}
    BY <1>7 DEF FailStep, ToolInFlight, RequestError, FinishRead, Conclude, Leave
  <2> QED BY <2>1 DEF RemembersStore
<1> QED BY <1>1, <1>2, <1>3, <1>4, <1>5, <1>6, <1>7 DEF QuietStep

\* A driver concludes with COMPLETED only when it has stored an answer.
LEMMA QuietEnds ==
    ASSUME LoopInv, FencedInv, OutcomeInv, NEW w \in Owners, QuietStep(w)
    PROVE  EndsTruly(w)'
<1> USE DEF LoopInv, TypeOK, Goto
<1>0. /\ UNCHANGED <<steps_taken, steps>>
      /\ FinishSnapshot' = FinishSnapshot /\ Answered' = Answered
  BY StoreKept, QuietActions
<1>1. CASE PolicyCheck(w) \/ FailStep(w)
  <2>1. pc'[w] # "finishWrite" /\ (pc'[w] = "finishRead" => end'[w].status = "FAILED")
    BY <1>1 DEF PolicyCheck, FailStep, Conclude, Failed
  <2> QED BY <2>1 DEF EndsTruly
<1>2. CASE Renew(w)
  <2>1. pc[w] = "renew" /\ HoldsLease(w) /\ steps_taken \in Nat /\ nsteps[w] \in Nat
    BY <1>2 DEF Renew, FencedInv, DriverHoldsLease, StoreTypeOK
  <2>2. nsteps[w] + 1 = steps_taken /\ steps[nsteps[w]] = reply[w]
    BY <2>1 DEF OutcomeInv, RemembersStore
  <2>3. \/ pc'[w] = "top"
        \/ /\ pc'[w] = "finishRead" /\ end'[w] = Completed(reply[w])
           /\ reply[w].stop = "end_turn"
    BY <1>2, <2>1 DEF Renew, Conclude
  <2>4. steps_taken > 0 /\ steps[steps_taken - 1] = reply[w]
    <3>1. steps_taken - 1 = nsteps[w] /\ steps_taken > 0
      BY ONLY <2>1, <2>2
    <3> QED BY <2>2, <3>1
  <2>5. Completed(reply[w]).output = reply[w].body
    BY DEF Completed
  <2> QED BY <1>0, <2>3, <2>4, <2>5 DEF EndsTruly, Answered
<1>3. CASE FinishRead(w)
  <2>1. /\ pc[w] = "finishRead" /\ end' = end /\ snap'[w] = FinishSnapshot
    BY <1>3 DEF FinishRead
  <2>2. EndsTruly(w)
    BY DEF OutcomeInv
  <2> QED BY <1>0, <2>1, <2>2 DEF EndsTruly
<1>4. CASE ~(PolicyCheck(w) \/ FailStep(w) \/ Renew(w) \/ FinishRead(w))
  <2>1. pc'[w] \notin {"finishRead", "finishWrite"}
    BY <1>4 DEF QuietStep, LoadRun, LoadSteps, LoadMessages, Respond, ToolInFlight,
       RequestError, AttemptFails, CommitRead, CommitCount, Leave
  <2> QED BY <2>1 DEF EndsTruly
<1> QED BY <1>1, <1>2, <1>3, <1>4

\* Quiet steps preserve the invariant.
LEMMA QuietOutcome ==
    ASSUME LoopInv, FencedInv, LedgerInv, OutcomeInv, NEW w \in Owners, QuietStep(w)
    PROVE  OutcomeInv'
<1>0. /\ UNCHANGED <<status, live, steps_taken, tokens, retries_used, output, error_code, steps>>
      /\ Answered' = Answered
  BY StoreKept, QuietActions
<1>1. pc[w] # "idle" /\ faults' = faults
  BY DEF QuietStep, LoadRun, LoadSteps, LoadMessages, PolicyCheck, Respond, FailStep,
     ToolInFlight, RequestError, AttemptFails, CommitRead, CommitCount, Renew, FinishRead
<1>2. status = "RUNNING" /\ \A v \in Owners \ {w} : pc[v] = "idle" /\ pc'[v] = "idle"
  BY <1>1, Alone, OthersKeep
<1>3. \A v \in Owners : RemembersStore(v)' /\ EndsTruly(v)'
  BY <1>2, QuietRemembers, QuietEnds, IdleIsTrue
<1>4. StatusIsTrue'
  BY <1>0 DEF OutcomeInv, StatusIsTrue
<1>5. StepCapHolds' /\ BudgetOvershootBounded' /\ CompletedIsAnswered'
  BY <1>0 DEF OutcomeInv, StepCapHolds, BudgetOvershootBounded, CompletedIsAnswered
<1>6. CASE pc[w] \in {"finishRead", "finishWrite"}
  <2>1. pc'[w] = "finishWrite"
    BY <1>6 DEF QuietStep, LoadRun, LoadSteps, LoadMessages, PolicyCheck, Respond, FailStep,
       ToolInFlight, RequestError, AttemptFails, CommitRead, CommitCount, Renew, FinishRead,
       Goto, LoopInv, TypeOK
  <2>2. Finishing'
    BY <2>1 DEF Finishing
  <2>3. RetryRoom'
    <3>1. RetryRoom
      BY DEF OutcomeInv
    <3>2. retries_used \in Nat /\ faults \in Nat
      BY DEF LoopInv, TypeOK, StoreTypeOK
    <3>3. retries_used <= MaxRunRetries + 1 + faults
      BY ONLY LimitsAssumption, <3>1, <3>2 DEF RetryRoom
    <3> QED BY <1>0, <1>1, <2>2, <3>3 DEF RetryRoom
  <2> QED BY <1>3, <1>4, <1>5, <2>3 DEF OutcomeInv
<1>7. CASE pc[w] \notin {"finishRead", "finishWrite"}
  <2>1. ~Finishing /\ status \notin Terminal
    BY <1>2, <1>7 DEF Finishing, Terminal
  <2>2. RetryRoom'
    BY <1>0, <1>1, <2>1 DEF OutcomeInv, RetryRoom
  <2> QED BY <1>3, <1>4, <1>5, <2>2 DEF OutcomeInv
<1> QED BY <1>6, <1>7

-----------------------------------------------------------------------------
(* Steps that write the run's row.                                         *)

\* Claiming: nobody drives the run, so nothing is being finished.
LEMMA ClaimOutcome ==
    ASSUME LoopInv, FencedInv, OutcomeInv, NEW w \in Owners, Claim(w)
    PROVE  OutcomeInv'
<1>1. /\ status \in Resumable /\ (lease_owner = Nobody \/ ~live)
      /\ status' = "RUNNING" /\ pc' = [pc EXCEPT ![w] = "loadRun"] /\ faults' = faults
      /\ UNCHANGED <<steps_taken, tokens, retries_used, output, error_code, steps>>
  BY DEF Claim, claim, Goto, countVars, resultVars, childVars
<1>2. \A v \in Owners : pc[v] = "idle"
  BY <1>1, Alone
<1>3. pc'[w] = "loadRun" /\ \A v \in Owners \ {w} : pc'[v] = "idle"
  BY <1>1, <1>2 DEF LoopInv, TypeOK
<1>4. \A v \in Owners : RemembersStore(v)' /\ EndsTruly(v)'
  <2>1. RemembersStore(w)' /\ EndsTruly(w)'
    BY <1>3 DEF RemembersStore, EndsTruly
  <2> QED BY <1>3, <2>1, IdleIsTrue
<1>5. StatusIsTrue' /\ CompletedIsAnswered'
  BY <1>1 DEF OutcomeInv, StatusIsTrue, CompletedIsAnswered, Resumable, Terminal
<1>6. ~Finishing /\ status \notin Terminal
  BY <1>1, <1>2 DEF Finishing, Resumable, Terminal
<1>7. RetryRoom'
  BY <1>1, <1>6 DEF OutcomeInv, RetryRoom
<1>8. StepCapHolds' /\ BudgetOvershootBounded'
  BY <1>1 DEF OutcomeInv, StepCapHolds, BudgetOvershootBounded
<1> QED BY <1>4, <1>5, <1>7, <1>8 DEF OutcomeInv

\* record_retry: the charge beyond the allowance concludes the run.
LEMMA RetryOutcome ==
    ASSUME LoopInv, FencedInv, OutcomeInv, NEW w \in Owners, RecordRetry(w)
    PROVE  OutcomeInv'
<1>1. /\ pc[w] = "retry" /\ retries_used' = retries_used + 1 /\ faults' = faults
      /\ UNCHANGED <<status, live, steps_taken, tokens, output, error_code, steps, messages>>
      /\ nsteps' = nsteps /\ usage' = usage /\ conv' = conv
  BY DEF RecordRetry, record_retry, leaseVars, countVars, resultVars, childVars
<1>2. status = "RUNNING" /\ \A v \in Owners \ {w} : pc[v] = "idle" /\ pc'[v] = "idle"
  BY <1>1, Alone, OthersKeep DEF RowWrite
<1>3. \/ pc'[w] = "finishRead" /\ end'[w].status = "FAILED"
      \/ pc'[w] = "ask" /\ retries_used + 1 <= MaxRunRetries
  BY DEF RecordRetry, Conclude, Goto, Failed, LoopInv, TypeOK
<1>4. Conversation' = Conversation /\ Answered' = Answered
  BY <1>1 DEF Conversation, StoredConversation, MessageCount, Answered
<1>5. RemembersStore(w)' /\ EndsTruly(w)'
  <2>1. RemembersStore(w)
    BY DEF OutcomeInv
  <2> QED BY <1>1, <1>3, <1>4, <2>1 DEF RemembersStore, EndsTruly
<1>6. \A v \in Owners : RemembersStore(v)' /\ EndsTruly(v)'
  BY <1>2, <1>5, IdleIsTrue
<1>7. StatusIsTrue' /\ CompletedIsAnswered' /\ StepCapHolds' /\ BudgetOvershootBounded'
  BY <1>1 DEF OutcomeInv, StatusIsTrue, CompletedIsAnswered, StepCapHolds,
     BudgetOvershootBounded
<1>8. ~Finishing /\ status \notin Terminal
  BY <1>1, <1>2 DEF Finishing, Terminal
<1>9. RetryRoom'
  <2>1. retries_used \in Nat /\ faults \in Nat /\ retries_used <= MaxRunRetries + faults
    BY <1>8 DEF OutcomeInv, RetryRoom, LoopInv, TypeOK, StoreTypeOK
  <2>2. CASE pc'[w] = "finishRead"
    <3>1. Finishing'
      BY <2>2 DEF Finishing
    <3>2. retries_used' <= MaxRunRetries + 1 + faults'
      BY ONLY <1>1, <2>1, LimitsAssumption
    <3> QED BY <3>1, <3>2 DEF RetryRoom
  <2>3. CASE retries_used + 1 <= MaxRunRetries
    <3>1. retries_used' <= MaxRunRetries + faults'
      BY ONLY <1>1, <2>1, <2>3, LimitsAssumption
    <3> QED BY <3>1 DEF RetryRoom
  <2> QED BY <1>3, <2>2, <2>3
<1> QED BY <1>6, <1>7, <1>9 DEF OutcomeInv

\* A driver that pauses or dies: the run is as before, with nobody driving it.
LEMMA GoneOutcome ==
    ASSUME LoopInv, FencedInv, OutcomeInv, NEW w \in Owners, Pause(w) \/ Crash(w)
    PROVE  OutcomeInv'
<1>1. /\ pc[w] # "idle" /\ pc' = [pc EXCEPT ![w] = "idle"]
      /\ UNCHANGED <<steps_taken, tokens, retries_used, output, error_code, steps>>
  BY DEF Pause, Crash, release, Leave, Goto, storeVars, countVars, resultVars, childVars
<1>2. status = "RUNNING" /\ lease_owner = w /\ \A v \in Owners \ {w} : pc[v] = "idle"
  BY <1>1, Alone
<1>3. \A v \in Owners : pc'[v] = "idle"
  BY <1>1, <1>2 DEF LoopInv, TypeOK
<1>4. \A v \in Owners : RemembersStore(v)' /\ EndsTruly(v)'
  BY <1>3, IdleIsTrue
<1>5. status' \in {"RUNNING", "PAUSED"} /\ (live' => status' = "RUNNING")
  BY <1>2 DEF Pause, Crash, release, storeVars, leaseVars
<1>6. StatusIsTrue' /\ CompletedIsAnswered'
  BY <1>1, <1>2, <1>5 DEF OutcomeInv, StatusIsTrue, CompletedIsAnswered, Terminal
<1>7. StepCapHolds' /\ BudgetOvershootBounded'
  BY <1>1 DEF OutcomeInv, StepCapHolds, BudgetOvershootBounded
<1>8. /\ RetryRoom /\ status \notin Terminal
      /\ retries_used \in Nat /\ faults \in Nat
  BY <1>2 DEF OutcomeInv, LoopInv, TypeOK, StoreTypeOK, Terminal
<1>9. CASE Crash(w)
  <2>1. faults' = faults + 1
    BY <1>9 DEF Crash
  <2>2. retries_used <= MaxRunRetries + 1 + faults
    BY ONLY <1>8, LimitsAssumption DEF RetryRoom
  <2>3. retries_used' <= MaxRunRetries + faults'
    BY ONLY <1>1, <1>8, <2>1, <2>2, LimitsAssumption
  <2>4. RetryRoom'
    BY <2>3 DEF RetryRoom
  <2> QED BY <1>4, <1>6, <1>7, <2>4 DEF OutcomeInv
<1>10. CASE Pause(w)
  <2>1. faults' = faults /\ pc[w] = "pause"
    BY <1>10 DEF Pause
  <2>2. ~Finishing
    BY <1>2, <2>1 DEF Finishing
  <2>3. retries_used' <= MaxRunRetries + faults'
    BY <1>1, <1>8, <2>1, <2>2 DEF RetryRoom
  <2>4. RetryRoom'
    BY <2>3 DEF RetryRoom
  <2> QED BY <1>4, <1>6, <1>7, <2>4 DEF OutcomeInv
<1> QED BY <1>9, <1>10

\* finish: the run ends as its driver decided.
LEMMA FinishOutcome ==
    ASSUME LoopInv, FencedInv, OutcomeInv, NEW w \in Owners, FinishWrite(w)
    PROVE  /\ OutcomeInv'
           /\ status = "RUNNING" /\ lease_owner = w /\ live
           /\ ~live' /\ UNCHANGED <<steps_taken, steps>>
           /\ end[w] \in Ends /\ status' = end[w].status
           /\ output = Null /\ output' = end[w].output
           /\ error_code = Null /\ error_code' = end[w].error_code
<1>1. /\ pc[w] = "finishWrite" /\ finish(end[w], snap[w]) /\ faults' = faults
      /\ pc' = [pc EXCEPT ![w] = "idle"]
  BY DEF FinishWrite, Leave, Goto
<1>2. /\ status = "RUNNING" /\ lease_owner = w /\ live
      /\ \A v \in Owners \ {w} : pc[v] = "idle"
  BY <1>1, Alone
<1>3. \A v \in Owners : pc'[v] = "idle"
  BY <1>1, <1>2 DEF LoopInv, TypeOK
<1>4. end[w] \in Ends /\ snap[w] = FinishSnapshot
  BY <1>1 DEF LoopInv, MemoryReady, OutcomeInv, EndsTruly
<1>5. output = Null /\ error_code = Null
  BY <1>2 DEF OutcomeInv, StatusIsTrue, Terminal
<1>6. /\ snap[w].status = "RUNNING" /\ snap[w].lease_owner = w
      /\ snap[w].output = Null /\ snap[w].error_code = Null
  BY <1>2, <1>4, <1>5 DEF FinishSnapshot
<1>7. /\ status' = end[w].status /\ output' = end[w].output
      /\ error_code' = end[w].error_code /\ live' = FALSE
  BY <1>1, <1>2, <1>5, <1>6 DEF finish, Updated
<1>8. UNCHANGED <<steps_taken, tokens, retries_used, steps>>
  BY <1>1 DEF finish, countVars, childVars
<1>9. /\ end[w].status \in Terminal
      /\ end[w].status = "COMPLETED" => end[w].error_code = Null
  BY <1>4 DEF Ends, Terminal
<1>10. \A v \in Owners : RemembersStore(v)' /\ EndsTruly(v)'
  BY <1>3, IdleIsTrue
<1>11. StatusIsTrue'
  BY <1>7, <1>9 DEF StatusIsTrue
<1>12. CompletedIsAnswered'
  <2>1. end[w].status = "COMPLETED" =>
          Answered /\ end[w].output = steps[steps_taken - 1].body
    BY <1>1 DEF OutcomeInv, EndsTruly
  <2> QED BY <1>7, <1>8, <1>9, <2>1 DEF CompletedIsAnswered, Answered
<1>13. StepCapHolds' /\ BudgetOvershootBounded'
  BY <1>8 DEF OutcomeInv, StepCapHolds, BudgetOvershootBounded
<1>14. RetryRoom'
  <2>1. RetryRoom /\ retries_used \in Nat /\ faults \in Nat
    BY DEF OutcomeInv, LoopInv, TypeOK, StoreTypeOK
  <2>2. retries_used <= MaxRunRetries + 1 + faults
    BY ONLY <2>1, LimitsAssumption DEF RetryRoom
  <2> QED BY <1>1, <1>7, <1>8, <1>9, <2>2 DEF RetryRoom
<1>15. OutcomeInv'
  BY <1>10, <1>11, <1>12, <1>13, <1>14 DEF OutcomeInv
<1> QED BY <1>2, <1>4, <1>5, <1>7, <1>8, <1>15

\* A driver's commit never conflicts: nobody else has stored its step.
LEMMA DriverCommitLands ==
    ASSUME LoopInv, OutcomeInv, NEW w \in Owners, CommitWrite(w)
    PROVE  Lands(w)
<1>1. pc[w] = "commitWrite"
  BY DEF CommitWrite
<1>2. nsteps[w] = steps_taken
  BY <1>1 DEF OutcomeInv, RemembersStore
<1> QED BY <1>1, <1>2, ConflictMeansTaken DEF Lands

\* commit_step: the step, its messages and the counters are what the driver holds.
LEMMA CommitOutcome ==
    ASSUME LoopInv, FencedInv, LedgerInv, OutcomeInv, NEW w \in Owners, CommitWrite(w)
    PROVE  OutcomeInv'
<1>1. Lands(w)
  BY DriverCommitLands
<1>2. /\ reply[w] \in Replies
      /\ steps_taken' = steps_taken + 1 /\ tokens' = tokens + reply[w].cost
      /\ steps'[steps_taken] = reply[w]
  BY <1>1, CommitStores DEF Lands
<1>3. StoredConversation' = Conversation \o TurnsOf(reply[w])
  BY <1>1, LandsExtends DEF LedgerInv
<1>4. /\ pc[w] = "commitWrite" /\ faults' = faults /\ nsteps' = nsteps /\ usage' = usage
      /\ conv' = conv /\ reply' = reply /\ pc' = [pc EXCEPT ![w] = "renew"]
      /\ UNCHANGED <<live, retries_used, output, error_code>>
  BY <1>1 DEF Lands, CommitWrite, insertStep, Goto, leaseVars, resultVars
<1>5. status = "RUNNING" /\ \A v \in Owners \ {w} : pc[v] = "idle" /\ pc'[v] = "idle"
  BY <1>4, Alone, OthersKeep
<1>6. status' = "RUNNING"
  BY <1>1, <1>5 DEF Lands, CommitWrite, insertStep
<1>7. pc'[w] = "renew"
  BY <1>4 DEF LoopInv, TypeOK
<1>8. /\ nsteps[w] = steps_taken /\ steps_taken < MaxSteps
      /\ usage[w] = [steps |-> steps_taken + 1, tokens |-> tokens + reply[w].cost]
      /\ tokens + reply[w].cost <= TokenBudget + MaxInputTokens
      /\ conv[w] = Conversation \o TurnsOf(reply[w])
  BY <1>4 DEF OutcomeInv, RemembersStore
<1>9. RemembersStore(w)' /\ EndsTruly(w)'
  <2>1. /\ usage'[w] = [steps |-> steps_taken', tokens |-> tokens']
        /\ nsteps'[w] + 1 = steps_taken' /\ steps'[nsteps'[w]] = reply'[w]
        /\ conv'[w] = StoredConversation'
    BY <1>2, <1>3, <1>4, <1>8
  <2> QED BY <1>7, <2>1 DEF RemembersStore, EndsTruly
<1>10. \A v \in Owners : RemembersStore(v)' /\ EndsTruly(v)'
  BY <1>5, <1>9, IdleIsTrue
<1>11. StatusIsTrue' /\ CompletedIsAnswered'
  BY <1>4, <1>5, <1>6 DEF OutcomeInv, StatusIsTrue, CompletedIsAnswered, Terminal
<1>12. StepCapHolds' /\ BudgetOvershootBounded'
  <2>1. steps_taken \in Nat
    BY DEF LoopInv, TypeOK, StoreTypeOK
  <2> QED BY <1>2, <1>8, <2>1 DEF StepCapHolds, BudgetOvershootBounded
<1>13. RetryRoom'
  <2>1. ~Finishing /\ status \notin Terminal
    BY <1>4, <1>5 DEF Finishing, Terminal
  <2> QED BY <1>4, <2>1 DEF OutcomeInv, RetryRoom
<1> QED BY <1>10, <1>11, <1>12, <1>13 DEF OutcomeInv

\* A lease that runs out is a dead worker's: nothing else changes.
LEMMA ExpiryOutcome ==
    ASSUME OutcomeInv, LeaseExpires \/ UNCHANGED vars
    PROVE  OutcomeInv'
<1>1. /\ UNCHANGED <<status, lease_owner, steps_taken, tokens, retries_used, output,
                     error_code, steps, messages, pc, nsteps, usage, conv, reply, snap,
                     end, faults>>
      /\ live' => live
  BY DEF LeaseExpires, expire, vars, storeVars, leaseVars, countVars, resultVars,
     childVars, memoryVars
<1>2. /\ Conversation' = Conversation /\ StoredConversation' = StoredConversation
      /\ FinishSnapshot' = FinishSnapshot /\ Answered' = Answered /\ Finishing' = Finishing
  BY <1>1 DEF Conversation, StoredConversation, MessageCount, FinishSnapshot, Answered,
     Finishing
<1>3. ASSUME NEW w \in Owners PROVE RemembersStore(w)' /\ EndsTruly(w)'
  <2>1. RemembersStore(w) /\ EndsTruly(w)
    BY DEF OutcomeInv
  <2>2. RemembersStore(w)'
    BY <1>1, <1>2, <2>1 DEF RemembersStore
  <2>3. EndsTruly(w)'
    BY <1>1, <1>2, <2>1 DEF EndsTruly
  <2> QED BY <2>2, <2>3
<1>4. StatusIsTrue' /\ CompletedIsAnswered' /\ StepCapHolds' /\ BudgetOvershootBounded'
  BY <1>1 DEF OutcomeInv, StatusIsTrue, CompletedIsAnswered, StepCapHolds,
     BudgetOvershootBounded
<1>5. RetryRoom'
  BY <1>1, <1>2 DEF OutcomeInv, RetryRoom
<1> QED BY <1>3, <1>4, <1>5 DEF OutcomeInv

\* Every step preserves the invariant, unless a lease runs out under a driver.
LEMMA OutcomeStep ==
    ASSUME ~LeasesCanLapse, LoopInv, FencedInv, LedgerInv, OutcomeInv, [Next]_vars
    PROVE  OutcomeInv'
<1>1. ASSUME NEW w \in Owners, Claim(w) \/ Drive(w) \/ Crash(w)
      PROVE  OutcomeInv'
  <2>1. \/ QuietStep(w) \/ Claim(w) \/ RecordRetry(w) \/ CommitWrite(w)
        \/ Pause(w) \/ Crash(w) \/ FinishWrite(w)
    BY <1>1 DEF Drive, QuietStep
  <2> QED BY <2>1, QuietOutcome, ClaimOutcome, RetryOutcome, CommitOutcome, GoneOutcome,
             FinishOutcome
<1>2. ~LeaseLapses
  BY DEF LeaseLapses
<1> QED BY <1>1, <1>2, ExpiryOutcome DEF Next, Over

\* The invariant holds in every reachable state when no lease can lapse.
THEOREM OutcomeInvariant ==
    ASSUME ~LeasesCanLapse
    PROVE  Spec => []OutcomeInv
<1>1. Init => OutcomeInv
  <2> SUFFICES ASSUME Init PROVE OutcomeInv
    OBVIOUS
  <2>1. /\ status = "QUEUED" /\ ~live /\ steps_taken = 0 /\ tokens = 0 /\ retries_used = 0
        /\ output = Null /\ error_code = Null /\ faults = 0
        /\ \A w \in Owners : pc[w] = "idle"
    BY DEF Init, Created
  <2>2. \A w \in Owners : RemembersStore(w) /\ EndsTruly(w)
    BY <2>1, IdleIsTrue
  <2>3. StatusIsTrue /\ CompletedIsAnswered
    BY <2>1 DEF StatusIsTrue, CompletedIsAnswered
  <2>4. RetryRoom /\ StepCapHolds /\ BudgetOvershootBounded
    BY <2>1 DEF RetryRoom, StepCapHolds, BudgetOvershootBounded
  <2> QED BY <2>2, <2>3, <2>4 DEF OutcomeInv
<1>2. LoopInv /\ FencedInv /\ LedgerInv /\ OutcomeInv /\ [Next]_vars => OutcomeInv'
  BY OutcomeStep
<1> QED BY <1>1, <1>2, LoopInvariant, FencedInvariant, LedgerInvariant, PTL DEF Spec

-----------------------------------------------------------------------------
(* What follows of the run's limits and of its answer.                     *)

\* Without lapses no run stores more steps than max_steps, over any number of
\* workers, crashes and resumes: the check is made on what is stored.
THEOREM StepCapIsKept ==
    ASSUME ~LeasesCanLapse
    PROVE  Spec => []StepCapHolds
<1>1. OutcomeInv => StepCapHolds
  BY DEF OutcomeInv
<1> QED BY <1>1, OutcomeInvariant, PTL

\* Without lapses the token budget is overshot by at most the input tokens of a
\* single request.
THEOREM OvershootIsBounded ==
    ASSUME ~LeasesCanLapse
    PROVE  Spec => []BudgetOvershootBounded
<1>1. OutcomeInv => BudgetOvershootBounded
  BY DEF OutcomeInv
<1> QED BY <1>1, OutcomeInvariant, PTL

\* Without lapses the durable retry counter exceeds its limit by the charge that
\* ends the run and by one more for each crash, however often the run is resumed.
THEOREM RetriesAreBounded ==
    ASSUME ~LeasesCanLapse
    PROVE  Spec => []RetriesBounded
<1>1. LoopInv /\ OutcomeInv => RetriesBounded
  <2> SUFFICES ASSUME LoopInv, OutcomeInv PROVE RetriesBounded
    OBVIOUS
  <2>1. RetryRoom /\ retries_used \in Nat /\ faults \in Nat
    BY DEF OutcomeInv, LoopInv, TypeOK, StoreTypeOK
  <2> QED BY ONLY <2>1, LimitsAssumption DEF RetryRoom, RetriesBounded
<1> QED BY <1>1, LoopInvariant, OutcomeInvariant, PTL

\* Without lapses a COMPLETED run ends with an end_turn step, and its output is
\* the body of that step.
THEOREM CompletedRunsAreAnswered ==
    ASSUME ~LeasesCanLapse
    PROVE  Spec => []CompletedIsAnswered
<1>1. OutcomeInv => CompletedIsAnswered
  BY DEF OutcomeInv
<1> QED BY <1>1, OutcomeInvariant, PTL

-----------------------------------------------------------------------------
(* The store replays what happened.                                        *)

\* Without lapses no step is stored late: whoever commits holds the lease.
LEMMA NothingIsLate ==
    ASSUME ~LeasesCanLapse
    PROVE  Spec => [](lateSteps = {})
<1>1. Init => lateSteps = {}
  BY DEF Init
<1>2. FencedInv /\ lateSteps = {} /\ [Next]_vars => (lateSteps = {})'
  <2> SUFFICES ASSUME FencedInv, lateSteps = {}, [Next]_vars PROVE lateSteps' = {}
    OBVIOUS
  <2>1. ASSUME NEW w \in Owners, CommitWrite(w) PROVE lateSteps' = {}
    <3>1. HoldsLease(w)
      BY <2>1 DEF CommitWrite, FencedInv, DriverHoldsLease
    <3> QED BY <2>1, <3>1 DEF CommitWrite, historyVars
  <2>2. CASE ~\E w \in Owners : CommitWrite(w)
    BY <2>2, HistoryKept DEF Lands
  <2> QED BY <2>1, <2>2
<1> QED BY <1>1, <1>2, FencedInvariant, PTL DEF Spec

\* Without lapses every stored step answers exactly the conversation stored before
\* it: what a worker resumes from the store is what happened.
THEOREM ReplayIsFaithful ==
    ASSUME ~LeasesCanLapse
    PROVE  Spec => []ReplayFidelity
<1>1. lateSteps = {} /\ DivergesOnlyAfterLateStep => ReplayFidelity
  BY DEF DivergesOnlyAfterLateStep, ReplayFidelity
<1> QED BY <1>1, NothingIsLate, DivergenceHasALateCause, PTL

-----------------------------------------------------------------------------
(* The run as RunLifecycle sees it.                                        *)

\* The driver and the history of the abstract run.
Driver == IF live THEN lease_owner ELSE Nobody
History == [i \in 1..steps_taken |-> steps[i - 1]]

\* The history is a sequence, as long as steps_taken, ending with the last row.
LEMMA HistoryIs ==
    ASSUME LoopInv
    PROVE  /\ History \in Seq(Replies) /\ Len(History) = steps_taken
           /\ steps_taken > 0 => History # <<>> /\ History[Len(History)] = steps[steps_taken - 1]
<1>1. /\ steps_taken \in Nat /\ DOMAIN steps = 0..(steps_taken - 1)
      /\ \A i \in DOMAIN steps : steps[i] \in Replies
  BY DEF LoopInv, TypeOK, StoreTypeOK, RowsContiguous
<1>2. \A i \in 1..steps_taken : i - 1 \in 0..(steps_taken - 1)
  BY <1>1
<1>3. History \in [1..steps_taken -> Replies]
  BY <1>1, <1>2 DEF History
<1>4. History \in Seq(Replies)
  BY <1>1, <1>3, SeqDef
<1>5. Len(History) = steps_taken
  BY <1>1, <1>3, <1>4, LenProperties
<1>6. ASSUME steps_taken > 0
      PROVE  History # <<>> /\ History[Len(History)] = steps[steps_taken - 1]
  <2>1. Len(<<>>) = 0
    OBVIOUS
  <2>2. steps_taken \in 1..steps_taken
    BY <1>1, <1>6
  <2> QED BY <1>1, <1>5, <1>6, <2>1, <2>2 DEF History
<1> QED BY <1>4, <1>5, <1>6

\* A stored step is the next one of the history.
LEMMA HistoryExtends ==
    ASSUME LoopInv, NEW w \in Owners, Lands(w)
    PROVE  History' = Append(History, reply[w])
<1>1. /\ steps_taken' = steps_taken + 1
      /\ \A i \in 0..(steps_taken - 1) : steps'[i] = steps[i]
      /\ steps'[steps_taken] = reply[w]
  BY CommitStores DEF Lands
<1>2. steps_taken \in Nat
  BY DEF LoopInv, TypeOK, StoreTypeOK
<1>3. History \in Seq(Replies) /\ Len(History) = steps_taken
  BY HistoryIs
<1> DEFINE h == History
           n == steps_taken
           r == reply[w]
           table == steps'
           longer == [i \in 1..(n + 1) |-> table[i - 1]]
<1>4. \A i \in 1..n : h[i] = table[i - 1]
  <2> SUFFICES ASSUME NEW i \in 1..n PROVE h[i] = table[i - 1]
    OBVIOUS
  <2>1. i - 1 \in 0..(n - 1)
    BY <1>2
  <2> QED BY <1>1, <2>1 DEF History
<1>5. table[n] = r
  BY <1>1
<1>6. History' = longer
  BY <1>1 DEF History
<1> HIDE DEF h, n, r, table
<1>7. h \in Seq(Replies) /\ Len(h) = n /\ n \in Nat /\ r \in Replies
  BY <1>2, <1>3, CommitStores DEF h, n, r, Lands
<1>8. Append(h, r) = [i \in 1..(n + 1) |-> IF i = n + 1 THEN r ELSE h[i]]
  <2> DEFINE a == Append(h, r)
  <2>1. /\ a \in Seq(Replies) /\ Len(a) = n + 1 /\ a[n + 1] = r
        /\ \A i \in 1..n : a[i] = h[i]
    BY <1>7, AppendProperties
  <2> HIDE DEF a
  <2>2. a \in [1..(n + 1) -> Replies]
    BY <2>1, LenProperties
  <2>3. \A i \in 1..(n + 1) : a[i] = IF i = n + 1 THEN r ELSE h[i]
    BY ONLY <1>7, <2>1
  <2>4. a = [i \in 1..(n + 1) |-> IF i = n + 1 THEN r ELSE h[i]]
    BY ONLY <2>2, <2>3
  <2> QED BY <2>4 DEF a
<1>9. \A i \in 1..(n + 1) : table[i - 1] = IF i = n + 1 THEN r ELSE h[i]
  BY ONLY <1>4, <1>5, <1>7
<1>10. longer = Append(h, r)
  BY <1>8, <1>9
<1> QED BY <1>6, <1>10 DEF h, r

\* What the lifecycle sees is what the store holds.
LEMMA View ==
    /\ Lifecycle!lifecycleVars = <<status, Driver, History, output, error_code>>
    /\ Lifecycle!lifecycleVars' = <<status', Driver', History', output', error_code'>>
BY DEF Lifecycle!lifecycleVars, Driver, History

\* A step that changes neither status nor lease, rows nor result is not seen.
LEMMA Unseen ==
    ASSUME UNCHANGED <<status, lease_owner, live, steps_taken, steps, output, error_code>>
    PROVE  UNCHANGED Lifecycle!lifecycleVars
BY View DEF Driver, History

\* Claiming picks the run up.
LEMMA ClaimPicksUp ==
    ASSUME NEW w \in Owners, Claim(w)
    PROVE  Lifecycle!PickUp(w)
<1>1. /\ status \in Resumable /\ (lease_owner = Nobody \/ ~live)
      /\ status' = "RUNNING" /\ lease_owner' = w /\ live' = TRUE
      /\ UNCHANGED <<steps_taken, steps, output, error_code>>
  BY DEF Claim, claim, countVars, resultVars, childVars
<1>2. Driver = Nobody /\ Driver' = w /\ History' = History
  BY <1>1 DEF Driver, History
<1> QED BY <1>1, <1>2 DEF Lifecycle!PickUp, Driver, History, Resumable

\* Storing a step takes it.
LEMMA CommitTakesStep ==
    ASSUME LoopInv, FencedInv, OutcomeInv, NEW w \in Owners, CommitWrite(w)
    PROVE  \E step \in Replies : Lifecycle!TakeStep(step)
<1>1. Lands(w)
  BY DriverCommitLands
<1>2. status = "RUNNING" /\ lease_owner = w /\ live
  BY Alone DEF CommitWrite
<1>3. status' = "RUNNING" /\ UNCHANGED <<lease_owner, live, output, error_code>>
  BY <1>1, <1>2 DEF Lands, CommitWrite, insertStep, leaseVars, resultVars
<1>4. PICK step \in Replies : step = reply[w]
  BY <1>1, CommitStores DEF Lands
<1>5. History' = Append(History, step)
  BY <1>1, <1>4, HistoryExtends
<1>6. Driver # Nobody /\ Driver' = Driver
  BY <1>2, <1>3 DEF Driver
<1>7. Lifecycle!TakeStep(step)
  BY <1>2, <1>3, <1>5, <1>6 DEF Lifecycle!TakeStep, Driver, History
<1> QED BY <1>7

\* Pausing lets the run go.
LEMMA PauseLetsGo ==
    ASSUME FencedInv, NEW w \in Owners, Pause(w)
    PROVE  Lifecycle!LetGo("PAUSED")
<1>1. lease_owner = w /\ live
  BY Alone DEF Pause
<1>2. /\ status' = "PAUSED" /\ live' = FALSE
      /\ UNCHANGED <<steps_taken, steps, output, error_code>>
  BY <1>1 DEF Pause, release, countVars, resultVars, childVars
<1>3. Driver # Nobody /\ Driver' = Nobody /\ History' = History
  BY <1>1, <1>2 DEF Driver, History
<1> QED BY <1>2, <1>3 DEF Lifecycle!LetGo, Driver, History

\* A dead worker's lease that runs out lets the run go.
LEMMA ExpiryLetsGo ==
    ASSUME LoopInv, OutcomeInv, LeaseExpires
    PROVE  Lifecycle!LetGo("RUNNING")
<1>1. /\ live /\ ~live' /\ status = "RUNNING" /\ status' = status /\ lease_owner # Nobody
      /\ UNCHANGED <<steps_taken, steps, output, error_code>>
  BY DEF LeaseExpires, expire, OutcomeInv, StatusIsTrue, countVars, resultVars, childVars
<1>2. Driver # Nobody /\ Driver' = Nobody /\ History' = History
  BY <1>1 DEF Driver, History
<1> QED BY <1>1, <1>2 DEF Lifecycle!LetGo, Driver, History

\* finish completes the run with its answer, or fails it with a reason.
LEMMA FinishEnds ==
    ASSUME LoopInv, FencedInv, OutcomeInv, NEW w \in Owners, FinishWrite(w)
    PROVE  Lifecycle!Complete \/ \E reason \in ErrorCodes : Lifecycle!Fail(reason)
<1>1. /\ status = "RUNNING" /\ lease_owner = w /\ live
      /\ ~live' /\ UNCHANGED <<steps_taken, steps>>
      /\ end[w] \in Ends /\ status' = end[w].status
      /\ output = Null /\ output' = end[w].output
      /\ error_code = Null /\ error_code' = end[w].error_code
  BY FinishOutcome
<1>2. Driver # Nobody /\ Driver' = Nobody /\ History' = History
  BY <1>1 DEF Driver, History
<1>3. CASE end[w].status = "COMPLETED"
  <2>1. Answered /\ end[w].output = steps[steps_taken - 1].body
    BY <1>3 DEF FinishWrite, OutcomeInv, EndsTruly
  <2>2. end[w].error_code = Null
    BY <1>1, <1>3 DEF Ends
  <2>3. /\ History # <<>> /\ History[Len(History)].stop = "end_turn"
        /\ end[w].output = History[Len(History)].body
    BY <2>1, HistoryIs DEF Answered
  <2>4. Lifecycle!Complete
    BY <1>1, <1>2, <1>3, <2>2, <2>3 DEF Lifecycle!Complete, Driver, History
  <2> QED BY <2>4
<1>4. CASE end[w].status # "COMPLETED"
  <2>1. end[w].status = "FAILED" /\ end[w].output = Null /\ end[w].error_code \in ErrorCodes
    BY <1>1, <1>4 DEF Ends
  <2>2. Lifecycle!Fail(end[w].error_code)
    BY <1>1, <1>2, <2>1 DEF Lifecycle!Fail, Driver, History
  <2> QED BY <2>1, <2>2
<1> QED BY <1>3, <1>4

\* Every step is one of the lifecycle's, or is not seen.
LEMMA LifecycleStep ==
    ASSUME ~LeasesCanLapse, LoopInv, FencedInv, OutcomeInv, [Next]_vars
    PROVE  [Lifecycle!Next]_Lifecycle!lifecycleVars
<1>1. ASSUME NEW w \in Owners, Claim(w) \/ Drive(w) \/ Crash(w)
      PROVE  Lifecycle!Next \/ UNCHANGED Lifecycle!lifecycleVars
  <2>1. CASE Claim(w)
    BY <2>1, ClaimPicksUp DEF Lifecycle!Next
  <2>2. CASE CommitWrite(w)
    BY <2>2, CommitTakesStep DEF Lifecycle!Next
  <2>3. CASE Pause(w)
    BY <2>3, PauseLetsGo DEF Lifecycle!Next
  <2>4. CASE FinishWrite(w)
    BY <2>4, FinishEnds DEF Lifecycle!Next
  <2>5. CASE QuietStep(w) \/ Crash(w)
    <3>1. UNCHANGED storeVars
      BY <2>5, QuietActions DEF Crash
    <3> QED BY <3>1, StoreKept, Unseen
  <2>6. CASE RecordRetry(w)
    <3>1. UNCHANGED <<status, lease_owner, live, steps_taken, steps, output, error_code>>
      BY <2>6 DEF RecordRetry, record_retry, leaseVars, countVars, resultVars, childVars
    <3> QED BY <3>1, Unseen
  <2> QED BY <1>1, <2>1, <2>2, <2>3, <2>4, <2>5, <2>6 DEF Drive, QuietStep
<1>2. CASE LeaseExpires
  BY <1>2, ExpiryLetsGo DEF Lifecycle!Next
<1>3. ~LeaseLapses
  BY DEF LeaseLapses
<1>4. CASE UNCHANGED vars
  <2>1. UNCHANGED storeVars
    BY <1>4 DEF vars
  <2> QED BY <2>1, StoreKept, Unseen
<1> QED BY <1>1, <1>2, <1>3, <1>4 DEF Next, Over

\* Without lapses the workers, the store and its leases implement RunLifecycle: one
\* driver at a time, a history that only it extends, and an end that is final.
THEOREM LoopImplementsLifecycle ==
    ASSUME ~LeasesCanLapse
    PROVE  Spec => ImplementsLifecycle
<1>1. Init => Lifecycle!Init
  <2> SUFFICES ASSUME Init PROVE Lifecycle!Init
    OBVIOUS
  <2>1. /\ status = "QUEUED" /\ ~live /\ steps_taken = 0
        /\ output = Null /\ error_code = Null
    BY DEF Init, Created
  <2>2. [i \in 1..0 |-> steps[i - 1]] = <<>>
    OBVIOUS
  <2> QED BY <2>1, <2>2 DEF Lifecycle!Init, Lifecycle!Nothing, Null
<1>2. LoopInv /\ FencedInv /\ OutcomeInv /\ [Next]_vars
        => [Lifecycle!Next]_Lifecycle!lifecycleVars
  BY LifecycleStep
<1> QED BY <1>1, <1>2, LoopInvariant, FencedInvariant, OutcomeInvariant, PTL
        DEF Spec, ImplementsLifecycle, Lifecycle!Spec

=============================================================================
