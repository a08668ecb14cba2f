------------------------ MODULE AgentLoopFencedProofs ------------------------
(***************************************************************************)
(* What the lease buys: as long as no lease runs out under the worker that *)
(* drives the run, a run that has ended stays as it is and holds no lease, *)
(* whatever crashes and restarts there are.                                *)
(***************************************************************************)
EXTENDS AgentLoopProofs

\* A step that leaves the run's status and lease alone, and no worker driving
\* that was not.
LEMMA QuietFenced ==
    ASSUME LoopInv, FencedInv, NEW w \in Owners, QuietStep(w)
    PROVE  FencedInv'
<1> USE DEF LoopInv, FencedInv, TypeOK
<1>1. storeVars' = storeVars
  BY DEF QuietStep, LoadRun, LoadSteps, LoadMessages, PolicyCheck, Respond,
     FailStep, ToolInFlight, RequestError, AttemptFails, CommitRead, CommitCount,
     Renew, FinishRead
<1>2. status' = status /\ lease_owner' = lease_owner /\ live' = live
  BY <1>1 DEF storeVars, leaseVars
<1>3. pc[w] # "idle"
  BY DEF QuietStep, LoadRun, LoadSteps, LoadMessages, PolicyCheck, Respond,
     FailStep, ToolInFlight, RequestError, AttemptFails, CommitRead, CommitCount,
     Renew, FinishRead
<1>4. \A v \in Owners \ {w} : pc'[v] = pc[v] /\ snap'[v] = snap[v]
  BY DEF QuietStep, LoadRun, LoadSteps, LoadMessages, PolicyCheck, Respond,
     FailStep, ToolInFlight, RequestError, AttemptFails, CommitRead, CommitCount,
     Renew, FinishRead, Leave, Conclude, Goto, memoryVars
<1>5. DriverHoldsLease'
  BY <1>2, <1>3, <1>4 DEF DriverHoldsLease, HoldsLease
<1>6. pc'[w] = "finishWrite" => snap'[w].lease_owner = w
  <2>1. CASE FinishRead(w)
    <3>1. snap'[w] = FinishSnapshot
      BY <2>1 DEF FinishRead
    <3>2. lease_owner = w
      BY <1>3 DEF DriverHoldsLease, HoldsLease
    <3> QED BY <3>1, <3>2 DEF FinishSnapshot
  <2>2. CASE ~FinishRead(w)
    <3>1. pc'[w] # "finishWrite"
      BY <2>2 DEF QuietStep, LoadRun, LoadSteps, LoadMessages, PolicyCheck,
         Respond, FailStep, ToolInFlight, RequestError, AttemptFails, CommitRead,
         CommitCount, Renew, Leave, Conclude, Goto
    <3> QED BY <3>1
  <2> QED BY <2>1, <2>2
<1>7. FinishKnowsOwner'
  BY <1>4, <1>6 DEF FinishKnowsOwner
<1>8. TerminalHoldsNoLease'
  BY <1>2 DEF TerminalHoldsNoLease
<1> QED BY <1>5, <1>7, <1>8

\* Claiming needs a lease that is free or has run out, so nobody is driving.
LEMMA ClaimFenced ==
    ASSUME LoopInv, FencedInv, NEW w \in Owners, Claim(w)
    PROVE  FencedInv'
<1> USE DEF LoopInv, FencedInv, TypeOK
<1>1. /\ lease_owner' = w /\ live' = TRUE /\ status' = "RUNNING"
      /\ pc' = [pc EXCEPT ![w] = "loadRun"] /\ snap' = snap
      /\ lease_owner = Nobody \/ ~live
  BY DEF Claim, claim, Goto, memoryVars
<1>2. \A v \in Owners : pc[v] = "idle"
  BY <1>1, NobodyAssumption DEF DriverHoldsLease, HoldsLease
<1> QED
  BY <1>1, <1>2 DEF DriverHoldsLease, FinishKnowsOwner, TerminalHoldsNoLease,
     HoldsLease, Terminal

\* A worker that finishes, pauses or dies leaves nobody driving.
LEMMA LeaveFenced ==
    ASSUME LoopInv, FencedInv, NEW w \in Owners,
           FinishWrite(w) \/ Pause(w) \/ Crash(w)
    PROVE  FencedInv'
<1> USE DEF LoopInv, FencedInv, TypeOK
<1>1. /\ pc[w] # "idle"
      /\ pc' = [pc EXCEPT ![w] = "idle"]
      /\ lease_owner = w /\ live /\ status = "RUNNING"
  BY DEF FinishWrite, Pause, Crash, Leave, Goto, DriverHoldsLease, HoldsLease
<1>2. \A v \in Owners : pc'[v] = "idle"
  BY <1>1 DEF DriverHoldsLease, HoldsLease
<1>3. DriverHoldsLease' /\ FinishKnowsOwner'
  BY <1>2 DEF DriverHoldsLease, FinishKnowsOwner
<1>4. TerminalHoldsNoLease'
  <2>1. CASE FinishWrite(w)
    <3>1. snap[w].lease_owner = w
      BY <2>1 DEF FinishWrite, FinishKnowsOwner
    <3>2. lease_owner' = Nobody
      BY <2>1, <3>1, NobodyAssumption DEF FinishWrite, finish, Updated
    <3> QED BY <3>2 DEF TerminalHoldsNoLease
  <2>2. CASE Pause(w)
    BY <1>1, <2>2 DEF Pause, release, TerminalHoldsNoLease, Terminal
  <2>3. CASE Crash(w)
    BY <1>1, <2>3 DEF Crash, storeVars, TerminalHoldsNoLease, Terminal
  <2> QED BY <2>1, <2>2, <2>3
<1> QED BY <1>3, <1>4

\* record_retry and commit_step touch neither the lease nor a RUNNING status.
LEMMA ChargeFenced ==
    ASSUME LoopInv, FencedInv, NEW w \in Owners, RecordRetry(w) \/ CommitWrite(w)
    PROVE  FencedInv'
<1> USE DEF LoopInv, FencedInv, TypeOK
<1>1. pc[w] # "idle" /\ pc'[w] \notin {"idle", "finishWrite"}
  BY DEF RecordRetry, CommitWrite, Conclude, Goto
<1>2. lease_owner' = lease_owner /\ live' = live
  BY DEF RecordRetry, record_retry, CommitWrite, insertStep, storeVars, leaseVars
<1>3. status = "RUNNING" /\ HoldsLease(w)
  BY <1>1 DEF DriverHoldsLease
<1>4. status' = "RUNNING"
  BY <1>3 DEF RecordRetry, record_retry, CommitWrite, insertStep, storeVars
<1>5. \A v \in Owners \ {w} : pc'[v] = pc[v] /\ snap'[v] = snap[v]
  BY DEF RecordRetry, CommitWrite, Conclude, Goto
<1> QED
  BY <1>1, <1>2, <1>3, <1>4, <1>5 DEF DriverHoldsLease, FinishKnowsOwner,
     TerminalHoldsNoLease, HoldsLease, Terminal

\* Every step preserves the invariant, unless a lease runs out under a driver.
LEMMA FencedStep ==
    ASSUME ~LeasesCanLapse, LoopInv, FencedInv, [Next]_vars
    PROVE  FencedInv'
<1>1. ASSUME NEW w \in Owners, Claim(w) \/ Drive(w) \/ Crash(w)
      PROVE  FencedInv'
  <2>1. \/ QuietStep(w) \/ Claim(w)
        \/ FinishWrite(w) \/ Pause(w) \/ Crash(w)
        \/ RecordRetry(w) \/ CommitWrite(w)
    BY <1>1 DEF Drive, QuietStep
  <2> QED BY <2>1, QuietFenced, ClaimFenced, LeaveFenced, ChargeFenced
<1>2. CASE LeaseExpires
  <2>1. /\ pc' = pc /\ snap' = snap /\ status' = status
        /\ lease_owner' = lease_owner
        /\ lease_owner # Nobody /\ pc[lease_owner] = "idle"
    BY <1>2 DEF LeaseExpires, expire, memoryVars
  <2>2. \A w \in Owners : pc[w] = "idle"
    BY <2>1 DEF FencedInv, DriverHoldsLease, HoldsLease
  <2> QED
    BY <2>1, <2>2 DEF FencedInv, DriverHoldsLease, FinishKnowsOwner,
       TerminalHoldsNoLease
<1>3. CASE LeaseLapses
  BY <1>3 DEF LeaseLapses
<1>4. CASE Over \/ UNCHANGED vars
  <2>1. UNCHANGED <<pc, snap, status, lease_owner, live>>
    BY <1>4 DEF Over, vars, storeVars, leaseVars, memoryVars
  <2> QED
    BY <2>1 DEF FencedInv, DriverHoldsLease, FinishKnowsOwner,
       TerminalHoldsNoLease, HoldsLease
<1> QED BY <1>1, <1>2, <1>3, <1>4 DEF Next

\* The invariant holds in every reachable state when no lease can lapse.
THEOREM FencedInvariant ==
    ASSUME ~LeasesCanLapse
    PROVE  Spec => []FencedInv
<1>1. Init => FencedInv
  BY DEF Init, Created, FencedInv, DriverHoldsLease, FinishKnowsOwner,
     TerminalHoldsNoLease, Terminal
<1>2. LoopInv /\ FencedInv /\ [Next]_vars => FencedInv'
  BY FencedStep
<1> QED BY <1>1, <1>2, LoopInvariant, PTL DEF Spec

\* Without lapses, finish always clears the lease it ends the run under.
THEOREM TerminalRunsHoldNoLease ==
    ASSUME ~LeasesCanLapse
    PROVE  Spec => []TerminalHoldsNoLease
<1>1. FencedInv => TerminalHoldsNoLease
  BY DEF FencedInv
<1> QED BY <1>1, FencedInvariant, PTL

\* Without lapses, COMPLETED and FAILED are final, for any number of workers,
\* crashes and restarts: whoever could still write is not driving any more.
THEOREM TerminalRunsAreFinal ==
    ASSUME ~LeasesCanLapse
    PROVE  Spec => TerminalIsFinal
<1> DEFINE Final == (status \in Terminal) =>
                      UNCHANGED <<status, resultVars, countVars, childVars>>
<1>1. ASSUME LoopInv, FencedInv, [Next]_vars PROVE [Final]_vars
  <2> SUFFICES ASSUME status \in Terminal
               PROVE  UNCHANGED <<status, resultVars, countVars, childVars>>
    OBVIOUS
  <2>1. \A w \in Owners : pc[w] = "idle"
    BY <1>1 DEF FencedInv, DriverHoldsLease, Terminal
  <2>2. \A w \in Owners : ~Claim(w) /\ ~Crash(w)
    BY <2>1 DEF Claim, claim, Crash, Terminal, Resumable
  <2>3. \A w \in Owners : ~Drive(w)
    BY <2>1 DEF Drive, LoadRun, LoadSteps, LoadMessages, PolicyCheck, Respond,
       FailStep, ToolInFlight, RequestError, AttemptFails, RecordRetry,
       CommitRead, CommitCount, CommitWrite, Renew, FinishRead, FinishWrite, Pause
  <2> QED
    BY <1>1, <2>2, <2>3 DEF Next, LeaseExpires, LeaseLapses, expire, Over, vars,
       storeVars
<1> QED BY <1>1, FencedInvariant, LoopInvariant, PTL DEF Spec, TerminalIsFinal

=============================================================================
