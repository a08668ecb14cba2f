------------------------- MODULE DurableToolsProofs -------------------------
(***************************************************************************)
(* Proofs about DurableTools, for any number of workers and calls: it      *)
(* implements ToolLedger, so the ledger's guarantees survive redelivery    *)
(* and duplicate dispatch; and the broker's configuration loses no call.   *)
(***************************************************************************)
EXTENDS DurableTools, ToolLedgerProofs

\* Every step of the composed system is a step of the ledger's callers, or
\* leaves the ledger and its callers alone.
LEMMA LedgerStep ==
    ASSUME [DurableNext]_durableVars
    PROVE  [Next]_vars
<1>1. ASSUME NEW k \in Keys, Waiting(k) \/ Unroutable(k) PROVE UNCHANGED vars
  BY <1>1 DEF Waiting, Ask, Lookup, Enqueue, Poll, Stop, Unroutable
<1>2. ASSUME NEW c \in Callers, Working(c) PROVE CallerStep(c) \/ UNCHANGED vars
  BY <1>2 DEF Working, Deliver, Work, WorkerLost, VisibilityExpires, TimeLimit,
     CallerStep
<1>3. ASSUME Quiet \/ UNCHANGED durableVars PROVE UNCHANGED vars
  BY <1>3 DEF Quiet, durableVars
<1> QED BY <1>1, <1>2, <1>3 DEF DurableNext, Next

\* The composed system implements the ledger's specification.
THEOREM DurableToolsImplementLedger == DurableSpec => ImplementsLedger
<1>1. DurableInit => Init
  BY DEF DurableInit
<1>2. [DurableNext]_durableVars => [Next]_vars
  BY LedgerStep
<1> QED BY <1>1, <1>2, PTL DEF DurableSpec, ImplementsLedger, Spec

\* Redelivered, duplicated and abandoned tasks included, the handler of an
\* UNSAFE durable tool is entered at most once per key.
THEOREM DurableUnsafeAtMostOnce == DurableSpec => []UnsafeAtMostOnce
BY DurableToolsImplementLedger, UnsafeExecutedAtMostOnce, PTL DEF ImplementsLedger

-----------------------------------------------------------------------------
(* Types.                                                                  *)

\* The part of the types that is about the waiting runs.
WaitTypeOK ==
    /\ wpc \in [Keys -> {"away", "lookup", "enqueue", "poll", "failed"}]
    /\ lost \in [Keys -> Nat]
    /\ mishaps \in 0..MaxFaults

\* No step of the runs, the broker or the workers leaves the types.
LEMMA DurableTypeStep ==
    ASSUME TypeOK, BrokerTypeOK, WaitTypeOK, [DurableNext]_durableVars
    PROVE  BrokerTypeOK' /\ WaitTypeOK'
<1> USE MaxFaultsAssumption DEF BrokerTypeOK, WaitTypeOK
<1>1. ASSUME NEW k \in Keys, Waiting(k) PROVE BrokerTypeOK' /\ WaitTypeOK'
  <2>1. held' = held /\ lost' = lost /\ mishaps' = mishaps
    BY <1>1 DEF Waiting, Ask, Lookup, Enqueue, Poll, Stop, brokerVars
  <2>2. \/ ready' = ready /\ sent' = sent
        \/ /\ ready' = [ready EXCEPT ![k] = @ + 1]
           /\ sent' = [sent EXCEPT ![k] = @ + 1]
    BY <1>1 DEF Waiting, Ask, Lookup, Enqueue, Poll, Stop, brokerVars
  <2>3. \E where \in {"away", "lookup", "enqueue", "poll", "failed"} : GotoW(k, where)
    BY <1>1 DEF Waiting, Ask, Lookup, Enqueue, Poll, Stop, Collect
  <2>4. BrokerTypeOK'
    BY <2>1, <2>2
  <2>5. WaitTypeOK'
    BY <2>1, <2>3 DEF GotoW
  <2> QED BY <2>4, <2>5
<1>2. ASSUME NEW k \in Keys, Unroutable(k) PROVE BrokerTypeOK' /\ WaitTypeOK'
  BY <1>2 DEF Unroutable, Fault, waitVars
<1>3. ASSUME NEW c \in Callers, NEW k \in Keys, Deliver(c, k)
      PROVE  BrokerTypeOK' /\ WaitTypeOK'
  BY <1>3 DEF Deliver, waitVars
<1>4. ASSUME NEW c \in Callers, Work(c) PROVE BrokerTypeOK' /\ WaitTypeOK'
  BY <1>4 DEF Work, waitVars
<1>5. ASSUME NEW c \in Callers, WorkerLost(c) PROVE BrokerTypeOK' /\ WaitTypeOK'
  BY <1>5 DEF WorkerLost, Fault, Requeued, waitVars, TypeOK
<1>6. ASSUME NEW c \in Callers, VisibilityExpires(c) PROVE BrokerTypeOK' /\ WaitTypeOK'
  BY <1>6 DEF VisibilityExpires, Fault, Requeued, waitVars
<1>7. ASSUME NEW c \in Callers, TimeLimit(c) PROVE BrokerTypeOK' /\ WaitTypeOK'
  BY <1>7 DEF TimeLimit, Fault, waitVars, TypeOK
<1>8. CASE Quiet \/ UNCHANGED durableVars
  BY <1>8 DEF Quiet, durableVars, brokerVars, waitVars
<1> QED
  BY <1>1, <1>2, <1>3, <1>4, <1>5, <1>6, <1>7, <1>8 DEF DurableNext, Working

\* What the composed system keeps of the ledger and of its own variables.
LEMMA DurableTypes == DurableSpec => [](LedgerInv /\ BrokerTypeOK /\ WaitTypeOK)
<1>1. DurableInit => BrokerTypeOK /\ WaitTypeOK
  BY NoMessageAssumption, MaxFaultsAssumption
     DEF DurableInit, BrokerTypeOK, WaitTypeOK
<1>2. LedgerInv /\ BrokerTypeOK /\ WaitTypeOK /\ [DurableNext]_durableVars
        => BrokerTypeOK' /\ WaitTypeOK'
  BY DurableTypeStep DEF LedgerInv
<1>3. DurableSpec => []LedgerInv
  BY DurableToolsImplementLedger, LedgerInvariant, PTL DEF ImplementsLedger
<1> QED BY <1>1, <1>2, <1>3, PTL DEF DurableSpec

-----------------------------------------------------------------------------
(* What the waiting run is told.                                           *)

\* What the run has collected for a key, the handler has produced.
CollectedHappened ==
    \A k \in Keys : collected[k] \ {InReview} \subseteq produced[k]

\* A run collects only terminal rows, and those record what happened.
LEMMA CollectedStep ==
    ASSUME LedgerInv, CollectedHappened, collected \in [Keys -> SUBSET
             ({InReview} \cup HandlerOutcome)], [DurableNext]_durableVars
    PROVE  /\ CollectedHappened'
           /\ collected' \in [Keys -> SUBSET ({InReview} \cup HandlerOutcome)]
<1> DEFINE Told == {InReview} \cup HandlerOutcome
<1>1. \A k \in Keys : produced[k] \subseteq produced'[k]
  BY LedgerStep, ProducedGrows DEF LedgerInv
<1>2. ASSUME NEW k \in Keys, Collect(k), IsTerminal(row[k])
      PROVE  CollectedHappened' /\ collected' \in [Keys -> SUBSET Told]
  <2>1. row[k] \in Told
    <3>1. row[k] \in {Absent, Pending, InReview} \cup HandlerOutcome
      BY DEF LedgerInv, TypeOK
    <3>2. row[k] # Absent /\ row[k] # Pending
      BY <1>2 DEF IsTerminal, Absent, Pending
    <3> QED BY <3>1, <3>2
  <2>2. row[k] # InReview => row[k] \in produced[k]
    BY <2>1 DEF LedgerInv, AnswersHappened
  <2>3. collected' = [collected EXCEPT ![k] = @ \cup {row[k]}]
    BY <1>2 DEF Collect
  <2> QED BY <1>1, <2>1, <2>2, <2>3 DEF CollectedHappened
<1>3. CASE \E k \in Keys : Lookup(k) \/ Poll(k)
  <2>1. PICK k \in Keys : Lookup(k) \/ Poll(k)
    BY <1>3
  <2>2. (Collect(k) /\ IsTerminal(row[k])) \/ collected' = collected
    BY <2>1 DEF Lookup, Poll
  <2> QED BY <1>1, <1>2, <2>2 DEF CollectedHappened
<1>4. CASE ~\E k \in Keys : Lookup(k) \/ Poll(k)
  <2>1. collected' = collected
    BY <1>4 DEF DurableNext, Waiting, Ask, Enqueue, Stop, Unroutable, Working,
       Deliver, Work, WorkerLost, VisibilityExpires, TimeLimit, Quiet,
       durableVars, waitVars
  <2> QED BY <1>1, <2>1 DEF CollectedHappened
<1> QED BY <1>3, <1>4

\* Over all its polls, retries and resumes, a run is told one outcome of an
\* UNSAFE call, one that happened, or that the call needs review.
THEOREM RunsAreToldOnce == DurableSpec => []CollectedOnce
<1> DEFINE Inv == /\ CollectedHappened
                  /\ collected \in [Keys -> SUBSET ({InReview} \cup HandlerOutcome)]
<1>1. DurableInit => Inv
  BY DEF DurableInit, CollectedHappened
<1>2. LedgerInv /\ Inv /\ [DurableNext]_durableVars => Inv'
  BY CollectedStep
<1>3. LedgerInv /\ Inv => CollectedOnce
  BY DEF LedgerInv, CollectedHappened, CollectedOnce, UnsafeOneOutcome
<1>4. DurableSpec => []LedgerInv
  BY DurableToolsImplementLedger, LedgerInvariant, PTL DEF ImplementsLedger
<1> QED BY <1>1, <1>2, <1>3, <1>4, PTL DEF DurableSpec

\* The composed system keeps its types: what a run collects is a handler's
\* outcome or NEEDS_REVIEW, never a row that is absent or PENDING.
THEOREM DurableTypeCorrect == DurableSpec => []DurableTypeOK
<1> DEFINE Inv == /\ CollectedHappened
                  /\ collected \in [Keys -> SUBSET ({InReview} \cup HandlerOutcome)]
<1>1. DurableInit => Inv
  BY DEF DurableInit, CollectedHappened
<1>2. LedgerInv /\ Inv /\ [DurableNext]_durableVars => Inv'
  BY CollectedStep
<1>3. LedgerInv /\ BrokerTypeOK /\ WaitTypeOK /\ Inv => DurableTypeOK
  BY DEF LedgerInv, WaitTypeOK, DurableTypeOK
<1> QED BY <1>1, <1>2, <1>3, DurableTypes, PTL DEF DurableSpec

-----------------------------------------------------------------------------
(* The broker loses no call.                                               *)

\* A task that returns, or raises ToolCrashed, has closed its row.
LEMMA ReturnClosesRow ==
    ASSUME LedgerInv, NEW c \in Callers, Work(c), pc'[c] = "idle"
    PROVE  IsTerminal(row'[key[c]])
<1>1. TypeOK
  BY DEF LedgerInv
<1>2. CASE Begin(c) \/ InvokeHandler(c) \/ HandlerEnds(c)
  <2>1. pc'[c] # "idle"
    BY <1>1, <1>2 DEF Begin, InvokeHandler, HandlerEnds, Goto, TypeOK
  <2> QED BY <2>1
<1>3. CASE Decide(c)
  <2>1. row[key[c]].status \in {"succeeded", "failed"} /\ row' = row
    BY <1>1, <1>3 DEF Decide, Goto, TypeOK, resolve_pending
  <2> QED BY <2>1 DEF IsTerminal
<1>4. CASE NeedsReview(c)
  <2>1. row'[key[c]] = InReview
    BY <1>1, <1>4 DEF NeedsReview, TypeOK
  <2> QED BY <2>1 DEF InReview, IsTerminal
<1>5. CASE Complete(c)
  <2>1. row'[key[c]] = got[c]
    BY <1>1, <1>5 DEF Complete, TypeOK
  <2>2. got[c] \in HandlerOutcome
    BY <1>1, <1>5 DEF Complete, LedgerInv, RecordsWhatHappened, TypeOK
  <2> QED BY <2>1, <2>2 DEF HandlerOutcome, IsTerminal
<1> QED BY <1>2, <1>3, <1>4, <1>5 DEF Work

\* What any stretch of execute_tool does: the task moves, the row of its own key
\* may change, and the message stays where it is until the task is over.
LEMMA WorkMoves ==
    ASSUME TypeOK, NEW c \in Callers, Work(c)
    PROVE  /\ ready' = ready /\ sent' = sent /\ mishaps' = mishaps /\ key' = key
           /\ held' = [held EXCEPT ![c] = IF pc'[c] = "idle" THEN NoMessage ELSE @]
           /\ pc[c] # "idle"
           /\ \A d \in Callers \ {c} : pc'[d] = pc[d]
           /\ \A k \in Keys : k # key[c] => row'[k] = row[k]
<1> DEFINE Moves == /\ key' = key /\ pc[c] # "idle"
                    /\ \E where : pc' = [pc EXCEPT ![c] = where]
                    /\ row' = row \/ \E r : row' = [row EXCEPT ![key[c]] = r]
<1>1. ASSUME Begin(c) PROVE Moves
  BY <1>1 DEF Begin, Goto
<1>2. ASSUME Decide(c) PROVE Moves
  BY <1>2 DEF Decide, Return, Goto
<1>3. ASSUME NeedsReview(c) PROVE Moves
  BY <1>3 DEF NeedsReview, Return, Goto
<1>4. ASSUME InvokeHandler(c) PROVE Moves
  BY <1>4 DEF InvokeHandler, Goto
<1>5. ASSUME HandlerEnds(c) PROVE Moves
  BY <1>5 DEF HandlerEnds, Goto
<1>6. ASSUME Complete(c) PROVE Moves
  BY <1>6 DEF Complete, Return, Goto
<1>7. Moves
  BY <1>1, <1>2, <1>3, <1>4, <1>5, <1>6 DEF Work
<1>8. \A d \in Callers \ {c} : pc'[d] = pc[d]
  BY <1>7 DEF TypeOK
<1>9. \A k \in Keys : k # key[c] => row'[k] = row[k]
  BY <1>7 DEF TypeOK
<1>10. /\ ready' = ready /\ sent' = sent /\ mishaps' = mishaps
       /\ held' = [held EXCEPT ![c] = IF pc'[c] = "idle" THEN NoMessage ELSE @]
  BY DEF Work, waitVars
<1> QED BY <1>7, <1>8, <1>9, <1>10

\* What a task does keeps every dispatched call promised: its message is gone
\* only once the row is closed.
LEMMA WorkKeepsPromises ==
    ASSUME LedgerInv, DurableInv, NEW c \in Callers, Work(c)
    PROVE  DurableInv'
<1> USE DEF DurableInv, BrokerTypeOK
<1>1. TypeOK
  BY DEF LedgerInv
<1>2. /\ ready' = ready /\ sent' = sent /\ key' = key
      /\ held' = [held EXCEPT ![c] = IF pc'[c] = "idle" THEN NoMessage ELSE @]
      /\ pc[c] # "idle"
      /\ \A d \in Callers \ {c} : pc'[d] = pc[d]
      /\ \A k \in Keys : k # key[c] => row'[k] = row[k]
  BY <1>1, WorkMoves
<1>3. key[c] \in Keys /\ sent[key[c]] > 0
  BY <1>1, <1>2 DEF TypeOK, ExecutionsDispatched
<1>4. BrokerTypeOK'
  BY <1>2
<1>5. ExecutionsDispatched'
  BY <1>2 DEF ExecutionsDispatched
<1>6. RowsDispatched'
  BY <1>2, <1>3 DEF RowsDispatched
<1>7. ASSUME NEW k \in Keys, sent'[k] > 0 PROVE Promised(k)'
  <2>1. Promised(k)
    BY <1>2, <1>7 DEF DispatchedIsPromised
  <2>2. CASE ready[k] > 0
    BY <1>2, <2>2 DEF Promised
  <2>3. CASE IsTerminal(row[k])
    <3>1. [Next]_vars
      BY DEF Work, Next, CallerStep
    <3> QED BY <2>3, <3>1, RowStepStaysClosed DEF Promised, IsTerminal
  <2>4. ASSUME NEW d \in Callers, held[d] = k PROVE Promised(k)'
    <3>1. CASE d = c /\ pc'[c] = "idle"
      <4>1. k = key[c]
        BY <2>4, <3>1, NoMessageAssumption DEF ExecutionsDispatched
      <4> QED BY <3>1, <4>1, ReturnClosesRow DEF Promised, IsTerminal
    <3>2. CASE ~(d = c /\ pc'[c] = "idle")
      <4>1. held'[d] = k
        BY <1>2, <2>4, <3>2
      <4> QED BY <4>1 DEF Promised
    <3> QED BY <3>1, <3>2
  <2> QED BY <2>1, <2>2, <2>3, <2>4 DEF Promised
<1>8. DispatchedIsPromised'
  BY <1>7 DEF DispatchedIsPromised
<1> QED BY <1>4, <1>5, <1>6, <1>8

\* The broker, lost workers and expired visibility timeouts move a message;
\* they do not drop it.
LEMMA BrokerKeepsPromises ==
    ASSUME LedgerInv, DurableInv, NEW c \in Callers,
           \/ \E k \in Keys : Deliver(c, k)
           \/ WorkerLost(c)
           \/ VisibilityExpires(c)
    PROVE  DurableInv'
<1> USE DEF DurableInv, BrokerTypeOK
<1>1. TypeOK
  BY DEF LedgerInv
<1>2. row' = row /\ sent' = sent
  BY DEF Deliver, Call, WorkerLost, Vanish, VisibilityExpires, waitVars, vars,
     ledgerVars
<1>3. CASE \E k \in Keys : Deliver(c, k)
  <2>1. PICK k \in Keys : Deliver(c, k)
    BY <1>3
  <2>2. /\ ready[k] > 0 /\ pc[c] = "idle" /\ held[c] = NoMessage
        /\ ready' = [ready EXCEPT ![k] = @ - 1]
        /\ held' = [held EXCEPT ![c] = k]
        /\ key' = [key EXCEPT ![c] = k]
        /\ pc' = [pc EXCEPT ![c] = "begin"]
    BY <2>1 DEF Deliver, Call, Goto
  <2>3. BrokerTypeOK'
    BY <1>2, <2>2
  <2>4. ExecutionsDispatched'
    BY <1>1, <1>2, <2>2 DEF ExecutionsDispatched, RowsDispatched, TypeOK
  <2>5. RowsDispatched'
    BY <1>2, <2>2 DEF RowsDispatched
  <2>6. DispatchedIsPromised'
    BY <1>2, <2>2, NoMessageAssumption DEF DispatchedIsPromised, Promised, IsTerminal
  <2> QED BY <2>3, <2>4, <2>5, <2>6
<1>4. CASE WorkerLost(c) \/ VisibilityExpires(c)
  <2>1. /\ ready' = [k \in Keys |-> IF k = held[c] THEN ready[k] + 1 ELSE ready[k]]
        /\ held' = [held EXCEPT ![c] = NoMessage]
        /\ key' = key
        /\ pc' = pc \/ pc' = [pc EXCEPT ![c] = "idle"]
    BY <1>4 DEF WorkerLost, VisibilityExpires, Requeued, Vanish, Goto, vars, callVars
  <2>2. BrokerTypeOK'
    BY <1>2, <2>1
  <2>3. ExecutionsDispatched'
    BY <1>1, <1>2, <2>1 DEF ExecutionsDispatched, TypeOK
  <2>4. RowsDispatched'
    <3> SUFFICES ASSUME NEW k \in Keys, ready'[k] > 0 \/ row[k] # Absent
                 PROVE  sent[k] > 0
      BY <1>2 DEF RowsDispatched
    <3>1. CASE k = held[c]
      BY <3>1, NoMessageAssumption DEF ExecutionsDispatched
    <3>2. CASE k # held[c]
      BY <2>1, <3>2 DEF RowsDispatched
    <3> QED BY <3>1, <3>2
  <2>5. DispatchedIsPromised'
    <3> SUFFICES ASSUME NEW k \in Keys, sent[k] > 0 PROVE Promised(k)'
      BY <1>2 DEF DispatchedIsPromised
    <3>1. Promised(k)
      BY DEF DispatchedIsPromised
    <3>2. CASE held[c] = k \/ ready[k] > 0
      <4>1. ready'[k] > 0
        BY <2>1, <3>2
      <4> QED BY <4>1 DEF Promised
    <3>3. CASE held[c] # k /\ ~(ready[k] > 0)
      BY <1>2, <2>1, <3>1, <3>3 DEF Promised, IsTerminal
    <3> QED BY <3>2, <3>3
  <2> QED BY <2>2, <2>3, <2>4, <2>5
<1> QED BY <1>3, <1>4

\* A run that waits only ever adds messages.
LEMMA WaitKeepsPromises ==
    ASSUME LedgerInv, DurableInv, NEW k \in Keys, Waiting(k)
    PROVE  DurableInv'
<1> USE DEF DurableInv, BrokerTypeOK
<1>1. row' = row /\ pc' = pc /\ key' = key /\ held' = held
  BY DEF Waiting, Ask, Lookup, Enqueue, Poll, Stop, vars, ledgerVars, callVars,
     brokerVars
<1>2. \/ ready' = ready /\ sent' = sent
      \/ /\ ready' = [ready EXCEPT ![k] = @ + 1]
         /\ sent' = [sent EXCEPT ![k] = @ + 1]
  BY DEF Waiting, Ask, Lookup, Enqueue, Poll, Stop, brokerVars
<1>3. BrokerTypeOK'
  BY <1>1, <1>2
<1>5. ExecutionsDispatched'
  <2>1. key \in [Callers -> Keys]
    BY DEF LedgerInv, TypeOK
  <2>2. \A c \in Callers : sent[key[c]] > 0 => sent'[key[c]] > 0
    BY <1>2, <2>1
  <2> QED BY <1>1, <2>2 DEF ExecutionsDispatched
<1>6. RowsDispatched'
  BY <1>1, <1>2 DEF RowsDispatched
<1>7. DispatchedIsPromised'
  BY <1>1, <1>2 DEF DispatchedIsPromised, Promised, IsTerminal
<1> QED BY <1>3, <1>5, <1>6, <1>7

\* With late acknowledgement, requeueing of lost workers' tasks and redelivery
\* after the visibility timeout, a dispatched call has a message or a closed
\* row, unless a worker runs into a time limit or runs other code.
THEOREM NoDispatchIsDropped ==
    ASSUME WorkerMishaps = {}
    PROVE  DurableSpec => []DispatchedIsPromised
<1>1. DurableInit => DurableInv
  BY NoMessageAssumption DEF DurableInit, Init, DurableInv, BrokerTypeOK,
     ExecutionsDispatched, RowsDispatched, DispatchedIsPromised
<1>2. ASSUME LedgerInv, DurableInv, [DurableNext]_durableVars PROVE DurableInv'
  <2>1. ASSUME NEW k \in Keys, Waiting(k) \/ Unroutable(k) PROVE DurableInv'
    BY <1>2, <2>1, WaitKeepsPromises DEF Unroutable
  <2>2. ASSUME NEW c \in Callers, Working(c) PROVE DurableInv'
    BY <1>2, <2>2, WorkKeepsPromises, BrokerKeepsPromises DEF Working, TimeLimit
  <2>3. ASSUME Quiet \/ UNCHANGED durableVars PROVE DurableInv'
    <3>1. UNCHANGED <<row, pc, key, ready, held, sent>>
      BY <2>3 DEF Quiet, durableVars, vars, ledgerVars, callVars, brokerVars, waitVars
    <3> QED
      BY <1>2, <3>1 DEF DurableInv, BrokerTypeOK, ExecutionsDispatched,
         RowsDispatched, DispatchedIsPromised, Promised, IsTerminal
  <2> QED BY <1>2, <2>1, <2>2, <2>3 DEF DurableNext
<1>3. DurableInv => DispatchedIsPromised
  BY DEF DurableInv
<1>4. DurableSpec => []LedgerInv
  BY DurableToolsImplementLedger, LedgerInvariant, PTL DEF ImplementsLedger
<1> QED BY <1>1, <1>2, <1>3, <1>4, PTL DEF DurableSpec

-----------------------------------------------------------------------------
(* Why a human is asked.                                                   *)

\* What a task does with the only message of its key.
LEMMA WorkUndisturbed ==
    ASSUME LedgerInv, BrokerTypeOK, OneUndisturbedExecution,
           NEW c \in Callers, Work(c)
    PROVE  OneUndisturbedExecution'
<1> USE DEF BrokerTypeOK
<1>1. TypeOK /\ TypeOK'
  <2>1. [Next]_vars
    BY DEF Work, Next, CallerStep
  <2> QED BY <2>1, TypeStep DEF LedgerInv
<1>2. ready' = ready /\ sent' = sent /\ mishaps' = mishaps /\ key' = key
  BY <1>1, WorkMoves
<1>3. pc[c] # "idle" /\ \A d \in Callers \ {c} : pc'[d] = pc[d]
  BY <1>1, WorkMoves
<1>4. \A k \in Keys : k # key[c] => row'[k] = row[k]
  BY <1>1, WorkMoves
<1> SUFFICES ASSUME NEW k \in Keys, Undisturbed(k)
             PROVE  /\ row'[k] # InReview
                    /\ ready[k] <= sent[k]
                    /\ row'[k] # Absent => ready[k] = 0 /\ sent[k] = 1
                    /\ \A d \in Callers : WorksOn(d, k)' =>
                         /\ ready[k] = 0 /\ sent[k] = 1
                         /\ pc'[d] \notin {"decide", "review"}
                         /\ pc'[d] = "begin" => row'[k] = Absent
                         /\ \A e \in Callers : WorksOn(e, k)' => e = d
  BY <1>2 DEF OneUndisturbedExecution, Undisturbed
<1>5. \A d \in Callers : WorksOn(d, k)' => WorksOn(d, k)
  BY <1>2, <1>3 DEF WorksOn
<1>6. CASE k # key[c]
  <2>1. \A d \in Callers : WorksOn(d, k) => pc'[d] = pc[d]
    BY <1>3, <1>6 DEF WorksOn
  <2> QED BY <1>4, <1>5, <1>6, <2>1 DEF OneUndisturbedExecution
<1>7. CASE k = key[c]
  <2>1. /\ ready[k] = 0 /\ sent[k] = 1
        /\ pc[c] \notin {"decide", "review"}
        /\ pc[c] = "begin" => row[k] = Absent
        /\ \A d \in Callers : WorksOn(d, k) => d = c
    BY <1>3, <1>7 DEF OneUndisturbedExecution, WorksOn
  <2>2. pc'[c] \notin {"decide", "review", "begin"}
    BY <1>1, <1>7, <2>1 DEF Work, Begin, Decide, NeedsReview, InvokeHandler,
       HandlerEnds, Complete, Return, Goto, TypeOK
  <2>3. row'[k] # InReview
    <3>1. row[k] # InReview
      BY DEF OneUndisturbedExecution
    <3>2. CASE Begin(c)
      BY <1>1, <1>7, <2>1, <3>2, RowKinds DEF Begin, TypeOK
    <3>3. CASE Complete(c)
      <4>1. got[c] \in HandlerOutcome
        BY <1>1, <3>3 DEF Complete, LedgerInv, RecordsWhatHappened, TypeOK
      <4> QED BY <1>1, <1>7, <3>3, <4>1, RowKinds DEF Complete, TypeOK
    <3>4. CASE InvokeHandler(c) \/ HandlerEnds(c)
      BY <3>1, <3>4 DEF InvokeHandler, HandlerEnds
    <3>5. ~Decide(c) /\ ~NeedsReview(c)
      BY <2>1 DEF Decide, NeedsReview
    <3> QED BY <3>2, <3>3, <3>4, <3>5 DEF Work
  <2> QED BY <1>5, <2>1, <2>2, <2>3
<1> QED BY <1>6, <1>7

\* Any other step disturbs the key, or leaves it undisturbed and its one message
\* with the broker or with one task.
LEMMA UndisturbedStep ==
    ASSUME LedgerInv, BrokerTypeOK, WaitTypeOK, OneUndisturbedExecution,
           [DurableNext]_durableVars
    PROVE  OneUndisturbedExecution'
<1> USE MaxFaultsAssumption DEF BrokerTypeOK, WaitTypeOK
<1>1. TypeOK
  BY DEF LedgerInv
<1>2. ASSUME mishaps' = mishaps + 1 PROVE OneUndisturbedExecution'
  BY <1>2 DEF OneUndisturbedExecution, Undisturbed
<1>3. ASSUME NEW k \in Keys, Waiting(k) PROVE OneUndisturbedExecution'
  <2>1. row' = row /\ pc' = pc /\ key' = key /\ mishaps' = mishaps
    BY <1>3 DEF Waiting, Ask, Lookup, Enqueue, Poll, Stop, vars, ledgerVars, callVars
  <2>2. CASE ready' = ready /\ sent' = sent
    BY <2>1, <2>2 DEF OneUndisturbedExecution, Undisturbed, WorksOn
  <2>3. CASE /\ ready' = [ready EXCEPT ![k] = @ + 1]
             /\ sent' = [sent EXCEPT ![k] = @ + 1]
    <3> SUFFICES ASSUME NEW j \in Keys, Undisturbed(j)'
                 PROVE  /\ row[j] # InReview
                        /\ ready'[j] <= sent'[j]
                        /\ row[j] # Absent => ready'[j] = 0 /\ sent'[j] = 1
                        /\ \A c \in Callers : WorksOn(c, j) =>
                             /\ ready'[j] = 0 /\ sent'[j] = 1
                             /\ pc[c] \notin {"decide", "review"}
                             /\ pc[c] = "begin" => row[j] = Absent
                             /\ \A d \in Callers : WorksOn(d, j) => d = c
      BY <2>1 DEF OneUndisturbedExecution, WorksOn
    <3>1. Undisturbed(j)
      BY <2>1, <2>3 DEF Undisturbed
    <3>2. CASE j = k
      <4>1. sent[k] = 0 /\ sent'[k] = 1 /\ ready'[k] = ready[k] + 1
        BY <2>3, <3>2 DEF Undisturbed
      <4>2. ready[k] = 0 /\ row[k] = Absent /\ \A c \in Callers : ~WorksOn(c, k)
        BY <3>1, <3>2, <4>1 DEF OneUndisturbedExecution
      <4> QED BY <3>2, <4>1, <4>2, RowKinds
    <3>3. CASE j # k
      BY <2>3, <3>1, <3>3 DEF OneUndisturbedExecution
    <3> QED BY <3>2, <3>3
  <2>4. \/ ready' = ready /\ sent' = sent
        \/ /\ ready' = [ready EXCEPT ![k] = @ + 1]
           /\ sent' = [sent EXCEPT ![k] = @ + 1]
    BY <1>3 DEF Waiting, Ask, Lookup, Enqueue, Poll, Stop, brokerVars
  <2> QED BY <2>2, <2>3, <2>4
<1>4. ASSUME NEW c \in Callers, NEW k \in Keys, Deliver(c, k)
      PROVE  OneUndisturbedExecution'
  <2>1. /\ ready[k] > 0 /\ pc[c] = "idle"
        /\ ready' = [ready EXCEPT ![k] = @ - 1]
        /\ key' = [key EXCEPT ![c] = k]
        /\ pc' = [pc EXCEPT ![c] = "begin"]
        /\ row' = row /\ sent' = sent /\ mishaps' = mishaps
    BY <1>4 DEF Deliver, Call, Goto, waitVars
  <2> SUFFICES ASSUME NEW j \in Keys, Undisturbed(j)
               PROVE  /\ row[j] # InReview
                      /\ ready'[j] <= sent[j]
                      /\ row[j] # Absent => ready'[j] = 0 /\ sent[j] = 1
                      /\ \A d \in Callers : WorksOn(d, j)' =>
                           /\ ready'[j] = 0 /\ sent[j] = 1
                           /\ pc'[d] \notin {"decide", "review"}
                           /\ pc'[d] = "begin" => row[j] = Absent
                           /\ \A e \in Callers : WorksOn(e, j)' => e = d
    BY <2>1 DEF OneUndisturbedExecution, Undisturbed
  <2>2. \A d \in Callers \ {c} : (WorksOn(d, j)' <=> WorksOn(d, j)) /\ pc'[d] = pc[d]
    BY <1>1, <2>1 DEF WorksOn, TypeOK
  <2>3. (WorksOn(c, j)' <=> j = k) /\ pc'[c] = "begin"
    BY <1>1, <2>1 DEF WorksOn, TypeOK
  <2>4. CASE j = k
    <3>1. ready[k] = 1 /\ sent[k] = 1 /\ row[k] = Absent
      BY <2>1, <2>4 DEF OneUndisturbedExecution, Undisturbed
    <3>2. \A d \in Callers : ~WorksOn(d, k)
      BY <2>4, <3>1 DEF OneUndisturbedExecution
    <3> QED BY <2>1, <2>2, <2>3, <2>4, <3>1, <3>2, RowKinds
  <2>5. CASE j # k
    <3>1. ready'[j] = ready[j]
      BY <2>1, <2>5
    <3> QED BY <2>2, <2>3, <2>5, <3>1 DEF OneUndisturbedExecution
  <2> QED BY <2>4, <2>5
<1>5. CASE Quiet \/ UNCHANGED durableVars
  <2>1. UNCHANGED <<row, pc, key, ready, sent, mishaps>>
    BY <1>5 DEF Quiet, durableVars, vars, ledgerVars, callVars, brokerVars, waitVars
  <2> QED BY <2>1 DEF OneUndisturbedExecution, Undisturbed, WorksOn
<1> QED
  BY <1>2, <1>3, <1>4, <1>5, WorkUndisturbed DEF DurableNext, Working, Unroutable,
     WorkerLost, VisibilityExpires, TimeLimit, Fault

\* However runs are paused, retried and resumed, a call that was dispatched once
\* is never sent to review unless a worker was lost, timed out, was redelivered
\* to or ran other code.
THEOREM ReviewsHaveACause == DurableSpec => []ReviewHasCause
<1>1. DurableInit => OneUndisturbedExecution
  BY RowKinds DEF DurableInit, Init, OneUndisturbedExecution, Undisturbed, WorksOn
<1>2. /\ LedgerInv /\ BrokerTypeOK /\ WaitTypeOK /\ OneUndisturbedExecution
      /\ [DurableNext]_durableVars
      => OneUndisturbedExecution'
  BY UndisturbedStep
<1>3. BrokerTypeOK /\ WaitTypeOK /\ OneUndisturbedExecution => ReviewHasCause
  BY MaxFaultsAssumption DEF BrokerTypeOK, WaitTypeOK, OneUndisturbedExecution,
     Undisturbed, ReviewHasCause
<1> QED BY <1>1, <1>2, <1>3, DurableTypes, PTL DEF DurableSpec

=============================================================================
