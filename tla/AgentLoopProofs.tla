--------------------------- MODULE AgentLoopProofs ---------------------------
(***************************************************************************)
(* Proofs about AgentLoop, for any set of workers, any limits and any      *)
(* number of crashes and lapsed leases.                                    *)
(***************************************************************************)
EXTENDS AgentLoop, FiniteSetTheorems, SequenceTheorems, TLAPS

USE LimitsAssumption, NobodyAssumption

-----------------------------------------------------------------------------
(* Facts about the operators.                                              *)

\* Rows numbered 0, 1, ..., n - 1 are n rows.
LEMMA IntervalCount ==
    ASSUME NEW n \in Nat
    PROVE  IsFiniteSet(0..(n - 1)) /\ Cardinality(0..(n - 1)) = n
<1>1. IsFiniteSet(0..(n - 1))
      /\ Cardinality(0..(n - 1)) = IF 0 > n - 1 THEN 0 ELSE (n - 1) - 0 + 1
  BY FS_Interval
<1> QED BY <1>1

\* What a reply adds to a conversation is one or two turns.
LEMMA TurnsOfType ==
    ASSUME NEW r \in Replies
    PROVE  TurnsOf(r) \in Seq(Turns)
<1>1. r.body \in Bodies
  BY DEF Replies
<1>2. Turn("assistant", r.body) \in Turns /\ Turn("user", r.body) \in Turns
  BY <1>1 DEF Turn, Turns
<1> QED BY <1>2 DEF TurnsOf

\* The opening message is a turn.
LEMMA OpeningType == Opening \in Turns
BY DEF Opening, Turn, Turns

\* Contiguous message rows read in index order are a conversation.
LEMMA StoredConversationType ==
    ASSUME TypeOK, RowsContiguous, IsFiniteSet(DOMAIN messages)
    PROVE  MessageCount \in Nat /\ StoredConversation \in Seq(Turns)
<1>1. MessageCount \in Nat
  BY FS_CardinalityType DEF MessageCount
<1>2. \A i \in 1..MessageCount : messages[i - 1] \in Turns
  <2> SUFFICES ASSUME NEW i \in 1..MessageCount PROVE messages[i - 1] \in Turns
    OBVIOUS
  <2>1. i - 1 \in DOMAIN messages
    BY <1>1 DEF RowsContiguous
  <2>2. messages \in [DOMAIN messages -> Turns]
    BY DEF TypeOK, StoreTypeOK
  <2> QED BY <2>1, <2>2
<1>3. StoredConversation \in [1..MessageCount -> Turns]
  BY <1>2 DEF StoredConversation
<1> QED BY <1>1, <1>3, SeqDef

\* The count completes what commit_step has read of the run's row.
LEMMA CountReadType ==
    ASSUME TypeOK, RowsContiguous, IsFiniteSet(DOMAIN messages), NEW row \in RowReads
    PROVE  CountRead(row) \in CommitSnapshots
<1>1. MessageCount \in Nat
  BY StoredConversationType
<1> QED BY <1>1 DEF CountRead, RowReads, CommitSnapshots

\* Inserting a row right after contiguous ones.
LEMMA RowAppended ==
    ASSUME NEW table, NEW n \in Nat, DOMAIN table = 0..(n - 1), NEW row
    PROVE  /\ DOMAIN Inserted(table, n, <<row>>) = 0..n
           /\ \A i \in 0..(n - 1) : Inserted(table, n, <<row>>)[i] = table[i]
           /\ Inserted(table, n, <<row>>)[n] = row
<1>1. DOMAIN Inserted(table, n, <<row>>) = 0..n
  BY DEF Inserted
<1> QED BY <1>1 DEF Inserted

\* Inserting any number of rows right after contiguous ones leaves all of them
\* contiguous, and the earlier ones as they were.
LEMMA RowsAppended ==
    ASSUME NEW table, NEW n \in Nat, DOMAIN table = 0..(n - 1),
           \A i \in 0..(n - 1) : table[i] \in Turns, NEW rows \in Seq(Turns)
    PROVE  /\ n + Len(rows) \in Nat
           /\ DOMAIN Inserted(table, n, rows) = 0..(n + Len(rows) - 1)
           /\ \A i \in 0..(n - 1) : Inserted(table, n, rows)[i] = table[i]
           /\ \A i \in 0..(n + Len(rows) - 1) : Inserted(table, n, rows)[i] \in Turns
           /\ IsFiniteSet(DOMAIN Inserted(table, n, rows))
           /\ Cardinality(DOMAIN Inserted(table, n, rows)) = n + Len(rows)
<1>1. Len(rows) \in Nat /\ \A j \in 1..Len(rows) : rows[j] \in Turns
  BY LenProperties, ElementOfSeq
<1>2. (0..(n - 1)) \cup (n..(n + Len(rows) - 1)) = 0..(n + Len(rows) - 1)
  BY <1>1
<1>3. DOMAIN Inserted(table, n, rows) = 0..(n + Len(rows) - 1)
  BY <1>2 DEF Inserted
<1>4. \A i \in 0..(n - 1) : Inserted(table, n, rows)[i] = table[i]
  BY <1>1, <1>2 DEF Inserted
<1>5. \A i \in n..(n + Len(rows) - 1) :
        Inserted(table, n, rows)[i] = rows[i - n + 1] /\ i - n + 1 \in 1..Len(rows)
  BY <1>1, <1>2 DEF Inserted
<1>6. \A i \in 0..(n + Len(rows) - 1) : Inserted(table, n, rows)[i] \in Turns
  BY <1>1, <1>2, <1>4, <1>5
<1>7. n + Len(rows) \in Nat
  BY <1>1
<1>8. /\ IsFiniteSet(0..(n + Len(rows) - 1))
      /\ Cardinality(0..(n + Len(rows) - 1)) = n + Len(rows)
  BY <1>7, IntervalCount
<1> QED BY <1>3, <1>4, <1>6, <1>7, <1>8

-----------------------------------------------------------------------------
(* The types.                                                              *)

\* A step of a worker that calls the store for nothing but a read.
QuietStep(w) ==
    \/ LoadRun(w) \/ LoadSteps(w) \/ LoadMessages(w) \/ PolicyCheck(w)
    \/ Respond(w) \/ FailStep(w) \/ ToolInFlight(w) \/ RequestError(w)
    \/ AttemptFails(w) \/ CommitRead(w) \/ CommitCount(w) \/ Renew(w)
    \/ FinishRead(w)

\* Leaving run empties the worker's memory, which keeps its type.
LEMMA LeaveType ==
    ASSUME TypeOK, NEW w \in Owners, Leave(w)
    PROVE  /\ pc' \in [Owners -> PCs]
           /\ nsteps' \in [Owners -> Nat]
           /\ usage' \in [Owners -> [steps : Nat, tokens : Nat]]
           /\ conv' \in [Owners -> Seq(Turns)]
           /\ pending' \in [Owners -> Seq(Turns)]
           /\ attempt' \in [Owners -> Nat]
           /\ reply' \in [Owners -> Replies \cup {NoReply}]
           /\ snap' \in [Owners -> Snapshots]
           /\ end' \in [Owners -> Ends \cup {NoEnd}]
<1>1. pc' \in [Owners -> PCs]
  BY DEF Leave, Goto, TypeOK, PCs
<1>2. nsteps' \in [Owners -> Nat] /\ attempt' \in [Owners -> Nat]
  BY DEF Leave, TypeOK
<1>3. usage' \in [Owners -> [steps : Nat, tokens : Nat]]
  BY DEF Leave, TypeOK, NoUsage
<1>4. conv' \in [Owners -> Seq(Turns)] /\ pending' \in [Owners -> Seq(Turns)]
  BY EmptySeq DEF Leave, TypeOK
<1>5. reply' \in [Owners -> Replies \cup {NoReply}]
  BY DEF Leave, TypeOK
<1>6. snap' \in [Owners -> Snapshots]
  BY DEF Leave, TypeOK, Snapshots
<1>7. end' \in [Owners -> Ends \cup {NoEnd}]
  BY DEF Leave, TypeOK
<1> QED BY <1>1, <1>2, <1>3, <1>4, <1>5, <1>6, <1>7

\* The outcomes run concludes with are well formed.
LEMMA EndTypes ==
    /\ \A code \in ErrorCodes : Failed(code) \in Ends
    /\ \A r \in Replies : Completed(r) \in Ends
BY DEF Failed, Completed, Ends, Replies

\* Quiet steps keep the types.
LEMMA QuietType ==
    ASSUME LoopInv, NEW w \in Owners, QuietStep(w)
    PROVE  TypeOK'
<1> USE DEF LoopInv
<1>0. storeVars' = storeVars /\ faults' = faults /\ late' = late /\ lateSteps' = lateSteps
  BY DEF QuietStep, LoadRun, LoadSteps, LoadMessages, PolicyCheck, Respond,
     FailStep, ToolInFlight, RequestError, AttemptFails, CommitRead, CommitCount,
     Renew, FinishRead, historyVars
<1>1. /\ StoreTypeOK' /\ faults' \in 0..MaxFaults /\ late' \in [Owners -> Nat]
      /\ lateSteps' \subseteq Nat
  BY <1>0 DEF storeVars, leaseVars, countVars, resultVars, childVars, TypeOK,
     StoreTypeOK
<1> USE <1>1
<1>2. CASE LoadRun(w)
  BY <1>2 DEF LoadRun, Goto, TypeOK, StoreTypeOK, PCs
<1>3. CASE LoadSteps(w)
  <2>1. Cardinality(DOMAIN steps) \in Nat
    BY IntervalCount DEF RowsContiguous, TypeOK, StoreTypeOK
  <2> QED BY <1>3, <2>1 DEF LoadSteps, Goto, TypeOK, PCs
<1>4. CASE LoadMessages(w)
  <2>1. StoredConversation \in Seq(Turns)
    BY StoredConversationType
  <2>2. <<Opening>> \in Seq(Turns) /\ <<>> \in Seq(Turns)
    BY OpeningType
  <2>3. conv' \in [Owners -> Seq(Turns)] /\ pending' \in [Owners -> Seq(Turns)]
    <3>1. conv \in [Owners -> Seq(Turns)] /\ pending \in [Owners -> Seq(Turns)]
      BY DEF TypeOK
    <3>2. CASE DOMAIN messages # {}
      BY <1>4, <2>1, <2>2, <3>1, <3>2 DEF LoadMessages
    <3>3. CASE DOMAIN messages = {}
      BY <1>4, <2>2, <3>1, <3>3 DEF LoadMessages
    <3> QED BY <3>2, <3>3
  <2> QED BY <1>4, <2>3 DEF LoadMessages, Goto, TypeOK, PCs
<1>5. CASE PolicyCheck(w)
  <2>1. Failed("BUDGET_EXCEEDED") \in Ends
    BY EndTypes DEF ErrorCodes
  <2>2. /\ UNCHANGED <<nsteps, usage, conv, pending, reply, snap>>
        /\ \/ Conclude(w, Failed("BUDGET_EXCEEDED")) /\ UNCHANGED attempt
           \/ /\ attempt' = [attempt EXCEPT ![w] = 1]
              /\ Goto(w, "ask")
              /\ UNCHANGED end
    BY <1>5 DEF PolicyCheck
  <2>3. /\ end' \in [Owners -> Ends \cup {NoEnd}]
        /\ pc' \in [Owners -> PCs]
        /\ attempt' \in [Owners -> Nat]
    <3>1. /\ pc \in [Owners -> PCs] /\ attempt \in [Owners -> Nat]
          /\ end \in [Owners -> Ends \cup {NoEnd}]
      BY DEF TypeOK
    <3> QED BY <2>1, <2>2, <3>1 DEF Conclude, Goto, PCs
  <2> QED BY <2>2, <2>3 DEF TypeOK
<1>6. CASE Respond(w)
  <2>1. PICK r \in Replies :
          /\ reply' = [reply EXCEPT ![w] = r]
          /\ usage' = [usage EXCEPT ![w] = [steps |-> usage[w].steps + 1,
                                            tokens |-> usage[w].tokens + r.cost]]
          /\ conv' = [conv EXCEPT ![w] = conv[w] \o TurnsOf(r)]
          /\ pending' = [pending EXCEPT ![w] = pending[w] \o TurnsOf(r)]
    BY <1>6 DEF Respond
  <2>2. conv' \in [Owners -> Seq(Turns)] /\ pending' \in [Owners -> Seq(Turns)]
    <3>1. conv[w] \o TurnsOf(r) \in Seq(Turns) /\ pending[w] \o TurnsOf(r) \in Seq(Turns)
      BY TurnsOfType, ConcatProperties DEF TypeOK
    <3> QED BY <2>1, <3>1 DEF TypeOK
  <2>3. usage' \in [Owners -> [steps : Nat, tokens : Nat]]
    <3>1. r.cost \in Nat
      BY DEF Replies
    <3>2. usage \in [Owners -> [steps : Nat, tokens : Nat]]
      BY DEF TypeOK
    <3>3. [steps |-> usage[w].steps + 1, tokens |-> usage[w].tokens + r.cost]
            \in [steps : Nat, tokens : Nat]
      BY <3>1, <3>2
    <3> QED BY <2>1, <3>2, <3>3
  <2>4. reply' \in [Owners -> Replies \cup {NoReply}]
    BY <2>1 DEF TypeOK
  <2> QED BY <1>6, <2>2, <2>3, <2>4 DEF Respond, Goto, TypeOK, PCs
<1>7. CASE FailStep(w)
  <2>1. PICK code \in ErrorCodes : Conclude(w, Failed(code))
    BY <1>7 DEF FailStep, ErrorCodes
  <2>2. Failed(code) \in Ends
    BY EndTypes
  <2> QED BY <1>7, <2>1, <2>2 DEF FailStep, Conclude, Goto, TypeOK, PCs
<1>8. CASE ToolInFlight(w)
  BY <1>8 DEF ToolInFlight, Goto, TypeOK, PCs, memoryVars
<1>9. CASE RequestError(w)
  BY <1>9, LeaveType DEF RequestError, TypeOK
<1>10. CASE AttemptFails(w)
  BY <1>10 DEF AttemptFails, Goto, TypeOK, PCs
<1>11. CASE CommitRead(w)
  <2>1. RowRead \in Snapshots
    BY DEF RowRead, RowReads, Snapshots, TypeOK, StoreTypeOK
  <2> QED BY <1>11, <2>1 DEF CommitRead, Goto, TypeOK, PCs
<1>14. CASE CommitCount(w)
  <2>1. snap[w] \in RowReads
    BY <1>14 DEF CommitCount, MemoryReady
  <2>2. CountRead(snap[w]) \in Snapshots
    BY <2>1, CountReadType DEF Snapshots
  <2> QED BY <1>14, <2>2 DEF CommitCount, Goto, TypeOK, PCs
<1>12. CASE Renew(w)
  <2>1. CASE HoldsLease(w)
    <3>1. reply[w] \in Replies
      BY <1>12 DEF Renew, MemoryReady
    <3>2. /\ nsteps' = [nsteps EXCEPT ![w] = @ + 1]
          /\ pending' = [pending EXCEPT ![w] = <<>>]
          /\ reply' = [reply EXCEPT ![w] = NoReply]
          /\ UNCHANGED <<usage, conv, attempt, snap>>
          /\ \/ Goto(w, "top") /\ UNCHANGED end
             \/ Conclude(w, Completed(reply[w]))
      BY <1>12, <2>1 DEF Renew
    <3>3. pending' \in [Owners -> Seq(Turns)]
      BY <3>2, EmptySeq DEF TypeOK
    <3>4. Completed(reply[w]) \in Ends
      BY <3>1, EndTypes
    <3>5. end' \in [Owners -> Ends \cup {NoEnd}] /\ pc' \in [Owners -> PCs]
      <4>1. pc \in [Owners -> PCs] /\ end \in [Owners -> Ends \cup {NoEnd}]
        BY DEF TypeOK
      <4> QED BY <3>2, <3>4, <4>1 DEF Conclude, Goto, PCs
    <3>6. /\ nsteps' \in [Owners -> Nat]
          /\ reply' \in [Owners -> Replies \cup {NoReply}]
      BY <3>2 DEF TypeOK
    <3> QED BY <3>2, <3>3, <3>5, <3>6 DEF TypeOK
  <2>2. CASE ~HoldsLease(w)
    <3>1. Leave(w)
      BY <1>12, <2>2 DEF Renew
    <3> QED BY <3>1, LeaveType DEF TypeOK
  <2> QED BY <2>1, <2>2
<1>13. CASE FinishRead(w)
  <2>1. FinishSnapshot \in Snapshots
    BY DEF FinishSnapshot, FinishSnapshots, Snapshots, TypeOK, StoreTypeOK
  <2> QED BY <1>13, <2>1 DEF FinishRead, Goto, TypeOK, PCs
<1> QED
  BY <1>2, <1>3, <1>4, <1>5, <1>6, <1>7, <1>8, <1>9, <1>10, <1>11, <1>12, <1>13,
     <1>14 DEF QuietStep

-----------------------------------------------------------------------------
(* Quiet steps preserve the invariant.                                     *)

\* Without a write to the child rows and counters, they stay contiguous.
LEMMA RowsFrame ==
    ASSUME LoopInv, UNCHANGED <<countVars, childVars>>
    PROVE  IsFiniteSet(DOMAIN messages)' /\ RowsContiguous'
BY DEF LoopInv, RowsContiguous, MessageCount, countVars, childVars

\* A read of the store, a reply or a failed attempt preserves the invariant.
LEMMA QuietInv ==
    ASSUME LoopInv, NEW w \in Owners, QuietStep(w)
    PROVE  LoopInv'
<1> USE DEF LoopInv
<1>1. TypeOK'
  BY QuietType
<1>2. storeVars' = storeVars /\ late' = late
  BY DEF QuietStep, LoadRun, LoadSteps, LoadMessages, PolicyCheck, Respond,
     FailStep, ToolInFlight, RequestError, AttemptFails, CommitRead, CommitCount,
     Renew, FinishRead, historyVars
<1>3. /\ UNCHANGED <<countVars, childVars, leaseVars>>
      /\ steps_taken' = steps_taken /\ tokens' = tokens
      /\ messages' = messages
      /\ lease_owner' = lease_owner /\ live' = live
  BY <1>2 DEF storeVars, leaseVars, countVars, childVars
<1>4. IsFiniteSet(DOMAIN messages)' /\ RowsContiguous'
  BY <1>3, RowsFrame
<1>5. \A v \in Owners \ {w} :
        /\ pc'[v] = pc[v] /\ nsteps'[v] = nsteps[v] /\ reply'[v] = reply[v]
        /\ snap'[v] = snap[v] /\ end'[v] = end[v]
  <2> SUFFICES ASSUME NEW v \in Owners \ {w}
               PROVE  /\ pc'[v] = pc[v] /\ nsteps'[v] = nsteps[v] /\ reply'[v] = reply[v]
                      /\ snap'[v] = snap[v] /\ end'[v] = end[v]
    OBVIOUS
  <2> USE DEF Goto, Conclude, Leave, memoryVars, TypeOK
  <2>1. CASE LoadRun(w) \/ LoadSteps(w) \/ LoadMessages(w)
    BY <2>1 DEF LoadRun, LoadSteps, LoadMessages
  <2>2. CASE PolicyCheck(w) \/ Respond(w)
    BY <2>2 DEF PolicyCheck, Respond
  <2>3. CASE FailStep(w) \/ ToolInFlight(w)
    BY <2>3 DEF FailStep, ToolInFlight
  <2>4. CASE RequestError(w) \/ AttemptFails(w)
    BY <2>4 DEF RequestError, AttemptFails
  <2>5. CASE CommitRead(w) \/ CommitCount(w) \/ FinishRead(w)
    BY <2>5 DEF CommitRead, CommitCount, FinishRead
  <2>6. CASE Renew(w)
    BY <2>6 DEF Renew
  <2> QED BY <2>1, <2>2, <2>3, <2>4, <2>5, <2>6 DEF QuietStep
<1>6. MemoryReady'
  <2> SUFFICES
        /\ pc'[w] \in {"commitRead", "commitCount", "commitWrite", "renew"} =>
             reply'[w] \in Replies
        /\ pc'[w] = "commitCount" => snap'[w] \in RowReads
        /\ pc'[w] = "commitWrite" => snap'[w] \in CommitSnapshots
        /\ pc'[w] \in {"finishRead", "finishWrite"} => end'[w] \in Ends
        /\ pc'[w] = "finishWrite" => snap'[w] \in FinishSnapshots
    BY <1>5 DEF MemoryReady
  <2> USE DEF Goto, TypeOK
  <2>1. CASE LoadRun(w) \/ LoadSteps(w) \/ LoadMessages(w) \/ ToolInFlight(w)
             \/ AttemptFails(w)
    BY <2>1 DEF LoadRun, LoadSteps, LoadMessages, ToolInFlight, AttemptFails
  <2>2. CASE PolicyCheck(w)
    <3>1. Failed("BUDGET_EXCEEDED") \in Ends
      BY EndTypes DEF ErrorCodes
    <3>2. \/ pc'[w] = "finishRead" /\ end'[w] = Failed("BUDGET_EXCEEDED")
          \/ pc'[w] = "ask"
      BY <2>2 DEF PolicyCheck, Conclude
    <3> QED BY <3>1, <3>2
  <2>3. CASE Respond(w)
    <3>1. pc'[w] = "commitRead" /\ reply'[w] \in Replies
      BY <2>3 DEF Respond
    <3> QED BY <3>1
  <2>4. CASE FailStep(w)
    <3>1. PICK code \in ErrorCodes : Conclude(w, Failed(code))
      BY <2>4 DEF FailStep, ErrorCodes
    <3>2. pc'[w] = "finishRead" /\ end'[w] = Failed(code)
      BY <3>1 DEF Conclude
    <3> QED BY <3>2, EndTypes
  <2>5. CASE RequestError(w)
    BY <2>5 DEF RequestError, Leave
  <2>6. CASE CommitRead(w)
    <3>1. RowRead \in RowReads
      BY DEF RowRead, RowReads, StoreTypeOK
    <3>2. pc[w] = "commitRead" /\ pc'[w] = "commitCount"
          /\ snap'[w] = RowRead /\ reply'[w] = reply[w]
      BY <2>6 DEF CommitRead
    <3> QED BY <3>1, <3>2 DEF MemoryReady
  <2>9. CASE CommitCount(w)
    <3>1. pc[w] = "commitCount" /\ pc'[w] = "commitWrite"
          /\ snap'[w] = CountRead(snap[w]) /\ reply'[w] = reply[w]
      BY <2>9 DEF CommitCount
    <3>2. snap[w] \in RowReads /\ reply[w] \in Replies
      BY <3>1 DEF MemoryReady
    <3>3. CountRead(snap[w]) \in CommitSnapshots
      BY <3>2, CountReadType
    <3> QED BY <3>1, <3>2, <3>3
  <2>7. CASE Renew(w)
    <3>1. \/ pc'[w] = "top" \/ pc'[w] = "idle"
          \/ pc'[w] = "finishRead" /\ end'[w] = Completed(reply[w])
      BY <2>7 DEF Renew, Conclude, Leave
    <3>2. Completed(reply[w]) \in Ends
      BY <2>7, EndTypes DEF Renew, MemoryReady
    <3> QED BY <3>1, <3>2
  <2>8. CASE FinishRead(w)
    <3>1. FinishSnapshot \in FinishSnapshots
      BY DEF FinishSnapshot, FinishSnapshots, StoreTypeOK
    <3>2. pc[w] = "finishRead" /\ pc'[w] = "finishWrite"
          /\ snap'[w] = FinishSnapshot /\ end'[w] = end[w]
      BY <2>8 DEF FinishRead
    <3> QED BY <3>1, <3>2 DEF MemoryReady
  <2> QED
    BY <2>1, <2>2, <2>3, <2>4, <2>5, <2>6, <2>7, <2>8, <2>9 DEF QuietStep
<1>7. nsteps'[w] <= steps_taken /\ pc'[w] # "renew"
  <2> USE DEF Goto, TypeOK
  <2>1. CASE LoadSteps(w)
    <3>1. Cardinality(DOMAIN steps) = steps_taken
      BY IntervalCount DEF RowsContiguous, StoreTypeOK
    <3> QED BY <2>1, <3>1 DEF LoadSteps, StoreTypeOK
  <2>2. CASE Renew(w)
    <3>1. nsteps[w] < steps_taken
      BY <2>2 DEF Renew, NothingBelievedUntilStored
    <3>2. nsteps'[w] \in {0, nsteps[w] + 1}
          /\ pc'[w] \in {"top", "idle", "finishRead"}
      BY <2>2 DEF Renew, Leave, Conclude
    <3>3. nsteps[w] \in Nat /\ steps_taken \in Nat
      BY DEF StoreTypeOK
    <3>4. nsteps'[w] <= steps_taken
      BY <3>1, <3>2, <3>3
    <3> QED BY <3>2, <3>4
  <2>3. CASE RequestError(w)
    BY <2>3 DEF RequestError, Leave, StoreTypeOK
  <2>4. CASE PolicyCheck(w) \/ FailStep(w)
    <3>1. nsteps' = nsteps /\ pc'[w] \in {"ask", "finishRead"}
      BY <2>4 DEF PolicyCheck, FailStep, Conclude
    <3> QED BY <3>1 DEF NothingBelievedUntilStored
  <2>5. CASE LoadRun(w) \/ LoadMessages(w) \/ Respond(w) \/ ToolInFlight(w)
             \/ AttemptFails(w) \/ CommitRead(w) \/ CommitCount(w) \/ FinishRead(w)
    <3>1. nsteps' = nsteps /\ pc'[w] # "renew"
      BY <2>5 DEF LoadRun, LoadMessages, Respond, ToolInFlight, AttemptFails,
         CommitRead, CommitCount, FinishRead, memoryVars
    <3> QED BY <3>1 DEF NothingBelievedUntilStored
  <2> QED BY <2>1, <2>2, <2>3, <2>4, <2>5 DEF QuietStep
<1>8. NothingBelievedUntilStored'
  BY <1>3, <1>5, <1>7 DEF NothingBelievedUntilStored
<1>9. FreshIfFree'
  <2>1. MessageCount' = MessageCount
    BY <1>3 DEF MessageCount
  <2>2. nsteps'[w] = steps_taken =>
          /\ pc'[w] \in {"commitCount", "commitWrite"} => snap'[w].tokens = tokens
          /\ pc'[w] = "commitWrite" => snap'[w].count = MessageCount
    <3>1. CASE CommitRead(w)
      <4>1. pc'[w] = "commitCount" /\ snap'[w] = RowRead
        BY <3>1 DEF CommitRead, Goto, TypeOK
      <4> QED BY <4>1 DEF RowRead
    <3>2. CASE CommitCount(w)
      <4>1. /\ pc[w] = "commitCount" /\ nsteps'[w] = nsteps[w]
            /\ snap'[w] = CountRead(snap[w])
        BY <3>2 DEF CommitCount, TypeOK
      <4>2. snap'[w].count = MessageCount /\ snap'[w].tokens = snap[w].tokens
        BY <4>1 DEF CountRead
      <4>3. nsteps[w] = steps_taken => snap[w].tokens = tokens
        BY <4>1 DEF FreshIfFree
      <4> QED BY <4>1, <4>2, <4>3
    <3>3. CASE ~CommitRead(w) /\ ~CommitCount(w)
      <4>1. pc'[w] \notin {"commitCount", "commitWrite"}
        BY <3>3 DEF QuietStep, LoadRun, LoadSteps, LoadMessages, PolicyCheck,
           Respond, FailStep, ToolInFlight, RequestError, AttemptFails, Renew,
           FinishRead, Leave, Conclude, Goto, TypeOK
      <4> QED BY <4>1
    <3> QED BY <3>1, <3>2, <3>3
  <2> QED BY <1>3, <1>5, <2>1, <2>2 DEF FreshIfFree
<1>10. LateMeansLosing'
  <2>1. late[w] = 0 \/ pc'[w] = "idle"
    <3>1. CASE Renew(w)
      <4>1. CASE HoldsLease(w)
        BY <3>1, <4>1 DEF Renew, LateMeansLosing
      <4>2. CASE ~HoldsLease(w)
        BY <3>1, <4>2 DEF Renew, Leave, Goto, TypeOK
      <4> QED BY <4>1, <4>2
    <3>2. CASE ~Renew(w)
      <4>1. pc[w] \notin {"idle", "renew"}
        BY <3>2 DEF QuietStep, LoadRun, LoadSteps, LoadMessages, PolicyCheck,
           Respond, FailStep, ToolInFlight, RequestError, AttemptFails,
           CommitRead, CommitCount, FinishRead
      <4> QED BY <4>1 DEF LateMeansLosing
    <3> QED BY <3>1, <3>2
  <2>2. \A v \in Owners : HoldsLease(v)' = HoldsLease(v)
    BY <1>3 DEF HoldsLease
  <2>3. \A v \in Owners : late[v] \in {0, 1}
    BY DEF LateMeansLosing
  <2> QED
    BY <1>2, <1>5, <2>1, <2>2, <2>3 DEF LateMeansLosing
<1>11. LiveMeansOwned'
  BY <1>3 DEF LiveMeansOwned
<1> QED BY <1>1, <1>4, <1>6, <1>8, <1>9, <1>10, <1>11

-----------------------------------------------------------------------------
(* The steps that write the run's row, but no step: claim, record_retry,   *)
(* finish, release, a crash, and the lease running out.                    *)

\* What these steps have in common.
RowWrite(w) ==
    \/ Claim(w) \/ RecordRetry(w) \/ FinishWrite(w) \/ Pause(w) \/ Crash(w)

\* finish writes columns of the right type, whichever of them it writes.
LEMMA FinishType ==
    ASSUME TypeOK, NEW e \in Ends, NEW s \in FinishSnapshots, finish(e, s)
    PROVE  StoreTypeOK'
<1> USE DEF TypeOK, StoreTypeOK
<1>1. /\ e.status \in RunStatus /\ e.output \in Bodies \cup {Null}
      /\ e.error_code \in ErrorCodes \cup {Null}
  BY DEF Ends, RunStatus, Terminal
<1>2. status' \in RunStatus
  BY <1>1 DEF finish, Updated
<1>3. output' \in Bodies \cup {Null} /\ error_code' \in ErrorCodes \cup {Null}
  BY <1>1 DEF finish, Updated
<1>4. lease_owner' \in Owners \cup {Nobody} /\ live' \in BOOLEAN
  BY DEF finish, Updated
<1>5. UNCHANGED <<steps_taken, tokens, retries_used, steps, messages>>
  BY DEF finish, countVars, childVars
<1> QED BY <1>2, <1>3, <1>4, <1>5

\* These steps leave rows and counters alone, keep the types, and give no
\* worker but a claimant a lease it did not hold.
LEMMA RowWriteFacts ==
    ASSUME LoopInv, NEW w \in Owners, RowWrite(w)
    PROVE  /\ TypeOK'
           /\ UNCHANGED <<countVars, childVars>>
           /\ LiveMeansOwned'
           /\ \A v \in Owners \ {w} : HoldsLease(v)' => HoldsLease(v)
           /\ pc'[w] \in {"idle", "loadRun", "ask", "finishRead"}
           /\ nsteps'[w] \in {0, nsteps[w]}
           /\ pc'[w] = "finishRead" => end'[w] \in Ends
           /\ late'[w] = 0 \/ (late'[w] = late[w] /\ pc'[w] = "idle")
           /\ \A v \in Owners \ {w} :
                /\ pc'[v] = pc[v] /\ nsteps'[v] = nsteps[v] /\ reply'[v] = reply[v]
                /\ snap'[v] = snap[v] /\ end'[v] = end[v] /\ late'[v] = late[v]
<1> USE DEF LoopInv
<1>1. CASE Claim(w)
  <2>1. StoreTypeOK'
    BY <1>1 DEF Claim, claim, TypeOK, StoreTypeOK, RunStatus, Resumable,
       countVars, resultVars, childVars
  <2>2. LiveMeansOwned'
    BY <1>1 DEF Claim, claim, LiveMeansOwned
  <2> QED
    BY <1>1, <2>1, <2>2
       DEF Claim, claim, Goto, TypeOK, PCs, memoryVars, HoldsLease
<1>2. CASE RecordRetry(w)
  <2>1. Failed("STEP_FAILED") \in Ends
    BY EndTypes DEF ErrorCodes
  <2>2. StoreTypeOK' /\ UNCHANGED <<leaseVars, countVars, childVars>>
    <3>1. /\ retries_used' = retries_used + 1
          /\ UNCHANGED <<status, leaseVars, countVars, resultVars, childVars>>
      BY <1>2 DEF RecordRetry, record_retry
    <3>2. UNCHANGED <<status, lease_owner, live, steps_taken, tokens, output,
                      error_code, steps, messages>>
      BY <3>1 DEF leaseVars, countVars, resultVars, childVars
    <3>3. StoreTypeOK
      BY DEF TypeOK
    <3>4. retries_used' \in Nat
      BY <3>1, <3>3 DEF StoreTypeOK
    <3>5. StoreTypeOK'
      BY <3>2, <3>3, <3>4 DEF StoreTypeOK
    <3> QED BY <3>1, <3>5
  <2>3. late[w] = 0
    BY <1>2 DEF RecordRetry, LateMeansLosing
  <2>4. /\ UNCHANGED <<nsteps, usage, conv, pending, attempt, reply, snap,
                       faults, historyVars>>
        /\ \/ Conclude(w, Failed("STEP_FAILED"))
           \/ Goto(w, "ask") /\ UNCHANGED end
    BY <1>2 DEF RecordRetry
  <2>5. TypeOK'
    <3>1. pc' \in [Owners -> PCs] /\ end' \in [Owners -> Ends \cup {NoEnd}]
      <4>1. pc \in [Owners -> PCs] /\ end \in [Owners -> Ends \cup {NoEnd}]
        BY DEF TypeOK
      <4> QED BY <2>1, <2>4, <4>1 DEF Conclude, Goto, PCs
    <3> QED BY <2>2, <2>4, <3>1 DEF TypeOK, historyVars
  <2>6. LiveMeansOwned'
    BY <2>2 DEF LiveMeansOwned, leaseVars
  <2> QED
    BY <2>1, <2>2, <2>3, <2>4, <2>5, <2>6
       DEF Conclude, Goto, TypeOK, HoldsLease, leaseVars, historyVars
<1>3. CASE FinishWrite(w)
  <2>1. end[w] \in Ends /\ snap[w] \in FinishSnapshots
    BY <1>3 DEF FinishWrite, MemoryReady
  <2>2. finish(end[w], snap[w]) /\ Leave(w) /\ UNCHANGED <<faults, historyVars>>
    BY <1>3 DEF FinishWrite
  <2>3. StoreTypeOK'
    BY <2>1, <2>2, FinishType
  <2>4. TypeOK'
    BY <2>2, <2>3, LeaveType DEF TypeOK, historyVars
  <2>5. \A v \in Owners \ {w} : HoldsLease(v)' => HoldsLease(v)
    BY <2>2 DEF finish, Updated, HoldsLease
  <2>6. LiveMeansOwned'
    BY <2>2 DEF finish, Updated, LiveMeansOwned
  <2> QED
    BY <2>2, <2>4, <2>5, <2>6 DEF finish, Leave, Goto, TypeOK, historyVars
<1>4. CASE Pause(w)
  <2>1. release(w, "PAUSED") /\ Leave(w) /\ UNCHANGED <<faults, historyVars>>
    BY <1>4 DEF Pause
  <2>2. StoreTypeOK' /\ UNCHANGED <<countVars, childVars>>
    BY <2>1 DEF release, TypeOK, StoreTypeOK, RunStatus, Resumable, leaseVars,
       countVars, resultVars, childVars
  <2>3. TypeOK'
    BY <2>1, <2>2, LeaveType DEF TypeOK, historyVars
  <2>4. \A v \in Owners \ {w} : HoldsLease(v)' => HoldsLease(v)
    BY <2>1 DEF release, HoldsLease, leaseVars
  <2>5. LiveMeansOwned'
    BY <2>1 DEF release, LiveMeansOwned, leaseVars
  <2> QED BY <2>1, <2>2, <2>3, <2>4, <2>5 DEF Leave, Goto, TypeOK, historyVars
<1>5. CASE Crash(w)
  <2>1. UNCHANGED <<leaseVars, countVars, childVars>> /\ StoreTypeOK'
    BY <1>5 DEF Crash, storeVars, TypeOK, StoreTypeOK, leaseVars, countVars,
       resultVars, childVars
  <2>2. faults' \in 0..MaxFaults
    BY <1>5 DEF Crash, TypeOK
  <2>3. TypeOK'
    BY <1>5, <2>1, <2>2, LeaveType DEF Crash, TypeOK, historyVars
  <2>4. LiveMeansOwned'
    BY <2>1 DEF LiveMeansOwned, leaseVars
  <2> QED
    BY <1>5, <2>1, <2>3, <2>4 DEF Crash, Leave, Goto, TypeOK, HoldsLease, leaseVars,
       historyVars
<1> QED BY <1>1, <1>2, <1>3, <1>4, <1>5 DEF RowWrite

\* Steps that write only the run's row preserve the invariant.
LEMMA RowWriteInv ==
    ASSUME LoopInv, NEW w \in Owners, RowWrite(w)
    PROVE  LoopInv'
<1> USE DEF LoopInv
<1>1. IsFiniteSet(DOMAIN messages)' /\ RowsContiguous'
  BY RowWriteFacts, RowsFrame
<1>2. UNCHANGED <<steps_taken, tokens, messages>>
  BY RowWriteFacts DEF countVars, childVars
<1>3. MemoryReady'
  BY RowWriteFacts DEF MemoryReady
<1>4. NothingBelievedUntilStored'
  <2>1. nsteps[w] \in Nat /\ steps_taken \in Nat /\ nsteps[w] <= steps_taken
    BY DEF TypeOK, StoreTypeOK, NothingBelievedUntilStored
  <2> QED BY <1>2, <2>1, RowWriteFacts DEF NothingBelievedUntilStored
<1>5. FreshIfFree'
  BY <1>2, RowWriteFacts DEF FreshIfFree, MessageCount
<1>6. LateMeansLosing'
  BY RowWriteFacts DEF LateMeansLosing
<1> QED BY RowWriteFacts, <1>1, <1>3, <1>4, <1>5, <1>6

\* The lease running out, under a driver or not, takes a lease away and does
\* nothing else.
LEMMA ExpiryInv ==
    ASSUME LoopInv, LeaseExpires \/ LeaseLapses
    PROVE  LoopInv'
<1> USE DEF LoopInv
<1>1. /\ UNCHANGED <<status, lease_owner, countVars, retries_used, resultVars, childVars>>
      /\ UNCHANGED <<pc, memoryVars, historyVars>>
      /\ live' = FALSE
      /\ faults' \in 0..MaxFaults
  BY DEF LeaseExpires, LeaseLapses, expire, TypeOK
<1>2. TypeOK'
  BY <1>1 DEF TypeOK, StoreTypeOK, countVars, resultVars, childVars, memoryVars,
     historyVars
<1>3. IsFiniteSet(DOMAIN messages)' /\ RowsContiguous'
  BY <1>1, RowsFrame
<1>4. MemoryReady' /\ NothingBelievedUntilStored' /\ FreshIfFree'
  BY <1>1 DEF MemoryReady, NothingBelievedUntilStored, FreshIfFree, MessageCount,
     memoryVars, countVars, childVars
<1>5. LateMeansLosing' /\ LiveMeansOwned'
  BY <1>1 DEF LateMeansLosing, LiveMeansOwned, HoldsLease, historyVars
<1> QED BY <1>2, <1>3, <1>4, <1>5

-----------------------------------------------------------------------------
(* commit_step's write.                                                    *)

\* The index and the counters a successful commit writes are right: the step
\* index is free only if nothing was stored since the snapshot.
LEMMA CommitLands ==
    ASSUME LoopInv, NEW w \in Owners, pc[w] = "commitWrite",
           ~Conflicts(nsteps[w], pending[w], snap[w])
    PROVE  /\ nsteps[w] = steps_taken
           /\ snap[w] \in CommitSnapshots
           /\ snap[w].count = MessageCount
           /\ snap[w].tokens = tokens
<1> USE DEF LoopInv
<1>1. nsteps[w] \in Nat /\ steps_taken \in Nat /\ nsteps[w] <= steps_taken
  BY DEF TypeOK, StoreTypeOK, NothingBelievedUntilStored
<1>2. nsteps[w] \notin 0..(steps_taken - 1)
  BY DEF Conflicts, RowsContiguous
<1>3. nsteps[w] = steps_taken
  BY <1>1, <1>2
<1> QED BY <1>3 DEF FreshIfFree, MemoryReady

\* commit_step preserves the invariant, whether the step is stored or found to
\* be stored already.
LEMMA CommitWriteInv ==
    ASSUME LoopInv, NEW w \in Owners, CommitWrite(w)
    PROVE  LoopInv'
<1> USE DEF LoopInv
<1>1. /\ pc[w] = "commitWrite"
      /\ pc' = [pc EXCEPT ![w] = "renew"]
      /\ snap' = [snap EXCEPT ![w] = NoSnap]
      /\ UNCHANGED <<nsteps, usage, conv, pending, attempt, reply, end, faults>>
  BY DEF CommitWrite, Goto
<1>2. reply[w] \in Replies
  BY <1>1 DEF MemoryReady
<1>3. CASE Conflicts(nsteps[w], pending[w], snap[w])
  <2>1. UNCHANGED <<storeVars, historyVars>>
    BY <1>3 DEF CommitWrite
  <2>2. TypeOK'
    BY <1>1, <2>1 DEF TypeOK, StoreTypeOK, PCs, Snapshots, storeVars, leaseVars, countVars,
       resultVars, childVars, historyVars
  <2>3. IsFiniteSet(DOMAIN messages)' /\ RowsContiguous'
    BY <2>1, RowsFrame DEF storeVars
  <2>4. nsteps[w] < steps_taken
    <3>1. nsteps[w] # steps_taken
      <4> SUFFICES ASSUME nsteps[w] = steps_taken PROVE FALSE
        OBVIOUS
      <4>1. steps_taken \in Nat /\ MessageCount \in Nat
        BY StoredConversationType DEF TypeOK, StoreTypeOK
      <4>2. steps_taken \notin DOMAIN steps
        BY <4>1 DEF RowsContiguous
      <4>3. snap[w].count = MessageCount
        BY <1>1 DEF FreshIfFree
      <4>4. Len(pending[w]) \in Nat
        BY LenProperties DEF TypeOK
      <4>5. \A i \in 0..(Len(pending[w]) - 1) :
              snap[w].count + i \notin DOMAIN messages
        BY <4>1, <4>3, <4>4 DEF RowsContiguous
      <4> QED BY <1>3, <4>2, <4>5 DEF Conflicts
    <3>2. nsteps[w] \in Nat /\ steps_taken \in Nat
      BY DEF TypeOK, StoreTypeOK
    <3>3. nsteps[w] <= steps_taken
      BY DEF NothingBelievedUntilStored
    <3> QED BY <3>1, <3>2, <3>3
  <2>5. MemoryReady'
    BY <1>1, <1>2 DEF MemoryReady, TypeOK
  <2>6. NothingBelievedUntilStored' /\ FreshIfFree'
    <3>1. UNCHANGED <<nsteps, steps_taken, tokens, MessageCount>>
      BY <1>1, <2>1 DEF MessageCount, storeVars, countVars, childVars
    <3>2. \A v \in Owners : pc'[v] = IF v = w THEN "renew" ELSE pc[v]
      BY <1>1 DEF TypeOK
    <3>3. \A v \in Owners : v # w => snap'[v] = snap[v]
      BY <1>1 DEF TypeOK
    <3>4. NothingBelievedUntilStored'
      BY <2>4, <3>1, <3>2 DEF NothingBelievedUntilStored
    <3>5. FreshIfFree'
      BY <3>1, <3>2, <3>3 DEF FreshIfFree
    <3> QED BY <3>4, <3>5
  <2>7. LateMeansLosing' /\ LiveMeansOwned'
    BY <1>1, <2>1 DEF LateMeansLosing, LiveMeansOwned, HoldsLease, TypeOK,
       storeVars, leaseVars, historyVars
  <2> QED BY <2>2, <2>3, <2>5, <2>6, <2>7
<1>4. CASE ~Conflicts(nsteps[w], pending[w], snap[w])
  <2>1. /\ insertStep(nsteps[w], reply[w], pending[w], snap[w])
        /\ late' = [late EXCEPT ![w] = IF HoldsLease(w) THEN @ ELSE @ + 1]
        /\ lateSteps' = lateSteps \cup (IF HoldsLease(w) THEN {} ELSE {nsteps[w]})
    BY <1>4 DEF CommitWrite
  <2>2. /\ nsteps[w] = steps_taken
        /\ snap[w] \in CommitSnapshots
        /\ snap[w].count = MessageCount
        /\ snap[w].tokens = tokens
    BY <1>1, <1>4, CommitLands
  <2>3. /\ steps' = Inserted(steps, steps_taken, <<reply[w]>>)
        /\ messages' = Inserted(messages, MessageCount, pending[w])
        /\ steps_taken' = steps_taken + 1
        /\ tokens' = tokens + reply[w].cost
        /\ UNCHANGED <<leaseVars, retries_used, resultVars>>
    BY <2>1, <2>2 DEF insertStep
  <2>4. /\ steps_taken \in Nat /\ MessageCount \in Nat /\ tokens \in Nat
        /\ pending[w] \in Seq(Turns) /\ Len(pending[w]) \in Nat
        /\ reply[w].cost \in Nat
    BY <1>2, StoredConversationType, LenProperties DEF TypeOK, StoreTypeOK, Replies
  <2>5. <<reply[w]>> \in Seq(Replies) /\ Len(<<reply[w]>>) = 1
    BY <1>2
  <2>6. /\ DOMAIN steps' = 0..steps_taken
        /\ \A i \in 0..steps_taken : steps'[i] \in Replies
    <3>1. \A i \in 0..(steps_taken - 1) : steps[i] \in Replies
      <4>1. DOMAIN steps = 0..(steps_taken - 1) /\ steps \in [DOMAIN steps -> Replies]
        BY DEF TypeOK, StoreTypeOK, RowsContiguous
      <4> QED BY <4>1
    <3>2. DOMAIN steps = 0..(steps_taken - 1)
      BY DEF RowsContiguous
    <3>4. /\ DOMAIN steps' = 0..steps_taken
          /\ \A i \in 0..(steps_taken - 1) : steps'[i] = steps[i]
          /\ steps'[steps_taken] = reply[w]
      <4> DEFINE row == reply[w]
                 t == Inserted(steps, steps_taken, <<row>>)
      <4>1. steps' = t
        BY <2>3, <2>4
      <4>2. steps_taken \in Nat
        BY <2>4
      <4> HIDE DEF row
      <4>3. /\ DOMAIN t = 0..steps_taken
            /\ \A i \in 0..(steps_taken - 1) : t[i] = steps[i]
            /\ t[steps_taken] = row
        BY <3>2, <4>2, RowAppended
      <4> HIDE DEF t
      <4> QED BY <4>1, <4>3 DEF row
    <3> QED BY <1>2, <2>4, <3>1, <3>4
  <2>7. /\ DOMAIN messages' = 0..(MessageCount + Len(pending[w]) - 1)
        /\ \A i \in 0..(MessageCount + Len(pending[w]) - 1) : messages'[i] \in Turns
        /\ IsFiniteSet(DOMAIN messages')
        /\ Cardinality(DOMAIN messages') = MessageCount + Len(pending[w])
    <3>1. DOMAIN messages = 0..(MessageCount - 1)
      BY DEF RowsContiguous
    <3>2. \A i \in 0..(MessageCount - 1) : messages[i] \in Turns
      BY <3>1 DEF TypeOK, StoreTypeOK
    <3> DEFINE rows == pending[w]
               n == MessageCount
               t == Inserted(messages, n, rows)
    <3>3. rows \in Seq(Turns) /\ n \in Nat
      BY <2>4
    <3>4. DOMAIN messages = 0..(n - 1) /\ \A i \in 0..(n - 1) : messages[i] \in Turns
      BY <3>1, <3>2
    <3>5. messages' = t
      BY <2>3
    <3> HIDE DEF rows, n, LoopInv
    <3>6. /\ n + Len(rows) \in Nat
          /\ DOMAIN Inserted(messages, n, rows) = 0..(n + Len(rows) - 1)
          /\ \A i \in 0..(n - 1) : Inserted(messages, n, rows)[i] = messages[i]
          /\ \A i \in 0..(n + Len(rows) - 1) : Inserted(messages, n, rows)[i] \in Turns
          /\ IsFiniteSet(DOMAIN Inserted(messages, n, rows))
          /\ Cardinality(DOMAIN Inserted(messages, n, rows)) = n + Len(rows)
      BY ONLY <3>3, <3>4, RowsAppended
    <3> QED BY <3>5, <3>6 DEF rows, n
  <2>8. /\ steps' = [i \in DOMAIN steps' |-> steps'[i]]
        /\ messages' = [i \in DOMAIN messages' |-> messages'[i]]
    BY <2>3 DEF Inserted
  <2>9. StoreTypeOK'
    <3>1. status' \in RunStatus
      BY <2>1 DEF insertStep, TypeOK, StoreTypeOK, RunStatus, Resumable
    <3>2. DOMAIN steps' \subseteq Nat /\ steps' \in [DOMAIN steps' -> Replies]
      <4>1. \A i \in DOMAIN steps' : i \in Nat /\ steps'[i] \in Replies
        BY ONLY <2>4, <2>6
      <4> QED BY ONLY <2>8, <4>1
    <3>3. DOMAIN messages' \subseteq Nat /\ messages' \in [DOMAIN messages' -> Turns]
      <4>1. \A i \in DOMAIN messages' : i \in Nat /\ messages'[i] \in Turns
        BY ONLY <2>4, <2>7
      <4> QED BY ONLY <2>8, <4>1
    <3>4. steps_taken' \in Nat /\ tokens' \in Nat
      BY <2>3, <2>4
    <3> QED
      BY <2>3, <3>1, <3>2, <3>3, <3>4 DEF TypeOK, StoreTypeOK, leaseVars, resultVars
  <2>10. TypeOK'
    <3>1. lateSteps' \subseteq Nat
      <4>1. lateSteps \subseteq Nat /\ nsteps[w] \in Nat
        BY DEF TypeOK
      <4>2. lateSteps' = lateSteps \cup (IF HoldsLease(w) THEN {} ELSE {nsteps[w]})
        BY <2>1
      <4> QED BY ONLY <4>1, <4>2
    <3> QED
      BY <1>1, <2>1, <2>9, <3>1 DEF TypeOK, PCs, Snapshots
  <2>11. /\ IsFiniteSet(DOMAIN messages)'
         /\ MessageCount' = MessageCount + Len(pending[w])
    BY <2>7 DEF MessageCount
  <2>12. RowsContiguous'
    <3>1. steps_taken \in Nat /\ steps_taken' = steps_taken + 1
      BY <2>3, <2>4
    <3>2. steps_taken' - 1 = steps_taken
      BY ONLY <3>1
    <3>3. DOMAIN steps' = 0..(steps_taken' - 1)
      BY ONLY <2>6, <3>2
    <3>4. DOMAIN messages' = 0..(MessageCount' - 1)
      <4>1. DOMAIN messages' = 0..(MessageCount + Len(pending[w]) - 1)
        BY <2>7
      <4>2. MessageCount' = MessageCount + Len(pending[w])
        BY <2>11
      <4>3. MessageCount \in Nat /\ Len(pending[w]) \in Nat
        BY <2>4
      <4> QED BY ONLY <4>1, <4>2, <4>3
    <3> QED BY ONLY <3>3, <3>4 DEF RowsContiguous
  <2>13. MemoryReady'
    BY <1>1, <1>2 DEF MemoryReady, TypeOK
  <2>14. \A v \in Owners : nsteps'[v] <= steps_taken' /\ nsteps'[v] < steps_taken'
    <3>1. nsteps' = nsteps
      BY <1>1
    <3>2. steps_taken' = steps_taken + 1
      BY <2>3, <2>4
    <3>3. steps_taken \in Nat
      BY <2>4
    <3>4. \A v \in Owners : nsteps[v] \in Nat /\ nsteps[v] <= steps_taken
      <4>1. nsteps \in [Owners -> Nat]
        BY DEF TypeOK
      <4>2. \A v \in Owners : nsteps[v] <= steps_taken
        BY DEF NothingBelievedUntilStored
      <4> QED BY <4>1, <4>2
    <3> HIDE DEF LoopInv
    <3> TAKE v \in Owners
    <3>5. nsteps[v] \in Nat /\ nsteps[v] <= steps_taken
      BY <3>4
    <3> QED BY ONLY <3>1, <3>2, <3>3, <3>5
  <2>15. NothingBelievedUntilStored' /\ FreshIfFree'
    <3>1. NothingBelievedUntilStored'
      BY ONLY <2>14 DEF NothingBelievedUntilStored
    <3>2. \A v \in Owners : nsteps'[v] # steps_taken'
      BY <2>3, <2>4, <2>14, <1>1 DEF TypeOK
    <3>3. FreshIfFree'
      BY ONLY <3>2 DEF FreshIfFree
    <3> QED BY <3>1, <3>3
  <2>16. LateMeansLosing'
    <3>1. late[w] = 0
      BY <1>1 DEF LateMeansLosing
    <3>2. \A v \in Owners : HoldsLease(v)' = HoldsLease(v)
      BY <2>3 DEF HoldsLease, leaseVars
    <3>3. late'[w] = 0 \/ (late'[w] = 1 /\ ~HoldsLease(w))
      BY <2>1, <3>1 DEF TypeOK
    <3>4. \A v \in Owners \ {w} : late'[v] = late[v] /\ pc'[v] = pc[v]
      BY <1>1, <2>1 DEF TypeOK
    <3>5. pc'[w] = "renew"
      BY <1>1 DEF TypeOK
    <3> QED BY <3>2, <3>3, <3>4, <3>5 DEF LateMeansLosing
  <2>17. LiveMeansOwned'
    BY <2>3 DEF LiveMeansOwned, leaseVars
  <2> QED BY <2>10, <2>11, <2>12, <2>13, <2>15, <2>16, <2>17
<1> QED BY <1>3, <1>4

-----------------------------------------------------------------------------
(* The invariant, and what follows from it.                                *)

\* Every step of the system preserves the invariant.
LEMMA LoopInvStep ==
    ASSUME LoopInv, [Next]_vars
    PROVE  LoopInv'
<1>1. ASSUME NEW w \in Owners, Claim(w) \/ Drive(w) \/ Crash(w)
      PROVE  LoopInv'
  <2>1. QuietStep(w) \/ RowWrite(w) \/ CommitWrite(w)
    BY <1>1 DEF Drive, QuietStep, RowWrite
  <2> QED BY <2>1, QuietInv, RowWriteInv, CommitWriteInv
<1>2. CASE LeaseExpires \/ LeaseLapses
  BY <1>2, ExpiryInv
<1>3. CASE Over \/ UNCHANGED vars
  <2>1. UNCHANGED vars
    BY <1>3 DEF Over
  <2> QED
    BY <2>1 DEF vars, storeVars, leaseVars, countVars, resultVars, childVars,
       memoryVars, historyVars, LoopInv, TypeOK, StoreTypeOK, RowsContiguous,
       MessageCount, MemoryReady, NothingBelievedUntilStored, FreshIfFree,
       LateMeansLosing, LiveMeansOwned, HoldsLease
<1> QED BY <1>1, <1>2, <1>3 DEF Next

\* A run that has just been created, with nobody driving it, satisfies it.
LEMMA LoopInvInit ==
    ASSUME Init
    PROVE  LoopInv
<1>1. DOMAIN steps = {} /\ DOMAIN messages = {} /\ steps_taken = 0
  BY DEF Init, Created
<1>2. IsFiniteSet(DOMAIN messages) /\ MessageCount = 0
  BY <1>1, FS_EmptySet DEF MessageCount
<1>3. StoreTypeOK
  <2>1. steps \in [DOMAIN steps -> Replies] /\ messages \in [DOMAIN messages -> Turns]
    BY DEF Init, Created
  <2>2. DOMAIN steps \subseteq Nat /\ DOMAIN messages \subseteq Nat
    BY <1>1
  <2>3. /\ status \in RunStatus /\ lease_owner \in Owners \cup {Nobody}
        /\ live \in BOOLEAN /\ output \in Bodies \cup {Null}
        /\ error_code \in ErrorCodes \cup {Null}
        /\ steps_taken \in Nat /\ tokens \in Nat /\ retries_used \in Nat
    BY DEF Init, Created, RunStatus, Resumable
  <2> QED BY <2>1, <2>2, <2>3 DEF StoreTypeOK
<1>4. TypeOK
  <2>1. <<>> \in Seq(Turns)
    OBVIOUS
  <2> QED BY <1>3, <2>1 DEF Init, TypeOK, PCs, Snapshots, NoUsage
<1>5. RowsContiguous
  BY <1>1, <1>2 DEF RowsContiguous
<1>6. /\ MemoryReady /\ NothingBelievedUntilStored /\ FreshIfFree
      /\ LateMeansLosing /\ LiveMeansOwned
  BY <1>1 DEF Init, Created, MemoryReady, NothingBelievedUntilStored, FreshIfFree,
     LateMeansLosing, LiveMeansOwned
<1> QED BY <1>2, <1>4, <1>5, <1>6 DEF LoopInv

\* The inductive invariant holds in every reachable state.
THEOREM LoopInvariant == Spec => []LoopInv
BY LoopInvInit, LoopInvStep, PTL DEF Spec

\* No worker, and no row, ever holds a value of the wrong type.
THEOREM TypeCorrect == Spec => []TypeOK
<1>1. LoopInv => TypeOK
  BY DEF LoopInv
<1> QED BY <1>1, LoopInvariant, PTL

\* Step rows and message rows are numbered without a gap and steps_taken counts
\* the former, whatever workers commit in whatever order.
THEOREM RowsAreContiguous == Spec => []RowsContiguous
<1>1. LoopInv => RowsContiguous
  BY DEF LoopInv
<1> QED BY <1>1, LoopInvariant, PTL

\* A worker whose lease is gone stores at most one more step.
THEOREM LateWorkersStop == Spec => []OneLateStep
<1>1. LoopInv => OneLateStep
  BY DEF LoopInv, LateMeansLosing, OneLateStep
<1> QED BY <1>1, LoopInvariant, PTL

\* These actions of a worker leave the store alone.
LEMMA QuietActions ==
    ASSUME NEW w \in Owners, QuietStep(w) \/ Crash(w)
    PROVE  UNCHANGED storeVars
<1>1. CASE LoadRun(w) \/ LoadSteps(w) \/ LoadMessages(w)
  BY <1>1 DEF LoadRun, LoadSteps, LoadMessages
<1>2. CASE PolicyCheck(w) \/ Respond(w) \/ FailStep(w)
  BY <1>2 DEF PolicyCheck, Respond, FailStep
<1>3. CASE ToolInFlight(w) \/ RequestError(w) \/ AttemptFails(w)
  BY <1>3 DEF ToolInFlight, RequestError, AttemptFails
<1>4. CASE CommitRead(w) \/ CommitCount(w) \/ Renew(w)
  BY <1>4 DEF CommitRead, CommitCount, Renew
<1>5. CASE FinishRead(w) \/ Crash(w)
  BY <1>5 DEF FinishRead, Crash
<1> QED BY <1>1, <1>2, <1>3, <1>4, <1>5 DEF QuietStep

\* Step and message rows are written by commit_step alone.
LEMMA OnlyCommitsTouchRows ==
    ASSUME [Next]_vars, ~\E w \in Owners : CommitWrite(w)
    PROVE  UNCHANGED <<steps, messages>>
<1>1. ASSUME NEW w \in Owners, Claim(w) \/ Drive(w) \/ Crash(w)
      PROVE  UNCHANGED <<steps, messages>>
  <2>1. CASE Claim(w)
    BY <2>1 DEF Claim, claim, childVars
  <2>2. CASE RecordRetry(w)
    BY <2>2 DEF RecordRetry, record_retry, childVars
  <2>3. CASE FinishWrite(w)
    BY <2>3 DEF FinishWrite, finish, childVars
  <2>4. CASE Pause(w)
    BY <2>4 DEF Pause, release, storeVars, childVars
  <2>5. CASE ~(Claim(w) \/ RecordRetry(w) \/ FinishWrite(w) \/ Pause(w))
    <3>1. UNCHANGED storeVars
      BY <1>1, <2>5, QuietActions DEF Drive, QuietStep
    <3> QED BY <3>1 DEF storeVars, childVars
  <2> QED BY <2>1, <2>2, <2>3, <2>4, <2>5
<1>2. CASE LeaseExpires \/ LeaseLapses
  BY <1>2 DEF LeaseExpires, LeaseLapses, expire, childVars
<1>3. CASE UNCHANGED vars
  BY <1>3 DEF vars, storeVars, childVars
<1> QED BY <1>1, <1>2, <1>3 DEF Next, Over

\* lease_owner is written by claim, finish and release alone.
LEMMA OnlyThreeTouchOwner ==
    ASSUME [Next]_vars,
           ~\E w \in Owners : Claim(w) \/ FinishWrite(w) \/ Pause(w)
    PROVE  lease_owner' = lease_owner
<1>1. ASSUME NEW w \in Owners, Drive(w) \/ Crash(w)
      PROVE  lease_owner' = lease_owner
  <2>1. CASE RecordRetry(w)
    BY <2>1 DEF RecordRetry, record_retry, leaseVars
  <2>2. CASE CommitWrite(w)
    BY <2>2 DEF CommitWrite, insertStep, storeVars, leaseVars
  <2>3. CASE ~(RecordRetry(w) \/ CommitWrite(w))
    <3>1. UNCHANGED storeVars
      BY <1>1, <2>3, QuietActions DEF Drive, QuietStep
    <3> QED BY <3>1 DEF storeVars, leaseVars
  <2> QED BY <2>1, <2>2, <2>3
<1>2. CASE LeaseExpires \/ LeaseLapses
  BY <1>2 DEF LeaseExpires, LeaseLapses, expire
<1>3. CASE UNCHANGED vars
  BY <1>3 DEF vars, storeVars, leaseVars
<1> QED BY <1>1, <1>2, <1>3 DEF Next, Over

\* What is stored stays as it is: the unique constraints are what stops a late
\* worker from writing over its replacement.
THEOREM StoredStepsStay == Spec => StepsAppendOnly
<1> DEFINE Kept ==
      /\ \A i \in DOMAIN steps : i \in DOMAIN steps' /\ steps'[i] = steps[i]
      /\ \A i \in DOMAIN messages :
           i \in DOMAIN messages' /\ messages'[i] = messages[i]
<1>1. ASSUME LoopInv, [Next]_vars PROVE [Kept]_vars
  <2>1. CASE \E w \in Owners : CommitWrite(w)
    <3>1. PICK w \in Owners : CommitWrite(w)
      BY <2>1
    <3>2. CASE Conflicts(nsteps[w], pending[w], snap[w])
      BY <3>1, <3>2 DEF CommitWrite, storeVars, childVars
    <3>3. CASE ~Conflicts(nsteps[w], pending[w], snap[w])
      <4>1. /\ nsteps[w] = steps_taken /\ steps_taken \in Nat
            /\ snap[w].count = MessageCount /\ MessageCount \in Nat
            /\ DOMAIN steps = 0..(steps_taken - 1)
            /\ pending[w] \in Seq(Turns)
        BY <1>1, <3>1, <3>3, CommitLands, StoredConversationType
           DEF CommitWrite, LoopInv, TypeOK, StoreTypeOK, RowsContiguous
      <4>2. /\ steps' = Inserted(steps, steps_taken, <<reply[w]>>)
            /\ messages' = Inserted(messages, MessageCount, pending[w])
        BY <3>1, <3>3, <4>1 DEF CommitWrite, insertStep
      <4>3. \A i \in DOMAIN steps : i \in DOMAIN steps' /\ steps'[i] = steps[i]
        <5> DEFINE row == reply[w]
                   t == Inserted(steps, steps_taken, <<row>>)
        <5>1. steps' = t
          BY <4>2
        <5>2. steps_taken \in Nat /\ DOMAIN steps = 0..(steps_taken - 1)
          BY <4>1
        <5> HIDE DEF row
        <5>3. /\ DOMAIN t = 0..steps_taken
              /\ \A i \in 0..(steps_taken - 1) : t[i] = steps[i]
          BY <5>2, RowAppended
        <5> HIDE DEF t
        <5> QED BY <5>1, <5>2, <5>3
      <4>4. \A i \in DOMAIN messages :
              i \in DOMAIN messages' /\ messages'[i] = messages[i]
        <5> DEFINE rows == pending[w]
        <5>1. rows \in Seq(Turns)
          BY <4>1
        <5>2. messages' = Inserted(messages, MessageCount, rows)
          BY <4>2
        <5>3. /\ DOMAIN messages = 0..(MessageCount - 1)
              /\ \A i \in 0..(MessageCount - 1) : messages[i] \in Turns
          <6>1. /\ DOMAIN messages = 0..(MessageCount - 1)
                /\ messages \in [DOMAIN messages -> Turns]
            BY <1>1 DEF LoopInv, TypeOK, StoreTypeOK, RowsContiguous
          <6> QED BY <6>1
        <5> HIDE DEF rows
        <5>4. /\ MessageCount + Len(rows) \in Nat
              /\ DOMAIN messages' = 0..(MessageCount + Len(rows) - 1)
              /\ \A i \in 0..(MessageCount - 1) : messages'[i] = messages[i]
          BY <4>1, <5>1, <5>2, <5>3, RowsAppended
        <5>5. Len(rows) \in Nat
          BY <5>1, LenProperties
        <5> QED BY <4>1, <5>3, <5>4, <5>5
      <4> QED BY <4>3, <4>4
    <3> QED BY <3>2, <3>3
  <2>2. CASE ~\E w \in Owners : CommitWrite(w)
    <3>1. UNCHANGED <<steps, messages>>
      BY <1>1, <2>2, OnlyCommitsTouchRows
    <3> QED BY <3>1
  <2> QED BY <2>1, <2>2
<1> QED BY <1>1, LoopInvariant, PTL DEF Spec, StepsAppendOnly

\* A live lease changes hands only through nobody's hands: claim is one
\* conditional update, and every other write of lease_owner clears it.
THEOREM LiveLeasesAreNotStolen == Spec => LiveLeaseNotStolen
<1> DEFINE Kept == live /\ lease_owner' # lease_owner => lease_owner' = Nobody
<1>1. ASSUME LoopInv, [Next]_vars PROVE [Kept]_vars
  <2>1. ASSUME NEW w \in Owners, Claim(w) PROVE Kept
    BY <1>1, <2>1 DEF Claim, claim, LoopInv, LiveMeansOwned
  <2>2. ASSUME NEW w \in Owners, FinishWrite(w) PROVE Kept
    BY <2>2 DEF FinishWrite, finish, Updated
  <2>3. ASSUME NEW w \in Owners, Pause(w) PROVE Kept
    BY <2>3 DEF Pause, release, leaseVars
  <2>4. CASE ~\E w \in Owners : Claim(w) \/ FinishWrite(w) \/ Pause(w)
    <3>1. lease_owner' = lease_owner
      BY <1>1, <2>4, OnlyThreeTouchOwner
    <3> QED BY <3>1
  <2> QED BY <2>1, <2>2, <2>3, <2>4
<1> QED BY <1>1, LoopInvariant, PTL DEF Spec, LiveLeaseNotStolen

=============================================================================
