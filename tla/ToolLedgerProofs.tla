-------------------------- MODULE ToolLedgerProofs --------------------------
(***************************************************************************)
(* Proofs about ToolLedger, for any number of callers, keys and outputs.   *)
(*                                                                         *)
(* Everything follows from one inductive invariant, LedgerInv.  Its core   *)
(* is UnsafeToken: the INSERT that creates a row hands the right to        *)
(* execute to exactly one call, and resolve_pending never hands it out     *)
(* again for an UNSAFE tool.                                               *)
(***************************************************************************)
EXTENDS ToolLedger, TLAPS

USE EffectAssumption, MaxCallsAssumption, ResultAssumption

\* A step of execute_invocation keeps the types, provided that what it is about
\* to record is a handler's outcome.
LEMMA TypeStep ==
    TypeOK /\ RecordsWhatHappened /\ [Next]_vars => TypeOK'
<1> SUFFICES ASSUME TypeOK, RecordsWhatHappened, [Next]_vars PROVE TypeOK'
  OBVIOUS
<1>1. CASE UNCHANGED vars
  BY <1>1 DEF TypeOK, vars, ledgerVars, callVars, historyVars
<1>2. CASE AllCallsOver
  BY <1>2 DEF AllCallsOver, TypeOK, vars, ledgerVars, callVars, historyVars
<1>3. ASSUME NEW c \in Callers, NEW k \in Keys, Call(c, k) PROVE TypeOK'
  BY <1>3 DEF Call, TypeOK, Goto, PCs, historyVars
<1>4. ASSUME NEW c \in Callers, Begin(c) PROVE TypeOK'
  BY <1>4 DEF Begin, TypeOK, Goto, PCs, historyVars
<1>5. ASSUME NEW c \in Callers, Decide(c) PROVE TypeOK'
  <2>1. resolve_pending(Effect[key[c]]) \in PCs
    BY DEF resolve_pending, PCs
  <2>2. CASE row[key[c]].status \in {"succeeded", "failed"}
    <3>1. row[key[c]] \in HandlerOutcome
      BY <2>2 DEF TypeOK, Absent, Pending, InReview
    <3> QED
      BY <1>5, <2>1, <2>2, <3>1 DEF Decide, Return, TypeOK, Goto, PCs
  <2>3. CASE row[key[c]].status \notin {"succeeded", "failed"}
    BY <1>5, <2>1, <2>3 DEF Decide, TypeOK, Goto, PCs
  <2> QED BY <2>2, <2>3
<1>6. ASSUME NEW c \in Callers, NeedsReview(c) PROVE TypeOK'
  BY <1>6 DEF NeedsReview, Return, TypeOK, Goto, PCs
<1>7. ASSUME NEW c \in Callers, InvokeHandler(c) PROVE TypeOK'
  BY <1>7 DEF InvokeHandler, TypeOK, Goto, PCs
<1>8. ASSUME NEW c \in Callers, HandlerEnds(c) PROVE TypeOK'
  BY <1>8 DEF HandlerEnds, TypeOK, Goto, PCs
<1>9. ASSUME NEW c \in Callers, Complete(c) PROVE TypeOK'
  <2>1. got[c] \in HandlerOutcome
    BY <1>9 DEF Complete, RecordsWhatHappened, TypeOK
  <2> QED
    BY <1>9, <2>1 DEF Complete, Return, TypeOK, Goto, PCs
<1>10. ASSUME NEW c \in Callers, Vanish(c) PROVE TypeOK'
  BY <1>10 DEF Vanish, TypeOK, Goto, PCs, historyVars
<1> QED
  BY <1>1, <1>2, <1>3, <1>4, <1>5, <1>6, <1>7, <1>8, <1>9, <1>10
     DEF Next, CallerStep

\* The four kinds of row exclude each other: their status tells them apart.
LEMMA RowKinds ==
    /\ ~IsTerminal(Absent) /\ ~IsTerminal(Pending) /\ IsTerminal(InReview)
    /\ Absent # Pending /\ Absent # InReview /\ Pending # InReview
    /\ \A o \in HandlerOutcome :
         IsTerminal(o) /\ o # Absent /\ o # Pending /\ o # InReview
BY DEF IsTerminal, Absent, Pending, InReview, HandlerOutcome

\* Every step of every call preserves the inductive invariant.
LEMMA LedgerInvStep == LedgerInv /\ [Next]_vars => LedgerInv'
<1> SUFFICES ASSUME LedgerInv, [Next]_vars PROVE LedgerInv'
  OBVIOUS
<1> USE DEF LedgerInv
<1>0. TypeOK'
  BY TypeStep
<1>1. CASE UNCHANGED vars
  BY <1>0, <1>1 DEF vars, ledgerVars, callVars, historyVars, Executing,
     RecordsWhatHappened, ClaimedFirst, NoRowNoEffect, UnsafeToken,
     UnsafeOneOutcome, UnsafeAtMostOnce, AnswersHappened, ReturnedMeansTerminal
<1>2. CASE AllCallsOver
  BY <1>1, <1>2 DEF AllCallsOver
<1>3. ASSUME NEW c \in Callers, NEW k \in Keys, Call(c, k) PROVE LedgerInv'
  <2> USE <1>3 DEF Call, Goto, TypeOK, historyVars
  <2>1. RecordsWhatHappened'
    BY DEF RecordsWhatHappened
  <2>2. ClaimedFirst'
    BY DEF ClaimedFirst
  <2>3. UnsafeToken'
    BY DEF UnsafeToken, Executing
  <2>4. NoRowNoEffect' /\ UnsafeOneOutcome' /\ UnsafeAtMostOnce'
    BY DEF NoRowNoEffect, UnsafeOneOutcome, UnsafeAtMostOnce
  <2>5. AnswersHappened' /\ ReturnedMeansTerminal'
    BY DEF AnswersHappened, ReturnedMeansTerminal
  <2> QED BY <1>0, <2>1, <2>2, <2>3, <2>4, <2>5
<1>4. ASSUME NEW c \in Callers, Begin(c) PROVE LedgerInv'
  <2> USE <1>4 DEF Begin, Goto, TypeOK, historyVars
  <2>1. RecordsWhatHappened'
    BY DEF RecordsWhatHappened
  <2>2. ClaimedFirst'
    BY RowKinds DEF ClaimedFirst
  <2>3. UnsafeToken'
    BY DEF UnsafeToken, Executing, ClaimedFirst, NoRowNoEffect
  <2>4. NoRowNoEffect' /\ UnsafeOneOutcome' /\ UnsafeAtMostOnce'
    BY DEF NoRowNoEffect, UnsafeOneOutcome, UnsafeAtMostOnce
  <2>5. AnswersHappened' /\ ReturnedMeansTerminal'
    BY RowKinds DEF AnswersHappened, ReturnedMeansTerminal
  <2> QED BY <1>0, <2>1, <2>2, <2>3, <2>4, <2>5
<1>5. ASSUME NEW c \in Callers, Decide(c) PROVE LedgerInv'
  <2> USE <1>5 DEF Decide, Goto, TypeOK
  <2>1. /\ row[key[c]].status = "pending" => row[key[c]] = Pending
        /\ row[key[c]].status \in {"succeeded", "failed"} =>
             row[key[c]] \in HandlerOutcome
    BY DEF Absent, Pending, InReview, HandlerOutcome
  <2>2. RecordsWhatHappened'
    BY DEF RecordsWhatHappened, resolve_pending, Return
  <2>3. ClaimedFirst'
    BY DEF ClaimedFirst, resolve_pending, Return
  <2>4. UnsafeToken'
    BY DEF UnsafeToken, Executing, resolve_pending, Return
  <2>5. NoRowNoEffect' /\ UnsafeOneOutcome' /\ UnsafeAtMostOnce'
    BY DEF NoRowNoEffect, UnsafeOneOutcome, UnsafeAtMostOnce
  <2>6. AnswersHappened' /\ ReturnedMeansTerminal'
    BY <2>1, RowKinds DEF AnswersHappened, ReturnedMeansTerminal, Return
  <2> QED BY <1>0, <2>2, <2>3, <2>4, <2>5, <2>6
<1>6. ASSUME NEW c \in Callers, NeedsReview(c) PROVE LedgerInv'
  <2> USE <1>6 DEF NeedsReview, Return, Goto, TypeOK
  <2>1. RecordsWhatHappened'
    BY DEF RecordsWhatHappened
  <2>2. ClaimedFirst'
    BY RowKinds DEF ClaimedFirst
  <2>3. UnsafeToken'
    BY DEF UnsafeToken, Executing
  <2>4. NoRowNoEffect' /\ UnsafeOneOutcome' /\ UnsafeAtMostOnce'
    BY RowKinds DEF NoRowNoEffect, UnsafeOneOutcome, UnsafeAtMostOnce
  <2>5. AnswersHappened' /\ ReturnedMeansTerminal'
    BY RowKinds DEF AnswersHappened, ReturnedMeansTerminal
  <2> QED BY <1>0, <2>1, <2>2, <2>3, <2>4, <2>5
<1>7. ASSUME NEW c \in Callers, InvokeHandler(c) PROVE LedgerInv'
  <2> USE <1>7 DEF InvokeHandler, Goto, TypeOK
  <2>1. RecordsWhatHappened'
    BY DEF RecordsWhatHappened
  <2>2. ClaimedFirst'
    BY DEF ClaimedFirst
  <2>3. UnsafeToken'
    BY DEF UnsafeToken, Executing
  <2>4. NoRowNoEffect' /\ UnsafeOneOutcome'
    BY DEF NoRowNoEffect, UnsafeOneOutcome, ClaimedFirst
  <2>5. UnsafeAtMostOnce'
    BY DEF UnsafeAtMostOnce, UnsafeToken, Executing
  <2>6. AnswersHappened' /\ ReturnedMeansTerminal'
    BY DEF AnswersHappened, ReturnedMeansTerminal
  <2> QED BY <1>0, <2>1, <2>2, <2>3, <2>4, <2>5, <2>6
<1>8. ASSUME NEW c \in Callers, HandlerEnds(c) PROVE LedgerInv'
  <2> USE <1>8 DEF HandlerEnds, Goto, TypeOK
  <2>1. RecordsWhatHappened'
    BY DEF RecordsWhatHappened
  <2>2. ClaimedFirst'
    BY DEF ClaimedFirst
  <2>3. UnsafeToken'
    BY DEF UnsafeToken, Executing
  <2>4. NoRowNoEffect' /\ UnsafeAtMostOnce'
    BY DEF NoRowNoEffect, UnsafeAtMostOnce, ClaimedFirst
  <2>5. UnsafeOneOutcome'
    BY DEF UnsafeOneOutcome, UnsafeToken, Executing
  <2>6. AnswersHappened' /\ ReturnedMeansTerminal'
    BY DEF AnswersHappened, ReturnedMeansTerminal
  <2> QED BY <1>0, <2>1, <2>2, <2>3, <2>4, <2>5, <2>6
<1>9. ASSUME NEW c \in Callers, Complete(c) PROVE LedgerInv'
  <2> USE <1>9 DEF Complete, Return, Goto, TypeOK
  <2>1. got[c] \in produced[key[c]] /\ got[c] \in HandlerOutcome
    BY DEF RecordsWhatHappened
  <2>2. RecordsWhatHappened'
    BY DEF RecordsWhatHappened
  <2>3. ClaimedFirst'
    BY <2>1, RowKinds DEF ClaimedFirst
  <2>4. UnsafeToken'
    BY DEF UnsafeToken, Executing
  <2>5. NoRowNoEffect' /\ UnsafeOneOutcome' /\ UnsafeAtMostOnce'
    BY <2>1, RowKinds DEF NoRowNoEffect, UnsafeOneOutcome, UnsafeAtMostOnce
  <2>6. AnswersHappened' /\ ReturnedMeansTerminal'
    BY <2>1, RowKinds DEF AnswersHappened, ReturnedMeansTerminal
  <2> QED BY <1>0, <2>2, <2>3, <2>4, <2>5, <2>6
<1>10. ASSUME NEW c \in Callers, Vanish(c) PROVE LedgerInv'
  <2> USE <1>10 DEF Vanish, Goto, TypeOK, historyVars
  <2>1. RecordsWhatHappened' /\ ClaimedFirst'
    BY DEF RecordsWhatHappened, ClaimedFirst
  <2>2. UnsafeToken'
    BY DEF UnsafeToken, Executing
  <2>3. NoRowNoEffect' /\ UnsafeOneOutcome' /\ UnsafeAtMostOnce'
    BY DEF NoRowNoEffect, UnsafeOneOutcome, UnsafeAtMostOnce
  <2>4. AnswersHappened' /\ ReturnedMeansTerminal'
    BY DEF AnswersHappened, ReturnedMeansTerminal
  <2> QED BY <1>0, <2>1, <2>2, <2>3, <2>4
<1> QED
  BY <1>1, <1>2, <1>3, <1>4, <1>5, <1>6, <1>7, <1>8, <1>9, <1>10
     DEF Next, CallerStep

\* A handler's outcome, once produced, stays on record.
LEMMA ProducedGrows ==
    ASSUME TypeOK, [Next]_vars, NEW k \in Keys
    PROVE  produced[k] \subseteq produced'[k]
<1>1. CASE \E c \in Callers : HandlerEnds(c)
  <2>1. PICK c \in Callers, outcome \in HandlerOutcome :
          produced' = [produced EXCEPT ![key[c]] = @ \cup {outcome}]
    BY <1>1 DEF HandlerEnds
  <2> QED BY <2>1 DEF TypeOK
<1>2. CASE ~\E c \in Callers : HandlerEnds(c)
  BY <1>2 DEF Next, AllCallsOver, CallerStep, Call, Begin, Decide, NeedsReview,
     InvokeHandler, Complete, Vanish, vars, historyVars
<1> QED BY <1>1, <1>2

\* It holds in an empty ledger.
LEMMA LedgerInvInit == Init => LedgerInv
BY DEF Init, LedgerInv, TypeOK, PCs, RecordsWhatHappened, ClaimedFirst,
   NoRowNoEffect, UnsafeToken, Executing, UnsafeOneOutcome,
   UnsafeAtMostOnce, AnswersHappened, ReturnedMeansTerminal,
   Absent, HandlerOutcome

\* LedgerInv holds in every reachable state.
THEOREM LedgerInvariant == Spec => []LedgerInv
BY LedgerInvInit, LedgerInvStep, PTL DEF Spec

\* The variables keep their types: the only rows that exist are PENDING, closed
\* by a handler's outcome, or parked for review.
THEOREM TypeCorrect == Spec => []TypeOK
BY LedgerInvariant, PTL DEF LedgerInv

\* No interleaving of claims, crashes, redeliveries and late completions enters
\* an UNSAFE tool's handler twice for one key.
THEOREM UnsafeExecutedAtMostOnce == Spec => []UnsafeAtMostOnce
BY LedgerInvariant, PTL DEF LedgerInv

\* Callers of one UNSAFE key are never told two different outcomes.
THEOREM UnsafeCallersAgree == Spec => []UnsafeAnswersAgree
<1>1. LedgerInv => UnsafeAnswersAgree
  BY DEF LedgerInv, UnsafeAnswersAgree, AnswersHappened, UnsafeOneOutcome
<1> QED BY <1>1, LedgerInvariant, PTL

\* Every recorded or returned outcome was produced by the handler.
THEOREM AnswersAreReal == Spec => []AnswersHappened
BY LedgerInvariant, PTL DEF LedgerInv

\* execute_invocation's postcondition, under any race: once a call for a key has
\* returned, the key's row is closed.
THEOREM ReturnsLeaveRowsClosed == Spec => []ReturnedMeansTerminal
BY LedgerInvariant, PTL DEF LedgerInv

\* No step deletes a row or reopens a closed one.
LEMMA RowStepStaysClosed ==
    ASSUME LedgerInv, [Next]_vars, NEW k \in Keys
    PROVE  /\ row[k] # Absent => row'[k] # Absent
           /\ IsTerminal(row[k]) => IsTerminal(row'[k])
<1>1. CASE row' = row
  BY <1>1 DEF IsTerminal
<1>2. ASSUME NEW c \in Callers, Begin(c), row' # row
      PROVE  row[key[c]] = Absent /\ row' = [row EXCEPT ![key[c]] = Pending]
  BY <1>2 DEF Begin
<1>3. ASSUME NEW c \in Callers, NeedsReview(c)
      PROVE  row' = [row EXCEPT ![key[c]] = InReview]
  BY <1>3 DEF NeedsReview
<1>4. ASSUME NEW c \in Callers, Complete(c)
      PROVE  /\ row' = [row EXCEPT ![key[c]] = got[c]]
             /\ got[c] \in HandlerOutcome
  BY <1>4 DEF Complete, LedgerInv, RecordsWhatHappened, TypeOK
<1>5. row \in [Keys -> {Absent, Pending, InReview} \cup HandlerOutcome]
  BY DEF LedgerInv, TypeOK
<1> QED
  BY <1>1, <1>2, <1>3, <1>4, <1>5, RowKinds
     DEF Next, AllCallsOver, CallerStep, Call, Decide, InvokeHandler,
         HandlerEnds, Vanish, vars, ledgerVars

\* A row is never deleted or reopened.
THEOREM RowsStayClosed == Spec => RowsNeverReopen
<1>1. LedgerInv /\ [Next]_vars =>
        [\A k \in Keys :
           /\ row[k] # Absent => row'[k] # Absent
           /\ IsTerminal(row[k]) => IsTerminal(row'[k])]_vars
  BY RowStepStaysClosed
<1> QED BY <1>1, LedgerInvariant, PTL DEF Spec, RowsNeverReopen

=============================================================================
