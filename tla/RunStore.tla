------------------------------ MODULE RunStore ------------------------------
(***************************************************************************)
(* PostgresRunStore (adapters/db/run_store.py) for one run: its row in     *)
(* runs, its rows in run_steps and run_messages, and the lease.            *)
(*                                                                         *)
(* An operation of the store is an action on the variables of this module; *)
(* AgentLoop joins each to the step of the worker that calls it.  A        *)
(* transaction that reads and then writes (commit_step, finish) has no row *)
(* lock between the two, so it is split: what was read is an argument of   *)
(* the write.  Writes that are a single conditional UPDATE (claim, renew,  *)
(* release, record_retry) are one action.                                  *)
(*                                                                         *)
(* Time is abstracted to whether lease_expires_at lies in the future by    *)
(* the database's clock: live.                                             *)
(***************************************************************************)
EXTENDS Integers, FiniteSets, Sequences

CONSTANTS
    Owners,     \* names workers claim a run under
    Nobody      \* lease_owner IS NULL

VARIABLES
    status,         \* runs.status
    lease_owner,    \* runs.lease_owner
    live,           \* runs.lease_expires_at > now()
    steps_taken,    \* runs.steps_taken
    tokens,         \* runs.input_tokens + runs.output_tokens
    retries_used,   \* runs.retries_used
    output,         \* runs.output
    error_code,     \* runs.error_code
    steps,          \* run_steps: idx -> row
    messages        \* run_messages: idx -> row

leaseVars == <<lease_owner, live>>
countVars == <<steps_taken, tokens>>
resultVars == <<output, error_code>>
childVars == <<steps, messages>>
storeVars == <<status, leaseVars, countVars, retries_used, resultVars, childVars>>

Resumable == {"QUEUED", "RUNNING", "PAUSED"}
Terminal == {"COMPLETED", "FAILED"}
RunStatus == Resumable \cup Terminal

\* The value of output and error_code before the run has ended.
Null == "null"

-----------------------------------------------------------------------------

\* create: the run is recorded in QUEUED, with no steps and no lease.
Created ==
    /\ status = "QUEUED"
    /\ lease_owner = Nobody /\ live = FALSE
    /\ steps_taken = 0 /\ tokens = 0 /\ retries_used = 0
    /\ output = Null /\ error_code = Null
    /\ steps = [i \in {} |-> Null] /\ messages = [i \in {} |-> Null]

\* Mutant: claim does not ask whether the lease is still live.
claimIgnoresLease(o) ==
    /\ status \in Resumable
    /\ lease_owner' = o /\ live' = TRUE /\ status' = "RUNNING"
    /\ UNCHANGED <<countVars, retries_used, resultVars, childVars>>

\* Mutant: claim does not look at the status.
claimIgnoresStatus(o) ==
    /\ lease_owner = Nobody \/ ~live
    /\ lease_owner' = o /\ live' = TRUE /\ status' = "RUNNING"
    /\ UNCHANGED <<countVars, retries_used, resultVars, childVars>>

\* claim: one conditional UPDATE.  (When the condition is false nothing changes
\* and the caller gives up.)  claim_next_reclaimable does the same to this run,
\* under a row lock.
claim(o) ==
    /\ status \in Resumable
    /\ lease_owner = Nobody \/ ~live
    /\ lease_owner' = o
    /\ live' = TRUE
    /\ status' = "RUNNING"
    /\ UNCHANGED <<countVars, retries_used, resultVars, childVars>>

\* The predicate of renew.
HoldsLease(o) == lease_owner = o /\ live

\* release: UPDATE ... WHERE lease_owner = owner; expired or not.
release(o, newStatus) ==
    /\ \/ /\ lease_owner = o
          /\ lease_owner' = Nobody
          /\ live' = FALSE
          /\ status' = newStatus
       \/ /\ lease_owner # o
          /\ UNCHANGED <<leaseVars, status>>
    /\ UNCHANGED <<countVars, retries_used, resultVars, childVars>>

\* record_retry: the increment is computed by the database.
record_retry ==
    /\ retries_used' = retries_used + 1
    /\ UNCHANGED <<status, leaseVars, countVars, resultVars, childVars>>

\* The lease's TTL runs out.
expire ==
    /\ live
    /\ live' = FALSE
    /\ UNCHANGED <<status, lease_owner, countVars, retries_used, resultVars, childVars>>

-----------------------------------------------------------------------------
(* commit_step.                                                            *)

\* _message_count: rows are counted, not tracked.
MessageCount == Cardinality(DOMAIN messages)

\* What commit_step reads before it writes: the run's row, then, by a SELECT
\* of its own, how many messages there are.
RowRead == [tokens |-> tokens, status |-> status]
CountRead(row) ==
    [count |-> MessageCount, tokens |-> row.tokens, status |-> row.status]

\* Mutant: no unique constraint on the step.
ConflictsOnMessagesOnly(idx, rows, snap) ==
    \E i \in 0..(Len(rows) - 1) : snap.count + i \in DOMAIN messages

\* UNIQUE(run_id, idx) of run_steps, and of run_messages.
Conflicts(idx, rows, snap) ==
    \/ idx \in DOMAIN steps
    \/ \E i \in 0..(Len(rows) - 1) : snap.count + i \in DOMAIN messages

\* Rows lo, lo + 1, ... added to a table for the members of a sequence.
Inserted(table, lo, rows) ==
    [i \in DOMAIN table \cup lo..(lo + Len(rows) - 1) |->
        IF i \in lo..(lo + Len(rows) - 1) THEN rows[i - lo + 1] ELSE table[i]]

\* Mutant: steps_taken is the index of the last step, not their number.
insertStepMiscounts(idx, row, rows, snap) ==
    /\ steps' = Inserted(steps, idx, <<row>>)
    /\ messages' = Inserted(messages, snap.count, rows)
    /\ steps_taken' = idx
    /\ tokens' = snap.tokens + row.cost
    /\ UNCHANGED <<status, leaseVars, retries_used, resultVars>>

\* Mutant: the cost is taken off the counter.
insertStepSubtracts(idx, row, rows, snap) ==
    /\ steps' = Inserted(steps, idx, <<row>>)
    /\ messages' = Inserted(messages, snap.count, rows)
    /\ steps_taken' = idx + 1
    /\ tokens' = snap.tokens - row.cost
    /\ UNCHANGED <<status, leaseVars, retries_used, resultVars>>

\* The write of commit_step: the step, its messages and the counters in one
\* transaction.  The new counters are computed from the snapshot, and written
\* even where Updated would leave a column out: the insert succeeds only while
\* the snapshot is fresh (FreshIfFree of AgentLoop), so the two agree.  No
\* predicate on the lease, nor on the status.
insertStep(idx, row, rows, snap) ==
    /\ steps' = Inserted(steps, idx, <<row>>)
    /\ messages' = Inserted(messages, snap.count, rows)
    /\ steps_taken' = idx + 1
    /\ tokens' = snap.tokens + row.cost
    /\ status' = IF snap.status = "QUEUED" THEN "RUNNING" ELSE status
    /\ UNCHANGED <<leaseVars, retries_used, resultVars>>

-----------------------------------------------------------------------------
(* finish.                                                                 *)

\* What finish reads before it writes.
FinishSnapshot ==
    [status |-> status, lease_owner |-> lease_owner,
     output |-> output, error_code |-> error_code]

\* SQLAlchemy's unit of work (external) writes only the attributes that differ
\* from what was loaded.
Updated(column, loaded, value) == IF value # loaded THEN value ELSE column

\* Mutant: a terminal run keeps its lease.
finishKeepsLease(end, snap) ==
    /\ status' = Updated(status, snap.status, end.status)
    /\ output' = Updated(output, snap.output, end.output)
    /\ error_code' = Updated(error_code, snap.error_code, end.error_code)
    /\ UNCHANGED <<leaseVars, countVars, retries_used, childVars>>

\* Mutant: finish forgets the output column.
finishForgetsOutput(end, snap) ==
    /\ status' = Updated(status, snap.status, end.status)
    /\ error_code' = Updated(error_code, snap.error_code, end.error_code)
    /\ lease_owner' = Nobody /\ live' = FALSE
    /\ UNCHANGED <<output, countVars, retries_used, childVars>>

\* The write of finish: the terminal status, its reason, and no lease.  No
\* predicate on who holds the lease, nor on the status found.
finish(end, snap) ==
    /\ status' = Updated(status, snap.status, end.status)
    /\ output' = Updated(output, snap.output, end.output)
    /\ error_code' = Updated(error_code, snap.error_code, end.error_code)
    /\ lease_owner' = Updated(lease_owner, snap.lease_owner, Nobody)
    /\ live' = IF snap.lease_owner # Nobody THEN FALSE ELSE live
    /\ UNCHANGED <<countVars, retries_used, childVars>>

=============================================================================
