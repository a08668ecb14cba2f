# AgentForge: a verification project in TLA+

TLA+ models of the durable runtime of AgentForge (`app/core/runtime`, `app/core/tools`,
`app/adapters/db`, `app/adapters/queue`, `app/workers`), model-checked with TLC and proved about
with TLAPS. `PROJECT.json` lists the components, the runs, the source lines behind each
definition, the findings, the hazards and the theorems.

## 1. The system

AgentForge drives an LLM agent run step by step. A run, its steps and its messages are rows in
Postgres; the process that drives a run may die at any moment and another must be able to go on.

| Component | State | Operations | Correct when |
| --- | --- | --- | --- |
| Agent loop (`core/runtime/loop.py`) | none of its own: locals of `run` (usage, steps, messages, pending, attempt) | `run`, `_attempt_step`, `_commit`, `_fail`, `_pause` | a resumed run continues exactly what is stored; every run ends; retries are bounded |
| Run store (`adapters/db/run_store.py`) | `runs` (status, lease, counters, result), `run_steps`, `run_messages` | `create`, `load`, `commit_step`, `finish`, `record_retry`, `claim`, `claim_next_reclaimable`, `renew`, `release` | one driver per run; history append-only and without gaps; terminal is final |
| Tool execution and ledger (`core/tools/execution.py`, `adapters/db/tool_ledger.py`, `core/runtime/idempotency.py`) | `tool_invocations`, one row per idempotency key | `execute_invocation`; `begin`, `complete`, `needs_review`, `lookup` | an UNSAFE tool takes effect at most once; answers are real |
| Durable tools (`_execute_durable`, `adapters/queue`, `workers`) | messages in the broker, the row as rendezvous | dispatch, poll, `execute_tool` | a dispatched call is not dropped and ends; the run is told what happened |
| Tools of a step (`_attempt_step`, `_execute_all`, `_execute_one`, `_result_from`) | the reply and the results so far, in locals | refuse, execute inline, dispatch and poll, commit | every call has one result, in order and under its own id, and it happened |
| Policy and backoff (`policy.py`, `retry.py`) | none | `check`, `max_tokens_for_next_step`, `delay_for` | a step cap and a token budget that survive resumes |
| Messages and wire form (`messages.py`, `_from_wire_response`) | none | `block_from_dict`, `blocks_to_wire` | a stored conversation comes back as it was |
| In-memory store and ledger, fake LLM, fake queue | dictionaries | the ports' operations | same behaviour as the real ones |
| LLM adapter, built-in tools, settings, API, migrations | none that matters here | translation and configuration | |

How they interact: the loop claims a run (a lease with a TTL by the database's clock), loads it,
and repeats: ask the policy, call the model, run the tools through the ledger, commit the step in
one transaction, renew the lease. An INLINE tool is executed in the loop's own process; a DURABLE
one is sent to Celery and the loop polls the ledger row until it is terminal or its patience ends,
in which case the run is paused. Two processes share nothing but rows and broker messages.

What is hard: the lease may run out under a worker that is still working (the TTL is 60 s by
default and is renewed only at a step boundary, and a step may take three attempts of 60 s);
`commit_step` and `finish` read and then write without a lock and without looking at the lease;
`load` is three SELECTs at READ COMMITTED; a process may be killed between any two awaits; tasks
are delivered at least once; a handler may be running while its task is delivered again; a retried
step is answered by another reply with other ids; two creations with one client key race; the
recovery scan decides in one statement and writes in another; JSONB does not keep bytes.

## 2. The modules

| Module | Models | Used by |
| --- | --- | --- |
| `ToolLedger` | `execute_invocation` over `PostgresToolLedger`, any number of concurrent calls | `MCToolLedger`, `ToolLedgerProofs`, `DurableTools` |
| `DurableTools` | EXTENDS `ToolLedger` with the waiting run, the broker and the fate of workers | `MCDurableTools`, `DurableToolsProofs` |
| `RunStore` | the operations of `PostgresRunStore` on one run, as actions on its rows | `AgentLoop` |
| `AgentLoop` | EXTENDS `RunStore`: workers that call `AgentLoop.run` on that run | `MCAgentLoop`, `AgentLoopProofs`, `AgentLoopFencedProofs`, `AgentLoopLedgerProofs`, `AgentLoopOutcomeProofs` |
| `RunLifecycle` | the abstract run: what the runtime promises, without store or leases | `AgentLoop` (refinement) |
| `RunIntake` | many runs in one store: `create`, the recovery scan, claims; Postgres and in-memory | `MCRunIntake`, `RunIntakeProofs` |
| `WireForm` | content blocks, their wire form and their JSONB column, as operators | `StepTools` |
| `StepTools` | EXTENDS `ToolLedger` and `WireForm`: the tools of one step, from reply to stored messages | `MCStepTools`, `StepToolsProofs` |

**ToolLedger.** `row[k]` is the row of key `k` or `Absent`. Each caller has a program counter with
one value per await of `execute_invocation`. `Begin` is the INSERT that lets
`UNIQUE(idempotency_key)` arbitrate; `Decide` the loser's read and the `match` on the decision;
`NeedsReview` and `Complete` are unconditional UPDATEs by key, as in the code; `Vanish` is a killed
process or a call cancelled by `asyncio.timeout`. `handlerRuns`, `produced` and `returned` are
history. A text is a member of `Outputs`, after the length cap.

**DurableTools.** `ready[k]` counts messages waiting in the broker, `held[c]` is the message a task
execution has not acknowledged. `Lookup`, `Enqueue`, `Poll` and `Stop` are `_execute_durable` (and the
timeout around it); `Deliver` and `Work` are a worker running `execute_tool` with late
acknowledgement; `WorkerLost`, `VisibilityExpires`, `TimeLimit` and `Unroutable` follow the options
that `build_celery_app` sets, and Celery's defaults for those it does not set. Celery and Redis
are outside the repository: they are modelled by how they are configured here. With
`task_acks_late`, a worker that is lost has its message requeued
(`task_reject_on_worker_lost`), while a task that raises or times out is acknowledged
(`task_acks_on_failure_or_timeout` is left at its default, on).

**RunStore.** A single conditional UPDATE (`claim`, `release`, `record_retry`, the predicate of
`renew`) is one action. `commit_step` and `finish` are split at each of their SELECTs, because no
row lock is held between those and the write: what was read is passed to the write.
`Updated` is the ORM's rule that only attributes that differ from their loaded value are written.
Time is one bit, `live`: whether `lease_expires_at` is in the future.

**AgentLoop.** One program counter value per await of `run`: `loadRun`, `loadSteps`,
`loadMessages` (the SELECTs of `load`), `top`, `ask`, `retry`, `commitRead`, `commitCount`,
`commitWrite`, `renew`, `finishRead`, `finishWrite`, `pause`. A reply is a stop reason, a body and a
token cost; a turn a role and a body. Which tools a step ran matters here only by how the step
ends: with all results, in review, broken, in flight, or not reachable. `Crash` may strike at any
await; `LeaseExpires` is a TTL that runs out after its owner has gone, `LeaseLapses` one that runs
out under a working driver and can be switched off by `LeasesCanLapse`. `basis` (the conversation
each step answered), `late` and `lateSteps` (how many steps a worker stored without a live lease, and
which steps those are) are history.

**RunLifecycle.** Status, driver, history, answer and failure of one run; one driver at a time, only
the driver extends the history, an end is final. `AgentLoop!ImplementsLifecycle` maps a live lease
to a driver and the stored steps to the history.

**RunIntake.** A run is its row: key, limits, status, age, lease. `Insert`, `FindByKey` and
`LoadCreated` are the three transactions of `create`; the unique constraint and the foreign key raise
the same `IntegrityError`. `ScanSelect` and `ScanUpdate` are the two statements of
`claim_next_reclaimable`, with the row lock between them; `Run` is the claim at the start of `run`,
on a run that was given or that a scan returned. `backend` chooses the store: the in-memory one does
each operation in one action, has no foreign key, lets a lease's owner claim again and returns the object it
was given. No lease runs out under its user here: that is `AgentLoop`'s subject.

**WireForm.** A JSON object is the sequence of its pairs: a model may give one call's arguments in two
orders, and JSONB keeps none.
`exclude_none`, `block_from_dict`, `blocks_to_wire` and `from_wire_response` are the code's;
`Jsonb` (external) is Postgres' order of keys: by length, then by bytes. `Chosen` is the code's list
comprehension with a condition, on a recursive function that the proofs can unfold.

**StepTools.** A reply is a thinking block and tool_use blocks. Each loop executes them in order:
`Refuse`, `Execute` and `Inline` (through `ToolLedger`'s actions), `Consult`, `EnqueueTool` and
`PollRow`. `Abandon` is a timeout, a pause or a crash; `Ask` then brings another reply. `Commit` stores the
columns, or loses to the unique constraint. A task that was dispatched may be delivered any number
of times. `invocation_key` is the tool and the sorted arguments: SHA-256 is taken to have no
collisions. `validate_input` is the set `Invalid` of what it rejects: it sees a dict, so the order of
the arguments does not matter to it. `ran` and `made` are history and know a call by its `Sense`
(tool and arguments), not by its key.

## 3. The runs

Passing:

| Run | Instance | Shows |
| --- | --- | --- |
| `tool_ledger` | 3 callers, an UNSAFE and a READ_ONLY key, 3 calls per key, 2 outputs | `UnsafeAtMostOnce`, `UnsafeAnswersAgree`, `AnswersHappened`, `ReturnedMeansTerminal`, `RowsNeverReopen` under races and deaths at any await |
| `agent_loop_lapse` | 2 workers, 2 steps, 2 faults (crash or lapse), an unreachable provider, refusals, with fairness | what holds whatever the leases do: `RowsContiguous`, `TokensMatchSteps`, `MessagesMatchSteps`, `StepsAppendOnly`, `OneLateStep`, `DivergesOnlyAfterLateStep`, `LiveLeaseNotStolen`; and `EveryRunEnds`: the retry counter on the row ends a cycle of pauses and resumes |
| `agent_loop_fenced` | 2 workers, 3 steps, 3 crashes, 2 bodies and costs, every mishap, no lapse under a driver | what the lease is for: `ImplementsLifecycle`, `TerminalIsFinal`, `ReplayFidelity`, `CompletedIsAnswered`, `TerminalHoldsNoLease`, `StepCapHolds`, `RetriesBounded`, `BudgetOvershootBounded` (stored tokens pass the budget by no more than one request's input) |
| `durable_tools` | 2 workers, one UNSAFE key, 2 messages, 2 faults of any kind | `ImplementsLedger` (refinement of `ToolLedger`), `CollectedOnce`, `ReviewHasCause` |
| `durable_delivery` | 2 workers, 2 keys, one fault (worker lost or visibility timeout), with fairness | `DispatchedIsPromised`, `EveryDispatchEnds` |
| `run_intake` | 4 creations (two with one key and other limits, one with that key and no parent, one without a key), 2 scanners, a runner, one death, both stores, with fairness | `OneRunPerKey`, `AdmissionAsCreated`, `OneHolderPerRun`, `OldestPickedUp` |
| `step_tools` | 2 loops, a worker, 3 replies of three kinds: one call twice with its arguments in two orders; an invalid call and a valid one; an unknown tool and a durable one | `EveryCallAnswered`, `ResultsHappened`, `UnsafeOncePerStep`, `UnsafeResultsAgree`, `ReplayFaithful` |

Expected violations, each a disagreement between the code and something the repository says of it
(quoted in `PROJECT.json`, "findings"):

| Run | Property | What happens |
| --- | --- | --- |
| `lapse_final` | `TerminalIsFinal` | `finish` and `commit_step` of a late worker change a finished run |
| `request_error` | `EveryRunEnds` | `LLMRequestError` is caught by nobody and leaves the run RUNNING |
| `durable_time_limit` | `PendingIsPromised` | a task cut short by a time limit is acknowledged, and its PENDING row has no one |
| `stored_limits` | `LimitsAsCreated` | three of the six limits have no column: a run is driven with their defaults |
| `asked_after_answer` | `AskedEndsWithUserTurn` | a worker dies between `commit_step` of an answer and `finish`: the next one asks the model about a conversation that ends with an assistant turn |

`asked_after_answer` needs one crash and no lapse. `run` does not look for a stored answer when it
resumes, so the answer is paid for, and may be given, twice, and the provider may refuse a
conversation that does not end with a user turn. A second place where the code keeps less than is
said has no run of its own: `ports.py:139` promises that loaded messages are "byte-identical to what
was committed", while JSONB reorders the keys of a tool's input and of a thinking block (`Jsonb` in
`WireForm`). `ReplayFaithful` states what does hold, equality as JSON.

**When leases lapse.** With `LeasesCanLapse = TRUE` every other invariant of `agent_loop_fenced` fails
as well. How they fail, and what `agent_loop_lapse` still shows:

- `ReplayFidelity` fails. `loop.py:512-515` swallows `StepAlreadyCommitted` because "the work is already
  recorded"; under a lapse it is another worker's work that is recorded, and a driver that still has
  the lease goes on from its own reply. `DivergesOnlyAfterLateStep` says that it takes a late
  step: before the first one every stored step answers the stored conversation.
- `StepCapHolds` fails: a `load` torn by a late commit gives an old step count. The order of its SELECTs
  keeps the rest right: with messages read before steps a driver would store its opening again,
  and `MessagesMatchSteps` and `DivergesOnlyAfterLateStep` would fail (TLC finds both violated).
- `TerminalHoldsNoLease` fails: `finish` does not write lease columns it read as NULL, so a claim in
  between survives it, and its holder's `release` turns the finished run into a PAUSED one. That
  is one of the ways in which `lapse_final` violates `TerminalIsFinal`.
- `OneLateStep` is the bound that `loop.py:517-519` gives: the worker "finds out before issuing another
  model call". Two other places ask for more. `ports.py:211-213` says that a worker whose lease expired
  "must stop rather than write steps alongside its replacement", and `test_durable_loop.py:366-368`
  that "the damage is bounded at zero". Since `commit_step` does not look at the lease and `renew`
  comes after it, the step in progress is stored, alongside the replacement's: the bound is one, not zero.

`RetriesBounded` fails with three workers and two lapses: a late worker whose `finish`
read the run as already FAILED changes no status but clears the lease of whoever drives it now, so
that a charge is repeated without a crash.

A ledger row that is terminal does stay terminal, but not unchanged: `Complete` and
`NeedsReview` overwrite whatever outcome is there, which `idempotency.py` describes as a row that
"has stopped changing". A run can need review although no process failed: resumed before its message
was delivered, it dispatches again, which `ReviewHasCause` names as one of the causes. A scanner on
Postgres cannot drive what it has found: `run` claims again and is refused (`RunRefused`) until the
scan's own lease has run out; nothing in the repository calls the scan yet.

**Bounds.** Two workers suffice for every race here: a driver and its replacement; the proofs of
section 4 cover any number. Two faults allow a lapse followed by a crash, and a
replacement that is itself replaced; two steps allow a conflict both at the step in progress and
at the next. Two bodies are needed to tell a stored reply from another worker's. `MaxCalls`,
`MaxSent`, `MaxReplies`, `MaxFaults` are the bounds on counters that the code does not bound.
`MaxStepAttempts` of 2 and `MaxRunRetries` of 1 or 2 make both retry bounds reachable.
Three replies let both loops ask and one of them ask again after an abandoned attempt; four creations
have a winner, a loser, a foreign-key failure with and without a winner, and a second run for the scan to choose from.
Workers, callers, outputs and bodies are symmetric; symmetry is not used in the runs that check
liveness.

**Deadlock** is checked in every run: `AllCallsOver`, `Over`, `Quiet`, `Idle` and `StepOver` say when the
system may stop.

**Fairness.** `AgentLoop!Fairness`: a live process keeps taking steps (every await of the
code ends: model calls and tools are under `asyncio.timeout`, database calls return); time passes,
so an abandoned lease expires; and somebody keeps calling `run` on a run that nobody works on.
The last is an assumption on the deployment: the recovery scan exists in the store and nothing
calls it yet. Nothing is assumed of how a model call ends. `EveryRunEnds` is checked
without "in_flight", since a durable tool that never ends may pause a run for ever without a
charge, by design. `DurableFairness`: a live worker keeps working and the broker keeps
delivering, which is what Celery is for; nothing is assumed of the run. `RunIntake!Fairness`: a live
worker goes on, leases run out, scanners keep polling; nothing is assumed of clients or of runners.
`OldestPickedUp` promises the oldest unfinished run only: a PAUSED run is reclaimable at once and is
the oldest, so a run that pauses each time can keep the scan from newer ones.

**Mutants.** Each property of a passing run has a mutant of a modelled definition (a dropped
guard, a lost reset, an early acknowledgement) under which TLC finds it violated. They stand
before the definition they change.

## 4. What is proved

Theorems hold for every value of the constants: any number of workers, callers, keys, steps
and faults.

`ToolLedgerProofs` (from `EffectAssumption`, `MaxCallsAssumption`, `ResultAssumption`).
`UnsafeAtMostOnce` is not inductive: it says nothing of a caller about to enter the handler. The
invariant `LedgerInv` adds `ClaimedFirst` and `NoRowNoEffect` (a key without a row has had no
effect) and `UnsafeToken`: the right to execute an UNSAFE key belongs to one call, created
together with the row by `Begin` and never again, since `resolve_pending` sends any other call to
review. `UnsafeOneOutcome` and `RecordsWhatHappened` carry it to what is recorded and returned.
Results: `TypeCorrect`, `UnsafeExecutedAtMostOnce`, `UnsafeCallersAgree`, `AnswersAreReal`,
`ReturnsLeaveRowsClosed`, `RowsStayClosed`.

`AgentLoopProofs` (from `LimitsAssumption`, `NobodyAssumption`). `RowsContiguous` needs that
`commit_step` writes at the next index although it read without a lock. `LoopInv` has
`NothingBelievedUntilStored` (no worker knows of a step that is not stored) and `FreshIfFree`: a
snapshot whose step index is still free is not stale, because counters and messages
move only together with steps. So the unique constraint on the step alone protects
the counters and the message numbering. `LateMeansLosing` gives `OneLateStep`. Results: `TypeCorrect`,
`RowsAreContiguous`, `LateWorkersStop`, `StoredStepsStay`, `LiveLeasesAreNotStolen`. They hold with or without
lapses.

`AgentLoopFencedProofs` assumes `~LeasesCanLapse`. `FencedInv`: whoever drives the run holds the
lease (`DriverHoldsLease`), and `finish` has read so (`FinishKnowsOwner`). Results:
`TerminalRunsHoldNoLease`, `TerminalRunsAreFinal`. With `lapse_final` they locate the
problem: the store's writes are safe exactly as long as the lease outlives the step.

`AgentLoopLedgerProofs` (with or without lapses). `TokensMatchSteps` and `MessagesMatchSteps` speak of
recursive functions of the stored steps, `TokensUpTo` and `Transcript`. What these compute is carried
along the run instead of being proved by induction over the steps: `SumIs(k, n, table)` says that a
function satisfying the recursion exists and that each has the value `n` at `k`; it holds for the
empty table, and one more row adds its cost (`SumExtends`). The same with `TranscriptIs`. `LedgerInv`
states both for what is stored, with `PendingIsNew` (a worker whose step index is free has pending
exactly what the store lacks) and `MessagesComeWithSteps`. Results: `TokensAreTheStepsTokens`,
`MessagesAreTheStepsTurns`. So no interleaving of the unlocked reads and writes of `commit_step`
loses, repeats or misplaces a token count or a message. `DivergenceHasALateCause` adds `DivergeInv`:
until a step is stored late, whoever holds the lease is at the store's next step, and whoever's step
index is still free holds the stored conversation (`InStepUntilLate`). A commit that conflicts
is then one of a worker without the lease, which `renew` stops; and each step whose predecessors are
all in time has the transcript before it as its `basis`.

`AgentLoopOutcomeProofs` assumes `~LeasesCanLapse`. `OutcomeInv`: what a driver remembers is what is
stored, up to the step it is taking (`RemembersStore`); one that concludes with COMPLETED has stored
the answer, and `finish` has read what it replaces (`EndsTruly`); the charge beyond the
allowance is the last one unless its worker dies (`RetryRoom`). It rests on `LoopInv`, `FencedInv` and
`LedgerInv`. Results: `StepCapIsKept`, `OvershootIsBounded`, `RetriesAreBounded`,
`CompletedRunsAreAnswered`. `ReplayIsFaithful` follows from `DivergenceHasALateCause`: whoever commits
holds the lease, so no step is late (`NothingIsLate`). `LoopImplementsLifecycle`
is the refinement: `Claim` is `PickUp`, a stored step `TakeStep`, `Pause` and `LeaseExpires` are
`LetGo`, `FinishWrite` is `Complete` or `Fail`, and every other step leaves the abstract run alone.

`DurableToolsProofs`. `DurableToolsImplementLedger`: every step of loop, broker and workers is a
step of `ToolLedger` or leaves it unchanged, so `DurableUnsafeAtMostOnce` follows from the
ledger's theorem. `RunsAreToldOnce` follows from the ledger's invariant: what a poll reads is a
row. `NoDispatchIsDropped` (from `WorkerMishaps = {}`) by `DurableInv`: executions hold
the message of the key they work on, or have lost it to the broker. `ReviewsHaveACause` needs
`OneUndisturbedExecution`: as long as a key was dispatched once and nothing went wrong there is one
message or one execution of it, never both. `DurableTypeCorrect` is the type invariant.

`RunIntakeProofs` (from the assumptions on requests, keys and workers). `IntakeInv`: a row keeps what
it was created with and no two rows share a client key (`RowsAsCreated`); a creation that has passed
its insert has its own run or the run of its key, and one that was refused by the unique constraint will find
the winner's (`CreationsFollowRows`); whoever holds a run has its row's lease
(`LeasesFollowWorkers`). Results, for both stores: `IntakeTypeCorrect`, `CreateIsIdempotent`,
`LimitsFollowTheRun`, `ARunHasOneHolder`.

`StepToolsProofs` (from `LoopsAssumption`, `MaxRepliesAssumption`; from `KeysAssumption`: the key of an
accepted call is one of `Keys`; `AsksAssumption`: arguments are objects over the known fields, each
field once; `NullAssumption`: no id, name, argument list, text or flag is `None`; and the ledger's own). The
wire form comes first. `Positions` is a recursive function; `EveryNatural` replaces the induction rule
by the well-foundedness of the naturals, applied to the set of lengths for which a statement holds,
and gives what `Chosen` returns for every sequence. Hence `SortedPairs` (sorting the fields keeps
the pairs) and `KeyIsSense`: two calls have one idempotency key exactly when they ask for the same
tool with the same arguments. `ToolUseReadBack`, `ToolResultReadBack` and `ThoughtReadBack` follow
each kind of block through `exclude_none`, the column and `block_from_dict`. Then `StepInv`: a
call under way was accepted, has the key of its job, and its job is the next question of its loop's
reply (`JobsOK`, `LoopOK`); each result answers its question with an outcome in the ledger's history
of that key, or with the refusal (`AnswersTo`); what is noted per call agrees with the history per
key (`NotesOK`); the columns hold a reply with all its answers (`StoreOK`). It needs all of these
because a result may come from an attempt, a loop or a worker other than the one that shows it: the only thing
they share is the key. Results: `StepToolsImplementLedger`, `StepTypeCorrect`,
`UnsafeRunsOncePerStep`, `ResultsAreReal`, `UnsafeResultsNeverDiffer`, `EveryCallIsAnswered`,
`StepsReplayFaithfully`.

Only model-checked: liveness (`EveryRunEnds`, `EveryDispatchEnds`, `OldestPickedUp`), which the prover does
not reach. Every safety property of a passing run has a theorem.

## 5. What is not modelled

- Errors of the database. `begin` takes every `IntegrityError` for its unique key, and so does
  `ToolLedger`: the foreign key on the run does not fail while the run exists. A database error that
  leaves a Celery task has the effect of `TimeLimit`: acknowledged, with the row PENDING.
- The moment within its transaction at which `created_at` is set: in `RunIntake` runs have the
  order in which they were committed.
- The LLM adapters beyond the translation of blocks: the request and its errors are network I/O, and
  `AgentLoop` takes every reply and every error that the port allows.
- `commit_step` of the in-memory store and the in-memory ledger: they do in one step, without an
  await, what `RunStore` and `ToolLedger` do in several.
- The built-in tools (a recursive evaluator of arithmetic, a clock): pure functions; a tool is
  its outcome. The fake LLM and the fake queue are test doubles.
- The API (a health route), settings, prompts, migrations: no state. Packages that are still empty
  (events, retrieval, RAG, agents, observability, evals): no code.
- Abstracted: wall-clock durations and backoff delays (only the order of events is kept), the text of
  messages and results, the hash of idempotency keys, the tools of a step in `AgentLoop` (they are
  `StepTools`).

## 6. Plan

Every component that keeps state has a module, and every safety property of a run a theorem. What is
left is the seam between two modules: `AgentLoop` takes the tools of a step as one outcome and
`StepTools` takes the step as given. An abstract attempt that both refine would state it.
