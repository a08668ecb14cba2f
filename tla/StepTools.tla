----------------------------- MODULE StepTools ------------------------------
(***************************************************************************)
(* The tools of one step (loop.py _attempt_step, _execute_all,             *)
(* _execute_one, _execute_durable and _result_from), from the model's      *)
(* reply to the committed messages.                                        *)
(*                                                                         *)
(* A reply asks for several calls, which are executed one after the other: *)
(* refused, run inline through the ledger, or dispatched and polled for.   *)
(* The step may be attempted again after a timeout, a pause or a crash,    *)
(* with another reply, and two workers may drive it at once when a lease   *)
(* has lapsed.  What the attempts share is the ledger; the first to commit *)
(* stores its reply and its results.                                       *)
(*                                                                         *)
(* ToolLedger's Callers are here the loops, for inline calls, and the      *)
(* tasks that execute dispatched ones.  The broker is what DurableTools    *)
(* shows of it: a dispatched call may be delivered any number of times.    *)
(***************************************************************************)
EXTENDS ToolLedger, WireForm

CONSTANTS
    Loops,      \* workers that drive the run
    Registered, \* names of the tools in the registry
    Durable,    \* the ones whose execution mode is DURABLE
    Invalid,    \* what validate_input rejects: a tool's name and its arguments
    Asks,       \* what a reply may ask for: sequences of [name, args]
    Detail,     \* the explanation in the result of a refused call
    NoStep,     \* the step is not committed
    MaxReplies  \* bound: replies of the model to this step

ASSUME LoopsAssumption == Loops \subseteq Callers
ASSUME DurableAssumption == Durable \subseteq Registered
ASSUME MaxRepliesAssumption == MaxReplies \in Nat

VARIABLES
    lpc,        \* where each loop is
    reply,      \* response.content, as the loop holds it
    at,         \* the tool_use block it is executing
    results,    \* the tool_result blocks so far
    replies,    \* replies so far, to all loops
    dispatched, \* calls handed to the broker
    job,        \* the call each caller of execute_invocation was given
    stored,     \* the committed messages of the step, as columns
    kept,       \* history: what the loop that committed them holds
    ran,        \* history: how often a handler was entered, per call
    made        \* history: what the handlers made of which call

loopVars == <<lpc, reply, at, results, replies>>
storeVars == <<stored, kept>>
ranVars == <<ran, made>>
stepVars == <<vars, loopVars, dispatched, job, storeVars, ranVars>>

-----------------------------------------------------------------------------
(* Calls.                                                                  *)

Tasks == Callers \ Loops

\* Mutant: arguments are hashed in the order they arrive in.
keyUnsorted(call) == <<call.name, call.args>>

\* Mutant: the arguments are left out of the key.
keyWithoutArgs(call) == <<call.name, <<>>>>

\* run_id and step_idx are those of the one step modelled.  No two texts have
\* one SHA-256.
invocation_key(call) == <<call.name, SortFields(call.args, Alphabetical)>>

AskedCalls == UNION {{ask[i] : i \in DOMAIN ask} : ask \in Asks}

\* What a call asks for: the tool and the arguments, in whatever order they
\* were written.
Sense(call) == <<call.name, Pairs(call.args)>>

Senses == {Sense(call) : call \in AskedCalls}

\* registry.get and validate_input.
Accepted(call) == call.name \in Registered /\ Sense(call) \notin Invalid

ASSUME KeysAssumption ==
    \A call \in AskedCalls : Accepted(call) => invocation_key(call) \in Keys

\* A reply asks for a list of calls, each with a dict of arguments.
ASSUME AsksAssumption ==
    /\ AskedCalls # {}
    /\ \A ask \in Asks : ask \in Seq(AskedCalls)
    /\ \A call \in AskedCalls :
         call = [name |-> call.name, args |-> call.args] /\ IsObject(call.args)

\* No text, id, list or flag is None.
ASSUME NullAssumption ==
    /\ Null \notin {"tool_use", "tool_result", "thinking", "sig", "hm"}
    /\ Null \notin BOOLEAN /\ Null \notin Nat \X Nat
    /\ Null \notin Outputs /\ Null # Detail
    /\ \A call \in AskedCalls : Null # call.name /\ Null # call.args

\* A thinking block as the SDK dumps it, with an optional field that is not set.
Thinking ==
    <<<<"signature", "sig">>, <<"thinking", "hm">>, <<"data", Null>>,
      <<"type", "thinking">>>>

\* The n-th reply: it thinks, then asks.  Ids are fresh.
RawReply(n, ask) ==
    <<Thinking>> \o
    [i \in DOMAIN ask |->
       <<<<"id", <<n, i>>>>, <<"input", ask[i].args>>, <<"name", ask[i].name>>,
         <<"type", "tool_use">>>>]

IsToolUse(block) == Value(block, "type") = "tool_use"

\* [b for b in response.content if isinstance(b, ToolUseBlock)]
Requested(blocks) == Chosen(blocks, {i \in DOMAIN blocks : IsToolUse(blocks[i])})

CallOf(block) == [name |-> Value(block, "name"), args |-> Value(block, "input")]

Block(l) == Requested(reply[l])[at[l]]

Current(l) == CallOf(Block(l))

-----------------------------------------------------------------------------

StepInit ==
    /\ Init
    /\ key = [c \in Callers |-> CHOOSE k \in Keys : TRUE]
    /\ lpc = [l \in Loops |-> "away"]
    /\ reply = [l \in Loops |-> <<>>]
    /\ at = [l \in Loops |-> 1]
    /\ results = [l \in Loops |-> <<>>]
    /\ replies = 0
    /\ dispatched = {}
    /\ job = [c \in Callers |-> CHOOSE call \in AskedCalls : TRUE]
    /\ stored = NoStep
    /\ kept = NoStep
    /\ ran = [s \in Senses |-> 0]
    /\ made = {}

GotoL(l, where) == lpc' = [lpc EXCEPT ![l] = where]

\* llm.complete has answered with stop_reason tool_use.
Ask(l) ==
    /\ lpc[l] = "away"
    /\ replies < MaxReplies
    /\ replies' = replies + 1
    /\ \E ask \in Asks :
         reply' = [reply EXCEPT ![l] = from_wire_response(RawReply(replies', ask))]
    /\ GotoL(l, "tools")
    /\ UNCHANGED <<vars, at, results, dispatched, job, storeVars, ranVars>>

\* The loop of _execute_all goes on to the next block with this result.
Append1(l, content, isError) ==
    /\ results' = [results EXCEPT ![l] =
                     Append(@, ToolResultBlock(Value(Block(l), "id"), content, isError))]
    /\ at' = [at EXCEPT ![l] = @ + 1]
    /\ GotoL(l, "tools")

\* At the start of _execute_one.
AtCall(l) ==
    /\ lpc[l] = "tools"
    /\ pc[l] = "idle"
    /\ at[l] <= Len(Requested(reply[l]))

\* Mutant: a call that cannot be executed gets no result block.
RefuseSilently(l) ==
    /\ AtCall(l)
    /\ ~Accepted(Current(l))
    /\ at' = [at EXCEPT ![l] = @ + 1]
    /\ UNCHANGED <<vars, lpc, reply, results, replies, dispatched, job, storeVars, ranVars>>

\* ToolNotFound or ToolInputInvalid: an error result, and no ledger row.
Refuse(l) ==
    /\ AtCall(l)
    /\ ~Accepted(Current(l))
    /\ Append1(l, Detail, TRUE)
    /\ UNCHANGED <<vars, reply, replies, dispatched, job, storeVars, ranVars>>

\* Mutant: NEEDS_REVIEW is handed to the model like any failure.
ResultOfReview(l, outcome) == Append1(l, outcome.result, outcome.status # "succeeded")

\* _result_from: NEEDS_REVIEW fails the run, anything else is a result.
ResultFrom(l, outcome) ==
    \/ /\ outcome = InReview
       /\ GotoL(l, "failed")
       /\ UNCHANGED <<at, results>>
    \/ /\ outcome # InReview
       /\ Append1(l, outcome.result, outcome.status = "failed")

\* An inline call: execute_invocation is called with the block's key.
Execute(l) ==
    /\ AtCall(l)
    /\ Accepted(Current(l))
    /\ Current(l).name \notin Durable
    /\ Call(l, invocation_key(Current(l)))
    /\ job' = [job EXCEPT ![l] = Current(l)]
    /\ UNCHANGED <<loopVars, dispatched, storeVars, ranVars>>

\* execute_invocation goes on, for a loop or a task, and what its handler does
\* is noted down.
Invocation(c) ==
    /\ \/ /\ InvokeHandler(c)
          /\ ran' = [ran EXCEPT ![Sense(job[c])] = @ + 1]
          /\ UNCHANGED made
       \/ /\ HandlerEnds(c)
          /\ made' = made \cup {<<Sense(job[c]), got'[c]>>}
          /\ UNCHANGED ran
       \/ /\ Begin(c) \/ Decide(c) \/ NeedsReview(c) \/ Complete(c)
          /\ UNCHANGED ranVars
    /\ UNCHANGED <<dispatched, job, storeVars>>

\* The inline call goes on.  Once it has returned, the row holds what it
\* returned; ToolCrashed becomes _ToolBug, which fails the run.
Inline(l) ==
    /\ Invocation(l)
    /\ \/ pc'[l] # "idle" /\ UNCHANGED loopVars
       \/ /\ pc'[l] = "idle"
          /\ \/ pc[l] = "completeThenRaise" /\ GotoL(l, "failed") /\ UNCHANGED <<at, results>>
             \/ pc[l] # "completeThenRaise" /\ ResultFrom(l, row'[key[l]])
          /\ UNCHANGED <<reply, replies>>

\* _execute_durable looks the key up: it dispatches when there is no row at
\* all, waits when the row is PENDING, and takes a terminal row for the result.
Consult(l) ==
    /\ AtCall(l)
    /\ Accepted(Current(l))
    /\ Current(l).name \in Durable
    /\ LET found == row[invocation_key(Current(l))]
       IN  \/ found = Absent /\ GotoL(l, "enqueue") /\ UNCHANGED <<at, results>>
           \/ found = Pending /\ GotoL(l, "poll") /\ UNCHANGED <<at, results>>
           \/ IsTerminal(found) /\ ResultFrom(l, found)
    /\ UNCHANGED <<vars, reply, replies, dispatched, job, storeVars, ranVars>>

\* enqueue_tool: the message carries the call and its key.
EnqueueTool(l) ==
    /\ lpc[l] = "enqueue"
    /\ dispatched' = dispatched \cup {Current(l)}
    /\ GotoL(l, "poll")
    /\ UNCHANGED <<vars, reply, at, results, replies, job, storeVars, ranVars>>

\* The poll finds a terminal row.
PollRow(l) ==
    /\ lpc[l] = "poll"
    /\ IsTerminal(row[invocation_key(Current(l))])
    /\ ResultFrom(l, row[invocation_key(Current(l))])
    /\ UNCHANGED <<vars, reply, replies, dispatched, job, storeVars, ranVars>>

\* The attempt ends without a result: the step timed out, the broker was not
\* reached, the run was paused or the process died.  Its reply and its results
\* were local variables.
Abandon(l) ==
    /\ lpc[l] \in {"tools", "enqueue", "poll"}
    /\ \/ Vanish(l)
       \/ pc[l] = "idle" /\ UNCHANGED vars
    /\ GotoL(l, "away")
    /\ reply' = [reply EXCEPT ![l] = <<>>]
    /\ at' = [at EXCEPT ![l] = 1]
    /\ results' = [results EXCEPT ![l] = <<>>]
    /\ UNCHANGED <<replies, dispatched, job, storeVars, ranVars>>

\* _commit: the assistant message and the one user message with all results.
\* UNIQUE(run_id, idx) refuses a second commit, and the loser goes on.
Commit(l) ==
    /\ lpc[l] = "tools"
    /\ pc[l] = "idle"
    /\ at[l] > Len(Requested(reply[l]))
    /\ \/ /\ stored = NoStep
          /\ stored' = <<ToColumn(reply[l]), ToColumn(results[l])>>
          /\ kept' = <<reply[l], results[l]>>
       \/ /\ stored # NoStep
          /\ UNCHANGED storeVars
    /\ GotoL(l, "done")
    /\ UNCHANGED <<vars, reply, at, results, replies, dispatched, job, ranVars>>

\* A worker process is given a dispatched call, for the first time or again.
DeliverTask(c) ==
    /\ \E call \in dispatched :
         /\ Call(c, invocation_key(call))
         /\ job' = [job EXCEPT ![c] = call]
    /\ UNCHANGED <<loopVars, dispatched, storeVars, ranVars>>

\* The task goes on, or its process is lost.
TaskStep(c) ==
    /\ \/ Invocation(c)
       \/ Vanish(c) /\ UNCHANGED <<dispatched, job, storeVars, ranVars>>
    /\ UNCHANGED loopVars

Driving(l) ==
    \/ Ask(l) \/ Refuse(l) \/ Execute(l) \/ Inline(l)
    \/ Consult(l) \/ EnqueueTool(l) \/ PollRow(l)
    \/ Abandon(l) \/ Commit(l)

\* Nobody drives the step any more.
StepOver ==
    /\ \A l \in Loops :
         \/ lpc[l] \in {"done", "failed"}
         \/ lpc[l] = "away" /\ replies = MaxReplies
    /\ \A c \in Tasks : pc[c] = "idle"
    /\ UNCHANGED stepVars

StepNext ==
    \/ \E l \in Loops : Driving(l)
    \/ \E c \in Tasks : DeliverTask(c) \/ TaskStep(c)
    \/ StepOver

StepSpec == StepInit /\ [][StepNext]_stepVars

-----------------------------------------------------------------------------
(* Properties.                                                             *)

\* What may be shown to the model as the content of a result.  NEEDS_REVIEW and
\* its explanation may not.
Shown(result) == Value(result, "content") \in Outputs \cup {Detail}

StepTypeOK ==
    /\ TypeOK
    /\ lpc \in [Loops -> {"away", "tools", "enqueue", "poll", "done", "failed"}]
    /\ replies \in 0..MaxReplies
    /\ \A l \in Loops :
         /\ at[l] \in 1..Len(Requested(reply[l])) + 1
         /\ \A i \in DOMAIN results[l] : Shown(results[l][i])
    /\ dispatched \subseteq AskedCalls
    /\ job \in [Callers -> AskedCalls]

\* The step as load rebuilds it.
Loaded == <<FromColumn(stored[1]), FromColumn(stored[2])>>

\* Every tool_use block of the stored reply is answered by exactly one
\* tool_result of the one user message after it, in the order of the questions
\* and under the id of its own question, whatever was refused, failed, replayed
\* from the ledger or retried under other ids.
EveryCallAnswered ==
    stored # NoStep =>
        LET asked == Requested(Loaded[1])
            answers == Loaded[2]
        IN  /\ Len(answers) = Len(asked)
            /\ \A i \in DOMAIN answers :
                 Value(answers[i], "tool_use_id") = Value(asked[i], "id")

\* What the result blocks say of an accepted call is what a handler made of that
\* tool and those arguments, in this attempt or an earlier one, here or in a
\* worker; what they say of any other call is that it was refused.
Happened(blocks, answers) ==
    \A i \in DOMAIN answers :
        LET call == CallOf(Requested(blocks)[i])
            says == [status |-> IF Value(answers[i], "is_error") THEN "failed" ELSE "succeeded",
                     result |-> Value(answers[i], "content")]
        IN  IF Accepted(call) THEN <<Sense(call), says>> \in made
            ELSE says = [status |-> "failed", result |-> Detail]

\* Neither the conversation a loop goes on with nor the stored one contains a
\* result that did not happen.
ResultsHappened ==
    /\ \A l \in Loops : Happened(reply[l], results[l])
    /\ stored # NoStep => Happened(Loaded[1], Loaded[2])

\* Within a step a tool declared UNSAFE is run at most once on the same
\* arguments, however often they are asked for, in whatever order they are
\* written, inline or in a worker, and by however many attempts and drivers.
UnsafeOncePerStep ==
    \A call \in AskedCalls :
        Accepted(call) /\ Effect[invocation_key(call)] = "UNSAFE" => ran[Sense(call)] <= 1

\* What a loop shows the model of an UNSAFE call is what every other loop and
\* the stored step show of it.
UnsafeResultsAgree ==
    LET told == {<<reply[l], results[l]>> : l \in Loops}
                  \cup (IF stored = NoStep THEN {} ELSE {Loaded})
    IN  \A s, t \in told : \A i \in DOMAIN s[2] : \A j \in DOMAIN t[2] :
          LET call == CallOf(Requested(s[1])[i])
              other == CallOf(Requested(t[1])[j])
          IN  Accepted(call) /\ Sense(call) = Sense(other)
                /\ Effect[invocation_key(call)] = "UNSAFE"
              => /\ Value(s[2][i], "content") = Value(t[2][j], "content")
                 /\ Value(s[2][i], "is_error") = Value(t[2][j], "is_error")

\* A resumed run reads back, as JSON, the blocks that the run which committed
\* them goes on with; a thinking block is the one the provider sent, signature
\* included, and nothing that was null is in it.
ReplayFaithful ==
    stored # NoStep =>
        /\ \A m \in {1, 2} :
             /\ Len(Loaded[m]) = Len(kept[m])
             /\ \A i \in DOMAIN kept[m] : SameJson(Loaded[m][i], kept[m][i])
        /\ SameJson(Loaded[1][1], exclude_none(Thinking))

=============================================================================
