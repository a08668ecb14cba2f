------------------------------ MODULE WireForm ------------------------------
(***************************************************************************)
(* Content blocks and their wire form (core/runtime/messages.py): how a    *)
(* block arrives from the provider, is stored, is read back and is sent    *)
(* again.                                                                  *)
(*                                                                         *)
(* A JSON object is the sequence of its <<field, value>> pairs: the model  *)
(* may ask for one call with its arguments in two orders, and a JSONB      *)
(* column keeps none.  A block of ours is the object that model_dump makes *)
(* of it.  The only value that is itself an object is a tool_use block's   *)
(* input.                                                                  *)
(***************************************************************************)
EXTENDS Naturals, Sequences

CONSTANT Null    \* None in Python, null in JSON

-----------------------------------------------------------------------------
(* Objects.                                                                *)

Pairs(obj) == {obj[i] : i \in DOMAIN obj}

Fields(obj) == {p[1] : p \in Pairs(obj)}

\* raw[f], for a field that is there.
Value(obj, f) == (CHOOSE p \in Pairs(obj) : p[1] = f)[2]

\* raw.get(f, default)
ValueOr(obj, f, default) == IF f \in Fields(obj) THEN Value(obj, f) ELSE default

\* The positions up to n that are to be kept, in order.
Taken(s, i, keep) == IF i \in keep THEN Append(s, i) ELSE s

Positions(n, keep) ==
    LET upTo[i \in 0..n] == IF i = 0 THEN <<>> ELSE Taken(upTo[i - 1], i, keep)
    IN  upTo[n]

\* The members of s at these positions, in order.
Chosen(s, keep) ==
    LET chosen == Positions(Len(s), keep)
    IN  [j \in DOMAIN chosen |-> s[chosen[j]]]

\* The pairs of obj, in the order in which `order` lists their fields.
SortFields(obj, order) ==
    LET present == Chosen(order, {i \in DOMAIN order : order[i] \in Fields(obj)})
    IN  [i \in DOMAIN present |-> <<present[i], Value(obj, present[i])>>]

\* The field names that occur, as json.dumps(sort_keys=True) orders them.
Alphabetical ==
    <<"content", "data", "id", "input", "is_error", "limit", "name", "q",
      "signature", "text", "thinking", "tool_use_id", "type">>

\* The same names as Postgres orders the keys of a JSONB object: the shorter
\* first, and by bytes among keys of one length.
ShorterFirst ==
    <<"q", "id", "data", "name", "text", "type", "input", "limit", "content",
      "is_error", "thinking", "signature", "tool_use_id">>

KnownFields == {Alphabetical[i] : i \in DOMAIN Alphabetical}

\* A JSON object, or a dict: every field occurs once.
IsObject(obj) ==
    /\ obj \in Seq(Pairs(obj))
    /\ \A p \in Pairs(obj) : p = <<p[1], p[2]>> /\ p[1] \in KnownFields
    /\ \A p, q \in Pairs(obj) : p[1] = q[1] => p = q

\* Equality of JSON objects, which does not look at the order of fields.
Meaning(obj) ==
    {<<p[1], IF p[1] = "input" THEN Pairs(p[2]) ELSE p[2]>> : p \in Pairs(obj)}

SameJson(a, b) == Meaning(a) = Meaning(b)

-----------------------------------------------------------------------------
(* Blocks.                                                                 *)

\* model_dump(exclude_none=True).
exclude_none(obj) == Chosen(obj, {i \in DOMAIN obj : obj[i][2] # Null})

TextBlock(text) == <<<<"type", "text">>, <<"text", text>>>>

ToolUseBlock(id, name, input) ==
    <<<<"type", "tool_use">>, <<"id", id>>, <<"name", name>>, <<"input", input>>>>

ToolResultBlock(id, content, isError) ==
    <<<<"type", "tool_result">>, <<"tool_use_id", id>>, <<"content", content>>,
      <<"is_error", isError>>>>

\* Mutant: a thinking block is given a type of its own, without its signature.
OpaqueWithoutSignature(raw) ==
    <<<<"type", Value(raw, "type")>>>>
        \o Chosen(raw, {i \in DOMAIN raw : raw[i][1] \notin {"type", "signature"}})

\* OpaqueBlock.model_validate: the declared field, then every other one in the
\* order it arrived in (extra="allow").
OpaqueBlock(raw) ==
    <<<<"type", Value(raw, "type")>>>>
        \o Chosen(raw, {i \in DOMAIN raw : raw[i][1] # "type"})

block_from_dict(raw) ==
    LET kind == Value(raw, "type")
    IN  CASE kind = "text" -> TextBlock(Value(raw, "text"))
          [] kind = "tool_use" ->
               ToolUseBlock(Value(raw, "id"), Value(raw, "name"), Value(raw, "input"))
          [] kind = "tool_result" ->
               ToolResultBlock(Value(raw, "tool_use_id"), Value(raw, "content"),
                               ValueOr(raw, "is_error", FALSE))
          [] OTHER -> OpaqueBlock(raw)

blocks_to_wire(blocks) == [i \in DOMAIN blocks |-> exclude_none(blocks[i])]

\* The adapter's loop over raw.content: text and tool_use are given structure.
from_wire_response(content) ==
    [i \in DOMAIN content |->
       LET payload == exclude_none(content[i])
       IN  CASE Value(payload, "type") = "text" -> TextBlock(Value(payload, "text"))
             [] Value(payload, "type") = "tool_use" ->
                  ToolUseBlock(Value(payload, "id"), Value(payload, "name"),
                               Value(payload, "input"))
             [] OTHER -> OpaqueBlock(payload)]

\* What Postgres keeps in a JSONB column of a block (external): the pairs, and
\* not their order.
Jsonb(obj) ==
    LET outer == SortFields(obj, ShorterFirst)
    IN  [i \in DOMAIN outer |->
           IF outer[i][1] = "input"
           THEN <<"input", SortFields(outer[i][2], ShorterFirst)>>
           ELSE outer[i]]

\* RunMessage.content as commit_step writes it.
ToColumn(blocks) ==
    LET wire == blocks_to_wire(blocks)
    IN  [i \in DOMAIN wire |-> Jsonb(wire[i])]

\* The content of a message as _to_record rebuilds it.
FromColumn(column) == [i \in DOMAIN column |-> block_from_dict(column[i])]
=============================================================================
