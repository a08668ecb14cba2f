----------------------- MODULE AgentLoopLedgerProofs -----------------------
(***************************************************************************)
(* The run's counters and messages agree with its step rows, whatever the  *)
(* leases do.                                                              *)
(*                                                                         *)
(* TokensUpTo and Transcript are recursive functions.  What they compute   *)
(* is carried along the run instead of being proved by induction: in every *)
(* state a function that satisfies the recursion exists, and all of them   *)
(* have the value the store holds.                                         *)
(***************************************************************************)
EXTENDS AgentLoopProofs

-----------------------------------------------------------------------------
(* Sums and transcripts of a table of steps.                               *)

\* f is the running sum of the costs of the first k rows.
SumsTo(f, k, table) ==
    f = [i \in 0..k |-> IF i = 0 THEN 0 ELSE f[i - 1] + table[i - 1].cost]

\* There is such a sum, and it can only be n.
SumIs(k, n, table) ==
    /\ \E f : SumsTo(f, k, table)
    /\ \A f : SumsTo(f, k, table) => f[k] = n

\* Then n is what the recursive definition computes.
LEMMA SumValue ==
    ASSUME NEW k \in Nat, NEW n, SumIs(k, n, steps)
    PROVE  TokensUpTo(k) = n
<1> DEFINE g == CHOOSE f : SumsTo(f, k, steps)
<1>1. SumsTo(g, k, steps)
  BY DEF SumIs
<1>2. g[k] = n
  BY <1>1 DEF SumIs
<1>3. TokensUpTo(k) = g[k]
  BY DEF TokensUpTo, SumsTo
<1> QED BY <1>2, <1>3

\* One more row adds its cost: the running sum is extended for the one half, and
\* cut back for the other.
LEMMA SumExtends ==
    ASSUME NEW k \in Nat, NEW n, NEW table, NEW longer,
           \A i \in 0..(k - 1) : longer[i] = table[i],
           SumIs(k, n, table)
    PROVE  SumIs(k + 1, n + longer[k].cost, longer) /\ SumIs(k, n, longer)
<1>1. ASSUME NEW f PROVE SumsTo(f, k, longer) <=> SumsTo(f, k, table)
  <2>1. \A i \in 0..k : i # 0 => i - 1 \in 0..(k - 1)
    OBVIOUS
  <2>2. [i \in 0..k |-> IF i = 0 THEN 0 ELSE f[i - 1] + longer[i - 1].cost]
         = [i \in 0..k |-> IF i = 0 THEN 0 ELSE f[i - 1] + table[i - 1].cost]
    BY <2>1
  <2> QED BY <2>2 DEF SumsTo
<1>2. SumIs(k, n, longer)
  BY <1>1 DEF SumIs
<1>3. \E f : SumsTo(f, k + 1, longer)
  <2>1. PICK f : SumsTo(f, k, longer)
    BY <1>2 DEF SumIs
  <2> DEFINE g == [i \in 0..(k + 1) |-> IF i = k + 1 THEN f[k] + longer[k].cost ELSE f[i]]
             h == [i \in 0..(k + 1) |-> IF i = 0 THEN 0 ELSE g[i - 1] + longer[i - 1].cost]
  <2>2. \A i \in 0..k : f[i] = IF i = 0 THEN 0 ELSE f[i - 1] + longer[i - 1].cost
    BY <2>1 DEF SumsTo
  <2>3. \A i \in 0..k : g[i] = f[i]
    OBVIOUS
  <2>4. g[k + 1] = f[k] + longer[k].cost
    OBVIOUS
  <2>5. ASSUME NEW i \in 0..(k + 1) PROVE g[i] = h[i]
    <3>1. CASE i = 0
      BY <2>2, <2>3, <3>1
    <3>2. CASE i \in 1..k
      <4>1. i - 1 \in 0..k
        BY <3>2
      <4>2. h[i] = g[i - 1] + longer[i - 1].cost
        BY <3>2
      <4> QED BY <2>2, <2>3, <3>2, <4>1, <4>2
    <3>3. CASE i = k + 1
      BY <2>3, <2>4, <3>3
    <3> QED BY <3>1, <3>2, <3>3
  <2>6. g = h
    BY <2>5
  <2> QED BY <2>6 DEF SumsTo
<1>4. ASSUME NEW g, SumsTo(g, k + 1, longer) PROVE g[k + 1] = n + longer[k].cost
  <2> DEFINE f == [i \in 0..k |-> g[i]]
             h == [i \in 0..k |-> IF i = 0 THEN 0 ELSE f[i - 1] + longer[i - 1].cost]
  <2>1. \A i \in 0..(k + 1) : g[i] = IF i = 0 THEN 0 ELSE g[i - 1] + longer[i - 1].cost
    BY <1>4 DEF SumsTo
  <2>2. ASSUME NEW i \in 0..k PROVE f[i] = h[i]
    <3>1. CASE i = 0
      BY <2>1, <3>1
    <3>2. CASE i # 0
      <4>1. i - 1 \in 0..k
        BY <3>2
      <4> QED BY <2>1, <3>2, <4>1
    <3> QED BY <3>1, <3>2
  <2>3. f = h
    BY <2>2
  <2>4. SumsTo(f, k, longer)
    BY <2>3 DEF SumsTo
  <2>5. f[k] = n
    BY <1>2, <2>4 DEF SumIs
  <2> QED BY <2>1, <2>5
<1> QED BY <1>2, <1>3, <1>4 DEF SumIs

\* A conversation with one more step.  Kept folded: its meaning does not matter to
\* the recursion.
Extended(c, row) == c \o TurnsOf(row)

\* f is the running transcript of the first k rows.
Transcribes(f, k, table) ==
    f = [i \in 0..k |-> IF i = 0 THEN <<Opening>> ELSE Extended(f[i - 1], table[i - 1])]

\* There is such a transcript, and it can only be c.
TranscriptIs(k, c, table) ==
    /\ \E f : Transcribes(f, k, table)
    /\ \A f : Transcribes(f, k, table) => f[k] = c

\* Then c is what the recursive definition computes.
LEMMA TranscriptValue ==
    ASSUME NEW k \in Nat, NEW c, TranscriptIs(k, c, steps)
    PROVE  Transcript(k) = c
<1> DEFINE g == CHOOSE f : Transcribes(f, k, steps)
<1>1. Transcribes(g, k, steps)
  BY DEF TranscriptIs
<1>2. g[k] = c
  BY <1>1 DEF TranscriptIs
<1>3. Transcript(k) = g[k]
  BY DEF Transcript, Transcribes, Extended
<1> QED BY <1>2, <1>3

\* One more row adds its turns.
LEMMA TranscriptExtends ==
    ASSUME NEW k \in Nat, NEW c, NEW table, NEW longer,
           \A i \in 0..(k - 1) : longer[i] = table[i],
           TranscriptIs(k, c, table)
    PROVE  TranscriptIs(k + 1, Extended(c, longer[k]), longer) /\ TranscriptIs(k, c, longer)
<1>1. ASSUME NEW f PROVE Transcribes(f, k, longer) <=> Transcribes(f, k, table)
  <2>1. \A i \in 0..k : i # 0 => i - 1 \in 0..(k - 1)
    OBVIOUS
  <2>2. [i \in 0..k |-> IF i = 0 THEN <<Opening>> ELSE Extended(f[i - 1], longer[i - 1])]
         = [i \in 0..k |-> IF i = 0 THEN <<Opening>> ELSE Extended(f[i - 1], table[i - 1])]
    BY <2>1
  <2> QED BY <2>2 DEF Transcribes
<1>2. TranscriptIs(k, c, longer)
  BY <1>1 DEF TranscriptIs
<1>3. \E f : Transcribes(f, k + 1, longer)
  <2>1. PICK f : Transcribes(f, k, longer)
    BY <1>2 DEF TranscriptIs
  <2> DEFINE g == [i \in 0..(k + 1) |-> IF i = k + 1 THEN Extended(f[k], longer[k]) ELSE f[i]]
             h == [i \in 0..(k + 1) |-> IF i = 0 THEN <<Opening>> ELSE Extended(g[i - 1], longer[i - 1])]
  <2>2. \A i \in 0..k : f[i] = IF i = 0 THEN <<Opening>> ELSE Extended(f[i - 1], longer[i - 1])
    BY <2>1 DEF Transcribes
  <2>3. \A i \in 0..k : g[i] = f[i]
    OBVIOUS
  <2>4. g[k + 1] = Extended(f[k], longer[k])
    OBVIOUS
  <2>5. ASSUME NEW i \in 0..(k + 1) PROVE g[i] = h[i]
    <3>1. CASE i = 0
      BY <2>2, <2>3, <3>1
    <3>2. CASE i \in 1..k
      <4>1. i - 1 \in 0..k
        BY <3>2
      <4>2. h[i] = Extended(g[i - 1], longer[i - 1])
        BY <3>2
      <4> QED BY <2>2, <2>3, <3>2, <4>1, <4>2
    <3>3. CASE i = k + 1
      BY <2>3, <2>4, <3>3
    <3> QED BY <3>1, <3>2, <3>3
  <2>6. g = h
    BY <2>5
  <2> QED BY <2>6 DEF Transcribes
<1>4. ASSUME NEW g, Transcribes(g, k + 1, longer) PROVE g[k + 1] = Extended(c, longer[k])
  <2> DEFINE f == [i \in 0..k |-> g[i]]
             h == [i \in 0..k |-> IF i = 0 THEN <<Opening>> ELSE Extended(f[i - 1], longer[i - 1])]
  <2>1. \A i \in 0..(k + 1) : g[i] = IF i = 0 THEN <<Opening>> ELSE Extended(g[i - 1], longer[i - 1])
    BY <1>4 DEF Transcribes
  <2>2. ASSUME NEW i \in 0..k PROVE f[i] = h[i]
    <3>1. CASE i = 0
      BY <2>1, <3>1
    <3>2. CASE i # 0
      <4>1. i - 1 \in 0..k
        BY <3>2
      <4> QED BY <2>1, <3>2, <4>1
    <3> QED BY <3>1, <3>2
  <2>3. f = h
    BY <2>2
  <2>4. Transcribes(f, k, longer)
    BY <2>3 DEF Transcribes
  <2>5. f[k] = c
    BY <1>2, <2>4 DEF TranscriptIs
  <2> QED BY <2>1, <2>5
<1> QED BY <1>2, <1>3, <1>4 DEF TranscriptIs

\* With no row the sum is 0, and the transcript is the opening.
LEMMA NothingStored ==
    ASSUME NEW table
    PROVE  SumIs(0, 0, table) /\ TranscriptIs(0, <<Opening>>, table)
<1>1. 0..0 = {0}
  OBVIOUS
<1>2. SumIs(0, 0, table)
  <2>1. SumsTo([i \in 0..0 |-> 0], 0, table)
    BY <1>1 DEF SumsTo
  <2>2. \A f : SumsTo(f, 0, table) => f[0] = 0
    BY DEF SumsTo
  <2> QED BY <2>1, <2>2 DEF SumIs
<1>3. TranscriptIs(0, <<Opening>>, table)
  <2> DEFINE c == <<Opening>>
             f0 == [i \in 0..0 |-> c]
  <2>1. Transcribes(f0, 0, table)
    <3>1. \A i \in 0..0 : c = IF i = 0 THEN c ELSE Extended(f0[i - 1], table[i - 1])
      BY <1>1
    <3>2. f0 = [i \in 0..0 |-> IF i = 0 THEN c ELSE Extended(f0[i - 1], table[i - 1])]
      BY <1>1
    <3> QED BY <3>2 DEF Transcribes
  <2>2. \A f : Transcribes(f, 0, table) => f[0] = <<Opening>>
    BY DEF Transcribes
  <2> QED BY <2>1, <2>2 DEF TranscriptIs
<1> QED BY <1>2, <1>3

-----------------------------------------------------------------------------
(* What commit_step stores.                                                *)

\* The first n rows of a table, in index order.
InOrder(table, n) == [i \in 1..n |-> table[i - 1]]

\* Rows inserted after n contiguous ones, read in order, follow them.
LEMMA RowsFollow ==
    ASSUME NEW table, NEW n \in Nat, DOMAIN table = 0..(n - 1),
           \A i \in 0..(n - 1) : table[i] \in Turns, NEW rows \in Seq(Turns),
           NEW longer, longer = Inserted(table, n, rows)
    PROVE  /\ Len(rows) \in Nat
           /\ InOrder(longer, n + Len(rows)) = InOrder(table, n) \o rows
           /\ Len(rows) > 0 => longer[n + Len(rows) - 1] = rows[Len(rows)]
<1> DEFINE s == [i \in 1..n |-> table[i - 1]]
           t == [i \in 1..(n + Len(rows)) |-> longer[i - 1]]
<1>1. Len(rows) \in Nat /\ rows \in [1..Len(rows) -> Turns]
  BY LenProperties
<1>2. s \in Seq(Turns) /\ Len(s) = n
  <2>1. \A i \in 1..n : i - 1 \in 0..(n - 1)
    OBVIOUS
  <2>2. s \in [1..n -> Turns]
    BY <2>1
  <2>3. s \in Seq(Turns)
    BY <2>2, SeqDef
  <2> QED BY <2>2, <2>3, LenProperties
<1>3. \A i \in 1..n : t[i] = s[i]
  <2> SUFFICES ASSUME NEW i \in 1..n PROVE t[i] = s[i]
    OBVIOUS
  <2>1. i - 1 \in 0..(n - 1) /\ i \in 1..(n + Len(rows))
    BY <1>1
  <2>2. longer[i - 1] = table[i - 1]
    BY <2>1, RowsAppended
  <2> QED BY <2>1, <2>2
<1>4. \A i \in n..(n + Len(rows) - 1) : longer[i] = rows[i - n + 1]
  BY <1>1 DEF Inserted
<1>5. \A i \in (n + 1)..(n + Len(rows)) : t[i] = rows[i - n]
  <2> SUFFICES ASSUME NEW i \in (n + 1)..(n + Len(rows)) PROVE t[i] = rows[i - n]
    OBVIOUS
  <2>1. i - 1 \in n..(n + Len(rows) - 1) /\ i \in 1..(n + Len(rows)) /\ (i - 1) - n + 1 = i - n
    BY <1>1
  <2>2. longer[i - 1] = rows[(i - 1) - n + 1]
    BY <1>4, <2>1
  <2> QED BY <2>1, <2>2
<1>6. /\ s \o rows \in Seq(Turns) /\ Len(s \o rows) = n + Len(rows)
      /\ \A i \in 1..(n + Len(rows)) :
           (s \o rows)[i] = IF i <= n THEN s[i] ELSE rows[i - n]
  <2> HIDE DEF s, t
  <2> QED BY <1>1, <1>2, ConcatProperties
<1>7. s \o rows \in [1..(n + Len(rows)) -> Turns]
  <2> HIDE DEF s, t
  <2>1. s \o rows \in [1..Len(s \o rows) -> Turns]
    BY ONLY <1>6, LenProperties
  <2> QED BY <1>6, <2>1
<1>8. \A i \in 1..(n + Len(rows)) : t[i] = (s \o rows)[i]
  <2> SUFFICES ASSUME NEW i \in 1..(n + Len(rows)) PROVE t[i] = (s \o rows)[i]
    OBVIOUS
  <2> HIDE DEF s, t
  <2>1. CASE i <= n
    BY <1>1, <1>3, <1>6, <2>1
  <2>2. CASE i > n
    BY <1>1, <1>5, <1>6, <2>2
  <2> QED BY <1>1, <2>1, <2>2
<1>9. t = s \o rows
  <2> DEFINE u == s \o rows
  <2>1. u = [i \in 1..(n + Len(rows)) |-> u[i]]
    BY <1>7
  <2>2. \A i \in 1..(n + Len(rows)) : longer[i - 1] = u[i]
    BY <1>8
  <2> HIDE DEF u
  <2>3. t = u
    BY <2>1, <2>2
  <2> QED BY <2>3 DEF u
<1>10. Len(rows) > 0 => longer[n + Len(rows) - 1] = rows[Len(rows)]
  <2> SUFFICES ASSUME Len(rows) > 0 PROVE longer[n + Len(rows) - 1] = rows[Len(rows)]
    OBVIOUS
  <2>1. n + Len(rows) - 1 \in n..(n + Len(rows) - 1)
        /\ (n + Len(rows) - 1) - n + 1 = Len(rows)
    BY <1>1
  <2> QED BY <1>4, <2>1
<1>11. InOrder(longer, n + Len(rows)) = t /\ InOrder(table, n) = s
  BY DEF InOrder
<1> QED BY <1>1, <1>9, <1>10, <1>11

\* A commit that lands adds its step and its messages after those stored.
LEMMA CommitStores ==
    ASSUME LoopInv, NEW w \in Owners, CommitWrite(w),
           ~Conflicts(nsteps[w], pending[w], snap[w])
    PROVE  /\ nsteps[w] = steps_taken /\ reply[w] \in Replies
           /\ steps_taken' = steps_taken + 1 /\ tokens' = tokens + reply[w].cost
           /\ \A i \in 0..(steps_taken - 1) : steps'[i] = steps[i]
           /\ steps'[steps_taken] = reply[w]
           /\ StoredConversation' = StoredConversation \o pending[w]
           /\ MessageCount' = MessageCount + Len(pending[w])
           /\ Len(pending[w]) > 0 =>
                messages'[MessageCount' - 1] = pending[w][Len(pending[w])]
<1> USE DEF LoopInv
<1>1. pc[w] = "commitWrite" /\ insertStep(nsteps[w], reply[w], pending[w], snap[w])
  BY DEF CommitWrite
<1>2. nsteps[w] = steps_taken /\ snap[w].count = MessageCount /\ snap[w].tokens = tokens
  BY <1>1, CommitLands
<1>3. reply[w] \in Replies
  BY <1>1 DEF MemoryReady
<1>4. /\ steps' = Inserted(steps, steps_taken, <<reply[w]>>)
      /\ messages' = Inserted(messages, MessageCount, pending[w])
      /\ steps_taken' = steps_taken + 1 /\ tokens' = tokens + reply[w].cost
  BY <1>1, <1>2 DEF insertStep
<1>5. /\ DOMAIN messages = 0..(MessageCount - 1)
      /\ \A i \in 0..(MessageCount - 1) : messages[i] \in Turns
      /\ MessageCount \in Nat /\ pending[w] \in Seq(Turns) /\ steps_taken \in Nat
      /\ DOMAIN steps = 0..(steps_taken - 1)
  BY StoredConversationType DEF TypeOK, StoreTypeOK, RowsContiguous
<1> HIDE DEF LoopInv
<1>6. /\ \A i \in 0..(steps_taken - 1) : steps'[i] = steps[i]
      /\ steps'[steps_taken] = reply[w]
  BY ONLY <1>4, <1>5, RowAppended
<1> DEFINE rows == pending[w]
           n == MessageCount
           table == messages'
<1>7. /\ table = Inserted(messages, n, rows) /\ n \in Nat /\ rows \in Seq(Turns)
      /\ DOMAIN messages = 0..(n - 1) /\ \A i \in 0..(n - 1) : messages[i] \in Turns
  BY <1>4, <1>5
<1>8. MessageCount' = Cardinality(DOMAIN table)
  BY DEF MessageCount
<1>9. StoredConversation = InOrder(messages, n)
      /\ StoredConversation' = InOrder(table, MessageCount')
  BY DEF StoredConversation, InOrder
<1> HIDE DEF rows, n, table
<1>10. Cardinality(DOMAIN table) = n + Len(rows)
  <2>1. Cardinality(DOMAIN Inserted(messages, n, rows)) = n + Len(rows)
    <3> DEFINE held == messages
    <3> HIDE DEF held
    <3>1. /\ n \in Nat /\ rows \in Seq(Turns) /\ DOMAIN held = 0..(n - 1)
          /\ \A i \in 0..(n - 1) : held[i] \in Turns
      BY <1>7 DEF held
    <3>2. Cardinality(DOMAIN Inserted(held, n, rows)) = n + Len(rows)
      BY ONLY <3>1, RowsAppended
    <3> QED BY <3>2 DEF held
  <2> QED BY ONLY <1>7, <2>1
<1>11. /\ InOrder(table, n + Len(rows)) = InOrder(messages, n) \o rows
       /\ Len(rows) > 0 => table[n + Len(rows) - 1] = rows[Len(rows)]
  BY ONLY <1>7, RowsFollow
<1>12. MessageCount' = n + Len(rows)
  BY <1>8, <1>10
<1>13. StoredConversation' = StoredConversation \o rows
  BY ONLY <1>9, <1>11, <1>12
<1>14. /\ MessageCount' = MessageCount + Len(pending[w])
       /\ StoredConversation' = StoredConversation \o pending[w]
       /\ Len(pending[w]) > 0 => messages'[MessageCount' - 1] = pending[w][Len(pending[w])]
  <2>1. rows = pending[w] /\ n = MessageCount /\ table = messages'
    BY DEF rows, n, table
  <2>2. MessageCount' = MessageCount + Len(pending[w])
    BY ONLY <1>12, <2>1
  <2>3. StoredConversation' = StoredConversation \o pending[w]
    BY ONLY <1>13, <2>1
  <2>4. Len(rows) > 0 => table[MessageCount' - 1] = rows[Len(rows)]
    <3>1. Len(rows) > 0 => table[n + Len(rows) - 1] = rows[Len(rows)]
      BY <1>11
    <3>2. n \in Nat /\ Len(rows) \in Nat
      BY <1>7, LenProperties
    <3>3. n + Len(rows) - 1 = MessageCount' - 1
      BY ONLY <1>12, <3>2
    <3> QED BY ONLY <3>1, <3>3
  <2>5. Len(pending[w]) > 0 => messages'[MessageCount' - 1] = pending[w][Len(pending[w])]
    BY ONLY <2>1, <2>4
  <2> QED BY <2>2, <2>3, <2>5
<1> QED BY <1>2, <1>3, <1>4, <1>6, <1>14

\* A commit that conflicts finds its step index taken.
LEMMA ConflictMeansTaken ==
    ASSUME LoopInv, NEW w \in Owners, pc[w] = "commitWrite",
           Conflicts(nsteps[w], pending[w], snap[w])
    PROVE  nsteps[w] # steps_taken
<1> USE DEF LoopInv
<1> SUFFICES ASSUME nsteps[w] = steps_taken PROVE FALSE
  OBVIOUS
<1>1. steps_taken \in Nat /\ MessageCount \in Nat /\ Len(pending[w]) \in Nat
  BY StoredConversationType, LenProperties DEF TypeOK, StoreTypeOK
<1>2. steps_taken \notin DOMAIN steps
  BY <1>1 DEF RowsContiguous
<1>3. snap[w].count = MessageCount
  BY DEF FreshIfFree
<1>4. \A i \in 0..(Len(pending[w]) - 1) : snap[w].count + i \notin DOMAIN messages
  BY <1>1, <1>3 DEF RowsContiguous
<1> QED BY <1>2, <1>4 DEF Conflicts

\* The commit of a step that is stored.
Lands(w) == CommitWrite(w) /\ ~Conflicts(nsteps[w], pending[w], snap[w])

\* Every other step leaves rows and counters alone.
LEMMA OnlyCommitsStore ==
    ASSUME LoopInv, [Next]_vars, ~\E w \in Owners : Lands(w)
    PROVE  UNCHANGED <<steps_taken, tokens, steps, messages>>
<1>1. ASSUME NEW w \in Owners, Claim(w) \/ Drive(w) \/ Crash(w)
      PROVE  UNCHANGED <<countVars, childVars>>
  <2>1. CASE RowWrite(w)
    BY <2>1, RowWriteFacts
  <2>2. CASE QuietStep(w)
    BY <2>2, QuietActions DEF storeVars
  <2>3. CASE CommitWrite(w)
    BY <2>3 DEF Lands, CommitWrite, storeVars
  <2> QED BY <1>1, <2>1, <2>2, <2>3 DEF Drive, QuietStep, RowWrite
<1>2. CASE LeaseExpires \/ LeaseLapses
  BY <1>2 DEF LeaseExpires, LeaseLapses, expire, countVars, childVars
<1>3. CASE UNCHANGED vars
  BY <1>3 DEF vars, storeVars, countVars, childVars
<1> QED BY <1>1, <1>2, <1>3 DEF Next, Over, countVars, childVars

-----------------------------------------------------------------------------
(* The invariant.                                                          *)

\* Tokens and messages are those of the steps.
LedgerInv ==
    /\ PendingIsNew
    /\ MessagesComeWithSteps
    /\ SumIs(steps_taken, tokens, steps)
    /\ TranscriptIs(steps_taken, Conversation, steps)

\* A worker's own step keeps what it has pending in line with the store.
LEMMA OwnPending ==
    ASSUME LoopInv, PendingIsNew, MessagesComeWithSteps, NEW w \in Owners,
           QuietStep(w) \/ RowWrite(w) \/ CommitWrite(w), ~Lands(w)
    PROVE  nsteps'[w] = steps_taken =>
             /\ pc'[w] \in {"top", "ask", "retry"} => pending'[w] = OpeningIfNew
             /\ pc'[w] \in {"commitRead", "commitCount", "commitWrite"} =>
                  pending'[w] = OpeningIfNew \o TurnsOf(reply'[w])
<1> USE DEF LoopInv, TypeOK
<1>1. CASE LoadMessages(w)
  <2>1. DOMAIN messages = {} <=> steps_taken = 0
    <3>1. MessageCount \in Nat /\ DOMAIN messages = 0..(MessageCount - 1)
      BY StoredConversationType DEF RowsContiguous
    <3> QED BY <3>1 DEF MessagesComeWithSteps
  <2>2. pc'[w] = "top" /\ pending'[w] = IF DOMAIN messages = {} THEN <<Opening>> ELSE <<>>
    BY <1>1 DEF LoadMessages, Goto
  <2> QED BY <2>1, <2>2 DEF OpeningIfNew
<1>2. CASE Respond(w)
  <2>1. PICK r \in Replies : /\ reply' = [reply EXCEPT ![w] = r]
                             /\ pending' = [pending EXCEPT ![w] = @ \o TurnsOf(r)]
    BY <1>2 DEF Respond
  <2>2. /\ reply'[w] = r /\ pending'[w] = pending[w] \o TurnsOf(r)
        /\ pc[w] = "ask" /\ pc'[w] = "commitRead" /\ nsteps'[w] = nsteps[w]
    BY <1>2, <2>1 DEF Respond, Goto
  <2> QED BY <2>2 DEF PendingIsNew
<1>3. CASE Renew(w)
  <2>1. pc'[w] = "top" => nsteps'[w] = nsteps[w] + 1 /\ pending'[w] = <<>>
    BY <1>3 DEF Renew, Leave, Conclude, Goto
  <2>2. pc'[w] \in {"top", "idle", "finishRead"}
    BY <1>3 DEF Renew, Leave, Conclude, Goto
  <2>3. nsteps[w] \in Nat
    OBVIOUS
  <2> QED BY <2>1, <2>2, <2>3 DEF OpeningIfNew
<1>4. CASE PolicyCheck(w) \/ AttemptFails(w) \/ RecordRetry(w)
  <2>1. /\ pc[w] \in {"top", "ask", "retry"} /\ nsteps' = nsteps /\ pending' = pending
        /\ pc'[w] \in {"ask", "retry", "pause", "finishRead"}
    BY <1>4 DEF PolicyCheck, AttemptFails, RecordRetry, Conclude, Goto
  <2> QED BY <2>1 DEF PendingIsNew
<1>5. CASE CommitRead(w) \/ CommitCount(w)
  <2>1. /\ pc[w] \in {"commitRead", "commitCount"} /\ pc'[w] \in {"commitCount", "commitWrite"}
        /\ nsteps' = nsteps /\ pending' = pending /\ reply' = reply
    BY <1>5 DEF CommitRead, CommitCount, Goto
  <2> QED BY <2>1 DEF PendingIsNew
<1>6. CASE LoadRun(w) \/ LoadSteps(w) \/ FailStep(w) \/ ToolInFlight(w) \/ RequestError(w)
           \/ FinishRead(w)
  <2>1. pc'[w] \in {"loadSteps", "loadMessages", "finishRead", "pause", "idle", "finishWrite"}
    BY <1>6 DEF LoadRun, LoadSteps, FailStep, ToolInFlight, RequestError, FinishRead,
       Conclude, Leave, Goto
  <2> QED BY <2>1
<1>7. CASE Claim(w) \/ FinishWrite(w) \/ Pause(w) \/ Crash(w) \/ CommitWrite(w)
  <2>1. pc'[w] \in {"loadRun", "idle", "renew"}
    BY <1>7 DEF Claim, FinishWrite, Pause, Crash, CommitWrite, Leave, Goto
  <2> QED BY <2>1
<1> QED
  BY <1>1, <1>2, <1>3, <1>4, <1>5, <1>6, <1>7 DEF QuietStep, RowWrite

\* The other workers' memory is their own.
LEMMA OthersKeep ==
    ASSUME LoopInv, NEW w \in Owners, QuietStep(w) \/ RowWrite(w) \/ CommitWrite(w),
           NEW v \in Owners \ {w}
    PROVE  /\ pc'[v] = pc[v] /\ nsteps'[v] = nsteps[v] /\ usage'[v] = usage[v]
           /\ conv'[v] = conv[v] /\ pending'[v] = pending[v]
           /\ reply'[v] = reply[v] /\ snap'[v] = snap[v] /\ end'[v] = end[v]
<1> USE DEF LoopInv, TypeOK, Goto, Conclude, Leave, memoryVars
<1>1. CASE LoadRun(w) \/ LoadSteps(w) \/ LoadMessages(w)
  BY <1>1 DEF LoadRun, LoadSteps, LoadMessages
<1>2. CASE PolicyCheck(w) \/ Respond(w)
  BY <1>2 DEF PolicyCheck, Respond
<1>3. CASE FailStep(w) \/ ToolInFlight(w)
  BY <1>3 DEF FailStep, ToolInFlight
<1>4. CASE RequestError(w) \/ AttemptFails(w)
  BY <1>4 DEF RequestError, AttemptFails
<1>5. CASE CommitRead(w) \/ CommitCount(w) \/ CommitWrite(w)
  BY <1>5 DEF CommitRead, CommitCount, CommitWrite
<1>6. CASE Renew(w)
  BY <1>6 DEF Renew
<1>7. CASE FinishRead(w) \/ FinishWrite(w)
  BY <1>7 DEF FinishRead, FinishWrite
<1>8. CASE Claim(w) \/ RecordRetry(w)
  BY <1>8 DEF Claim, RecordRetry
<1>9. CASE Pause(w) \/ Crash(w)
  BY <1>9 DEF Pause, Crash
<1> QED
  BY <1>1, <1>2, <1>3, <1>4, <1>5, <1>6, <1>7, <1>8, <1>9 DEF QuietStep, RowWrite

\* The last turn of a reply, wherever it is appended.
LEMMA LastTurn ==
    ASSUME NEW c \in Seq(Turns), NEW r \in Replies
    PROVE  /\ c \o TurnsOf(r) \in Seq(Turns)
           /\ Len(c \o TurnsOf(r)) > 0
           /\ (c \o TurnsOf(r))[Len(c \o TurnsOf(r))].role =
                IF r.stop = "tool_use" THEN "user" ELSE "assistant"
<1> DEFINE t == TurnsOf(r)
           role == IF r.stop = "tool_use" THEN "user" ELSE "assistant"
<1>1. t \in Seq(Turns)
  BY TurnsOfType
<1>2. Len(t) \in Nat /\ Len(t) > 0 /\ t[Len(t)].role = role
  BY DEF TurnsOf, Turn
<1> HIDE DEF t, role
<1>3. Len(c) \in Nat
  BY LenProperties
<1>4. /\ c \o t \in Seq(Turns) /\ Len(c \o t) = Len(c) + Len(t)
      /\ \A i \in 1..(Len(c) + Len(t)) :
           (c \o t)[i] = IF i <= Len(c) THEN c[i] ELSE t[i - Len(c)]
  BY <1>1, ConcatProperties
<1>5. (c \o t)[Len(c) + Len(t)] = t[Len(t)]
  <2>1. Len(c) + Len(t) \in 1..(Len(c) + Len(t)) /\ ~(Len(c) + Len(t) <= Len(c))
        /\ (Len(c) + Len(t)) - Len(c) = Len(t)
    BY <1>2, <1>3
  <2> QED BY <1>4, <2>1
<1>6. /\ c \o t \in Seq(Turns) /\ Len(c \o t) > 0
      /\ (c \o t)[Len(c \o t)].role = role
  BY <1>2, <1>3, <1>4, <1>5
<1> QED BY <1>6 DEF t, role

\* What a worker that loads the run holds is a conversation.
LEMMA ConversationType ==
    ASSUME LoopInv
    PROVE  /\ Conversation \in Seq(Turns) /\ OpeningIfNew \in Seq(Turns)
           /\ StoredConversation \in Seq(Turns)
<1>1. StoredConversation \in Seq(Turns)
  BY StoredConversationType DEF LoopInv
<1>2. <<Opening>> \in Seq(Turns) /\ <<>> \in Seq(Turns)
  BY OpeningType
<1> QED BY <1>1, <1>2 DEF Conversation, OpeningIfNew

\* A commit that lands extends the conversation by its reply's turns.
LEMMA LandsExtends ==
    ASSUME LoopInv, PendingIsNew, MessagesComeWithSteps, NEW w \in Owners, Lands(w)
    PROVE  /\ StoredConversation' = Conversation \o TurnsOf(reply[w])
           /\ MessagesComeWithSteps'
<1>1. /\ nsteps[w] = steps_taken /\ reply[w] \in Replies
      /\ steps_taken' = steps_taken + 1
      /\ steps'[steps_taken] = reply[w]
      /\ StoredConversation' = StoredConversation \o pending[w]
      /\ MessageCount' = MessageCount + Len(pending[w])
      /\ Len(pending[w]) > 0 => messages'[MessageCount' - 1] = pending[w][Len(pending[w])]
  BY CommitStores DEF Lands
<1> DEFINE t == TurnsOf(reply[w])
<1>2. pending[w] = OpeningIfNew \o t
  BY <1>1 DEF Lands, CommitWrite, PendingIsNew
<1>3. /\ t \in Seq(Turns) /\ OpeningIfNew \in Seq(Turns)
      /\ StoredConversation \in Seq(Turns) /\ steps_taken \in Nat /\ MessageCount \in Nat
  BY <1>1, TurnsOfType, ConversationType, StoredConversationType
     DEF LoopInv, TypeOK, StoreTypeOK
<1>4. StoredConversation' = Conversation \o t
  <2> HIDE DEF t
  <2>1. CASE steps_taken = 0
    <3>1. MessageCount = 0
      BY <2>1 DEF MessagesComeWithSteps
    <3>2. StoredConversation = <<>>
      BY <3>1 DEF StoredConversation
    <3>3. OpeningIfNew = <<Opening>> /\ Conversation = <<Opening>>
      BY <2>1 DEF OpeningIfNew, Conversation
    <3>4. <<Opening>> \o t \in Seq(Turns)
      BY <1>3, <3>3, ConcatProperties
    <3>5. <<>> \o (<<Opening>> \o t) = <<Opening>> \o t
      BY ONLY <3>4, ConcatEmptySeq
    <3> QED BY ONLY <1>1, <1>2, <3>2, <3>3, <3>5
  <2>2. CASE steps_taken # 0
    <3>1. OpeningIfNew = <<>> /\ Conversation = StoredConversation
      BY <2>2 DEF OpeningIfNew, Conversation
    <3>2. <<>> \o t = t
      BY ONLY <1>3, ConcatEmptySeq
    <3> QED BY ONLY <1>1, <1>2, <3>1, <3>2
  <2> QED BY <2>1, <2>2
<1>5. MessagesComeWithSteps'
  <2>1. /\ Len(pending[w]) > 0 /\ pending[w] \in Seq(Turns)
        /\ pending[w][Len(pending[w])].role =
             IF reply[w].stop = "tool_use" THEN "user" ELSE "assistant"
    BY <1>1, <1>2, <1>3, LastTurn
  <2>2. messages'[MessageCount' - 1] = pending[w][Len(pending[w])]
    BY <1>1, <2>1
  <2>3. MessageCount' > 0
    <3>1. Len(pending[w]) \in Nat
      BY <2>1, LenProperties
    <3> QED BY <1>1, <1>3, <2>1, <3>1
  <2>4. steps_taken' # 0 /\ steps'[steps_taken' - 1] = reply[w]
    <3>1. steps_taken' - 1 = steps_taken
      BY <1>1, <1>3
    <3> QED BY <1>1, <1>3, <3>1
  <2>5. messages'[MessageCount' - 1].role =
          IF steps'[steps_taken' - 1].stop = "tool_use" THEN "user" ELSE "assistant"
    BY ONLY <2>1, <2>2, <2>4
  <2> QED BY <2>3, <2>4, <2>5 DEF MessagesComeWithSteps
<1> QED BY <1>4, <1>5

\* Every step keeps counters and messages in line with the steps.
LEMMA LedgerStep ==
    ASSUME LoopInv, LedgerInv, [Next]_vars
    PROVE  LedgerInv'
<1> USE DEF LedgerInv
<1>1. ASSUME NEW w \in Owners, Lands(w) PROVE LedgerInv'
  <2>1. /\ reply[w] \in Replies
        /\ steps_taken' = steps_taken + 1 /\ tokens' = tokens + reply[w].cost
        /\ \A i \in 0..(steps_taken - 1) : steps'[i] = steps[i]
        /\ steps'[steps_taken] = reply[w]
    BY <1>1, CommitStores DEF Lands
  <2>2. StoredConversation' = Conversation \o TurnsOf(reply[w]) /\ MessagesComeWithSteps'
    BY <1>1, LandsExtends
  <2>3. steps_taken \in Nat
    BY DEF LoopInv, TypeOK, StoreTypeOK
  <2>4. PendingIsNew'
    <3>1. \A v \in Owners : nsteps'[v] # steps_taken'
      <4> SUFFICES ASSUME NEW v \in Owners PROVE nsteps'[v] # steps_taken'
        OBVIOUS
      <4>1. nsteps' = nsteps
        BY <1>1 DEF Lands, CommitWrite
      <4>2. nsteps[v] \in Nat /\ nsteps[v] <= steps_taken
        BY DEF LoopInv, TypeOK, NothingBelievedUntilStored
      <4> QED BY <2>1, <2>3, <4>1, <4>2
    <3> QED BY <3>1 DEF PendingIsNew
  <2>5. SumIs(steps_taken', tokens', steps')
    <3> HIDE DEF LedgerInv
    <3>1. SumIs(steps_taken, tokens, steps)
      BY DEF LedgerInv
    <3>2. SumIs(steps_taken + 1, tokens + steps'[steps_taken].cost, steps')
      BY ONLY <2>1, <2>3, <3>1, SumExtends
    <3> QED BY <2>1, <3>2
  <2>6. TranscriptIs(steps_taken', Conversation', steps')
    <3> HIDE DEF LedgerInv
    <3>1. TranscriptIs(steps_taken, Conversation, steps)
      BY DEF LedgerInv
    <3>2. TranscriptIs(steps_taken + 1, Extended(Conversation, steps'[steps_taken]), steps')
      BY ONLY <2>1, <2>3, <3>1, TranscriptExtends
    <3>3. Extended(Conversation, reply[w]) = Conversation \o TurnsOf(reply[w])
      BY DEF Extended
    <3>4. Conversation' = StoredConversation'
      BY <2>1, <2>3 DEF Conversation
    <3> QED BY ONLY <2>1, <2>2, <3>2, <3>3, <3>4
  <2> QED BY <2>2, <2>4, <2>5, <2>6
<1>2. CASE ~\E w \in Owners : Lands(w)
  <2>1. UNCHANGED <<steps_taken, tokens, steps, messages>>
    BY <1>2, OnlyCommitsStore
  <2>2. /\ MessageCount' = MessageCount /\ StoredConversation' = StoredConversation
        /\ OpeningIfNew' = OpeningIfNew
    BY <2>1 DEF MessageCount, StoredConversation, OpeningIfNew
  <2>3. Conversation' = Conversation
    BY <2>1, <2>2 DEF Conversation
  <2>4. MessagesComeWithSteps'
    BY <2>1, <2>2 DEF MessagesComeWithSteps
  <2>5. SumIs(steps_taken, tokens, steps)' /\ TranscriptIs(steps_taken, Conversation, steps)'
    BY <2>1, <2>3
  <2>6. PendingIsNew'
    <3>1. ASSUME NEW w \in Owners, Claim(w) \/ Drive(w) \/ Crash(w) PROVE PendingIsNew'
      <4>1. QuietStep(w) \/ RowWrite(w) \/ CommitWrite(w)
        BY <3>1 DEF Drive, QuietStep, RowWrite
      <4>2. nsteps'[w] = steps_taken =>
             /\ pc'[w] \in {"top", "ask", "retry"} => pending'[w] = OpeningIfNew
             /\ pc'[w] \in {"commitRead", "commitCount", "commitWrite"} =>
                  pending'[w] = OpeningIfNew \o TurnsOf(reply'[w])
        BY <1>2, <4>1, OwnPending
      <4>3. \A v \in Owners \ {w} :
              /\ pc'[v] = pc[v] /\ nsteps'[v] = nsteps[v]
              /\ pending'[v] = pending[v] /\ reply'[v] = reply[v]
        BY <4>1, OthersKeep
      <4> QED BY <2>1, <2>2, <4>2, <4>3 DEF PendingIsNew
    <3>2. CASE LeaseExpires \/ LeaseLapses \/ UNCHANGED vars
      <4>1. UNCHANGED <<pc, nsteps, pending, reply>>
        BY <3>2 DEF LeaseExpires, LeaseLapses, vars, memoryVars
      <4> QED BY <2>1, <2>2, <4>1 DEF PendingIsNew
    <3> QED BY <3>1, <3>2 DEF Next, Over
  <2> QED BY <2>4, <2>5, <2>6
<1> QED BY <1>1, <1>2

\* Counters and messages are in line with the steps in every reachable state.
THEOREM LedgerInvariant == Spec => []LedgerInv
<1>1. Init => LedgerInv
  <2> SUFFICES ASSUME Init PROVE LedgerInv
    OBVIOUS
  <2>1. steps_taken = 0 /\ tokens = 0 /\ DOMAIN messages = {}
    BY DEF Init, Created
  <2>2. MessagesComeWithSteps
    BY <2>1, FS_EmptySet DEF MessagesComeWithSteps, MessageCount
  <2>3. PendingIsNew
    BY DEF Init, PendingIsNew
  <2>4. Conversation = <<Opening>>
    BY <2>1 DEF Conversation
  <2>5. SumIs(0, 0, steps) /\ TranscriptIs(0, <<Opening>>, steps)
    BY NothingStored
  <2> QED BY <2>1, <2>2, <2>3, <2>4, <2>5 DEF LedgerInv
<1>2. LoopInv /\ LedgerInv /\ [Next]_vars => LedgerInv'
  BY LedgerStep
<1> QED BY <1>1, <1>2, LoopInvariant, PTL DEF Spec

\* The token counter is the sum over the stored steps: no read-modify-write of
\* commit_step loses or repeats an update, however workers interleave.
THEOREM TokensAreTheStepsTokens == Spec => []TokensMatchSteps
<1>1. LoopInv /\ LedgerInv => TokensMatchSteps
  <2> SUFFICES ASSUME LoopInv, LedgerInv PROVE TokensMatchSteps
    OBVIOUS
  <2>1. steps_taken \in Nat
    BY DEF LoopInv, TypeOK, StoreTypeOK
  <2>2. SumIs(steps_taken, tokens, steps)
    BY DEF LedgerInv
  <2>3. TokensUpTo(steps_taken) = tokens
    BY ONLY <2>1, <2>2, SumValue
  <2> QED BY <2>3 DEF TokensMatchSteps
<1> QED BY <1>1, LoopInvariant, LedgerInvariant, PTL

\* The stored conversation is the opening and the turns of the stored steps, in
\* order and each once, however workers interleave.
THEOREM MessagesAreTheStepsTurns == Spec => []MessagesMatchSteps
<1>1. LoopInv /\ LedgerInv => MessagesMatchSteps
  <2> SUFFICES ASSUME LoopInv, LedgerInv PROVE MessagesMatchSteps
    OBVIOUS
  <2>1. steps_taken \in Nat
    BY DEF LoopInv, TypeOK, StoreTypeOK
  <2>2. TranscriptIs(steps_taken, Conversation, steps)
    BY DEF LedgerInv
  <2>3. Transcript(steps_taken) = Conversation
    BY ONLY <2>1, <2>2, TranscriptValue
  <2>4. steps_taken = 0 => StoredConversation = <<>>
    BY DEF LedgerInv, MessagesComeWithSteps, StoredConversation
  <2> QED BY <2>3, <2>4 DEF MessagesMatchSteps, Conversation
<1> QED BY <1>1, LoopInvariant, LedgerInvariant, PTL

-----------------------------------------------------------------------------
(* Memory and store part only after a late step.                           *)

\* A conversation without the turns just added to it is the one there was.
LEMMA AskedIs ==
    ASSUME NEW c \in Seq(Turns), NEW t \in Seq(Turns)
    PROVE  SubSeq(c \o t, 1, Len(c \o t) - Len(t)) = c
<1> DEFINE u == c \o t
           n == Len(c)
           m == Len(t)
<1>1. n \in Nat /\ m \in Nat /\ c \in [1..n -> Turns]
  BY LenProperties
<1>2. /\ u \in Seq(Turns) /\ Len(u) = n + m
      /\ \A i \in 1..(n + m) : u[i] = IF i <= n THEN c[i] ELSE t[i - n]
  BY ConcatProperties
<1> HIDE DEF u
<1>3. Len(u) - m = n
  BY <1>1, <1>2
<1>4. SubSeq(u, 1, n) = [i \in 1..n |-> u[i]]
  <2>1. SubSeq(u, 1, n) = [i \in 1..((n - 1) + 1) |-> u[(i + 1) - 1]]
    BY <1>1, <1>2
  <2>2. (n - 1) + 1 = n /\ \A i \in 1..n : (i + 1) - 1 = i
    BY <1>1
  <2> QED BY <2>1, <2>2
<1>5. \A i \in 1..n : u[i] = c[i]
  BY <1>1, <1>2
<1>6. [i \in 1..n |-> u[i]] = c
  BY <1>1, <1>5
<1>7. SubSeq(u, 1, Len(u) - m) = c
  BY <1>3, <1>4, <1>6
<1> QED BY <1>7 DEF u

\* The history of what steps answered moves only with the steps.
LEMMA HistoryKept ==
    ASSUME [Next]_vars, ~\E w \in Owners : Lands(w)
    PROVE  UNCHANGED <<basis, lateSteps>>
<1>1. ASSUME NEW w \in Owners, Claim(w) \/ Drive(w) \/ Crash(w)
      PROVE  UNCHANGED <<basis, lateSteps>>
  <2>1. CASE CommitWrite(w)
    BY <2>1 DEF Lands, CommitWrite, historyVars
  <2>2. CASE ~CommitWrite(w)
    BY <1>1, <2>2 DEF Claim, Drive, LoadRun, LoadSteps, LoadMessages, PolicyCheck, Respond,
       FailStep, ToolInFlight, RequestError, AttemptFails, RecordRetry, CommitRead,
       CommitCount, Renew, FinishRead, FinishWrite, Pause, Crash, historyVars
  <2> QED BY <2>1, <2>2
<1> QED BY <1>1 DEF Next, LeaseExpires, LeaseLapses, Over, vars, historyVars

\* No step of one worker gives the lease to another.
LEMMA LeaseNotGiven ==
    ASSUME NEW w \in Owners, QuietStep(w) \/ RowWrite(w) \/ CommitWrite(w),
           NEW v \in Owners \ {w}, HoldsLease(v)'
    PROVE  HoldsLease(v)
<1>1. CASE QuietStep(w)
  BY <1>1, QuietActions DEF HoldsLease, storeVars, leaseVars
<1>2. CASE Claim(w) \/ RecordRetry(w) \/ Pause(w) \/ Crash(w)
  BY <1>2, NobodyAssumption DEF Claim, claim, RecordRetry, record_retry, Pause, release,
     Crash, HoldsLease, storeVars, leaseVars
<1>3. CASE FinishWrite(w)
  BY <1>3, NobodyAssumption DEF FinishWrite, finish, Updated, HoldsLease
<1>4. CASE CommitWrite(w)
  BY <1>4 DEF CommitWrite, insertStep, HoldsLease, storeVars, leaseVars
<1> QED BY <1>1, <1>2, <1>3, <1>4 DEF RowWrite

\* A worker's own step keeps it in step with a store it does not change.
LEMMA OwnInStep ==
    ASSUME LoopInv, LedgerInv, NEW w \in Owners, InStep(w),
           QuietStep(w) \/ RowWrite(w) \/ CommitWrite(w), ~Lands(w),
           UNCHANGED <<steps_taken, messages>>
    PROVE  InStep(w)'
<1> USE DEF LoopInv, TypeOK, Goto
<1>0. Conversation' = Conversation /\ StoredConversation' = StoredConversation
  BY DEF Conversation, StoredConversation, MessageCount
<1>1. CASE LoadSteps(w)
  <2>1. Cardinality(DOMAIN steps) = steps_taken
    BY IntervalCount DEF RowsContiguous, StoreTypeOK
  <2>2. pc'[w] = "loadMessages" /\ nsteps'[w] = steps_taken
    BY <1>1, <2>1 DEF LoadSteps
  <2> QED BY <2>2 DEF InStep
<1>2. CASE LoadMessages(w)
  <2>1. DOMAIN messages = {} <=> steps_taken = 0
    <3>1. MessageCount \in Nat /\ DOMAIN messages = 0..(MessageCount - 1)
      BY StoredConversationType DEF RowsContiguous
    <3>2. MessagesComeWithSteps
      BY DEF LedgerInv
    <3> QED BY ONLY <3>1, <3>2 DEF MessagesComeWithSteps
  <2>2. /\ pc[w] = "loadMessages" /\ pc'[w] = "top" /\ nsteps'[w] = nsteps[w]
        /\ conv'[w] = IF DOMAIN messages = {} THEN <<Opening>> ELSE StoredConversation
        /\ HoldsLease(w)' = HoldsLease(w)
    BY <1>2 DEF LoadMessages, HoldsLease, storeVars, leaseVars
  <2>3. conv'[w] = Conversation
    BY <2>1, <2>2 DEF Conversation
  <2> QED BY <1>0, <2>2, <2>3 DEF InStep
<1>3. CASE Respond(w)
  <2>1. PICK r \in Replies : /\ reply' = [reply EXCEPT ![w] = r]
                             /\ conv' = [conv EXCEPT ![w] = @ \o TurnsOf(r)]
    BY <1>3 DEF Respond
  <2>2. /\ pc[w] = "ask" /\ pc'[w] = "commitRead" /\ nsteps'[w] = nsteps[w]
        /\ reply'[w] = r /\ conv'[w] = conv[w] \o TurnsOf(r)
        /\ HoldsLease(w)' = HoldsLease(w)
    BY <1>3, <2>1 DEF Respond, HoldsLease, storeVars, leaseVars
  <2> QED BY <1>0, <2>2 DEF InStep
<1>4. CASE PolicyCheck(w) \/ AttemptFails(w) \/ RecordRetry(w)
  <2>1. /\ pc[w] \in {"top", "ask", "retry"} /\ nsteps' = nsteps /\ conv' = conv
        /\ pc'[w] \in {"ask", "retry", "pause", "finishRead"}
        /\ HoldsLease(w)' = HoldsLease(w)
    BY <1>4 DEF PolicyCheck, AttemptFails, RecordRetry, record_retry, Conclude,
       HoldsLease, storeVars, leaseVars
  <2> QED BY <1>0, <2>1 DEF InStep
<1>5. CASE CommitRead(w) \/ CommitCount(w)
  <2>1. /\ pc[w] \in {"commitRead", "commitCount"} /\ pc'[w] \in {"commitCount", "commitWrite"}
        /\ nsteps' = nsteps /\ conv' = conv /\ reply' = reply
        /\ HoldsLease(w)' = HoldsLease(w)
    BY <1>5 DEF CommitRead, CommitCount, HoldsLease, storeVars, leaseVars
  <2> QED BY <1>0, <2>1 DEF InStep
<1>6. CASE CommitWrite(w)
  <2>1. /\ pc[w] = "commitWrite" /\ Conflicts(nsteps[w], pending[w], snap[w])
        /\ pc'[w] = "renew" /\ nsteps' = nsteps /\ HoldsLease(w)' = HoldsLease(w)
    BY <1>6 DEF Lands, CommitWrite, HoldsLease, storeVars, leaseVars
  <2>2. nsteps[w] # steps_taken
    BY <2>1, ConflictMeansTaken
  <2>3. ~HoldsLease(w)
    BY <2>1, <2>2 DEF InStep
  <2> QED BY <2>1, <2>2, <2>3 DEF InStep
<1>7. CASE Renew(w)
  <2>1. CASE HoldsLease(w)
    <3>1. /\ pc[w] = "renew" /\ nsteps'[w] = nsteps[w] + 1 /\ conv' = conv
          /\ pc'[w] \in {"top", "finishRead"}
      BY <1>7, <2>1 DEF Renew, Conclude
    <3>2. nsteps[w] + 1 = steps_taken /\ conv[w] = StoredConversation
      BY <2>1, <3>1 DEF InStep
    <3>3. steps_taken # 0
      BY <3>2 DEF StoreTypeOK
    <3>4. conv[w] = Conversation
      BY <3>2, <3>3 DEF Conversation
    <3> QED BY <1>0, <3>1, <3>2, <3>4 DEF InStep
  <2>2. CASE ~HoldsLease(w)
    <3>1. pc'[w] = "idle"
      BY <1>7, <2>2 DEF Renew, Leave
    <3> QED BY <3>1 DEF InStep
  <2> QED BY <2>1, <2>2
<1>8. CASE \/ Claim(w) \/ LoadRun(w) \/ FailStep(w) \/ ToolInFlight(w) \/ RequestError(w)
           \/ FinishRead(w) \/ FinishWrite(w) \/ Pause(w) \/ Crash(w)
  <2>1. pc'[w] \in {"loadRun", "loadSteps", "finishRead", "pause", "idle", "finishWrite"}
    BY <1>8 DEF Claim, LoadRun, FailStep, ToolInFlight, RequestError, FinishRead,
       FinishWrite, Pause, Crash, Conclude, Leave
  <2> QED BY <2>1 DEF InStep
<1> QED
  BY <1>1, <1>2, <1>3, <1>4, <1>5, <1>6, <1>7, <1>8 DEF QuietStep, RowWrite

\* What a step answered is the transcript before it, unless an earlier step is late.
Follows(k) == (\E j \in lateSteps : j < k) \/ TranscriptIs(k, basis[k], steps)

DivergeInv ==
    /\ LateStepsAreStored
    /\ InStepUntilLate
    /\ DOMAIN basis = 0..(steps_taken - 1)
    /\ \A k \in 0..(steps_taken - 1) : Follows(k)

\* A commit that lands stores what answers the conversation before it, unless a
\* step is late already; and only a commit under a live lease leaves none late.
LEMMA LandsInStep ==
    ASSUME LoopInv, LedgerInv, DivergeInv, NEW w \in Owners, Lands(w)
    PROVE  DivergeInv'
<1>1. /\ nsteps[w] = steps_taken /\ reply[w] \in Replies /\ steps_taken' = steps_taken + 1
      /\ \A i \in 0..(steps_taken - 1) : steps'[i] = steps[i]
  BY CommitStores DEF Lands
<1>2. /\ steps_taken \in Nat /\ DOMAIN steps = 0..(steps_taken - 1)
      /\ DOMAIN steps' = 0..(steps_taken' - 1)
  <2>1. LoopInv'
    BY CommitWriteInv DEF Lands
  <2> QED BY <2>1 DEF LoopInv, TypeOK, StoreTypeOK, RowsContiguous
<1>3. StoredConversation' = Conversation \o TurnsOf(reply[w])
  BY LandsExtends DEF LedgerInv
<1>4. /\ pc[w] = "commitWrite" /\ pc'[w] = "renew" /\ nsteps' = nsteps /\ conv' = conv
      /\ basis' = Inserted(basis, steps_taken, <<Asked(w)>>)
      /\ lateSteps' = lateSteps \cup (IF HoldsLease(w) THEN {} ELSE {steps_taken})
      /\ \A v \in Owners : HoldsLease(v)' = HoldsLease(v)
  BY <1>1 DEF Lands, CommitWrite, insertStep, Goto, HoldsLease, leaseVars, LoopInv, TypeOK
<1>5. 0..(steps_taken' - 1) = 0..steps_taken
  BY <1>1, <1>2
<1>6. LateStepsAreStored'
  <2>1. lateSteps \subseteq 0..(steps_taken - 1)
    BY <1>2 DEF DivergeInv, LateStepsAreStored
  <2>2. lateSteps' \subseteq 0..steps_taken
    BY ONLY <1>2, <1>4, <2>1
  <2> QED BY <1>2, <1>5, <2>2 DEF LateStepsAreStored
<1>7. lateSteps = {} => conv[w] = Conversation \o TurnsOf(reply[w])
  BY <1>1, <1>4 DEF DivergeInv, InStepUntilLate, InStep
<1>8. InStepUntilLate'
  <2> SUFFICES ASSUME lateSteps' = {}, NEW v \in Owners PROVE InStep(v)'
    BY DEF InStepUntilLate
  <2>1. HoldsLease(w) /\ lateSteps = {}
    BY <1>4
  <2>2. nsteps'[v] # steps_taken'
    <3>1. nsteps[v] \in Nat /\ nsteps[v] <= steps_taken
      BY DEF LoopInv, TypeOK, NothingBelievedUntilStored
    <3> QED BY <1>1, <1>2, <1>4, <3>1
  <2>3. CASE v = w
    <3>1. nsteps'[w] + 1 = steps_taken' /\ conv'[w] = StoredConversation'
      BY <1>1, <1>3, <1>4, <1>7, <2>1
    <3> QED BY <1>4, <2>2, <2>3, <3>1 DEF InStep
  <2>4. CASE v # w
    <3>1. ~HoldsLease(v)'
      BY <1>4, <2>1, <2>4 DEF HoldsLease
    <3> QED BY <2>2, <3>1 DEF InStep
  <2> QED BY <2>3, <2>4
<1>9. /\ DOMAIN basis' = 0..steps_taken /\ basis'[steps_taken] = Asked(w)
      /\ \A i \in 0..(steps_taken - 1) : basis'[i] = basis[i]
  <2>1. DOMAIN basis = 0..(steps_taken - 1)
    BY DEF DivergeInv
  <2> QED BY ONLY <1>2, <1>4, <2>1, RowAppended
<1>10. ASSUME NEW k \in 0..(steps_taken - 1) PROVE Follows(k)'
  <2>1. Follows(k) /\ k \in Nat
    BY DEF DivergeInv
  <2>2. CASE \E j \in lateSteps : j < k
    BY <1>4, <2>2 DEF Follows
  <2>3. CASE TranscriptIs(k, basis[k], steps)
    <3>1. \A i \in 0..(k - 1) : steps'[i] = steps[i]
      BY <1>1, <1>2
    <3>2. TranscriptIs(k, basis[k], steps')
      BY ONLY <2>1, <2>3, <3>1, TranscriptExtends
    <3> QED BY <1>9, <3>2 DEF Follows
  <2> QED BY <2>1, <2>2, <2>3 DEF Follows
<1>11. ASSUME NEW k, k = steps_taken PROVE Follows(k)'
  <2>1. CASE lateSteps = {}
    <3>1. Conversation \in Seq(Turns) /\ TurnsOf(reply[w]) \in Seq(Turns)
      BY <1>1, ConversationType, TurnsOfType
    <3>2. Asked(w) = Conversation
      BY <1>7, <2>1, <3>1, AskedIs DEF Asked
    <3>3. TranscriptIs(steps_taken, Conversation, steps)
      BY DEF LedgerInv
    <3>4. TranscriptIs(steps_taken, Conversation, steps')
      BY ONLY <1>1, <1>2, <3>3, TranscriptExtends
    <3> QED BY <1>9, <1>11, <3>2, <3>4 DEF Follows
  <2>2. CASE lateSteps # {}
    <3>1. PICK j \in lateSteps : TRUE
      BY <2>2
    <3>2. j \in 0..(steps_taken - 1)
      BY <1>2 DEF DivergeInv, LateStepsAreStored
    <3>3. j \in lateSteps' /\ j < steps_taken
      BY <1>2, <1>4, <3>2
    <3> QED BY <1>11, <3>3 DEF Follows
  <2> QED BY <2>1, <2>2
<1>12. \A k \in 0..steps_taken : k = steps_taken \/ k \in 0..(steps_taken - 1)
  BY <1>2
<1>13. \A k \in 0..(steps_taken' - 1) : Follows(k)'
  BY <1>5, <1>10, <1>11, <1>12
<1> QED BY <1>5, <1>6, <1>8, <1>9, <1>13 DEF DivergeInv

\* Every other step leaves the rows alone, and every worker in step.
LEMMA OthersInStep ==
    ASSUME LoopInv, LedgerInv, DivergeInv, [Next]_vars, ~\E w \in Owners : Lands(w)
    PROVE  DivergeInv'
<1>1. UNCHANGED <<steps_taken, tokens, steps, messages>> /\ UNCHANGED <<basis, lateSteps>>
  BY OnlyCommitsStore, HistoryKept
<1>2. Conversation' = Conversation /\ StoredConversation' = StoredConversation
  BY <1>1 DEF Conversation, StoredConversation, MessageCount
<1>3. ASSUME lateSteps = {}, NEW v \in Owners PROVE InStep(v)'
  <2>1. InStep(v)
    BY <1>3 DEF DivergeInv, InStepUntilLate
  <2>2. ASSUME NEW w \in Owners, Claim(w) \/ Drive(w) \/ Crash(w) PROVE InStep(v)'
    <3>1. QuietStep(w) \/ RowWrite(w) \/ CommitWrite(w)
      BY <2>2 DEF Drive, QuietStep, RowWrite
    <3>2. CASE v = w
      BY <1>1, <2>1, <3>1, <3>2, OwnInStep
    <3>3. CASE v # w
      <4>1. /\ pc'[v] = pc[v] /\ nsteps'[v] = nsteps[v]
            /\ conv'[v] = conv[v] /\ reply'[v] = reply[v]
        BY <3>1, <3>3, OthersKeep
      <4>2. HoldsLease(v)' => HoldsLease(v)
        BY <3>1, <3>3, LeaseNotGiven
      <4> QED BY <1>1, <1>2, <2>1, <4>1, <4>2 DEF InStep
    <3> QED BY <3>2, <3>3
  <2>3. CASE LeaseExpires \/ LeaseLapses \/ UNCHANGED vars
    <3>1. UNCHANGED <<pc, nsteps, conv, reply>> /\ (HoldsLease(v)' => HoldsLease(v))
      BY <2>3 DEF LeaseExpires, LeaseLapses, expire, vars, memoryVars, HoldsLease,
         storeVars, leaseVars
    <3> QED BY <1>1, <1>2, <2>1, <3>1 DEF InStep
  <2> QED BY <2>2, <2>3 DEF Next, Over
<1>4. InStepUntilLate'
  BY <1>1, <1>3 DEF InStepUntilLate
<1> QED BY <1>1, <1>4 DEF DivergeInv, LateStepsAreStored, Follows

\* Whatever the leases do, a step answers a conversation other than the stored one
\* only after an earlier step was stored without a live lease: neither a swallowed
\* StepAlreadyCommitted nor a load torn by another worker's commit does it alone.
THEOREM DivergenceHasALateCause == Spec => []DivergesOnlyAfterLateStep
<1>1. Init => DivergeInv
  <2> SUFFICES ASSUME Init PROVE DivergeInv
    OBVIOUS
  <2>1. steps_taken = 0 /\ lateSteps = {} /\ DOMAIN basis = {}
        /\ \A w \in Owners : pc[w] = "idle"
    BY DEF Init, Created
  <2> QED BY <2>1 DEF DivergeInv, LateStepsAreStored, InStepUntilLate, InStep
<1>2. LoopInv /\ LedgerInv /\ DivergeInv /\ [Next]_vars => DivergeInv'
  BY LandsInStep, OthersInStep
<1>3. LoopInv /\ DivergeInv => DivergesOnlyAfterLateStep
  <2> SUFFICES ASSUME LoopInv, DivergeInv, NEW k \in DOMAIN steps,
                      ~\E j \in lateSteps : j < k
               PROVE  basis[k] = Transcript(k)
    BY DEF DivergesOnlyAfterLateStep
  <2>1. k \in Nat /\ TranscriptIs(k, basis[k], steps)
    BY DEF LoopInv, RowsContiguous, DivergeInv, Follows
  <2> QED BY ONLY <2>1, TranscriptValue
<1> QED BY <1>1, <1>2, <1>3, LoopInvariant, LedgerInvariant, PTL DEF Spec

=============================================================================
