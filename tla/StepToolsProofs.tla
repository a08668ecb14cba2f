-------------------------- MODULE StepToolsProofs ---------------------------
(***************************************************************************)
(* Proofs about StepTools, for any number of loops and worker processes,   *)
(* any replies and any calls.                                              *)
(*                                                                         *)
(* The first half is about the wire form: what the operators on objects    *)
(* and blocks compute for every input.  Chosen is built on a recursive     *)
(* function; its value is found by induction over a set of naturals, with  *)
(* well-foundedness in place of an induction rule.  From there, sorting    *)
(* the fields of an object keeps its pairs, so that the idempotency key    *)
(* stands for the sense of a call, and a block that is stored and loaded   *)
(* says what it said.                                                      *)
(*                                                                         *)
(* The second half is the inductive invariant StepInv.  It ties each call  *)
(* under way to the question it was made for, each result to an outcome in *)
(* the ledger's history of that question's key, and the history per call   *)
(* to the history per key.  The ledger's own invariant does the rest.      *)
(***************************************************************************)
EXTENDS StepTools, ToolLedgerProofs, SequenceTheorems, WellFoundedInduction

\* Induction over the naturals, for a set instead of a predicate.
LEMMA EveryNatural ==
    ASSUME NEW S, 0 \in S, \A n \in Nat : n \in S => n + 1 \in S
    PROVE  Nat \subseteq S
<1> DEFINE Rest == Nat \ S
           Less == {p \in Nat \X Nat : p[1] < p[2]}
<1> SUFFICES ASSUME Rest # {} PROVE FALSE
  OBVIOUS
<1>1. IsWellFoundedOn(Less, Nat)
  BY NatLessThanWellFounded DEF OpToRel
<1>2. PICK x \in Rest : \A y \in Rest : ~(<<y, x>> \in Less)
  <2>1. Rest \subseteq Nat /\ Rest # {}
    OBVIOUS
  <2> HIDE DEF Rest, Less
  <2> QED BY ONLY <1>1, <2>1, WFMin
<1>3. x \in Nat /\ x # 0
  OBVIOUS
<1>4. x - 1 \in Nat /\ (x - 1) + 1 = x /\ x - 1 < x
  BY <1>3
<1>5. x - 1 \notin Rest
  BY <1>2, <1>3, <1>4
<1> QED BY <1>4, <1>5

-----------------------------------------------------------------------------
(* Positions is a recursive function: what it computes, for every length.  *)

\* f lists the chosen positions up to n.
Lists(f, n, keep) ==
    f = [i \in 0..n |-> IF i = 0 THEN <<>> ELSE Taken(f[i - 1], i, keep)]

\* A list for n + 1 contains one for n.
LEMMA ListsCut ==
    ASSUME NEW n \in Nat, NEW keep, NEW g, Lists(g, n + 1, keep)
    PROVE  /\ Lists([i \in 0..n |-> g[i]], n, keep)
           /\ g[n + 1] = Taken(g[n], n + 1, keep)
<1> DEFINE f == [i \in 0..n |-> g[i]]
           h == [i \in 0..n |-> IF i = 0 THEN <<>> ELSE Taken(f[i - 1], i, keep)]
<1>1. \A i \in 0..(n + 1) : g[i] = IF i = 0 THEN <<>> ELSE Taken(g[i - 1], i, keep)
  BY DEF Lists
<1>2. ASSUME NEW i \in 0..n PROVE f[i] = h[i]
  <2>1. CASE i = 0
    BY <1>1, <2>1
  <2>2. CASE i # 0
    <3>1. i - 1 \in 0..n
      BY <2>2
    <3> QED BY <1>1, <2>2, <3>1
  <2> QED BY <2>1, <2>2
<1>3. f = h
  BY <1>2
<1> QED BY <1>1, <1>3 DEF Lists

\* A list for n has one more entry in a list for n + 1.
LEMMA ListsExtend ==
    ASSUME NEW n \in Nat, NEW keep, NEW f, Lists(f, n, keep)
    PROVE  \E g : Lists(g, n + 1, keep)
<1> DEFINE g == [i \in 0..(n + 1) |-> IF i = n + 1 THEN Taken(f[n], n + 1, keep) ELSE f[i]]
           h == [i \in 0..(n + 1) |-> IF i = 0 THEN <<>> ELSE Taken(g[i - 1], i, keep)]
<1>1. \A i \in 0..n : f[i] = IF i = 0 THEN <<>> ELSE Taken(f[i - 1], i, keep)
  BY DEF Lists
<1>2. \A i \in 0..n : g[i] = f[i]
  OBVIOUS
<1>3. g[n + 1] = Taken(f[n], n + 1, keep)
  OBVIOUS
<1>4. ASSUME NEW i \in 0..(n + 1) PROVE g[i] = h[i]
  <2>1. CASE i = 0
    BY <1>1, <1>2, <2>1
  <2>2. CASE i \in 1..n
    <3>1. i - 1 \in 0..n
      BY <2>2
    <3> QED BY <1>1, <1>2, <2>2, <3>1
  <2>3. CASE i = n + 1
    BY <1>2, <1>3, <2>3
  <2> QED BY <2>1, <2>2, <2>3
<1>5. g = h
  BY <1>4
<1> QED BY <1>5 DEF Lists

\* There is a list for every n, and all of them end with the same.
LEMMA ListsUnique ==
    ASSUME NEW keep
    PROVE  \A n \in Nat :
             /\ \E f : Lists(f, n, keep)
             /\ \A f, g : Lists(f, n, keep) /\ Lists(g, n, keep) => f[n] = g[n]
<1> DEFINE Good == {n \in Nat :
                      /\ \E f : Lists(f, n, keep)
                      /\ \A f, g : Lists(f, n, keep) /\ Lists(g, n, keep) => f[n] = g[n]}
<1>1. 0 \in Good
  <2> DEFINE f == [i \in 0..0 |-> <<>>]
  <2>1. Lists(f, 0, keep)
    BY DEF Lists
  <2>2. \A g : Lists(g, 0, keep) => g[0] = <<>>
    BY DEF Lists
  <2> QED BY <2>1, <2>2
<1>2. ASSUME NEW n \in Nat, n \in Good PROVE n + 1 \in Good
  <2>1. \E f : Lists(f, n + 1, keep)
    BY <1>2, ListsExtend
  <2>2. ASSUME NEW f, NEW g, Lists(f, n + 1, keep), Lists(g, n + 1, keep)
        PROVE  f[n + 1] = g[n + 1]
    <3> DEFINE f0 == [i \in 0..n |-> f[i]]
               g0 == [i \in 0..n |-> g[i]]
    <3>1. /\ Lists(f0, n, keep) /\ f[n + 1] = Taken(f[n], n + 1, keep)
          /\ Lists(g0, n, keep) /\ g[n + 1] = Taken(g[n], n + 1, keep)
      BY <2>2, ListsCut
    <3>2. f0[n] = g0[n]
      BY <1>2, <3>1
    <3> QED BY <3>1, <3>2
  <2> QED BY <2>1, <2>2
<1>3. Nat \subseteq Good
  <2> HIDE DEF Good
  <2> QED BY <1>1, <1>2, EveryNatural
<1> QED BY <1>3

\* Positions as a recursion.
LEMMA PositionsStep ==
    ASSUME NEW keep
    PROVE  /\ Positions(0, keep) = <<>>
           /\ \A n \in Nat : Positions(n + 1, keep) = Taken(Positions(n, keep), n + 1, keep)
<1>1. ASSUME NEW n \in Nat PROVE \E f : Lists(f, n, keep) /\ Positions(n, keep) = f[n]
  <2> DEFINE f == CHOOSE f : Lists(f, n, keep)
  <2>1. Lists(f, n, keep)
    BY ListsUnique
  <2>2. Positions(n, keep) = f[n]
    BY DEF Positions, Lists
  <2> QED BY <2>1, <2>2
<1>2. Positions(0, keep) = <<>>
  BY <1>1 DEF Lists
<1>3. ASSUME NEW n \in Nat
      PROVE  Positions(n + 1, keep) = Taken(Positions(n, keep), n + 1, keep)
  <2>1. PICK g : Lists(g, n + 1, keep) /\ Positions(n + 1, keep) = g[n + 1]
    BY <1>1
  <2>2. PICK f : Lists(f, n, keep) /\ Positions(n, keep) = f[n]
    BY <1>1
  <2> DEFINE g0 == [i \in 0..n |-> g[i]]
  <2>3. Lists(g0, n, keep) /\ g[n + 1] = Taken(g[n], n + 1, keep)
    BY <2>1, ListsCut
  <2>4. g0[n] = f[n]
    BY <2>2, <2>3, ListsUnique
  <2> QED BY <2>1, <2>2, <2>3, <2>4
<1> QED BY <1>2, <1>3

\* p lists, in order, the members of keep up to n.
ListOf(p, n, keep) ==
    /\ p \in Seq(1..n)
    /\ \A j \in 1..Len(p) : p[j] \in keep
    /\ \A i \in 1..n : i \in keep => \E j \in 1..Len(p) : p[j] = i
    /\ 1..n \subseteq keep => Len(p) = n /\ \A j \in 1..n : p[j] = j

\* One position further.
LEMMA ListOfTaken ==
    ASSUME NEW n \in Nat, NEW keep, NEW p, ListOf(p, n, keep)
    PROVE  ListOf(Taken(p, n + 1, keep), n + 1, keep)
<1>1. p \in Seq(1..(n + 1)) /\ Len(p) \in Nat
  <2>1. p \in Seq(1..n) /\ 1..n \subseteq 1..(n + 1)
    BY DEF ListOf
  <2> QED BY ONLY <2>1, SeqMonotonic, LenProperties
<1>2. CASE n + 1 \in keep
  <2> DEFINE q == Append(p, n + 1)
  <2>1. /\ q \in Seq(1..(n + 1))
        /\ Len(q) = Len(p) + 1
        /\ \A j \in 1..Len(p) : q[j] = p[j]
        /\ q[Len(p) + 1] = n + 1
    BY <1>1, AppendProperties
  <2> HIDE DEF q
  <2>2. ASSUME NEW j \in 1..Len(q) PROVE q[j] \in keep
    <3>1. j \in 1..Len(p) \/ j = Len(p) + 1
      BY <1>1, <2>1
    <3> QED BY <1>2, <2>1, <3>1 DEF ListOf
  <2>3. ASSUME NEW i \in 1..(n + 1), i \in keep PROVE \E j \in 1..Len(q) : q[j] = i
    <3>1. CASE i = n + 1
      <4>1. Len(p) + 1 \in 1..Len(q)
        BY <1>1, <2>1
      <4> QED BY <2>1, <3>1, <4>1
    <3>2. CASE i \in 1..n
      <4>1. PICK j \in 1..Len(p) : p[j] = i
        BY <2>3, <3>2 DEF ListOf
      <4>2. j \in 1..Len(q)
        BY <1>1, <2>1
      <4> QED BY <2>1, <4>1, <4>2
    <3> QED BY <3>1, <3>2
  <2>4. ASSUME 1..(n + 1) \subseteq keep
        PROVE  Len(q) = n + 1 /\ \A j \in 1..(n + 1) : q[j] = j
    <3>1. Len(p) = n /\ \A j \in 1..n : p[j] = j
      BY <2>4 DEF ListOf
    <3> QED BY <2>1, <3>1
  <2>5. Taken(p, n + 1, keep) = q
    BY <1>2 DEF Taken, q
  <2> QED BY <2>1, <2>2, <2>3, <2>4, <2>5 DEF ListOf
<1>3. CASE n + 1 \notin keep
  <2>1. Taken(p, n + 1, keep) = p
    BY <1>3 DEF Taken
  <2>2. ~(1..(n + 1) \subseteq keep)
    BY <1>3
  <2>3. \A i \in 1..(n + 1) : i \in keep => i \in 1..n
    BY <1>3
  <2> QED BY <1>1, <2>1, <2>2, <2>3 DEF ListOf
<1> QED BY <1>2, <1>3

\* What Positions computes.
LEMMA PositionsList ==
    ASSUME NEW keep
    PROVE  \A n \in Nat : ListOf(Positions(n, keep), n, keep)
<1> DEFINE Good == {n \in Nat : ListOf(Positions(n, keep), n, keep)}
<1>1. 0 \in Good
  <2>1. <<>> \in Seq(1..0) /\ Len(<<>>) = 0
    BY EmptySeq
  <2>2. Positions(0, keep) = <<>>
    BY PositionsStep
  <2>3. ListOf(<<>>, 0, keep)
    <3>1. 1..0 = {}
      OBVIOUS
    <3>2. 1..Len(<<>>) = {}
      BY <2>1
    <3> QED BY <2>1, <3>1, <3>2 DEF ListOf
  <2> QED BY <2>2, <2>3
<1>2. ASSUME NEW n \in Nat, n \in Good PROVE n + 1 \in Good
  <2>1. ListOf(Positions(n, keep), n, keep)
    BY <1>2
  <2>2. Positions(n + 1, keep) = Taken(Positions(n, keep), n + 1, keep)
    BY PositionsStep
  <2> QED BY <2>1, <2>2, ListOfTaken
<1>3. Nat \subseteq Good
  <2> HIDE DEF Good
  <2> QED BY <1>1, <1>2, EveryNatural
<1> QED BY <1>3

\* A sequence, of whatever.
IsSeq(s) == Len(s) \in Nat /\ s = [i \in 1..Len(s) |-> s[i]]

\* A function on 1..n is a sequence of length n.
LEMMA LenOf ==
    ASSUME NEW n \in Nat, NEW s, s = [i \in 1..n |-> s[i]]
    PROVE  Len(s) = n /\ IsSeq(s) /\ DOMAIN s = 1..n
<1> DEFINE S == {s[i] : i \in 1..n}
<1>1. s \in [1..n -> S]
  OBVIOUS
<1>2. s \in Seq(S)
  BY <1>1, SeqDef
<1>3. Len(s) \in Nat /\ DOMAIN s = 1..Len(s)
  <2> HIDE DEF S
  <2> QED BY ONLY <1>2, LenProperties
<1>4. DOMAIN s = 1..n
  OBVIOUS
<1>5. Len(s) = n
  BY <1>3, <1>4
<1> QED BY <1>5 DEF IsSeq

\* Chosen returns exactly the members of s at the chosen positions; all of s
\* when all are chosen.
LEMMA ChosenMembers ==
    ASSUME NEW s, IsSeq(s), NEW keep
    PROVE  /\ IsSeq(Chosen(s, keep))
           /\ Pairs(Chosen(s, keep)) = {s[i] : i \in (1..Len(s)) \cap keep}
           /\ 1..Len(s) \subseteq keep => Chosen(s, keep) = s
<1> DEFINE p == Positions(Len(s), keep)
           c == [j \in DOMAIN p |-> s[p[j]]]
<1>1. Len(s) \in Nat
  BY DEF IsSeq
<1>2. ListOf(p, Len(s), keep)
  BY <1>1, PositionsList
<1>3. Chosen(s, keep) = c
  BY DEF Chosen
<1>4. Len(p) \in Nat /\ DOMAIN p = 1..Len(p) /\ \A j \in 1..Len(p) : p[j] \in 1..Len(s)
  <2> HIDE DEF p
  <2>1. p \in Seq(1..Len(s))
    BY <1>2 DEF ListOf
  <2> QED BY ONLY <2>1, LenProperties, ElementOfSeq
<1> HIDE DEF p
<1>5. c = [j \in 1..Len(p) |-> c[j]] /\ \A j \in 1..Len(p) : c[j] = s[p[j]]
  BY <1>4
<1> HIDE DEF c
<1>6. Len(c) = Len(p) /\ IsSeq(c) /\ DOMAIN c = 1..Len(p)
  BY <1>4, <1>5, LenOf
<1>7. Pairs(c) = {s[i] : i \in (1..Len(s)) \cap keep}
  <2>1. ASSUME NEW x \in Pairs(c) PROVE x \in {s[i] : i \in (1..Len(s)) \cap keep}
    <3>1. PICK j \in 1..Len(p) : x = c[j]
      BY <1>6, <2>1 DEF Pairs
    <3>2. p[j] \in (1..Len(s)) \cap keep
      BY <1>2, <1>4, <3>1 DEF ListOf
    <3> QED BY <1>5, <3>1, <3>2
  <2>2. ASSUME NEW i \in (1..Len(s)) \cap keep PROVE s[i] \in Pairs(c)
    <3>1. PICK j \in 1..Len(p) : p[j] = i
      BY <1>2, <2>2 DEF ListOf
    <3> QED BY <1>5, <1>6, <3>1 DEF Pairs
  <2> QED BY <2>1, <2>2
<1>8. ASSUME 1..Len(s) \subseteq keep PROVE c = s
  <2>1. Len(p) = Len(s) /\ \A j \in 1..Len(s) : p[j] = j
    BY <1>2, <1>8 DEF ListOf
  <2>2. \A j \in 1..Len(s) : c[j] = s[j]
    BY <1>5, <2>1
  <2> QED BY <1>5, <2>1, <2>2 DEF IsSeq
<1> QED BY <1>3, <1>6, <1>7, <1>8

-----------------------------------------------------------------------------
(* Objects: what Value, SortFields and Jsonb do depends on the set of      *)
(* pairs alone.                                                            *)

\* Among these pairs f has the value v and no other.
Has(pairs, f, v) == <<f, v>> \in pairs /\ \A p \in pairs : p[1] = f => p = <<f, v>>

\* Then reading f yields v.
LEMMA ValueIs ==
    ASSUME NEW obj, NEW f, NEW v, Has(Pairs(obj), f, v)
    PROVE  Value(obj, f) = v /\ f \in Fields(obj)
<1>1. (CHOOSE p \in Pairs(obj) : p[1] = f) = <<f, v>>
  BY DEF Has
<1>2. <<f, v>>[1] = f /\ <<f, v>>[2] = v /\ <<f, v>> \in Pairs(obj)
  BY DEF Has
<1> QED BY <1>1, <1>2 DEF Value, Fields

\* Both orders list every known field.
LEMMA OrdersAreComplete ==
    /\ IsSeq(Alphabetical) /\ \A f \in KnownFields : \E i \in 1..Len(Alphabetical) : Alphabetical[i] = f
    /\ IsSeq(ShorterFirst) /\ \A f \in KnownFields : \E i \in 1..Len(ShorterFirst) : ShorterFirst[i] = f
<1>1. IsSeq(Alphabetical) /\ Len(Alphabetical) = 13 /\ DOMAIN Alphabetical = 1..13
  <2>1. Alphabetical = [i \in 1..13 |-> Alphabetical[i]]
    BY DEF Alphabetical
  <2> QED BY <2>1, LenOf
<1>2. IsSeq(ShorterFirst) /\ Len(ShorterFirst) = 13 /\ DOMAIN ShorterFirst = 1..13
  <2>1. ShorterFirst = [i \in 1..13 |-> ShorterFirst[i]]
    BY DEF ShorterFirst
  <2> QED BY <2>1, LenOf
<1>3. \A i \in 1..13 : \E j \in 1..13 : ShorterFirst[j] = Alphabetical[i]
  BY DEF Alphabetical, ShorterFirst
<1> QED BY <1>1, <1>2, <1>3 DEF KnownFields

\* Sorting the fields of an object changes their order only.
LEMMA SortedPairs ==
    ASSUME NEW obj, NEW order, IsSeq(order),
           \A p \in Pairs(obj) : p = <<p[1], p[2]>> /\ \E i \in 1..Len(order) : order[i] = p[1],
           \A p, q \in Pairs(obj) : p[1] = q[1] => p = q
    PROVE  IsSeq(SortFields(obj, order)) /\ Pairs(SortFields(obj, order)) = Pairs(obj)
<1> DEFINE keep == {i \in DOMAIN order : order[i] \in Fields(obj)}
           present == Chosen(order, keep)
           sorted == [i \in DOMAIN present |-> <<present[i], Value(obj, present[i])>>]
<1>1. DOMAIN order = 1..Len(order)
  BY DEF IsSeq
<1>2. IsSeq(present) /\ Pairs(present) = {order[i] : i \in (1..Len(order)) \cap keep}
  BY ChosenMembers
<1>3. Pairs(present) = Fields(obj)
  <2>1. ASSUME NEW f \in Fields(obj) PROVE f \in Pairs(present)
    <3>1. PICK p \in Pairs(obj) : f = p[1]
      BY DEF Fields
    <3>2. PICK i \in 1..Len(order) : order[i] = f
      BY <3>1
    <3> QED BY <1>1, <1>2, <3>2
  <2> QED BY <1>1, <1>2, <2>1
<1>4. ASSUME NEW p \in Pairs(obj) PROVE Value(obj, p[1]) = p[2]
  <2>1. p = <<p[1], p[2]>>
    OBVIOUS
  <2>2. Has(Pairs(obj), p[1], p[2])
    BY <2>1 DEF Has
  <2> QED BY <2>2, ValueIs
<1>5. SortFields(obj, order) = sorted
  BY DEF SortFields
<1> HIDE DEF keep, present
<1>6. Len(present) \in Nat /\ DOMAIN present = 1..Len(present)
  BY <1>2 DEF IsSeq
<1>7. IsSeq(sorted) /\ DOMAIN sorted = 1..Len(present)
  <2>1. sorted = [i \in 1..Len(present) |-> sorted[i]]
    BY <1>6
  <2> HIDE DEF sorted
  <2> QED BY <1>6, <2>1, LenOf
<1>8. \A i \in 1..Len(present) : sorted[i] = <<present[i], Value(obj, present[i])>>
  BY <1>6
<1> HIDE DEF sorted
<1>9. Pairs(sorted) = Pairs(obj)
  <2>1. ASSUME NEW x \in Pairs(sorted) PROVE x \in Pairs(obj)
    <3>1. PICK i \in 1..Len(present) : x = sorted[i]
      BY <1>7 DEF Pairs
    <3>2. present[i] \in Fields(obj)
      BY <1>3, <1>6 DEF Pairs
    <3>3. PICK p \in Pairs(obj) : present[i] = p[1]
      BY <3>2 DEF Fields
    <3>4. p = <<p[1], p[2]>>
      OBVIOUS
    <3> QED BY <1>4, <1>8, <3>1, <3>3, <3>4
  <2>2. ASSUME NEW p \in Pairs(obj) PROVE p \in Pairs(sorted)
    <3>1. p[1] \in Pairs(present)
      BY <1>3 DEF Fields
    <3>2. PICK i \in 1..Len(present) : present[i] = p[1]
      BY <1>6, <3>1 DEF Pairs
    <3>3. sorted[i] = <<p[1], p[2]>>
      BY <1>4, <1>8, <3>2
    <3>4. p = <<p[1], p[2]>>
      OBVIOUS
    <3> QED BY <1>7, <3>3, <3>4 DEF Pairs
  <2> QED BY <2>1, <2>2
<1> QED BY <1>5, <1>7, <1>9

\* In particular the arguments of a call, in either order.
LEMMA SortedObject ==
    ASSUME NEW obj, IsObject(obj)
    PROVE  /\ Pairs(SortFields(obj, Alphabetical)) = Pairs(obj)
           /\ Pairs(SortFields(obj, ShorterFirst)) = Pairs(obj)
BY OrdersAreComplete, SortedPairs DEF IsObject

\* The key of a call tells what the call asks for, and nothing else: not the
\* order in which its arguments were written.
THEOREM KeyIsSense ==
    ASSUME NEW a, NEW b, IsObject(a.args), IsObject(b.args)
    PROVE  invocation_key(a) = invocation_key(b) <=> Sense(a) = Sense(b)
<1>1. ASSUME Sense(a) = Sense(b) PROVE invocation_key(a) = invocation_key(b)
  <2>1. a.name = b.name /\ Pairs(a.args) = Pairs(b.args)
    BY <1>1 DEF Sense
  <2>2. SortFields(a.args, Alphabetical) = SortFields(b.args, Alphabetical)
    BY <2>1 DEF SortFields, Fields, Value
  <2> QED BY <2>1, <2>2 DEF invocation_key
<1>2. ASSUME invocation_key(a) = invocation_key(b) PROVE Sense(a) = Sense(b)
  <2>1. a.name = b.name /\ SortFields(a.args, Alphabetical) = SortFields(b.args, Alphabetical)
    BY <1>2 DEF invocation_key
  <2>2. Pairs(a.args) = Pairs(b.args)
    BY <2>1, SortedObject
  <2> QED BY <2>1, <2>2 DEF Sense
<1> QED BY <1>1, <1>2

-----------------------------------------------------------------------------
(* Blocks: what is received, stored and read back.                         *)

\* A sequence of four pairs is an object with these pairs.
LEMMA FourPairs ==
    ASSUME NEW a, NEW b, NEW c, NEW d
    PROVE  /\ IsSeq(<<a, b, c, d>>) /\ Len(<<a, b, c, d>>) = 4
           /\ Pairs(<<a, b, c, d>>) = {a, b, c, d}
<1> DEFINE t == <<a, b, c, d>>
<1>1. t = [i \in 1..4 |-> t[i]] /\ t[1] = a /\ t[2] = b /\ t[3] = c /\ t[4] = d
  OBVIOUS
<1> HIDE DEF t
<1>2. Len(t) = 4 /\ IsSeq(t) /\ DOMAIN t = 1..4
  BY <1>1, LenOf
<1>3. 1..4 = {1, 2, 3, 4}
  OBVIOUS
<1>4. Pairs(t) = {t[1], t[2], t[3], t[4]}
  BY <1>2, <1>3 DEF Pairs
<1> QED BY <1>1, <1>2, <1>4 DEF t

\* The pairs of a sequence are its members.
LEMMA SeqOfPairs ==
    ASSUME NEW s, IsSeq(s)
    PROVE  /\ s \in Seq(Pairs(s)) /\ DOMAIN s = 1..Len(s)
           /\ Pairs(s) = {s[i] : i \in 1..Len(s)}
<1>1. DOMAIN s = 1..Len(s) /\ Len(s) \in Nat
  BY DEF IsSeq
<1>2. s \in [1..Len(s) -> Pairs(s)]
  BY <1>1 DEF IsSeq, Pairs
<1> QED BY <1>1, <1>2, SeqDef DEF Pairs

\* The pairs that are not null, all of them when none is.
LEMMA WithoutNulls ==
    ASSUME NEW obj, IsSeq(obj)
    PROVE  /\ IsSeq(exclude_none(obj))
           /\ Pairs(exclude_none(obj)) = {p \in Pairs(obj) : p[2] # Null}
           /\ (\A p \in Pairs(obj) : p[2] # Null) => exclude_none(obj) = obj
<1> DEFINE keep == {i \in DOMAIN obj : obj[i][2] # Null}
<1>1. DOMAIN obj = 1..Len(obj) /\ Pairs(obj) = {obj[i] : i \in 1..Len(obj)}
  BY SeqOfPairs
<1>2. /\ IsSeq(Chosen(obj, keep))
      /\ Pairs(Chosen(obj, keep)) = {obj[i] : i \in (1..Len(obj)) \cap keep}
      /\ 1..Len(obj) \subseteq keep => Chosen(obj, keep) = obj
  BY ChosenMembers
<1>3. exclude_none(obj) = Chosen(obj, keep)
  BY DEF exclude_none
<1>4. {obj[i] : i \in (1..Len(obj)) \cap keep} = {p \in Pairs(obj) : p[2] # Null}
  BY <1>1
<1>5. (\A p \in Pairs(obj) : p[2] # Null) => 1..Len(obj) \subseteq keep
  BY <1>1
<1> QED BY <1>2, <1>3, <1>4, <1>5

\* How a pair of a block is kept: an input is itself an object.
InColumn(p) == IF p[1] = "input" THEN <<"input", SortFields(p[2], ShorterFirst)>> ELSE p

\* A JSONB column keeps the pairs of a block, and orders those of its input.
LEMMA JsonbPairs ==
    ASSUME NEW obj, IsObject(obj)
    PROVE  IsSeq(Jsonb(obj)) /\ Pairs(Jsonb(obj)) = {InColumn(p) : p \in Pairs(obj)}
<1> DEFINE outer == SortFields(obj, ShorterFirst)
           inner == [i \in DOMAIN outer |-> InColumn(outer[i])]
<1>1. IsSeq(outer) /\ Pairs(outer) = Pairs(obj)
  BY OrdersAreComplete, SortedPairs DEF IsObject
<1>2. Jsonb(obj) = inner
  BY DEF Jsonb, InColumn
<1> HIDE DEF outer
<1>3. DOMAIN outer = 1..Len(outer) /\ Len(outer) \in Nat /\ Pairs(outer) = {outer[i] : i \in 1..Len(outer)}
  BY <1>1, SeqOfPairs DEF IsSeq
<1>4. inner = [i \in 1..Len(outer) |-> inner[i]] /\ \A i \in 1..Len(outer) : inner[i] = InColumn(outer[i])
  BY <1>3
<1> HIDE DEF inner
<1>5. IsSeq(inner) /\ DOMAIN inner = 1..Len(outer)
  BY <1>3, <1>4, LenOf
<1>6. Pairs(inner) = {InColumn(p) : p \in Pairs(outer)}
  BY <1>3, <1>4, <1>5 DEF Pairs
<1> QED BY <1>1, <1>2, <1>5, <1>6

\* The fields of the blocks are among the known ones.
LEMMA FieldsOfBlocks ==
    {"type", "id", "name", "input", "tool_use_id", "content", "is_error",
     "signature", "thinking"} \subseteq KnownFields
<1>1. 1..13 \subseteq DOMAIN Alphabetical
  BY DEF Alphabetical
<1>2. /\ Alphabetical[1] = "content" /\ Alphabetical[3] = "id" /\ Alphabetical[4] = "input"
      /\ Alphabetical[5] = "is_error" /\ Alphabetical[7] = "name"
      /\ Alphabetical[9] = "signature" /\ Alphabetical[11] = "thinking"
      /\ Alphabetical[12] = "tool_use_id" /\ Alphabetical[13] = "type"
  BY DEF Alphabetical
<1>3. \A i \in 1..13 : Alphabetical[i] \in KnownFields
  BY <1>1 DEF KnownFields
<1> QED BY <1>2, <1>3

\* A tool_use block comes back with its input sorted.
LEMMA ToolUseReadBack ==
    ASSUME NEW id, NEW name, NEW input, id # Null, name # Null, input # Null,
           "tool_use" # Null
    PROVE  LET b == ToolUseBlock(id, name, input)
           IN  block_from_dict(Jsonb(exclude_none(b)))
                 = ToolUseBlock(id, name, SortFields(input, ShorterFirst))
<1> DEFINE b == ToolUseBlock(id, name, input)
           raw == Jsonb(b)
           sorted == SortFields(input, ShorterFirst)
<1>1. IsSeq(b) /\ Pairs(b) = {<<"type", "tool_use">>, <<"id", id>>, <<"name", name>>, <<"input", input>>}
  BY FourPairs DEF ToolUseBlock
<1> HIDE DEF b
<1>2. exclude_none(b) = b
  <2>1. \A p \in Pairs(b) : p[2] # Null
    BY <1>1
  <2> QED BY <1>1, <2>1, WithoutNulls
<1>3. IsObject(b)
  <2>1. b \in Seq(Pairs(b))
    BY <1>1, SeqOfPairs
  <2>2. \A p \in Pairs(b) : p = <<p[1], p[2]>> /\ p[1] \in KnownFields
    BY <1>1, FieldsOfBlocks
  <2>3. \A p, q \in Pairs(b) : p[1] = q[1] => p = q
    BY <1>1
  <2> QED BY <2>1, <2>2, <2>3 DEF IsObject
<1>4. Pairs(raw) = {InColumn(p) : p \in Pairs(b)}
  BY <1>3, JsonbPairs
<1> HIDE DEF raw
<1>5. Pairs(raw) = {<<"type", "tool_use">>, <<"id", id>>, <<"name", name>>, <<"input", sorted>>}
  <2>1. /\ InColumn(<<"type", "tool_use">>) = <<"type", "tool_use">>
        /\ InColumn(<<"id", id>>) = <<"id", id>>
        /\ InColumn(<<"name", name>>) = <<"name", name>>
        /\ InColumn(<<"input", input>>) = <<"input", sorted>>
    BY DEF InColumn
  <2> QED BY <1>1, <1>4, <2>1
<1> HIDE DEF sorted
<1>6. /\ Has(Pairs(raw), "type", "tool_use") /\ Has(Pairs(raw), "id", id)
      /\ Has(Pairs(raw), "name", name) /\ Has(Pairs(raw), "input", sorted)
  BY <1>5 DEF Has
<1>7. /\ Value(raw, "type") = "tool_use" /\ Value(raw, "id") = id
      /\ Value(raw, "name") = name /\ Value(raw, "input") = sorted
  BY <1>6, ValueIs
<1>8. block_from_dict(raw) = ToolUseBlock(id, name, sorted)
  BY <1>7 DEF block_from_dict
<1> QED BY <1>2, <1>8 DEF b, raw, sorted

\* A tool_result block comes back as it was.
LEMMA ToolResultReadBack ==
    ASSUME NEW id, NEW content, NEW isError, id # Null, content # Null, isError # Null,
           "tool_result" # Null
    PROVE  LET b == ToolResultBlock(id, content, isError)
           IN  block_from_dict(Jsonb(exclude_none(b))) = b
<1> DEFINE b == ToolResultBlock(id, content, isError)
           raw == Jsonb(b)
<1>1. IsSeq(b) /\ Pairs(b) = {<<"type", "tool_result">>, <<"tool_use_id", id>>,
                             <<"content", content>>, <<"is_error", isError>>}
  BY FourPairs DEF ToolResultBlock
<1> HIDE DEF b
<1>2. exclude_none(b) = b
  <2>1. \A p \in Pairs(b) : p[2] # Null
    BY <1>1
  <2> QED BY <1>1, <2>1, WithoutNulls
<1>3. IsObject(b)
  <2>1. b \in Seq(Pairs(b))
    BY <1>1, SeqOfPairs
  <2>2. \A p \in Pairs(b) : p = <<p[1], p[2]>> /\ p[1] \in KnownFields
    BY <1>1, FieldsOfBlocks
  <2>3. \A p, q \in Pairs(b) : p[1] = q[1] => p = q
    BY <1>1
  <2> QED BY <2>1, <2>2, <2>3 DEF IsObject
<1>4. Pairs(raw) = {InColumn(p) : p \in Pairs(b)}
  BY <1>3, JsonbPairs
<1> HIDE DEF raw
<1>5. Pairs(raw) = Pairs(b)
  <2>1. \A p \in Pairs(b) : InColumn(p) = p
    BY <1>1 DEF InColumn
  <2> QED BY <1>4, <2>1
<1>6. /\ Has(Pairs(raw), "type", "tool_result") /\ Has(Pairs(raw), "tool_use_id", id)
      /\ Has(Pairs(raw), "content", content) /\ Has(Pairs(raw), "is_error", isError)
  BY <1>1, <1>5 DEF Has
<1>7. /\ Value(raw, "type") = "tool_result" /\ Value(raw, "tool_use_id") = id
      /\ Value(raw, "content") = content /\ Value(raw, "is_error") = isError
      /\ "is_error" \in Fields(raw)
  BY <1>6, ValueIs
<1>8. block_from_dict(raw) = ToolResultBlock(id, content, isError)
  BY <1>7 DEF block_from_dict, ValueOr
<1> QED BY <1>2, <1>8 DEF b, raw

\* What a thinking block consists of: nothing of it is null.
ThoughtPairs == {<<"type", "thinking">>, <<"signature", "sig">>, <<"thinking", "hm">>}

IsThought(b) == IsSeq(b) /\ Pairs(b) = ThoughtPairs

\* Such a block is an object, of type thinking, that exclude_none leaves alone.
LEMMA ThoughtIsObject ==
    ASSUME NEW b, IsThought(b)
    PROVE  /\ IsObject(b) /\ exclude_none(b) = b /\ Value(b, "type") = "thinking"
<1>1. b \in Seq(Pairs(b))
  BY SeqOfPairs DEF IsThought
<1>2. \A p \in Pairs(b) : p = <<p[1], p[2]>> /\ p[1] \in KnownFields
  BY FieldsOfBlocks DEF IsThought, ThoughtPairs
<1>3. \A p, q \in Pairs(b) : p[1] = q[1] => p = q
  BY DEF IsThought, ThoughtPairs
<1>4. \A p \in Pairs(b) : p[2] # Null
  BY NullAssumption DEF IsThought, ThoughtPairs
<1>5. exclude_none(b) = b
  BY <1>4, WithoutNulls DEF IsThought
<1>6. Has(Pairs(b), "type", "thinking")
  BY DEF IsThought, ThoughtPairs, Has
<1> QED BY <1>1, <1>2, <1>3, <1>5, <1>6, ValueIs DEF IsObject

\* The declared field first, the others as they come: the same pairs.
LEMMA OpaqueThought ==
    ASSUME NEW raw, IsThought(raw)
    PROVE  IsThought(OpaqueBlock(raw))
<1> DEFINE keep == {i \in DOMAIN raw : raw[i][1] # "type"}
           rest == Chosen(raw, keep)
           first == <<<<"type", "thinking">>>>
<1>1. DOMAIN raw = 1..Len(raw) /\ Pairs(raw) = {raw[i] : i \in 1..Len(raw)}
  BY SeqOfPairs DEF IsThought
<1>2. IsSeq(rest) /\ Pairs(rest) = {raw[i] : i \in (1..Len(raw)) \cap keep}
  BY ChosenMembers DEF IsThought
<1>3. Pairs(rest) = {p \in Pairs(raw) : p[1] # "type"}
  BY <1>1, <1>2
<1>4. OpaqueBlock(raw) = first \o rest
  BY ThoughtIsObject DEF OpaqueBlock
<1> HIDE DEF rest
<1>5. Pairs(rest) = {<<"signature", "sig">>, <<"thinking", "hm">>}
  BY <1>3 DEF IsThought, ThoughtPairs
<1>6. rest \in Seq(ThoughtPairs) /\ DOMAIN rest = 1..Len(rest) /\ Len(rest) \in Nat
  <2>1. rest \in Seq(Pairs(rest)) /\ DOMAIN rest = 1..Len(rest)
    BY <1>2, SeqOfPairs
  <2>2. Pairs(rest) \subseteq ThoughtPairs
    BY <1>5 DEF ThoughtPairs
  <2> QED BY <1>2, <2>1, <2>2, SeqMonotonic DEF IsSeq
<1>7. first \in Seq(ThoughtPairs) /\ Len(first) = 1 /\ first[1] = <<"type", "thinking">>
  BY DEF ThoughtPairs
<1> HIDE DEF first
<1> DEFINE all == first \o rest
<1>8. /\ all \in Seq(ThoughtPairs)
      /\ Len(all) = 1 + Len(rest)
      /\ \A i \in 1..(1 + Len(rest)) : all[i] = IF i <= 1 THEN first[i] ELSE rest[i - 1]
  <2>1. /\ first \o rest \in Seq(ThoughtPairs)
        /\ Len(first \o rest) = Len(first) + Len(rest)
        /\ \A i \in 1..(Len(first) + Len(rest)) :
             (first \o rest)[i] = IF i <= Len(first) THEN first[i] ELSE rest[i - Len(first)]
    BY ONLY <1>6, <1>7, ConcatProperties
  <2> QED BY <1>7, <2>1
<1> HIDE DEF all
<1>9. Len(all) \in Nat /\ all \in [1..Len(all) -> ThoughtPairs] /\ DOMAIN all = 1..Len(all)
  BY ONLY <1>8, LenProperties
<1>10. IsSeq(all) /\ Pairs(all) \subseteq ThoughtPairs
  BY <1>9 DEF IsSeq, Pairs
<1>11. <<"type", "thinking">> \in Pairs(all)
  <2>1. 1 \in 1..(1 + Len(rest)) /\ 1 <= 1
    BY <1>6
  <2>2. all[1] = <<"type", "thinking">>
    BY <1>7, <1>8, <2>1
  <2> QED BY <1>8, <1>9, <2>1, <2>2 DEF Pairs
<1>12. ASSUME NEW p \in Pairs(rest) PROVE p \in Pairs(all)
  <2>1. PICK i \in 1..Len(rest) : p = rest[i]
    BY <1>6 DEF Pairs
  <2>2. i + 1 \in 1..(1 + Len(rest)) /\ ~(i + 1 <= 1) /\ (i + 1) - 1 = i
    BY <1>6
  <2>3. all[i + 1] = p
    BY <1>8, <2>1, <2>2
  <2> QED BY <1>8, <1>9, <2>2, <2>3 DEF Pairs
<1>13. ThoughtPairs \subseteq Pairs(all)
  BY <1>5, <1>11, <1>12 DEF ThoughtPairs
<1> QED BY <1>4, <1>10, <1>13 DEF IsThought, all

\* A thinking block as it is received, less what is null in it.
LEMMA ThinkingReceived == IsThought(exclude_none(Thinking))
<1>1. IsSeq(Thinking) /\ Pairs(Thinking) = {<<"signature", "sig">>, <<"thinking", "hm">>,
                                           <<"data", Null>>, <<"type", "thinking">>}
  BY FourPairs DEF Thinking
<1>2. IsSeq(exclude_none(Thinking)) /\ Pairs(exclude_none(Thinking)) = {p \in Pairs(Thinking) : p[2] # Null}
  BY <1>1, WithoutNulls
<1>3. "sig" # Null /\ "hm" # Null /\ "thinking" # Null
  BY NullAssumption
<1>4. {p \in Pairs(Thinking) : p[2] # Null} = ThoughtPairs
  BY <1>1, <1>3 DEF ThoughtPairs
<1> QED BY <1>2, <1>4 DEF IsThought

\* A thinking block that is committed and loaded again has all its pairs.
LEMMA ThoughtReadBack ==
    ASSUME NEW b, IsThought(b)
    PROVE  IsThought(block_from_dict(Jsonb(exclude_none(b))))
<1> DEFINE raw == Jsonb(b)
<1>1. IsObject(b) /\ exclude_none(b) = b
  BY ThoughtIsObject
<1>2. IsSeq(raw) /\ Pairs(raw) = {InColumn(p) : p \in Pairs(b)}
  BY <1>1, JsonbPairs
<1> HIDE DEF raw
<1>3. \A p \in Pairs(b) : InColumn(p) = p
  BY DEF IsThought, ThoughtPairs, InColumn
<1>4. IsThought(raw)
  BY <1>2, <1>3 DEF IsThought
<1>5. Value(raw, "type") = "thinking"
  BY <1>4, ThoughtIsObject
<1>6. block_from_dict(raw) = OpaqueBlock(raw)
  BY <1>5 DEF block_from_dict
<1> QED BY <1>1, <1>4, <1>6, OpaqueThought DEF raw

-----------------------------------------------------------------------------
(* Replies.                                                                *)

\* What a tool_use block says.
LEMMA ToolUseValues ==
    ASSUME NEW id, NEW name, NEW input
    PROVE  LET b == ToolUseBlock(id, name, input)
           IN  /\ IsToolUse(b) /\ Value(b, "id") = id
               /\ CallOf(b) = [name |-> name, args |-> input]
<1> DEFINE b == ToolUseBlock(id, name, input)
<1>1. Pairs(b) = {<<"type", "tool_use">>, <<"id", id>>, <<"name", name>>, <<"input", input>>}
  BY FourPairs DEF ToolUseBlock
<1> HIDE DEF b
<1>2. /\ Has(Pairs(b), "type", "tool_use") /\ Has(Pairs(b), "id", id)
      /\ Has(Pairs(b), "name", name) /\ Has(Pairs(b), "input", input)
  BY <1>1 DEF Has
<1>3. /\ Value(b, "type") = "tool_use" /\ Value(b, "id") = id
      /\ Value(b, "name") = name /\ Value(b, "input") = input
  BY <1>2, ValueIs
<1> QED BY <1>3 DEF b, IsToolUse, CallOf

\* What a tool_result block says.
LEMMA ToolResultValues ==
    ASSUME NEW id, NEW content, NEW isError
    PROVE  LET b == ToolResultBlock(id, content, isError)
           IN  /\ Value(b, "tool_use_id") = id /\ Value(b, "content") = content
               /\ Value(b, "is_error") = isError
<1> DEFINE b == ToolResultBlock(id, content, isError)
<1>1. Pairs(b) = {<<"type", "tool_result">>, <<"tool_use_id", id>>,
                  <<"content", content>>, <<"is_error", isError>>}
  BY FourPairs DEF ToolResultBlock
<1> HIDE DEF b
<1>2. /\ Has(Pairs(b), "tool_use_id", id) /\ Has(Pairs(b), "content", content)
      /\ Has(Pairs(b), "is_error", isError)
  BY <1>1 DEF Has
<1> QED BY <1>2, ValueIs DEF b

\* A question: a tool_use block for a call that may be asked for.
IsQuestion(b) ==
    \E id \in Nat \X Nat : \E call \in AskedCalls : b = ToolUseBlock(id, call.name, call.args)

\* The content of a reply: a thought, then questions.
IsReply(blocks) ==
    /\ IsSeq(blocks) /\ Len(blocks) >= 1 /\ IsThought(blocks[1])
    /\ \A i \in 2..Len(blocks) : IsQuestion(blocks[i])

\* A question is a tool_use block, and its call is one that may be asked for.
LEMMA QuestionCall ==
    ASSUME NEW b, IsQuestion(b)
    PROVE  CallOf(b) \in AskedCalls /\ Value(b, "id") \in Nat \X Nat /\ IsToolUse(b)
<1>1. PICK id \in Nat \X Nat, call \in AskedCalls : b = ToolUseBlock(id, call.name, call.args)
  BY DEF IsQuestion
<1>2. CallOf(b) = [name |-> call.name, args |-> call.args] /\ Value(b, "id") = id /\ IsToolUse(b)
  BY <1>1, ToolUseValues
<1>3. call = [name |-> call.name, args |-> call.args]
  BY AsksAssumption
<1> QED BY <1>2, <1>3

\* The adapter makes such a content of what the provider sends.
LEMMA ReplyReceived ==
    ASSUME NEW n \in Nat, NEW ask \in Asks
    PROVE  IsReply(from_wire_response(RawReply(n, ask)))
<1> DEFINE rawUse(i) == <<<<"id", <<n, i>>>>, <<"input", ask[i].args>>, <<"name", ask[i].name>>,
                          <<"type", "tool_use">>>>
           uses == [i \in DOMAIN ask |-> rawUse(i)]
           S == {Thinking} \cup {rawUse(i) : i \in DOMAIN ask}
           raw == <<Thinking>> \o uses
           Structured(payload) ==
             CASE Value(payload, "type") = "text" -> TextBlock(Value(payload, "text"))
               [] Value(payload, "type") = "tool_use" ->
                    ToolUseBlock(Value(payload, "id"), Value(payload, "name"),
                                 Value(payload, "input"))
               [] OTHER -> OpaqueBlock(payload)
           reply1 == from_wire_response(raw)
<1>1. Len(ask) \in Nat /\ DOMAIN ask = 1..Len(ask) /\ \A i \in 1..Len(ask) : ask[i] \in AskedCalls
  <2>1. ask \in Seq(AskedCalls)
    BY AsksAssumption
  <2> QED BY ONLY <2>1, LenProperties, ElementOfSeq
<1>2. RawReply(n, ask) = raw
  BY DEF RawReply
<1>3. uses \in Seq(S) /\ Len(uses) = Len(ask) /\ \A i \in 1..Len(ask) : uses[i] = rawUse(i)
  <2>1. uses = [i \in 1..Len(ask) |-> uses[i]] /\ \A i \in 1..Len(ask) : uses[i] = rawUse(i)
    BY <1>1
  <2>2. uses \in [1..Len(ask) -> S]
    BY <1>1
  <2> HIDE DEF uses, S
  <2>3. uses \in Seq(S)
    BY <1>1, <2>2, SeqDef
  <2> QED BY <1>1, <2>1, <2>3, LenOf
<1>4. <<Thinking>> \in Seq(S) /\ Len(<<Thinking>>) = 1 /\ <<Thinking>>[1] = Thinking
  OBVIOUS
<1>5. /\ Len(raw) = Len(ask) + 1 /\ DOMAIN raw = 1..(Len(ask) + 1)
      /\ raw[1] = Thinking
      /\ \A i \in 2..(Len(ask) + 1) : raw[i] = rawUse(i - 1)
  <2> DEFINE one == <<Thinking>>
  <2> HIDE DEF S, uses, one, rawUse
  <2>1. /\ one \o uses \in Seq(S)
        /\ Len(one \o uses) = Len(one) + Len(uses)
        /\ \A i \in 1..(Len(one) + Len(uses)) :
             (one \o uses)[i] = IF i <= Len(one) THEN one[i] ELSE uses[i - Len(one)]
    BY ONLY <1>3, <1>4, ConcatProperties DEF one
  <2>2. Len(one) = 1 /\ one[1] = Thinking /\ raw = one \o uses
    BY <1>4 DEF one
  <2> HIDE DEF raw
  <2>3. DOMAIN raw = 1..Len(raw)
    BY <2>1, <2>2, LenProperties
  <2>4. Len(raw) = Len(ask) + 1
    BY <1>1, <1>3, <2>1, <2>2
  <2>5. raw[1] = Thinking
    BY <1>1, <1>3, <2>1, <2>2
  <2>6. ASSUME NEW i \in 2..(Len(ask) + 1) PROVE raw[i] = rawUse(i - 1)
    <3>1. i \in 1..(1 + Len(ask)) /\ ~(i <= 1) /\ i - 1 \in 1..Len(ask)
      BY <1>1
    <3>2. raw[i] = uses[i - 1]
      BY <1>3, <2>1, <2>2, <3>1
    <3> QED BY <1>3, <3>1, <3>2
  <2> QED BY <2>3, <2>4, <2>5, <2>6
<1>6. reply1 = [i \in DOMAIN raw |-> Structured(exclude_none(raw[i]))]
  BY DEF from_wire_response
<1> HIDE DEF raw, reply1, uses, S
<1>7. /\ reply1 = [i \in 1..(Len(ask) + 1) |-> reply1[i]]
      /\ \A i \in 1..(Len(ask) + 1) : reply1[i] = Structured(exclude_none(raw[i]))
  <2> HIDE DEF Structured
  <2> QED BY <1>5, <1>6
<1>8. IsSeq(reply1) /\ Len(reply1) = Len(ask) + 1
  BY <1>1, <1>7, LenOf
<1>9. IsThought(reply1[1])
  <2>1. IsThought(exclude_none(Thinking)) /\ Value(exclude_none(Thinking), "type") = "thinking"
    BY ThinkingReceived, ThoughtIsObject
  <2>2. Structured(exclude_none(Thinking)) = OpaqueBlock(exclude_none(Thinking))
    BY <2>1
  <2>3. reply1[1] = Structured(exclude_none(Thinking))
    <3> HIDE DEF Structured
    <3> QED BY <1>1, <1>5, <1>7
  <2> HIDE DEF Structured
  <2> QED BY <2>1, <2>2, <2>3, OpaqueThought
<1>10. ASSUME NEW i \in 2..(Len(ask) + 1) PROVE IsQuestion(reply1[i])
  <2> DEFINE call == ask[i - 1]
             id == <<n, i - 1>>
             u == rawUse(i - 1)
  <2>1. i - 1 \in 1..Len(ask) /\ i \in 1..(Len(ask) + 1)
    BY <1>1
  <2>2. call \in AskedCalls /\ id \in Nat \X Nat
    BY <1>1, <2>1
  <2> HIDE DEF call, id
  <2>3. IsSeq(u) /\ Pairs(u) = {<<"id", id>>, <<"input", call.args>>, <<"name", call.name>>,
                               <<"type", "tool_use">>}
    BY FourPairs DEF call, id
  <2>4. reply1[i] = Structured(exclude_none(u))
    <3> HIDE DEF Structured, rawUse
    <3> QED BY <1>5, <1>7, <2>1
  <2> HIDE DEF u
  <2>5. exclude_none(u) = u
    <3>1. \A p \in Pairs(u) : p[2] # Null
      BY <2>2, <2>3, NullAssumption
    <3> QED BY <2>3, <3>1, WithoutNulls
  <2>6. /\ Has(Pairs(u), "type", "tool_use") /\ Has(Pairs(u), "id", id)
        /\ Has(Pairs(u), "name", call.name) /\ Has(Pairs(u), "input", call.args)
    BY <2>3 DEF Has
  <2>7. /\ Value(u, "type") = "tool_use" /\ Value(u, "id") = id
        /\ Value(u, "name") = call.name /\ Value(u, "input") = call.args
    BY <2>6, ValueIs
  <2>8. reply1[i] = ToolUseBlock(id, call.name, call.args)
    BY <2>4, <2>5, <2>7
  <2> QED BY <2>2, <2>8 DEF IsQuestion
<1> QED BY <1>1, <1>2, <1>8, <1>9, <1>10 DEF IsReply, reply1

\* Chosen takes the same positions of any two sequences of one length.
LEMMA ChosenAlike ==
    ASSUME NEW s, NEW t, IsSeq(s), IsSeq(t), Len(s) = Len(t), NEW keep
    PROVE  /\ Len(Chosen(s, keep)) = Len(Chosen(t, keep))
           /\ \A j \in 1..Len(Chosen(s, keep)) : \E i \in (1..Len(s)) \cap keep :
                Chosen(s, keep)[j] = s[i] /\ Chosen(t, keep)[j] = t[i]
<1> DEFINE p == Positions(Len(s), keep)
           cs == [j \in DOMAIN p |-> s[p[j]]]
           ct == [j \in DOMAIN p |-> t[p[j]]]
<1>1. Chosen(s, keep) = cs /\ Chosen(t, keep) = ct
  BY DEF Chosen
<1>2. ListOf(p, Len(s), keep)
  BY PositionsList DEF IsSeq
<1> HIDE DEF p
<1>3. Len(p) \in Nat /\ DOMAIN p = 1..Len(p) /\ \A j \in 1..Len(p) : p[j] \in (1..Len(s)) \cap keep
  <2>1. p \in Seq(1..Len(s)) /\ \A j \in 1..Len(p) : p[j] \in keep
    BY <1>2 DEF ListOf
  <2> QED BY ONLY <2>1, LenProperties, ElementOfSeq
<1>4. /\ cs = [j \in 1..Len(p) |-> cs[j]] /\ ct = [j \in 1..Len(p) |-> ct[j]]
      /\ \A j \in 1..Len(p) : cs[j] = s[p[j]] /\ ct[j] = t[p[j]]
  BY <1>3
<1> HIDE DEF cs, ct
<1>5. Len(cs) = Len(p) /\ Len(ct) = Len(p)
  BY <1>3, <1>4, LenOf
<1> QED BY <1>1, <1>3, <1>4, <1>5

\* A thought is no question.
LEMMA ThoughtAsksNothing ==
    ASSUME NEW b, IsThought(b)
    PROVE  ~IsToolUse(b)
BY ThoughtIsObject DEF IsToolUse

\* The questions of a reply.
LEMMA RequestedQuestions ==
    ASSUME NEW blocks, IsReply(blocks)
    PROVE  /\ IsSeq(Requested(blocks))
           /\ \A j \in 1..Len(Requested(blocks)) : IsQuestion(Requested(blocks)[j])
<1> DEFINE keep == {i \in DOMAIN blocks : IsToolUse(blocks[i])}
<1>1. IsSeq(blocks) /\ DOMAIN blocks = 1..Len(blocks) /\ Len(blocks) \in Nat
  BY DEF IsReply, IsSeq
<1>2. Requested(blocks) = Chosen(blocks, keep)
  BY DEF Requested
<1>3. \A i \in 1..Len(blocks) : i \in keep => IsQuestion(blocks[i])
  <2> SUFFICES ASSUME NEW i \in 1..Len(blocks), i \in keep PROVE IsQuestion(blocks[i])
    OBVIOUS
  <2>1. i # 1
    BY ThoughtAsksNothing DEF IsReply
  <2> QED BY <1>1, <2>1 DEF IsReply
<1> HIDE DEF keep
<1>4. IsSeq(Chosen(blocks, keep))
  BY <1>1, ChosenMembers
<1>5. \A j \in 1..Len(Chosen(blocks, keep)) : \E i \in (1..Len(blocks)) \cap keep :
        Chosen(blocks, keep)[j] = blocks[i]
  BY <1>1, ChosenAlike
<1> QED BY <1>2, <1>3, <1>4, <1>5

\* Nothing is asked before there is a reply.
LEMMA NothingRequested == Requested(<<>>) = <<>> /\ Len(Requested(<<>>)) = 0
<1> DEFINE keep == {i \in DOMAIN <<>> : IsToolUse(<<>>[i])}
           none == [j \in DOMAIN <<>> |-> <<>>[<<>>[j]]]
<1>1. Requested(<<>>) = Chosen(<<>>, keep)
  BY DEF Requested
<1>2. Len(<<>>) = 0 /\ DOMAIN <<>> = {}
  BY EmptySeq
<1>3. Positions(0, keep) = <<>>
  BY PositionsStep
<1>4. Chosen(<<>>, keep) = none
  BY <1>2, <1>3 DEF Chosen
<1>5. none = <<>>
  BY <1>2
<1> QED BY <1>1, <1>2, <1>4, <1>5

\* A block that is committed and loaded again.
ReadBack(b) == block_from_dict(Jsonb(exclude_none(b)))

\* A message is read back block by block.
LEMMA ColumnReadBack ==
    ASSUME NEW blocks, IsSeq(blocks)
    PROVE  LET back == FromColumn(ToColumn(blocks))
           IN  /\ IsSeq(back) /\ Len(back) = Len(blocks)
               /\ \A i \in 1..Len(blocks) : back[i] = ReadBack(blocks[i])
<1> DEFINE wire == [i \in DOMAIN blocks |-> exclude_none(blocks[i])]
           column == [i \in DOMAIN wire |-> Jsonb(wire[i])]
           back == [i \in DOMAIN column |-> block_from_dict(column[i])]
<1>1. DOMAIN blocks = 1..Len(blocks) /\ Len(blocks) \in Nat
  BY DEF IsSeq
<1>2. FromColumn(ToColumn(blocks)) = back
  BY DEF FromColumn, ToColumn, blocks_to_wire
<1>3. DOMAIN column = 1..Len(blocks) /\ \A i \in 1..Len(blocks) : column[i] = Jsonb(exclude_none(blocks[i]))
  BY <1>1
<1> HIDE DEF column
<1>4. back = [i \in 1..Len(blocks) |-> back[i]] /\ \A i \in 1..Len(blocks) : back[i] = ReadBack(blocks[i])
  BY <1>3 DEF ReadBack
<1> HIDE DEF back
<1> QED BY <1>1, <1>2, <1>4, LenOf

\* A question read back is the same question, and the same JSON.
LEMMA QuestionReadBack ==
    ASSUME NEW b, IsQuestion(b)
    PROVE  /\ IsToolUse(ReadBack(b)) /\ Value(ReadBack(b), "id") = Value(b, "id")
           /\ IsObject(CallOf(b).args)
           /\ CallOf(ReadBack(b)) = [name |-> CallOf(b).name,
                                    args |-> SortFields(CallOf(b).args, ShorterFirst)]
           /\ SameJson(ReadBack(b), b)
<1>1. PICK id \in Nat \X Nat, call \in AskedCalls : b = ToolUseBlock(id, call.name, call.args)
  BY DEF IsQuestion
<1> DEFINE sorted == SortFields(call.args, ShorterFirst)
           back == ToolUseBlock(id, call.name, sorted)
<1>2. ReadBack(b) = back
  <2>1. id # Null /\ call.name # Null /\ call.args # Null /\ "tool_use" # Null
    BY NullAssumption
  <2> QED BY <1>1, <2>1, ToolUseReadBack DEF ReadBack
<1>3. /\ CallOf(b) = [name |-> call.name, args |-> call.args] /\ Value(b, "id") = id
      /\ CallOf(back) = [name |-> call.name, args |-> sorted] /\ Value(back, "id") = id
      /\ IsToolUse(back)
  BY <1>1, ToolUseValues
<1>4. IsObject(call.args)
  BY AsksAssumption
<1>5. Pairs(sorted) = Pairs(call.args)
  BY <1>4, SortedObject
<1>6. /\ Pairs(b) = {<<"type", "tool_use">>, <<"id", id>>, <<"name", call.name>>, <<"input", call.args>>}
      /\ Pairs(back) = {<<"type", "tool_use">>, <<"id", id>>, <<"name", call.name>>, <<"input", sorted>>}
  BY <1>1, FourPairs DEF ToolUseBlock
<1> HIDE DEF back, sorted
<1>7. Meaning(back) = Meaning(b)
  <2> DEFINE M(p) == <<p[1], IF p[1] = "input" THEN Pairs(p[2]) ELSE p[2]>>
  <2>1. /\ M(<<"type", "tool_use">>) = <<"type", "tool_use">>
        /\ M(<<"id", id>>) = <<"id", id>>
        /\ M(<<"name", call.name>>) = <<"name", call.name>>
        /\ M(<<"input", call.args>>) = <<"input", Pairs(call.args)>>
        /\ M(<<"input", sorted>>) = <<"input", Pairs(call.args)>>
    BY <1>5
  <2>2. Meaning(b) = {M(p) : p \in Pairs(b)} /\ Meaning(back) = {M(p) : p \in Pairs(back)}
    BY DEF Meaning
  <2> HIDE DEF M
  <2> QED BY <1>6, <2>1, <2>2
<1> QED BY <1>2, <1>3, <1>4, <1>7 DEF SameJson, sorted

\* A stored reply asks for the same, in the same order, when it is loaded.
LEMMA ReplyReadBack ==
    ASSUME NEW blocks, IsReply(blocks)
    PROVE  LET back == FromColumn(ToColumn(blocks))
           IN  /\ Len(Requested(back)) = Len(Requested(blocks))
               /\ \A j \in 1..Len(Requested(blocks)) :
                    Requested(back)[j] = ReadBack(Requested(blocks)[j])
               /\ Len(back) = Len(blocks) /\ DOMAIN blocks = 1..Len(blocks)
               /\ \A i \in 1..Len(blocks) : SameJson(back[i], blocks[i])
               /\ SameJson(back[1], exclude_none(Thinking))
<1> DEFINE back == FromColumn(ToColumn(blocks))
           asks(bs) == {i \in DOMAIN bs : IsToolUse(bs[i])}
           keep == asks(blocks)
<1>1. IsSeq(blocks) /\ DOMAIN blocks = 1..Len(blocks) /\ Len(blocks) \in Nat /\ Len(blocks) >= 1
  BY DEF IsReply, IsSeq
<1>2. /\ IsSeq(back) /\ Len(back) = Len(blocks) /\ DOMAIN back = 1..Len(blocks)
      /\ \A i \in 1..Len(blocks) : back[i] = ReadBack(blocks[i])
  BY <1>1, ColumnReadBack DEF IsSeq
<1> HIDE DEF back
<1>3. IsThought(blocks[1]) /\ IsThought(back[1])
  BY <1>1, <1>2, ThoughtReadBack DEF IsReply, ReadBack
<1>4. ASSUME NEW i \in 2..Len(blocks)
      PROVE  IsToolUse(blocks[i]) /\ IsToolUse(back[i]) /\ SameJson(back[i], blocks[i])
  <2>1. IsQuestion(blocks[i]) /\ back[i] = ReadBack(blocks[i])
    BY <1>2 DEF IsReply
  <2> QED BY <2>1, QuestionCall, QuestionReadBack
<1>5. ~IsToolUse(blocks[1]) /\ ~IsToolUse(back[1]) /\ SameJson(back[1], blocks[1])
      /\ SameJson(back[1], exclude_none(Thinking))
  BY <1>3, ThoughtAsksNothing, ThinkingReceived DEF IsThought, SameJson, Meaning
<1>6. asks(back) = keep
  <2>1. \A i \in 1..Len(blocks) : i = 1 \/ i \in 2..Len(blocks)
    BY <1>1
  <2> QED BY <1>1, <1>2, <1>4, <1>5, <2>1
<1>7. Requested(blocks) = Chosen(blocks, keep) /\ Requested(back) = Chosen(back, keep)
  BY <1>6 DEF Requested
<1> HIDE DEF keep
<1>8. /\ Len(Chosen(blocks, keep)) = Len(Chosen(back, keep))
      /\ \A j \in 1..Len(Chosen(blocks, keep)) : \E i \in (1..Len(blocks)) \cap keep :
           Chosen(blocks, keep)[j] = blocks[i] /\ Chosen(back, keep)[j] = back[i]
  BY <1>1, <1>2, ChosenAlike
<1>9. \A j \in 1..Len(Requested(blocks)) : Requested(back)[j] = ReadBack(Requested(blocks)[j])
  BY <1>2, <1>7, <1>8
<1>10. \A i \in 1..Len(blocks) : SameJson(back[i], blocks[i])
  BY <1>1, <1>4, <1>5
<1> QED BY <1>1, <1>2, <1>5, <1>7, <1>8, <1>9, <1>10 DEF back

-----------------------------------------------------------------------------
(* The inductive invariant.                                                *)

\* The outcome that a result with this content and flag stands for.
Said(content, isError) ==
    [status |-> IF isError THEN "failed" ELSE "succeeded", result |-> content]

\* The block b answers the question q: a refused call with the explanation, any
\* other with something its handler produced.
Answers(b, q, prod) ==
    \E content \in Outputs \cup {Detail} : \E isError \in BOOLEAN :
        /\ b = ToolResultBlock(Value(q, "id"), content, isError)
        /\ Accepted(CallOf(q)) => Said(content, isError) \in prod[invocation_key(CallOf(q))]
        /\ ~Accepted(CallOf(q)) => content = Detail /\ isError

\* These blocks answer the first questions of a reply, one by one.
AnswersTo(blocks, answers, prod) ==
    /\ IsSeq(answers)
    /\ \A i \in 1..Len(answers) : Answers(answers[i], Requested(blocks)[i], prod)

\* Loop l is executing a call, or waiting for one.
Busy(l) == at[l] <= Len(Requested(reply[l])) /\ Accepted(Current(l))

\* What loop l has and where it is: it has a reply once it is not away, one answer
\* per question it has passed, and a call under way only for the next question.
LoopOK(l) ==
    /\ lpc[l] = "away" => reply[l] = <<>>
    /\ lpc[l] # "away" => IsReply(reply[l])
    /\ at[l] = Len(results[l]) + 1
    /\ at[l] <= Len(Requested(reply[l])) + 1
    /\ AnswersTo(reply[l], results[l], produced)
    /\ lpc[l] \in {"enqueue", "poll"} => Busy(l)
    /\ pc[l] # "idle" => lpc[l] = "tools" /\ Busy(l) /\ job[l] = Current(l)

LoopsOK == \A l \in Loops : LoopOK(l)

\* The types of the loops' variables.
LoopTypes ==
    /\ lpc \in [Loops -> {"away", "tools", "enqueue", "poll", "done", "failed"}]
    /\ reply = [l \in Loops |-> reply[l]]
    /\ at = [l \in Loops |-> at[l]]
    /\ results = [l \in Loops |-> results[l]]
    /\ replies \in 0..MaxReplies

\* Every call under way was accepted and is made under the key of its job.
JobsOK ==
    /\ job \in [Callers -> AskedCalls]
    /\ dispatched \subseteq {call \in AskedCalls : Accepted(call)}
    /\ \A c \in Callers : pc[c] # "idle" => Accepted(job[c]) /\ key[c] = invocation_key(job[c])

\* The columns hold a reply with all its answers.
StoreOK ==
    stored # NoStep =>
        /\ stored = <<ToColumn(kept[1]), ToColumn(kept[2])>>
        /\ IsReply(kept[1])
        /\ Len(kept[2]) = Len(Requested(kept[1]))
        /\ AnswersTo(kept[1], kept[2], produced)

\* What is noted down per call agrees with what the ledger's history has per key.
NotesOK ==
    /\ ran \in [Senses -> Nat]
    /\ \A call \in AskedCalls : Accepted(call) =>
         /\ ran[Sense(call)] <= handlerRuns[invocation_key(call)]
         /\ \A o \in produced[invocation_key(call)] : <<Sense(call), o>> \in made

\* The whole of it.
StepInv ==
    /\ LedgerInv
    /\ LoopTypes
    /\ LoopsOK
    /\ JobsOK
    /\ StoreOK
    /\ NotesOK

-----------------------------------------------------------------------------
(* Steps of the ledger's callers.                                          *)

\* What a busy loop is executing is one of the questions of its reply.
LEMMA CurrentIsAsked ==
    ASSUME NEW l \in Loops, LoopOK(l), lpc[l] # "away", at[l] <= Len(Requested(reply[l]))
    PROVE  /\ Current(l) \in AskedCalls
           /\ Accepted(Current(l)) => invocation_key(Current(l)) \in Keys
           /\ at[l] \in 1..Len(Requested(reply[l]))
<1>1. IsReply(reply[l]) /\ at[l] = Len(results[l]) + 1 /\ Len(results[l]) \in Nat
  BY DEF LoopOK, AnswersTo, IsSeq
<1>2. Len(Requested(reply[l])) \in Nat
  BY <1>1, RequestedQuestions DEF IsSeq
<1>3. at[l] \in 1..Len(Requested(reply[l]))
  BY <1>1, <1>2
<1>4. IsQuestion(Requested(reply[l])[at[l]])
  BY <1>1, <1>3, RequestedQuestions
<1>5. Current(l) \in AskedCalls
  BY <1>4, QuestionCall DEF Current, Block
<1> QED BY <1>3, <1>5, KeysAssumption

\* Whoever goes on with a call of execute_invocation takes a step of the ledger.
LEMMA InvocationStep ==
    ASSUME NEW c, Invocation(c)
    PROVE  CallerStep(c)
BY DEF Invocation, CallerStep

\* Every step is a step of the ledger, or leaves it and its callers alone.
LEMMA StepLedgerStep ==
    ASSUME StepInv, [StepNext]_stepVars
    PROVE  [Next]_vars
<1>1. ASSUME NEW l \in Loops, Ask(l) \/ Refuse(l) \/ Consult(l) \/ EnqueueTool(l) \/ PollRow(l) \/ Commit(l)
      PROVE  UNCHANGED vars
  BY <1>1 DEF Ask, Refuse, Consult, EnqueueTool, PollRow, Commit
<1>2. ASSUME NEW l \in Loops, Execute(l) PROVE \E k \in Keys : Call(l, k)
  <2>1. LoopOK(l) /\ lpc[l] # "away" /\ at[l] <= Len(Requested(reply[l])) /\ Accepted(Current(l))
    BY <1>2 DEF StepInv, LoopsOK, Execute, AtCall
  <2>2. invocation_key(Current(l)) \in Keys
    BY <2>1, CurrentIsAsked
  <2> QED BY <1>2, <2>2 DEF Execute
<1>3. ASSUME NEW l \in Loops, Inline(l) PROVE CallerStep(l)
  BY <1>3, InvocationStep DEF Inline
<1>4. ASSUME NEW l \in Loops, Abandon(l) PROVE Vanish(l) \/ UNCHANGED vars
  BY <1>4 DEF Abandon
<1>5. ASSUME NEW c \in Tasks, DeliverTask(c) PROVE \E k \in Keys : Call(c, k)
  <2>1. PICK call \in dispatched : Call(c, invocation_key(call))
    BY <1>5 DEF DeliverTask
  <2>2. invocation_key(call) \in Keys
    BY <2>1, KeysAssumption DEF StepInv, JobsOK
  <2> QED BY <2>1, <2>2
<1>6. ASSUME NEW c \in Tasks, TaskStep(c) PROVE CallerStep(c)
  BY <1>6, InvocationStep DEF TaskStep, CallerStep
<1>7. ASSUME StepOver \/ UNCHANGED stepVars PROVE UNCHANGED vars
  BY <1>7 DEF StepOver, stepVars
<1>8. Loops \subseteq Callers /\ Tasks \subseteq Callers
  BY LoopsAssumption DEF Tasks
<1> QED
  BY <1>1, <1>2, <1>3, <1>4, <1>5, <1>6, <1>7, <1>8 DEF StepNext, Driving, Next, CallerStep

\* The ledger's invariant goes on, and outcomes stay on record.
LEMMA LedgerGoesOn ==
    ASSUME StepInv, [StepNext]_stepVars
    PROVE  LedgerInv' /\ \A k \in Keys : produced[k] \subseteq produced'[k]
BY StepLedgerStep, LedgerInvStep, ProducedGrows DEF StepInv, LedgerInv

-----------------------------------------------------------------------------
(* Answers.                                                                *)

\* An answer remains one while more outcomes are produced.
LEMMA AnswersRemain ==
    ASSUME NEW blocks, blocks = <<>> \/ IsReply(blocks), NEW answers, NEW prod, NEW more,
           \A k \in Keys : prod[k] \subseteq more[k],
           Len(answers) <= Len(Requested(blocks)),
           AnswersTo(blocks, answers, prod)
    PROVE  AnswersTo(blocks, answers, more)
<1> SUFFICES ASSUME NEW i \in 1..Len(answers)
             PROVE  Answers(answers[i], Requested(blocks)[i], more)
  BY DEF AnswersTo
<1> DEFINE q == Requested(blocks)[i]
<1>1. Len(answers) \in Nat
  BY DEF AnswersTo, IsSeq
<1>2. IsReply(blocks)
  BY <1>1, NothingRequested
<1>3. i \in 1..Len(Requested(blocks))
  BY <1>1, <1>2, RequestedQuestions DEF IsSeq
<1>4. CallOf(q) \in AskedCalls
  BY <1>2, <1>3, RequestedQuestions, QuestionCall
<1>5. Accepted(CallOf(q)) => invocation_key(CallOf(q)) \in Keys
  BY <1>4, KeysAssumption
<1>6. Answers(answers[i], q, prod)
  BY DEF AnswersTo
<1> HIDE DEF q
<1>7. Answers(answers[i], q, more)
  BY <1>5, <1>6 DEF Answers
<1> QED BY <1>7 DEF q

\* What a loop relies on is not disturbed by the others, nor by its own call as
\* long as that is under way.
LEMMA LoopUndisturbed ==
    ASSUME NEW l \in Loops, LoopOK(l),
           lpc'[l] = lpc[l], reply'[l] = reply[l], at'[l] = at[l], results'[l] = results[l],
           pc'[l] # "idle" => pc[l] # "idle" /\ job'[l] = job[l],
           \A k \in Keys : produced[k] \subseteq produced'[k]
    PROVE  LoopOK(l)'
<1>1. Current(l)' = Current(l)
  BY DEF Current, Block
<1>2. Busy(l)' <=> Busy(l)
  BY <1>1 DEF Busy
<1>3. AnswersTo(reply[l], results[l], produced')
  <2>1. Len(results[l]) \in Nat /\ AnswersTo(reply[l], results[l], produced)
    BY DEF LoopOK, AnswersTo, IsSeq
  <2>2. reply[l] = <<>> \/ IsReply(reply[l])
    BY DEF LoopOK
  <2>3. Len(Requested(reply[l])) \in Nat
    BY <2>2, NothingRequested, RequestedQuestions DEF IsSeq
  <2>4. Len(results[l]) <= Len(Requested(reply[l]))
    BY <2>1, <2>3 DEF LoopOK
  <2> QED BY <2>1, <2>2, <2>4, AnswersRemain
<1>4. AnswersTo(reply[l], results[l], produced)'
  BY <1>3
<1> QED BY <1>1, <1>2, <1>4 DEF LoopOK

\* One more answer, to the question the loop is at.
LEMMA AnswerAppended ==
    ASSUME NEW l \in Loops, LoopOK(l), lpc[l] # "away", at[l] <= Len(Requested(reply[l])),
           NEW content \in Outputs \cup {Detail}, NEW isError \in BOOLEAN,
           results'[l] = Append(results[l], ToolResultBlock(Value(Block(l), "id"), content, isError)),
           at'[l] = at[l] + 1, lpc'[l] = "tools", reply'[l] = reply[l], pc'[l] = "idle",
           Accepted(Current(l)) => Said(content, isError) \in produced'[invocation_key(Current(l))],
           ~Accepted(Current(l)) => content = Detail /\ isError,
           \A k \in Keys : produced[k] \subseteq produced'[k]
    PROVE  LoopOK(l)'
<1> DEFINE r == results[l]
           q == Requested(reply[l])[at[l]]
           b == ToolResultBlock(Value(q, "id"), content, isError)
           longer == Append(r, b)
<1>1. IsReply(reply[l]) /\ IsSeq(r) /\ Len(r) \in Nat /\ at[l] = Len(r) + 1
  BY DEF LoopOK, AnswersTo, IsSeq
<1>2. Len(Requested(reply[l])) \in Nat
  BY <1>1, RequestedQuestions DEF IsSeq
<1>3. AnswersTo(reply[l], r, produced')
  <2>1. Len(r) <= Len(Requested(reply[l])) /\ AnswersTo(reply[l], r, produced)
    BY <1>1, <1>2 DEF LoopOK
  <2> QED BY <1>1, <2>1, AnswersRemain
<1>4. q = Block(l) /\ CallOf(q) = Current(l)
  BY DEF Block, Current
<1>5. Answers(b, q, produced')
  <2> HIDE DEF q
  <2> QED BY <1>4 DEF Answers
<1>6. results'[l] = longer
  BY <1>4
<1> HIDE DEF r, q, b
<1>7. /\ IsSeq(longer) /\ Len(longer) = Len(r) + 1
      /\ \A i \in 1..Len(r) : longer[i] = r[i]
      /\ longer[Len(r) + 1] = b
  <2> DEFINE S == Pairs(r) \cup {b}
  <2>1. r \in Seq(S) /\ b \in S
    <3>1. r \in Seq(Pairs(r)) /\ Pairs(r) \subseteq S
      BY <1>1, SeqOfPairs
    <3> QED BY <3>1, SeqMonotonic
  <2> HIDE DEF S
  <2>2. /\ longer \in Seq(S) /\ Len(longer) = Len(r) + 1
        /\ \A i \in 1..Len(r) : longer[i] = r[i]
        /\ longer[Len(r) + 1] = b
    BY <2>1, AppendProperties
  <2> HIDE DEF longer
  <2>3. Len(longer) \in Nat /\ longer \in [1..Len(longer) -> S]
    BY ONLY <2>2, LenProperties
  <2> QED BY <2>2, <2>3 DEF IsSeq
<1> HIDE DEF longer
<1>8. AnswersTo(reply[l], longer, produced')
  <2>1. ASSUME NEW i \in 1..Len(longer)
        PROVE  Answers(longer[i], Requested(reply[l])[i], produced')
    <3>1. CASE i = Len(r) + 1
      <4>1. i = at[l] /\ longer[i] = b /\ Requested(reply[l])[i] = q
        BY <1>1, <1>7, <3>1 DEF q
      <4> QED BY <1>5, <4>1
    <3>2. CASE i \in 1..Len(r)
      BY <1>3, <1>7, <3>2 DEF AnswersTo
    <3> QED BY <1>1, <1>7, <3>1, <3>2
  <2> QED BY <1>7, <2>1 DEF AnswersTo
<1>9. AnswersTo(reply[l], results[l], produced)'
  BY <1>6, <1>8
<1>10. at'[l] = Len(results'[l]) + 1 /\ at'[l] <= Len(Requested(reply'[l])) + 1
  BY <1>1, <1>2, <1>6, <1>7
<1> QED BY <1>1, <1>9, <1>10 DEF LoopOK

\* What _result_from is given is a terminal row that records what happened.
LEMMA ResultRecorded ==
    ASSUME NEW l \in Loops, LoopOK(l), lpc[l] # "away", Busy(l),
           NEW outcome, outcome \in HandlerOutcome,
           outcome \in produced'[invocation_key(Current(l))],
           LoopTypes, Append1(l, outcome.result, outcome.status = "failed"),
           reply'[l] = reply[l], pc'[l] = "idle",
           \A k \in Keys : produced[k] \subseteq produced'[k]
    PROVE  LoopOK(l)'
<1>1. PICK content \in Outputs \cup {Detail} : content = outcome.result
  BY DEF HandlerOutcome
<1>2. PICK isError \in BOOLEAN : isError = (outcome.status = "failed")
  OBVIOUS
<1>3. Said(content, isError) = outcome
  BY <1>1, <1>2 DEF Said, HandlerOutcome
<1>4. Append1(l, content, isError)
  BY <1>1, <1>2
<1>5. /\ results'[l] = Append(results[l], ToolResultBlock(Value(Block(l), "id"), content, isError))
      /\ at'[l] = at[l] + 1 /\ lpc'[l] = "tools"
  BY <1>4 DEF Append1, GotoL, LoopTypes
<1> QED BY <1>3, <1>5, AnswerAppended DEF Busy

\* A step of one call moves no other.
LEMMA OwnCallOnly ==
    ASSUME TypeOK, NEW c \in Callers, CallerStep(c), NEW d \in Callers, d # c
    PROVE  pc'[d] = pc[d] /\ key'[d] = key[d]
BY DEF CallerStep, Call, Begin, Decide, NeedsReview, InvokeHandler, HandlerEnds, Complete,
       Vanish, Goto, Return, TypeOK

\* Only one loop moves.
LEMMA OthersUndisturbed ==
    ASSUME LoopsOK, NEW l \in Loops, LoopOK(l)',
           \A m \in Loops : m # l =>
             /\ lpc'[m] = lpc[m] /\ reply'[m] = reply[m] /\ at'[m] = at[m]
             /\ results'[m] = results[m] /\ pc'[m] = pc[m] /\ job'[m] = job[m],
           \A k \in Keys : produced[k] \subseteq produced'[k]
    PROVE  LoopsOK'
<1>1. ASSUME NEW m \in Loops, m # l PROVE LoopOK(m)'
  <2>1. LoopOK(m)
    BY DEF LoopsOK
  <2>2. /\ lpc'[m] = lpc[m] /\ reply'[m] = reply[m] /\ at'[m] = at[m]
        /\ results'[m] = results[m] /\ pc'[m] = pc[m] /\ job'[m] = job[m]
    BY <1>1
  <2> QED BY <2>1, <2>2, LoopUndisturbed
<1> QED BY <1>1 DEF LoopsOK

-----------------------------------------------------------------------------
(* Steps of the loops.                                                     *)

\* A loop's step changes that loop's variables only.
LEMMA OwnLoopOnly ==
    ASSUME LoopTypes, NEW l \in Loops, Driving(l)
    PROVE  /\ LoopTypes'
           /\ \A m \in Loops : m # l =>
                /\ lpc'[m] = lpc[m] /\ reply'[m] = reply[m] /\ at'[m] = at[m]
                /\ results'[m] = results[m]
<1> USE DEF LoopTypes
<1>1. lpc' = lpc \/ \E where \in {"away", "tools", "enqueue", "poll", "done", "failed"} :
                      lpc' = [lpc EXCEPT ![l] = where]
  BY DEF Driving, Ask, Refuse, Execute, Inline, Consult, EnqueueTool, PollRow, Abandon, Commit,
     ResultFrom, Append1, GotoL, loopVars
<1>2. reply' = reply \/ \E x : reply' = [reply EXCEPT ![l] = x]
  BY DEF Driving, Ask, Refuse, Execute, Inline, Consult, EnqueueTool, PollRow, Abandon, Commit,
     loopVars
<1>3. at' = at \/ \E x : at' = [at EXCEPT ![l] = x]
  BY DEF Driving, Ask, Refuse, Execute, Inline, Consult, EnqueueTool, PollRow, Abandon, Commit,
     ResultFrom, Append1, loopVars
<1>4. results' = results \/ \E x : results' = [results EXCEPT ![l] = x]
  BY DEF Driving, Ask, Refuse, Execute, Inline, Consult, EnqueueTool, PollRow, Abandon, Commit,
     ResultFrom, Append1, loopVars
<1>5. replies' \in 0..MaxReplies
  <2>1. replies' = replies \/ (replies < MaxReplies /\ replies' = replies + 1)
    BY DEF Driving, Ask, Refuse, Execute, Inline, Consult, EnqueueTool, PollRow, Abandon, Commit,
       loopVars
  <2> QED BY <2>1, MaxRepliesAssumption
<1>6. lpc' \in [Loops -> {"away", "tools", "enqueue", "poll", "done", "failed"}]
      /\ \A m \in Loops : m # l => lpc'[m] = lpc[m]
  BY <1>1
<1>7. reply' = [m \in Loops |-> reply'[m]] /\ \A m \in Loops : m # l => reply'[m] = reply[m]
  BY <1>2
<1>8. at' = [m \in Loops |-> at'[m]] /\ \A m \in Loops : m # l => at'[m] = at[m]
  BY <1>3
<1>9. results' = [m \in Loops |-> results'[m]] /\ \A m \in Loops : m # l => results'[m] = results[m]
  BY <1>4
<1> QED BY <1>5, <1>6, <1>7, <1>8, <1>9

\* Nor another's call or job.
LEMMA OwnJobOnly ==
    ASSUME TypeOK, JobsOK, NEW l \in Loops, Driving(l), NEW m \in Callers, m # l
    PROVE  pc'[m] = pc[m] /\ job'[m] = job[m] /\ key'[m] = key[m]
<1>0. l \in Callers
  BY LoopsAssumption
<1>1. job'[m] = job[m]
  BY <1>0 DEF JobsOK, Driving, Ask, Refuse, Execute, Inline, Invocation, Consult, EnqueueTool, PollRow,
     Abandon, Commit
<1>2. UNCHANGED vars \/ CallerStep(l) \/ \E k : Call(l, k)
  BY InvocationStep DEF Driving, Ask, Refuse, Execute, Inline, Consult, EnqueueTool, PollRow,
     Abandon, Commit, CallerStep
<1>3. CASE UNCHANGED vars
  BY <1>1, <1>3 DEF vars, callVars
<1>4. CASE CallerStep(l)
  BY <1>0, <1>1, <1>4, OwnCallOnly
<1>5. CASE \E k : Call(l, k)
  BY <1>0, <1>1, <1>5 DEF Call, Goto, TypeOK
<1> QED BY <1>2, <1>3, <1>4, <1>5

\* A reply arrives.
LEMMA AskOK ==
    ASSUME StepInv, NEW l \in Loops, Ask(l)
    PROVE  LoopOK(l)'
<1>1. LoopOK(l) /\ LoopTypes /\ lpc[l] = "away" /\ pc' = pc /\ at' = at /\ results' = results
  BY DEF StepInv, LoopsOK, Ask, vars, callVars
<1>2. lpc'[l] = "tools"
  BY <1>1 DEF Ask, GotoL, LoopTypes
<1>3. IsReply(reply'[l])
  <2>1. PICK ask \in Asks : reply' = [reply EXCEPT ![l] = from_wire_response(RawReply(replies', ask))]
    BY DEF Ask
  <2>2. replies' \in Nat
    BY <1>1, MaxRepliesAssumption DEF Ask, LoopTypes
  <2>3. reply'[l] = from_wire_response(RawReply(replies', ask))
    BY <1>1, <2>1 DEF LoopTypes
  <2> QED BY <2>2, <2>3, ReplyReceived
<1>4. pc[l] = "idle"
  BY <1>1 DEF LoopOK
<1>5. Len(results[l]) = 0 /\ at[l] = 1 /\ IsSeq(results[l])
  <2>1. reply[l] = <<>> /\ Len(results[l]) \in Nat /\ at[l] = Len(results[l]) + 1 /\ at[l] <= 0 + 1
    BY <1>1, NothingRequested DEF LoopOK, AnswersTo, IsSeq
  <2> QED BY <1>1, <2>1 DEF LoopOK, AnswersTo
<1>7. AnswersTo(reply[l], results[l], produced)'
  <2>1. 1..Len(results'[l]) = {} /\ IsSeq(results'[l])
    BY <1>1, <1>5
  <2> QED BY <2>1 DEF AnswersTo
<1>8. at'[l] = Len(results'[l]) + 1 /\ at'[l] <= Len(Requested(reply'[l])) + 1
  <2>1. Len(Requested(reply'[l])) \in Nat
    BY <1>3, RequestedQuestions DEF IsSeq
  <2> QED BY <1>1, <1>5, <2>1
<1> QED BY <1>1, <1>2, <1>3, <1>4, <1>7, <1>8 DEF LoopOK

\* A call is refused.
LEMMA RefuseOK ==
    ASSUME StepInv, NEW l \in Loops, Refuse(l)
    PROVE  LoopOK(l)'
<1>1. /\ LoopOK(l) /\ LoopTypes /\ lpc[l] # "away" /\ at[l] <= Len(Requested(reply[l]))
      /\ ~Accepted(Current(l)) /\ pc[l] = "idle"
  BY DEF StepInv, LoopsOK, Refuse, AtCall
<1>2. pc' = pc /\ reply' = reply /\ produced' = produced
  BY DEF Refuse, vars, callVars, historyVars
<1>3. PICK isError \in BOOLEAN : isError = TRUE
  OBVIOUS
<1>4. PICK content \in Outputs \cup {Detail} : content = Detail
  OBVIOUS
<1>5. Append1(l, content, isError)
  BY <1>3, <1>4 DEF Refuse
<1>6. /\ results'[l] = Append(results[l], ToolResultBlock(Value(Block(l), "id"), content, isError))
      /\ at'[l] = at[l] + 1 /\ lpc'[l] = "tools"
  BY <1>1, <1>5 DEF Append1, GotoL, LoopTypes
<1> QED BY <1>1, <1>2, <1>3, <1>4, <1>6, AnswerAppended

\* A loop moves within its step, with its reply and its results as they are.
LEMMA MovesOn ==
    ASSUME NEW l \in Loops, LoopOK(l), lpc[l] # "away", lpc'[l] # "away",
           reply'[l] = reply[l], at'[l] = at[l], results'[l] = results[l],
           lpc'[l] \in {"enqueue", "poll"} => Busy(l),
           pc'[l] # "idle" => lpc'[l] = "tools" /\ Busy(l) /\ job'[l] = Current(l),
           \A k \in Keys : produced[k] \subseteq produced'[k]
    PROVE  LoopOK(l)'
<1>1. Current(l)' = Current(l)
  BY DEF Current, Block
<1>2. Busy(l)' <=> Busy(l)
  BY <1>1 DEF Busy
<1>3. AnswersTo(reply[l], results[l], produced')
  <2>1. Len(results[l]) \in Nat /\ AnswersTo(reply[l], results[l], produced) /\ IsReply(reply[l])
    BY DEF LoopOK, AnswersTo, IsSeq
  <2>2. Len(Requested(reply[l])) \in Nat
    BY <2>1, RequestedQuestions DEF IsSeq
  <2>3. Len(results[l]) <= Len(Requested(reply[l]))
    BY <2>1, <2>2 DEF LoopOK
  <2> QED BY <2>1, <2>3, AnswersRemain
<1>4. AnswersTo(reply[l], results[l], produced)'
  BY <1>3
<1> QED BY <1>1, <1>2, <1>4 DEF LoopOK

\* An inline call is made.
LEMMA ExecuteOK ==
    ASSUME StepInv, NEW l \in Loops, Execute(l)
    PROVE  LoopOK(l)'
<1>1. /\ LoopOK(l) /\ LoopTypes /\ JobsOK /\ lpc[l] = "tools"
      /\ at[l] <= Len(Requested(reply[l])) /\ Accepted(Current(l))
  BY DEF StepInv, LoopsOK, Execute, AtCall
<1>2. lpc' = lpc /\ reply' = reply /\ at' = at /\ results' = results /\ produced' = produced
  BY DEF Execute, Call, loopVars, historyVars
<1>3. job'[l] = Current(l)
  <2>1. l \in Callers
    BY LoopsAssumption
  <2> QED BY <1>1, <2>1 DEF Execute, JobsOK
<1> QED BY <1>1, <1>2, <1>3, MovesOn DEF Busy

\* What is a terminal row for a loop: NEEDS_REVIEW, or an outcome on record.
LEMMA TerminalRow ==
    ASSUME LedgerInv, NEW k \in Keys, IsTerminal(row[k]), row[k] # InReview
    PROVE  row[k] \in HandlerOutcome /\ row[k] \in produced[k]
<1>1. row[k] \in HandlerOutcome
  BY RowKinds DEF LedgerInv, TypeOK
<1> QED BY <1>1 DEF LedgerInv, AnswersHappened

\* The loop takes the row of its call for a result.
LEMMA ResultFromOK ==
    ASSUME StepInv, NEW l \in Loops, lpc[l] # "away", Busy(l),
           ResultFrom(l, row[invocation_key(Current(l))]),
           IsTerminal(row[invocation_key(Current(l))]),
           reply' = reply, vars' = vars, pc[l] = "idle"
    PROVE  LoopOK(l)'
<1> DEFINE k == invocation_key(Current(l))
<1>1. LoopOK(l) /\ LoopTypes /\ LedgerInv
  BY DEF StepInv, LoopsOK
<1>2. k \in Keys
  BY <1>1, CurrentIsAsked DEF Busy
<1>3. pc' = pc /\ produced' = produced
  BY DEF vars, callVars, historyVars
<1>4. CASE row[k] = InReview
  <2>1. lpc'[l] = "failed" /\ at' = at /\ results' = results
    BY <1>1, <1>4 DEF ResultFrom, GotoL, LoopTypes
  <2> QED BY <1>1, <1>3, <2>1, MovesOn
<1>5. CASE row[k] # InReview
  <2>1. PICK outcome \in HandlerOutcome : outcome = row[k] /\ outcome \in produced'[k]
    BY <1>1, <1>2, <1>3, <1>5, TerminalRow
  <2>2. Append1(l, outcome.result, outcome.status = "failed")
    BY <1>5, <2>1 DEF ResultFrom
  <2> QED BY <1>1, <1>3, <2>1, <2>2, ResultRecorded
<1> QED BY <1>4, <1>5

\* The ledger is consulted for a durable call.
LEMMA ConsultOK ==
    ASSUME StepInv, NEW l \in Loops, Consult(l)
    PROVE  LoopOK(l)'
<1> DEFINE found == row[invocation_key(Current(l))]
<1>1. /\ LoopOK(l) /\ LoopTypes /\ lpc[l] # "away" /\ Busy(l) /\ pc[l] = "idle"
      /\ reply' = reply /\ vars' = vars
  BY DEF StepInv, LoopsOK, Consult, AtCall, Busy
<1>2. CASE IsTerminal(found) /\ ResultFrom(l, found)
  BY <1>1, <1>2, ResultFromOK
<1>3. CASE ~(IsTerminal(found) /\ ResultFrom(l, found))
  <2>1. at' = at /\ results' = results /\ (GotoL(l, "enqueue") \/ GotoL(l, "poll"))
    BY <1>3 DEF Consult
  <2>2. lpc'[l] \in {"enqueue", "poll"}
    BY <1>1, <2>1 DEF GotoL, LoopTypes
  <2>3. pc' = pc /\ produced' = produced
    BY <1>1 DEF vars, callVars, historyVars
  <2> QED BY <1>1, <2>1, <2>2, <2>3, MovesOn
<1> QED BY <1>2, <1>3

\* A dispatch, the poll of a terminal row, and the commit.
LEMMA DurableOK ==
    ASSUME StepInv, NEW l \in Loops, EnqueueTool(l) \/ PollRow(l) \/ Commit(l)
    PROVE  LoopOK(l)'
<1>1. LoopOK(l) /\ LoopTypes /\ reply' = reply /\ vars' = vars
  BY DEF StepInv, LoopsOK, EnqueueTool, PollRow, Commit
<1>2. pc' = pc /\ produced' = produced
  BY <1>1 DEF vars, callVars, historyVars
<1>3. CASE EnqueueTool(l)
  <2>1. lpc[l] = "enqueue" /\ lpc'[l] = "poll" /\ at' = at /\ results' = results
    BY <1>1, <1>3 DEF EnqueueTool, GotoL, LoopTypes
  <2>2. Busy(l) /\ pc[l] = "idle"
    BY <1>1, <2>1 DEF LoopOK
  <2> QED BY <1>1, <1>2, <2>1, <2>2, MovesOn
<1>4. CASE PollRow(l)
  <2>1. lpc[l] = "poll" /\ Busy(l) /\ pc[l] = "idle"
    BY <1>1, <1>4 DEF PollRow, LoopOK
  <2> QED BY <1>1, <1>4, <2>1, ResultFromOK DEF PollRow
<1>5. CASE Commit(l)
  <2>1. lpc[l] = "tools" /\ pc[l] = "idle" /\ lpc'[l] = "done" /\ at' = at /\ results' = results
    BY <1>1, <1>5 DEF Commit, GotoL, LoopTypes
  <2> QED BY <1>1, <1>2, <2>1, MovesOn
<1> QED BY <1>3, <1>4, <1>5

\* The attempt ends and nothing of it is left.
LEMMA AbandonOK ==
    ASSUME StepInv, NEW l \in Loops, Abandon(l)
    PROVE  LoopOK(l)'
<1>1. LoopTypes /\ TypeOK
  BY DEF StepInv, LedgerInv
<1>2. lpc'[l] = "away" /\ reply'[l] = <<>> /\ at'[l] = 1 /\ results'[l] = <<>>
  BY <1>1 DEF Abandon, GotoL, LoopTypes
<1>3. pc'[l] = "idle"
  <2>1. l \in Callers
    BY LoopsAssumption
  <2> QED BY <1>1, <2>1 DEF Abandon, Vanish, Goto, TypeOK, vars, callVars
<1>4. Len(<<>>) = 0 /\ IsSeq(<<>>) /\ 1..0 = {}
  <2>1. Len(<<>>) = 0 /\ 1..0 = {}
    BY EmptySeq
  <2>2. <<>> = [i \in 1..0 |-> <<>>[i]]
    OBVIOUS
  <2> QED BY <2>1, <2>2 DEF IsSeq
<1>5. AnswersTo(<<>>, <<>>, produced')
  BY <1>4 DEF AnswersTo
<1>6. AnswersTo(reply[l], results[l], produced)'
  BY <1>2, <1>5
<1>7. at'[l] = Len(results'[l]) + 1 /\ at'[l] <= Len(Requested(reply'[l])) + 1
  BY <1>2, <1>4, NothingRequested
<1> QED BY <1>2, <1>3, <1>6, <1>7 DEF LoopOK

\* A call that is over, and did not raise, has returned what the row holds.
LEMMA ReturnHoldsRow ==
    ASSUME LedgerInv, LedgerInv', NEW c \in Callers, Invocation(c),
           pc'[c] = "idle", pc[c] # "completeThenRaise", row'[key[c]] # InReview
    PROVE  row'[key[c]] \in HandlerOutcome /\ row'[key[c]] \in produced'[key[c]]
<1>1. TypeOK /\ key[c] \in Keys
  BY DEF LedgerInv, TypeOK
<1>2. resolve_pending(Effect[key[c]]) # "idle"
  BY DEF resolve_pending
<1>3. \E outcome : Return(c, outcome)
  BY <1>1, <1>2 DEF Invocation, Begin, Decide, NeedsReview, InvokeHandler, HandlerEnds,
     Complete, Goto, TypeOK
<1>4. returned'[key[c]] # {}
  BY <1>1, <1>3 DEF Return, TypeOK
<1>5. IsTerminal(row'[key[c]])
  BY <1>1, <1>4 DEF LedgerInv, ReturnedMeansTerminal
<1>6. row'[key[c]] \in HandlerOutcome
  BY <1>1, <1>5, RowKinds DEF LedgerInv, TypeOK
<1> QED BY <1>1, <1>6 DEF LedgerInv, AnswersHappened

\* Whatever call goes on was under way.
LEMMA InvocationUnderWay ==
    ASSUME NEW c, Invocation(c)
    PROVE  pc[c] # "idle" /\ job' = job /\ key' = key /\ dispatched' = dispatched
           /\ stored' = stored /\ kept' = kept
BY DEF Invocation, Begin, Decide, NeedsReview, InvokeHandler, HandlerEnds, Complete, storeVars

\* An inline call goes on, or is over.
LEMMA InlineOK ==
    ASSUME StepInv, LedgerInv', NEW l \in Loops, Inline(l),
           \A k \in Keys : produced[k] \subseteq produced'[k]
    PROVE  LoopOK(l)'
<1>1. LoopOK(l) /\ LoopTypes /\ LedgerInv /\ JobsOK /\ l \in Callers
  BY LoopsAssumption DEF StepInv, LoopsOK
<1>2. Invocation(l) /\ pc[l] # "idle" /\ job' = job
  BY InvocationUnderWay DEF Inline
<1>3. lpc[l] = "tools" /\ Busy(l) /\ key[l] = invocation_key(Current(l))
  BY <1>1, <1>2 DEF LoopOK, JobsOK
<1>4. CASE pc'[l] # "idle"
  <2>1. UNCHANGED loopVars
    BY <1>4 DEF Inline
  <2> QED BY <1>1, <1>2, <2>1, LoopUndisturbed DEF loopVars
<1>5. CASE pc'[l] = "idle" /\ GotoL(l, "failed") /\ UNCHANGED <<at, results>> /\ reply' = reply
  <2>1. lpc'[l] = "failed" /\ at' = at /\ results' = results
    BY <1>1, <1>5 DEF GotoL, LoopTypes
  <2> QED BY <1>1, <1>3, <1>5, <2>1, MovesOn
<1>6. CASE /\ pc'[l] = "idle" /\ pc[l] # "completeThenRaise" /\ reply' = reply
           /\ row'[key[l]] # InReview
           /\ Append1(l, row'[key[l]].result, row'[key[l]].status = "failed")
  <2>1. PICK outcome \in HandlerOutcome :
          outcome = row'[key[l]] /\ outcome \in produced'[invocation_key(Current(l))]
    BY <1>1, <1>2, <1>3, <1>6, ReturnHoldsRow
  <2>2. Append1(l, outcome.result, outcome.status = "failed")
    BY <1>6, <2>1
  <2> QED BY <1>1, <1>3, <1>6, <2>1, <2>2, ResultRecorded
<1> QED BY <1>4, <1>5, <1>6 DEF Inline, ResultFrom

\* All loops, whichever of them moves.
LEMMA DrivingOK ==
    ASSUME StepInv, LedgerInv', NEW l \in Loops, Driving(l),
           \A k \in Keys : produced[k] \subseteq produced'[k]
    PROVE  LoopTypes' /\ LoopsOK'
<1>1. LoopOK(l)'
  BY AskOK, RefuseOK, ExecuteOK, InlineOK, ConsultOK, DurableOK, AbandonOK DEF Driving
<1>2. LoopTypes /\ LoopsOK /\ TypeOK /\ JobsOK
  BY DEF StepInv, LedgerInv
<1>3. LoopTypes'
  BY <1>2, OwnLoopOnly
<1>4. \A m \in Loops : m # l =>
        /\ lpc'[m] = lpc[m] /\ reply'[m] = reply[m] /\ at'[m] = at[m]
        /\ results'[m] = results[m] /\ pc'[m] = pc[m] /\ job'[m] = job[m]
  BY <1>2, OwnLoopOnly, OwnJobOnly, LoopsAssumption
<1> QED BY <1>1, <1>2, <1>3, <1>4, OthersUndisturbed

\* A worker process disturbs no loop.
LEMMA TaskOK ==
    ASSUME StepInv, NEW c \in Tasks, DeliverTask(c) \/ TaskStep(c),
           \A k \in Keys : produced[k] \subseteq produced'[k]
    PROVE  LoopTypes' /\ LoopsOK'
<1>1. c \in Callers /\ c \notin Loops /\ TypeOK /\ LoopTypes /\ LoopsOK /\ JobsOK
  BY DEF StepInv, LedgerInv, Tasks
<1>2. lpc' = lpc /\ reply' = reply /\ at' = at /\ results' = results /\ replies' = replies
  BY DEF DeliverTask, TaskStep, loopVars
<1>3. ASSUME NEW l \in Loops PROVE LoopOK(l)'
  <2>1. l \in Callers /\ l # c /\ LoopOK(l)
    BY <1>1, LoopsAssumption DEF LoopsOK
  <2>2. pc'[l] = pc[l]
    <3>1. CallerStep(c) \/ \E k : Call(c, k)
      BY InvocationStep DEF DeliverTask, TaskStep, CallerStep
    <3>2. (\E k : Call(c, k)) => pc'[l] = pc[l]
      BY <1>1, <2>1 DEF Call, Goto, TypeOK
    <3> QED BY <1>1, <2>1, <3>1, <3>2, OwnCallOnly
  <2>3. job'[l] = job[l]
    <3>1. job' = job \/ \E call : job' = [job EXCEPT ![c] = call]
      BY InvocationUnderWay DEF DeliverTask, TaskStep
    <3> QED BY <1>1, <2>1, <3>1 DEF JobsOK
  <2> QED BY <1>2, <2>1, <2>2, <2>3, LoopUndisturbed
<1> QED BY <1>1, <1>2, <1>3 DEF LoopTypes, LoopsOK

-----------------------------------------------------------------------------
(* Jobs, the store and the notes.                                          *)

\* What a step does to the calls: one is made for an accepted job, one goes on,
\* one disappears, or none moves.
CallMade(c, call) ==
    /\ call \in AskedCalls /\ Accepted(call)
    /\ Call(c, invocation_key(call))
    /\ job' = [job EXCEPT ![c] = call]

\* These are all the things a step does to the calls.
LEMMA WhatCallsDo ==
    ASSUME StepInv, [StepNext]_stepVars
    PROVE  \/ \E c \in Callers : \E call \in AskedCalls :
                CallMade(c, call) /\ UNCHANGED <<dispatched, storeVars, ranVars>>
           \/ \E c \in Callers : Invocation(c)
           \/ \E c \in Callers : Vanish(c) /\ UNCHANGED <<job, dispatched, storeVars, ranVars>>
           \/ UNCHANGED <<vars, job, ranVars>>
<1>1. ASSUME NEW l \in Loops, Ask(l) \/ Refuse(l) \/ Consult(l) \/ EnqueueTool(l) \/ PollRow(l) \/ Commit(l)
      PROVE  UNCHANGED <<vars, job, ranVars>>
  BY <1>1 DEF Ask, Refuse, Consult, EnqueueTool, PollRow, Commit
<1>2. ASSUME NEW l \in Loops, Execute(l)
      PROVE  \E call \in AskedCalls : CallMade(l, call) /\ UNCHANGED <<dispatched, storeVars, ranVars>>
  <2>1. LoopOK(l) /\ lpc[l] # "away" /\ at[l] <= Len(Requested(reply[l])) /\ Accepted(Current(l))
    BY <1>2 DEF StepInv, LoopsOK, Execute, AtCall
  <2>2. Current(l) \in AskedCalls
    BY <2>1, CurrentIsAsked
  <2>3. CallMade(l, Current(l)) /\ UNCHANGED <<dispatched, storeVars, ranVars>>
    BY <1>2, <2>1, <2>2 DEF Execute, CallMade
  <2> QED BY <2>2, <2>3
<1>3. ASSUME NEW l \in Loops, Inline(l) PROVE Invocation(l)
  BY <1>3 DEF Inline
<1>4. ASSUME NEW l \in Loops, Abandon(l)
      PROVE  \/ Vanish(l) /\ UNCHANGED <<job, dispatched, storeVars, ranVars>>
             \/ UNCHANGED <<vars, job, ranVars>>
  BY <1>4 DEF Abandon
<1>5. ASSUME NEW c \in Tasks, DeliverTask(c)
      PROVE  \E call \in AskedCalls : CallMade(c, call) /\ UNCHANGED <<dispatched, storeVars, ranVars>>
  BY <1>5 DEF DeliverTask, CallMade, StepInv, JobsOK
<1>6. ASSUME NEW c \in Tasks, TaskStep(c)
      PROVE  Invocation(c) \/ (Vanish(c) /\ UNCHANGED <<job, dispatched, storeVars, ranVars>>)
  BY <1>6 DEF TaskStep
<1>7. ASSUME StepOver \/ UNCHANGED stepVars PROVE UNCHANGED <<vars, job, ranVars>>
  BY <1>7 DEF StepOver, stepVars
<1>8. Loops \subseteq Callers /\ Tasks \subseteq Callers
  BY LoopsAssumption DEF Tasks
<1> QED
  BY <1>1, <1>2, <1>3, <1>4, <1>5, <1>6, <1>7, <1>8 DEF StepNext, Driving

\* Only accepted calls are dispatched.
LEMMA OnlyAcceptedDispatched ==
    ASSUME StepInv, [StepNext]_stepVars
    PROVE  dispatched' \subseteq {call \in AskedCalls : Accepted(call)}
<1>1. ASSUME NEW l \in Loops, EnqueueTool(l)
      PROVE  dispatched' \subseteq {call \in AskedCalls : Accepted(call)}
  <2>1. LoopOK(l) /\ lpc[l] = "enqueue" /\ Busy(l)
    BY <1>1 DEF StepInv, LoopsOK, EnqueueTool, LoopOK
  <2>2. Current(l) \in AskedCalls /\ Accepted(Current(l))
    BY <2>1, CurrentIsAsked DEF Busy
  <2> QED BY <1>1, <2>2 DEF EnqueueTool, StepInv, JobsOK
<1>2. CASE ~\E l \in Loops : EnqueueTool(l)
  <2>1. dispatched' = dispatched
    BY <1>2, InvocationUnderWay DEF StepNext, Driving, Ask, Refuse, Execute, Inline, Consult, PollRow,
       Abandon, Commit, DeliverTask, TaskStep, StepOver, stepVars
  <2> QED BY <2>1 DEF StepInv, JobsOK
<1> QED BY <1>1, <1>2

\* Every call under way is made under the key of an accepted job, and stays so.
LEMMA JobsStep ==
    ASSUME StepInv, [StepNext]_stepVars
    PROVE  JobsOK'
<1>1. TypeOK /\ JobsOK
  BY DEF StepInv, LedgerInv
<1> DEFINE Sound == /\ job' \in [Callers -> AskedCalls]
                    /\ \A d \in Callers : pc'[d] # "idle" =>
                         Accepted(job'[d]) /\ key'[d] = invocation_key(job'[d])
<1>2. ASSUME NEW c \in Callers, NEW call \in AskedCalls, CallMade(c, call) PROVE Sound
  <2>1. job' \in [Callers -> AskedCalls] /\ job'[c] = call /\ \A d \in Callers : d # c => job'[d] = job[d]
    BY <1>1, <1>2 DEF CallMade, JobsOK
  <2>2. key'[c] = invocation_key(call) /\ \A d \in Callers : d # c => key'[d] = key[d] /\ pc'[d] = pc[d]
    BY <1>1, <1>2 DEF CallMade, Call, Goto, TypeOK
  <2> QED BY <1>1, <1>2, <2>1, <2>2 DEF CallMade, JobsOK
<1>3. ASSUME NEW c \in Callers, Invocation(c) PROVE Sound
  <2>1. pc[c] # "idle" /\ job' = job /\ key' = key
    BY <1>3, InvocationUnderWay
  <2>2. \A d \in Callers : d # c => pc'[d] = pc[d]
    BY <1>1, <1>3, InvocationStep, OwnCallOnly
  <2> QED BY <1>1, <2>1, <2>2 DEF JobsOK
<1>4. ASSUME NEW c \in Callers, Vanish(c), job' = job PROVE Sound
  <2>1. key' = key /\ pc'[c] = "idle" /\ \A d \in Callers : d # c => pc'[d] = pc[d]
    BY <1>1, <1>4 DEF Vanish, Goto, TypeOK
  <2> QED BY <1>1, <1>4, <2>1 DEF JobsOK
<1>5. ASSUME UNCHANGED <<vars, job>> PROVE Sound
  BY <1>1, <1>5 DEF JobsOK, vars, callVars
<1>6. Sound
  <2> HIDE DEF Sound
  <2> QED BY <1>2, <1>3, <1>4, <1>5, WhatCallsDo
<1> QED BY <1>6, OnlyAcceptedDispatched DEF JobsOK

\* Only a commit writes the columns, and it writes a reply with all its answers.
LEMMA StoreStep ==
    ASSUME StepInv, [StepNext]_stepVars,
           \A k \in Keys : produced[k] \subseteq produced'[k]
    PROVE  StoreOK'
<1>1. CASE stored' = stored /\ kept' = kept
  <2> SUFFICES ASSUME stored # NoStep PROVE StoreOK'
    BY <1>1 DEF StoreOK
  <2>1. /\ stored = <<ToColumn(kept[1]), ToColumn(kept[2])>> /\ IsReply(kept[1])
        /\ Len(kept[2]) = Len(Requested(kept[1])) /\ AnswersTo(kept[1], kept[2], produced)
    BY DEF StepInv, StoreOK
  <2>2. Len(kept[2]) <= Len(Requested(kept[1]))
    BY <2>1 DEF AnswersTo, IsSeq
  <2>3. AnswersTo(kept[1], kept[2], produced')
    BY <2>1, <2>2, AnswersRemain
  <2>4. AnswersTo(kept[1], kept[2], produced)'
    BY <1>1, <2>3
  <2> QED BY <1>1, <2>1, <2>4 DEF StoreOK
<1>2. ASSUME NEW l \in Loops, Commit(l), stored = NoStep PROVE StoreOK'
  <2> DEFINE told == <<reply[l], results[l]>>
  <2>1. LoopOK(l) /\ lpc[l] # "away" /\ at[l] > Len(Requested(reply[l]))
    BY <1>2 DEF StepInv, LoopsOK, Commit
  <2>2. IsReply(reply[l]) /\ AnswersTo(reply[l], results[l], produced) /\ Len(results[l]) \in Nat
    BY <2>1 DEF LoopOK, AnswersTo, IsSeq
  <2>3. Len(results[l]) = Len(Requested(reply[l]))
    <3>1. Len(Requested(reply[l])) \in Nat
      BY <2>2, RequestedQuestions DEF IsSeq
    <3>2. at[l] = Len(results[l]) + 1 /\ at[l] <= Len(Requested(reply[l])) + 1
      BY <2>1 DEF LoopOK
    <3> QED BY <2>1, <2>2, <3>1, <3>2
  <2>4. kept' = told /\ stored' = <<ToColumn(reply[l]), ToColumn(results[l])>> /\ produced' = produced
    BY <1>2 DEF Commit, vars, historyVars
  <2>5. kept'[1] = reply[l] /\ kept'[2] = results[l]
    BY <2>4
  <2>6. AnswersTo(kept'[1], kept'[2], produced')
    BY <2>2, <2>4, <2>5
  <2> QED BY <2>2, <2>3, <2>4, <2>5, <2>6 DEF StoreOK
<1>3. CASE ~\E l \in Loops : Commit(l) /\ stored = NoStep
  BY <1>1, <1>3, InvocationUnderWay DEF StepNext, Driving, Ask, Refuse, Execute, Inline, Consult,
     EnqueueTool, PollRow, Abandon, Commit, DeliverTask, TaskStep, StepOver, stepVars, storeVars
<1> QED BY <1>2, <1>3

\* A handler is entered, and produces something, for what its job asks.
LEMMA NotesStep ==
    ASSUME StepInv, [StepNext]_stepVars
    PROVE  NotesOK'
<1>1. TypeOK /\ JobsOK /\ NotesOK
  BY DEF StepInv, LedgerInv
<1>2. ASSUME UNCHANGED <<ran, made, handlerRuns, produced>> PROVE NotesOK'
  BY <1>1, <1>2 DEF NotesOK
<1>3. ASSUME NEW c \in Callers, Invocation(c) PROVE NotesOK'
  <2> DEFINE call == job[c]
  <2>1. pc[c] # "idle" /\ call \in AskedCalls /\ Accepted(call) /\ key[c] = invocation_key(call)
    BY <1>1, <1>3, InvocationUnderWay DEF JobsOK
  <2>2. ASSUME NEW other \in AskedCalls
        PROVE  invocation_key(other) = key[c] <=> Sense(other) = Sense(call)
    BY <2>1, <2>2, KeyIsSense, AsksAssumption
  <2>3. \A other \in AskedCalls : Accepted(other) => invocation_key(other) \in Keys
    BY KeysAssumption
  <2>4. Sense(call) \in Senses /\ \A other \in AskedCalls : Sense(other) \in Senses
    BY <2>1 DEF Senses
  <2>5. key[c] \in Keys
    BY <1>1 DEF TypeOK
  <2> HIDE DEF call
  <2>6. CASE InvokeHandler(c) /\ ran' = [ran EXCEPT ![Sense(job[c])] = @ + 1] /\ made' = made
    <3>1. produced' = produced /\ handlerRuns' = [handlerRuns EXCEPT ![key[c]] = @ + 1]
      BY <2>6 DEF InvokeHandler
    <3>2. ran' = [ran EXCEPT ![Sense(call)] = @ + 1]
      BY <2>6 DEF call
    <3>3. ran' \in [Senses -> Nat]
      BY <1>1, <2>4, <3>2 DEF NotesOK
    <3>4. ASSUME NEW other \in AskedCalls, Accepted(other)
          PROVE  ran'[Sense(other)] <= handlerRuns'[invocation_key(other)]
      <4>1. /\ invocation_key(other) \in Keys /\ Sense(other) \in Senses
            /\ ran[Sense(other)] \in Nat /\ handlerRuns[invocation_key(other)] \in Nat
            /\ ran[Sense(other)] <= handlerRuns[invocation_key(other)]
        BY <1>1, <2>3, <2>4, <3>4 DEF NotesOK, TypeOK
      <4>2. CASE Sense(other) = Sense(call)
        <5>1. invocation_key(other) = key[c]
          BY <2>2, <4>2
        <5>2. handlerRuns'[invocation_key(other)] = handlerRuns[invocation_key(other)] + 1
          BY <1>1, <2>5, <3>1, <5>1 DEF TypeOK
        <5>3. ran'[Sense(other)] = ran[Sense(other)] + 1
          BY <1>1, <3>2, <4>1, <4>2 DEF NotesOK
        <5> QED BY <4>1, <5>2, <5>3
      <4>3. CASE Sense(other) # Sense(call)
        <5>1. invocation_key(other) # key[c]
          BY <2>2, <4>3
        <5>2. handlerRuns'[invocation_key(other)] = handlerRuns[invocation_key(other)]
          BY <1>1, <3>1, <4>1, <5>1 DEF TypeOK
        <5>3. ran'[Sense(other)] = ran[Sense(other)]
          BY <1>1, <3>2, <4>1, <4>3 DEF NotesOK
        <5> QED BY <4>1, <5>2, <5>3
      <4> QED BY <4>2, <4>3
    <3> QED BY <1>1, <2>6, <3>1, <3>3, <3>4 DEF NotesOK
  <2>7. CASE HandlerEnds(c) /\ made' = made \cup {<<Sense(job[c]), got'[c]>>} /\ ran' = ran
    <3>1. PICK outcome \in HandlerOutcome :
            /\ got' = [got EXCEPT ![c] = outcome]
            /\ produced' = [produced EXCEPT ![key[c]] = @ \cup {outcome}]
      BY <2>7 DEF HandlerEnds
    <3>2. handlerRuns' = handlerRuns /\ made' = made \cup {<<Sense(call), outcome>>}
      <4>1. got'[c] = outcome
        BY <1>1, <3>1 DEF TypeOK
      <4> QED BY <2>7, <4>1 DEF HandlerEnds, call
    <3>3. ASSUME NEW other \in AskedCalls, Accepted(other), NEW o \in produced'[invocation_key(other)]
          PROVE  <<Sense(other), o>> \in made'
      <4>1. invocation_key(other) \in Keys
        BY <2>3, <3>3
      <4>2. CASE o \in produced[invocation_key(other)]
        BY <1>1, <3>2, <3>3, <4>2 DEF NotesOK
      <4>3. CASE o \notin produced[invocation_key(other)]
        <5>1. invocation_key(other) = key[c] /\ o = outcome
          BY <1>1, <2>5, <3>1, <3>3, <4>1, <4>3 DEF TypeOK
        <5>2. Sense(other) = Sense(call)
          BY <2>2, <5>1
        <5> QED BY <3>2, <5>1, <5>2
      <4> QED BY <4>2, <4>3
    <3> QED BY <1>1, <2>7, <3>2, <3>3 DEF NotesOK
  <2>8. CASE (Begin(c) \/ Decide(c) \/ NeedsReview(c) \/ Complete(c)) /\ UNCHANGED ranVars
    <3>1. handlerRuns' = handlerRuns /\ produced' = produced
      BY <2>8 DEF Begin, Decide, NeedsReview, Complete, historyVars
    <3> QED BY <1>2, <2>8, <3>1 DEF ranVars
  <2> QED BY <1>3, <2>6, <2>7, <2>8 DEF Invocation
<1>4. ASSUME NEW c \in Callers, (\E call \in AskedCalls : CallMade(c, call)) \/ Vanish(c), UNCHANGED ranVars
      PROVE  NotesOK'
  <2>1. handlerRuns' = handlerRuns /\ produced' = produced
    BY <1>4 DEF CallMade, Call, Vanish, historyVars
  <2> QED BY <1>2, <1>4, <2>1 DEF ranVars
<1>5. ASSUME UNCHANGED <<vars, ranVars>> PROVE NotesOK'
  BY <1>2, <1>5 DEF vars, historyVars, ranVars
<1> QED BY <1>3, <1>4, <1>5, WhatCallsDo

-----------------------------------------------------------------------------
(* The invariant holds, and the composed system implements the ledger.     *)

\* It holds before anything was asked.
LEMMA StepInvInit == StepInit => StepInv
<1> SUFFICES ASSUME StepInit PROVE StepInv
  OBVIOUS
<1>1. LedgerInv
  BY LedgerInvInit DEF StepInit
<1>2. LoopTypes
  BY MaxRepliesAssumption DEF StepInit, LoopTypes
<1>3. Len(<<>>) = 0 /\ IsSeq(<<>>) /\ 1..0 = {}
  <2>1. Len(<<>>) = 0 /\ 1..0 = {}
    BY EmptySeq
  <2>2. <<>> = [i \in 1..0 |-> <<>>[i]]
    OBVIOUS
  <2> QED BY <2>1, <2>2 DEF IsSeq
<1>4. LoopsOK
  <2> SUFFICES ASSUME NEW l \in Loops PROVE LoopOK(l)
    BY DEF LoopsOK
  <2>1. lpc[l] = "away" /\ reply[l] = <<>> /\ at[l] = 1 /\ results[l] = <<>> /\ pc[l] = "idle"
    BY LoopsAssumption DEF StepInit, Init
  <2>2. AnswersTo(<<>>, <<>>, produced)
    BY <1>3 DEF AnswersTo
  <2>3. AnswersTo(reply[l], results[l], produced)
    BY <2>1, <2>2
  <2>4. at[l] = Len(results[l]) + 1 /\ at[l] <= Len(Requested(reply[l])) + 1
    BY <1>3, <2>1, NothingRequested
  <2> QED BY <2>1, <2>3, <2>4 DEF LoopOK
<1>5. JobsOK
  BY AsksAssumption DEF StepInit, Init, JobsOK
<1>6. StoreOK
  BY DEF StepInit, StoreOK
<1>7. NotesOK
  <2>1. ran \in [Senses -> Nat]
    BY DEF StepInit
  <2>2. ASSUME NEW call \in AskedCalls, Accepted(call)
        PROVE  ran[Sense(call)] = 0 /\ handlerRuns[invocation_key(call)] = 0
               /\ produced[invocation_key(call)] = {}
    <3>1. invocation_key(call) \in Keys /\ Sense(call) \in Senses
      BY <2>2, KeysAssumption DEF Senses
    <3> QED BY <3>1 DEF StepInit, Init
  <2> QED BY <2>1, <2>2 DEF NotesOK
<1> QED BY <1>1, <1>2, <1>4, <1>5, <1>6, <1>7 DEF StepInv

\* Every step preserves it.
LEMMA StepInvStep == StepInv /\ [StepNext]_stepVars => StepInv'
<1> SUFFICES ASSUME StepInv, [StepNext]_stepVars PROVE StepInv'
  OBVIOUS
<1>1. LedgerInv' /\ \A k \in Keys : produced[k] \subseteq produced'[k]
  BY LedgerGoesOn
<1>2. LoopTypes' /\ LoopsOK'
  <2>1. CASE StepOver \/ UNCHANGED stepVars
    <3>1. /\ lpc' = lpc /\ reply' = reply /\ at' = at /\ results' = results
          /\ replies' = replies /\ pc' = pc /\ job' = job
      BY <2>1 DEF StepOver, stepVars, loopVars, vars, callVars
    <3>2. ASSUME NEW l \in Loops PROVE LoopOK(l)'
      <4>1. LoopOK(l)
        BY DEF StepInv, LoopsOK
      <4> QED BY <1>1, <3>1, <4>1, LoopUndisturbed
    <3> QED BY <3>1, <3>2 DEF StepInv, LoopTypes, LoopsOK
  <2>2. ASSUME NEW l \in Loops, Driving(l) PROVE LoopTypes' /\ LoopsOK'
    BY <1>1, <2>2, DrivingOK
  <2>3. ASSUME NEW c \in Tasks, DeliverTask(c) \/ TaskStep(c) PROVE LoopTypes' /\ LoopsOK'
    BY <1>1, <2>3, TaskOK
  <2> QED BY <2>1, <2>2, <2>3 DEF StepNext
<1>3. JobsOK' /\ StoreOK' /\ NotesOK'
  BY <1>1, JobsStep, StoreStep, NotesStep
<1> QED BY <1>1, <1>2, <1>3 DEF StepInv

\* StepInv holds in every reachable state.
THEOREM StepInvariant == StepSpec => []StepInv
BY StepInvInit, StepInvStep, PTL DEF StepSpec

\* The loops and the worker processes together are callers of the ledger: what
\* ToolLedger promises of a key holds of the calls of a step.
THEOREM StepToolsImplementLedger == StepSpec => Spec
<1>1. StepInit => Init
  BY DEF StepInit
<1>2. StepInv /\ [StepNext]_stepVars => [Next]_vars
  BY StepLedgerStep
<1> QED BY <1>1, <1>2, StepInvariant, PTL DEF StepSpec, Spec

\* Within a step a tool declared UNSAFE is run at most once on the same
\* arguments.
THEOREM UnsafeRunsOncePerStep == StepSpec => []UnsafeOncePerStep
<1>1. StepInv => UnsafeOncePerStep
  <2> SUFFICES ASSUME StepInv, NEW call \in AskedCalls, Accepted(call),
                      Effect[invocation_key(call)] = "UNSAFE"
               PROVE  ran[Sense(call)] <= 1
    BY DEF UnsafeOncePerStep
  <2>1. invocation_key(call) \in Keys /\ Sense(call) \in Senses
    BY KeysAssumption DEF Senses
  <2>2. handlerRuns[invocation_key(call)] <= 1 /\ handlerRuns[invocation_key(call)] \in Nat
    BY <2>1 DEF StepInv, LedgerInv, UnsafeAtMostOnce, TypeOK
  <2>3. ran[Sense(call)] <= handlerRuns[invocation_key(call)] /\ ran[Sense(call)] \in Nat
    BY <2>1 DEF StepInv, NotesOK
  <2> QED BY <2>2, <2>3
<1> QED BY <1>1, StepInvariant, PTL

-----------------------------------------------------------------------------
(* What is told.                                                           *)

\* The answer b to the question q tells what happened to what `call` asks for.
TellsOf(q, b, call) ==
    /\ Sense(CallOf(q)) = Sense(call)
    /\ Accepted(CallOf(q)) <=> Accepted(call)
    /\ invocation_key(CallOf(q)) = invocation_key(call)
    /\ Value(b, "content") \in Outputs \cup {Detail}
    /\ Value(b, "is_error") \in BOOLEAN
    /\ Accepted(call) => Said(Value(b, "content"), Value(b, "is_error"))
                           \in produced[invocation_key(call)]
    /\ ~Accepted(call) => Value(b, "content") = Detail /\ Value(b, "is_error")

\* Each of these answers tells what happened.
Tells(blocks, answers) ==
    \A i \in DOMAIN answers : \E call \in AskedCalls :
        TellsOf(Requested(blocks)[i], answers[i], call)

\* An answer on its own.
LEMMA AnswerTells ==
    ASSUME NEW q, IsQuestion(q), NEW b, Answers(b, q, produced)
    PROVE  /\ TellsOf(q, b, CallOf(q)) /\ CallOf(q) \in AskedCalls
           /\ Value(b, "tool_use_id") = Value(q, "id")
           /\ ReadBack(b) = b
<1>1. CallOf(q) \in AskedCalls /\ Value(q, "id") \in Nat \X Nat
  BY QuestionCall
<1>2. PICK content \in Outputs \cup {Detail}, isError \in BOOLEAN :
        /\ b = ToolResultBlock(Value(q, "id"), content, isError)
        /\ Accepted(CallOf(q)) => Said(content, isError) \in produced[invocation_key(CallOf(q))]
        /\ ~Accepted(CallOf(q)) => content = Detail /\ isError
  BY DEF Answers
<1>3. PICK e : e = isError
  OBVIOUS
<1>4. b = ToolResultBlock(Value(q, "id"), content, e)
  BY <1>2, <1>3
<1>5. Value(b, "tool_use_id") = Value(q, "id") /\ Value(b, "content") = content /\ Value(b, "is_error") = e
  BY <1>4, ToolResultValues
<1>6. ReadBack(b) = b
  <2>1. Value(q, "id") # Null /\ content # Null /\ e # Null /\ "tool_result" # Null
    BY <1>1, <1>3, NullAssumption
  <2> QED BY <1>4, <2>1, ToolResultReadBack DEF ReadBack
<1> QED BY <1>1, <1>2, <1>3, <1>5, <1>6 DEF TellsOf

\* Read back, a question asks for the same.
LEMMA SameCallReadBack ==
    ASSUME NEW q, IsQuestion(q)
    PROVE  /\ Sense(CallOf(ReadBack(q))) = Sense(CallOf(q))
           /\ Accepted(CallOf(ReadBack(q))) <=> Accepted(CallOf(q))
           /\ invocation_key(CallOf(ReadBack(q))) = invocation_key(CallOf(q))
<1> DEFINE a == CallOf(q)
           c == CallOf(ReadBack(q))
<1>1. IsObject(a.args) /\ c = [name |-> a.name, args |-> SortFields(a.args, ShorterFirst)]
  BY QuestionReadBack
<1> HIDE DEF a, c
<1>2. c.name = a.name /\ Pairs(c.args) = Pairs(a.args)
  BY <1>1, SortedObject
<1>3. Sense(c) = Sense(a)
  BY <1>2 DEF Sense
<1>4. Accepted(c) <=> Accepted(a)
  BY <1>2, <1>3 DEF Accepted
<1>5. invocation_key(c) = invocation_key(a)
  <2>1. SortFields(c.args, Alphabetical) = SortFields(a.args, Alphabetical)
    BY <1>2 DEF SortFields, Fields, Value
  <2> QED BY <1>2, <2>1 DEF invocation_key
<1> QED BY <1>3, <1>4, <1>5 DEF a, c

\* A loop's results tell what happened.
LEMMA LoopTells ==
    ASSUME NEW l \in Loops, LoopOK(l)
    PROVE  Tells(reply[l], results[l])
<1> SUFFICES ASSUME NEW i \in DOMAIN results[l]
             PROVE  \E call \in AskedCalls : TellsOf(Requested(reply[l])[i], results[l][i], call)
  BY DEF Tells
<1> DEFINE q == Requested(reply[l])[i]
<1>1. /\ Len(results[l]) \in Nat /\ DOMAIN results[l] = 1..Len(results[l])
      /\ Answers(results[l][i], q, produced)
  BY DEF LoopOK, AnswersTo, IsSeq
<1>2. at[l] = Len(results[l]) + 1 /\ at[l] <= Len(Requested(reply[l])) + 1
  BY DEF LoopOK
<1>3. IsReply(reply[l])
  BY <1>1, <1>2, NothingRequested DEF LoopOK
<1>4. i \in 1..Len(Requested(reply[l]))
  BY <1>1, <1>2, <1>3, RequestedQuestions DEF IsSeq
<1>5. IsQuestion(q)
  BY <1>3, <1>4, RequestedQuestions
<1> QED BY <1>1, <1>5, AnswerTells

\* The step as it is loaded: its reply is the kept one read back, its results
\* are the kept ones.
LEMMA LoadedStep ==
    ASSUME StoreOK, stored # NoStep
    PROVE  /\ IsReply(kept[1])
           /\ Loaded[1] = FromColumn(ToColumn(kept[1]))
           /\ Loaded[2] = kept[2]
           /\ IsSeq(kept[2]) /\ Len(kept[2]) = Len(Requested(kept[1]))
           /\ \A i \in 1..Len(kept[2]) :
                /\ IsQuestion(Requested(kept[1])[i])
                /\ Answers(kept[2][i], Requested(kept[1])[i], produced)
                /\ Requested(Loaded[1])[i] = ReadBack(Requested(kept[1])[i])
<1> DEFINE answers == kept[2]
           back == FromColumn(ToColumn(answers))
<1>1. /\ stored = <<ToColumn(kept[1]), ToColumn(kept[2])>> /\ IsReply(kept[1])
      /\ Len(answers) = Len(Requested(kept[1])) /\ AnswersTo(kept[1], answers, produced)
  BY DEF StoreOK
<1>2. Loaded[1] = FromColumn(ToColumn(kept[1])) /\ Loaded[2] = back
  BY <1>1 DEF Loaded
<1>3. IsSeq(answers) /\ \A i \in 1..Len(answers) : Answers(answers[i], Requested(kept[1])[i], produced)
  BY <1>1 DEF AnswersTo
<1>4. \A i \in 1..Len(answers) : IsQuestion(Requested(kept[1])[i])
  BY <1>1, RequestedQuestions
<1>5. IsSeq(back) /\ Len(back) = Len(answers) /\ \A i \in 1..Len(answers) : back[i] = ReadBack(answers[i])
  BY <1>3, ColumnReadBack
<1>6. \A i \in 1..Len(answers) : back[i] = answers[i]
  BY <1>3, <1>4, <1>5, AnswerTells
<1> HIDE DEF back
<1>7. back = answers
  BY <1>3, <1>5, <1>6 DEF IsSeq
<1>8. \A i \in 1..Len(answers) : Requested(Loaded[1])[i] = ReadBack(Requested(kept[1])[i])
  BY <1>1, <1>2, ReplyReadBack
<1> QED BY <1>1, <1>2, <1>3, <1>4, <1>7, <1>8

\* The stored step tells what happened.
LEMMA StoreTells ==
    ASSUME StoreOK, stored # NoStep
    PROVE  Tells(Loaded[1], Loaded[2])
<1>1. Loaded[2] = kept[2] /\ DOMAIN kept[2] = 1..Len(kept[2])
  BY LoadedStep DEF IsSeq
<1> SUFFICES ASSUME NEW i \in 1..Len(kept[2])
             PROVE  \E call \in AskedCalls : TellsOf(Requested(Loaded[1])[i], kept[2][i], call)
  BY <1>1 DEF Tells
<1> DEFINE q == Requested(kept[1])[i]
<1>2. IsQuestion(q) /\ Answers(kept[2][i], q, produced) /\ Requested(Loaded[1])[i] = ReadBack(q)
  BY LoadedStep
<1> HIDE DEF q
<1>3. TellsOf(q, kept[2][i], CallOf(q)) /\ CallOf(q) \in AskedCalls
  BY <1>2, AnswerTells
<1>4. TellsOf(ReadBack(q), kept[2][i], CallOf(q))
  BY <1>2, <1>3, SameCallReadBack DEF TellsOf
<1> QED BY <1>2, <1>3, <1>4

\* What is told of an accepted call is something that a handler made of it, and
\* of any other that it was refused.
LEMMA TellsHappened ==
    ASSUME NotesOK, NEW blocks, NEW answers, Tells(blocks, answers)
    PROVE  Happened(blocks, answers)
<1> SUFFICES ASSUME NEW i \in DOMAIN answers
             PROVE  LET call == CallOf(Requested(blocks)[i])
                        says == Said(Value(answers[i], "content"), Value(answers[i], "is_error"))
                    IN  IF Accepted(call) THEN <<Sense(call), says>> \in made
                        ELSE says = [status |-> "failed", result |-> Detail]
  BY DEF Happened, Said
<1> DEFINE call == CallOf(Requested(blocks)[i])
           content == Value(answers[i], "content")
           isError == Value(answers[i], "is_error")
<1>1. PICK same \in AskedCalls : TellsOf(Requested(blocks)[i], answers[i], same)
  BY DEF Tells
<1>2. /\ Sense(call) = Sense(same) /\ (Accepted(call) <=> Accepted(same))
      /\ Accepted(same) => Said(content, isError) \in produced[invocation_key(same)]
      /\ ~Accepted(same) => content = Detail /\ isError
  BY <1>1 DEF TellsOf
<1> HIDE DEF call, content, isError
<1>3. CASE Accepted(call)
  <2>1. <<Sense(same), Said(content, isError)>> \in made
    BY <1>2, <1>3 DEF NotesOK
  <2> QED BY <1>2, <1>3, <2>1 DEF call, content, isError
<1>4. CASE ~Accepted(call)
  <2>1. Said(content, isError) = [status |-> "failed", result |-> Detail]
    BY <1>2, <1>4 DEF Said
  <2> QED BY <1>4, <2>1 DEF call, content, isError
<1> QED BY <1>3, <1>4

\* Neither the conversation a loop goes on with nor the stored one contains a
\* result that did not happen.
THEOREM ResultsAreReal == StepSpec => []ResultsHappened
<1>1. StepInv => ResultsHappened
  BY LoopTells, StoreTells, TellsHappened DEF StepInv, LoopsOK, ResultsHappened
<1> QED BY <1>1, StepInvariant, PTL

\* Two tellings of one UNSAFE call agree, because its handler has produced one
\* outcome at most.
LEMMA TellingsAgree ==
    ASSUME LedgerInv, NEW q, NEW b, NEW p, NEW d, NEW x \in AskedCalls, NEW y \in AskedCalls,
           TellsOf(q, b, x), TellsOf(p, d, y), Accepted(CallOf(q)),
           Sense(CallOf(q)) = Sense(CallOf(p)),
           Effect[invocation_key(CallOf(q))] = "UNSAFE"
    PROVE  Value(b, "content") = Value(d, "content") /\ Value(b, "is_error") = Value(d, "is_error")
<1>1. Sense(x) = Sense(y) /\ Accepted(x)
  BY DEF TellsOf
<1>2. invocation_key(x) = invocation_key(y) /\ Accepted(y)
  <2>1. invocation_key(x) = invocation_key(y)
    BY <1>1, KeyIsSense, AsksAssumption
  <2>2. x.name = y.name
    BY <1>1 DEF Sense
  <2> QED BY <1>1, <2>1, <2>2 DEF Accepted
<1>3. invocation_key(x) \in Keys /\ Effect[invocation_key(x)] = "UNSAFE"
  BY <1>1, KeysAssumption DEF TellsOf
<1>4. /\ Said(Value(b, "content"), Value(b, "is_error")) \in produced[invocation_key(x)]
      /\ Said(Value(d, "content"), Value(d, "is_error")) \in produced[invocation_key(x)]
      /\ Value(b, "is_error") \in BOOLEAN /\ Value(d, "is_error") \in BOOLEAN
  BY <1>1, <1>2 DEF TellsOf
<1>5. Said(Value(b, "content"), Value(b, "is_error")) = Said(Value(d, "content"), Value(d, "is_error"))
  BY <1>3, <1>4 DEF LedgerInv, UnsafeOneOutcome
<1>6. Value(b, "content") = Value(d, "content")
  BY <1>5 DEF Said
<1>7. (IF Value(b, "is_error") THEN "failed" ELSE "succeeded")
        = (IF Value(d, "is_error") THEN "failed" ELSE "succeeded")
  BY <1>5 DEF Said
<1>8. Value(b, "is_error") = Value(d, "is_error")
  BY <1>4, <1>7
<1> QED BY <1>6, <1>8

\* What a loop shows the model of an UNSAFE call is what every other loop and the
\* stored step show of it.
THEOREM UnsafeResultsNeverDiffer == StepSpec => []UnsafeResultsAgree
<1>1. StepInv => UnsafeResultsAgree
  <2> SUFFICES ASSUME StepInv PROVE UnsafeResultsAgree
    OBVIOUS
  <2> DEFINE told == {<<reply[l], results[l]>> : l \in Loops}
                       \cup (IF stored = NoStep THEN {} ELSE {Loaded})
  <2>1. ASSUME NEW s \in told PROVE Tells(s[1], s[2])
    <3>1. CASE \E l \in Loops : s = <<reply[l], results[l]>>
      <4>1. PICK l \in Loops : s = <<reply[l], results[l]>>
        BY <3>1
      <4>2. s[1] = reply[l] /\ s[2] = results[l]
        BY <4>1
      <4> QED BY <4>2, LoopTells DEF StepInv, LoopsOK
    <3>2. CASE stored # NoStep /\ s = Loaded
      BY <3>2, StoreTells DEF StepInv
    <3> QED BY <3>1, <3>2
  <2>2. ASSUME NEW s \in told, NEW t \in told, NEW i \in DOMAIN s[2], NEW j \in DOMAIN t[2],
               Accepted(CallOf(Requested(s[1])[i])),
               Sense(CallOf(Requested(s[1])[i])) = Sense(CallOf(Requested(t[1])[j])),
               Effect[invocation_key(CallOf(Requested(s[1])[i]))] = "UNSAFE"
        PROVE  /\ Value(s[2][i], "content") = Value(t[2][j], "content")
               /\ Value(s[2][i], "is_error") = Value(t[2][j], "is_error")
    <3>1. PICK x \in AskedCalls : TellsOf(Requested(s[1])[i], s[2][i], x)
      BY <2>1 DEF Tells
    <3>2. PICK y \in AskedCalls : TellsOf(Requested(t[1])[j], t[2][j], y)
      BY <2>1 DEF Tells
    <3>3. LedgerInv
      BY DEF StepInv
    <3> QED BY <2>2, <3>1, <3>2, <3>3, TellingsAgree
  <2> HIDE DEF told
  <2>3. \A s, t \in told : \A i \in DOMAIN s[2] : \A j \in DOMAIN t[2] :
          LET call == CallOf(Requested(s[1])[i])
              other == CallOf(Requested(t[1])[j])
          IN  Accepted(call) /\ Sense(call) = Sense(other)
                /\ Effect[invocation_key(call)] = "UNSAFE"
              => /\ Value(s[2][i], "content") = Value(t[2][j], "content")
                 /\ Value(s[2][i], "is_error") = Value(t[2][j], "is_error")
    BY <2>2
  <2> QED BY <2>3 DEF UnsafeResultsAgree, told
<1> QED BY <1>1, StepInvariant, PTL

\* Every tool_use block of the stored reply is answered by exactly one
\* tool_result, in order and under the id of its own question.
THEOREM EveryCallIsAnswered == StepSpec => []EveryCallAnswered
<1>1. StepInv => EveryCallAnswered
  <2> SUFFICES ASSUME StepInv, stored # NoStep
               PROVE  /\ Len(Loaded[2]) = Len(Requested(Loaded[1]))
                      /\ \A i \in DOMAIN Loaded[2] :
                           Value(Loaded[2][i], "tool_use_id") = Value(Requested(Loaded[1])[i], "id")
    BY DEF EveryCallAnswered
  <2>1. StoreOK
    BY DEF StepInv
  <2>2. /\ IsReply(kept[1]) /\ Loaded[1] = FromColumn(ToColumn(kept[1])) /\ Loaded[2] = kept[2]
        /\ Len(kept[2]) = Len(Requested(kept[1])) /\ DOMAIN kept[2] = 1..Len(kept[2])
    BY <2>1, LoadedStep DEF IsSeq
  <2>3. Len(Requested(Loaded[1])) = Len(Requested(kept[1]))
    BY <2>2, ReplyReadBack
  <2>4. ASSUME NEW i \in 1..Len(kept[2])
        PROVE  Value(kept[2][i], "tool_use_id") = Value(Requested(Loaded[1])[i], "id")
    <3>1. /\ IsQuestion(Requested(kept[1])[i])
          /\ Answers(kept[2][i], Requested(kept[1])[i], produced)
          /\ Requested(Loaded[1])[i] = ReadBack(Requested(kept[1])[i])
      BY <2>1, LoadedStep
    <3> QED BY <3>1, AnswerTells, QuestionReadBack
  <2> QED BY <2>2, <2>3, <2>4
<1> QED BY <1>1, StepInvariant, PTL

\* A resumed run reads back, as JSON, the blocks that the run which committed
\* them goes on with, the signature of a thinking block included.
THEOREM StepsReplayFaithfully == StepSpec => []ReplayFaithful
<1>1. StepInv => ReplayFaithful
  <2> SUFFICES ASSUME StepInv, stored # NoStep
               PROVE  /\ \A m \in {1, 2} :
                           /\ Len(Loaded[m]) = Len(kept[m])
                           /\ \A i \in DOMAIN kept[m] : SameJson(Loaded[m][i], kept[m][i])
                      /\ SameJson(Loaded[1][1], exclude_none(Thinking))
    BY DEF ReplayFaithful
  <2>1. IsReply(kept[1]) /\ Loaded[1] = FromColumn(ToColumn(kept[1])) /\ Loaded[2] = kept[2]
    BY LoadedStep DEF StepInv
  <2>2. /\ Len(Loaded[1]) = Len(kept[1])
        /\ \A i \in DOMAIN kept[1] : SameJson(Loaded[1][i], kept[1][i])
        /\ SameJson(Loaded[1][1], exclude_none(Thinking))
    BY <2>1, ReplyReadBack
  <2>3. \A i \in DOMAIN kept[2] : SameJson(Loaded[2][i], kept[2][i])
    BY <2>1 DEF SameJson
  <2> QED BY <2>1, <2>2, <2>3
<1> QED BY <1>1, StepInvariant, PTL

\* The types of the step, with nothing shown to the model but outputs and
\* explanations of refusals: NEEDS_REVIEW never reaches it.
THEOREM StepTypeCorrect == StepSpec => []StepTypeOK
<1>1. StepInv => StepTypeOK
  <2> SUFFICES ASSUME StepInv PROVE StepTypeOK
    OBVIOUS
  <2>1. ASSUME NEW l \in Loops
        PROVE  /\ at[l] \in 1..Len(Requested(reply[l])) + 1
               /\ \A i \in DOMAIN results[l] : Shown(results[l][i])
    <3>1. LoopOK(l)
      BY DEF StepInv, LoopsOK
    <3>2. Len(results[l]) \in Nat /\ at[l] = Len(results[l]) + 1 /\ at[l] <= Len(Requested(reply[l])) + 1
      BY <3>1 DEF LoopOK, AnswersTo, IsSeq
    <3>3. Len(Requested(reply[l])) \in Nat
      BY <3>1, NothingRequested, RequestedQuestions DEF LoopOK, IsSeq
    <3>4. at[l] \in 1..Len(Requested(reply[l])) + 1
      BY <3>2, <3>3
    <3>5. Tells(reply[l], results[l])
      BY <3>1, LoopTells
    <3>6. \A i \in DOMAIN results[l] : Shown(results[l][i])
      BY <3>5 DEF Tells, TellsOf, Shown
    <3> QED BY <3>4, <3>6
  <2>2. TypeOK /\ dispatched \subseteq AskedCalls /\ job \in [Callers -> AskedCalls]
    BY DEF StepInv, LedgerInv, JobsOK
  <2>3. lpc \in [Loops -> {"away", "tools", "enqueue", "poll", "done", "failed"}]
        /\ replies \in 0..MaxReplies
    BY DEF StepInv, LoopTypes
  <2> QED BY <2>1, <2>2, <2>3 DEF StepTypeOK
<1> QED BY <1>1, StepInvariant, PTL
=============================================================================
