--------------------------- MODULE RunIntakeProofs ---------------------------
(***************************************************************************)
(* Creation by idempotency key and the leases of many runs, for any number *)
(* of requests, keys, workers and crashes, and for either store.           *)
(***************************************************************************)
EXTENDS RunIntake, FiniteSetTheorems, WellFoundedInduction, TLAPS

-----------------------------------------------------------------------------
(* How a step may change the rows.                                         *)

\* A row that is inserted keeps what its request asked for, and is the only one
\* of its key if no other row had it.
LEMMA RowInserted ==
    ASSUME RowsAsCreated, NEW r \in Requests, r \notin Ids, WithKey(Key[r]) = {},
           runs' = [id \in Ids \cup {r} |-> IF id = r THEN NewRow(r) ELSE runs[id]]
    PROVE  /\ RowsAsCreated'
           /\ Ids' = Ids \cup {r} /\ runs'[r] = NewRow(r)
           /\ \A id \in Ids : runs'[id] = runs[id]
<1>1. Ids' = Ids \cup {r} /\ runs'[r] = NewRow(r) /\ \A id \in Ids : runs'[id] = runs[id]
  BY DEF Ids
<1>2. Cardinality(Ids) \in Nat /\ IsFiniteSet(Ids \cup {r})
  BY FS_CardinalityType, FS_AddElement DEF RowsAsCreated
<1>3. NewRow(r) \in Rows
  BY <1>2 DEF NewRow, Rows, Resumable
<1>4. runs' \in [Ids' -> Rows]
  <2>1. \A id \in Ids \cup {r} : (IF id = r THEN NewRow(r) ELSE runs[id]) \in Rows
    BY <1>3 DEF RowsAsCreated
  <2> QED BY <1>1, <2>1
<1>5. \A id \in Ids' :
         /\ runs'[id].key = Key[id] /\ runs'[id].admission = Admission[id]
         /\ runs'[id].live => runs'[id].lease_owner # Nobody
  <2>1. runs'[r].key = Key[r] /\ runs'[r].admission = Admission[r] /\ ~runs'[r].live
    BY <1>1 DEF NewRow
  <2> QED BY <1>1, <2>1 DEF RowsAsCreated
<1>6. \A a, b \in Ids' : Key[a] = Key[b] /\ Key[a] # NoKey => a = b
  BY <1>1 DEF RowsAsCreated, WithKey
<1>7. RowsAsCreated'
  BY <1>1, <1>2, <1>4, <1>5, <1>6 DEF RowsAsCreated
<1> QED BY <1>1, <1>7

\* A step that rewrites a row but not what it was created with.
LEMMA RowRewritten ==
    ASSUME RowsAsCreated, NEW id \in Ids, NEW row \in Rows,
           row.key = runs[id].key, row.admission = runs[id].admission,
           row.live => row.lease_owner # Nobody,
           runs' = [runs EXCEPT ![id] = row]
    PROVE  /\ RowsAsCreated' /\ Ids' = Ids /\ runs'[id] = row
           /\ \A i \in Ids : runs'[i].key = runs[i].key
           /\ \A i \in Ids \ {id} : runs'[i] = runs[i]
<1>1. Ids' = Ids
  BY DEF Ids, RowsAsCreated
<1>2. runs'[id] = row /\ \A i \in Ids \ {id} : runs'[i] = runs[i]
  BY DEF Ids, RowsAsCreated
<1>3. runs' \in [Ids -> Rows]
  BY <1>1 DEF RowsAsCreated
<1>4. RowsAsCreated'
  BY <1>1, <1>2, <1>3 DEF RowsAsCreated
<1> QED BY <1>1, <1>2, <1>4

\* A step that changes a row's lease and status leaves what it was created with.
LEMMA LeaseChanged ==
    ASSUME RowsAsCreated, NEW id \in Ids,
           NEW o \in Workers \cup {Nobody}, NEW l \in BOOLEAN, l => o # Nobody,
           NEW s \in Resumable \cup {"COMPLETED"},
           runs' = [runs EXCEPT ![id].lease_owner = o, ![id].live = l, ![id].status = s]
    PROVE  /\ RowsAsCreated' /\ Ids' = Ids
           /\ \A i \in Ids : runs'[i].key = runs[i].key
           /\ \A i \in Ids \ {id} : runs'[i] = runs[i]
           /\ runs'[id].lease_owner = o /\ runs'[id].live = l /\ runs'[id].status = s
<1> DEFINE row == [runs[id] EXCEPT !.lease_owner = o, !.live = l, !.status = s]
<1>1. runs' = [runs EXCEPT ![id] = row]
  BY DEF Ids, RowsAsCreated
<1>2. runs[id] \in Rows
  BY DEF RowsAsCreated
<1>3. /\ row \in Rows /\ row.key = runs[id].key /\ row.admission = runs[id].admission
      /\ row.lease_owner = o /\ row.live = l /\ row.status = s
  BY <1>2 DEF Rows
<1> HIDE DEF row
<1>4. row.live => row.lease_owner # Nobody
  BY <1>3
<1>5. /\ RowsAsCreated' /\ Ids' = Ids /\ runs'[id] = row
      /\ \A i \in Ids : runs'[i].key = runs[i].key
      /\ \A i \in Ids \ {id} : runs'[i] = runs[i]
  BY <1>1, <1>3, <1>4, RowRewritten
<1> QED BY <1>3, <1>5

-----------------------------------------------------------------------------
(* create.                                                                 *)

\* A record is of a row, with the row's limits.
LEMMA RecordOfRow ==
    ASSUME RowsAsCreated, NEW id \in Ids, NEW r
    PROVE  /\ ToRecord(id, r) \in Records
           /\ ToRecord(id, r).id = id
           /\ ToRecord(id, r).admission = Admission[id]
  BY DEF RowsAsCreated, ToRecord, Records

\* A creation that adds a row, or none.
CreationOf(r) ==
    \/ UNCHANGED runs
    \/ /\ runs' = [id \in Ids \cup {r} |-> IF id = r THEN NewRow(r) ELSE runs[id]]
       /\ r \notin Ids /\ WithKey(Key[r]) = {}

\* What the calls other than r rely on survives a creation by r.
LEMMA CreationRows ==
    ASSUME RowsAsCreated, NEW r \in Requests, CreationOf(r)
    PROVE  /\ RowsAsCreated'
           /\ Ids \subseteq Ids' /\ Ids' \subseteq Ids \cup {r}
           /\ \A id \in Ids : runs'[id] = runs[id]
           /\ \A k : WithKey(k) \subseteq {id \in Ids' : k # NoKey /\ runs'[id].key = k}
<1>1. CASE UNCHANGED runs
  BY <1>1 DEF RowsAsCreated, Ids, WithKey
<1>2. CASE ~UNCHANGED runs
  BY <1>2, RowInserted DEF CreationOf, WithKey
<1> QED BY <1>1, <1>2

\* Every step of create keeps rows, calls and answers in line.
LEMMA CreateStep ==
    ASSUME IntakeInv, NEW r \in Requests, Create(r)
    PROVE  RowsAsCreated' /\ CreationsFollowRows' /\ CreationOf(r)
<1> USE DEF IntakeInv
<1> DEFINE Sound(q) ==
      /\ cpc'[q] = "insert" => q \notin Ids'
      /\ cpc'[q] = "load" => q \in Ids'
      /\ cpc'[q] = "lookup" =>
           Key[q] # NoKey /\ (q \in Orphans \/ WithKey(Key[q])' # {})
      /\ cpc'[q] = "failed" => q \in Orphans
      /\ cpc'[q] = "done" =>
           /\ answer'[q].id \in Ids'
           /\ answer'[q].admission = Admission[answer'[q].id]
           /\ IF Key[q] = NoKey THEN answer'[q].id = q ELSE Key[answer'[q].id] = Key[q]
<1>1. cpc[r] = "insert" => r \notin Ids
  BY DEF CreationsFollowRows
<1>2. CreationOf(r)
  BY <1>1 DEF Create, Insert, FindByKey, LoadCreated, CreateInMemory, CreationOf, Rejects
<1>3. /\ RowsAsCreated'
      /\ Ids \subseteq Ids' /\ Ids' \subseteq Ids \cup {r}
      /\ \A id \in Ids : runs'[id] = runs[id]
      /\ \A k : WithKey(k) \subseteq {id \in Ids' : k # NoKey /\ runs'[id].key = k}
  BY <1>2, CreationRows
<1>4. \A q : WithKey(Key[q])' = {id \in Ids' : Key[q] # NoKey /\ runs'[id].key = Key[q]}
  BY DEF WithKey
<1>5. \E c \in {"insert", "lookup", "load", "done", "failed"},
         a \in Records \cup {NoRecord} :
         /\ cpc' = [cpc EXCEPT ![r] = c]
         /\ answer' = [answer EXCEPT ![r] = a]
  <2>0. answer \in [Requests -> Records \cup {NoRecord}] /\ answer = [answer EXCEPT ![r] = @]
    BY DEF CreationsFollowRows
  <2>1. CASE Insert(r)
    BY <2>0, <2>1 DEF Insert
  <2>2. CASE FindByKey(r)
    <3>1. CASE \E id \in WithKey(Key[r]) : Answered(r, id)
      BY <3>1, RecordOfRow DEF Answered, WithKey
    <3>2. CASE UNCHANGED answer
      BY <2>0, <2>2, <3>2 DEF FindByKey, Answered
    <3> QED BY <2>2, <3>1, <3>2 DEF FindByKey
  <2>3. CASE LoadCreated(r)
    BY <2>3, RecordOfRow DEF LoadCreated, Answered, CreationsFollowRows
  <2>4. CASE CreateInMemory(r)
    <3>1. CASE \E id \in WithKey(Key[r]) : Answered(r, id)
      BY <3>1, RecordOfRow DEF Answered, WithKey
    <3>2. [id |-> r, admission |-> Admission[r], pacing |-> Pacing[r]] \in Records
      BY DEF Records
    <3> QED BY <2>4, <3>1, <3>2 DEF CreateInMemory
  <2> QED BY <2>1, <2>2, <2>3, <2>4 DEF Create
<1>6. /\ cpc' \in [Requests -> {"insert", "lookup", "load", "done", "failed"}]
      /\ answer' \in [Requests -> Records \cup {NoRecord}]
      /\ \A q \in Requests \ {r} : cpc'[q] = cpc[q] /\ answer'[q] = answer[q]
  BY <1>5 DEF CreationsFollowRows
<1>7. ASSUME NEW q \in Requests \ {r} PROVE Sound(q)
  BY <1>3, <1>4, <1>6 DEF CreationsFollowRows
<1>8. ASSUME NEW id \in Ids, Answered(r, id),
             IF Key[r] = NoKey THEN id = r ELSE Key[id] = Key[r]
      PROVE  Sound(r)
  <2>1. cpc'[r] = "done" /\ answer'[r].id = id /\ answer'[r].admission = Admission[id]
    BY <1>8, RecordOfRow DEF Answered, CreationsFollowRows
  <2> QED BY <1>3, <1>8, <2>1
<1>9. Sound(r)
  <2>1. CASE Insert(r)
    <3>1. CASE ~Rejects(r)
      BY <2>1, <3>1 DEF Insert, Ids, CreationsFollowRows
    <3>2. CASE Rejects(r)
      <4>1. cpc'[r] = (IF Key[r] = NoKey THEN "failed" ELSE "lookup")
        BY <2>1, <3>2 DEF Insert, CreationsFollowRows
      <4>2. WithKey(Key[r]) # {} => Key[r] # NoKey
        BY DEF WithKey
      <4> QED BY <1>3, <1>4, <3>2, <4>1, <4>2 DEF Rejects
    <3> QED BY <3>1, <3>2
  <2>2. ASSUME NEW id \in WithKey(Key[r]), Answered(r, id) PROVE Sound(r)
    <3>1. id \in Ids /\ Key[r] # NoKey /\ Key[id] = Key[r]
      BY <2>2 DEF WithKey, RowsAsCreated
    <3> QED BY <1>8, <2>2, <3>1
  <2>3. CASE FindByKey(r)
    <3>1. CASE WithKey(Key[r]) = {}
      BY <2>3, <3>1 DEF FindByKey, CreationsFollowRows
    <3> QED BY <2>2, <2>3, <3>1 DEF FindByKey
  <2>4. CASE LoadCreated(r)
    <3>1. r \in Ids
      BY <2>4 DEF LoadCreated, CreationsFollowRows
    <3> QED BY <1>8, <2>4, <3>1 DEF LoadCreated
  <2>5. CASE CreateInMemory(r)
    <3>1. CASE WithKey(Key[r]) = {}
      <4>1. /\ cpc'[r] = "done" /\ r \in Ids'
            /\ answer'[r] = [id |-> r, admission |-> Admission[r], pacing |-> Pacing[r]]
        BY <2>5, <3>1 DEF CreateInMemory, CreationsFollowRows, Ids
      <4> QED BY <4>1
    <3> QED BY <2>2, <2>5, <3>1 DEF CreateInMemory
  <2> QED BY <2>1, <2>3, <2>4, <2>5 DEF Create
<1>10. \A q \in Requests : Sound(q)
  BY <1>7, <1>9
<1>11. CreationsFollowRows'
  BY <1>6, <1>10 DEF CreationsFollowRows
<1> QED BY <1>2, <1>3, <1>11

-----------------------------------------------------------------------------
(* Leases.                                                                 *)

\* ORDER BY created_at LIMIT 1 returns a row of the result.
LEMMA OldestOf ==
    ASSUME RowsAsCreated, NEW S, S \subseteq Ids, S # {}
    PROVE  Oldest(S) \in S
<1> DEFINE Ages == {runs[id].created : id \in S}
           Less == {p \in Nat \X Nat : p[1] < p[2]}
<1>1. Ages \subseteq Nat /\ Ages # {}
  BY DEF RowsAsCreated, Rows
<1>2. IsWellFoundedOn(Less, Nat)
  BY NatLessThanWellFounded DEF OpToRel
<1>3. PICK x \in Ages : \A y \in Ages : ~(<<y, x>> \in Less)
  <2> HIDE DEF Ages, Less
  <2> QED BY ONLY <1>1, <1>2, WFMin
<1>4. \A y \in Ages : x <= y
  <2> SUFFICES ASSUME NEW y \in Ages PROVE x <= y
    OBVIOUS
  <2>1. x \in Nat /\ y \in Nat
    BY <1>1
  <2>2. y < x => <<y, x>> \in Less
    BY <2>1
  <2> QED BY <1>3, <2>1, <2>2
<1>5. \E id \in S : \A other \in S : runs[id].created <= runs[other].created
  BY <1>4
<1> QED BY <1>5 DEF Oldest

\* Steps of workers and leases change nothing a creation relies on.
LEMMA CreationsUndisturbed ==
    ASSUME RowsAsCreated, CreationsFollowRows, UNCHANGED createVars, Ids' = Ids,
           \A i \in Ids : runs'[i].key = runs[i].key
    PROVE  CreationsFollowRows'
<1>1. cpc' = cpc /\ answer' = answer
  BY DEF createVars
<1>2. \A r : WithKey(Key[r])' = WithKey(Key[r])
  BY DEF WithKey
<1> QED BY <1>1, <1>2 DEF CreationsFollowRows

\* A creation touches no row that a worker is about.
LEMMA CreateLeases ==
    ASSUME IntakeInv, NEW r \in Requests, Create(r)
    PROVE  LeasesFollowWorkers'
<1> USE DEF IntakeInv
<1>1. UNCHANGED <<backend, workerVars>>
  BY DEF Create, Insert, FindByKey, LoadCreated, CreateInMemory
<1>2. wpc' = wpc /\ at' = at /\ record' = record /\ backend' = backend
  BY <1>1 DEF workerVars
<1>3. Ids \subseteq Ids' /\ \A id \in Ids : runs'[id] = runs[id]
  BY CreateStep, CreationRows
<1> QED BY <1>2, <1>3 DEF LeasesFollowWorkers, Holds, Reclaimable

\* A lease is taken only from a row nobody holds or has selected, but its taker.
LEMMA LeaseTaken ==
    ASSUME IntakeInv, NEW w \in Workers, NEW id \in Ids,
           Reclaimable(id) \/ runs[id].lease_owner = w,
           \A v \in Workers : wpc[v] = "selected" /\ at[v] = id => v = w,
           Leased(id, w), NEW where \in {"scanned", "load"}, WorkerAt(w, where, id),
           UNCHANGED <<backend, createVars, record>>
    PROVE  RowsAsCreated' /\ CreationsFollowRows' /\ LeasesFollowWorkers'
<1> USE DEF IntakeInv
<1>1. /\ RowsAsCreated' /\ Ids' = Ids
      /\ \A i \in Ids : runs'[i].key = runs[i].key
      /\ \A i \in Ids \ {id} : runs'[i] = runs[i]
      /\ runs'[id].lease_owner = w /\ runs'[id].live
  <2>1. w # Nobody /\ w \in Workers \cup {Nobody} /\ "RUNNING" \in Resumable \cup {"COMPLETED"}
    BY WorkerAssumption DEF Resumable
  <2>2. runs' = [runs EXCEPT ![id].lease_owner = w, ![id].live = TRUE,
                             ![id].status = "RUNNING"]
    BY DEF Leased
  <2> QED BY <2>1, <2>2, LeaseChanged
<1>2. CreationsFollowRows'
  BY <1>1, CreationsUndisturbed
<1>3. /\ wpc' = [wpc EXCEPT ![w] = where] /\ at' = [at EXCEPT ![w] = id]
      /\ record' = record /\ backend' = backend
  BY DEF WorkerAt
<1>4. \A v \in Workers \ {w} : wpc[v] # "idle" => at[v] # id
  <2> SUFFICES ASSUME NEW v \in Workers \ {w}, wpc[v] # "idle", at[v] = id PROVE FALSE
    OBVIOUS
  <2>1. wpc[v] # "selected"
    OBVIOUS
  <2>2. Holds(v)
    BY <2>1 DEF Holds, LeasesFollowWorkers
  <2>3. runs[id].lease_owner = v /\ runs[id].live
    BY <2>2 DEF LeasesFollowWorkers
  <2> QED BY <2>3, WorkerAssumption DEF Reclaimable
<1>5. id \in Requests
  BY DEF RowsAsCreated
<1>6. /\ wpc' \in [Workers -> {"idle", "selected", "scanned", "load", "driving"}]
      /\ at' \in [Workers -> Requests \cup {Nobody}]
      /\ record' \in [Workers -> Records \cup {NoRecord}]
  BY <1>3, <1>5 DEF LeasesFollowWorkers
<1>7. wpc'[w] = where /\ at'[w] = id
  BY <1>3 DEF LeasesFollowWorkers
<1>8. \A v \in Workers \ {w} : wpc'[v] = wpc[v] /\ at'[v] = at[v] /\ record'[v] = record[v]
  BY <1>3 DEF LeasesFollowWorkers
<1> DEFINE Sound(v) ==
      /\ wpc'[v] # "idle" => at'[v] \in Ids'
      /\ Holds(v)' => runs'[at'[v]].lease_owner = v /\ runs'[at'[v]].live
      /\ wpc'[v] = "driving" => record'[v].admission = Admission[at'[v]]
      /\ wpc'[v] = "selected" =>
           /\ backend' = "postgres" /\ Reclaimable(at[v])'
           /\ \A u \in Workers : wpc'[u] = "selected" /\ at'[u] = at'[v] => u = v
<1>9. Sound(w)
  BY <1>1, <1>7
<1>10. ASSUME NEW v \in Workers \ {w} PROVE Sound(v)
  <2>1. CASE wpc[v] = "idle"
    BY <1>8, <2>1 DEF Holds
  <2>2. CASE wpc[v] # "idle"
    <3>1. at[v] \in Ids \ {id} /\ at'[v] = at[v] /\ runs'[at[v]] = runs[at[v]]
      BY <1>1, <1>4, <1>8, <2>2 DEF LeasesFollowWorkers
    <3>2. Holds(v)' <=> Holds(v)
      BY <1>8 DEF Holds
    <3>3. Reclaimable(at[v])' <=> Reclaimable(at[v])
      BY <3>1 DEF Reclaimable
    <3>4. wpc'[v] = "selected" =>
            \A u \in Workers : wpc'[u] = "selected" /\ at'[u] = at'[v] => u = v
      BY <1>7, <1>8, <3>1 DEF LeasesFollowWorkers
    <3> QED BY <1>1, <1>3, <1>8, <3>1, <3>2, <3>3, <3>4 DEF LeasesFollowWorkers
  <2> QED BY <2>1, <2>2
<1>11. LeasesFollowWorkers'
  BY <1>6, <1>9, <1>10 DEF LeasesFollowWorkers
<1> QED BY <1>1, <1>2, <1>11

\* The three ways to be given a lease.
LEMMA TakeStep ==
    ASSUME IntakeInv, NEW w \in Workers,
           \/ ScanUpdate(w) \/ ScanInMemory(w) \/ RunScanned(w)
           \/ \E id \in Ids : RunGiven(w, id)
    PROVE  RowsAsCreated' /\ CreationsFollowRows' /\ LeasesFollowWorkers'
<1> USE DEF IntakeInv
<1>1. CASE ScanUpdate(w)
  <2>1. at[w] \in Ids /\ Reclaimable(at[w])
    BY <1>1 DEF ScanUpdate, LeasesFollowWorkers
  <2>2. \A v \in Workers : wpc[v] = "selected" /\ at[v] = at[w] => v = w
    BY <1>1 DEF ScanUpdate, LeasesFollowWorkers
  <2>3. /\ Leased(at[w], w) /\ WorkerAt(w, "scanned", at[w])
        /\ UNCHANGED <<backend, createVars, record>>
    BY <1>1 DEF ScanUpdate
  <2> QED BY <2>1, <2>2, <2>3, LeaseTaken
<1>2. CASE ScanInMemory(w)
  <2> DEFINE free == {id \in Ids : runs[id].status \in Resumable /\ ~runs[id].live}
  <2>1. Oldest(free) \in free
    BY <1>2, OldestOf DEF ScanInMemory
  <2>2. Oldest(free) \in Ids /\ Reclaimable(Oldest(free))
    BY <2>1 DEF Reclaimable
  <2>3. \A v \in Workers : wpc[v] # "selected"
    BY <1>2 DEF ScanInMemory, LeasesFollowWorkers
  <2>4. /\ Leased(Oldest(free), w) /\ WorkerAt(w, "scanned", Oldest(free))
        /\ UNCHANGED <<backend, createVars, record>>
    BY <1>2 DEF ScanInMemory
  <2> HIDE DEF free
  <2> QED BY <2>2, <2>3, <2>4, LeaseTaken
<1>3. ASSUME NEW id \in Ids, Run(w, id)
      PROVE  RowsAsCreated' /\ CreationsFollowRows' /\ LeasesFollowWorkers'
  <2>1. Reclaimable(id) \/ runs[id].lease_owner = w
    BY <1>3 DEF Run, Grants, Reclaimable
  <2>2. \A v \in Workers : wpc[v] = "selected" /\ at[v] = id => v = w
    BY <1>3 DEF Run, Locked
  <2>3. /\ Leased(id, w) /\ WorkerAt(w, "load", id)
        /\ UNCHANGED <<backend, createVars, record>>
    BY <1>3 DEF Run
  <2> QED BY <2>1, <2>2, <2>3, LeaseTaken
<1>4. CASE RunScanned(w)
  <2>1. at[w] \in Ids
    BY <1>4 DEF RunScanned, LeasesFollowWorkers
  <2> QED BY <1>3, <1>4, <2>1 DEF RunScanned
<1> QED BY <1>1, <1>2, <1>3, <1>4 DEF RunGiven

\* A worker that forgets its run relies on nothing; if it had the lease it may
\* give it back, since no other worker holds or has selected that row.
LEMMA StopStep ==
    ASSUME IntakeInv, NEW w \in Workers, Finish(w) \/ Release(w)
    PROVE  RowsAsCreated' /\ CreationsFollowRows' /\ LeasesFollowWorkers'
<1> USE DEF IntakeInv
<1>1. PICK s \in Resumable \cup {"COMPLETED"} : Stop(w, s)
  BY DEF Finish, Release, Resumable
<1>2. at[w] \in Ids /\ runs[at[w]].lease_owner = w /\ runs[at[w]].live
  BY <1>1 DEF Stop, LeasesFollowWorkers, Holds
<1>3. /\ RowsAsCreated' /\ Ids' = Ids
      /\ \A i \in Ids : runs'[i].key = runs[i].key
      /\ \A i \in Ids \ {at[w]} : runs'[i] = runs[i]
  <2>1. runs' = [runs EXCEPT ![at[w]].lease_owner = Nobody, ![at[w]].live = FALSE,
                             ![at[w]].status = s]
    BY <1>1 DEF Stop
  <2> QED BY <1>2, <2>1, LeaseChanged
<1>4. CreationsFollowRows'
  BY <1>1, <1>3, CreationsUndisturbed DEF Stop
<1>5. /\ wpc' = [wpc EXCEPT ![w] = "idle"] /\ at' = [at EXCEPT ![w] = Nobody]
      /\ record' = [record EXCEPT ![w] = NoRecord] /\ backend' = backend
  BY <1>1 DEF Stop, WorkerGone, WorkerAt
<1>6. \A v \in Workers \ {w} : wpc[v] # "idle" => at[v] \in Ids \ {at[w]}
  <2> SUFFICES ASSUME NEW v \in Workers \ {w}, wpc[v] # "idle", at[v] = at[w] PROVE FALSE
    BY DEF LeasesFollowWorkers
  <2>1. wpc[v] # "selected"
    BY <1>2, WorkerAssumption DEF LeasesFollowWorkers, Reclaimable
  <2>2. Holds(v)
    BY <2>1 DEF Holds, LeasesFollowWorkers
  <2> QED BY <1>2, <2>2 DEF LeasesFollowWorkers
<1>7. LeasesFollowWorkers'
  BY <1>3, <1>5, <1>6 DEF LeasesFollowWorkers, Holds, Reclaimable
<1> QED BY <1>3, <1>4, <1>7

\* Steps of a worker that change no row.
LEMMA MoveStep ==
    ASSUME IntakeInv, NEW w \in Workers,
           ScanSelect(w) \/ RunRefused(w) \/ LoadClaimed(w) \/ Crash(w)
    PROVE  RowsAsCreated' /\ CreationsFollowRows' /\ LeasesFollowWorkers'
<1> USE DEF IntakeInv
<1>1. runs' = runs /\ backend' = backend /\ UNCHANGED createVars
  BY DEF ScanSelect, RunRefused, LoadClaimed, Crash
<1>2. RowsAsCreated' /\ Ids' = Ids
  BY <1>1 DEF RowsAsCreated, Ids
<1>3. CreationsFollowRows'
  BY <1>1, <1>2, CreationsUndisturbed
<1>4. CASE ScanSelect(w)
  <2>1. Oldest(Candidates) \in Candidates
    BY <1>4, OldestOf DEF ScanSelect, Candidates
  <2> DEFINE id == Oldest(Candidates)
  <2>2. id \in Ids /\ Reclaimable(id) /\ ~Locked(id) /\ backend = "postgres"
    BY <1>4, <2>1 DEF Candidates, ScanSelect
  <2>3. wpc' = [wpc EXCEPT ![w] = "selected"] /\ at' = [at EXCEPT ![w] = id]
        /\ record' = record
    BY <1>4 DEF ScanSelect, WorkerAt
  <2>4. id \in Requests
    BY <2>2 DEF RowsAsCreated
  <2> HIDE DEF id
  <2>5. LeasesFollowWorkers'
    BY <1>1, <1>2, <2>2, <2>3, <2>4 DEF LeasesFollowWorkers, Holds, Reclaimable, Locked
  <2> QED BY <1>2, <1>3, <2>5
<1>5. CASE RunRefused(w) \/ Crash(w)
  <2>1. /\ wpc' = [wpc EXCEPT ![w] = "idle"] /\ at' = [at EXCEPT ![w] = Nobody]
        /\ record' = [record EXCEPT ![w] = NoRecord]
    BY <1>5 DEF RunRefused, Crash, WorkerGone, WorkerAt
  <2>2. LeasesFollowWorkers'
    BY <1>1, <1>2, <2>1 DEF LeasesFollowWorkers, Holds, Reclaimable
  <2> QED BY <1>2, <1>3, <2>2
<1>6. CASE LoadClaimed(w)
  <2>1. wpc[w] = "load" /\ at[w] \in Ids
    BY <1>6 DEF LoadClaimed, LeasesFollowWorkers
  <2>2. /\ wpc' = [wpc EXCEPT ![w] = "driving"] /\ at' = [at EXCEPT ![w] = at[w]]
        /\ record' = [record EXCEPT ![w] = ToRecord(at[w], at[w])]
    BY <1>6 DEF LoadClaimed, WorkerAt
  <2>3. /\ ToRecord(at[w], at[w]) \in Records
        /\ ToRecord(at[w], at[w]).admission = Admission[at[w]]
    BY <2>1, RecordOfRow
  <2>4. LeasesFollowWorkers'
    BY <1>1, <1>2, <2>1, <2>2, <2>3 DEF LeasesFollowWorkers, Holds, Reclaimable
  <2> QED BY <1>2, <1>3, <2>4
<1> QED BY <1>4, <1>5, <1>6

\* A lease runs out only when its owner is not at the run, so nobody holds it;
\* a row that is selected only becomes more free.
LEMMA ExpiryStep ==
    ASSUME IntakeInv, NEW id \in Ids, LeaseExpires(id)
    PROVE  RowsAsCreated' /\ CreationsFollowRows' /\ LeasesFollowWorkers'
<1> USE DEF IntakeInv
<1> DEFINE row == [runs[id] EXCEPT !.live = FALSE]
<1>1. runs' = [runs EXCEPT ![id] = row]
  BY DEF LeaseExpires
<1>2. /\ RowsAsCreated' /\ Ids' = Ids
      /\ \A i \in Ids : runs'[i].key = runs[i].key
      /\ \A i \in Ids \ {id} : runs'[i] = runs[i]
      /\ runs'[id].live = FALSE /\ runs'[id].status = runs[id].status
  <2>1. runs[id] \in Rows
    BY DEF RowsAsCreated
  <2>2. /\ row \in Rows /\ row.key = runs[id].key /\ row.admission = runs[id].admission
        /\ row.live = FALSE /\ row.status = runs[id].status
    BY <2>1 DEF Rows
  <2> HIDE DEF row
  <2>3. /\ RowsAsCreated' /\ Ids' = Ids /\ runs'[id] = row
        /\ \A i \in Ids : runs'[i].key = runs[i].key
        /\ \A i \in Ids \ {id} : runs'[i] = runs[i]
    BY <1>1, <2>2, RowRewritten
  <2> QED BY <2>2, <2>3
<1>3. UNCHANGED <<backend, createVars, wpc, at, record>>
  BY DEF LeaseExpires, workerVars
<1>4. CreationsFollowRows'
  BY <1>2, <1>3, CreationsUndisturbed
<1>5. \A w \in Workers : Holds(w) => at[w] # id
  BY DEF LeaseExpires, LeasesFollowWorkers
<1>6. LeasesFollowWorkers'
  BY <1>2, <1>3, <1>5 DEF LeasesFollowWorkers, Holds, Reclaimable
<1> QED BY <1>2, <1>4, <1>6

-----------------------------------------------------------------------------
(* The invariant.                                                          *)

\* Every step keeps rows, creations and leases in line.
LEMMA IntakeStep ==
    ASSUME IntakeInv, [Next]_vars
    PROVE  IntakeInv'
<1>1. backend' \in Backends /\ faults' \in 0..MaxFaults
  <2>1. CASE \E w \in Workers : Crash(w)
    BY <2>1, MaxFaultsAssumption DEF Crash, IntakeInv
  <2>2. CASE ~\E w \in Workers : Crash(w)
    <3>1. UNCHANGED <<backend, faults>>
      BY <2>2 DEF Next, Create, Insert, FindByKey, LoadCreated, CreateInMemory, Scan,
         ScanSelect, ScanInMemory, RunGiven, Run, Proceed, ScanUpdate, RunScanned,
         RunRefused, LoadClaimed, Finish, Release, Stop, LeaseExpires, Idle, vars
    <3> QED BY <3>1 DEF IntakeInv
  <2> QED BY <2>1, <2>2
<1>2. RowsAsCreated' /\ CreationsFollowRows' /\ LeasesFollowWorkers'
  <2>1. ASSUME NEW r \in Requests, Create(r)
        PROVE  RowsAsCreated' /\ CreationsFollowRows' /\ LeasesFollowWorkers'
    BY <2>1, CreateStep, CreateLeases
  <2>2. ASSUME NEW w \in Scanners, Scan(w)
        PROVE  RowsAsCreated' /\ CreationsFollowRows' /\ LeasesFollowWorkers'
    BY <2>2, TakeStep, MoveStep DEF Scan, Workers
  <2>3. ASSUME NEW w \in Runners, NEW id \in Ids, RunGiven(w, id)
        PROVE  RowsAsCreated' /\ CreationsFollowRows' /\ LeasesFollowWorkers'
    BY <2>3, TakeStep DEF Workers
  <2>4. ASSUME NEW w \in Workers, Proceed(w) \/ Crash(w)
        PROVE  RowsAsCreated' /\ CreationsFollowRows' /\ LeasesFollowWorkers'
    BY <2>4, TakeStep, MoveStep, StopStep DEF Proceed
  <2>5. ASSUME NEW id \in Ids, LeaseExpires(id)
        PROVE  RowsAsCreated' /\ CreationsFollowRows' /\ LeasesFollowWorkers'
    BY <2>5, ExpiryStep
  <2>6. CASE Idle \/ UNCHANGED vars
    <3>1. UNCHANGED <<backend, runs, cpc, answer, wpc, at, record>>
      BY <2>6 DEF Idle, vars, createVars, workerVars
    <3>2. RowsAsCreated' /\ Ids' = Ids
      BY <3>1 DEF IntakeInv, RowsAsCreated, Ids
    <3>3. CreationsFollowRows'
      BY <3>1, <3>2, CreationsUndisturbed DEF IntakeInv, createVars
    <3>4. LeasesFollowWorkers'
      BY <3>1, <3>2 DEF IntakeInv, LeasesFollowWorkers, Holds, Reclaimable
    <3> QED BY <3>2, <3>3, <3>4
  <2> QED BY <2>1, <2>2, <2>3, <2>4, <2>5, <2>6 DEF Next
<1> QED BY <1>1, <1>2 DEF IntakeInv

\* Rows, creations and leases stay in line in every reachable state.
THEOREM IntakeInvariant == Spec => []IntakeInv
<1>1. Init => IntakeInv
  <2> SUFFICES ASSUME Init PROVE IntakeInv
    OBVIOUS
  <2>1. Ids = {} /\ IsFiniteSet({})
    BY FS_EmptySet DEF Init, Ids
  <2>2. RowsAsCreated
    BY <2>1 DEF Init, RowsAsCreated
  <2>3. CreationsFollowRows
    BY <2>1 DEF Init, CreationsFollowRows
  <2>4. LeasesFollowWorkers
    BY <2>1 DEF Init, LeasesFollowWorkers, Holds
  <2>5. backend \in Backends /\ faults \in 0..MaxFaults
    BY MaxFaultsAssumption DEF Init
  <2> QED BY <2>2, <2>3, <2>4, <2>5 DEF IntakeInv
<1>2. IntakeInv /\ [Next]_vars => IntakeInv'
  BY IntakeStep
<1> QED BY <1>1, <1>2, PTL DEF Spec

\* Rows, calls and workers keep their types, and a live lease has an owner.
THEOREM IntakeTypeCorrect == Spec => []IntakeTypeOK
<1>1. IntakeInv => IntakeTypeOK
  BY DEF IntakeInv, RowsAsCreated, Rows, CreationsFollowRows, LeasesFollowWorkers, IntakeTypeOK
<1> QED BY <1>1, IntakeInvariant, PTL

\* create is idempotent on a client's key, in either store and over any race.
THEOREM CreateIsIdempotent == Spec => []OneRunPerKey
<1>1. IntakeInv => OneRunPerKey
  BY DEF IntakeInv, RowsAsCreated, CreationsFollowRows, OneRunPerKey
<1> QED BY <1>1, IntakeInvariant, PTL

\* Whoever is answered or claims a run gets the limits of the request that
\* created it.
THEOREM LimitsFollowTheRun == Spec => []AdmissionAsCreated
<1>1. IntakeInv => AdmissionAsCreated
  BY DEF IntakeInv, CreationsFollowRows, LeasesFollowWorkers, AdmissionAsCreated
<1> QED BY <1>1, IntakeInvariant, PTL

\* Scans and claims, interleaved in any way, never give a run to two workers.
THEOREM ARunHasOneHolder == Spec => []OneHolderPerRun
<1>1. IntakeInv => OneHolderPerRun
  BY DEF IntakeInv, LeasesFollowWorkers, Holds, OneHolderPerRun
<1> QED BY <1>1, IntakeInvariant, PTL

=============================================================================
