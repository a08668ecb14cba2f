------------------------------ MODULE RunIntake ------------------------------
(***************************************************************************)
(* Many runs in one store: create with a client's idempotency key, the     *)
(* recovery scan claim_next_reclaimable, and claims by run, against        *)
(* PostgresRunStore or InMemoryRunStore (adapters/db).                     *)
(*                                                                         *)
(* RunStore and AgentLoop have what happens inside one run; here a run is  *)
(* its row: key, limits, status, age and lease.  No lease runs out under a *)
(* worker that is using it.  A create call is named by the run it would    *)
(* insert, since the run's id is drawn before the insert.                  *)
(***************************************************************************)
EXTENDS Naturals, FiniteSets

CONSTANTS
    Requests,       \* calls of create
    Key,            \* (tenant_id, idempotency_key) of each, or NoKey
    NoKey,          \* idempotency_key IS NULL
    Orphans,        \* requests whose parent_run_id names no run
    Admission,      \* max_steps, token_budget and max_output_tokens of each
    Pacing,         \* step_timeout_seconds, max_step_attempts, max_run_retries
    DefaultPacing,  \* the defaults of RunLimits for these three
    Scanners,       \* workers that poll claim_next_reclaimable
    Runners,        \* workers that call run on a run they were given
    Nobody,         \* lease_owner IS NULL
    Backends,       \* the stores to consider
    MaxFaults       \* bound: workers that die

Workers == Scanners \cup Runners

ASSUME BackendAssumption == Backends \subseteq {"postgres", "memory"}
ASSUME WorkerAssumption == Nobody \notin Workers /\ Scanners \cap Runners = {}
ASSUME OrphanAssumption == Orphans \subseteq Requests
ASSUME MaxFaultsAssumption == MaxFaults \in Nat

VARIABLES
    backend,    \* the store this deployment uses
    runs,       \* the runs table: id -> row
    cpc,        \* where each create call is
    answer,     \* the record each create call returned
    wpc,        \* where each worker is
    at,         \* the run each worker is about
    record,     \* the record each worker holds
    faults      \* workers that have died

createVars == <<cpc, answer>>
workerVars == <<wpc, at, record>>
vars == <<backend, runs, createVars, workerVars, faults>>

Ids == DOMAIN runs

Resumable == {"QUEUED", "RUNNING", "PAUSED"}

NoRecord == [id |-> Nobody]

Init ==
    /\ backend \in Backends
    /\ runs = [i \in {} |-> NoRecord]
    /\ cpc = [r \in Requests |-> "insert"]
    /\ answer = [r \in Requests |-> NoRecord]
    /\ wpc = [w \in Workers |-> "idle"]
    /\ at = [w \in Workers |-> Nobody]
    /\ record = [w \in Workers |-> NoRecord]
    /\ faults = 0

-----------------------------------------------------------------------------
(* Rows and records.                                                       *)

\* The row of a run that has just been created.  created_at orders the runs.
NewRow(r) ==
    [key |-> Key[r], admission |-> Admission[r],
     status |-> "QUEUED", created |-> Cardinality(Ids),
     lease_owner |-> Nobody, live |-> FALSE]

\* Mutant: the limits are those of whoever asks now, not those of the row.
ToRecordFromRequest(id, r) ==
    [id |-> id, admission |-> Admission[r], pacing |-> DefaultPacing]

\* _to_record, for a call made on behalf of r.  Three limits have no column:
\* RunLimits is rebuilt with its defaults for them.  The in-memory store keeps
\* the object it was given.
ToRecord(id, r) ==
    [id |-> id, admission |-> runs[id].admission,
     pacing |-> IF backend = "postgres" THEN DefaultPacing ELSE Pacing[id]]

\* The runs of a client's key.
WithKey(k) == {id \in Ids : k # NoKey /\ runs[id].key = k}

-----------------------------------------------------------------------------
(* create.                                                                 *)

Answered(r, id) ==
    /\ answer' = [answer EXCEPT ![r] = ToRecord(id, r)]
    /\ cpc' = [cpc EXCEPT ![r] = "done"]

\* Mutant: UNIQUE(tenant_id, idempotency_key) is not there.
RejectsOrphansOnly(r) == r \in Orphans

\* The foreign key of parent_run_id, and UNIQUE(tenant_id, idempotency_key).
Rejects(r) == r \in Orphans \/ WithKey(Key[r]) # {}

\* Insert first.  An IntegrityError is a reason to look for the key's run, if
\* the request has a key.  A row's age is its place in the order of commits;
\* created_at is set a moment earlier, at the insert.
Insert(r) ==
    /\ backend = "postgres" /\ cpc[r] = "insert"
    /\ \/ /\ ~Rejects(r)
          /\ runs' = [id \in Ids \cup {r} |-> IF id = r THEN NewRow(r) ELSE runs[id]]
          /\ cpc' = [cpc EXCEPT ![r] = "load"]
       \/ /\ Rejects(r)
          /\ cpc' = [cpc EXCEPT ![r] = IF Key[r] = NoKey THEN "failed" ELSE "lookup"]
          /\ UNCHANGED runs
    /\ UNCHANGED <<backend, answer, workerVars, faults>>

\* _find_by_idempotency_key: the winner's run, or the error is raised again.
FindByKey(r) ==
    /\ cpc[r] = "lookup"
    /\ \/ \E id \in WithKey(Key[r]) : Answered(r, id)
       \/ /\ WithKey(Key[r]) = {}
          /\ cpc' = [cpc EXCEPT ![r] = "failed"]
          /\ UNCHANGED answer
    /\ UNCHANGED <<backend, runs, workerVars, faults>>

\* The new run is read back by a transaction of its own.
LoadCreated(r) ==
    /\ cpc[r] = "load"
    /\ Answered(r, r)
    /\ UNCHANGED <<backend, runs, workerVars, faults>>

\* InMemoryRunStore.create: check, then insert, with no await in between; no
\* foreign key.
CreateInMemory(r) ==
    /\ backend = "memory" /\ cpc[r] = "insert"
    /\ \/ /\ \E id \in WithKey(Key[r]) : Answered(r, id)
          /\ UNCHANGED runs
       \/ /\ WithKey(Key[r]) = {}
          /\ runs' = [id \in Ids \cup {r} |-> IF id = r THEN NewRow(r) ELSE runs[id]]
          /\ answer' = [answer EXCEPT ![r] =
               [id |-> r, admission |-> Admission[r], pacing |-> Pacing[r]]]
          /\ cpc' = [cpc EXCEPT ![r] = "done"]
    /\ UNCHANGED <<backend, workerVars, faults>>

Create(r) == Insert(r) \/ FindByKey(r) \/ LoadCreated(r) \/ CreateInMemory(r)

-----------------------------------------------------------------------------
(* Leases.                                                                 *)

\* The condition of claim and of the scan.
Reclaimable(id) ==
    /\ runs[id].status \in Resumable
    /\ runs[id].lease_owner = Nobody \/ ~runs[id].live

\* A scan's transaction keeps the row it selected locked until it commits.
Locked(id) == \E w \in Workers : wpc[w] = "selected" /\ at[w] = id

\* Mutant: the expiry is written without the owner.
LeasedAnonymously(id, w) ==
    runs' = [runs EXCEPT ![id].live = TRUE, ![id].status = "RUNNING"]

\* The lease is taken and the run is RUNNING.
Leased(id, w) ==
    runs' = [runs EXCEPT ![id].lease_owner = w, ![id].live = TRUE,
                         ![id].status = "RUNNING"]

WorkerAt(w, where, id) ==
    /\ wpc' = [wpc EXCEPT ![w] = where]
    /\ at' = [at EXCEPT ![w] = id]

WorkerGone(w) ==
    /\ WorkerAt(w, "idle", Nobody)
    /\ record' = [record EXCEPT ![w] = NoRecord]

\* Mutant: SELECT without FOR UPDATE SKIP LOCKED.
CandidatesUnlocked == {id \in Ids : Reclaimable(id)}

\* The rows a scan may select: FOR UPDATE SKIP LOCKED.
Candidates == {id \in Ids : Reclaimable(id) /\ ~Locked(id)}

\* Mutant: newest first.
NewestFirst(ids) ==
    CHOOSE id \in ids : \A other \in ids : runs[other].created <= runs[id].created

\* ORDER BY created_at LIMIT 1.
Oldest(ids) ==
    CHOOSE id \in ids : \A other \in ids : runs[id].created <= runs[other].created

\* claim_next_reclaimable: SELECT ... FOR UPDATE SKIP LOCKED, ...
ScanSelect(w) ==
    /\ backend = "postgres" /\ wpc[w] = "idle"
    /\ Candidates # {}
    /\ WorkerAt(w, "selected", Oldest(Candidates))
    /\ UNCHANGED <<backend, runs, createVars, record, faults>>

\* ... then UPDATE by id, with no condition on the lease, and commit.
ScanUpdate(w) ==
    /\ wpc[w] = "selected"
    /\ Leased(at[w], w)
    /\ WorkerAt(w, "scanned", at[w])
    /\ UNCHANGED <<backend, createVars, record, faults>>

\* InMemoryRunStore.claim_next_reclaimable: the first of the dict, that is the
\* oldest, without a lease or with one that has run out.
ScanInMemory(w) ==
    /\ backend = "memory" /\ wpc[w] = "idle"
    /\ LET free == {id \in Ids : runs[id].status \in Resumable /\ ~runs[id].live}
       IN  /\ free # {}
           /\ Leased(Oldest(free), w)
           /\ WorkerAt(w, "scanned", Oldest(free))
    /\ UNCHANGED <<backend, createVars, record, faults>>

\* store.claim at the start of run.  Postgres refuses whoever holds a live
\* lease, the caller included; the in-memory store lets the owner in again.
Grants(id, w) ==
    /\ runs[id].status \in Resumable
    /\ \/ runs[id].lease_owner = Nobody \/ ~runs[id].live
       \/ backend = "memory" /\ runs[id].lease_owner = w

\* run claims the run: one a runner was given, or one a scanner has found.  The
\* UPDATE waits for a row lock.
Run(w, id) ==
    /\ ~Locked(id)
    /\ Grants(id, w)
    /\ Leased(id, w)
    /\ WorkerAt(w, "load", id)
    /\ UNCHANGED <<backend, createVars, record, faults>>

RunGiven(w, id) == wpc[w] = "idle" /\ Run(w, id)
RunScanned(w) == wpc[w] = "scanned" /\ Run(w, at[w])

\* claim returned None: RunNotResumable.  The scan's lease is left to run out.
RunRefused(w) ==
    /\ wpc[w] = "scanned"
    /\ ~Grants(at[w], w)
    /\ WorkerGone(w)
    /\ UNCHANGED <<backend, runs, createVars, faults>>

\* The claimed run is loaded, and driven from this record.
LoadClaimed(w) ==
    /\ wpc[w] = "load"
    /\ record' = [record EXCEPT ![w] = ToRecord(at[w], at[w])]
    /\ WorkerAt(w, "driving", at[w])
    /\ UNCHANGED <<backend, runs, createVars, faults>>

\* The worker is done with the run, and so is the lease.
Stop(w, newStatus) ==
    /\ wpc[w] = "driving"
    /\ runs' = [runs EXCEPT ![at[w]].lease_owner = Nobody, ![at[w]].live = FALSE,
                            ![at[w]].status = newStatus]
    /\ WorkerGone(w)
    /\ UNCHANGED <<backend, createVars, faults>>

\* finish, and release by the lease's owner.
Finish(w) == Stop(w, "COMPLETED")
Release(w) == Stop(w, "PAUSED")

\* The process dies.  A scan that has not committed is rolled back.
Crash(w) ==
    /\ wpc[w] # "idle"
    /\ faults < MaxFaults
    /\ faults' = faults + 1
    /\ WorkerGone(w)
    /\ UNCHANGED <<backend, runs, createVars>>

\* The lease of a run its owner is not using runs out.
LeaseExpires(id) ==
    /\ runs[id].live
    /\ \A w \in Workers : at[w] = id => runs[id].lease_owner # w
    /\ runs' = [runs EXCEPT ![id].live = FALSE]
    /\ UNCHANGED <<backend, createVars, workerVars, faults>>

\* What a worker does by itself once it has a run.
Proceed(w) ==
    \/ ScanUpdate(w) \/ RunScanned(w) \/ RunRefused(w) \/ LoadClaimed(w)
    \/ Finish(w) \/ Release(w)

Scan(w) == ScanSelect(w) \/ ScanInMemory(w)

Idle ==
    /\ \A r \in Requests : cpc[r] \in {"done", "failed"}
    /\ \A id \in Ids : runs[id].status \notin Resumable
    /\ UNCHANGED vars

Next ==
    \/ \E r \in Requests : Create(r)
    \/ \E w \in Scanners : Scan(w)
    \/ \E w \in Runners : \E id \in Ids : RunGiven(w, id)
    \/ \E w \in Workers : Proceed(w) \/ Crash(w)
    \/ \E id \in Ids : LeaseExpires(id)
    \/ Idle

Spec == Init /\ [][Next]_vars

\* Live processes go on, leases run out, and scanners keep polling.  Nothing is
\* assumed of clients, nor of runners that are handed a run.
Fairness ==
    /\ \A w \in Workers : WF_vars(Proceed(w))
    /\ \A w \in Scanners : WF_vars(Scan(w))
    /\ \A id \in Requests : WF_vars(id \in Ids /\ LeaseExpires(id))

FairSpec == Spec /\ Fairness

-----------------------------------------------------------------------------
(* Properties.                                                             *)

IntakeTypeOK ==
    /\ backend \in Backends
    /\ Ids \subseteq Requests
    /\ \A id \in Ids :
         /\ runs[id].status \in Resumable \cup {"COMPLETED"}
         /\ runs[id].lease_owner \in Workers \cup {Nobody}
         /\ runs[id].live => runs[id].lease_owner # Nobody
    /\ cpc \in [Requests -> {"insert", "lookup", "load", "done", "failed"}]
    /\ wpc \in [Workers -> {"idle", "selected", "scanned", "load", "driving"}]
    /\ \A w \in Workers : wpc[w] # "idle" => at[w] \in Ids
    /\ faults \in 0..MaxFaults

\* create is idempotent on a client's key: over any race of creations with one
\* key there is one run, every caller that is answered gets that run, and a
\* creation with a key fails only if its parent does not exist.
OneRunPerKey ==
    /\ \A a, b \in Ids : Key[a] = Key[b] /\ Key[a] # NoKey => a = b
    /\ \A r \in Requests :
         /\ cpc[r] = "done" =>
              /\ answer[r].id \in Ids
              /\ IF Key[r] = NoKey THEN answer[r].id = r ELSE Key[answer[r].id] = Key[r]
         /\ cpc[r] = "failed" => r \in Orphans

\* The limits that decide what a run may cost are those of the request that
\* created it, for every later creation with its key and for every worker that
\* claims it.
AdmissionAsCreated ==
    /\ \A r \in Requests :
         cpc[r] = "done" => answer[r].admission = Admission[answer[r].id]
    /\ \A w \in Workers :
         wpc[w] = "driving" => record[w].admission = Admission[at[w]]

\* A resumed run uses the limits it started with: all of them.
LimitsAsCreated ==
    \A w \in Workers :
        wpc[w] = "driving" =>
            /\ record[w].admission = Admission[at[w]]
            /\ record[w].pacing = Pacing[at[w]]

\* The store never tells two workers at once that a run is theirs, whether they
\* scan or claim, although a scan decides in one statement and writes in
\* another.
OneHolderPerRun ==
    \A v, w \in Workers :
        /\ wpc[v] \in {"scanned", "load", "driving"}
        /\ wpc[w] \in {"scanned", "load", "driving"}
        /\ at[v] = at[w]
        => v = w

\* No unfinished run is older.
IsOldest(id) ==
    /\ id \in Ids
    /\ \A other \in Ids :
         runs[other].created < runs[id].created => runs[other].status \notin Resumable

\* The oldest unfinished run is picked up, however often newer ones become
\* reclaimable: a run abandoned by a crashed worker does not starve.
OldestPickedUp ==
    \A id \in Requests :
        IsOldest(id) /\ Reclaimable(id) ~>
            id \in Ids /\ (runs[id].live \/ runs[id].status \notin Resumable)

-----------------------------------------------------------------------------
(* The inductive invariant behind the safety properties.                   *)

Rows ==
    [key : {Key[r] : r \in Requests}, admission : {Admission[r] : r \in Requests},
     status : Resumable \cup {"COMPLETED"}, created : Nat,
     lease_owner : Workers \cup {Nobody}, live : BOOLEAN]

Records ==
    [id : Requests, admission : {Admission[r] : r \in Requests},
     pacing : {DefaultPacing} \cup {Pacing[r] : r \in Requests}]

\* A row keeps the key and the limits of the request that created it.
RowsAsCreated ==
    /\ Ids \subseteq Requests /\ IsFiniteSet(Ids)
    /\ runs \in [Ids -> Rows]
    /\ \A id \in Ids :
         /\ runs[id].key = Key[id] /\ runs[id].admission = Admission[id]
         /\ runs[id].live => runs[id].lease_owner # Nobody
    /\ \A a, b \in Ids : Key[a] = Key[b] /\ Key[a] # NoKey => a = b

\* A call that is past its insert has a run, of its own or of its key; one that
\* was rejected looks for the run of its key unless it has no parent.
CreationsFollowRows ==
    /\ cpc \in [Requests -> {"insert", "lookup", "load", "done", "failed"}]
    /\ answer \in [Requests -> Records \cup {NoRecord}]
    /\ \A r \in Requests :
         /\ cpc[r] = "insert" => r \notin Ids
         /\ cpc[r] = "load" => r \in Ids
         /\ cpc[r] = "lookup" => Key[r] # NoKey /\ (r \in Orphans \/ WithKey(Key[r]) # {})
         /\ cpc[r] = "failed" => r \in Orphans
         /\ cpc[r] = "done" =>
              /\ answer[r].id \in Ids
              /\ answer[r].admission = Admission[answer[r].id]
              /\ IF Key[r] = NoKey THEN answer[r].id = r ELSE Key[answer[r].id] = Key[r]

Holds(w) == wpc[w] \in {"scanned", "load", "driving"}

\* Whoever was told that a run is theirs has its lease.  A row a scan has selected
\* is free, and stays so under the scan's lock.
LeasesFollowWorkers ==
    /\ wpc \in [Workers -> {"idle", "selected", "scanned", "load", "driving"}]
    /\ at \in [Workers -> Requests \cup {Nobody}]
    /\ record \in [Workers -> Records \cup {NoRecord}]
    /\ \A w \in Workers :
         /\ wpc[w] # "idle" => at[w] \in Ids
         /\ Holds(w) => runs[at[w]].lease_owner = w /\ runs[at[w]].live
         /\ wpc[w] = "driving" => record[w].admission = Admission[at[w]]
         /\ wpc[w] = "selected" =>
              /\ backend = "postgres" /\ Reclaimable(at[w])
              /\ \A v \in Workers : wpc[v] = "selected" /\ at[v] = at[w] => v = w

IntakeInv ==
    /\ backend \in Backends /\ faults \in 0..MaxFaults
    /\ RowsAsCreated
    /\ CreationsFollowRows
    /\ LeasesFollowWorkers

=============================================================================
