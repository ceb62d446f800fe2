------------------------------ MODULE JobQueue ------------------------------
(***************************************************************************)
(* The persistent job queue of docgraph: the SQLite table `jobs`, the      *)
(* worker goroutines of the server that lease rows from it and run their   *)
(* handlers, the API calls that enqueue, cancel and delete jobs, and the   *)
(* command line's `source sync`, which runs a job inline from a second     *)
(* process on the same database.                                           *)
(*                                                                         *)
(* The rules of the code that the actions below translate:                 *)
(*   - one store call is one SQLite statement or transaction; writes are   *)
(*     serialised, so each is one step, and two calls are two steps;       *)
(*   - a worker leases a row for ten minutes and nothing renews the lease; *)
(*   - rows are read through a second connection, so a decision taken on a *)
(*     read row is stale by the time of the write that follows;            *)
(*   - no statement compares worker_id: any process may end any job.       *)
(*                                                                         *)
(* Time is abstracted to the events it causes.  run_after passing appends  *)
(* the row to `ready`, which therefore lists the due rows in the order     *)
(* (run_after, rowid) the claim query sorts by; locked_until passing turns *)
(* a "held" lock to "expired".  Payloads, progress, results and error      *)
(* texts are left out: no decision of the queue reads them.                *)
(***************************************************************************)
EXTENDS Naturals, Sequences, FiniteSets

CONSTANTS
    MaxJobs,        \* bound: rows ever inserted (ids are the rowids 1..MaxJobs)
    Sources,        \* source ids
    NoSource,       \* the blank source_id: a job about every source
    Workers,        \* the runner's worker goroutines
    NoWorker,
    Clients,        \* concurrent API requests that cancel a job
    Clis,           \* concurrent `docgraph source sync` processes
    Requests,       \* the kinds of job API clients ask for in this instance
    EmbedderOn,     \* an embedding model is configured
    LeaseOverrun,   \* a handler may still run when its lease expires
    StoreFaults,    \* a store call of a handler may fail
    MaxCrashes      \* bound: kills or shutdowns of the server process

JobIds == 1 .. MaxJobs
NoJob  == 0

Registered == {"sync_source", "maintenance_embedding_ensure"}
Kinds      == Registered \cup {"maintenance_profile_rebuild"}

Active   == {"queued", "running", "canceling"}
Terminal == {"completed", "failed", "canceled"}
Statuses == Active \cup Terminal \cup {"absent", "deleted"}

ASSUME BoundsAssumption == MaxJobs \in Nat /\ MaxCrashes \in Nat

ASSUME NullAssumption == NoSource \notin Sources /\ NoWorker \notin Workers

ASSUME ModeAssumption ==
    /\ Requests \subseteq Kinds
    /\ EmbedderOn \in BOOLEAN
    /\ LeaseOverrun \in BOOLEAN
    /\ StoreFaults \in BOOLEAN

VARIABLES
    jobs,       \* the rows of the table
    ready,      \* the rows whose run_after has passed, in (run_after, rowid) order
    worker,     \* per goroutine: where it is in runOnce, its job, the job's context
    running,    \* the runner's map from job id to the goroutine's cancel function
    client,     \* per cancel request: where it is, its job, the status it read
    cli,        \* per command line: the job it runs inline
    crashes

vars == <<jobs, ready, worker, running, client, cli, crashes>>

-----------------------------------------------------------------------------
(* Rows *)

Row(kind, source, status) ==
    [kind |-> kind, source |-> source, status |-> status,
     lock |-> "none", worker |-> NoWorker]

NoRow == Row("sync_source", NoSource, "absent")

Present(j) == jobs[j].status \notin {"absent", "deleted"}

IsActive(j) == jobs[j].status \in Active

Due(j) == \E i \in DOMAIN ready : ready[i] = j

Before(j, k) == \E i, m \in DOMAIN ready : i < m /\ ready[i] = j /\ ready[m] = k

(* The next rowid; none is left once MaxJobs rows were inserted. *)
NextId(j) == /\ jobs[j].status = "absent"
             /\ \A k \in JobIds : k < j => jobs[k].status # "absent"

IdsLeft == \E j \in JobIds : jobs[j].status = "absent"

(* The row as the statements that end a job leave it: lease and owner cleared. *)
Ended(j, status) ==
    [jobs EXCEPT ![j] = [@ EXCEPT !.status = status, !.lock = "none",
                                  !.worker = NoWorker]]

(* A mutated form: the status is not compared. *)
EndableUnchecked(j) == Present(j)

(* "status not in ('canceled', 'canceling')": what CompleteJob, FailJob and
   CompleteSyncJob require of the row, and all they require. *)
Endable(j) == Present(j) /\ jobs[j].status \notin {"canceled", "canceling"}

-----------------------------------------------------------------------------
(* Exclusion between jobs of a source *)

(* Both kinds touch the sections of a source; the blank source is every source. *)
Overlap(s, t) == s = t \/ s = NoSource \/ t = NoSource

Conflict(j, k) ==
    /\ j # k
    /\ jobs[j].kind \in Registered
    /\ jobs[k].kind \in Registered
    /\ Overlap(jobs[j].source, jobs[k].source)

(* Mutated forms: a job being canceled taken for ended; the parentheses around
   "locked_until is null or ..." lost, so that every unleased row counts. *)
InProgressIfRunning(k) == jobs[k].status = "running" /\ jobs[k].lock # "expired"

InProgressUnparenthesised(k) ==
    \/ jobs[k].status = "canceling"
    \/ jobs[k].status = "running" /\ jobs[k].lock = "held"
    \/ Present(k) /\ jobs[k].lock = "none"

(* The rows the claim query takes for an execution in progress. *)
InProgress(k) == \/ jobs[k].status = "canceling"
                 \/ jobs[k].status = "running" /\ jobs[k].lock # "expired"

Candidate(j) ==
    /\ jobs[j].kind \in Registered
    /\ \/ jobs[j].status = "queued" /\ Due(j)
       \/ jobs[j].status = "running" /\ jobs[j].lock = "expired"
    /\ ~ \E k \in JobIds : Conflict(j, k) /\ InProgress(k)

(* A mutated form: without the unique partial index. *)
SyncRefusedByEnsureOnly(s) ==
    \E k \in JobIds : /\ IsActive(k)
                     /\ jobs[k].kind = "maintenance_embedding_ensure"
                     /\ jobs[k].source \in {s, NoSource}

(* CreateSyncJobIfIdle inserts nothing when an active ensure job overlaps the
   source, or when the unique partial index already holds the source. *)
SyncRefused(s) ==
    \E k \in JobIds :
        /\ IsActive(k)
        /\ \/ jobs[k].kind = "maintenance_embedding_ensure" /\ jobs[k].source \in {s, NoSource}
           \/ jobs[k].kind = "sync_source" /\ jobs[k].source = s

(* A mutated form: a job of the blank scope is not looked for. *)
EnsureRefusedBySource(scope) ==
    \E k \in JobIds : IsActive(k) /\ jobs[k].kind \in Registered /\ jobs[k].source = scope

(* CreateEmbeddingEnsureJobIfIdle: a blank scope meets every ensure and sync job. *)
EnsureRefused(scope) ==
    \E k \in JobIds :
        /\ IsActive(k)
        /\ \/ /\ jobs[k].kind = "maintenance_embedding_ensure"
              /\ scope = NoSource \/ jobs[k].source \in {scope, NoSource}
           \/ /\ jobs[k].kind = "sync_source"
              /\ scope = NoSource \/ jobs[k].source = scope

Insert(j, kind, source) ==
    /\ NextId(j)
    /\ jobs' = [jobs EXCEPT ![j] = Row(kind, source, "queued")]
    /\ ready' = Append(ready, j)

-----------------------------------------------------------------------------
(* Enqueueing: the REST handlers and the scheduler *)

RequestSync(s) ==
    /\ "sync_source" \in Requests
    /\ ~ SyncRefused(s)
    /\ \E j \in JobIds : Insert(j, "sync_source", s)
    /\ UNCHANGED <<worker, running, client, cli, crashes>>

RequestEnsure(scope) ==
    /\ "maintenance_embedding_ensure" \in Requests
    /\ ~ EnsureRefused(scope)
    /\ \E j \in JobIds : Insert(j, "maintenance_embedding_ensure", scope)
    /\ UNCHANGED <<worker, running, client, cli, crashes>>

RequestMaintenance ==
    /\ "maintenance_profile_rebuild" \in Requests
    /\ \E j \in JobIds : Insert(j, "maintenance_profile_rebuild", NoSource)
    /\ UNCHANGED <<worker, running, client, cli, crashes>>

-----------------------------------------------------------------------------
(* The worker goroutines *)

Idle == [pc |-> "idle", job |-> NoJob, ctx |-> "live"]

At(w, pc) == worker[w].pc = pc

(* The handler's context is not canceled: its store calls can succeed. *)
Live(w) == worker[w].ctx = "live"

GoTo(w, pc) == worker' = [worker EXCEPT ![w].pc = pc]

(* ClaimDueJob: the first eligible row in (run_after, rowid) order. *)
Claim(w) ==
    /\ At(w, "idle")
    /\ \E j \in JobIds :
        /\ Candidate(j)
        /\ \A k \in JobIds : Candidate(k) /\ k # j => Before(j, k)
        /\ jobs' = [jobs EXCEPT ![j] = [@ EXCEPT !.status = "running",
                                                 !.lock = "held", !.worker = w]]
        /\ worker' = [worker EXCEPT ![w] = [pc |-> "claimed", job |-> j,
                                            ctx |-> "live"]]
    /\ UNCHANGED <<ready, running, client, cli, crashes>>

(* The claim is committed, and the read of the claimed row fails: the worker
   knows of no job, and the row keeps the lease. *)
ClaimLost(w) ==
    /\ At(w, "claimed")
    /\ StoreFaults
    /\ worker' = [worker EXCEPT ![w] = Idle]
    /\ UNCHANGED <<jobs, ready, running, client, cli, crashes>>

(* register: a second goroutine on the same job overwrites the first's entry. *)
Register(w) ==
    /\ At(w, "claimed")
    /\ running' = [running EXCEPT ![worker[w].job] = w]
    /\ GoTo(w, "work")
    /\ UNCHANGED <<jobs, ready, client, cli, crashes>>

(* RunSyncJob up to CompleteSyncJob; the handler then wants an ensure job. *)
SyncSucceeds(w) ==
    LET j == worker[w].job IN
    /\ At(w, "work") /\ jobs[j].kind = "sync_source"
    /\ Live(w)
    /\ Endable(j)
    /\ jobs' = Ended(j, "completed")
    /\ GoTo(w, IF EmbedderOn THEN "enqueue" ELSE "settle")
    /\ UNCHANGED <<ready, running, client, cli, crashes>>

(* enqueueEmbeddingEnsureJob: a refusal is not an error. *)
EnqueueEnsure(w) ==
    LET s == jobs[worker[w].job].source IN
    /\ At(w, "enqueue")
    /\ Live(w)
    /\ IF EnsureRefused(s)
         THEN UNCHANGED <<jobs, ready>>
         ELSE \E j \in JobIds : Insert(j, "maintenance_embedding_ensure", s)
    /\ GoTo(w, "settle")
    /\ UNCHANGED <<running, client, cli, crashes>>

(* The ensure handler left chunks for later: a retry job due in two minutes is
   inserted, without the idle check, while this job still runs. *)
EnsureDefers(w) ==
    LET s == jobs[worker[w].job].source IN
    /\ At(w, "work") /\ jobs[worker[w].job].kind = "maintenance_embedding_ensure"
    /\ Live(w)
    /\ \E j \in JobIds :
        /\ NextId(j)
        /\ jobs' = [jobs EXCEPT ![j] = Row("maintenance_embedding_ensure", s, "queued")]
    /\ GoTo(w, "deferred")
    /\ UNCHANGED <<ready, running, client, cli, crashes>>

EnsureSucceeds(w) ==
    LET j == worker[w].job IN
    /\ At(w, "work") \/ At(w, "deferred")
    /\ jobs[j].kind = "maintenance_embedding_ensure"
    /\ Live(w)
    /\ Endable(j)
    /\ jobs' = Ended(j, "completed")
    /\ GoTo(w, "settle")
    /\ UNCHANGED <<ready, running, client, cli, crashes>>

(* The sync or the ensure pass returns an error (a missing source included). *)
HandlerFails(w) ==
    LET j == worker[w].job IN
    /\ At(w, "work")
    /\ Live(w)
    /\ Endable(j)
    /\ jobs' = Ended(j, "failed")
    /\ GoTo(w, "settle")
    /\ UNCHANGED <<ready, running, client, cli, crashes>>

(* The handler's next store call changes nothing and the handler returns: its
   context is canceled, the row may not be ended any more, or the call failed.
   The row keeps the status and the lease it has. *)
StoreCallLost(w) ==
    LET j == worker[w].job IN
    /\ worker[w].pc \in {"work", "deferred", "enqueue"}
    /\ \/ ~ Live(w)
       \/ StoreFaults
       \/ ~ At(w, "enqueue") /\ ~ Endable(j)
       \/ At(w, "enqueue") /\ ~ IdsLeft     \* the bound MaxJobs, seen as a failed insert
    /\ GoTo(w, "settle")
    /\ UNCHANGED <<jobs, ready, running, client, cli, crashes>>

(* Mutated forms: the goroutine does not finalize a canceled job, or does not
   let go of its job. *)
SettleWithoutFinalizing(w) ==
    /\ At(w, "settle")
    /\ running' = [running EXCEPT ![worker[w].job] = NoWorker]
    /\ worker' = [worker EXCEPT ![w] = Idle]
    /\ UNCHANGED <<jobs, ready, client, cli, crashes>>

SettleKeepingJob(w) ==
    /\ At(w, "settle")
    /\ GoTo(w, "idle")
    /\ UNCHANGED <<jobs, ready, running, client, cli, crashes>>

(* finalizeCanceledJob and the deferred unregister.  Reading the row and marking
   it are one step: only a finalizer moves a row out of "canceling".  A call that
   fails is only logged: the row stays "canceling". *)
Settle(w) ==
    LET j == worker[w].job IN
    /\ At(w, "settle")
    /\ \/ jobs[j].status = "canceling" /\ jobs' = Ended(j, "canceled")
       \/ (jobs[j].status # "canceling" \/ StoreFaults) /\ UNCHANGED jobs
    /\ running' = [running EXCEPT ![j] = NoWorker]
    /\ worker' = [worker EXCEPT ![w] = Idle]
    /\ UNCHANGED <<ready, client, cli, crashes>>

(* monitorCancelRequests polls the row while the handler runs. *)
Monitor(w) ==
    /\ worker[w].pc \in {"work", "deferred", "enqueue"}
    /\ Live(w)
    /\ jobs[worker[w].job].status \in {"canceling", "canceled"}
    /\ worker' = [worker EXCEPT ![w].ctx = "canceled"]
    /\ UNCHANGED <<jobs, ready, running, client, cli, crashes>>

-----------------------------------------------------------------------------
(* Time *)

BecomeDue(j) ==
    /\ jobs[j].status = "queued" /\ ~ Due(j)
    /\ ready' = Append(ready, j)
    /\ UNCHANGED <<jobs, worker, running, client, cli, crashes>>

Handled(j) == \E w \in Workers : worker[w].job = j

LeaseExpires(j) ==
    /\ jobs[j].lock = "held"
    /\ LeaseOverrun \/ ~ Handled(j)
    /\ jobs' = [jobs EXCEPT ![j].lock = "expired"]
    /\ UNCHANGED <<ready, worker, running, client, cli, crashes>>

-----------------------------------------------------------------------------
(* Canceling and deleting through the API *)

NoRequest == [pc |-> "idle", job |-> NoJob, seen |-> "absent"]

(* CancelJob reads the row; an ended job is refused, and one already canceled
   or being canceled is answered at once, its goroutine signalled again. *)
CancelRead(c, j) ==
    /\ client[c].pc = "idle"
    /\ jobs[j].status \in Active \cup {"canceled"}
    /\ client' = [client EXCEPT ![c] =
          [pc |-> IF jobs[j].status \in {"queued", "running"} THEN "write" ELSE "signal",
           job |-> j, seen |-> jobs[j].status]]
    /\ UNCHANGED <<jobs, ready, worker, running, cli, crashes>>

(* A mutated form: the row is updated by its id alone. *)
StillAsReadUnchecked(c) == TRUE

(* "and status = 'queued'", "and status = 'running'": the update that follows
   holds only if the row still has the status read. *)
StillAsRead(c) == jobs[client[c].job].status = client[c].seen

CancelWrite(c) ==
    LET j == client[c].job IN
    /\ client[c].pc = "write"
    /\ IF ~ StillAsRead(c)
         THEN jobs' = jobs /\ client' = [client EXCEPT ![c] = NoRequest]
         ELSE /\ jobs' = IF client[c].seen = "queued"
                           THEN Ended(j, "canceled")
                           ELSE [jobs EXCEPT ![j].status = "canceling"]
              /\ client' = [client EXCEPT ![c].pc = "signal"]
    /\ UNCHANGED <<ready, worker, running, cli, crashes>>

(* Runner.CancelJob calls the registered cancel function, whoever registered it. *)
CancelSignal(c) ==
    LET j == client[c].job IN
    /\ client[c].pc = "signal"
    /\ worker' = [w \in Workers |->
          IF running[j] = w THEN [worker[w] EXCEPT !.ctx = "canceled"] ELSE worker[w]]
    /\ client' = [client EXCEPT ![c] = NoRequest]
    /\ UNCHANGED <<jobs, ready, running, cli, crashes>>

(* DeleteSyncJob.  An ended job stays ended, so reading it and deleting it are
   one step. *)
DeleteJob(j) ==
    /\ jobs[j].kind = "sync_source" /\ jobs[j].status \in Terminal
    /\ jobs' = Ended(j, "deleted")
    /\ UNCHANGED <<ready, worker, running, client, cli, crashes>>

-----------------------------------------------------------------------------
(* The command line: SyncSource enqueues a job and runs it without a claim *)

CliStart(p, s) ==
    /\ cli[p] = NoJob
    /\ ~ SyncRefused(s)
    /\ \E j \in JobIds : Insert(j, "sync_source", s) /\ cli' = [cli EXCEPT ![p] = j]
    /\ UNCHANGED <<worker, running, client, crashes>>

CliEnds(p, status) ==
    /\ cli[p] # NoJob
    /\ Endable(cli[p])
    /\ jobs' = Ended(cli[p], status)
    /\ cli' = [cli EXCEPT ![p] = NoJob]
    /\ UNCHANGED <<ready, worker, running, client, crashes>>

(* Interrupted, or its last statement found the job canceled or deleted. *)
CliStops(p) ==
    /\ cli[p] # NoJob
    /\ cli' = [cli EXCEPT ![p] = NoJob]
    /\ UNCHANGED <<jobs, ready, worker, running, client, crashes>>

-----------------------------------------------------------------------------
(* The server process is killed or shut down, and started again: goroutines,
   requests and the running map are lost, the rows are not, and nothing repairs
   them.  On a shutdown the store calls of the handlers and of the finalizer
   fail with their context, so the rows are left as a kill leaves them. *)
Crash ==
    /\ crashes < MaxCrashes
    /\ crashes' = crashes + 1
    /\ worker' = [w \in Workers |-> Idle]
    /\ running' = [j \in JobIds |-> NoWorker]
    /\ client' = [c \in Clients |-> NoRequest]
    /\ UNCHANGED <<jobs, ready, cli>>

-----------------------------------------------------------------------------

Init ==
    /\ jobs = [j \in JobIds |-> NoRow]
    /\ ready = <<>>
    /\ worker = [w \in Workers |-> Idle]
    /\ running = [j \in JobIds |-> NoWorker]
    /\ client = [c \in Clients |-> NoRequest]
    /\ cli = [p \in Clis |-> NoJob]
    /\ crashes = 0

Enqueue ==
    \/ \E s \in Sources : RequestSync(s)
    \/ \E scope \in Sources \cup {NoSource} : RequestEnsure(scope)
    \/ RequestMaintenance

HandlerStep(w) ==
    \/ ClaimLost(w)
    \/ Register(w)
    \/ SyncSucceeds(w)
    \/ EnqueueEnsure(w)
    \/ EnsureDefers(w)
    \/ EnsureSucceeds(w)
    \/ HandlerFails(w)
    \/ StoreCallLost(w)
    \/ Settle(w)

WorkerStep(w) == Claim(w) \/ HandlerStep(w) \/ Monitor(w)

TimePasses == \E j \in JobIds : BecomeDue(j) \/ LeaseExpires(j)

ClientStep ==
    \/ \E c \in Clients : \E j \in JobIds : CancelRead(c, j)
    \/ \E c \in Clients : CancelWrite(c) \/ CancelSignal(c)
    \/ \E j \in JobIds : DeleteJob(j)

CliStep ==
    \E p \in Clis :
        \/ \E s \in Sources : CliStart(p, s)
        \/ CliEnds(p, "completed")
        \/ CliEnds(p, "failed")
        \/ CliStops(p)

Next ==
    \/ Enqueue
    \/ \E w \in Workers : WorkerStep(w)
    \/ TimePasses
    \/ ClientStep
    \/ CliStep
    \/ Crash

Spec == Init /\ [][Next]_vars

(* Workers poll every second, handlers return, monitors poll, clocks advance and
   a request that was started is carried through.  Nobody is forced to ask. *)
Fairness ==
    /\ \A w \in Workers : WF_vars(Claim(w)) /\ WF_vars(HandlerStep(w)) /\ WF_vars(Monitor(w))
    /\ \A j \in JobIds : WF_vars(BecomeDue(j)) /\ WF_vars(LeaseExpires(j))
    /\ \A c \in Clients : WF_vars(CancelWrite(c) \/ CancelSignal(c))

FairSpec == Spec /\ Fairness
-----------------------------------------------------------------------------
(* Properties *)

Rows == [kind: Kinds, source: Sources \cup {NoSource}, status: Statuses,
         lock: {"none", "held", "expired"}, worker: Workers \cup {NoWorker}]

Goroutines == [pc: {"idle", "claimed", "work", "deferred", "enqueue", "settle"},
               job: JobIds \cup {NoJob}, ctx: {"live", "canceled"}]

TypeOK ==
    /\ jobs \in [JobIds -> Rows]
    /\ ready \in Seq(JobIds)
    /\ worker \in [Workers -> Goroutines]
    /\ \A w \in Workers : At(w, "idle") <=> worker[w].job = NoJob
    /\ running \in [JobIds -> Workers \cup {NoWorker}]
    /\ client \in [Clients -> [pc: {"idle", "write", "signal"},
                               job: JobIds \cup {NoJob}, seen: Statuses]]
    /\ \A c \in Clients :
          /\ client[c].pc # "idle" => client[c].job \in JobIds
          /\ client[c].pc = "write" => client[c].seen \in {"queued", "running"}
    /\ cli \in [Clis -> JobIds \cup {NoJob}]
    /\ crashes \in 0 .. MaxCrashes

(* At most one unexpired lease covers a source, the blank source covering them
   all: ClaimDueJob refuses a row while an overlapping one is in progress, and
   no cancellation, end, crash or late handler lets a second lease in. *)
SourceLeasedOnce ==
    \A j, k \in JobIds :
        Conflict(j, k) => ~ (jobs[j].lock = "held" /\ jobs[k].lock = "held")

(* A source never has two active sync jobs, whoever enqueues, claims, cancels or
   ends them: no statement brings an ended row back to an active status. *)
OneActiveSync ==
    \A j, k \in JobIds :
        /\ j # k
        /\ jobs[j].kind = "sync_source" /\ jobs[k].kind = "sync_source"
        /\ jobs[j].source = jobs[k].source
        => ~ (IsActive(j) /\ IsActive(k))

(* A cancellation the API acknowledged is never lost: from then on the job is
   being canceled or canceled, and no handler, late or not, reports it completed
   or failed, nor does a worker claim it again. *)
CancelIsFinal ==
    [][\A j \in JobIds :
        /\ jobs[j].status = "canceling" => jobs'[j].status \in {"canceling", "canceled"}
        /\ jobs[j].status = "canceled"  => jobs'[j].status \in {"canceled", "deleted"}]_vars

(* An ended job never becomes active again, even when the handler of an older
   attempt ends it a second time. *)
EndedStaysEnded ==
    [][\A j \in JobIds :
        jobs[j].status \in Terminal => jobs'[j].status \in Terminal \cup {"deleted"}]_vars

(* The job whose documents or embeddings worker w is reading and writing now. *)
Busy(w) == worker[w].pc \in {"claimed", "work", "deferred"}

(* Two executions never overlap on a source: neither two handlers of one job,
   nor a sync and an ensure pass, nor a handler and a command line. *)
WorkIsExclusive ==
    /\ \A v, w \in Workers :
          v # w /\ Busy(v) /\ Busy(w) =>
              /\ worker[v].job # worker[w].job
              /\ ~ Conflict(worker[v].job, worker[w].job)
    /\ \A w \in Workers, p \in Clis :
          Busy(w) /\ cli[p] # NoJob =>
              /\ worker[w].job # cli[p]
              /\ ~ Conflict(worker[w].job, cli[p])

(* Once a job reads "canceled" no handler works on it any more, so the source
   may be edited or deleted: a running job passes through "canceling", and only
   its own handler, having returned, marks it canceled. *)
CanceledMeansStopped ==
    \A w \in Workers : Busy(w) => jobs[worker[w].job].status # "canceled"

(* Deduplication of ensure jobs survives the retries that bypass the idle check:
   of two overlapping ensure jobs at most one waits in the queue. *)
EnsureQueuedOnce ==
    \A j, k \in JobIds :
        /\ Conflict(j, k)
        /\ jobs[j].kind = "maintenance_embedding_ensure"
        /\ jobs[k].kind = "maintenance_embedding_ensure"
        => ~ (jobs[j].status = "queued" /\ jobs[k].status = "queued")

(* Every queued job of a registered kind is claimed, or canceled by a user. *)
QueuedIsServed ==
    \A j \in JobIds :
        (jobs[j].status = "queued" /\ jobs[j].kind \in Registered)
            ~> (jobs[j].status # "queued")

(* A requested cancellation takes effect. *)
CancelSettles ==
    \A j \in JobIds : (jobs[j].status = "canceling") ~> (jobs[j].status = "canceled")

(* The promise JobQueue implements when leases are long enough. *)
Scope(j) ==
    IF ~ Present(j) \/ jobs[j].kind \notin Registered THEN {}
    ELSE IF jobs[j].source = NoSource THEN Sources ELSE {jobs[j].source}

Lifecycle == INSTANCE JobLifecycle WITH
    JobIds <- JobIds,
    Sources <- Sources,
    Hands <- Workers,
    None <- NoJob,
    status <- [j \in JobIds |-> jobs[j].status],
    scope <- [j \in JobIds |-> Scope(j)],
    doing <- [w \in Workers |-> IF Busy(w) THEN worker[w].job ELSE NoJob]

(* The queue implements the life cycle: every step is one of its steps. *)
ImplementsLifecycle == Lifecycle!Spec

=============================================================================
