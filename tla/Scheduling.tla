----------------------------- MODULE Scheduling -----------------------------
(***************************************************************************)
(* The row of a source and those who write it: the scheduler, which once a *)
(* minute lists the sources and their latest sync jobs and inserts a job   *)
(* for each that is due (internal/scheduler); the sync runs, which pause a *)
(* source whose credential is refused and activate it when they succeed    *)
(* (internal/sync); and the API, which reads a row and later writes it     *)
(* whole: settings and schedules, attached, renewed and deleted            *)
(* credentials, resumed sources (internal/server).                         *)
(*                                                                         *)
(* Every store call is an action.  What was read before is kept in the     *)
(* record of the pass, the run or the request, and may be stale when used. *)
(* Time is in ticks since an event: no decision reads an absolute time.    *)
(* Only the latest sync job of a source is kept, and of an older one that  *)
(* a run still works on its outcome; JobQueue has them all.  Embedding jobs*)
(* count here for one thing only: a sync job is not inserted beside one.   *)
(***************************************************************************)
EXTENDS Integers, FiniteSets

CONSTANTS
    Sources,    \* confluence sources: the kind that has a stored credential
    Creds,      \* rows of confluence_cookie_credentials
    None,       \* no source, no credential
    Schedules,  \* the intervals a schedule may name, in ticks; 0 is "manual"
    Zones,      \* the server's offset from UTC, in ticks, east positive
    MaxAge,     \* bound: times longer ago than this are not told apart
    Runs,       \* goroutines that run sync jobs
    Overlap,    \* whether a handler may outlive its lease, so that two runs share a job
    Embedder,   \* whether an embedder is configured
    Requests,   \* API requests under way
    MaxEdits,   \* bound: API requests that change something
    MaxFaults   \* bound: cookies that expire, runs that fail otherwise, crashes

(* MaxAge is past every interval, however the zone shifts it. *)
ASSUME TimesAssumption ==
    /\ Schedules \subseteq Nat /\ Zones \subseteq Int /\ MaxAge \in Nat
    /\ \A i \in Schedules, z \in Zones : MaxAge + z >= i

ASSUME NamesAssumption == None \notin Sources \cup Creds /\ Overlap \in BOOLEAN /\ Embedder \in BOOLEAN

ASSUME BoundsAssumption == MaxEdits \in Nat /\ MaxFaults \in Nat

VARIABLES
    zone,       \* time.Local of the server
    rows,       \* sources: sync_schedule, the credential in config_json, sync_status
    cookies,    \* the credentials: the site accepts the cookie, refuses it, or no row
    job,        \* the latest sync_source job of a source: status, ticks since updated_at
    embedding,  \* the scopes of the embedding jobs in progress
    pass,       \* the scheduler's pass: the rows it listed, the sources still to insert
    run,        \* the sync runs
    request,    \* the API requests
    since,      \* history: ticks since the scheduler last inserted a job of the source
    edits,
    faults

vars == <<zone, rows, cookies, job, embedding, pass, run, request, since, edits, faults>>

-----------------------------------------------------------------------------

Row == [schedule: Schedules, cred: Creds \cup {None}, status: {"active", "paused"}]

NoPass    == [pc |-> "idle", rows |-> [s \in {} |-> None], due |-> {}]
NoRun     == [pc |-> "idle", source |-> None, own |-> "latest", paused |-> FALSE,
              cred |-> None, cookie |-> "gone", alone |-> TRUE]
NoRequest == [pc |-> "idle", plan |-> [s \in {} |-> None], cred |-> None, after |-> "nothing"]

(* The pass goes on with the next source that is due, or ends. *)
Inserting(due) == IF due = {} THEN NoPass ELSE [NoPass EXCEPT !.pc = "insert", !.due = due]

At(p, pc) == run[p].pc = pc

InProgress(s) == job[s].status \in {"queued", "running", "canceling"}

(* An embedding job is for one source, or for all of them: its source_id is blank. *)
Scopes == {{s} : s \in Sources} \cup {Sources}

(* While the source has a sync or an embedding job in progress, neither is inserted. *)
Refusing(s) == InProgress(s) \/ \E scope \in embedding : s \in scope

(* The run works on the latest job of the source. *)
Owns(p, s) == run[p].source = s /\ run[p].own = "latest"

(* The status of the job the run works on. *)
Status(p) == IF run[p].own = "latest" THEN job[run[p].source].status ELSE run[p].own

(* CompleteSyncJob and FailJob leave a job that is canceled alone, and find none that is deleted. *)
Endable(p) == Status(p) \notin {"canceling", "canceled", "deleted"}

EndsOwn(p) ==
    job' = IF Owns(p, run[p].source) /\ Endable(p)
             THEN [job EXCEPT ![run[p].source] = [status |-> "ended", age |-> 0]]
             ELSE job

(* A job is inserted: runs on the one that was the latest keep its outcome in mind. *)
Outcome(s) == IF job[s].status = "canceled" THEN "canceled" ELSE "ended"

Queues(s) ==
    /\ job' = [job EXCEPT ![s] = [status |-> "queued", age |-> 0]]
    /\ run' = [p \in Runs |-> IF Owns(p, s) THEN [run[p] EXCEPT !.own = Outcome(s)] ELSE run[p]]

(* Once RunSyncJob has returned the worker settles a cancellation, which a job that is
   over no longer can have. *)
Settling(p) ==
    IF Status(p) \in {"running", "canceling"}
      THEN [NoRun EXCEPT !.pc = "settle", !.source = run[p].source]
      ELSE NoRun

(* One edit of the budget of API requests; one fault. *)
Edit  == edits < MaxEdits /\ edits' = edits + 1
Fault == faults < MaxFaults /\ faults' = faults + 1

(* A mutated form: the sync state is written back with the rest of the row. *)
SettingsWrittenWhole(s, wanted) == wanted

(* UpdateSource: every column but the sync state, from the row read earlier. *)
SettingsWritten(s, wanted) ==
    [rows[s] EXCEPT !.schedule = wanted.schedule, !.cred = wanted.cred]

UpdateSource(s, wanted) ==
    /\ rows' = [rows EXCEPT ![s] = SettingsWritten(s, wanted)]
    /\ since' = IF rows[s].schedule = wanted.schedule THEN since
                                                      ELSE [since EXCEPT ![s] = MaxAge]

(* UpdateSourceSyncState. *)
UpdateSyncState(s, status) == rows' = [rows EXCEPT ![s].status = status]

-----------------------------------------------------------------------------
(* The scheduler: Runner.RunOnce *)

ListSources ==
    /\ pass.pc = "idle"
    /\ pass' = [pc |-> "jobs", rows |-> rows, due |-> {}]
    /\ UNCHANGED <<zone, rows, cookies, job, embedding, run, request, since, edits, faults>>

(* parseJobTime: updated_at is UTC without a zone and is taken for local time. *)
AgeRead(s) == job[s].age + zone

(* A mutated form: a job that has ended leaves its source due at once. *)
DueWhenEnded(row, s) ==
    row.status # "paused" /\ row.schedule # 0 /\ ~ InProgress(s)

(* A mutated form: only a source that was synced before is due. *)
DueAfterFirst(row, s) ==
    /\ row.status # "paused" /\ row.schedule # 0
    /\ job[s].status \in {"ended", "canceled"} /\ AgeRead(s) >= row.schedule

Due(row, s) ==
    /\ row.status # "paused" /\ row.schedule # 0
    /\ \/ job[s].status = "none"
       \/ job[s].status \in {"ended", "canceled"} /\ AgeRead(s) >= row.schedule

ListLatestJobs ==
    /\ pass.pc = "jobs"
    /\ pass' = Inserting({s \in Sources : Due(pass.rows[s], s)})
    /\ UNCHANGED <<zone, rows, cookies, job, embedding, run, request, since, edits, faults>>

(* CreateSyncJobIfIdle of one due source. *)
InsertDue(s) ==
    /\ pass.pc = "insert" /\ s \in pass.due
    /\ pass' = Inserting(pass.due \ {s})
    /\ IF Refusing(s)
         THEN UNCHANGED <<job, run, since>>
         ELSE Queues(s) /\ since' = [since EXCEPT ![s] = 0]
    /\ UNCHANGED <<zone, rows, cookies, embedding, request, edits, faults>>

Scheduler == ListSources \/ ListLatestJobs \/ (\E s \in Sources : InsertDue(s))

-----------------------------------------------------------------------------
(* A sync run: RunSyncJob, for the row of the source *)

(* A queued job, one a stopped server left, or one whose lease has run out; never one
   that is to be canceled. *)
Claimable(s) ==
    \/ job[s].status = "queued"
    \/ /\ job[s].status = "running"
       /\ Overlap \/ \A q \in Runs : ~ Owns(q, s)

ClaimJob(p, s) ==
    /\ At(p, "idle") /\ Claimable(s)
    /\ job' = [job EXCEPT ![s] = [status |-> "running", age |-> 0]]
    /\ run' = [run EXCEPT ![p] = [NoRun EXCEPT !.pc = "row", !.source = s]]
    /\ UNCHANGED <<zone, rows, cookies, embedding, pass, request, since, edits, faults>>

ReadSource(p) ==
    /\ At(p, "row")
    /\ run' = [run EXCEPT ![p].pc = "cookie", ![p].cred = rows[run[p].source].cred,
                          ![p].alone = TRUE,
                          ![p].paused = rows[run[p].source].status = "paused"]
    /\ UNCHANGED <<zone, rows, cookies, job, embedding, pass, request, since, edits, faults>>

(* resolveConfluenceConfig: a credential that is gone is a credential failure too. *)
ResolveCookie(p) ==
    /\ At(p, "cookie")
    /\ run' = [run EXCEPT ![p].pc = "fetch",
                 ![p].cookie = IF run[p].cred = None THEN "good" ELSE cookies[run[p].cred],
                 ![p].cred = None]
    /\ UNCHANGED <<zone, rows, cookies, job, embedding, pass, request, since, edits, faults>>

(* A mutated form: the source stays as the run found it. *)
CompletedAsFound(p) == "done"

Completed(p) == IF run[p].paused THEN "activate" ELSE "done"

SyncSucceeds(p) ==
    /\ At(p, "fetch") /\ run[p].cookie = "good" /\ Endable(p)
    /\ EndsOwn(p)
    /\ run' = [run EXCEPT ![p].pc = Completed(p), ![p].paused = FALSE]
    /\ UNCHANGED <<zone, rows, cookies, embedding, pass, request, since, edits, faults>>

Activate(p) ==
    /\ At(p, "activate")
    /\ UpdateSyncState(run[p].source, "active")
    /\ run' = [run EXCEPT ![p].pc = "done"]
    /\ UNCHANGED <<zone, cookies, job, embedding, pass, request, since, edits, faults>>

(* FailSyncJob first, the pause afterwards, canceled or not. *)
CredentialRefused(p) ==
    /\ At(p, "fetch") /\ run[p].cookie # "good"
    /\ EndsOwn(p)
    /\ run' = [run EXCEPT ![p] = [NoRun EXCEPT !.pc = "pause", !.source = run[p].source,
                                                !.own = run[p].own]]
    /\ UNCHANGED <<zone, rows, cookies, embedding, pass, request, since, edits, faults>>

(* A mutated form: the pause is forgotten, as its error already is. *)
PauseLost(p) ==
    /\ At(p, "pause")
    /\ run' = [run EXCEPT ![p] = Settling(p)]
    /\ UNCHANGED <<zone, rows, cookies, job, embedding, pass, request, since, edits, faults>>

Pause(p) ==
    /\ At(p, "pause")
    /\ UpdateSyncState(run[p].source, "paused")
    /\ run' = [q \in Runs |->
          IF q = p THEN Settling(p)
          ELSE [run[q] EXCEPT !.alone = @ /\ run[q].source # run[p].source]]
    /\ UNCHANGED <<zone, cookies, job, embedding, pass, request, since, edits, faults>>

(* The context of a run is cancelled once its job is, by the request or by the poll; and
   a job that was deleted cannot be completed.  The state of the source is kept. *)
Aborts(p) ==
    /\ \/ /\ run[p].pc \in {"row", "cookie", "fetch", "pause"}
          /\ Status(p) \in {"canceling", "canceled"}
       \/ At(p, "fetch") /\ Status(p) = "deleted"
    /\ run' = [run EXCEPT ![p] = Settling(p)]
    /\ UNCHANGED <<zone, rows, cookies, job, embedding, pass, request, since, edits, faults>>

(* A failure of another kind: the state of the source is kept.  The job stays running if
   its own failure is not recorded, or only the diagnostics fail (attachEntityDiagnostics). *)
SyncFails(p) ==
    /\ At(p, "fetch") /\ Fault
    /\ EndsOwn(p) \/ UNCHANGED job
    /\ run' = [run EXCEPT ![p] = Settling(p)]
    /\ UNCHANGED <<zone, rows, cookies, embedding, pass, request, since, edits>>

(* enqueueEmbeddingEnsureJob, if there is an embedder: a refusal is no error. *)
EnqueueEnsure(p) ==
    /\ At(p, "done")
    /\ embedding' = IF Embedder /\ ~ Refusing(run[p].source)
                      THEN embedding \cup {{run[p].source}} ELSE embedding
    /\ run' = [run EXCEPT ![p] = Settling(p)]
    /\ UNCHANGED <<zone, rows, cookies, job, pass, request, since, edits, faults>>

(* finalizeCanceledJob, and the worker is free. *)
Return(p) ==
    /\ At(p, "settle")
    /\ job' = IF Owns(p, run[p].source) /\ Status(p) = "canceling"
                THEN [job EXCEPT ![run[p].source] = [status |-> "canceled", age |-> 0]]
                ELSE job
    /\ run' = [run EXCEPT ![p] = NoRun]
    /\ UNCHANGED <<zone, rows, cookies, embedding, pass, request, since, edits, faults>>

RunStep(p) ==
    \/ ReadSource(p) \/ ResolveCookie(p) \/ SyncSucceeds(p) \/ Activate(p)
    \/ CredentialRefused(p) \/ Pause(p) \/ Aborts(p) \/ EnqueueEnsure(p) \/ Return(p)

-----------------------------------------------------------------------------
(* Requests: read the rows, then write them one by one *)

Reads(c, plan, cred, pc, after) ==
    /\ request[c].pc = "idle" /\ Edit
    /\ request' = [request EXCEPT ![c] =
                     [pc |-> pc, plan |-> plan, cred |-> cred, after |-> after]]
    /\ UNCHANGED <<zone, rows, cookies, job, embedding, pass, run, since, faults>>

(* handleUpdateSource, handleUpsertSyncSchedule and handleDeleteSyncSchedule without
   a credential: the row as read, with another schedule. *)
EditSource(c, s, schedule) ==
    Reads(c, [x \in {s} |-> [rows[s] EXCEPT !.schedule = schedule]], None, "write", "nothing")

(* handleAttach..., and the requests that name a credential (sourceWithOptionalCredential):
   the credential is looked up, then the rows that lack it are written. *)
Attach(c, sources, k, after) ==
    /\ cookies[k] # "gone"
    /\ Reads(c, [s \in {t \in sources : rows[t].cred # k} |-> [rows[s] EXCEPT !.cred = k]],
             k, "write", after)

(* handleResume...: the sources listed as paused with the credential. *)
ListPaused(c, k) ==
    /\ cookies[k] # "gone"
    /\ Reads(c, [s \in {t \in Sources : rows[t].cred = k /\ rows[t].status = "paused"} |-> rows[s]],
             k, "resume", "nothing")

(* handleDelete...Credential: refused while a source uses it. *)
ListUsers(c, k) ==
    /\ cookies[k] # "gone" /\ \A s \in Sources : rows[s].cred # k
    /\ Reads(c, [s \in {} |-> None], k, "drop", "nothing")

Planned(c) == DOMAIN request[c].plan

Rest(c, s) == [t \in Planned(c) \ {s} |-> request[c].plan[t]]

WriteSource(c) ==
    /\ request[c].pc = "write"
    /\ \E s \in Planned(c) :
          /\ UpdateSource(s, request[c].plan[s])
          /\ request' = [request EXCEPT ![c].plan = Rest(c, s)]
    /\ UNCHANGED <<zone, cookies, job, embedding, pass, run, edits, faults>>

Resume(c) ==
    /\ request[c].pc = "resume"
    /\ \E s \in Planned(c) :
          /\ UpdateSyncState(s, "active")
          /\ request' = [request EXCEPT ![c].plan = Rest(c, s)]
    /\ UNCHANGED <<zone, cookies, job, embedding, pass, run, since, edits, faults>>

(* The end of a request; handleCreateSyncTask inserts its job here, paused or not. *)
Answer(c) ==
    /\ request[c].pc \in {"write", "resume"} /\ Planned(c) = {}
    /\ request' = [request EXCEPT ![c] = NoRequest]
    /\ IF request[c].after \in Sources /\ ~ Refusing(request[c].after)
         THEN Queues(request[c].after)
         ELSE UNCHANGED <<job, run>>
    /\ UNCHANGED <<zone, rows, cookies, embedding, pass, since, edits, faults>>

DropCredential(c) ==
    /\ request[c].pc = "drop"
    /\ cookies' = [cookies EXCEPT ![request[c].cred] = "gone"]
    /\ request' = [request EXCEPT ![c] = NoRequest]
    /\ UNCHANGED <<zone, rows, job, embedding, pass, run, since, edits, faults>>

(* handleUpdate...Credential: a cookie that works.  The status column is never read. *)
RenewCookie(k) ==
    /\ cookies[k] # "gone" /\ Edit
    /\ cookies' = [cookies EXCEPT ![k] = "good"]
    /\ UNCHANGED <<zone, rows, job, embedding, pass, run, request, since, faults>>

(* CancelJob of the latest job: a queued one is canceled, a running one is to be. *)
Cancel(s) ==
    /\ Edit
    /\ \/ /\ job[s].status = "queued"
          /\ job' = [job EXCEPT ![s] = [status |-> "canceled", age |-> 0]]
       \/ /\ job[s].status = "running"
          /\ job' = [job EXCEPT ![s].status = "canceling"]
    /\ UNCHANGED <<zone, rows, cookies, embedding, pass, run, request, since, faults>>

(* The latest job is deleted, which is then an older one, or none: runs on it have no job
   left, and runs that have outlived the older one work on the latest again. *)
DeleteLatest(s) ==
    /\ job[s].status \in {"ended", "canceled"}
    /\ since' = [since EXCEPT ![s] = MaxAge]
    /\ \E older \in {"none", "ended", "canceled"}, age \in 0 .. MaxAge :
       \E back \in SUBSET {p \in Runs : run[p].source = s /\ run[p].own = older} :
          /\ older = "none" => age = MaxAge
          /\ job' = [job EXCEPT ![s] = [status |-> older, age |-> age]]
          /\ run' = [p \in Runs |-> IF p \in back THEN [run[p] EXCEPT !.own = "latest"]
                                    ELSE IF Owns(p, s) THEN [run[p] EXCEPT !.own = "deleted"]
                                    ELSE run[p]]

(* An older job, on which only runs past their lease still work, is deleted. *)
DeleteOlder(s) ==
    /\ \E p \in Runs : /\ run[p].source = s /\ run[p].own \in {"ended", "canceled"}
                       /\ run' = [run EXCEPT ![p].own = "deleted"]
    /\ UNCHANGED <<job, since>>

(* DeleteSyncJob: refused while the job is in progress. *)
DeleteJob(s) ==
    /\ Edit
    /\ DeleteLatest(s) \/ DeleteOlder(s)
    /\ UNCHANGED <<zone, rows, cookies, embedding, pass, request, faults>>

(* handleEmbeddingEnsure, for a source or for all. *)
RequestEnsure(scope) ==
    /\ Edit /\ \A s \in scope : ~ Refusing(s)
    /\ embedding' = embedding \cup {scope}
    /\ UNCHANGED <<zone, rows, cookies, job, pass, run, request, since, faults>>

RequestStep(c) == WriteSource(c) \/ Resume(c) \/ Answer(c) \/ DropCredential(c)

-----------------------------------------------------------------------------
(* The environment *)

Later(age) == IF age < MaxAge THEN age + 1 ELSE MaxAge

(* A job in progress does not age: its age counts from the write that ends it. *)
Tick ==
    /\ job' = [s \in Sources |-> IF InProgress(s) THEN job[s]
                                   ELSE [job[s] EXCEPT !.age = Later(@)]]
    /\ since' = [s \in Sources |-> Later(since[s])]
    /\ UNCHANGED <<zone, rows, cookies, embedding, pass, run, request, edits, faults>>

Expire(k) ==
    /\ cookies[k] = "good" /\ Fault
    /\ cookies' = [cookies EXCEPT ![k] = "bad"]
    /\ UNCHANGED <<zone, rows, job, embedding, pass, run, request, since, edits>>

(* An embedding job ends.  One that defers what it cannot embed has a retry queued before
   it ends, so that its scope may stay in progress for ever. *)
EnsureEnds ==
    /\ \E scope \in embedding : embedding' = embedding \ {scope}
    /\ UNCHANGED <<zone, rows, cookies, job, pass, run, request, since, edits, faults>>

(* The server stops: passes, runs and requests are lost, rows stay. *)
Crash ==
    /\ Fault
    /\ pass' = NoPass
    /\ run' = [p \in Runs |-> NoRun]
    /\ request' = [c \in Requests |-> NoRequest]
    /\ UNCHANGED <<zone, rows, cookies, job, embedding, since, edits>>

Init ==
    /\ zone \in Zones
    /\ rows \in [Sources -> {r \in Row : r.status = "active"}]
    /\ cookies \in [Creds -> {"good", "bad"}]
    /\ job = [s \in Sources |-> [status |-> "none", age |-> MaxAge]]
    /\ embedding = {}
    /\ pass = NoPass
    /\ run = [p \in Runs |-> NoRun]
    /\ request = [c \in Requests |-> NoRequest]
    /\ since = [s \in Sources |-> MaxAge]
    /\ edits = 0
    /\ faults = 0

RequestBegins(c) ==
    \/ \E s \in Sources, i \in Schedules : EditSource(c, s, i)
    \/ \E k \in Creds : \E set \in (SUBSET Sources) \ {{}} : Attach(c, set, k, "nothing")
    \/ \E k \in Creds, s \in Sources : Attach(c, {s}, k, s)
    \/ \E k \in Creds : ListPaused(c, k)
    \/ \E k \in Creds : ListUsers(c, k)

Next ==
    \/ Scheduler
    \/ \E p \in Runs : RunStep(p)
    \/ \E p \in Runs : SyncFails(p)
    \/ \E p \in Runs, s \in Sources : ClaimJob(p, s)
    \/ \E c \in Requests : RequestBegins(c)
    \/ \E c \in Requests : RequestStep(c)
    \/ \E k \in Creds : RenewCookie(k)
    \/ \E s \in Sources : DeleteJob(s) \/ Cancel(s)
    \/ \E scope \in Scopes : RequestEnsure(scope)
    \/ \E k \in Creds : Expire(k)
    \/ EnsureEnds
    \/ Tick
    \/ Crash

Spec == Init /\ [][Next]_vars

(* The ticker starts passes for ever, a free worker claims what is queued, started
   work goes on, and time passes.  Embedding jobs need not end. *)
Fairness ==
    /\ WF_vars(Scheduler)
    /\ \A p \in Runs : WF_vars(RunStep(p))
    /\ \A s \in Sources : WF_vars(\E p \in Runs : ClaimJob(p, s))
    /\ \A c \in Requests : WF_vars(RequestStep(c))
    /\ WF_vars(Tick)

FairSpec == Spec /\ Fairness

-----------------------------------------------------------------------------
(* Properties *)

TypeOK ==
    /\ zone \in Zones
    /\ rows \in [Sources -> Row]
    /\ cookies \in [Creds -> {"good", "bad", "gone"}]
    /\ job \in [Sources -> [status: {"none", "queued", "running", "canceling", "canceled", "ended"},
                           age: 0 .. MaxAge]]
    /\ embedding \subseteq Scopes
    /\ pass.pc \in {"idle", "jobs", "insert"} /\ pass.due \subseteq Sources
    /\ pass.pc = "jobs" => pass.rows \in [Sources -> Row]
    /\ run \in [Runs -> [pc: {"idle", "row", "cookie", "fetch", "activate", "pause", "done",
                              "settle"},
                         source: Sources \cup {None},
                         own: {"latest", "ended", "canceled", "deleted"}, paused: BOOLEAN,
                         cred: Creds \cup {None}, cookie: {"good", "bad", "gone"},
                         alone: BOOLEAN]]
    /\ \A p \in Runs : At(p, "idle") \/ run[p].source \in Sources
    /\ \A c \in Requests :
          /\ request[c].pc \in {"idle", "write", "resume", "drop"}
          /\ Planned(c) \subseteq Sources /\ \A s \in Planned(c) : request[c].plan[s] \in Row
          /\ request[c].cred \in Creds \cup {None}
          /\ request[c].after \in Sources \cup {"nothing"}
    /\ since \in [Sources -> 0 .. MaxAge]
    /\ edits \in 0 .. MaxEdits
    /\ faults \in 0 .. MaxFaults

(* A pause ends with a sync that succeeded or a request to resume, never because a
   request that read the row before the pause writes its settings back after it. *)
PauseSurvivesEdits ==
    [][\A s \in Sources : rows[s].status = "paused" /\ rows'[s].status = "active" =>
          \/ \E p \in Runs : At(p, "activate") /\ run[p].source = s
          \/ \E c \in Requests : request[c].pc = "resume" /\ s \in Planned(c)]_vars

(* The scheduler never syncs a source twice within its interval, as far as the zone
   lets it tell, although it decides on rows and jobs that have changed since; only a
   new schedule or a deleted job makes it forget. *)
ScheduledApart ==
    [][\A s \in Sources : InsertDue(s) /\ ~ Refusing(s) =>
          since[s] + zone >= rows[s].schedule]_vars

(* A sync that succeeds leaves its source active, unless another run of the source,
   past its lease, paused it in between. *)
SuccessActivates ==
    \A p \in Runs : At(p, "done") /\ run[p].alone => rows[run[p].source].status = "active"

Refused(s) == rows[s].cred # None /\ cookies[rows[s].cred] # "good"

(* A sync whose cancellation was asked for and whose worker is gone: the row stays
   "canceling", which nothing undoes, and counts as in progress. *)
Stuck(s) == job[s].status = "canceling" /\ \A p \in Runs : ~ Owns(p, s)

(* Embedding jobs do not hold the syncs of a source off for ever. *)
EmbeddingMakesRoom(s) == []<>(\A scope \in embedding : s \notin scope)

(* A source on a schedule whose credential is refused does not go on being tried: it
   is paused in the end, whatever cancels, stops or overtakes the runs that find out.  Not
   so where nothing is tried any more: a cancellation that a stop left behind (Stuck), or
   embedding jobs that follow each other for ever. *)
RefusedIsPaused ==
    \A s \in Sources :
        EmbeddingMakesRoom(s) =>
            (Refused(s) /\ rows[s].schedule # 0
                ~> rows[s].status = "paused" \/ ~ Refused(s) \/ rows[s].schedule = 0 \/ Stuck(s))

(* A source that stays active and scheduled is synced again and again, whatever the
   zone and the cancellations: a sync begins later, never not at all, unless a stop left
   a cancellation behind or embedding jobs follow each other for ever. *)
ScheduledIsServed ==
    \A s \in Sources :
        EmbeddingMakesRoom(s) =>
            (rows[s].schedule # 0 ~> \/ rows[s].schedule = 0 \/ rows[s].status = "paused"
                                     \/ job[s].status = "running" \/ Stuck(s))

=============================================================================
