-------------------------- MODULE SchedulingProofs --------------------------
(***************************************************************************)
(* Theorems about Scheduling, for every number of sources, credentials,    *)
(* runs, requests, edits and faults, every set of intervals and every      *)
(* zone: the type invariant, that edits take back no pause, that scheduled *)
(* syncs keep their distance, and that a success leaves a source active.   *)
(*                                                                         *)
(* The scheduler decides on rows and jobs it has listed; the strengthening *)
(* says what of that still holds when it inserts (PassHolds), and of a run *)
(* that no other pauses its source without its notice (RunsHold).          *)
(***************************************************************************)
EXTENDS Scheduling, TLAPS

Plans == UNION {[set -> Row] : set \in SUBSET Sources}

PassRecord == [pc: {"idle", "jobs", "insert"}, rows: [Sources -> Row] \cup [{} -> Row],
               due: SUBSET Sources]

JobRecord == [status: {"none", "queued", "running", "canceling", "canceled", "ended"},
              age: 0 .. MaxAge]

RunRecord == [pc: {"idle", "row", "cookie", "fetch", "activate", "pause", "done", "settle"},
              source: Sources \cup {None}, own: {"latest", "ended", "canceled", "deleted"},
              paused: BOOLEAN, cred: Creds \cup {None}, cookie: {"good", "bad", "gone"}, alone: BOOLEAN]

RequestRecord == [pc: {"idle", "write", "resume", "drop"}, plan: Plans,
                  cred: Creds \cup {None}, after: Sources \cup {"nothing"}]

RowsTyped == zone \in Zones /\ rows \in [Sources -> Row]

JobsTyped == job \in [Sources -> JobRecord] /\ since \in [Sources -> 0 .. MaxAge]

PassTyped == pass \in PassRecord /\ (pass.pc = "jobs" => pass.rows \in [Sources -> Row])

RunsTyped ==
    /\ run \in [Runs -> RunRecord]
    /\ \A p \in Runs : At(p, "idle") \/ run[p].source \in Sources

RequestsTyped == request \in [Requests -> RequestRecord]

OthersTyped ==
    /\ embedding \subseteq Scopes
    /\ cookies \in [Creds -> {"good", "bad", "gone"}]
    /\ edits \in 0 .. MaxEdits
    /\ faults \in 0 .. MaxFaults

Typed == RowsTyped /\ JobsTyped /\ PassTyped /\ RunsTyped /\ RequestsTyped /\ OthersTyped

(* The latest job is no older than the last one the scheduler inserted. *)
JobsHold ==
    \A s \in Sources : /\ job[s].status = "none" => since[s] = MaxAge
                       /\ job[s].status \in {"ended", "canceled"} => job[s].age <= since[s]

(* A schedule that changed since it was listed has nothing to keep a distance from,
   and what is due was long enough ago. *)
PassHolds ==
    /\ pass.pc = "jobs" =>
          \A s \in Sources : since[s] = MaxAge \/ pass.rows[s].schedule = rows[s].schedule
    /\ pass.pc = "insert" =>
          \A s \in pass.due : since[s] + zone >= rows[s].schedule

(* A run that found its source active, or activated it, sees it active unless told. *)
RunsHold ==
    \A p \in Runs : run[p].alone =>
        /\ At(p, "cookie") \/ At(p, "fetch") =>
              run[p].paused \/ rows[run[p].source].status = "active"
        /\ At(p, "done") => rows[run[p].source].status = "active"

Inv == Typed /\ JobsHold /\ PassHolds /\ RunsHold

-----------------------------------------------------------------------------
(* Values *)

LEMMA NoPassTyped == NoPass \in PassRecord /\ NoPass.pc = "idle"
  BY DEF NoPass, PassRecord

LEMMA NoRunTyped == NoRun \in RunRecord /\ NoRun.pc = "idle" /\ NoRun.source = None
  BY DEF NoRun, RunRecord

LEMMA NoRequestTyped == NoRequest \in RequestRecord
<1>1. [s \in {} |-> None] \in [{} -> Row]
  OBVIOUS
<1> QED BY <1>1 DEF NoRequest, RequestRecord, Plans

LEMMA InsertingTyped ==
  ASSUME NEW due \in SUBSET Sources
  PROVE  /\ Inserting(due) \in PassRecord
         /\ Inserting(due).pc \in {"idle", "insert"}
         /\ Inserting(due).due = due
<1>1. NoPass.due = {} /\ NoPass \in PassRecord /\ NoPass.pc = "idle"
  BY NoPassTyped DEF NoPass
<1>2. CASE due = {}
  BY <1>1, <1>2 DEF Inserting
<1>3. CASE due # {}
  <2>1. Inserting(due) = [NoPass EXCEPT !.pc = "insert", !.due = due]
    BY <1>3 DEF Inserting
  <2> QED BY <1>1, <2>1 DEF PassRecord
<1> QED BY <1>2, <1>3

(* Every interval is over after MaxAge, in any zone. *)
LEMMA LongAgo ==
  ASSUME RowsTyped, NEW row \in Row
  PROVE  MaxAge + zone >= row.schedule /\ zone \in Int /\ row.schedule \in Nat /\ MaxAge \in Nat
  BY TimesAssumption DEF RowsTyped, Row

LEMMA InitialInv == Init => Inv
<1> SUFFICES ASSUME Init PROVE Inv
  OBVIOUS
<1>1. Typed
  BY NoPassTyped, NoRunTyped, NoRequestTyped, TimesAssumption, BoundsAssumption
  DEF Init, Typed, RowsTyped, JobsTyped, JobRecord, PassTyped, RunsTyped, At, RequestsTyped,
      OthersTyped
<1>2. JobsHold
  BY DEF Init, JobsHold
<1>3. PassHolds
  BY NoPassTyped DEF Init, PassHolds
<1>4. RunsHold
  BY NoRunTyped DEF Init, RunsHold, At
<1> QED BY <1>1, <1>2, <1>3, <1>4 DEF Inv

(* What the invariant says suffices. *)
LEMMA InvSuffices == Inv => TypeOK /\ SuccessActivates
<1> SUFFICES ASSUME Inv PROVE TypeOK /\ SuccessActivates
  OBVIOUS
<1>1. SuccessActivates
  BY DEF Inv, RunsHold, SuccessActivates
<1>2. ASSUME NEW c \in Requests
      PROVE  /\ request[c].pc \in {"idle", "write", "resume", "drop"}
             /\ Planned(c) \subseteq Sources /\ \A s \in Planned(c) : request[c].plan[s] \in Row
             /\ request[c].cred \in Creds \cup {None}
             /\ request[c].after \in Sources \cup {"nothing"}
  BY DEF Inv, Typed, RequestsTyped, RequestRecord, Plans, Planned
<1>3. TypeOK
  BY <1>2 DEF Inv, Typed, RowsTyped, JobsTyped, JobRecord, PassTyped, PassRecord, RunsTyped,
              RunRecord, OthersTyped, TypeOK
<1> QED BY <1>1, <1>3

-----------------------------------------------------------------------------
(* Steps by what they change *)

(* The row of one job. *)
LEMMA JobBecomes ==
  ASSUME Inv, NEW s \in Sources, NEW j \in JobRecord, job' = [job EXCEPT ![s] = j],
         since' \in [Sources -> 0 .. MaxAge],
         \A t \in Sources \ {s} : since'[t] = since[t],
         j.status = "none" => since'[s] = MaxAge,
         j.status \in {"ended", "canceled"} => j.age <= since'[s]
  PROVE  JobsTyped' /\ JobsHold'
<1>1. \A t \in Sources : job'[t] = IF t = s THEN j ELSE job[t]
  BY DEF Inv, Typed, JobsTyped
<1>2. JobsTyped'
  BY <1>1 DEF Inv, Typed, JobsTyped
<1>3. JobsHold'
  BY <1>1 DEF Inv, JobsHold
<1> QED BY <1>2, <1>3

(* What a run, a worker or a request makes of the latest job. *)
LEMMA JobChanges ==
  ASSUME Inv, NEW s \in Sources, UNCHANGED since,
         \/ UNCHANGED job
         \/ \E status \in {"queued", "running", "canceled", "ended"} :
               job' = [job EXCEPT ![s] = [status |-> status, age |-> 0]]
         \/ job' = [job EXCEPT ![s].status = "canceling"]
  PROVE  JobsTyped' /\ JobsHold'
<1>1. /\ job \in [Sources -> JobRecord]
      /\ job[s] \in JobRecord /\ MaxAge \in Nat /\ since[s] \in 0 .. MaxAge
  BY TimesAssumption DEF Inv, Typed, JobsTyped
<1>2. 0 \in 0 .. MaxAge
  BY <1>1
<1>3. CASE UNCHANGED job
  BY <1>3 DEF Inv, Typed, JobsTyped, JobsHold
<1>4. \/ UNCHANGED job
      \/ \E j \in JobRecord : /\ job' = [job EXCEPT ![s] = j]
                              /\ j.status # "none"
                              /\ j.status \in {"ended", "canceled"} => j.age = 0
  <2>1. ASSUME NEW status \in {"queued", "running", "canceled", "ended"},
               job' = [job EXCEPT ![s] = [status |-> status, age |-> 0]]
        PROVE  \E j \in JobRecord : /\ job' = [job EXCEPT ![s] = j]
                                    /\ j.status # "none"
                                    /\ j.status \in {"ended", "canceled"} => j.age = 0
    <3> DEFINE j == [status |-> status, age |-> 0]
    <3>1. j \in JobRecord /\ j.status # "none" /\ j.age = 0
      BY <1>2 DEF JobRecord
    <3> QED BY <2>1, <3>1
  <2>2. CASE job' = [job EXCEPT ![s].status = "canceling"]
    <3>1. PICK j : /\ j = [job[s] EXCEPT !.status = "canceling"]
                   /\ job' = [job EXCEPT ![s] = j]
      BY <1>1, <2>2, Zenon
    <3>2. j \in JobRecord /\ j.status = "canceling"
      BY <1>1, <3>1 DEF JobRecord
    <3> QED BY <3>1, <3>2
  <2> QED BY <2>1, <2>2
<1>5. ASSUME NEW j \in JobRecord, job' = [job EXCEPT ![s] = j], j.status # "none",
             j.status \in {"ended", "canceled"} => j.age = 0
      PROVE  JobsTyped' /\ JobsHold'
  <2>1. since' \in [Sources -> 0 .. MaxAge] /\ since'[s] = since[s] /\ 0 <= since[s]
    BY <1>1 DEF Inv, Typed, JobsTyped
  <2> QED BY <1>5, <2>1, JobBecomes
<1> QED BY <1>3, <1>4, <1>5

LEMMA EndsOwnChanges ==
  ASSUME Inv, NEW p \in Runs, run[p].source \in Sources, UNCHANGED since,
         EndsOwn(p) \/ UNCHANGED job
  PROVE  JobsTyped' /\ JobsHold'
<1>1. \/ UNCHANGED job
      \/ job' = [job EXCEPT ![run[p].source] = [status |-> "ended", age |-> 0]]
  BY DEF EndsOwn
<1> QED BY <1>1, JobChanges

(* A job that is inserted or deleted tells runs what became of theirs, and no more. *)
LEMMA OwnsChange ==
  ASSUME Inv, UNCHANGED rows,
         NEW own \in [Runs -> {"latest", "ended", "canceled", "deleted"}],
         run' = [p \in Runs |-> [run[p] EXCEPT !.own = own[p]]]
  PROVE  RunsTyped' /\ RunsHold'
<1>1. ASSUME NEW p \in Runs
      PROVE  /\ run'[p] \in RunRecord /\ run'[p].pc = run[p].pc
             /\ run'[p].source = run[p].source /\ run'[p].paused = run[p].paused
             /\ run'[p].alone = run[p].alone
  <2>1. run'[p] = [run[p] EXCEPT !.own = own[p]] /\ run[p] \in RunRecord
    BY DEF Inv, Typed, RunsTyped
  <2> QED BY <2>1 DEF RunRecord
<1>2. run' \in [Runs -> RunRecord]
  BY <1>1
<1>3. RunsTyped'
  BY <1>1, <1>2 DEF Inv, Typed, RunsTyped, At
<1>4. RunsHold'
  BY <1>1 DEF Inv, RunsHold, At
<1> QED BY <1>3, <1>4

LEMMA OwnKept ==
  ASSUME Inv, NEW p \in Runs
  PROVE  run[p].own \in {"latest", "ended", "canceled", "deleted"}
         /\ run[p] = [run[p] EXCEPT !.own = run[p].own]
<1>1. run[p] \in RunRecord
  BY DEF Inv, Typed, RunsTyped
<1> QED BY <1>1 DEF RunRecord

LEMMA QueuesChange ==
  ASSUME Inv, NEW s \in Sources, UNCHANGED rows, Queues(s)
  PROVE  RunsTyped' /\ RunsHold'
<1> DEFINE own == [p \in Runs |-> IF Owns(p, s) THEN Outcome(s) ELSE run[p].own]
<1>1. own \in [Runs -> {"latest", "ended", "canceled", "deleted"}]
  BY OwnKept DEF Outcome
<1>2. ASSUME NEW p \in Runs
      PROVE  (IF Owns(p, s) THEN [run[p] EXCEPT !.own = Outcome(s)] ELSE run[p])
                = [run[p] EXCEPT !.own = own[p]]
  BY OwnKept
<1>3. run' = [p \in Runs |-> [run[p] EXCEPT !.own = own[p]]]
  BY <1>2 DEF Queues
<1> HIDE DEF own
<1> QED BY <1>1, <1>3, OwnsChange

(* What a worker has left to settle. *)
LEMMA SettlingTyped ==
  ASSUME NEW p \in Runs, run[p].source \in Sources
  PROVE  /\ Settling(p) \in RunRecord
         /\ Settling(p).pc \in {"idle", "settle"}
         /\ Settling(p).pc = "idle" \/ Settling(p).source \in Sources
<1>1. [NoRun EXCEPT !.pc = "settle", !.source = run[p].source] \in RunRecord
  BY DEF NoRun, RunRecord
<1>2. /\ [NoRun EXCEPT !.pc = "settle", !.source = run[p].source].pc = "settle"
      /\ [NoRun EXCEPT !.pc = "settle", !.source = run[p].source].source = run[p].source
  BY DEF NoRun
<1> QED BY <1>1, <1>2, NoRunTyped DEF Settling

(* One run moves on. *)
LEMMA RunMoves ==
  ASSUME Inv, NEW p \in Runs, NEW r \in RunRecord, run' = [run EXCEPT ![p] = r],
         r.pc = "idle" \/ r.source \in Sources,
         UNCHANGED <<zone, rows, cookies, pass, request, since, edits>>,
         faults' \in 0 .. MaxFaults, embedding' \subseteq Scopes,
         JobsTyped', JobsHold',
         r.alone =>
            /\ r.pc \in {"cookie", "fetch"} => r.paused \/ rows[r.source].status = "active"
            /\ r.pc = "done" => rows[r.source].status = "active"
  PROVE  Inv'
<1>1. \A q \in Runs : run'[q] = IF q = p THEN r ELSE run[q]
  BY DEF Inv, Typed, RunsTyped
<1>2. RunsTyped'
  BY <1>1 DEF Inv, Typed, RunsTyped, At
<1>3. RunsHold'
  BY <1>1 DEF Inv, RunsHold, At
<1>4. PassHolds'
  BY DEF Inv, PassHolds
<1>5. Typed'
  BY <1>2 DEF Inv, Typed, RowsTyped, PassTyped, RequestsTyped, OthersTyped
<1> QED BY <1>3, <1>4, <1>5 DEF Inv

(* The state of one source is set; its schedule stays. *)
LEMMA StatusSet ==
  ASSUME Inv, NEW s \in Sources, NEW status \in {"active", "paused"}, UpdateSyncState(s, status)
  PROVE  /\ rows' \in [Sources -> Row]
         /\ \A t \in Sources : /\ rows'[t].schedule = rows[t].schedule
                               /\ rows'[t].status = IF t = s THEN status ELSE rows[t].status
<1>1. rows[s] \in Row /\ rows \in [Sources -> Row]
  BY DEF Inv, Typed, RowsTyped
<1>2. rows' = [rows EXCEPT ![s].status = status]
  BY DEF UpdateSyncState
<1> QED BY <1>1, <1>2 DEF Row

(* Settings are written; the state stays, and a new schedule starts afresh. *)
LEMMA SettingsSet ==
  ASSUME Inv, NEW s \in Sources, NEW wanted \in Row, UpdateSource(s, wanted)
  PROVE  /\ rows' \in [Sources -> Row]
         /\ \A t \in Sources : rows'[t].status = rows[t].status
         /\ since' \in [Sources -> 0 .. MaxAge]
         /\ \A t \in Sources : \/ rows'[t].schedule = rows[t].schedule /\ since'[t] = since[t]
                               \/ since'[t] = MaxAge
<1>1. rows[s] \in Row /\ rows \in [Sources -> Row] /\ since \in [Sources -> 0 .. MaxAge]
  BY DEF Inv, Typed, RowsTyped, JobsTyped
<1>2. PICK row : /\ row = [rows[s] EXCEPT !.schedule = wanted.schedule, !.cred = wanted.cred]
                 /\ rows' = [rows EXCEPT ![s] = row]
  BY DEF UpdateSource, SettingsWritten
<1>3. row \in Row /\ row.status = rows[s].status /\ row.schedule = wanted.schedule
  BY <1>1, <1>2 DEF Row
<1>4. \A t \in Sources : rows'[t] = IF t = s THEN row ELSE rows[t]
  BY <1>1, <1>2
<1>5. rows' \in [Sources -> Row]
  BY <1>1, <1>2, <1>3
<1>6. CASE rows[s].schedule = wanted.schedule
  <2>1. since' = since
    BY <1>6 DEF UpdateSource
  <2> QED BY <1>1, <1>3, <1>4, <1>5, <1>6, <2>1
<1>7. CASE rows[s].schedule # wanted.schedule
  <2>1. since' = [since EXCEPT ![s] = MaxAge]
    BY <1>7 DEF UpdateSource
  <2>2. MaxAge \in 0 .. MaxAge
    BY TimesAssumption
  <2> QED BY <1>1, <1>3, <1>4, <1>5, <2>1, <2>2
<1> QED BY <1>6, <1>7

(* A request moves on and nothing else happens to passes, jobs and runs. *)
LEMMA RequestMoves ==
  ASSUME Inv, NEW c \in Requests, NEW r \in RequestRecord, request' = [request EXCEPT ![c] = r]
  PROVE  RequestsTyped'
  BY DEF Inv, Typed, RequestsTyped

(* Neither rows, runs nor passes change. *)
LEMMA QuietRows ==
  ASSUME Inv, UNCHANGED <<zone, rows, pass, run, since>>
  PROVE  RowsTyped' /\ PassTyped' /\ RunsTyped' /\ PassHolds' /\ RunsHold'
<1>1. RowsTyped' /\ PassTyped' /\ PassHolds'
  BY DEF Inv, Typed, RowsTyped, PassTyped, PassHolds
<1>2. RunsTyped' /\ RunsHold'
  BY DEF Inv, Typed, RunsTyped, At, RunsHold
<1> QED BY <1>1, <1>2

LEMMA QuietJobs ==
  ASSUME Inv, UNCHANGED <<job, since>>
  PROVE  JobsTyped' /\ JobsHold'
  BY DEF Inv, Typed, JobsTyped, JobsHold

-----------------------------------------------------------------------------
(* The scheduler *)

LEMMA SchedulerKeeps ==
  ASSUME Inv, Scheduler
  PROVE  Inv'
<1>1. CASE ListSources
  <2>1. JobsTyped' /\ JobsHold'
    BY <1>1, QuietJobs DEF ListSources
  <2>2. PassTyped'
    BY <1>1 DEF ListSources, PassTyped, PassRecord, Inv, Typed, RowsTyped
  <2>3. PassHolds'
    BY <1>1 DEF ListSources, PassHolds
  <2>4. RunsTyped' /\ RunsHold'
    BY <1>1 DEF ListSources, Inv, Typed, RunsTyped, At, RunsHold
  <2>5. RowsTyped' /\ RequestsTyped' /\ OthersTyped'
    BY <1>1 DEF ListSources, Inv, Typed, RowsTyped, RequestsTyped, OthersTyped
  <2> QED BY <2>1, <2>2, <2>3, <2>4, <2>5 DEF Inv, Typed
<1>2. CASE ListLatestJobs
  <2> DEFINE due == {s \in Sources : Due(pass.rows[s], s)}
  <2>1. JobsTyped' /\ JobsHold'
    BY <1>2, QuietJobs DEF ListLatestJobs
  <2>2. /\ pass' \in PassRecord /\ pass'.pc \in {"idle", "insert"} /\ pass'.due = due
    BY <1>2, InsertingTyped DEF ListLatestJobs
  <2>3. PassTyped'
    BY <2>2 DEF PassTyped
  <2>4. PassHolds'
    <3>1. ASSUME NEW s \in due PROVE since[s] + zone >= rows[s].schedule
      <4>1. \/ since[s] = MaxAge
            \/ pass.rows[s].schedule = rows[s].schedule
        BY <1>2 DEF ListLatestJobs, Inv, PassHolds
      <4>2. \/ job[s].status = "none"
            \/ /\ job[s].status \in {"ended", "canceled"}
               /\ job[s].age + zone >= pass.rows[s].schedule
        BY DEF Due, AgeRead
      <4>3. \/ since[s] = MaxAge
            \/ job[s].age <= since[s] /\ job[s].age + zone >= pass.rows[s].schedule
        BY <4>2 DEF Inv, JobsHold
      <4>4. /\ rows[s] \in Row /\ zone \in Int /\ since[s] \in Int /\ job[s].age \in Int
            /\ rows[s].schedule \in Nat /\ MaxAge + zone >= rows[s].schedule
        BY LongAgo, TimesAssumption DEF Inv, Typed, RowsTyped, JobsTyped, JobRecord
      <4> QED BY <4>1, <4>3, <4>4
    <3>2. UNCHANGED <<zone, rows, since>>
      BY <1>2 DEF ListLatestJobs
    <3> QED BY <2>2, <3>1, <3>2 DEF PassHolds
  <2>5. RunsTyped' /\ RunsHold'
    BY <1>2 DEF ListLatestJobs, Inv, Typed, RunsTyped, At, RunsHold
  <2>6. RowsTyped' /\ RequestsTyped' /\ OthersTyped'
    BY <1>2 DEF ListLatestJobs, Inv, Typed, RowsTyped, RequestsTyped, OthersTyped
  <2> QED BY <2>1, <2>3, <2>4, <2>5, <2>6 DEF Inv, Typed
<1>3. ASSUME NEW s \in Sources, InsertDue(s) PROVE Inv'
  <2>1. /\ pass.pc = "insert" /\ s \in pass.due /\ pass.due \subseteq Sources
        /\ pass' = Inserting(pass.due \ {s})
        /\ UNCHANGED <<zone, rows, cookies, embedding, request, edits, faults>>
    BY <1>3 DEF InsertDue, Inv, Typed, PassTyped, PassRecord
  <2>2. /\ pass' \in PassRecord /\ pass'.pc \in {"idle", "insert"} /\ pass'.due = pass.due \ {s}
    BY <2>1, InsertingTyped
  <2>3. JobsTyped' /\ JobsHold' /\ \A t \in Sources \ {s} : since'[t] = since[t]
    <3>1. CASE Refusing(s)
      BY <1>3, <3>1, QuietJobs DEF InsertDue
    <3>2. CASE ~ Refusing(s)
      <4> DEFINE j == [status |-> "queued", age |-> 0]
      <4>1. job' = [job EXCEPT ![s] = j] /\ since' = [since EXCEPT ![s] = 0]
        BY <1>3, <3>2 DEF InsertDue, Queues
      <4>2. j \in JobRecord /\ 0 \in 0 .. MaxAge
        BY TimesAssumption DEF JobRecord
      <4>3. /\ since' \in [Sources -> 0 .. MaxAge]
            /\ \A t \in Sources \ {s} : since'[t] = since[t]
        BY <4>1, <4>2 DEF Inv, Typed, JobsTyped
      <4> QED BY <4>1, <4>2, <4>3, JobBecomes
    <3> QED BY <3>1, <3>2
  <2>4. PassTyped'
    BY <2>2 DEF PassTyped
  <2>5. PassHolds'
    BY <2>1, <2>2, <2>3 DEF PassHolds, Inv
  <2>6. RunsTyped' /\ RunsHold'
    <3>1. CASE Refusing(s)
      <4>1. UNCHANGED <<rows, run>>
        BY <1>3, <3>1 DEF InsertDue
      <4> QED BY <4>1 DEF Inv, Typed, RunsTyped, At, RunsHold
    <3>2. CASE ~ Refusing(s)
      BY <1>3, <2>1, <3>2, QueuesChange DEF InsertDue
    <3> QED BY <3>1, <3>2
  <2>7. RowsTyped' /\ RequestsTyped' /\ OthersTyped'
    BY <2>1 DEF Inv, Typed, RowsTyped, RequestsTyped, OthersTyped
  <2> QED BY <2>3, <2>4, <2>5, <2>6, <2>7 DEF Inv, Typed
<1> QED BY <1>1, <1>2, <1>3 DEF Scheduler

-----------------------------------------------------------------------------
(* The runs *)

LEMMA RunsKeep ==
  ASSUME Inv, NEW p \in Runs,
         RunStep(p) \/ SyncFails(p) \/ \E s \in Sources : ClaimJob(p, s)
  PROVE  Inv'
<1>1. /\ run[p] \in RunRecord
      /\ At(p, "idle") \/ run[p].source \in Sources
      /\ run[p].alone =>
            /\ At(p, "cookie") \/ At(p, "fetch") =>
                  run[p].paused \/ rows[run[p].source].status = "active"
            /\ At(p, "done") => rows[run[p].source].status = "active"
  BY DEF Inv, Typed, RunsTyped, RunsHold
<1>2. faults \in 0 .. MaxFaults /\ embedding \subseteq Scopes
  BY DEF Inv, Typed, OthersTyped
<1>3. ASSUME NEW s \in Sources, ClaimJob(p, s) PROVE Inv'
  <2>1. PICK r : r = [NoRun EXCEPT !.pc = "row", !.source = s] /\ run' = [run EXCEPT ![p] = r]
    BY <1>3 DEF ClaimJob
  <2>2. r \in RunRecord /\ r.pc = "row" /\ r.source = s
    BY <2>1 DEF NoRun, RunRecord
  <2>3. JobsTyped' /\ JobsHold'
    BY <1>3, JobChanges DEF ClaimJob
  <2>4. UNCHANGED <<zone, rows, cookies, embedding, pass, request, since, edits, faults>>
    BY <1>3 DEF ClaimJob
  <2> QED BY <1>2, <2>1, <2>2, <2>3, <2>4, RunMoves
<1>4. CASE ReadSource(p)
  <2>1. PICK r : /\ r = [run[p] EXCEPT !.pc = "cookie", !.cred = rows[run[p].source].cred,
                                       !.alone = TRUE, !.paused = rows[run[p].source].status = "paused"]
                 /\ run' = [run EXCEPT ![p] = r]
    BY <1>4, Zenon DEF ReadSource, Inv, Typed, RunsTyped
  <2>2. run[p].source \in Sources /\ rows[run[p].source] \in Row
    BY <1>1, <1>4 DEF ReadSource, At, Inv, Typed, RowsTyped
  <2>3. rows[run[p].source].cred \in Creds \cup {None}
    BY <2>2 DEF Row
  <2>4. (rows[run[p].source].status = "paused") \in BOOLEAN
    OBVIOUS
  <2>5. /\ r \in RunRecord /\ r.pc = "cookie" /\ r.source = run[p].source
        /\ r.paused = (rows[run[p].source].status = "paused")
    BY <1>1, <2>1, <2>3, <2>4 DEF RunRecord
  <2>6. r.paused \/ rows[r.source].status = "active"
    BY <2>2, <2>5 DEF Row
  <2>7. /\ UNCHANGED <<zone, rows, cookies, embedding, pass, request, since, edits, faults>>
        /\ JobsTyped' /\ JobsHold'
    BY <1>4, QuietJobs DEF ReadSource
  <2> QED BY <1>2, <2>1, <2>2, <2>5, <2>6, <2>7, RunMoves
<1>5. CASE ResolveCookie(p)
  <2>1. PICK cookie, r :
          /\ cookie = IF run[p].cred = None THEN "good" ELSE cookies[run[p].cred]
          /\ r = [run[p] EXCEPT !.pc = "fetch", !.cookie = cookie, !.cred = None]
          /\ run' = [run EXCEPT ![p] = r]
    BY <1>5, Zenon DEF ResolveCookie, Inv, Typed, RunsTyped
  <2>2. cookie \in {"good", "bad", "gone"}
    BY <1>1, <2>1 DEF RunRecord, Inv, Typed, OthersTyped
  <2>3. /\ r \in RunRecord /\ r.pc = "fetch" /\ r.source = run[p].source
        /\ r.paused = run[p].paused /\ r.alone = run[p].alone
    BY <1>1, <2>1, <2>2 DEF RunRecord
  <2>4. /\ UNCHANGED <<zone, rows, cookies, embedding, pass, request, since, edits, faults>>
        /\ JobsTyped' /\ JobsHold'
        /\ At(p, "cookie")
    BY <1>5, QuietJobs DEF ResolveCookie
  <2>5. r.source \in Sources
    BY <1>1, <2>3, <2>4 DEF At
  <2> QED BY <1>1, <1>2, <2>1, <2>3, <2>4, <2>5, RunMoves
<1>6. CASE SyncSucceeds(p)
  <2>1. PICK r : /\ r = [run[p] EXCEPT !.pc = Completed(p), !.paused = FALSE]
                 /\ run' = [run EXCEPT ![p] = r]
    BY <1>6, Zenon DEF SyncSucceeds, Inv, Typed, RunsTyped
  <2>2. Completed(p) = IF run[p].paused THEN "activate" ELSE "done"
    BY DEF Completed
  <2>3. /\ r \in RunRecord /\ r.source = run[p].source /\ r.alone = run[p].alone
        /\ r.pc = Completed(p)
    BY <1>1, <2>1, <2>2 DEF RunRecord
  <2>4. /\ At(p, "fetch") /\ run[p].source \in Sources /\ EndsOwn(p)
        /\ UNCHANGED <<zone, rows, cookies, embedding, pass, request, since, edits, faults>>
    BY <1>1, <1>6 DEF SyncSucceeds, At
  <2>5. JobsTyped' /\ JobsHold'
    BY <2>4, EndsOwnChanges
  <2> QED BY <1>1, <1>2, <2>1, <2>2, <2>3, <2>4, <2>5, RunMoves
<1>7. CASE Activate(p)
  <2>1. PICK r : r = [run[p] EXCEPT !.pc = "done"] /\ run' = [run EXCEPT ![p] = r]
    BY <1>7, Zenon DEF Activate, Inv, Typed, RunsTyped
  <2>2. /\ r \in RunRecord /\ r.pc = "done" /\ r.source = run[p].source /\ r.source \in Sources
    BY <1>1, <1>7, <2>1 DEF RunRecord, Activate, At
  <2>3. /\ UpdateSyncState(run[p].source, "active")
        /\ UNCHANGED <<zone, cookies, job, embedding, pass, request, since, edits, faults>>
    BY <1>7 DEF Activate
  <2>4. /\ rows' \in [Sources -> Row]
        /\ \A t \in Sources : /\ rows'[t].schedule = rows[t].schedule
                              /\ rows'[t].status = IF t = run[p].source THEN "active"
                                                   ELSE rows[t].status
    BY <2>2, <2>3, StatusSet
  <2>5. \A q \in Runs : run'[q] = IF q = p THEN r ELSE run[q]
    BY <2>1 DEF Inv, Typed, RunsTyped
  <2>6. RunsTyped'
    BY <2>1, <2>2, <2>5 DEF Inv, Typed, RunsTyped, At
  <2>7. RunsHold'
    <3>1. ASSUME NEW q \in Runs, q # p, At(q, "cookie") \/ At(q, "fetch") \/ At(q, "done")
          PROVE  run'[q] = run[q] /\ run[q].source \in Sources
      BY <2>5, <3>1 DEF Inv, Typed, RunsTyped, At
    <3> QED BY <2>2, <2>4, <2>5, <3>1 DEF Inv, RunsHold, At
  <2>8. PassHolds' /\ PassTyped'
    BY <2>3, <2>4 DEF Inv, Typed, PassTyped, PassRecord, PassHolds
  <2>9. JobsTyped' /\ JobsHold'
    BY <2>3, QuietJobs
  <2>10. RowsTyped' /\ RequestsTyped' /\ OthersTyped'
    BY <2>3, <2>4 DEF Inv, Typed, RowsTyped, RequestsTyped, OthersTyped
  <2> QED BY <2>6, <2>7, <2>8, <2>9, <2>10 DEF Inv, Typed
<1>8. CASE CredentialRefused(p)
  <2>1. PICK r : /\ r = [NoRun EXCEPT !.pc = "pause", !.source = run[p].source,
                                     !.own = run[p].own]
                 /\ run' = [run EXCEPT ![p] = r]
    BY <1>8 DEF CredentialRefused
  <2>2. /\ At(p, "fetch") /\ run[p].source \in Sources /\ EndsOwn(p)
        /\ UNCHANGED <<zone, rows, cookies, embedding, pass, request, since, edits, faults>>
    BY <1>1, <1>8 DEF CredentialRefused, At
  <2>3. r \in RunRecord /\ r.pc = "pause" /\ r.source \in Sources
    BY <1>1, <2>1, <2>2 DEF NoRun, RunRecord
  <2>4. JobsTyped' /\ JobsHold'
    BY <2>2, EndsOwnChanges
  <2> QED BY <1>2, <2>1, <2>2, <2>3, <2>4, RunMoves
<1>9. CASE Pause(p)
  <2>1. /\ UpdateSyncState(run[p].source, "paused") /\ run[p].source \in Sources
        /\ UNCHANGED <<zone, cookies, job, embedding, pass, request, since, edits, faults>>
    BY <1>1, <1>9 DEF Pause, At
  <2>2. /\ rows' \in [Sources -> Row]
        /\ \A t \in Sources : /\ rows'[t].schedule = rows[t].schedule
                              /\ rows'[t].status = IF t = run[p].source THEN "paused"
                                                   ELSE rows[t].status
    BY <2>1, StatusSet
  <2>3. run' = [q \in Runs |->
                  IF q = p THEN Settling(p)
                  ELSE [run[q] EXCEPT !.alone = @ /\ run[q].source # run[p].source]]
    BY <1>9 DEF Pause
  <2>4. ASSUME NEW q \in Runs, q # p
        PROVE  /\ run'[q] \in RunRecord /\ run'[q].pc = run[q].pc
               /\ run'[q].source = run[q].source /\ run'[q].paused = run[q].paused
               /\ run'[q].alone => run[q].alone /\ run[q].source # run[p].source
    <3>1. PICK alone : /\ alone = (run[q].alone /\ run[q].source # run[p].source)
                       /\ run'[q] = [run[q] EXCEPT !.alone = alone]
      BY <2>3, <2>4
    <3>2. run[q] \in RunRecord /\ alone \in BOOLEAN
      BY <3>1 DEF Inv, Typed, RunsTyped
    <3> QED BY <3>1, <3>2 DEF RunRecord
  <2>5. /\ run'[p] = Settling(p) /\ Settling(p) \in RunRecord
        /\ Settling(p).pc \in {"idle", "settle"}
        /\ Settling(p).pc = "idle" \/ Settling(p).source \in Sources
    BY <2>1, <2>3, SettlingTyped
  <2>6. RunsTyped'
    <3>1. \A q \in Runs : run'[q] \in RunRecord
      BY <2>4, <2>5
    <3>2. run' \in [Runs -> RunRecord]
      BY <2>3, <3>1
    <3>3. \A q \in Runs : run'[q].pc = "idle" \/ run'[q].source \in Sources
      BY <2>4, <2>5 DEF Inv, Typed, RunsTyped, At
    <3> QED BY <3>2, <3>3 DEF RunsTyped, At
  <2>7. RunsHold'
    <3>1. ASSUME NEW q \in Runs, q # p, At(q, "cookie") \/ At(q, "fetch") \/ At(q, "done")
          PROVE  run[q].source \in Sources
      BY <3>1 DEF Inv, Typed, RunsTyped, At
    <3> QED BY <2>2, <2>4, <2>5, <3>1 DEF Inv, RunsHold, At
  <2>8. PassHolds' /\ PassTyped'
    BY <2>1, <2>2 DEF Inv, Typed, PassTyped, PassRecord, PassHolds
  <2>9. JobsTyped' /\ JobsHold'
    BY <2>1, QuietJobs
  <2>10. RowsTyped' /\ RequestsTyped' /\ OthersTyped'
    BY <2>1, <2>2 DEF Inv, Typed, RowsTyped, RequestsTyped, OthersTyped
  <2> QED BY <2>6, <2>7, <2>8, <2>9, <2>10 DEF Inv, Typed
<1>10. CASE SyncFails(p)
  <2>1. /\ At(p, "fetch") /\ run[p].source \in Sources
        /\ EndsOwn(p) \/ UNCHANGED job
        /\ run' = [run EXCEPT ![p] = Settling(p)]
        /\ UNCHANGED <<zone, rows, cookies, embedding, pass, request, since, edits>>
    BY <1>1, <1>10 DEF SyncFails, At
  <2>2. faults' \in 0 .. MaxFaults
    BY <1>2, <1>10, BoundsAssumption DEF SyncFails, Fault
  <2>3. JobsTyped' /\ JobsHold'
    BY <2>1, EndsOwnChanges
  <2> QED BY <1>2, <2>1, <2>2, <2>3, SettlingTyped, RunMoves
<1>11. CASE Return(p)
  <2>1. /\ run' = [run EXCEPT ![p] = NoRun] /\ run[p].source \in Sources
        /\ UNCHANGED <<zone, rows, cookies, embedding, pass, request, since, edits, faults>>
    BY <1>1, <1>11 DEF Return, At
  <2>2. \/ UNCHANGED job
        \/ job' = [job EXCEPT ![run[p].source] = [status |-> "canceled", age |-> 0]]
    BY <1>11 DEF Return
  <2>3. JobsTyped' /\ JobsHold'
    BY <2>1, <2>2, JobChanges
  <2> QED BY <1>2, <2>1, <2>3, NoRunTyped, RunMoves
<1>12. CASE Aborts(p)
  <2>1. /\ run' = [run EXCEPT ![p] = Settling(p)] /\ run[p].source \in Sources
        /\ UNCHANGED <<zone, rows, cookies, job, embedding, pass, request, since, edits, faults>>
    BY <1>1, <1>12 DEF Aborts, At
  <2>2. JobsTyped' /\ JobsHold'
    BY <2>1, QuietJobs
  <2> QED BY <1>2, <2>1, <2>2, SettlingTyped, RunMoves
<1>13. CASE EnqueueEnsure(p)
  <2>1. /\ run' = [run EXCEPT ![p] = Settling(p)] /\ run[p].source \in Sources
        /\ UNCHANGED <<zone, rows, cookies, job, pass, request, since, edits, faults>>
    BY <1>1, <1>13 DEF EnqueueEnsure, At
  <2>2. JobsTyped' /\ JobsHold'
    BY <2>1, QuietJobs
  <2>3. embedding' \subseteq Scopes
    BY <1>2, <1>13, <2>1 DEF EnqueueEnsure, Scopes
  <2> QED BY <1>2, <2>1, <2>2, <2>3, SettlingTyped, RunMoves
<1> QED BY <1>3, <1>4, <1>5, <1>6, <1>7, <1>8, <1>9, <1>10, <1>11, <1>12, <1>13 DEF RunStep

-----------------------------------------------------------------------------
(* The requests *)

(* Reading rows, and ends of requests, write no source. *)
LEMMA QuietRequest ==
  ASSUME Inv, UNCHANGED <<zone, rows, pass, run, since>>, JobsTyped', JobsHold',
         RequestsTyped', OthersTyped'
  PROVE  Inv'
  BY QuietRows DEF Inv, Typed

LEMMA BeginsKeep ==
  ASSUME Inv, NEW c \in Requests, RequestBegins(c)
  PROVE  Inv'
<1>1. ASSUME NEW plan \in Plans, NEW cred \in Creds \cup {None},
             NEW pc \in {"write", "resume", "drop"}, NEW after \in Sources \cup {"nothing"},
             Reads(c, plan, cred, pc, after)
      PROVE  Inv'
  <2>1. PICK r : /\ r = [pc |-> pc, plan |-> plan, cred |-> cred, after |-> after]
                 /\ request' = [request EXCEPT ![c] = r]
    BY <1>1 DEF Reads
  <2>2. r \in RequestRecord
    BY <2>1 DEF RequestRecord
  <2>3. RequestsTyped'
    BY <2>1, <2>2, RequestMoves
  <2>4. UNCHANGED <<zone, rows, cookies, job, embedding, pass, run, since, faults>>
    BY <1>1 DEF Reads
  <2>5. OthersTyped'
    BY <1>1, <2>4, BoundsAssumption DEF Reads, Edit, Inv, Typed, OthersTyped
  <2> QED BY <2>3, <2>4, <2>5, QuietJobs, QuietRequest
<1>2. rows \in [Sources -> Row]
  BY DEF Inv, Typed, RowsTyped
<1>3. ASSUME NEW s \in Sources, NEW i \in Schedules, EditSource(c, s, i) PROVE Inv'
  <2>1. [x \in {s} |-> [rows[s] EXCEPT !.schedule = i]] \in [{s} -> Row]
    BY <1>2 DEF Row
  <2>2. [x \in {s} |-> [rows[s] EXCEPT !.schedule = i]] \in Plans
    BY <2>1 DEF Plans
  <2> QED BY <1>1, <1>3, <2>2 DEF EditSource
<1>4. ASSUME NEW k \in Creds, NEW set \in SUBSET Sources, NEW after \in Sources \cup {"nothing"},
             Attach(c, set, k, after)
      PROVE  Inv'
  <2> DEFINE lacking == {t \in set : rows[t].cred # k}
  <2>1. [s \in lacking |-> [rows[s] EXCEPT !.cred = k]] \in [lacking -> Row]
    BY <1>2 DEF Row
  <2>2. [s \in lacking |-> [rows[s] EXCEPT !.cred = k]] \in Plans
    BY <2>1 DEF Plans
  <2> QED BY <1>1, <1>4, <2>2 DEF Attach
<1>5. ASSUME NEW k \in Creds, ListPaused(c, k) PROVE Inv'
  <2> DEFINE paused == {t \in Sources : rows[t].cred = k /\ rows[t].status = "paused"}
  <2>1. [s \in paused |-> rows[s]] \in [paused -> Row]
    BY <1>2
  <2>2. [s \in paused |-> rows[s]] \in Plans
    BY <2>1 DEF Plans
  <2> QED BY <1>1, <1>5, <2>2 DEF ListPaused
<1>6. ASSUME NEW k \in Creds, ListUsers(c, k) PROVE Inv'
  <2>1. [s \in {} |-> None] \in [{} -> Row]
    OBVIOUS
  <2>2. [s \in {} |-> None] \in Plans
    BY <2>1 DEF Plans
  <2> QED BY <1>1, <1>6, <2>2 DEF ListUsers
<1> QED BY <1>3, <1>4, <1>5, <1>6 DEF RequestBegins

LEMMA RequestsKeep ==
  ASSUME Inv, NEW c \in Requests, RequestStep(c)
  PROVE  Inv'
<1>1. request[c] \in RequestRecord
  BY DEF Inv, Typed, RequestsTyped
<1>2. Planned(c) \subseteq Sources /\ \A s \in Planned(c) : request[c].plan[s] \in Row
  BY <1>1 DEF RequestRecord, Plans, Planned
<1>3. ASSUME NEW s \in Planned(c), request' = [request EXCEPT ![c].plan = Rest(c, s)]
      PROVE  RequestsTyped'
  <2>1. Rest(c, s) \in [Planned(c) \ {s} -> Row]
    BY <1>2 DEF Rest
  <2>2. Rest(c, s) \in Plans
    BY <1>2, <2>1 DEF Plans
  <2>3. PICK r : /\ r = [request[c] EXCEPT !.plan = Rest(c, s)]
                 /\ request' = [request EXCEPT ![c] = r]
    BY <1>3, Zenon DEF Inv, Typed, RequestsTyped
  <2>4. r \in RequestRecord
    BY <1>1, <2>2, <2>3 DEF RequestRecord
  <2> QED BY <2>3, <2>4, RequestMoves
<1>4. CASE WriteSource(c)
  <2>1. PICK s \in Planned(c) : /\ UpdateSource(s, request[c].plan[s])
                                /\ request' = [request EXCEPT ![c].plan = Rest(c, s)]
    BY <1>4 DEF WriteSource
  <2>2. UNCHANGED <<zone, cookies, job, embedding, pass, run, edits, faults>>
    BY <1>4 DEF WriteSource
  <2>3. /\ rows' \in [Sources -> Row]
        /\ \A t \in Sources : rows'[t].status = rows[t].status
        /\ since' \in [Sources -> 0 .. MaxAge]
        /\ \A t \in Sources : \/ rows'[t].schedule = rows[t].schedule /\ since'[t] = since[t]
                              \/ since'[t] = MaxAge
    BY <1>2, <2>1, SettingsSet
  <2>4. JobsTyped' /\ JobsHold'
    BY <2>2, <2>3, TimesAssumption DEF Inv, Typed, JobsTyped, JobRecord, JobsHold
  <2>5. PassHolds'
    <3>1. ASSUME pass.pc = "jobs", NEW t \in Sources
          PROVE  since'[t] = MaxAge \/ pass.rows[t].schedule = rows'[t].schedule
      BY <2>3, <3>1 DEF Inv, PassHolds
    <3>2. ASSUME pass.pc = "insert", NEW t \in pass.due
          PROVE  since'[t] + zone >= rows'[t].schedule
      <4>1. t \in Sources /\ rows'[t] \in Row
        BY <2>3 DEF Inv, Typed, PassTyped, PassRecord
      <4>2. MaxAge + zone >= rows'[t].schedule
        BY <4>1, LongAgo DEF Inv, Typed
      <4> QED BY <2>3, <3>2, <4>1, <4>2 DEF Inv, PassHolds
    <3> QED BY <2>2, <3>1, <3>2 DEF PassHolds
  <2>6. RunsHold' /\ RunsTyped'
    <3>1. ASSUME NEW q \in Runs, At(q, "cookie") \/ At(q, "fetch") \/ At(q, "done")
          PROVE  run[q].source \in Sources
      BY <3>1 DEF Inv, Typed, RunsTyped, At
    <3> QED BY <2>2, <2>3, <3>1 DEF Inv, Typed, RunsTyped, RunsHold, At
  <2>7. RowsTyped' /\ PassTyped' /\ OthersTyped' /\ RequestsTyped'
    BY <1>3, <2>1, <2>2, <2>3 DEF Inv, Typed, RowsTyped, PassTyped, OthersTyped
  <2> QED BY <2>4, <2>5, <2>6, <2>7 DEF Inv, Typed
<1>5. CASE Resume(c)
  <2>1. PICK s \in Planned(c) : /\ UpdateSyncState(s, "active")
                                /\ request' = [request EXCEPT ![c].plan = Rest(c, s)]
    BY <1>5 DEF Resume
  <2>2. UNCHANGED <<zone, cookies, job, embedding, pass, run, since, edits, faults>>
    BY <1>5 DEF Resume
  <2>3. /\ rows' \in [Sources -> Row]
        /\ \A t \in Sources : /\ rows'[t].schedule = rows[t].schedule
                              /\ rows'[t].status = IF t = s THEN "active" ELSE rows[t].status
    BY <1>2, <2>1, StatusSet
  <2>4. PassHolds' /\ PassTyped'
    BY <2>2, <2>3 DEF Inv, Typed, PassTyped, PassRecord, PassHolds
  <2>5. RunsHold' /\ RunsTyped'
    <3>1. ASSUME NEW q \in Runs, At(q, "cookie") \/ At(q, "fetch") \/ At(q, "done")
          PROVE  run[q].source \in Sources
      BY <3>1 DEF Inv, Typed, RunsTyped, At
    <3> QED BY <2>2, <2>3, <3>1 DEF Inv, Typed, RunsTyped, RunsHold, At
  <2>6. JobsTyped' /\ JobsHold'
    BY <2>2, QuietJobs
  <2>7. RowsTyped' /\ OthersTyped' /\ RequestsTyped'
    BY <1>3, <2>1, <2>2, <2>3 DEF Inv, Typed, RowsTyped, OthersTyped
  <2> QED BY <2>4, <2>5, <2>6, <2>7 DEF Inv, Typed
<1>6. CASE Answer(c)
  <2>1. RequestsTyped'
    BY <1>6, NoRequestTyped, RequestMoves DEF Answer
  <2>2. UNCHANGED <<zone, rows, cookies, embedding, pass, since, edits, faults>>
    BY <1>6 DEF Answer
  <2>3. \/ UNCHANGED <<job, run>>
        \/ \E s \in Sources : Queues(s)
    BY <1>6 DEF Answer
  <2>4. JobsTyped' /\ JobsHold'
    <3>1. \/ UNCHANGED job
          \/ \E s \in Sources : job' = [job EXCEPT ![s] = [status |-> "queued", age |-> 0]]
      BY <2>3 DEF Queues
    <3> QED BY <2>2, <3>1, JobChanges, QuietJobs
  <2>5. RunsTyped' /\ RunsHold'
    <3>1. CASE UNCHANGED <<job, run>>
      BY <2>2, <3>1 DEF Inv, Typed, RunsTyped, At, RunsHold
    <3> QED BY <2>2, <2>3, <3>1, QueuesChange
  <2>6. RowsTyped' /\ PassTyped' /\ OthersTyped' /\ PassHolds'
    BY <2>2 DEF Inv, Typed, RowsTyped, PassTyped, OthersTyped, PassHolds
  <2> QED BY <2>1, <2>4, <2>5, <2>6 DEF Inv, Typed
<1>7. CASE DropCredential(c)
  <2>1. RequestsTyped'
    BY <1>7, NoRequestTyped, RequestMoves DEF DropCredential
  <2>2. UNCHANGED <<zone, rows, job, embedding, pass, run, since, edits, faults>>
    BY <1>7 DEF DropCredential
  <2>3. OthersTyped'
    BY <1>7, <2>2 DEF DropCredential, Inv, Typed, OthersTyped
  <2> QED BY <2>1, <2>2, <2>3, QuietJobs, QuietRequest
<1> QED BY <1>4, <1>5, <1>6, <1>7 DEF RequestStep

LEMMA EditsKeep ==
  ASSUME Inv,
         \/ \E k \in Creds : RenewCookie(k)
         \/ \E s \in Sources : DeleteJob(s) \/ Cancel(s)
         \/ \E scope \in Scopes : RequestEnsure(scope)
  PROVE  Inv'
<1>1. edits' \in 0 .. MaxEdits /\ faults' = faults
  BY BoundsAssumption DEF RenewCookie, DeleteJob, Cancel, RequestEnsure, Edit, Inv, Typed, OthersTyped
<1>2. ASSUME NEW k \in Creds, RenewCookie(k) PROVE Inv'
  <2>1. UNCHANGED <<zone, rows, job, embedding, pass, run, request, since>>
    BY <1>2 DEF RenewCookie
  <2>2. OthersTyped' /\ RequestsTyped'
    BY <1>1, <1>2, <2>1 DEF RenewCookie, Inv, Typed, OthersTyped, RequestsTyped
  <2> QED BY <2>1, <2>2, QuietJobs, QuietRequest
<1>3. ASSUME NEW s \in Sources, DeleteJob(s) PROVE Inv'
  <2>1. UNCHANGED <<zone, rows, cookies, embedding, pass, request>>
    BY <1>3 DEF DeleteJob
  <2>2. MaxAge \in Nat /\ MaxAge \in 0 .. MaxAge
    BY TimesAssumption
  <2>3. RowsTyped' /\ PassTyped' /\ RequestsTyped' /\ OthersTyped'
    BY <1>1, <2>1 DEF Inv, Typed, RowsTyped, PassTyped, RequestsTyped, OthersTyped
  <2>4. CASE DeleteLatest(s)
    <3>1. PICK older \in {"none", "ended", "canceled"}, age \in 0 .. MaxAge :
          \E back \in SUBSET {p \in Runs : run[p].source = s /\ run[p].own = older} :
            /\ older = "none" => age = MaxAge
            /\ job' = [job EXCEPT ![s] = [status |-> older, age |-> age]]
            /\ run' = [p \in Runs |-> IF p \in back THEN [run[p] EXCEPT !.own = "latest"]
                                      ELSE IF Owns(p, s) THEN [run[p] EXCEPT !.own = "deleted"]
                                      ELSE run[p]]
      BY <2>4 DEF DeleteLatest
    <3>2. PICK back \in SUBSET Runs :
            run' = [p \in Runs |-> IF p \in back THEN [run[p] EXCEPT !.own = "latest"]
                                  ELSE IF Owns(p, s) THEN [run[p] EXCEPT !.own = "deleted"]
                                  ELSE run[p]]
      BY <3>1
    <3>3. /\ since' \in [Sources -> 0 .. MaxAge]
          /\ \A t \in Sources : since'[t] = IF t = s THEN MaxAge ELSE since[t]
      BY <2>2, <2>4 DEF DeleteLatest, Inv, Typed, JobsTyped
    <3>4. JobsTyped' /\ JobsHold'
      <4> DEFINE j == [status |-> older, age |-> age]
      <4>1. j \in JobRecord /\ j.age <= since'[s] /\ job' = [job EXCEPT ![s] = j]
        BY <2>2, <3>1, <3>3 DEF JobRecord
      <4>2. since'[s] = MaxAge /\ \A t \in Sources \ {s} : since'[t] = since[t]
        BY <3>3
      <4> HIDE DEF j
      <4> QED BY <3>3, <4>1, <4>2, JobBecomes
    <3>5. RunsTyped' /\ RunsHold'
      <4> DEFINE own == [p \in Runs |-> IF p \in back THEN "latest"
                                       ELSE IF Owns(p, s) THEN "deleted" ELSE run[p].own]
      <4>1. own \in [Runs -> {"latest", "ended", "canceled", "deleted"}]
        BY OwnKept
      <4>2. ASSUME NEW p \in Runs
            PROVE  (IF p \in back THEN [run[p] EXCEPT !.own = "latest"]
                    ELSE IF Owns(p, s) THEN [run[p] EXCEPT !.own = "deleted"] ELSE run[p])
                      = [run[p] EXCEPT !.own = own[p]]
        BY OwnKept
      <4>3. run' = [p \in Runs |-> [run[p] EXCEPT !.own = own[p]]]
        BY <3>2, <4>2
      <4> HIDE DEF own
      <4> QED BY <2>1, <4>1, <4>3, OwnsChange
    <3>6. PassHolds'
      <4>1. ASSUME NEW t \in Sources PROVE MaxAge + zone >= rows[t].schedule
        BY LongAgo DEF Inv, Typed, RowsTyped
      <4>2. pass.due \subseteq Sources
        BY DEF Inv, Typed, PassTyped, PassRecord
      <4> QED BY <2>1, <3>3, <4>1, <4>2 DEF Inv, PassHolds
    <3> QED BY <2>3, <3>4, <3>5, <3>6 DEF Inv, Typed
  <2>5. CASE DeleteOlder(s)
    <3>1. PICK p \in Runs : run' = [run EXCEPT ![p].own = "deleted"]
      BY <2>5 DEF DeleteOlder
    <3>2. UNCHANGED <<job, since>>
      BY <2>5 DEF DeleteOlder
    <3>3. RunsTyped' /\ RunsHold'
      <4> DEFINE own == [q \in Runs |-> IF q = p THEN "deleted" ELSE run[q].own]
      <4>1. own \in [Runs -> {"latest", "ended", "canceled", "deleted"}]
        BY OwnKept
      <4>2. ASSUME NEW q \in Runs
            PROVE  run'[q] = [run[q] EXCEPT !.own = own[q]]
        <5>1. run'[q] = IF q = p THEN [run[q] EXCEPT !.own = "deleted"] ELSE run[q]
          BY <3>1 DEF Inv, Typed, RunsTyped
        <5> QED BY <5>1, OwnKept
      <4>3. run' = [q \in Runs |-> run'[q]]
        BY <3>1 DEF Inv, Typed, RunsTyped
      <4>4. run' = [q \in Runs |-> [run[q] EXCEPT !.own = own[q]]]
        BY <4>2, <4>3
      <4> HIDE DEF own
      <4> QED BY <2>1, <4>1, <4>4, OwnsChange
    <3>4. PassHolds'
      BY <2>1, <3>2 DEF Inv, PassHolds
    <3> QED BY <2>3, <3>2, <3>3, <3>4, QuietJobs DEF Inv, Typed
  <2> QED BY <1>3, <2>4, <2>5 DEF DeleteJob
<1>4. ASSUME NEW s \in Sources, Cancel(s) PROVE Inv'
  <2>1. UNCHANGED <<zone, rows, cookies, embedding, pass, run, request, since>>
    BY <1>4 DEF Cancel
  <2>2. \/ job' = [job EXCEPT ![s] = [status |-> "canceled", age |-> 0]]
        \/ job' = [job EXCEPT ![s].status = "canceling"]
    BY <1>4 DEF Cancel
  <2>3. JobsTyped' /\ JobsHold'
    BY <2>1, <2>2, JobChanges
  <2>4. OthersTyped' /\ RequestsTyped'
    BY <1>1, <2>1 DEF Inv, Typed, OthersTyped, RequestsTyped
  <2> QED BY <2>1, <2>3, <2>4, QuietRequest
<1>5. ASSUME NEW scope \in Scopes, RequestEnsure(scope) PROVE Inv'
  <2>1. /\ UNCHANGED <<zone, rows, cookies, job, pass, run, request, since>>
        /\ embedding' = embedding \cup {scope}
    BY <1>5 DEF RequestEnsure
  <2>2. OthersTyped' /\ RequestsTyped'
    BY <1>1, <2>1 DEF Inv, Typed, OthersTyped, RequestsTyped
  <2> QED BY <2>1, <2>2, QuietJobs, QuietRequest
<1> QED BY <1>2, <1>3, <1>4, <1>5

-----------------------------------------------------------------------------
(* The environment *)

LEMMA LaterGrows ==
  ASSUME NEW a \in 0 .. MaxAge
  PROVE  /\ Later(a) \in 0 .. MaxAge /\ a <= Later(a)
         /\ \A b \in 0 .. MaxAge : b <= a => Later(b) <= Later(a)
         /\ a = MaxAge => Later(a) = MaxAge
  BY TimesAssumption DEF Later

LEMMA EnvironmentKeeps ==
  ASSUME Inv,
         Tick \/ Crash \/ EnsureEnds \/ \E k \in Creds : Expire(k)
  PROVE  Inv'
<1>1. CASE Tick
  <2>1. UNCHANGED <<zone, rows, cookies, embedding, pass, run, request, edits, faults>>
    BY <1>1 DEF Tick
  <2>2. /\ since' = [s \in Sources |-> Later(since[s])]
        /\ \A s \in Sources : since[s] \in 0 .. MaxAge /\ job[s] \in JobRecord
    BY <1>1 DEF Tick, Inv, Typed, JobsTyped
  <2>3. since' \in [Sources -> 0 .. MaxAge] /\ \A s \in Sources : since'[s] = Later(since[s])
    BY <2>2, LaterGrows
  <2>4. ASSUME NEW s \in Sources
        PROVE  /\ job'[s] \in JobRecord /\ job'[s].status = job[s].status
               /\ job'[s].age = IF InProgress(s) THEN job[s].age ELSE Later(job[s].age)
    <3>1. job[s] \in JobRecord /\ job[s].age \in 0 .. MaxAge
      BY <2>2 DEF JobRecord
    <3>2. Later(job[s].age) \in 0 .. MaxAge
      BY <3>1, LaterGrows
    <3>3. PICK j : /\ j = [job[s] EXCEPT !.age = Later(job[s].age)]
                   /\ job'[s] = IF InProgress(s) THEN job[s] ELSE j
      BY <1>1 DEF Tick
    <3>4. j \in JobRecord /\ j.status = job[s].status /\ j.age = Later(job[s].age)
      BY <3>1, <3>2, <3>3 DEF JobRecord
    <3> QED BY <3>1, <3>3, <3>4
  <2>5. JobsTyped'
    <3>1. job' = [s \in Sources |-> job'[s]]
      BY <1>1 DEF Tick
    <3> QED BY <2>3, <2>4, <3>1 DEF JobsTyped
  <2>6. JobsHold'
    <3>1. ASSUME NEW s \in Sources, job[s].status = "none" PROVE since'[s] = MaxAge
      BY <2>2, <2>3, <3>1, LaterGrows DEF Inv, JobsHold
    <3>2. ASSUME NEW s \in Sources, job[s].status \in {"ended", "canceled"}
          PROVE  job'[s].age <= since'[s]
      <4>1. job[s].age <= since[s] /\ job[s].age \in 0 .. MaxAge /\ since[s] \in 0 .. MaxAge
        BY <2>2, <3>2 DEF Inv, JobsHold, JobRecord
      <4>2. job'[s].age = Later(job[s].age)
        BY <2>4, <3>2 DEF InProgress
      <4> QED BY <2>3, <4>1, <4>2, LaterGrows
    <3> QED BY <2>4, <3>1, <3>2 DEF JobsHold
  <2>7. PassHolds'
    <3>1. pass.due \subseteq Sources
      BY DEF Inv, Typed, PassTyped, PassRecord
    <3>2. ASSUME NEW s \in Sources
          PROVE  /\ since[s] = MaxAge => since'[s] = MaxAge
                 /\ since[s] + zone >= rows[s].schedule => since'[s] + zone >= rows[s].schedule
      <4>1. /\ since[s] <= since'[s] /\ since[s] \in Int /\ since'[s] \in Int
            /\ since[s] = MaxAge => since'[s] = MaxAge
        BY <2>2, <2>3, LaterGrows, TimesAssumption
      <4>2. zone \in Int /\ rows[s].schedule \in Int
        BY LongAgo DEF Inv, Typed, RowsTyped
      <4> QED BY <4>1, <4>2
    <3> QED BY <2>1, <3>1, <3>2 DEF Inv, PassHolds
  <2>8. RunsTyped' /\ RunsHold'
    BY <2>1 DEF Inv, Typed, RunsTyped, At, RunsHold
  <2>9. RowsTyped' /\ PassTyped' /\ RequestsTyped' /\ OthersTyped'
    BY <2>1 DEF Inv, Typed, RowsTyped, PassTyped, RequestsTyped, OthersTyped
  <2> QED BY <2>5, <2>6, <2>7, <2>8, <2>9 DEF Inv, Typed
<1>2. CASE Crash
  <2>1. /\ UNCHANGED <<zone, rows, cookies, job, embedding, since, edits>>
        /\ pass' = NoPass
        /\ run' = [p \in Runs |-> NoRun]
        /\ request' = [c \in Requests |-> NoRequest]
    BY <1>2 DEF Crash
  <2>2. OthersTyped'
    BY <1>2, <2>1, BoundsAssumption DEF Crash, Fault, Inv, Typed, OthersTyped
  <2>3. PassTyped' /\ PassHolds'
    BY <2>1, NoPassTyped DEF PassTyped, PassHolds
  <2>4. RunsTyped' /\ RunsHold'
    BY <2>1, NoRunTyped DEF RunsTyped, At, RunsHold
  <2>5. RequestsTyped' /\ RowsTyped'
    BY <2>1, NoRequestTyped DEF RequestsTyped, Inv, Typed, RowsTyped
  <2> QED BY <2>1, <2>2, <2>3, <2>4, <2>5, QuietJobs DEF Inv, Typed
<1>3. ASSUME NEW k \in Creds, Expire(k) PROVE Inv'
  <2>1. UNCHANGED <<zone, rows, job, embedding, pass, run, request, since, edits>>
    BY <1>3 DEF Expire
  <2>2. OthersTyped' /\ RequestsTyped'
    BY <1>3, <2>1, BoundsAssumption DEF Expire, Fault, Inv, Typed, OthersTyped, RequestsTyped
  <2> QED BY <2>1, <2>2, QuietJobs, QuietRequest
<1>4. CASE EnsureEnds
  <2>1. /\ UNCHANGED <<zone, rows, cookies, job, pass, run, request, since, edits, faults>>
        /\ embedding' \subseteq embedding
    BY <1>4 DEF EnsureEnds
  <2>2. OthersTyped' /\ RequestsTyped'
    BY <2>1 DEF Inv, Typed, OthersTyped, RequestsTyped
  <2> QED BY <2>1, <2>2, QuietJobs, QuietRequest
<1> QED BY <1>1, <1>2, <1>3, <1>4

-----------------------------------------------------------------------------
(* All steps *)

LEMMA InvStep == Inv /\ [Next]_vars => Inv'
<1> SUFFICES ASSUME Inv, [Next]_vars PROVE Inv'
  OBVIOUS
<1>1. CASE UNCHANGED vars
  <2>1. UNCHANGED <<zone, rows, cookies, job, embedding, pass, run, request, since, edits, faults>>
    BY <1>1 DEF vars
  <2>2. OthersTyped' /\ RequestsTyped'
    BY <2>1 DEF Inv, Typed, OthersTyped, RequestsTyped
  <2> QED BY <2>1, <2>2, QuietJobs, QuietRequest
<1>2. CASE Next
  BY <1>2, SchedulerKeeps, RunsKeep, BeginsKeep, RequestsKeep, EditsKeep, EnvironmentKeeps
  DEF Next
<1> QED BY <1>1, <1>2

LEMMA InvAlways == Spec => []Inv
  BY InitialInv, InvStep, PTL DEF Spec

-----------------------------------------------------------------------------
(* Theorems *)

(* The type invariant, whatever the requests, the runs and the scheduler interleave. *)
THEOREM TypeCorrect == Spec => []TypeOK
  BY InvAlways, InvSuffices, PTL

(* A sync that succeeded leaves its source active, unless another run of the source
   paused it meanwhile (RunSyncJob, UpdateSourceSyncState). *)
THEOREM SuccessAlwaysActivates == Spec => []SuccessActivates
  BY InvAlways, InvSuffices, PTL

(* A source that was paused is active again only through Activate or Resume: a write of
   all settings, from a row read before the pause, keeps the pause (UpdateSource). *)
THEOREM PausesSurvive == Spec => PauseSurvivesEdits
<1> DEFINE Kept == \A s \in Sources : rows[s].status = "paused" /\ rows'[s].status = "active" =>
                     \/ \E p \in Runs : At(p, "activate") /\ run[p].source = s
                     \/ \E c \in Requests : request[c].pc = "resume" /\ s \in Planned(c)
<1>1. Inv /\ [Next]_vars => [Kept]_vars
  <2> SUFFICES ASSUME Inv, Next, NEW s \in Sources,
                      rows[s].status = "paused", rows'[s].status = "active"
               PROVE  \/ \E p \in Runs : At(p, "activate") /\ run[p].source = s
                      \/ \E c \in Requests : request[c].pc = "resume" /\ s \in Planned(c)
    OBVIOUS
  <2>1. rows' # rows
    OBVIOUS
  <2>2. ASSUME NEW p \in Runs, Activate(p) PROVE At(p, "activate") /\ run[p].source = s
    <3>1. UpdateSyncState(run[p].source, "active") /\ At(p, "activate") /\ run[p].source \in Sources
      BY <2>2 DEF Activate, Inv, Typed, RunsTyped, At
    <3> QED BY <3>1, StatusSet
  <2>3. ASSUME NEW p \in Runs, Pause(p) PROVE FALSE
    <3>1. UpdateSyncState(run[p].source, "paused") /\ run[p].source \in Sources
      BY <2>3 DEF Pause, Inv, Typed, RunsTyped, At
    <3> QED BY <3>1, StatusSet
  <2>4. ASSUME NEW c \in Requests, WriteSource(c) PROVE FALSE
    <3>1. PICK t \in Planned(c) : UpdateSource(t, request[c].plan[t])
      BY <2>4 DEF WriteSource
    <3>2. t \in Sources /\ request[c].plan[t] \in Row
      BY DEF Inv, Typed, RequestsTyped, RequestRecord, Plans, Planned
    <3> QED BY <3>1, <3>2, SettingsSet
  <2>5. ASSUME NEW c \in Requests, Resume(c)
        PROVE  request[c].pc = "resume" /\ s \in Planned(c)
    <3>1. PICK t \in Planned(c) : UpdateSyncState(t, "active") /\ request[c].pc = "resume"
      BY <2>5 DEF Resume
    <3>2. t \in Sources
      BY DEF Inv, Typed, RequestsTyped, RequestRecord, Plans, Planned
    <3> QED BY <3>1, <3>2, StatusSet
  <2>6. \/ \E p \in Runs : Activate(p) \/ Pause(p)
        \/ \E c \in Requests : WriteSource(c) \/ Resume(c)
    <3>1. Scheduler => rows' = rows
      BY DEF Scheduler, ListSources, ListLatestJobs, InsertDue
    <3>2. \A p \in Runs : RunStep(p) => rows' = rows \/ Activate(p) \/ Pause(p)
      BY DEF RunStep, ReadSource, ResolveCookie, SyncSucceeds, CredentialRefused, Aborts,
             EnqueueEnsure, Return
    <3>3. \A p \in Runs : SyncFails(p) \/ (\E t \in Sources : ClaimJob(p, t)) => rows' = rows
      BY DEF SyncFails, ClaimJob
    <3>4. \A c \in Requests : RequestBegins(c) => rows' = rows
      BY DEF RequestBegins, EditSource, Attach, ListPaused, ListUsers, Reads
    <3>5. \A c \in Requests : RequestStep(c) => rows' = rows \/ WriteSource(c) \/ Resume(c)
      BY DEF RequestStep, Answer, DropCredential
    <3>6. /\ \A k \in Creds : RenewCookie(k) \/ Expire(k) => rows' = rows
          /\ \A t \in Sources : DeleteJob(t) \/ Cancel(t) => rows' = rows
          /\ \A scope \in Scopes : RequestEnsure(scope) => rows' = rows
          /\ EnsureEnds \/ Tick \/ Crash => rows' = rows
      BY DEF RenewCookie, Expire, DeleteJob, Cancel, RequestEnsure, EnsureEnds, Tick, Crash
    <3> QED BY <2>1, <3>1, <3>2, <3>3, <3>4, <3>5, <3>6 DEF Next
  <2> QED BY <2>2, <2>3, <2>4, <2>5, <2>6
<1>2. Spec => [][Kept]_vars
  BY InvAlways, <1>1, PTL DEF Spec
<1> QED BY <1>2 DEF PauseSurvivesEdits

(* Between two jobs the scheduler inserts for a source lies its interval, as far as the
   zone lets the scheduler tell, though it decides on rows and jobs it listed before
   (RunOnce, CreateSyncJobIfIdle). *)
THEOREM SyncsKeepTheirDistance == Spec => ScheduledApart
<1> DEFINE Apart == \A s \in Sources : InsertDue(s) /\ ~ Refusing(s) =>
                      since[s] + zone >= rows[s].schedule
<1>1. Inv => Apart
  BY DEF Inv, PassHolds, InsertDue
<1>2. Spec => [][Apart]_vars
  BY InvAlways, <1>1, PTL DEF Spec
<1> QED BY <1>2 DEF ScheduledApart

=============================================================================
