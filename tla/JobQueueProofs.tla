--------------------------- MODULE JobQueueProofs ---------------------------
(***************************************************************************)
(* Proofs about JobQueue, for every number of jobs, sources, goroutines,   *)
(* requests, command lines and crashes: its invariants, and that it        *)
(* implements JobLifecycle.                                                *)
(***************************************************************************)
EXTENDS JobQueue, TLAPS

(* A row written by an insert is a row. *)
LEMMA RowType ==
    ASSUME NEW kind \in Kinds, NEW source \in Sources \cup {NoSource},
           NEW status \in Statuses
    PROVE  Row(kind, source, status) \in Rows
  BY DEF Row, Rows

(* Updating the lease or the status of a row leaves a row. *)
LEMMA RowUpdateType ==
    ASSUME NEW row \in Rows, NEW status \in Statuses,
           NEW lock \in {"none", "held", "expired"}, NEW w \in Workers \cup {NoWorker}
    PROVE  [row EXCEPT !.status = status, !.lock = lock, !.worker = w] \in Rows
  BY DEF Rows

(* Ending or deleting a row leaves rows. *)
LEMMA EndedType ==
    ASSUME TypeOK, NEW j \in JobIds, NEW status \in Statuses
    PROVE  Ended(j, status) \in [JobIds -> Rows]
  <1> DEFINE row == [jobs[j] EXCEPT !.status = status, !.lock = "none", !.worker = NoWorker]
  <1>1. jobs[j] \in Rows
    BY DEF TypeOK
  <1>2. row \in Rows
    BY <1>1, RowUpdateType
  <1>3. Ended(j, status) = [jobs EXCEPT ![j] = row]
    BY DEF Ended
  <1> HIDE DEF row
  <1> QED BY <1>2, <1>3 DEF TypeOK

(* What a goroutine that is not idle works on is a row of the table. *)
LEMMA WorkerJob ==
    ASSUME TypeOK, NEW w \in Workers, ~ At(w, "idle")
    PROVE  worker[w].job \in JobIds
  BY DEF TypeOK, Goroutines

(* Inserting a row keeps the table and the queue order well typed. *)
LEMMA InsertType ==
    ASSUME TypeOK, NEW j \in JobIds, NEW kind \in Kinds,
           NEW source \in Sources \cup {NoSource}, Insert(j, kind, source)
    PROVE  /\ jobs' \in [JobIds -> Rows]
           /\ ready' \in Seq(JobIds)
  <1>1. Row(kind, source, "queued") \in Rows
    BY RowType DEF Statuses, Active
  <1> QED
    BY <1>1 DEF Insert, TypeOK

(* Every step keeps every variable in its type. *)
LEMMA TypeStep == TypeOK /\ [Next]_vars => TypeOK'
  <1> SUFFICES ASSUME TypeOK, [Next]_vars PROVE TypeOK'
    OBVIOUS
  <1> USE BoundsAssumption, NullAssumption, ModeAssumption
  <1>1. CASE Enqueue
    <2>1. /\ jobs' \in [JobIds -> Rows]
          /\ ready' \in Seq(JobIds)
      BY <1>1, InsertType DEF Enqueue, RequestSync, RequestEnsure, RequestMaintenance,
                              Kinds, Registered
    <2>2. UNCHANGED <<worker, running, client, cli, crashes>>
      BY <1>1 DEF Enqueue, RequestSync, RequestEnsure, RequestMaintenance
    <2> QED BY <2>1, <2>2 DEF TypeOK, At
  <1>2. ASSUME NEW w \in Workers, Claim(w) PROVE TypeOK'
    <2>1. PICK j \in JobIds :
            /\ jobs' = [jobs EXCEPT ![j] = [@ EXCEPT !.status = "running",
                                                     !.lock = "held", !.worker = w]]
            /\ worker' = [worker EXCEPT ![w] = [pc |-> "claimed", job |-> j,
                                                ctx |-> "live"]]
      BY <1>2 DEF Claim
    <2>2. jobs' \in [JobIds -> Rows]
      <3>1. jobs[j] \in Rows /\ "running" \in Statuses
        BY DEF TypeOK, Statuses, Active
      <3>2. [jobs[j] EXCEPT !.status = "running", !.lock = "held", !.worker = w] \in Rows
        BY <3>1, RowUpdateType
      <3> QED BY <2>1, <3>2 DEF TypeOK
    <2>3. worker' \in [Workers -> Goroutines]
      BY <2>1 DEF TypeOK, Goroutines
    <2>4. \A v \in Workers : (worker'[v].pc = "idle") <=> (worker'[v].job = NoJob)
      BY <2>1 DEF TypeOK, At, JobIds, NoJob
    <2> QED
      BY <1>2, <2>2, <2>3, <2>4 DEF Claim, TypeOK, At
  <1>3. ASSUME NEW w \in Workers, HandlerStep(w) \/ Monitor(w) PROVE TypeOK'
    <2>1. ~ At(w, "idle") /\ worker[w].job \in JobIds
      BY <1>3, WorkerJob
         DEF HandlerStep, Monitor, ClaimLost, Register, SyncSucceeds, EnqueueEnsure, EnsureDefers,
             EnsureSucceeds, HandlerFails, StoreCallLost, Settle, At
    <2>2. jobs' \in [JobIds -> Rows] /\ ready' \in Seq(JobIds)
      <3>1. CASE EnqueueEnsure(w)
        <4>1. jobs[worker[w].job].source \in Sources \cup {NoSource}
          BY <2>1 DEF TypeOK, Rows
        <4> QED BY <3>1, <4>1, InsertType DEF EnqueueEnsure, TypeOK, Kinds, Registered
      <3>2. CASE EnsureDefers(w)
        <4>1. Row("maintenance_embedding_ensure", jobs[worker[w].job].source, "queued") \in Rows
          BY <2>1, RowType DEF TypeOK, Rows, Kinds, Registered, Statuses, Active
        <4> QED BY <3>2, <4>1 DEF EnsureDefers, TypeOK
      <3>3. CASE SyncSucceeds(w) \/ EnsureSucceeds(w) \/ HandlerFails(w) \/ Settle(w)
        <4>1. jobs' = jobs \/ \E status \in Terminal : jobs' = Ended(worker[w].job, status)
          BY <3>3 DEF SyncSucceeds, EnsureSucceeds, HandlerFails, Settle, Terminal
        <4>2. Terminal \subseteq Statuses
          BY DEF Statuses
        <4>3. ready' = ready
          BY <3>3 DEF SyncSucceeds, EnsureSucceeds, HandlerFails, Settle
        <4> QED BY <2>1, <4>1, <4>2, <4>3, EndedType DEF TypeOK
      <3>4. CASE ClaimLost(w) \/ Register(w) \/ StoreCallLost(w) \/ Monitor(w)
        BY <3>4 DEF ClaimLost, Register, StoreCallLost, Monitor, TypeOK
      <3> QED BY <1>3, <3>1, <3>2, <3>3, <3>4 DEF HandlerStep
    <2>3. /\ worker' \in [Workers -> Goroutines]
          /\ \A v \in Workers : (worker'[v].pc = "idle") <=> (worker'[v].job = NoJob)
      <3>1. \/ worker' = [worker EXCEPT ![w] = Idle]
            \/ worker' = [worker EXCEPT ![w].ctx = "canceled"]
            \/ \E pc \in {"work", "deferred", "enqueue", "settle"} :
                  worker' = [worker EXCEPT ![w].pc = pc]
        BY <1>3 DEF HandlerStep, Monitor, ClaimLost, Register, SyncSucceeds, EnqueueEnsure,
                    EnsureDefers, EnsureSucceeds, HandlerFails, StoreCallLost, Settle, GoTo
      <3>2. CASE worker' = [worker EXCEPT ![w] = Idle]
        BY <3>2 DEF TypeOK, Goroutines, Idle, At, NoJob
      <3>3. CASE worker' = [worker EXCEPT ![w].ctx = "canceled"]
        BY <3>3 DEF TypeOK, Goroutines, At
      <3>4. ASSUME NEW pc \in {"work", "deferred", "enqueue", "settle"},
                   worker' = [worker EXCEPT ![w].pc = pc]
            PROVE  /\ worker' \in [Workers -> Goroutines]
                   /\ \A v \in Workers : (worker'[v].pc = "idle") <=> (worker'[v].job = NoJob)
        <4>1. [worker[w] EXCEPT !.pc = pc] \in Goroutines
          BY <2>1 DEF TypeOK, Goroutines
        <4>2. worker' \in [Workers -> Goroutines]
          BY <3>4, <4>1 DEF TypeOK
        <4>3. worker[w].job # NoJob
          BY <2>1 DEF NoJob, JobIds
        <4> QED BY <3>4, <4>2, <4>3 DEF TypeOK, At
      <3> QED BY <3>1, <3>2, <3>3, <3>4
    <2>4. running' \in [JobIds -> Workers \cup {NoWorker}]
      <3>1. \/ running' = running
            \/ \E v \in {w, NoWorker} : running' = [running EXCEPT ![worker[w].job] = v]
        BY <1>3 DEF HandlerStep, Monitor, ClaimLost, Register, SyncSucceeds, EnqueueEnsure,
                    EnsureDefers, EnsureSucceeds, HandlerFails, StoreCallLost, Settle
      <3> QED BY <3>1 DEF TypeOK
    <2>5. UNCHANGED <<client, cli, crashes>>
      BY <1>3 DEF HandlerStep, Monitor, ClaimLost, Register, SyncSucceeds, EnqueueEnsure,
                  EnsureDefers, EnsureSucceeds, HandlerFails, StoreCallLost, Settle
    <2> QED BY <2>2, <2>3, <2>4, <2>5 DEF TypeOK, At
  <1>4. CASE TimePasses
    <2>1. jobs' \in [JobIds -> Rows] /\ ready' \in Seq(JobIds)
      <3>1. ASSUME NEW j \in JobIds, BecomeDue(j)
            PROVE  jobs' \in [JobIds -> Rows] /\ ready' \in Seq(JobIds)
        BY <3>1 DEF BecomeDue, TypeOK
      <3>2. ASSUME NEW j \in JobIds, LeaseExpires(j)
            PROVE  jobs' \in [JobIds -> Rows] /\ ready' \in Seq(JobIds)
        <4>1. jobs[j] \in Rows
          BY DEF TypeOK
        <4>2. [jobs[j] EXCEPT !.lock = "expired"] \in Rows
          BY <4>1 DEF Rows
        <4> QED BY <3>2, <4>2 DEF LeaseExpires, TypeOK
      <3> QED BY <1>4, <3>1, <3>2 DEF TimePasses
    <2>2. UNCHANGED <<worker, running, client, cli, crashes>>
      BY <1>4 DEF TimePasses, BecomeDue, LeaseExpires
    <2> QED BY <2>1, <2>2 DEF TypeOK, At
  <1>5. CASE ClientStep
    <2>1. ASSUME NEW c \in Clients, NEW j \in JobIds, CancelRead(c, j) PROVE TypeOK'
      <3>1. jobs[j].status \in Statuses
        BY DEF TypeOK, Rows
      <3> QED BY <2>1, <3>1 DEF CancelRead, TypeOK, At
    <2>2. ASSUME NEW c \in Clients, CancelWrite(c) PROVE TypeOK'
      <3>1. client[c].job \in JobIds
        BY <2>2 DEF CancelWrite, TypeOK
      <3>2. jobs' \in [JobIds -> Rows]
        <4>1. \/ jobs' = jobs
              \/ jobs' = Ended(client[c].job, "canceled")
              \/ jobs' = [jobs EXCEPT ![client[c].job].status = "canceling"]
          BY <2>2 DEF CancelWrite
        <4>2. "canceled" \in Statuses /\ "canceling" \in Statuses
          BY DEF Statuses, Terminal, Active
        <4>3. jobs[client[c].job] \in Rows
          BY <3>1 DEF TypeOK
        <4>4. [jobs[client[c].job] EXCEPT !.status = "canceling"] \in Rows
          BY <4>2, <4>3 DEF Rows
        <4>5. Ended(client[c].job, "canceled") \in [JobIds -> Rows]
          BY <3>1, <4>2, EndedType
        <4>6. [jobs EXCEPT ![client[c].job].status = "canceling"] \in [JobIds -> Rows]
          BY <3>1, <4>4 DEF TypeOK
        <4> QED BY <4>1, <4>5, <4>6 DEF TypeOK
      <3>3. /\ client' \in [Clients -> [pc: {"idle", "write", "signal"},
                                       job: JobIds \cup {NoJob}, seen: Statuses]]
            /\ \A d \in Clients :
                  /\ client'[d].pc # "idle" => client'[d].job \in JobIds
                  /\ client'[d].pc = "write" => client'[d].seen \in {"queued", "running"}
        <4>1. \/ client' = [client EXCEPT ![c] = NoRequest]
              \/ client' = [client EXCEPT ![c].pc = "signal"]
          BY <2>2 DEF CancelWrite
        <4>2. CASE client' = [client EXCEPT ![c] = NoRequest]
          BY <4>2 DEF TypeOK, NoRequest, Statuses
        <4>3. CASE client' = [client EXCEPT ![c].pc = "signal"]
          <5>1. [client[c] EXCEPT !.pc = "signal"] \in
                   [pc: {"idle", "write", "signal"}, job: JobIds \cup {NoJob}, seen: Statuses]
            BY DEF TypeOK
          <5>2. client' \in [Clients -> [pc: {"idle", "write", "signal"},
                                         job: JobIds \cup {NoJob}, seen: Statuses]]
            BY <4>3, <5>1 DEF TypeOK
          <5>3. \A d \in Clients :
                  /\ client'[d].pc # "idle" => client'[d].job \in JobIds
                  /\ client'[d].pc = "write" => client'[d].seen \in {"queued", "running"}
            BY <3>1, <4>3 DEF TypeOK
          <5> QED BY <5>2, <5>3
        <4> QED BY <4>1, <4>2, <4>3
      <3> QED
        BY <2>2, <3>2, <3>3 DEF CancelWrite, TypeOK, At
    <2>3. ASSUME NEW c \in Clients, CancelSignal(c) PROVE TypeOK'
      <3>1. \A w \in Workers : [worker[w] EXCEPT !.ctx = "canceled"] \in Goroutines
        BY DEF TypeOK, Goroutines
      <3>2. worker' \in [Workers -> Goroutines]
        BY <2>3, <3>1 DEF CancelSignal, TypeOK
      <3>3. \A w \in Workers : /\ worker'[w].pc = worker[w].pc
                               /\ worker'[w].job = worker[w].job
        BY <2>3 DEF CancelSignal, TypeOK, Goroutines
      <3> QED BY <2>3, <3>2, <3>3 DEF CancelSignal, TypeOK, At, NoRequest, Statuses
    <2>4. ASSUME NEW j \in JobIds, DeleteJob(j) PROVE TypeOK'
      BY <2>4, EndedType DEF DeleteJob, TypeOK, At, Statuses
    <2> QED BY <1>5, <2>1, <2>2, <2>3, <2>4 DEF ClientStep
  <1>6. CASE CliStep
    <2>1. ASSUME NEW p \in Clis, NEW s \in Sources, CliStart(p, s) PROVE TypeOK'
      <3>1. PICK j \in JobIds : Insert(j, "sync_source", s) /\ cli' = [cli EXCEPT ![p] = j]
        BY <2>1 DEF CliStart
      <3>2. jobs' \in [JobIds -> Rows] /\ ready' \in Seq(JobIds)
        BY <3>1, InsertType DEF Kinds, Registered
      <3> QED BY <2>1, <3>1, <3>2 DEF CliStart, TypeOK, At
    <2>2. ASSUME NEW p \in Clis, NEW status \in {"completed", "failed"}, CliEnds(p, status)
          PROVE  TypeOK'
      <3>1. cli[p] \in JobIds
        BY <2>2 DEF CliEnds, TypeOK
      <3>2. jobs' \in [JobIds -> Rows]
        BY <2>2, <3>1, EndedType DEF CliEnds, Statuses, Terminal
      <3> QED BY <2>2, <3>2 DEF CliEnds, TypeOK, At
    <2>3. ASSUME NEW p \in Clis, CliStops(p) PROVE TypeOK'
      BY <2>3 DEF CliStops, TypeOK, At
    <2> QED BY <1>6, <2>1, <2>2, <2>3 DEF CliStep
  <1>7. CASE Crash
    <2>1. worker' \in [Workers -> Goroutines]
      BY <1>7 DEF Crash, Idle, Goroutines
    <2>2. \A w \in Workers : worker'[w].pc = "idle" /\ worker'[w].job = NoJob
      BY <1>7 DEF Crash, Idle
    <2> QED BY <1>7, <2>1, <2>2 DEF Crash, TypeOK, At, NoRequest, Statuses
  <1>8. CASE UNCHANGED vars
    BY <1>8 DEF vars, TypeOK, At
  <1> QED
    BY <1>1, <1>2, <1>3, <1>4, <1>5, <1>6, <1>7, <1>8 DEF Next, WorkerStep

(* Every reachable state of the queue is well typed: a goroutine always works on
   a row of the table, and a row's status is one the API knows. *)
THEOREM TypeCorrect == Spec => []TypeOK
  <1>1. Init => TypeOK
    <2> SUFFICES ASSUME Init PROVE TypeOK
      OBVIOUS
    <2>1. NoRow \in Rows
      BY RowType DEF NoRow, Kinds, Registered, Statuses
    <2>2. Idle \in Goroutines /\ Idle.pc = "idle" /\ Idle.job = NoJob
      BY DEF Idle, Goroutines
    <2>3. ready \in Seq(JobIds) /\ crashes \in 0 .. MaxCrashes
      BY BoundsAssumption DEF Init
    <2> QED BY <2>1, <2>2, <2>3 DEF Init, TypeOK, NoRequest, At, Statuses
  <1> QED BY <1>1, TypeStep, PTL DEF Spec

-----------------------------------------------------------------------------
(* What one step does to the table: it changes at most one row, in one of five
   ways.  The invariants about rows need nothing else from the actions. *)

Inserted(j, row) ==
    /\ jobs[j].status = "absent"
    /\ \E kind \in Kinds, source \in Sources \cup {NoSource} :
          /\ row = Row(kind, source, "queued")
          /\ kind = "sync_source" => ~ SyncRefused(source)

Claimed(j, row) ==
    /\ Candidate(j)
    /\ \E w \in Workers :
          row = [jobs[j] EXCEPT !.status = "running", !.lock = "held", !.worker = w]

Closed(j, row) ==
    \E status \in Terminal \cup {"deleted"} :
        /\ row = [jobs[j] EXCEPT !.status = status, !.lock = "none", !.worker = NoWorker]
        /\ \/ Endable(j) /\ status \in Terminal
           \/ jobs[j].status = "canceling" /\ status = "canceled"
           \/ jobs[j].status \in Terminal /\ status = "deleted"

Expired(j, row) ==
    jobs[j].lock = "held" /\ row = [jobs[j] EXCEPT !.lock = "expired"]

Canceling(j, row) ==
    jobs[j].status = "running" /\ row = [jobs[j] EXCEPT !.status = "canceling"]

RowChange(j, row) ==
    \/ Inserted(j, row)
    \/ Claimed(j, row)
    \/ Closed(j, row)
    \/ Expired(j, row)
    \/ Canceling(j, row)

TableStep ==
    \/ jobs' = jobs
    \/ \E j \in JobIds : \E row \in Rows :
          jobs' = [jobs EXCEPT ![j] = row] /\ RowChange(j, row)

(* An ending statement closes a row. *)
LEMMA EndedStep ==
    ASSUME TypeOK, NEW j \in JobIds, NEW status \in Terminal \cup {"deleted"},
           jobs' = Ended(j, status),
           \/ Endable(j) /\ status \in Terminal
           \/ jobs[j].status = "canceling" /\ status = "canceled"
           \/ jobs[j].status \in Terminal /\ status = "deleted"
    PROVE  TableStep
  <1> DEFINE row == [jobs[j] EXCEPT !.status = status, !.lock = "none", !.worker = NoWorker]
  <1>1. jobs[j] \in Rows /\ status \in Statuses
    BY DEF TypeOK, Statuses
  <1>2. row \in Rows
    BY <1>1, RowUpdateType
  <1>3. Closed(j, row)
    BY DEF Closed
  <1>4. jobs' = [jobs EXCEPT ![j] = row]
    BY DEF Ended
  <1> HIDE DEF row
  <1> QED BY <1>2, <1>3, <1>4 DEF TableStep, RowChange

(* Inserting a row, a sync job only where no job of its source is active. *)
LEMMA InsertStep ==
    ASSUME TypeOK, NEW j \in JobIds, NEW kind \in Kinds,
           NEW source \in Sources \cup {NoSource},
           jobs[j].status = "absent",
           jobs' = [jobs EXCEPT ![j] = Row(kind, source, "queued")],
           kind = "sync_source" => ~ SyncRefused(source)
    PROVE  TableStep
  <1>1. Row(kind, source, "queued") \in Rows
    BY RowType DEF Statuses, Active
  <1>2. Inserted(j, Row(kind, source, "queued"))
    BY DEF Inserted
  <1> QED BY <1>1, <1>2 DEF TableStep, RowChange

(* Every step is a step of the table. *)
LEMMA NextIsTableStep == TypeOK /\ [Next]_vars => TableStep
  <1> SUFFICES ASSUME TypeOK, [Next]_vars PROVE TableStep
    OBVIOUS
  <1>1. CASE Enqueue
    <2>1. ASSUME NEW s \in Sources, RequestSync(s) PROVE TableStep
      BY <2>1, InsertStep DEF RequestSync, Insert, NextId, Kinds, Registered
    <2>2. ASSUME NEW s \in Sources \cup {NoSource}, RequestEnsure(s) PROVE TableStep
      <3>1. PICK j \in JobIds : Insert(j, "maintenance_embedding_ensure", s)
        BY <2>2 DEF RequestEnsure
      <3>2. "maintenance_embedding_ensure" \in Kinds /\ "maintenance_embedding_ensure" # "sync_source"
        BY DEF Kinds, Registered
      <3>3. /\ jobs[j].status = "absent"
            /\ jobs' = [jobs EXCEPT ![j] = Row("maintenance_embedding_ensure", s, "queued")]
        BY <3>1 DEF Insert, NextId
      <3> QED BY <3>2, <3>3, InsertStep
    <2>3. ASSUME RequestMaintenance PROVE TableStep
      <3>1. PICK j \in JobIds : Insert(j, "maintenance_profile_rebuild", NoSource)
        BY <2>3 DEF RequestMaintenance
      <3>2. "maintenance_profile_rebuild" \in Kinds /\ "maintenance_profile_rebuild" # "sync_source"
        BY DEF Kinds, Registered
      <3>3. /\ jobs[j].status = "absent"
            /\ jobs' = [jobs EXCEPT ![j] = Row("maintenance_profile_rebuild", NoSource, "queued")]
        BY <3>1 DEF Insert, NextId
      <3> QED BY <3>2, <3>3, InsertStep
    <2> QED BY <1>1, <2>1, <2>2, <2>3 DEF Enqueue
  <1>2. ASSUME NEW w \in Workers, Claim(w) PROVE TableStep
    <2>1. PICK j \in JobIds :
            /\ Candidate(j)
            /\ jobs' = [jobs EXCEPT ![j] = [@ EXCEPT !.status = "running",
                                                     !.lock = "held", !.worker = w]]
      BY <1>2 DEF Claim
    <2> DEFINE row == [jobs[j] EXCEPT !.status = "running", !.lock = "held", !.worker = w]
    <2>2. row \in Rows
      BY RowUpdateType DEF TypeOK, Statuses, Active
    <2>3. Claimed(j, row) /\ jobs' = [jobs EXCEPT ![j] = row]
      BY <2>1 DEF Claimed
    <2> HIDE DEF row
    <2> QED BY <2>2, <2>3 DEF TableStep, RowChange
  <1>3. ASSUME NEW w \in Workers, HandlerStep(w) PROVE TableStep
    <2>1. worker[w].job \in JobIds
      BY <1>3, WorkerJob
         DEF HandlerStep, ClaimLost, Register, SyncSucceeds, EnqueueEnsure, EnsureDefers,
             EnsureSucceeds, HandlerFails, StoreCallLost, Settle, At
    <2>2. CASE EnqueueEnsure(w) \/ EnsureDefers(w)
      <3>1. jobs[worker[w].job].source \in Sources \cup {NoSource}
        BY <2>1 DEF TypeOK, Rows
      <3> DEFINE s == jobs[worker[w].job].source
      <3>2. \/ jobs' = jobs
            \/ \E j \in JobIds :
                  /\ jobs[j].status = "absent"
                  /\ jobs' = [jobs EXCEPT ![j] = Row("maintenance_embedding_ensure", s, "queued")]
        BY <2>2 DEF EnqueueEnsure, EnsureDefers, Insert, NextId
      <3> QED
        BY <3>1, <3>2, InsertStep DEF Kinds, Registered, TableStep
    <2>3. CASE SyncSucceeds(w) \/ EnsureSucceeds(w) \/ HandlerFails(w)
      BY <2>1, <2>3, EndedStep DEF SyncSucceeds, EnsureSucceeds, HandlerFails, Terminal
    <2>4. CASE Settle(w)
      BY <2>1, <2>4, EndedStep DEF Settle, Terminal, TableStep
    <2>5. CASE ClaimLost(w) \/ Register(w) \/ StoreCallLost(w)
      BY <2>5 DEF ClaimLost, Register, StoreCallLost, TableStep
    <2> QED BY <1>3, <2>2, <2>3, <2>4, <2>5 DEF HandlerStep
  <1>4. ASSUME NEW w \in Workers, Monitor(w) PROVE TableStep
    BY <1>4 DEF Monitor, TableStep
  <1>5. CASE TimePasses
    <2>1. ASSUME NEW j \in JobIds, LeaseExpires(j) PROVE TableStep
      <3> DEFINE row == [jobs[j] EXCEPT !.lock = "expired"]
      <3>1. row \in Rows
        <4>1. jobs[j] \in Rows
          BY DEF TypeOK
        <4> QED BY <4>1 DEF Rows
      <3>2. Expired(j, row) /\ jobs' = [jobs EXCEPT ![j] = row]
        BY <2>1 DEF Expired, LeaseExpires
      <3> HIDE DEF row
      <3> QED BY <3>1, <3>2 DEF TableStep, RowChange
    <2> QED BY <1>5, <2>1 DEF TimePasses, BecomeDue, TableStep
  <1>6. CASE ClientStep
    <2>1. ASSUME NEW c \in Clients, CancelWrite(c) PROVE TableStep
      <3>1. client[c].job \in JobIds
        BY <2>1 DEF CancelWrite, TypeOK
      <3>2. CASE jobs' = jobs
        BY <3>2 DEF TableStep
      <3>3. CASE StillAsRead(c) /\ client[c].seen = "queued" /\ jobs' = Ended(client[c].job, "canceled")
        BY <3>1, <3>3, EndedStep DEF StillAsRead, Endable, Present, Terminal
      <3>4. CASE /\ StillAsRead(c) /\ client[c].seen # "queued"
                 /\ jobs' = [jobs EXCEPT ![client[c].job].status = "canceling"]
        <4> DEFINE j == client[c].job
                   row == [jobs[j] EXCEPT !.status = "canceling"]
        <4>1. row \in Rows
          <5>1. jobs[j] \in Rows /\ "canceling" \in Statuses
            BY <3>1 DEF TypeOK, Statuses, Active
          <5> QED BY <5>1 DEF Rows
        <4>2. jobs[j].status = "running"
          BY <2>1, <3>4 DEF CancelWrite, StillAsRead, TypeOK
        <4>3. Canceling(j, row) /\ jobs' = [jobs EXCEPT ![j] = row]
          BY <3>4, <4>2 DEF Canceling
        <4> HIDE DEF row
        <4> QED BY <3>1, <4>1, <4>3 DEF TableStep, RowChange
      <3> QED BY <2>1, <3>2, <3>3, <3>4 DEF CancelWrite
    <2>2. ASSUME NEW j \in JobIds, DeleteJob(j) PROVE TableStep
      BY <2>2, EndedStep DEF DeleteJob
    <2> QED BY <1>6, <2>1, <2>2 DEF ClientStep, CancelRead, CancelSignal, TableStep
  <1>7. CASE CliStep
    <2>1. ASSUME NEW p \in Clis, NEW s \in Sources, CliStart(p, s) PROVE TableStep
      BY <2>1, InsertStep DEF CliStart, Insert, NextId, Kinds, Registered
    <2>2. ASSUME NEW p \in Clis, NEW status \in {"completed", "failed"}, CliEnds(p, status)
          PROVE  TableStep
      BY <2>2, EndedStep DEF CliEnds, TypeOK, Terminal
    <2> QED BY <1>7, <2>1, <2>2 DEF CliStep, CliStops, TableStep
  <1>8. CASE Crash
    BY <1>8 DEF Crash, TableStep
  <1>9. CASE UNCHANGED vars
    BY <1>9 DEF vars, TableStep
  <1> QED
    BY <1>1, <1>2, <1>3, <1>4, <1>5, <1>6, <1>7, <1>8, <1>9 DEF Next, WorkerStep

-----------------------------------------------------------------------------
(* The invariants of the rows *)

(* The strengthening SourceLeasedOnce needs to be inductive: a lease belongs to
   a job in execution, so the claim query, which looks at the executing rows
   only, sees every unexpired lease. *)
LeaseOfExecution ==
    \A j \in JobIds : jobs[j].lock # "none" => jobs[j].status \in {"running", "canceling"}

RowsInv == LeaseOfExecution /\ SourceLeasedOnce /\ OneActiveSync

(* The two other fields a change of a row may touch stay with the row. *)
LEMMA RowsStep == TypeOK /\ RowsInv /\ TableStep => RowsInv'
  <1> SUFFICES ASSUME TypeOK, RowsInv, NEW j \in JobIds, NEW row \in Rows,
                      jobs' = [jobs EXCEPT ![j] = row], RowChange(j, row)
               PROVE  RowsInv'
    BY DEF TableStep, RowsInv, LeaseOfExecution, SourceLeasedOnce, OneActiveSync, Conflict,
           IsActive
  <1> DEFINE Same(k) == jobs'[k] = jobs[k]
  <1>0. /\ jobs'[j] = row
        /\ jobs[j] \in Rows
        /\ \A k \in JobIds : k # j => Same(k)
    BY DEF TypeOK
  <1>1. LeaseOfExecution'
    <2>1. row.lock # "none" => row.status \in {"running", "canceling"}
      <3>1. CASE Inserted(j, row)
        BY <3>1 DEF Inserted, Row
      <3>2. CASE Claimed(j, row)
        BY <1>0, <3>2 DEF Claimed, Rows
      <3>3. CASE Closed(j, row)
        BY <1>0, <3>3 DEF Closed, Rows
      <3>4. CASE Expired(j, row)
        BY <1>0, <3>4 DEF Expired, Rows, RowsInv, LeaseOfExecution
      <3>5. CASE Canceling(j, row)
        BY <1>0, <3>5 DEF Canceling, Rows
      <3> QED BY <3>1, <3>2, <3>3, <3>4, <3>5 DEF RowChange
    <2> QED BY <1>0, <2>1 DEF RowsInv, LeaseOfExecution
  <1>2. SourceLeasedOnce'
    <2>1. SUFFICES ASSUME NEW k \in JobIds, k # j,
                          row.lock = "held", jobs[k].lock = "held",
                          row.kind \in Registered, jobs[k].kind \in Registered,
                          Overlap(row.source, jobs[k].source)
                   PROVE  FALSE
      BY <1>0 DEF SourceLeasedOnce, Conflict, Overlap, RowsInv
    <2>2. CASE Claimed(j, row)
      <3>1. row.kind = jobs[j].kind /\ row.source = jobs[j].source
        BY <1>0, <2>2 DEF Claimed, Rows
      <3>2. Conflict(j, k)
        BY <2>1, <3>1 DEF Conflict
      <3>3. InProgress(k)
        BY <2>1 DEF RowsInv, LeaseOfExecution, InProgress
      <3> QED BY <2>2, <3>2, <3>3 DEF Claimed, Candidate
    <2>3. CASE Canceling(j, row)
      <3>1. /\ row.kind = jobs[j].kind /\ row.source = jobs[j].source
            /\ row.lock = jobs[j].lock
        BY <1>0, <2>3 DEF Canceling, Rows
      <3> QED BY <2>1, <3>1 DEF RowsInv, SourceLeasedOnce, Conflict
    <2>4. CASE Inserted(j, row) \/ Closed(j, row) \/ Expired(j, row)
      <3>1. Inserted(j, row) => row.lock = "none"
        BY DEF Inserted, Row
      <3>2. Closed(j, row) => row.lock = "none"
        BY <1>0 DEF Closed, Rows
      <3>3. Expired(j, row) => row.lock = "expired"
        BY <1>0 DEF Expired, Rows
      <3> QED BY <2>1, <2>4, <3>1, <3>2, <3>3
    <2> QED BY <2>2, <2>3, <2>4 DEF RowChange
  <1>3. OneActiveSync'
    <2>1. SUFFICES ASSUME NEW k \in JobIds, k # j,
                          row.kind = "sync_source", jobs[k].kind = "sync_source",
                          row.source = jobs[k].source,
                          row.status \in Active, IsActive(k)
                   PROVE  FALSE
      BY <1>0 DEF OneActiveSync, IsActive, RowsInv
    <2>2. CASE Inserted(j, row)
      <3>1. ~ SyncRefused(row.source)
        BY <2>1, <2>2 DEF Inserted, Row
      <3> QED BY <2>1, <3>1 DEF SyncRefused
    <2>3. CASE Claimed(j, row) \/ Expired(j, row) \/ Canceling(j, row)
      <3>1. /\ row.kind = jobs[j].kind /\ row.source = jobs[j].source
            /\ jobs[j].status \in Active
        BY <1>0, <2>1, <2>3
           DEF Claimed, Candidate, Expired, Canceling, Rows, RowsInv, LeaseOfExecution, Active
      <3> QED BY <2>1, <3>1 DEF RowsInv, OneActiveSync, IsActive
    <2>4. CASE Closed(j, row)
      BY <1>0, <2>1, <2>4 DEF Closed, Rows, Terminal, Active
    <2> QED BY <2>2, <2>3, <2>4 DEF RowChange
  <1> QED BY <1>1, <1>2, <1>3 DEF RowsInv

LEMMA RowsInvariant == Spec => [](TypeOK /\ RowsInv)
  <1>1. Init => RowsInv
    BY DEF Init, RowsInv, LeaseOfExecution, SourceLeasedOnce, OneActiveSync, NoRow, Row,
           IsActive, Active
  <1>2. TypeOK /\ RowsInv /\ [Next]_vars => RowsInv'
    BY NextIsTableStep, RowsStep
  <1> QED BY <1>1, <1>2, TypeCorrect, PTL DEF Spec

(* Whatever the number of workers, jobs, cancellations and crashes, and even when
   handlers outlive their leases, no two overlapping jobs hold unexpired leases. *)
THEOREM LeasesExclude == Spec => []SourceLeasedOnce
  BY RowsInvariant, PTL DEF RowsInv

(* No source ever has two active sync jobs, so a 409 from the API always names
   the one there is. *)
THEOREM SyncIsUnique == Spec => []OneActiveSync
  BY RowsInvariant, PTL DEF RowsInv

(* One step never takes back a cancellation, and never revives an ended job. *)
LEMMA EndsAreKept ==
    ASSUME TypeOK, TableStep, NEW k \in JobIds
    PROVE  /\ jobs[k].status = "canceling" => jobs'[k].status \in {"canceling", "canceled"}
           /\ jobs[k].status = "canceled"  => jobs'[k].status \in {"canceled", "deleted"}
           /\ jobs[k].status \in Terminal  => jobs'[k].status \in Terminal \cup {"deleted"}
  <1> SUFFICES ASSUME NEW row \in Rows, jobs' = [jobs EXCEPT ![k] = row], RowChange(k, row)
               PROVE  /\ jobs[k].status = "canceling" => row.status \in {"canceling", "canceled"}
                      /\ jobs[k].status = "canceled" => row.status \in {"canceled", "deleted"}
                      /\ jobs[k].status \in Terminal => row.status \in Terminal \cup {"deleted"}
    BY DEF TableStep, TypeOK
  <1>1. jobs[k] \in Rows
    BY DEF TypeOK
  <1>2. CASE Inserted(k, row) \/ Claimed(k, row) \/ Canceling(k, row)
    BY <1>2 DEF Inserted, Claimed, Candidate, Canceling, Terminal
  <1>3. CASE Closed(k, row)
    BY <1>1, <1>3 DEF Closed, Rows, Endable, Terminal
  <1>4. CASE Expired(k, row)
    BY <1>1, <1>4 DEF Expired, Rows
  <1> QED BY <1>2, <1>3, <1>4 DEF RowChange

(* Every cancellation the API acknowledged stands, under any interleaving with
   late handlers, second claims, command lines and crashes. *)
THEOREM CancellationStands == Spec => CancelIsFinal
  <1>1. TypeOK /\ [Next]_vars =>
          [\A j \in JobIds :
             /\ jobs[j].status = "canceling" => jobs'[j].status \in {"canceling", "canceled"}
             /\ jobs[j].status = "canceled"  => jobs'[j].status \in {"canceled", "deleted"}]_vars
    BY NextIsTableStep, EndsAreKept
  <1> QED BY <1>1, TypeCorrect, PTL DEF Spec, CancelIsFinal

(* No ended job ever becomes active again. *)
THEOREM EndedForGood == Spec => EndedStaysEnded
  <1>1. TypeOK /\ [Next]_vars =>
          [\A j \in JobIds :
             jobs[j].status \in Terminal => jobs'[j].status \in Terminal \cup {"deleted"}]_vars
    BY NextIsTableStep, EndsAreKept
  <1> QED BY <1>1, TypeCorrect, PTL DEF Spec, EndedStaysEnded

-----------------------------------------------------------------------------
(* Exclusion of the work itself, where leases are long enough *)

(* A goroutine that has a job either holds its unexpired lease, or has ended it
   and works on it no more.  Neither holds once a handler outlives its lease or
   a command line ends a job it never claimed. *)
Owns(w) ==
    /\ jobs[worker[w].job].status \in {"running", "canceling"}
    /\ jobs[worker[w].job].lock = "held"
    /\ jobs[worker[w].job].worker = w

Done(w) == ~ Busy(w) /\ jobs[worker[w].job].status \in Terminal \cup {"deleted"}

LeasedWork == \A w \in Workers : worker[w].job # NoJob => Owns(w) \/ Done(w)

(* A step that leaves the goroutines their place keeps LeasedWork if it leaves
   the rows they handle, or cancels or deletes them. *)
LEMMA WorkKept ==
    ASSUME LeasedWork,
           \A w \in Workers : worker'[w].job = worker[w].job /\ worker'[w].pc = worker[w].pc,
           \A j \in JobIds : Handled(j) =>
              \/ jobs'[j] = jobs[j]
              \/ /\ jobs[j].status = "running" /\ jobs'[j].status = "canceling"
                 /\ jobs'[j].lock = jobs[j].lock /\ jobs'[j].worker = jobs[j].worker
              \/ jobs[j].status \in Terminal /\ jobs'[j].status = "deleted",
           TypeOK
    PROVE  LeasedWork'
  <1> SUFFICES ASSUME NEW w \in Workers, worker'[w].job # NoJob
               PROVE  Owns(w)' \/ Done(w)'
    BY DEF LeasedWork
  <1> DEFINE j == worker[w].job
  <1>1. j \in JobIds /\ Handled(j) /\ worker'[w].job = j
    BY DEF TypeOK, Goroutines, Handled
  <1>2. Owns(w) \/ Done(w)
    BY DEF LeasedWork
  <1>3. Busy(w)' <=> Busy(w)
    BY DEF Busy
  <1> QED BY <1>1, <1>2, <1>3 DEF Owns, Done, Terminal

(* A step of one goroutine on its own job keeps LeasedWork if it still owns the
   job afterwards, or has ended it, or has let go of it. *)
LEMMA WorkOfOne ==
    ASSUME TypeOK, LeasedWork, NEW w \in Workers, worker[w].job # NoJob,
           \A v \in Workers \ {w} : worker'[v] = worker[v],
           \A j \in JobIds : j # worker[w].job /\ jobs[j].status # "absent" => jobs'[j] = jobs[j],
           jobs'[worker[w].job] = jobs[worker[w].job] \/ Owns(w),
           worker'[w].job # NoJob => Owns(w)' \/ Done(w)'
    PROVE  LeasedWork'
  <1> SUFFICES ASSUME NEW v \in Workers, v # w, worker'[v].job # NoJob
               PROVE  Owns(v)' \/ Done(v)'
    BY DEF LeasedWork
  <1> DEFINE j == worker[v].job
  <1>1. j \in JobIds /\ worker'[v] = worker[v]
    BY DEF TypeOK, Goroutines
  <1>2. Owns(v) \/ Done(v)
    BY <1>1 DEF LeasedWork
  <1>3. jobs[j].status # "absent"
    BY <1>2 DEF Owns, Done, Terminal
  <1>4. jobs'[j] = jobs[j]
    <2>1. CASE j # worker[w].job
      BY <1>1, <1>3, <2>1
    <2>2. CASE j = worker[w].job /\ Owns(w)
      <3>1. ~ Owns(v)
        BY <2>2 DEF Owns
      <3>2. ~ Done(v)
        BY <2>2 DEF Owns, Done, Terminal
      <3> QED BY <1>2, <3>1, <3>2
    <2> QED BY <2>1, <2>2
  <1> QED BY <1>1, <1>2, <1>4 DEF Owns, Done, Busy

(* An insert leaves every row that is there. *)
LEMMA InsertLeaves ==
    ASSUME TypeOK, NEW j \in JobIds, NEW row, jobs' = [jobs EXCEPT ![j] = row],
           jobs[j].status = "absent"
    PROVE  \A k \in JobIds : jobs[k].status # "absent" => jobs'[k] = jobs[k]
  BY DEF TypeOK

(* Under leases that are long enough, every step keeps LeasedWork. *)
LEMMA LeasedWorkStep ==
    ASSUME LeaseOverrun = FALSE, Clis = {}
    PROVE  TypeOK /\ LeasedWork /\ [Next]_vars => LeasedWork'
  <1> SUFFICES ASSUME TypeOK, LeasedWork, [Next]_vars PROVE LeasedWork'
    OBVIOUS
  <1>1. \A j \in JobIds : Handled(j) =>
           jobs[j].status \in {"running", "canceling", "deleted"} \cup Terminal
    BY DEF Handled, LeasedWork, Owns, Done, JobIds, NoJob
  <1>2. CASE Enqueue
    <2>1. \E j \in JobIds : \E row :
             jobs[j].status = "absent" /\ jobs' = [jobs EXCEPT ![j] = row]
      BY <1>2 DEF Enqueue, RequestSync, RequestEnsure, RequestMaintenance, Insert, NextId
    <2>2. UNCHANGED worker
      BY <1>2 DEF Enqueue, RequestSync, RequestEnsure, RequestMaintenance
    <2>3. \A j \in JobIds : Handled(j) => jobs'[j] = jobs[j]
      BY <1>1, <2>1, InsertLeaves DEF Terminal
    <2> QED BY <2>2, <2>3, WorkKept
  <1>3. ASSUME NEW w \in Workers, Claim(w) PROVE LeasedWork'
    <2>1. PICK j \in JobIds :
            /\ Candidate(j)
            /\ jobs' = [jobs EXCEPT ![j] = [@ EXCEPT !.status = "running",
                                                     !.lock = "held", !.worker = w]]
            /\ worker' = [worker EXCEPT ![w] = [pc |-> "claimed", job |-> j,
                                                ctx |-> "live"]]
      BY <1>3 DEF Claim
    <2>2. jobs[j] \in Rows /\ worker'[w].job = j
      BY <2>1 DEF TypeOK
    <2>3. Owns(w)'
      BY <2>1, <2>2 DEF Owns, TypeOK, Rows
    <2>4. ASSUME NEW v \in Workers, v # w, worker'[v].job # NoJob
          PROVE  Owns(v)' \/ Done(v)'
      <3>1. worker'[v] = worker[v] /\ worker[v].job \in JobIds
        BY <2>1, <2>4 DEF TypeOK, Goroutines
      <3>2. Owns(v) \/ Done(v)
        BY <2>4, <3>1 DEF LeasedWork
      <3>3. worker[v].job # j
        BY <2>1, <3>2 DEF Candidate, Owns, Done, Terminal
      <3>4. jobs'[worker[v].job] = jobs[worker[v].job]
        BY <2>1, <3>1, <3>3 DEF TypeOK
      <3> QED BY <3>1, <3>2, <3>4 DEF Owns, Done, Busy
    <2> QED BY <2>3, <2>4 DEF LeasedWork
  <1>4. ASSUME NEW w \in Workers, HandlerStep(w) PROVE LeasedWork'
    <2> DEFINE j == worker[w].job
    <2>1. j \in JobIds /\ j # NoJob
      BY <1>4, WorkerJob
         DEF HandlerStep, ClaimLost, Register, SyncSucceeds, EnqueueEnsure, EnsureDefers,
             EnsureSucceeds, HandlerFails, StoreCallLost, Settle, At, JobIds, NoJob
    <2>2. Owns(w) \/ Done(w)
      BY <2>1 DEF LeasedWork
    <2>3. jobs[j].status # "absent"
      BY <2>2 DEF Owns, Done, Terminal
    <2>4. \A v \in Workers \ {w} : worker'[v] = worker[v]
      BY <1>4 DEF HandlerStep, ClaimLost, Register, SyncSucceeds, EnqueueEnsure, EnsureDefers,
             EnsureSucceeds, HandlerFails, StoreCallLost, Settle, GoTo, TypeOK
    <2>5. CASE Register(w) \/ StoreCallLost(w)
      <3>1. jobs' = jobs /\ worker'[w].job = j /\ (Busy(w)' => Busy(w))
        BY <2>5 DEF Register, StoreCallLost, GoTo, TypeOK, Goroutines, Busy, At
      <3>2. Owns(w)' \/ Done(w)'
        BY <2>2, <3>1 DEF Owns, Done
      <3> QED BY <2>1, <2>4, <3>1, <3>2, WorkOfOne
    <2>6. CASE SyncSucceeds(w) \/ EnsureSucceeds(w) \/ HandlerFails(w)
      <3>1. Owns(w)
        BY <2>2, <2>6 DEF SyncSucceeds, EnsureSucceeds, HandlerFails, Busy, At, Done
      <3>2. PICK status \in Terminal : jobs' = Ended(j, status)
        BY <2>6 DEF SyncSucceeds, EnsureSucceeds, HandlerFails, Terminal
      <3>3. /\ jobs'[j].status = status
            /\ \A k \in JobIds : k # j => jobs'[k] = jobs[k]
        BY <2>1, <3>2 DEF Ended, TypeOK, Rows
      <3>4. worker'[w].pc \in {"enqueue", "settle"} /\ worker'[w].job = j
        BY <2>6 DEF SyncSucceeds, EnsureSucceeds, HandlerFails, GoTo, TypeOK, Goroutines
      <3>5. Done(w)'
        BY <3>3, <3>4 DEF Done, Busy
      <3> QED BY <2>1, <2>4, <3>1, <3>3, <3>5, WorkOfOne
    <2>7. CASE EnqueueEnsure(w) \/ EnsureDefers(w)
      <3>1. \/ jobs' = jobs
            \/ \E k \in JobIds : \E row :
                  jobs[k].status = "absent" /\ jobs' = [jobs EXCEPT ![k] = row]
        BY <2>7 DEF EnqueueEnsure, EnsureDefers, Insert, NextId
      <3>2. \A k \in JobIds : jobs[k].status # "absent" => jobs'[k] = jobs[k]
        BY <3>1, InsertLeaves
      <3>3. worker'[w].job = j /\ (Busy(w)' => Busy(w))
        BY <2>7 DEF EnqueueEnsure, EnsureDefers, GoTo, TypeOK, Goroutines, Busy, At
      <3>4. Owns(w)' \/ Done(w)'
        BY <2>1, <2>2, <2>3, <3>2, <3>3 DEF Owns, Done
      <3> QED BY <2>1, <2>3, <2>4, <3>2, <3>4, WorkOfOne
    <2>8. CASE Settle(w)
      <3>1. jobs[j].status = "canceling" => Owns(w)
        BY <2>2 DEF Done, Terminal
      <3>2. /\ \A k \in JobIds : k # j => jobs'[k] = jobs[k]
            /\ jobs[j].status # "canceling" => jobs' = jobs
        BY <2>1, <2>8 DEF Settle, Ended, TypeOK
      <3>3. worker'[w].job = NoJob
        BY <2>8 DEF Settle, Idle, TypeOK
      <3> QED BY <2>1, <2>4, <3>1, <3>2, <3>3, WorkOfOne
    <2>9. CASE ClaimLost(w)
      <3>1. jobs' = jobs /\ worker'[w].job = NoJob
        BY <2>9 DEF ClaimLost, Idle, TypeOK
      <3> QED BY <2>1, <2>4, <3>1, WorkOfOne
    <2> QED BY <1>4, <2>5, <2>6, <2>7, <2>8, <2>9 DEF HandlerStep
  <1>5. ASSUME NEW w \in Workers, Monitor(w) PROVE LeasedWork'
    <2>1. jobs' = jobs
      BY <1>5 DEF Monitor
    <2>2. \A v \in Workers : worker'[v].job = worker[v].job /\ worker'[v].pc = worker[v].pc
      BY <1>5 DEF Monitor, TypeOK, Goroutines
    <2> QED BY <2>1, <2>2, WorkKept
  <1>6. CASE TimePasses
    <2>1. UNCHANGED worker
      BY <1>6 DEF TimePasses, BecomeDue, LeaseExpires
    <2>2. \A j \in JobIds : Handled(j) => jobs'[j] = jobs[j]
      BY <1>6 DEF TimePasses, BecomeDue, LeaseExpires, TypeOK
    <2> QED BY <2>1, <2>2, WorkKept
  <1>7. CASE ClientStep
    <2>1. \A v \in Workers : worker'[v].job = worker[v].job /\ worker'[v].pc = worker[v].pc
      <3>1. CASE UNCHANGED worker
        BY <3>1
      <3>2. ASSUME NEW c \in Clients, CancelSignal(c)
            PROVE  \A v \in Workers : worker'[v].job = worker[v].job /\ worker'[v].pc = worker[v].pc
        BY <3>2 DEF CancelSignal, TypeOK, Goroutines
      <3> QED BY <1>7, <3>1, <3>2 DEF ClientStep, CancelRead, CancelWrite, DeleteJob
    <2>2. ASSUME NEW c \in Clients, CancelWrite(c) PROVE LeasedWork'
      <3>1. client[c].job \in JobIds /\ client[c].seen \in {"queued", "running"}
        BY <2>2 DEF CancelWrite, TypeOK
      <3>2. CASE jobs' = jobs
        BY <2>1, <3>2, WorkKept
      <3>3. CASE jobs[client[c].job].status = "queued" /\ jobs' = Ended(client[c].job, "canceled")
        <4>1. \A j \in JobIds : Handled(j) => jobs'[j] = jobs[j]
          BY <1>1, <3>1, <3>3 DEF Ended, TypeOK, Terminal
        <4> QED BY <2>1, <4>1, WorkKept
      <3>4. CASE /\ jobs[client[c].job].status = "running"
                 /\ jobs' = [jobs EXCEPT ![client[c].job].status = "canceling"]
        <4>1. \A j \in JobIds :
                 \/ jobs'[j] = jobs[j]
                 \/ /\ jobs[j].status = "running" /\ jobs'[j].status = "canceling"
                    /\ jobs'[j].lock = jobs[j].lock /\ jobs'[j].worker = jobs[j].worker
          BY <3>1, <3>4 DEF TypeOK, Rows
        <4> QED BY <2>1, <4>1, WorkKept
      <3> QED BY <2>2, <3>1, <3>2, <3>3, <3>4 DEF CancelWrite, StillAsRead
    <2>3. ASSUME NEW k \in JobIds, DeleteJob(k) PROVE LeasedWork'
      <3>1. \A j \in JobIds :
               \/ jobs'[j] = jobs[j]
               \/ jobs[j].status \in Terminal /\ jobs'[j].status = "deleted"
        <4>1. jobs' = Ended(k, "deleted")
          BY <2>3 DEF DeleteJob
        <4>2. jobs'[k].status = "deleted" /\ \A j \in JobIds : j # k => jobs'[j] = jobs[j]
          BY <4>1 DEF Ended, TypeOK, Rows
        <4>3. jobs[k].status \in Terminal
          BY <2>3 DEF DeleteJob
        <4> QED BY <4>2, <4>3
      <3> QED BY <2>1, <3>1, WorkKept
    <2>4. CASE UNCHANGED jobs
      BY <2>1, <2>4, WorkKept
    <2> QED BY <1>7, <2>2, <2>3, <2>4 DEF ClientStep, CancelRead, CancelSignal
  <1>8. CASE CliStep
    BY <1>8 DEF CliStep
  <1>9. CASE Crash
    BY <1>9 DEF Crash, LeasedWork, Idle
  <1>10. CASE UNCHANGED vars
    BY <1>10, WorkKept DEF vars
  <1> QED
    BY <1>2, <1>3, <1>4, <1>5, <1>6, <1>7, <1>8, <1>9, <1>10 DEF Next, WorkerStep

LEMMA LeasedWorkInvariant ==
    ASSUME LeaseOverrun = FALSE, Clis = {}
    PROVE  Spec => []LeasedWork
  <1>1. Init => LeasedWork
    BY DEF Init, LeasedWork, Idle
  <1>2. TypeOK /\ LeasedWork /\ [Next]_vars => LeasedWork'
    BY LeasedWorkStep
  <1> QED BY <1>1, <1>2, TypeCorrect, PTL DEF Spec

(* Exclusion of unexpired leases, with every working goroutine holding one, is
   exclusion of the work. *)
LEMMA OwnersExclude ==
    ASSUME TypeOK, SourceLeasedOnce, LeasedWork, Clis = {}
    PROVE  WorkIsExclusive /\ CanceledMeansStopped
  <1>1. ASSUME NEW w \in Workers, Busy(w)
        PROVE  worker[w].job \in JobIds /\ Owns(w)
    BY <1>1 DEF TypeOK, Goroutines, Busy, At, LeasedWork, Done
  <1>2. ASSUME NEW v \in Workers, NEW w \in Workers, v # w, Busy(v), Busy(w)
        PROVE  worker[v].job # worker[w].job /\ ~ Conflict(worker[v].job, worker[w].job)
    BY <1>1, <1>2 DEF Owns, SourceLeasedOnce
  <1>3. ASSUME NEW w \in Workers, Busy(w)
        PROVE  jobs[worker[w].job].status # "canceled"
    BY <1>1, <1>3 DEF Owns
  <1> QED BY <1>2, <1>3 DEF WorkIsExclusive, CanceledMeansStopped

(* Where handlers return within their lease and no command line runs a job, two
   executions never overlap on a source, whatever is canceled, fails or crashes. *)
THEOREM WorkExcludes ==
    ASSUME LeaseOverrun = FALSE, Clis = {}
    PROVE  Spec => []WorkIsExclusive
  <1>1. TypeOK /\ RowsInv /\ LeasedWork => WorkIsExclusive
    BY OwnersExclude DEF RowsInv
  <1> QED BY <1>1, TypeCorrect, RowsInvariant, LeasedWorkInvariant, PTL

(* Under the same conditions no handler works on a job that reads "canceled". *)
THEOREM CanceledIsStopped ==
    ASSUME LeaseOverrun = FALSE, Clis = {}
    PROVE  Spec => []CanceledMeansStopped
  <1>1. TypeOK /\ RowsInv /\ LeasedWork => CanceledMeansStopped
    BY OwnersExclude DEF RowsInv
  <1> QED BY <1>1, TypeCorrect, RowsInvariant, LeasedWorkInvariant, PTL

-----------------------------------------------------------------------------
(* At most one retry waits, where no store call fails and nothing crashes *)

(* A job somebody has canceled or ended: no worker takes it any more. *)
Over(j) == jobs[j].status \in Terminal \cup {"canceling", "deleted"}

(* Every execution in progress is in the hands of a goroutine. *)
InHand == \A j \in JobIds : jobs[j].status \in {"running", "canceling"} => Handled(j)

(* A goroutine returns from a handler, or has its context canceled, only when
   its job is over. *)
Stopping ==
    \A w \in Workers :
        /\ At(w, "settle") => Over(worker[w].job)
        /\ At(w, "enqueue") => jobs[worker[w].job].status \in Terminal \cup {"deleted"}
        /\ ~ Live(w) => ~ At(w, "idle") /\ Over(worker[w].job)

(* A request signals a job it has canceled, and the entry it calls is the one of
   the goroutine that works on that job. *)
Signals ==
    /\ \A c \in Clients : client[c].pc = "signal" => Over(client[c].job)
    /\ \A j \in JobIds : running[j] # NoWorker => worker[running[j]].job = j

ActiveEnsure(j) == jobs[j].kind = "maintenance_embedding_ensure" /\ IsActive(j)

(* The pass over job j has queued its retry, or has returned. *)
Leaving(j) == \E w \in Workers : worker[w].job = j /\ worker[w].pc \in {"deferred", "settle"}

(* Two overlapping ensure jobs are active only while the older one is leaving
   and the other one waits. *)
OneRetry ==
    \A j, k \in JobIds :
        Conflict(j, k) /\ ActiveEnsure(j) /\ ActiveEnsure(k) =>
            \/ jobs[j].status = "queued" /\ jobs[k].status # "queued" /\ Leaving(k)
            \/ jobs[k].status = "queued" /\ jobs[j].status # "queued" /\ Leaving(j)

RetryInv == InHand /\ Stopping /\ Signals /\ OneRetry

(* A job that is over stays over; an ended one stays ended. *)
LEMMA OverStays ==
    ASSUME TypeOK, RowsInv, TableStep, NEW k \in JobIds
    PROVE  /\ Over(k) => Over(k)'
           /\ jobs[k].status \in Terminal \cup {"deleted"} =>
                 jobs'[k].status \in Terminal \cup {"deleted"}
  <1>1. jobs[k].status = "deleted" => jobs'[k].status = "deleted"
    <2> SUFFICES ASSUME NEW row \in Rows, jobs' = [jobs EXCEPT ![k] = row], RowChange(k, row),
                        jobs[k].status = "deleted"
                 PROVE  FALSE
      BY DEF TableStep, TypeOK
    <2>1. jobs[k].lock = "none"
      BY DEF RowsInv, LeaseOfExecution, TypeOK, Rows
    <2> QED
      BY <2>1 DEF RowChange, Inserted, Claimed, Candidate, Closed, Endable, Present, Expired,
                  Canceling, Terminal
  <1> QED BY <1>1, EndsAreKept DEF Over, Terminal

(* What ending or deleting a row does to the table. *)
LEMMA EndedRow ==
    ASSUME TypeOK, NEW j \in JobIds, NEW status, jobs' = Ended(j, status)
    PROVE  /\ jobs'[j].status = status
           /\ jobs'[j].kind = jobs[j].kind
           /\ jobs'[j].source = jobs[j].source
           /\ \A k \in JobIds : k # j => jobs'[k] = jobs[k]
  <1>1. jobs[j] \in Rows
    BY DEF TypeOK
  <1> QED BY <1>1 DEF Ended, TypeOK, Rows

(* The write of a cancellation changes nothing, or cancels a queued row, or asks
   a running one to stop. *)
LEMMA CancelRow ==
    ASSUME TypeOK, NEW c \in Clients, CancelWrite(c), jobs' # jobs,
           NEW j \in JobIds, j = client[c].job
    PROVE  /\ \A k \in JobIds : k # j => jobs'[k] = jobs[k]
           /\ jobs'[j].kind = jobs[j].kind /\ jobs'[j].source = jobs[j].source
           /\ \/ jobs[j].status = "queued" /\ jobs'[j].status = "canceled"
              \/ jobs[j].status = "running" /\ jobs'[j].status = "canceling"
  <1>1. client[c].seen \in {"queued", "running"} /\ StillAsRead(c)
    BY DEF CancelWrite, TypeOK
  <1>2. jobs[j] \in Rows /\ jobs[j].status = client[c].seen
    BY <1>1 DEF StillAsRead, TypeOK
  <1>3. CASE client[c].seen = "queued"
    <2>1. jobs' = Ended(j, "canceled")
      BY <1>1, <1>3 DEF CancelWrite
    <2> QED BY <1>2, <1>3, <2>1, EndedRow
  <1>4. CASE client[c].seen = "running"
    <2>1. jobs' = [jobs EXCEPT ![j].status = "canceling"]
      BY <1>1, <1>4 DEF CancelWrite
    <2> QED BY <1>2, <1>4, <2>1 DEF TypeOK, Rows
  <1> QED BY <1>1, <1>3, <1>4

(* The API moves no goroutine. *)
LEMMA ClientsMoveNobody ==
    ASSUME TypeOK, ClientStep, NEW v \in Workers
    PROVE  worker'[v].job = worker[v].job /\ worker'[v].pc = worker[v].pc
  <1>1. CASE UNCHANGED worker
    BY <1>1
  <1>2. ASSUME NEW c \in Clients, CancelSignal(c)
        PROVE  worker'[v].job = worker[v].job /\ worker'[v].pc = worker[v].pc
    BY <1>2 DEF CancelSignal, TypeOK, Goroutines
  <1> QED BY <1>1, <1>2 DEF ClientStep, CancelRead, CancelWrite, DeleteJob

(* What a goroutine that is not idle has is a row, and an idle one has none. *)
LEMMA HandsOnRows ==
    ASSUME TypeOK, NEW w \in Workers
    PROVE  \/ At(w, "idle") /\ worker[w].job = NoJob /\ worker[w].job \notin JobIds
           \/ ~ At(w, "idle") /\ worker[w].job # NoJob /\ worker[w].job \in JobIds
  BY DEF TypeOK, Goroutines, JobIds, NoJob

(* Executions stay in hand while no goroutine lets go of one and no row enters
   execution. *)
LEMMA InHandKept ==
    ASSUME InHand,
           \A j \in JobIds : jobs'[j].status \in {"running", "canceling"} =>
                /\ jobs[j].status \in {"running", "canceling"}
                /\ Handled(j) => Handled(j)'
    PROVE  InHand'
  BY DEF InHand

(* Stopping stays true of the goroutines a step leaves alone. *)
LEMMA StoppingKept ==
    ASSUME TypeOK, RowsInv, TableStep, Stopping, NEW w \in Workers, worker'[w] = worker[w]
    PROVE  /\ At(w, "settle")' => Over(worker[w].job)'
           /\ At(w, "enqueue")' => jobs'[worker'[w].job].status \in Terminal \cup {"deleted"}
           /\ ~ Live(w)' => ~ At(w, "idle")' /\ Over(worker[w].job)'
  <1>1. CASE At(w, "idle")
    BY <1>1 DEF Stopping, At, Live
  <1>2. CASE ~ At(w, "idle")
    <2>1. PICK j \in JobIds : j = worker[w].job
      BY <1>2, HandsOnRows
    <2>2. /\ Over(j) => Over(j)'
          /\ jobs[j].status \in Terminal \cup {"deleted"} =>
                jobs'[j].status \in Terminal \cup {"deleted"}
      BY OverStays
    <2> QED BY <1>2, <2>1, <2>2 DEF Stopping, At, Live, Over
  <1> QED BY <1>1, <1>2

(* The retry invariant stays true while active ensure jobs only end, and those
   that leave go on leaving. *)
LEMMA OneRetryKept ==
    ASSUME OneRetry,
           \A j \in JobIds : ActiveEnsure(j)' =>
                /\ ActiveEnsure(j)
                /\ jobs'[j].source = jobs[j].source
                /\ (jobs'[j].status = "queued") <=> (jobs[j].status = "queued")
                /\ Leaving(j) => Leaving(j)'
    PROVE  OneRetry'
  <1> SUFFICES ASSUME NEW j \in JobIds, NEW k \in JobIds,
                      Conflict(j, k)', ActiveEnsure(j)', ActiveEnsure(k)'
               PROVE  \/ jobs'[j].status = "queued" /\ jobs'[k].status # "queued" /\ Leaving(k)'
                      \/ jobs'[k].status = "queued" /\ jobs'[j].status # "queued" /\ Leaving(j)'
    BY DEF OneRetry
  <1>1. Conflict(j, k)
    BY DEF Conflict, ActiveEnsure, Registered
  <1> QED BY <1>1 DEF OneRetry

(* An ensure job queued where none overlaps it is the only one. *)
LEMMA OneRetryInsert ==
    ASSUME TypeOK, OneRetry, NEW j \in JobIds, NEW s \in Sources \cup {NoSource},
           jobs[j].status = "absent",
           jobs' = [jobs EXCEPT ![j] = Row("maintenance_embedding_ensure", s, "queued")],
           \A k \in JobIds : ActiveEnsure(k) /\ Overlap(s, jobs[k].source) =>
              jobs[k].status # "queued" /\ Leaving(k)',
           \A k \in JobIds : Leaving(k) => Leaving(k)'
    PROVE  OneRetry'
  <1>1. /\ jobs'[j].status = "queued" /\ jobs'[j].source = s
        /\ \A k \in JobIds : k # j => jobs'[k] = jobs[k]
    BY DEF TypeOK, Row
  <1>2. ASSUME NEW k \in JobIds, k # j, Overlap(jobs'[j].source, jobs'[k].source),
               ActiveEnsure(k)'
        PROVE  jobs'[k].status # "queued" /\ Leaving(k)'
    BY <1>1, <1>2 DEF ActiveEnsure, IsActive
  <1> SUFFICES ASSUME NEW i \in JobIds, NEW k \in JobIds,
                      Conflict(i, k)', ActiveEnsure(i)', ActiveEnsure(k)'
               PROVE  \/ jobs'[i].status = "queued" /\ jobs'[k].status # "queued" /\ Leaving(k)'
                      \/ jobs'[k].status = "queued" /\ jobs'[i].status # "queued" /\ Leaving(i)'
    BY DEF OneRetry
  <1>3. i # k /\ Overlap(jobs'[i].source, jobs'[k].source)
             /\ Overlap(jobs'[k].source, jobs'[i].source)
    BY DEF Conflict, Overlap
  <1>4. CASE i = j
    BY <1>1, <1>2, <1>3, <1>4
  <1>5. CASE k = j
    BY <1>1, <1>2, <1>3, <1>5
  <1>6. CASE i # j /\ k # j
    <2>1. jobs'[i] = jobs[i] /\ jobs'[k] = jobs[k]
      BY <1>1, <1>6
    <2>2. Conflict(i, k) /\ ActiveEnsure(i) /\ ActiveEnsure(k)
      BY <2>1 DEF Conflict, ActiveEnsure, IsActive
    <2> QED BY <2>1, <2>2 DEF OneRetry
  <1> QED BY <1>4, <1>5, <1>6

(* The idle check of an ensure job sees every ensure job that overlaps it. *)
LEMMA IdleMeansNone ==
    ASSUME NEW s \in Sources \cup {NoSource}, ~ EnsureRefused(s), NEW k \in JobIds
    PROVE  ~ (ActiveEnsure(k) /\ Overlap(s, jobs[k].source))
  BY DEF EnsureRefused, ActiveEnsure, Overlap

-----------------------------------------------------------------------------
(* Each conjunct of RetryInv, over the steps *)

LEMMA InHandStep ==
    ASSUME LeaseOverrun = FALSE, Clis = {}, StoreFaults = FALSE, MaxCrashes = 0
    PROVE  TypeOK /\ RetryInv /\ [Next]_vars => InHand'
  <1> SUFFICES ASSUME TypeOK, RetryInv, [Next]_vars PROVE InHand'
    OBVIOUS
  <1> USE DEF RetryInv
  <1>1. CASE Enqueue
    <2>1. PICK j \in JobIds, kind \in Kinds, s \in Sources \cup {NoSource} : Insert(j, kind, s)
      BY <1>1 DEF Enqueue, RequestSync, RequestEnsure, RequestMaintenance, Kinds, Registered
    <2>2. jobs'[j].status = "queued" /\ \A k \in JobIds : k # j => jobs'[k] = jobs[k]
      BY <2>1 DEF Insert, TypeOK, Row
    <2>3. UNCHANGED worker
      BY <1>1 DEF Enqueue, RequestSync, RequestEnsure, RequestMaintenance
    <2> QED BY <2>2, <2>3, InHandKept DEF Handled
  <1>2. ASSUME NEW w \in Workers, Claim(w) PROVE InHand'
    <2>1. PICK j \in JobIds :
            /\ jobs' = [jobs EXCEPT ![j] = [@ EXCEPT !.status = "running",
                                                     !.lock = "held", !.worker = w]]
            /\ worker' = [worker EXCEPT ![w] = [pc |-> "claimed", job |-> j,
                                                ctx |-> "live"]]
      BY <1>2 DEF Claim
    <2>2. ASSUME NEW k \in JobIds, jobs'[k].status \in {"running", "canceling"}
          PROVE  Handled(k)'
      <3>1. CASE k = j
        <4>1. worker'[w].job = j
          BY <2>1 DEF TypeOK
        <4> QED BY <3>1, <4>1 DEF Handled
      <3>2. CASE k # j
        <4>1. PICK v \in Workers : worker[v].job = k
          BY <2>1, <2>2, <3>2 DEF TypeOK, InHand, Handled
        <4>2. v # w
          BY <1>2, <4>1, HandsOnRows DEF Claim
        <4>3. worker'[v].job = k
          BY <2>1, <4>1, <4>2 DEF TypeOK
        <4> QED BY <4>3 DEF Handled
      <3> QED BY <3>1, <3>2
    <2> QED BY <2>2 DEF InHand
  <1>3. ASSUME NEW w \in Workers, HandlerStep(w), ~ Settle(w) PROVE InHand'
    <2>1. PICK j \in JobIds : j = worker[w].job
      BY <1>3, WorkerJob
         DEF HandlerStep, ClaimLost, Register, SyncSucceeds, EnqueueEnsure, EnsureDefers,
             EnsureSucceeds, HandlerFails, StoreCallLost, At
    <2>2. \A v \in Workers : worker'[v].job = worker[v].job
      BY <1>3 DEF HandlerStep, ClaimLost, Register, SyncSucceeds, EnqueueEnsure, EnsureDefers,
             EnsureSucceeds, HandlerFails, StoreCallLost, GoTo, TypeOK, Goroutines
    <2>3. ASSUME NEW k \in JobIds, jobs'[k].status \in {"running", "canceling"}
          PROVE  jobs[k].status \in {"running", "canceling"}
      <3>1. CASE EnqueueEnsure(w) \/ EnsureDefers(w)
        <4>1. \/ jobs' = jobs
              \/ \E i \in JobIds, s \in {jobs[j].source} :
                    jobs' = [jobs EXCEPT ![i] = Row("maintenance_embedding_ensure", s, "queued")]
          BY <2>1, <3>1 DEF EnqueueEnsure, EnsureDefers, Insert
        <4> QED BY <2>3, <4>1 DEF TypeOK, Row
      <3>2. CASE SyncSucceeds(w) \/ EnsureSucceeds(w) \/ HandlerFails(w)
        <4>1. \E status \in {"completed", "failed"} : jobs' = Ended(j, status)
          BY <2>1, <3>2 DEF SyncSucceeds, EnsureSucceeds, HandlerFails
        <4> QED BY <2>3, <4>1 DEF Ended, TypeOK, Rows
      <3>3. CASE ClaimLost(w) \/ Register(w) \/ StoreCallLost(w)
        BY <2>3, <3>3 DEF ClaimLost, Register, StoreCallLost
      <3> QED BY <1>3, <3>1, <3>2, <3>3 DEF HandlerStep
    <2> QED BY <2>2, <2>3, InHandKept DEF Handled
  <1>4. ASSUME NEW w \in Workers, Settle(w) PROVE InHand'
    <2>1. PICK j \in JobIds : j = worker[w].job
      BY <1>4, WorkerJob DEF Settle, At
    <2>2. Over(j)
      BY <1>4, <2>1 DEF Settle, Stopping
    <2>3. /\ jobs'[j].status \notin {"running", "canceling"}
          /\ \A k \in JobIds : k # j => jobs'[k] = jobs[k]
      <3>1. CASE jobs' = Ended(j, "canceled")
        BY <3>1, EndedRow
      <3>2. CASE jobs[j].status # "canceling" /\ jobs' = jobs
        BY <2>2, <3>2 DEF Over, Terminal
      <3> QED BY <1>4, <2>1, <3>1, <3>2 DEF Settle
    <2>5. \A v \in Workers : worker[v].job # j => worker'[v] = worker[v]
      BY <1>4, <2>1 DEF Settle, TypeOK
    <2>6. \A k \in JobIds : k # j /\ Handled(k) => Handled(k)'
      BY <2>5 DEF Handled
    <2> QED BY <2>3, <2>6, InHandKept
  <1>5. ASSUME NEW w \in Workers, Monitor(w) PROVE InHand'
    <2>1. jobs' = jobs /\ \A v \in Workers : worker'[v].job = worker[v].job
      BY <1>5 DEF Monitor, TypeOK, Goroutines
    <2> QED BY <2>1, InHandKept DEF Handled
  <1>6. CASE TimePasses
    <2>1. UNCHANGED worker /\ \A j \in JobIds : jobs'[j].status = jobs[j].status
      BY <1>6 DEF TimePasses, BecomeDue, LeaseExpires, TypeOK, Rows
    <2> QED BY <2>1, InHandKept DEF Handled
  <1>7. CASE ClientStep
    <2>1. \A v \in Workers : worker'[v].job = worker[v].job
      BY <1>7, ClientsMoveNobody
    <2>2. \A k \in JobIds : jobs'[k].status \in {"running", "canceling"} =>
                               jobs[k].status \in {"running", "canceling"}
      <3>1. ASSUME NEW c \in Clients, CancelWrite(c), NEW k \in JobIds,
                   jobs'[k].status \in {"running", "canceling"}
            PROVE  jobs[k].status \in {"running", "canceling"}
        <4>1. PICK j \in JobIds : j = client[c].job
          BY <3>1 DEF CancelWrite, TypeOK
        <4> QED BY <3>1, <4>1, CancelRow
      <3>2. ASSUME NEW j \in JobIds, DeleteJob(j), NEW k \in JobIds,
                   jobs'[k].status \in {"running", "canceling"}
            PROVE  jobs[k].status \in {"running", "canceling"}
        BY <3>2 DEF DeleteJob, Ended, TypeOK, Rows
      <3> QED BY <1>7, <3>1, <3>2 DEF ClientStep, CancelRead, CancelSignal
    <2> QED BY <2>1, <2>2, InHandKept DEF Handled
  <1>8. CASE CliStep
    BY <1>8 DEF CliStep
  <1>9. CASE Crash
    BY <1>9 DEF Crash, TypeOK
  <1>10. CASE UNCHANGED vars
    BY <1>10, InHandKept DEF vars, Handled
  <1> QED
    BY <1>1, <1>2, <1>3, <1>4, <1>5, <1>6, <1>7, <1>8, <1>9, <1>10 DEF Next, WorkerStep

LEMMA StoppingStep ==
    ASSUME LeaseOverrun = FALSE, Clis = {}, StoreFaults = FALSE, MaxCrashes = 0
    PROVE  TypeOK /\ RowsInv /\ LeasedWork /\ RetryInv /\ [Next]_vars => Stopping'
  <1> SUFFICES ASSUME TypeOK, RowsInv, LeasedWork, RetryInv, [Next]_vars,
                      NEW w \in Workers
               PROVE  /\ At(w, "settle")' => Over(worker[w].job)'
                      /\ At(w, "enqueue")' =>
                            jobs'[worker'[w].job].status \in Terminal \cup {"deleted"}
                      /\ ~ Live(w)' => ~ At(w, "idle")' /\ Over(worker[w].job)'
    BY DEF Stopping
  <1> USE DEF RetryInv
  <1>0. TableStep
    BY NextIsTableStep
  <1>1. CASE worker'[w] = worker[w]
    BY <1>0, <1>1, StoppingKept
  <1>2. CASE Claim(w)
    <2>1. worker'[w].pc = "claimed" /\ worker'[w].ctx = "live"
      BY <1>2 DEF Claim, TypeOK
    <2> QED BY <2>1 DEF At, Live
  <1>3. CASE Settle(w)
    <2>1. worker'[w].pc = "idle" /\ worker'[w].ctx = "live"
      BY <1>3 DEF Settle, Idle, TypeOK
    <2> QED BY <2>1 DEF At, Live
  <1>4. CASE (HandlerStep(w) \/ Monitor(w)) /\ ~ Settle(w)
    <2>1. PICK j \in JobIds : j = worker[w].job
      BY <1>4, WorkerJob
         DEF HandlerStep, ClaimLost, Register, SyncSucceeds, EnqueueEnsure, EnsureDefers,
             EnsureSucceeds, HandlerFails, StoreCallLost, Monitor, At
    <2>2. /\ Over(j) => Over(j)'
          /\ jobs[j].status \in Terminal \cup {"deleted"} =>
                jobs'[j].status \in Terminal \cup {"deleted"}
      BY <1>0, OverStays
    <2>3. ~ ClaimLost(w)
      BY DEF ClaimLost
    <2>4. worker'[w].job = j /\ worker'[w].pc # "idle"
      BY <1>4, <2>1, <2>3
         DEF HandlerStep, Register, SyncSucceeds, EnqueueEnsure, EnsureDefers, EnsureSucceeds,
             HandlerFails, StoreCallLost, Monitor, GoTo, TypeOK, Goroutines, At
    <2>5. Busy(w) => jobs[j].status \in {"running", "canceling"}
      BY <2>1, HandsOnRows DEF LeasedWork, Owns, Done
    <2>6. CASE Register(w) \/ EnsureDefers(w)
      <3>1. worker'[w].pc \in {"work", "deferred"} /\ worker'[w].ctx = worker[w].ctx
        BY <2>6 DEF Register, EnsureDefers, GoTo, TypeOK, Goroutines
      <3> QED BY <2>1, <2>2, <2>4, <3>1 DEF At, Live, Stopping, Over
    <2>7. CASE SyncSucceeds(w) \/ EnsureSucceeds(w) \/ HandlerFails(w)
      <3>1. PICK status \in {"completed", "failed"} : jobs' = Ended(j, status)
        BY <2>1, <2>7 DEF SyncSucceeds, EnsureSucceeds, HandlerFails
      <3>2. jobs'[j].status \in Terminal
        BY <3>1 DEF Ended, TypeOK, Rows, Terminal
      <3> QED BY <2>4, <3>2 DEF At, Live, Over
    <2>8. CASE EnqueueEnsure(w)
      <3>1. jobs[j].status \in Terminal \cup {"deleted"}
        BY <2>1, <2>8 DEF EnqueueEnsure, Stopping
      <3> QED BY <2>2, <2>4, <3>1 DEF At, Live, Over
    <2>9. CASE StoreCallLost(w)
      <3>1. Over(j)
        <4>1. CASE ~ Live(w)
          BY <2>1, <4>1 DEF Stopping
        <4>2. CASE At(w, "enqueue")
          BY <2>1, <4>2 DEF Stopping, Over
        <4>3. CASE ~ At(w, "enqueue") /\ ~ Endable(j)
          <5>1. Busy(w)
            BY <2>9, <4>3 DEF StoreCallLost, Busy, At
          <5> QED BY <2>5, <4>3, <5>1 DEF Endable, Present, Over
        <4> QED BY <2>1, <2>9, <4>1, <4>2, <4>3 DEF StoreCallLost
      <3>2. worker'[w].pc = "settle"
        BY <2>9 DEF StoreCallLost, GoTo, TypeOK
      <3> QED BY <2>2, <2>4, <3>1, <3>2 DEF At, Live, Over
    <2>10. CASE Monitor(w)
      <3>1. Over(j)
        BY <2>1, <2>10 DEF Monitor, Over, Terminal
      <3>2. worker'[w].pc = worker[w].pc
        BY <2>10 DEF Monitor, TypeOK, Goroutines
      <3> QED BY <2>1, <2>2, <2>4, <3>1, <3>2 DEF At, Live, Stopping, Over
    <2> QED BY <1>4, <2>3, <2>6, <2>7, <2>8, <2>9, <2>10 DEF HandlerStep
  <1>5. ASSUME NEW c \in Clients, CancelSignal(c), worker'[w] # worker[w]
        PROVE  /\ At(w, "settle")' => Over(worker[w].job)'
               /\ At(w, "enqueue")' =>
                     jobs'[worker'[w].job].status \in Terminal \cup {"deleted"}
               /\ ~ Live(w)' => ~ At(w, "idle")' /\ Over(worker[w].job)'
    <2>1. PICK j \in JobIds : j = client[c].job
      BY <1>5 DEF CancelSignal, TypeOK
    <2>2. running[j] = w /\ Over(j) /\ jobs' = jobs
      BY <1>5, <2>1 DEF CancelSignal, Signals
    <2>3. worker[w].job = j
      BY <2>2, NullAssumption DEF Signals
    <2>4. worker'[w].job = j /\ worker'[w].pc = worker[w].pc
      BY <1>5, <2>3 DEF CancelSignal, TypeOK, Goroutines
    <2>5. worker[w].pc # "idle"
      BY <2>3, HandsOnRows DEF At
    <2> QED BY <2>2, <2>3, <2>4, <2>5 DEF At, Live, Stopping, Over
  <1>6. CASE \E v \in Workers \ {w} : WorkerStep(v)
    <2>1. worker'[w] = worker[w]
      BY <1>6 DEF WorkerStep, Claim, HandlerStep, ClaimLost, Register, SyncSucceeds, EnqueueEnsure,
             EnsureDefers, EnsureSucceeds, HandlerFails, StoreCallLost, Settle, Monitor, GoTo,
             TypeOK
    <2> QED BY <1>1, <2>1
  <1>7. CASE Enqueue \/ TimePasses \/ CliStep \/ UNCHANGED vars
    <2>1. worker' = worker
      BY <1>7 DEF Enqueue, RequestSync, RequestEnsure, RequestMaintenance, TimePasses, BecomeDue,
                  LeaseExpires, CliStep, vars
    <2> QED BY <1>1, <2>1
  <1>8. CASE ClientStep
    BY <1>1, <1>5, <1>8 DEF ClientStep, CancelRead, CancelWrite, DeleteJob
  <1>9. CASE Crash
    BY <1>9 DEF Crash, TypeOK
  <1> QED
    BY <1>1, <1>2, <1>3, <1>4, <1>6, <1>7, <1>8, <1>9 DEF Next, WorkerStep, HandlerStep

LEMMA SignalsStep ==
    ASSUME LeaseOverrun = FALSE, Clis = {}, StoreFaults = FALSE, MaxCrashes = 0
    PROVE  TypeOK /\ RowsInv /\ RetryInv /\ [Next]_vars => Signals'
  <1> SUFFICES ASSUME TypeOK, RowsInv, RetryInv, [Next]_vars PROVE Signals'
    OBVIOUS
  <1> USE DEF RetryInv
  <1>0. TableStep
    BY NextIsTableStep
  <1>1. ASSUME NEW c \in Clients, client'[c].pc = "signal"
        PROVE  Over(client[c].job)'
    <2>1. CASE client'[c] = client[c]
      <3>1. PICK j \in JobIds : j = client[c].job
        BY <1>1, <2>1 DEF TypeOK
      <3>2. Over(j)
        BY <1>1, <2>1, <3>1 DEF Signals
      <3>3. Over(j)'
        BY <1>0, <3>2, OverStays
      <3> QED BY <2>1, <3>1, <3>3 DEF Over
    <2>2. ASSUME NEW d \in Clients, NEW j \in JobIds, CancelRead(d, j)
          PROVE  Over(client[c].job)'
      <3>1. CASE d = c
        <4>1. client'[c].job = j /\ jobs[j].status \in {"canceling", "canceled"} /\ jobs' = jobs
          BY <1>1, <2>2, <3>1 DEF CancelRead, TypeOK, Active
        <4> QED BY <4>1 DEF Over, Terminal
      <3>2. CASE d # c
        BY <2>1, <2>2, <3>2 DEF CancelRead, TypeOK
      <3> QED BY <3>1, <3>2
    <2>3. ASSUME NEW d \in Clients, CancelWrite(d) PROVE Over(client[c].job)'
      <3>1. CASE d = c
        <4>1. PICK j \in JobIds : j = client[c].job
          BY <2>3, <3>1 DEF CancelWrite, TypeOK
        <4>2. client' = [client EXCEPT ![c].pc = "signal"] /\ StillAsRead(c)
          BY <1>1, <2>3, <3>1 DEF CancelWrite, NoRequest, TypeOK
        <4>3. client'[c].job = j
          BY <4>1, <4>2 DEF TypeOK
        <4>4. jobs'[j].status \in {"canceled", "canceling"}
          <5>1. CASE client[c].seen = "queued"
            BY <2>3, <3>1, <4>1, <4>2, <5>1, EndedRow DEF CancelWrite
          <5>2. CASE client[c].seen # "queued"
            <6>1. jobs' = [jobs EXCEPT ![j].status = "canceling"] /\ jobs[j] \in Rows
              BY <2>3, <3>1, <4>1, <4>2, <5>2 DEF CancelWrite, TypeOK
            <6> QED BY <6>1 DEF TypeOK, Rows
          <5> QED BY <5>1, <5>2
        <4> QED BY <4>3, <4>4 DEF Over, Terminal
      <3>2. CASE d # c
        BY <2>1, <2>3, <3>2 DEF CancelWrite, TypeOK
      <3> QED BY <3>1, <3>2
    <2>4. ASSUME NEW d \in Clients, CancelSignal(d) PROVE Over(client[c].job)'
      <3>1. CASE d = c
        BY <1>1, <2>4, <3>1 DEF CancelSignal, NoRequest, TypeOK
      <3>2. CASE d # c
        BY <2>1, <2>4, <3>2 DEF CancelSignal, TypeOK
      <3> QED BY <3>1, <3>2
    <2>5. CASE UNCHANGED client
      BY <2>1, <2>5
    <2>6. CASE Crash
      BY <2>6 DEF Crash, TypeOK
    <2>7. CASE Enqueue \/ TimePasses \/ CliStep
      BY <2>5, <2>7 DEF Enqueue, RequestSync, RequestEnsure, RequestMaintenance, TimePasses,
            BecomeDue, LeaseExpires, CliStep, CliStart, CliEnds, CliStops
    <2>8. ASSUME NEW w \in Workers, WorkerStep(w) PROVE Over(client[c].job)'
      BY <2>5, <2>8 DEF WorkerStep, Claim, HandlerStep, ClaimLost, Register, SyncSucceeds,
            EnqueueEnsure, EnsureDefers, EnsureSucceeds, HandlerFails, StoreCallLost, Settle,
            Monitor
    <2> QED BY <2>2, <2>3, <2>4, <2>5, <2>6, <2>7, <2>8 DEF Next, ClientStep, DeleteJob, vars
  <1>2. ASSUME NEW j \in JobIds, running'[j] # NoWorker
        PROVE  worker'[running'[j]].job = j
    <2>1. CASE /\ running' = running
               /\ \A v \in Workers : worker'[v].job = worker[v].job
      BY <1>2, <2>1 DEF Signals, TypeOK
    <2>2. ASSUME NEW w \in Workers, Claim(w) PROVE worker'[running'[j]].job = j
      <3>1. running' = running /\ worker[running[j]].job = j
        BY <1>2, <2>2 DEF Claim, Signals
      <3>2. running[j] # w
        BY <2>2, <3>1, HandsOnRows DEF Claim
      <3> QED BY <2>2, <3>1, <3>2 DEF Claim, TypeOK
    <2>3. ASSUME NEW w \in Workers, Register(w) PROVE worker'[running'[j]].job = j
      <3>1. \A v \in Workers : worker'[v].job = worker[v].job
        BY <2>3 DEF Register, GoTo, TypeOK, Goroutines
      <3>2. CASE j = worker[w].job
        BY <2>3, <3>1, <3>2 DEF Register, TypeOK
      <3>3. CASE j # worker[w].job
        BY <1>2, <2>3, <3>1, <3>3 DEF Register, TypeOK, Signals
      <3> QED BY <3>2, <3>3
    <2>4. ASSUME NEW w \in Workers, Settle(w) PROVE worker'[running'[j]].job = j
      <3>1. j # worker[w].job /\ running'[j] = running[j]
        BY <1>2, <2>4 DEF Settle, TypeOK
      <3>2. running[j] # w
        BY <1>2, <3>1 DEF Signals
      <3> QED BY <1>2, <2>4, <3>1, <3>2 DEF Settle, TypeOK, Signals
    <2>5. ASSUME NEW w \in Workers, HandlerStep(w), ~ Register(w), ~ Settle(w)
          PROVE worker'[running'[j]].job = j
      BY <2>1, <2>5 DEF HandlerStep, ClaimLost, SyncSucceeds, EnqueueEnsure, EnsureDefers,
             EnsureSucceeds, HandlerFails, StoreCallLost, GoTo, TypeOK, Goroutines
    <2>6. ASSUME NEW w \in Workers, Monitor(w) PROVE worker'[running'[j]].job = j
      BY <2>1, <2>6 DEF Monitor, TypeOK, Goroutines
    <2>7. CASE Enqueue \/ TimePasses \/ CliStep \/ UNCHANGED vars
      BY <2>1, <2>7 DEF Enqueue, RequestSync, RequestEnsure, RequestMaintenance, TimePasses,
            BecomeDue, LeaseExpires, CliStep, vars
    <2>8. CASE ClientStep
      <3>1. running' = running
        BY <2>8 DEF ClientStep, CancelRead, CancelWrite, CancelSignal, DeleteJob
      <3> QED BY <2>1, <2>8, <3>1, ClientsMoveNobody
    <2>9. CASE Crash
      BY <2>9 DEF Crash, TypeOK
    <2> QED
      BY <2>2, <2>3, <2>4, <2>5, <2>6, <2>7, <2>8, <2>9 DEF Next, WorkerStep
  <1> QED BY <1>1, <1>2 DEF Signals

(* The pass that defers was alone on its scope: nothing else can wait there. *)
LEMMA DeferKeepsOneRetry ==
    ASSUME TypeOK, LeasedWork, RetryInv, NEW w \in Workers, EnsureDefers(w)
    PROVE  OneRetry'
  <1>1. PICK p \in JobIds : p = worker[w].job
    BY WorkerJob DEF EnsureDefers, At
  <1> DEFINE s == jobs[p].source
  <1>2. s \in Sources \cup {NoSource}
    BY DEF TypeOK, Rows
  <1>3. PICK j \in JobIds :
          /\ jobs[j].status = "absent"
          /\ jobs' = [jobs EXCEPT ![j] = Row("maintenance_embedding_ensure", s, "queued")]
    BY <1>1 DEF EnsureDefers, NextId
  <1>4. Owns(w) /\ ActiveEnsure(p)
    <2>1. Busy(w) /\ worker[w].job # NoJob
      BY <1>1 DEF EnsureDefers, Busy, At, JobIds, NoJob
    <2>2. Owns(w)
      BY <2>1 DEF LeasedWork, Done
    <2> QED BY <1>1, <2>2 DEF EnsureDefers, ActiveEnsure, IsActive, Owns, Active
  <1>5. ~ Leaving(p)
    <2> SUFFICES ASSUME NEW v \in Workers, worker[v].job = p,
                        worker[v].pc \in {"deferred", "settle"}
                 PROVE  FALSE
      BY DEF Leaving
    <2>1. Owns(v)
      BY <1>1, <1>4 DEF LeasedWork, Owns, Done, Terminal, JobIds, NoJob
    <2>2. v = w
      BY <1>1, <1>4, <2>1 DEF Owns
    <2> QED BY <2>2 DEF EnsureDefers, At
  <1>6. /\ worker'[w].pc = "deferred"
        /\ \A v \in Workers : worker'[v].job = worker[v].job
        /\ \A v \in Workers \ {w} : worker'[v].pc = worker[v].pc
    BY DEF EnsureDefers, GoTo, TypeOK, Goroutines
  <1>7. \A k \in JobIds : Leaving(k) => Leaving(k)'
    BY <1>6 DEF Leaving
  <1>8. Leaving(p)'
    BY <1>1, <1>6 DEF Leaving
  <1>9. ASSUME NEW k \in JobIds, ActiveEnsure(k), Overlap(s, jobs[k].source)
        PROVE  jobs[k].status # "queued" /\ Leaving(k)'
    <2>1. CASE k = p
      BY <1>1, <1>4, <1>8, <2>1 DEF Owns
    <2>2. CASE k # p
      <3>1. Conflict(p, k)
        BY <1>4, <1>9, <2>2 DEF Conflict, ActiveEnsure, Registered
      <3>2. jobs[p].status # "queued"
        BY <1>1, <1>4 DEF Owns
      <3> QED BY <1>4, <1>5, <1>9, <3>1, <3>2 DEF RetryInv, OneRetry
    <2> QED BY <2>1, <2>2
  <1> HIDE DEF s
  <1> QED BY <1>2, <1>3, <1>7, <1>9, OneRetryInsert DEF RetryInv

(* A claimed ensure job overlaps no other active one. *)
LEMMA ClaimKeepsOneRetry ==
    ASSUME TypeOK, RowsInv, LeasedWork, RetryInv, NEW w \in Workers, Claim(w)
    PROVE  OneRetry'
  <1>1. PICK j \in JobIds :
          /\ Candidate(j)
          /\ jobs' = [jobs EXCEPT ![j] = [@ EXCEPT !.status = "running",
                                                   !.lock = "held", !.worker = w]]
          /\ worker' = [worker EXCEPT ![w] = [pc |-> "claimed", job |-> j,
                                              ctx |-> "live"]]
    BY DEF Claim
  <1>2. ASSUME NEW k \in JobIds, jobs[k].status \in {"running", "canceling"}
        PROVE  InProgress(k) /\ jobs[k].lock # "expired"
    <2>1. PICK v \in Workers : worker[v].job = k
      BY <1>2 DEF RetryInv, InHand, Handled
    <2>2. Owns(v)
      BY <1>2, <2>1 DEF LeasedWork, Done, Terminal, JobIds, NoJob
    <2> QED BY <1>2, <2>1, <2>2 DEF Owns, InProgress
  <1>3. jobs[j].status = "queued"
    BY <1>1, <1>2 DEF Candidate
  <1>4. \A k \in JobIds : Leaving(k) => Leaving(k)'
    <2>1. \A v \in Workers : worker[v].pc \in {"deferred", "settle"} => worker'[v] = worker[v]
      BY <1>1 DEF Claim, At, TypeOK
    <2> QED BY <2>1 DEF Leaving
  <1>5. ASSUME NEW k \in JobIds, k # j
        PROVE  ~ (Conflict(j, k) /\ ActiveEnsure(j) /\ ActiveEnsure(k))
    <2> SUFFICES ASSUME Conflict(j, k), ActiveEnsure(j), ActiveEnsure(k) PROVE FALSE
      OBVIOUS
    <2>1. jobs[k].status # "queued"
      BY <1>3 DEF RetryInv, OneRetry
    <2>2. InProgress(k)
      BY <1>2, <2>1 DEF ActiveEnsure, IsActive, Active
    <2> QED BY <1>1, <2>2 DEF Candidate
  <1>6. /\ jobs'[j].kind = jobs[j].kind /\ jobs'[j].source = jobs[j].source
        /\ \A k \in JobIds : k # j => jobs'[k] = jobs[k]
    BY <1>1 DEF TypeOK, Rows
  <1>7. ActiveEnsure(j)' => ActiveEnsure(j)
    BY <1>3, <1>6 DEF ActiveEnsure, IsActive, Active
  <1> SUFFICES ASSUME NEW i \in JobIds, NEW k \in JobIds,
                      Conflict(i, k)', ActiveEnsure(i)', ActiveEnsure(k)'
               PROVE  \/ jobs'[i].status = "queued" /\ jobs'[k].status # "queued" /\ Leaving(k)'
                      \/ jobs'[k].status = "queued" /\ jobs'[i].status # "queued" /\ Leaving(i)'
    BY DEF OneRetry
  <1>8. Conflict(i, k) /\ Conflict(k, i)
    BY <1>6 DEF Conflict, Overlap
  <1>9. i # j /\ k # j
    <2>1. \A x \in JobIds : ActiveEnsure(x)' => ActiveEnsure(x)
      BY <1>6, <1>7 DEF ActiveEnsure, IsActive
    <2> QED BY <1>5, <1>8, <2>1 DEF Conflict
  <1>10. jobs'[i] = jobs[i] /\ jobs'[k] = jobs[k]
    BY <1>6, <1>9
  <1>11. ActiveEnsure(i) /\ ActiveEnsure(k)
    BY <1>10 DEF ActiveEnsure, IsActive
  <1> QED BY <1>4, <1>8, <1>10, <1>11 DEF RetryInv, OneRetry

LEMMA OneRetryStep ==
    ASSUME LeaseOverrun = FALSE, Clis = {}, StoreFaults = FALSE, MaxCrashes = 0
    PROVE  TypeOK /\ RowsInv /\ LeasedWork /\ RetryInv /\ [Next]_vars => OneRetry'
  <1> SUFFICES ASSUME TypeOK, RowsInv, LeasedWork, RetryInv, [Next]_vars PROVE OneRetry'
    OBVIOUS
  <1>0. OneRetry
    BY DEF RetryInv
  <1>1. ASSUME NEW s \in Sources \cup {NoSource}, RequestEnsure(s) PROVE OneRetry'
    <2>1. PICK j \in JobIds : Insert(j, "maintenance_embedding_ensure", s)
      BY <1>1 DEF RequestEnsure
    <2>2. \A k \in JobIds : Leaving(k) => Leaving(k)'
      BY <1>1 DEF RequestEnsure, Leaving
    <2>3. \A k \in JobIds : ~ (ActiveEnsure(k) /\ Overlap(s, jobs[k].source))
      BY <1>1, IdleMeansNone DEF RequestEnsure
    <2> QED BY <1>0, <2>1, <2>2, <2>3, OneRetryInsert DEF Insert, NextId
  <1>2. CASE RequestMaintenance \/ \E s \in Sources : RequestSync(s)
    <2>1. PICK j \in JobIds, kind \in {"maintenance_profile_rebuild", "sync_source"},
               s \in Sources \cup {NoSource} : Insert(j, kind, s)
      BY <1>2 DEF RequestMaintenance, RequestSync
    <2>2. /\ jobs'[j].kind # "maintenance_embedding_ensure"
          /\ \A k \in JobIds : k # j => jobs'[k] = jobs[k]
      BY <2>1 DEF Insert, Row, TypeOK
    <2>3. worker' = worker
      BY <1>2 DEF RequestMaintenance, RequestSync
    <2> QED BY <1>0, <2>2, <2>3, OneRetryKept DEF ActiveEnsure, IsActive, Leaving
  <1>3. ASSUME NEW w \in Workers, Claim(w) PROVE OneRetry'
    BY <1>3, ClaimKeepsOneRetry
  <1>4. ASSUME NEW w \in Workers, EnsureDefers(w) PROVE OneRetry'
    BY <1>4, DeferKeepsOneRetry
  <1>5. ASSUME NEW w \in Workers, EnqueueEnsure(w) PROVE OneRetry'
    <2>1. PICK p \in JobIds : p = worker[w].job
      BY <1>5, WorkerJob DEF EnqueueEnsure, At
    <2> DEFINE s == jobs[p].source
    <2>2. s \in Sources \cup {NoSource}
      BY DEF TypeOK, Rows
    <2>3. \A k \in JobIds : Leaving(k) => Leaving(k)'
      <3>1. \A v \in Workers : worker[v].pc \in {"deferred", "settle"} => worker'[v] = worker[v]
        BY <1>5 DEF EnqueueEnsure, At, GoTo, TypeOK
      <3> QED BY <3>1 DEF Leaving
    <2>4. CASE jobs' = jobs
      BY <1>0, <2>3, <2>4, OneRetryKept DEF ActiveEnsure, IsActive
    <2>5. ASSUME NEW j \in JobIds, Insert(j, "maintenance_embedding_ensure", s),
                 ~ EnsureRefused(s)
          PROVE  OneRetry'
      <3>1. \A k \in JobIds : ~ (ActiveEnsure(k) /\ Overlap(s, jobs[k].source))
        BY <2>2, <2>5, IdleMeansNone
      <3> HIDE DEF s
      <3> QED BY <1>0, <2>2, <2>3, <2>5, <3>1, OneRetryInsert DEF Insert, NextId
    <2> QED BY <1>5, <2>1, <2>4, <2>5 DEF EnqueueEnsure
  <1>6. ASSUME NEW w \in Workers, SyncSucceeds(w) \/ EnsureSucceeds(w) \/ HandlerFails(w)
        PROVE  OneRetry'
    <2>1. PICK p \in JobIds : p = worker[w].job
      BY <1>6, WorkerJob DEF SyncSucceeds, EnsureSucceeds, HandlerFails, At
    <2>2. \E status \in {"completed", "failed"} : jobs' = Ended(p, status)
      BY <1>6, <2>1 DEF SyncSucceeds, EnsureSucceeds, HandlerFails
    <2>3. /\ jobs'[p].status \in {"completed", "failed"}
          /\ \A k \in JobIds : k # p => jobs'[k] = jobs[k]
      BY <2>2 DEF Ended, TypeOK, Rows
    <2>4. \A v \in Workers \ {w} : worker'[v] = worker[v]
      BY <1>6 DEF SyncSucceeds, EnsureSucceeds, HandlerFails, GoTo, TypeOK
    <2>5. \A k \in JobIds : k # p /\ Leaving(k) => Leaving(k)'
      BY <2>1, <2>4 DEF Leaving
    <2> QED BY <1>0, <2>3, <2>5, OneRetryKept DEF ActiveEnsure, IsActive, Active
  <1>7. ASSUME NEW w \in Workers, ClaimLost(w) \/ Register(w) \/ StoreCallLost(w) PROVE OneRetry'
    <2>1. jobs' = jobs /\ ~ ClaimLost(w)
      BY <1>7 DEF ClaimLost, Register, StoreCallLost
    <2>2. \A v \in Workers : worker[v].pc \in {"deferred", "settle"} =>
             worker'[v].job = worker[v].job /\ worker'[v].pc \in {"deferred", "settle"}
      <3>1. worker \in [Workers -> Goroutines]
        BY DEF TypeOK
      <3>2. CASE Register(w)
        <4>1. worker' = [worker EXCEPT ![w].pc = "work"] /\ worker[w].pc = "claimed"
          BY <3>2 DEF Register, At, GoTo
        <4>2. \A v \in Workers \ {w} : worker'[v] = worker[v]
          BY <3>1, <4>1
        <4> QED BY <4>1, <4>2
      <3>3. CASE StoreCallLost(w)
        <4>1. worker' = [worker EXCEPT ![w].pc = "settle"]
          BY <3>3 DEF StoreCallLost, GoTo
        <4>2. /\ \A v \in Workers \ {w} : worker'[v] = worker[v]
              /\ worker'[w].job = worker[w].job /\ worker'[w].pc = "settle"
          BY <3>1, <4>1 DEF Goroutines
        <4> QED BY <4>2
      <3> QED BY <1>7, <2>1, <3>2, <3>3
    <2>3. \A k \in JobIds : Leaving(k) => Leaving(k)'
      BY <2>2 DEF Leaving
    <2> QED BY <1>0, <2>1, <2>3, OneRetryKept DEF ActiveEnsure, IsActive
  <1>8. ASSUME NEW w \in Workers, Settle(w) PROVE OneRetry'
    <2>1. PICK p \in JobIds : p = worker[w].job
      BY <1>8, WorkerJob DEF Settle, At
    <2>2. Over(p)
      BY <1>8, <2>1 DEF Settle, RetryInv, Stopping
    <2>3. /\ jobs'[p].status \notin Active
          /\ \A k \in JobIds : k # p => jobs'[k] = jobs[k]
      <3>1. CASE jobs' = Ended(p, "canceled")
        BY <3>1, EndedRow DEF Active
      <3>2. CASE jobs[p].status # "canceling" /\ jobs' = jobs
        BY <2>2, <3>2 DEF Over, Terminal, Active
      <3> QED BY <1>8, <2>1, <3>1, <3>2 DEF Settle
    <2>4. \A v \in Workers \ {w} : worker'[v] = worker[v]
      BY <1>8 DEF Settle, TypeOK
    <2>5. \A k \in JobIds : k # p /\ Leaving(k) => Leaving(k)'
      BY <2>1, <2>4 DEF Leaving
    <2> QED BY <1>0, <2>3, <2>5, OneRetryKept DEF ActiveEnsure, IsActive
  <1>9. ASSUME NEW w \in Workers, Monitor(w) PROVE OneRetry'
    <2>1. jobs' = jobs
      BY <1>9 DEF Monitor
    <2>2. \A v \in Workers : worker'[v].job = worker[v].job /\ worker'[v].pc = worker[v].pc
      BY <1>9 DEF Monitor, TypeOK, Goroutines
    <2>3. \A k \in JobIds : Leaving(k) => Leaving(k)'
      BY <2>2 DEF Leaving
    <2> QED BY <1>0, <2>1, <2>3, OneRetryKept DEF ActiveEnsure, IsActive
  <1>10. CASE TimePasses
    <2>1. worker' = worker /\ \A j \in JobIds : /\ jobs'[j].status = jobs[j].status
                                               /\ jobs'[j].kind = jobs[j].kind
                                               /\ jobs'[j].source = jobs[j].source
      BY <1>10 DEF TimePasses, BecomeDue, LeaseExpires, TypeOK, Rows
    <2> QED BY <1>0, <2>1, OneRetryKept DEF ActiveEnsure, IsActive, Leaving
  <1>11. CASE ClientStep
    <2>1. \A k \in JobIds : Leaving(k) => Leaving(k)'
      BY <1>11, ClientsMoveNobody DEF Leaving
    <2>2. ASSUME NEW c \in Clients, CancelWrite(c) PROVE OneRetry'
      <3>1. PICK j \in JobIds : j = client[c].job
        BY <2>2 DEF CancelWrite, TypeOK
      <3>2. CASE jobs' = jobs
        BY <1>0, <2>1, <3>2, OneRetryKept DEF ActiveEnsure, IsActive
      <3>3. CASE jobs' # jobs
        <4>1. /\ \A k \in JobIds : k # j => jobs'[k] = jobs[k]
              /\ jobs'[j].kind = jobs[j].kind /\ jobs'[j].source = jobs[j].source
              /\ \/ jobs'[j].status = "canceled"
                 \/ jobs'[j].status = "canceling" /\ jobs[j].status = "running"
          BY <2>2, <3>1, <3>3, CancelRow
        <4> QED BY <1>0, <2>1, <4>1, OneRetryKept DEF ActiveEnsure, IsActive, Active
      <3> QED BY <3>2, <3>3
    <2>3. ASSUME NEW j \in JobIds, DeleteJob(j) PROVE OneRetry'
      <3>1. jobs'[j].status = "deleted" /\ \A k \in JobIds : k # j => jobs'[k] = jobs[k]
        BY <2>3 DEF DeleteJob, Ended, TypeOK, Rows
      <3> QED BY <1>0, <2>1, <3>1, OneRetryKept DEF ActiveEnsure, IsActive, Active
    <2>4. CASE jobs' = jobs
      BY <1>0, <2>1, <2>4, OneRetryKept DEF ActiveEnsure, IsActive
    <2> QED BY <1>11, <2>2, <2>3, <2>4 DEF ClientStep, CancelRead, CancelSignal
  <1>12. CASE CliStep
    BY <1>12 DEF CliStep
  <1>13. CASE Crash
    BY <1>13 DEF Crash, TypeOK
  <1>14. CASE UNCHANGED vars
    BY <1>0, <1>14, OneRetryKept DEF vars, ActiveEnsure, IsActive, Leaving
  <1> QED
    BY <1>1, <1>2, <1>3, <1>4, <1>5, <1>6, <1>7, <1>8, <1>9, <1>10, <1>11, <1>12, <1>13, <1>14
       DEF Next, WorkerStep, HandlerStep, Enqueue

(* Of two overlapping ensure jobs at most one waits, although a pass queues its
   retry without looking: the pass holds the lease of its scope, nothing else
   could be queued there while it ran, and it defers once.  It holds where every
   store call succeeds and the process is not killed; a pass that is run again
   after a crash defers a second time. *)
THEOREM EnsureWaitsOnce ==
    ASSUME LeaseOverrun = FALSE, Clis = {}, StoreFaults = FALSE, MaxCrashes = 0
    PROVE  Spec => []EnsureQueuedOnce
  <1>1. Init => RetryInv
    BY DEF Init, RetryInv, InHand, Stopping, Signals, OneRetry, NoRow, Row, Idle, NoRequest,
           ActiveEnsure, IsActive, Active, At, Live
  <1>2. TypeOK /\ RowsInv /\ LeasedWork /\ RetryInv /\ [Next]_vars => RetryInv'
    BY InHandStep, StoppingStep, SignalsStep, OneRetryStep DEF RetryInv
  <1>3. RetryInv => EnsureQueuedOnce
    BY DEF RetryInv, OneRetry, EnsureQueuedOnce, ActiveEnsure, IsActive, Active
  <1> QED
    BY <1>1, <1>2, <1>3, TypeCorrect, RowsInvariant, LeasedWorkInvariant, PTL DEF Spec

-----------------------------------------------------------------------------
(* The queue implements JobLifecycle where handlers return within their lease and no *)
(* command line runs a job.                                                          *)

(* The life cycle's variables, as functions of the queue's. *)
StatusBar == [j \in JobIds |-> jobs[j].status]

ScopeBar == [j \in JobIds |-> Scope(j)]

DoingBar == [w \in Workers |-> IF Busy(w) THEN worker[w].job ELSE NoJob]

barVars == <<StatusBar, ScopeBar, DoingBar>>

-----------------------------------------------------------------------------
(* What a change of the table or of the goroutines does to those variables *)

(* The scope of a row depends on the row alone. *)
RowScope(row) ==
    IF row.status \in {"absent", "deleted"} \/ row.kind \notin Registered THEN {}
    ELSE IF row.source = NoSource THEN Sources ELSE {row.source}

LEMMA ScopeIsOfRow ==
    ASSUME NEW j \in JobIds
    PROVE  Scope(j) = RowScope(jobs[j])
  BY DEF Scope, RowScope, Present

(* Changing one row changes the status and the scope of that job only. *)
LEMMA RowBar ==
    ASSUME TypeOK, NEW j \in JobIds, NEW row, jobs' = [jobs EXCEPT ![j] = row]
    PROVE  /\ StatusBar' = [StatusBar EXCEPT ![j] = row.status]
           /\ ScopeBar' = [ScopeBar EXCEPT ![j] = RowScope(row)]
  <1>1. \A k \in JobIds : jobs'[k] = IF k = j THEN row ELSE jobs[k]
    BY DEF TypeOK
  <1>2. \A k \in JobIds : Scope(k)' = IF k = j THEN RowScope(row) ELSE Scope(k)
    BY <1>1 DEF Scope, RowScope, Present
  <1>3. StatusBar' = [StatusBar EXCEPT ![j] = row.status]
    <2>1. \A k \in JobIds : jobs'[k].status = IF k = j THEN row.status ELSE jobs[k].status
      BY <1>1
    <2> QED BY <2>1 DEF StatusBar
  <1>4. ScopeBar' = [ScopeBar EXCEPT ![j] = RowScope(row)]
    BY <1>2 DEF ScopeBar
  <1> QED BY <1>3, <1>4

(* A row that keeps kind and source and is neither inserted nor deleted keeps
   its scope. *)
LEMMA RowKeepsScope ==
    ASSUME TypeOK, NEW j \in JobIds, NEW row, jobs' = [jobs EXCEPT ![j] = row],
           row.kind = jobs[j].kind, row.source = jobs[j].source,
           jobs[j].status \notin {"absent", "deleted"},
           row.status \notin {"absent", "deleted"}
    PROVE  /\ StatusBar' = [StatusBar EXCEPT ![j] = row.status]
           /\ ScopeBar' = ScopeBar
  <1>1. RowScope(row) = Scope(j)
    BY DEF Scope, RowScope, Present
  <1>2. [ScopeBar EXCEPT ![j] = Scope(j)] = ScopeBar
    BY DEF ScopeBar
  <1>3. /\ StatusBar' = [StatusBar EXCEPT ![j] = row.status]
        /\ ScopeBar' = [ScopeBar EXCEPT ![j] = RowScope(row)]
    BY RowBar
  <1> QED BY <1>1, <1>2, <1>3

(* A step that leaves what every goroutine works on leaves DoingBar. *)
LEMMA DoingKept ==
    ASSUME \A w \in Workers : /\ worker'[w].job = worker[w].job
                              /\ Busy(w)' <=> Busy(w)
    PROVE  DoingBar' = DoingBar
  BY DEF DoingBar

(* A step of one goroutine changes what that one works on only. *)
LEMMA DoingOfOne ==
    ASSUME NEW w \in Workers, \A v \in Workers \ {w} : worker'[v] = worker[v]
    PROVE  DoingBar' = [DoingBar EXCEPT ![w] = IF Busy(w)' THEN worker'[w].job ELSE NoJob]
  <1>1. \A v \in Workers \ {w} : Busy(v)' <=> Busy(v)
    BY DEF Busy
  <1> QED BY <1>1 DEF DoingBar

(* A goroutine that stops working on its job has given it up. *)
LEMMA GivenUp ==
    ASSUME NEW w \in Workers, \A v \in Workers \ {w} : worker'[v] = worker[v],
           ~ Busy(w)', jobs' = jobs
    PROVE  Lifecycle!Next
  <1>1. StatusBar' = StatusBar /\ ScopeBar' = ScopeBar
    BY DEF StatusBar, ScopeBar, Scope, Present
  <1>2. DoingBar' = [v \in Workers |-> IF v \in {w} THEN NoJob ELSE DoingBar[v]]
    BY DoingOfOne DEF DoingBar
  <1>3. Lifecycle!GiveUp({w})
    BY <1>1, <1>2 DEF Lifecycle!GiveUp, StatusBar, ScopeBar, DoingBar
  <1> QED BY <1>3 DEF Lifecycle!Next

(* An insert that leaves the work of the goroutines submits a job. *)
LEMMA Submitted ==
    ASSUME TypeOK, NEW j \in JobIds, NEW kind \in Kinds,
           NEW source \in Sources \cup {NoSource},
           jobs[j].status = "absent",
           jobs' = [jobs EXCEPT ![j] = Row(kind, source, "queued")],
           DoingBar' = DoingBar
    PROVE  Lifecycle!Next
  <1> DEFINE row == Row(kind, source, "queued")
  <1>1. row.status = "queued" /\ RowScope(row) \in SUBSET Sources
    BY DEF Row, RowScope
  <1>2. /\ StatusBar' = [StatusBar EXCEPT ![j] = "queued"]
        /\ ScopeBar' = [ScopeBar EXCEPT ![j] = RowScope(row)]
    BY <1>1, RowBar
  <1>3. StatusBar[j] = "absent"
    BY DEF StatusBar
  <1> HIDE DEF row
  <1>4. Lifecycle!Submit(j)
    BY <1>1, <1>2, <1>3 DEF Lifecycle!Submit, StatusBar, ScopeBar, DoingBar
  <1> QED BY <1>4 DEF Lifecycle!Next

-----------------------------------------------------------------------------
(* The steps *)

(* Only a goroutine that owns its job is busy with it. *)
LEMMA BusyOwns ==
    ASSUME TypeOK, LeasedWork, NEW w \in Workers, Busy(w)
    PROVE  worker[w].job \in JobIds /\ Owns(w)
  BY DEF TypeOK, Goroutines, Busy, At, LeasedWork, Done

(* A claim begins a job: the lease query refuses a job that overlaps one a
   goroutine is busy with, because that goroutine owns its lease. *)
LEMMA ClaimBegins ==
    ASSUME TypeOK, LeasedWork, NEW w \in Workers, Claim(w)
    PROVE  Lifecycle!Next
  <1>1. PICK j \in JobIds :
          /\ Candidate(j)
          /\ jobs' = [jobs EXCEPT ![j] = [@ EXCEPT !.status = "running",
                                                   !.lock = "held", !.worker = w]]
          /\ worker' = [worker EXCEPT ![w] = [pc |-> "claimed", job |-> j,
                                              ctx |-> "live"]]
    BY DEF Claim
  <1> DEFINE row == [jobs[j] EXCEPT !.status = "running", !.lock = "held", !.worker = w]
  <1>2. jobs[j] \in Rows /\ jobs[j].status \in {"queued", "running"}
    BY <1>1 DEF TypeOK, Candidate
  <1>3. row.kind = jobs[j].kind /\ row.source = jobs[j].source /\ row.status = "running"
    BY <1>2 DEF Rows
  <1>4. jobs' = [jobs EXCEPT ![j] = row]
    BY <1>1
  <1> HIDE DEF row
  <1>5. StatusBar' = [StatusBar EXCEPT ![j] = "running"] /\ ScopeBar' = ScopeBar
    <2>1. /\ jobs[j].status \notin {"absent", "deleted"}
          /\ row.status \notin {"absent", "deleted"}
      BY <1>2, <1>3
    <2>2. StatusBar' = [StatusBar EXCEPT ![j] = row.status] /\ ScopeBar' = ScopeBar
      BY <1>3, <1>4, <2>1, RowKeepsScope
    <2> QED BY <1>3, <2>2
  <1>6. DoingBar' = [DoingBar EXCEPT ![w] = j]
    <2>1. worker'[w].job = j /\ Busy(w)' /\ \A v \in Workers \ {w} : worker'[v] = worker[v]
      BY <1>1 DEF TypeOK, Busy
    <2> QED BY <2>1, DoingOfOne
  <1>7. DoingBar[w] = NoJob
    BY DEF DoingBar, Claim, Busy, At
  <1>8. ASSUME NEW g \in Workers, DoingBar[g] # NoJob
        PROVE  /\ DoingBar[g] # j
               /\ ScopeBar[DoingBar[g]] \cap ScopeBar[j] = {}
    <2> DEFINE k == worker[g].job
    <2>1. DoingBar[g] = k /\ k \in JobIds /\ Owns(g)
      BY <1>8, BusyOwns DEF DoingBar
    <2>2. InProgress(k)
      BY <2>1 DEF Owns, InProgress
    <2>3. k # j
      BY <1>1, <2>1 DEF Owns, Candidate
    <2>4. ~ Conflict(j, k)
      BY <1>1, <2>1, <2>2 DEF Candidate
    <2>5. Scope(k) \cap Scope(j) = {}
      BY <2>3, <2>4 DEF Conflict, Overlap, Scope
    <2> QED BY <2>1, <2>3, <2>5 DEF ScopeBar
  <1>9. StatusBar[j] \in {"queued", "running"}
    BY <1>2 DEF StatusBar
  <1>10. Lifecycle!Begin(w, j)
    BY <1>5, <1>6, <1>7, <1>8, <1>9
       DEF Lifecycle!Begin, Lifecycle!Disjoint, StatusBar, ScopeBar, DoingBar
  <1> QED BY <1>10 DEF Lifecycle!Next

(* A handler that ends its job while it works on it ends it in the life cycle. *)
LEMMA HandlerEnds ==
    ASSUME TypeOK, LeasedWork, NEW w \in Workers,
           SyncSucceeds(w) \/ EnsureSucceeds(w) \/ HandlerFails(w)
    PROVE  Lifecycle!Next
  <1> DEFINE j == worker[w].job
  <1>1. Busy(w)
    BY DEF SyncSucceeds, EnsureSucceeds, HandlerFails, Busy, At
  <1>2. j \in JobIds /\ Owns(w)
    BY <1>1, BusyOwns
  <1>3. jobs[j] \in Rows /\ jobs[j].status = "running"
    BY <1>2 DEF TypeOK, Owns, SyncSucceeds, EnsureSucceeds, HandlerFails, Endable
  <1>4. PICK status \in {"completed", "failed"} : jobs' = Ended(j, status)
    BY DEF SyncSucceeds, EnsureSucceeds, HandlerFails
  <1> DEFINE row == [jobs[j] EXCEPT !.status = status, !.lock = "none", !.worker = NoWorker]
  <1>5. row.kind = jobs[j].kind /\ row.source = jobs[j].source /\ row.status = status
    BY <1>3 DEF Rows
  <1>6. jobs' = [jobs EXCEPT ![j] = row]
    BY <1>4 DEF Ended
  <1> HIDE DEF row
  <1>7. StatusBar' = [StatusBar EXCEPT ![j] = status] /\ ScopeBar' = ScopeBar
    BY <1>2, <1>3, <1>5, <1>6, RowKeepsScope
  <1>8. DoingBar' = [DoingBar EXCEPT ![w] = NoJob]
    <2>1. ~ Busy(w)' /\ \A v \in Workers \ {w} : worker'[v] = worker[v]
      BY DEF SyncSucceeds, EnsureSucceeds, HandlerFails, GoTo, TypeOK, Goroutines, Busy
    <2> QED BY <2>1, DoingOfOne
  <1>9. DoingBar[w] = j /\ j # NoJob /\ StatusBar[j] = "running"
    BY <1>1, <1>2, <1>3 DEF DoingBar, StatusBar, JobIds, NoJob
  <1> HIDE DEF j
  <1>10. Lifecycle!End(w)
    BY <1>7, <1>8, <1>9 DEF Lifecycle!End, StatusBar, ScopeBar, DoingBar
  <1> QED BY <1>10 DEF Lifecycle!Next

(* A goroutine marks a job canceled only when nobody works on the job: it owned
   the job, and has left it. *)
LEMMA SettleCancels ==
    ASSUME TypeOK, LeasedWork, NEW w \in Workers, Settle(w)
    PROVE  Lifecycle!Next
  <1>0. PICK j \in JobIds : j = worker[w].job
    BY WorkerJob DEF Settle, At
  <1>1. At(w, "settle") /\ j # NoJob
    BY DEF Settle, JobIds, NoJob
  <1>2. ~ Busy(w)' /\ \A v \in Workers \ {w} : worker'[v] = worker[v]
    BY DEF Settle, Idle, TypeOK, Busy
  <1>3. CASE jobs' = jobs
    BY <1>2, <1>3, GivenUp
  <1>4. CASE jobs[j].status = "canceling" /\ jobs' = Ended(j, "canceled")
    <2> DEFINE row == [jobs[j] EXCEPT !.status = "canceled", !.lock = "none",
                                      !.worker = NoWorker]
    <2>1. jobs[j] \in Rows
      BY <1>1 DEF TypeOK
    <2>2. row.kind = jobs[j].kind /\ row.source = jobs[j].source /\ row.status = "canceled"
      BY <2>1 DEF Rows
    <2>3. jobs' = [jobs EXCEPT ![j] = row]
      BY <1>4 DEF Ended
    <2> HIDE DEF row
    <2>4. StatusBar' = [StatusBar EXCEPT ![j] = "canceled"] /\ ScopeBar' = ScopeBar
      BY <1>1, <1>4, <2>2, <2>3, RowKeepsScope
    <2>5. ~ Busy(w)
      BY <1>1 DEF Busy, At
    <2>6. DoingBar' = DoingBar
      BY <1>2, <2>5, DoingOfOne DEF DoingBar
    <2>7. Owns(w)
      BY <1>0, <1>1, <1>4 DEF LeasedWork, Done, Terminal
    <2>8. ASSUME NEW h \in Workers PROVE DoingBar[h] # j
      <3>1. CASE Busy(h)
        <4>1. h # w /\ Owns(h)
          BY <2>5, <3>1, BusyOwns
        <4>2. worker[h].job # j
          BY <1>0, <2>7, <4>1 DEF Owns
        <4> QED BY <3>1, <4>2 DEF DoingBar
      <3>2. CASE ~ Busy(h)
        BY <1>1, <3>2 DEF DoingBar
      <3> QED BY <3>1, <3>2
    <2>9. StatusBar[j] = "canceling"
      BY <1>1, <1>4 DEF StatusBar
    <2>10. Lifecycle!Canceled(j)
      BY <2>4, <2>6, <2>8, <2>9 DEF Lifecycle!Canceled, StatusBar, ScopeBar, DoingBar
    <2> QED BY <2>10 DEF Lifecycle!Next
  <1> QED BY <1>0, <1>3, <1>4 DEF Settle

(* Updating the status the request read cancels the job, or asks its handler to
   stop. *)
LEMMA CancelWriteCancels ==
    ASSUME TypeOK, NEW c \in Clients, CancelWrite(c)
    PROVE  Lifecycle!Next \/ UNCHANGED barVars
  <1>0. PICK j \in JobIds : j = client[c].job
    BY DEF CancelWrite, TypeOK
  <1>1. client[c].seen \in {"queued", "running"}
    BY DEF CancelWrite, TypeOK
  <1>2. DoingBar' = DoingBar
    BY DoingKept DEF CancelWrite, Busy
  <1>3. CASE jobs' = jobs
    BY <1>2, <1>3 DEF barVars, StatusBar, ScopeBar, Scope, Present
  <1>4. CASE StillAsRead(c) /\ jobs' # jobs
    <2>1. PICK row :
            /\ row.kind = jobs[j].kind /\ row.source = jobs[j].source
            /\ jobs' = [jobs EXCEPT ![j] = row]
            /\ \/ jobs[j].status = "queued" /\ row.status = "canceled"
               \/ jobs[j].status = "running" /\ row.status = "canceling"
      <3>1. jobs[j] \in Rows /\ jobs[j].status = client[c].seen
        BY <1>0, <1>4 DEF TypeOK, StillAsRead
      <3>2. CASE client[c].seen = "queued"
        <4> DEFINE row == [jobs[j] EXCEPT !.status = "canceled", !.lock = "none",
                                          !.worker = NoWorker]
        <4>1. jobs' = [jobs EXCEPT ![j] = row]
          BY <1>0, <1>4, <3>2 DEF CancelWrite, Ended
        <4>2. row.kind = jobs[j].kind /\ row.source = jobs[j].source /\ row.status = "canceled"
          BY <3>1 DEF Rows
        <4> QED BY <3>1, <3>2, <4>1, <4>2
      <3>3. CASE client[c].seen = "running"
        <4> DEFINE row == [jobs[j] EXCEPT !.status = "canceling"]
        <4>1. jobs' = [jobs EXCEPT ![j] = row]
          BY <1>0, <1>4, <3>3 DEF CancelWrite
        <4>2. row.kind = jobs[j].kind /\ row.source = jobs[j].source /\ row.status = "canceling"
          BY <3>1 DEF Rows
        <4> QED BY <3>1, <3>3, <4>1, <4>2
      <3> QED BY <1>1, <3>2, <3>3
    <2>2. StatusBar' = [StatusBar EXCEPT ![j] = row.status] /\ ScopeBar' = ScopeBar
      BY <1>1, <2>1, RowKeepsScope
    <2>3. StatusBar[j] = jobs[j].status
      BY <1>1 DEF StatusBar
    <2>4. Lifecycle!Cancel(j)
      BY <1>2, <2>1, <2>2, <2>3 DEF Lifecycle!Cancel, StatusBar, ScopeBar, DoingBar
    <2> QED BY <2>4 DEF Lifecycle!Next
  <1> QED BY <1>3, <1>4 DEF CancelWrite

(* Deleting an ended job. *)
LEMMA DeleteDeletes ==
    ASSUME TypeOK, NEW j \in JobIds, DeleteJob(j)
    PROVE  Lifecycle!Next
  <1> DEFINE row == [jobs[j] EXCEPT !.status = "deleted", !.lock = "none", !.worker = NoWorker]
  <1>1. row.status = "deleted"
    BY DEF TypeOK, Rows
  <1>2. jobs' = [jobs EXCEPT ![j] = row]
    BY DEF DeleteJob, Ended
  <1>3. RowScope(row) = {}
    BY <1>1 DEF RowScope
  <1> HIDE DEF row
  <1>4. /\ StatusBar' = [StatusBar EXCEPT ![j] = "deleted"]
        /\ ScopeBar' = [ScopeBar EXCEPT ![j] = {}]
    BY <1>1, <1>2, <1>3, RowBar
  <1>5. DoingBar' = DoingBar
    BY DoingKept DEF DeleteJob, Busy
  <1>6. StatusBar[j] \in {"completed", "failed", "canceled"}
    BY DEF DeleteJob, Terminal, StatusBar
  <1>7. Lifecycle!Delete(j)
    BY <1>4, <1>5, <1>6 DEF Lifecycle!Delete, Lifecycle!Ended, StatusBar, ScopeBar, DoingBar
  <1> QED BY <1>7 DEF Lifecycle!Next

(* A lease that expires changes nothing the life cycle knows of. *)
LEMMA LeaseExpiresStutters ==
    ASSUME TypeOK, NEW j \in JobIds, LeaseExpires(j)
    PROVE  UNCHANGED barVars
  <1>1. \A k \in JobIds : /\ jobs'[k].status = jobs[k].status
                          /\ jobs'[k].kind = jobs[k].kind
                          /\ jobs'[k].source = jobs[k].source
    BY DEF LeaseExpires, TypeOK, Rows
  <1>2. StatusBar' = StatusBar /\ ScopeBar' = ScopeBar
    BY <1>1 DEF StatusBar, ScopeBar, Scope, Present
  <1>3. DoingBar' = DoingBar
    BY DoingKept DEF LeaseExpires, Busy
  <1> QED BY <1>2, <1>3 DEF barVars

(* The steps of a goroutine. *)
LEMMA HandlerStepMaps ==
    ASSUME TypeOK, LeasedWork, NEW w \in Workers, HandlerStep(w)
    PROVE  Lifecycle!Next \/ UNCHANGED barVars
  <1>1. CASE ClaimLost(w) \/ StoreCallLost(w)
    <2>1. ~ Busy(w)' /\ jobs' = jobs /\ \A v \in Workers \ {w} : worker'[v] = worker[v]
      BY <1>1 DEF ClaimLost, StoreCallLost, Idle, GoTo, TypeOK, Goroutines, Busy
    <2> QED BY <2>1, GivenUp
  <1>2. CASE Register(w)
    <2>1. jobs' = jobs
      BY <1>2 DEF Register
    <2>2. \A v \in Workers : worker'[v].job = worker[v].job /\ (Busy(v)' <=> Busy(v))
      BY <1>2 DEF Register, GoTo, TypeOK, Goroutines, Busy, At
    <2> QED BY <2>1, <2>2, DoingKept DEF barVars, StatusBar, ScopeBar, Scope, Present
  <1>3. CASE EnqueueEnsure(w) \/ EnsureDefers(w)
    <2>1. worker[w].job \in JobIds
      BY <1>3, WorkerJob DEF EnqueueEnsure, EnsureDefers, At
    <2> DEFINE s == jobs[worker[w].job].source
    <2>2. s \in Sources \cup {NoSource}
      BY <2>1 DEF TypeOK, Rows
    <2>3. \/ jobs' = jobs
          \/ \E j \in JobIds :
                /\ jobs[j].status = "absent"
                /\ jobs' = [jobs EXCEPT ![j] = Row("maintenance_embedding_ensure", s, "queued")]
      BY <1>3 DEF EnqueueEnsure, EnsureDefers, Insert, NextId
    <2>4. \A v \in Workers : worker'[v].job = worker[v].job /\ (Busy(v)' <=> Busy(v))
      <3>1. CASE EnqueueEnsure(w)
        BY <3>1 DEF EnqueueEnsure, GoTo, TypeOK, Goroutines, Busy, At
      <3>2. CASE EnsureDefers(w)
        BY <3>2 DEF EnsureDefers, GoTo, TypeOK, Goroutines, Busy, At
      <3> QED BY <1>3, <3>1, <3>2
    <2>5. DoingBar' = DoingBar
      BY <2>4, DoingKept
    <2>6. CASE jobs' = jobs
      BY <2>5, <2>6 DEF barVars, StatusBar, ScopeBar, Scope, Present
    <2> QED BY <2>2, <2>3, <2>5, <2>6, Submitted DEF Kinds, Registered
  <1>4. CASE SyncSucceeds(w) \/ EnsureSucceeds(w) \/ HandlerFails(w)
    BY <1>4, HandlerEnds
  <1>5. CASE Settle(w)
    BY <1>5, SettleCancels
  <1> QED BY <1>1, <1>2, <1>3, <1>4, <1>5 DEF HandlerStep

(* Every step of the queue is a step of the life cycle, or changes nothing of
   it. *)
LEMMA StepMaps ==
    ASSUME Clis = {}
    PROVE  TypeOK /\ LeasedWork /\ [Next]_vars => [Lifecycle!Next]_barVars
  <1> SUFFICES ASSUME TypeOK, LeasedWork, [Next]_vars
               PROVE  Lifecycle!Next \/ UNCHANGED barVars
    OBVIOUS
  <1>1. CASE Enqueue
    <2>1. PICK j \in JobIds, kind \in Kinds, source \in Sources \cup {NoSource} :
            Insert(j, kind, source)
      BY <1>1 DEF Enqueue, RequestSync, RequestEnsure, RequestMaintenance, Kinds, Registered
    <2>2. DoingBar' = DoingBar
      BY <1>1, DoingKept DEF Enqueue, RequestSync, RequestEnsure, RequestMaintenance, Busy
    <2> QED BY <2>1, <2>2, Submitted DEF Insert, NextId
  <1>2. ASSUME NEW w \in Workers, Claim(w) PROVE Lifecycle!Next
    BY <1>2, ClaimBegins
  <1>3. ASSUME NEW w \in Workers, HandlerStep(w) PROVE Lifecycle!Next \/ UNCHANGED barVars
    BY <1>3, HandlerStepMaps
  <1>4. ASSUME NEW w \in Workers, Monitor(w) PROVE UNCHANGED barVars
    <2>1. jobs' = jobs
      BY <1>4 DEF Monitor
    <2>2. \A v \in Workers : worker'[v].job = worker[v].job /\ (Busy(v)' <=> Busy(v))
      BY <1>4 DEF Monitor, TypeOK, Goroutines, Busy
    <2> QED BY <2>1, <2>2, DoingKept DEF barVars, StatusBar, ScopeBar, Scope, Present
  <1>5. CASE TimePasses
    <2>1. ASSUME NEW j \in JobIds, BecomeDue(j) PROVE UNCHANGED barVars
      BY <2>1, DoingKept DEF BecomeDue, barVars, StatusBar, ScopeBar, Scope, Present, Busy
    <2> QED BY <1>5, <2>1, LeaseExpiresStutters DEF TimePasses
  <1>6. CASE ClientStep
    <2>1. ASSUME NEW c \in Clients, NEW j \in JobIds, CancelRead(c, j)
          PROVE  UNCHANGED barVars
      BY <2>1, DoingKept DEF CancelRead, barVars, StatusBar, ScopeBar, Scope, Present, Busy
    <2>2. ASSUME NEW c \in Clients, CancelSignal(c) PROVE UNCHANGED barVars
      <3>1. jobs' = jobs
        BY <2>2 DEF CancelSignal
      <3>2. \A v \in Workers : worker'[v].job = worker[v].job /\ (Busy(v)' <=> Busy(v))
        BY <2>2 DEF CancelSignal, TypeOK, Goroutines, Busy
      <3> QED BY <3>1, <3>2, DoingKept DEF barVars, StatusBar, ScopeBar, Scope, Present
    <2> QED BY <1>6, <2>1, <2>2, CancelWriteCancels, DeleteDeletes DEF ClientStep
  <1>7. CASE CliStep
    BY <1>7 DEF CliStep
  <1>8. CASE Crash
    <2>1. StatusBar' = StatusBar /\ ScopeBar' = ScopeBar
      BY <1>8 DEF Crash, StatusBar, ScopeBar, Scope, Present
    <2>2. DoingBar' = [w \in Workers |-> IF w \in Workers THEN NoJob ELSE DoingBar[w]]
      BY <1>8 DEF Crash, DoingBar, Busy, Idle
    <2>3. Lifecycle!GiveUp(Workers)
      BY <2>1, <2>2 DEF Lifecycle!GiveUp, StatusBar, ScopeBar, DoingBar
    <2> QED BY <2>3 DEF Lifecycle!Next
  <1>9. CASE UNCHANGED vars
    BY <1>9, DoingKept DEF vars, barVars, StatusBar, ScopeBar, Scope, Present, Busy
  <1> QED
    BY <1>1, <1>2, <1>3, <1>4, <1>5, <1>6, <1>7, <1>8, <1>9 DEF Next, WorkerStep

(* The empty queue is the empty life cycle. *)
LEMMA InitMaps == Init => Lifecycle!Init
  <1> SUFFICES ASSUME Init PROVE Lifecycle!Init
    OBVIOUS
  <1>1. \A j \in JobIds : jobs[j].status = "absent" /\ Scope(j) = {}
    BY DEF Init, NoRow, Row, Scope, Present
  <1>2. \A w \in Workers : ~ Busy(w)
    BY DEF Init, Idle, Busy
  <1> QED BY <1>1, <1>2 DEF Lifecycle!Init

(* The queue, with its leases, claims, polls, calls and crashes, implements the
   life cycle of jobs, where handlers return within their lease and no command
   line runs a job: jobs end once, at the hand of the goroutine that works on
   them, and no two goroutines work on one source. *)
THEOREM QueueImplementsLifecycle ==
    ASSUME LeaseOverrun = FALSE, Clis = {}
    PROVE  Spec => ImplementsLifecycle
  <1>1. Init => Lifecycle!Init
    BY InitMaps
  <1>2. TypeOK /\ LeasedWork /\ [Next]_vars => [Lifecycle!Next]_barVars
    BY StepMaps
  <1> QED
    BY <1>1, <1>2, TypeCorrect, LeasedWorkInvariant, PTL
       DEF Spec, ImplementsLifecycle, Lifecycle!Spec, barVars, StatusBar, ScopeBar, DoingBar
=============================================================================
