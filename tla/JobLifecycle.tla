---------------------------- MODULE JobLifecycle ----------------------------
(***************************************************************************)
(* What the job queue promises, without leases, polling, claims or calls:  *)
(* a job goes through the statuses the API reports, once it has ended it   *)
(* never changes again, and two handlers never work on the same source at  *)
(* the same time.  JobQueue implements this specification as long as every *)
(* handler returns within its lease and no command line runs a job.        *)
(***************************************************************************)
CONSTANTS
    JobIds,     \* names of the jobs
    Sources,
    Hands,      \* those who can work on a job
    None        \* works on nothing

VARIABLES
    status,     \* of every job
    scope,      \* the sources a job reads and writes while it is worked on
    doing       \* the job every hand works on

Ended == {"completed", "failed", "canceled"}

Disjoint(j, k) == scope[j] \cap scope[k] = {}

Init ==
    /\ status = [j \in JobIds |-> "absent"]
    /\ scope = [j \in JobIds |-> {}]
    /\ doing = [h \in Hands |-> None]

Submit(j) ==
    /\ status[j] = "absent"
    /\ status' = [status EXCEPT ![j] = "queued"]
    /\ \E s \in SUBSET Sources : scope' = [scope EXCEPT ![j] = s]
    /\ UNCHANGED doing

(* A job left "running" by a hand that gave up may be begun again. *)
Begin(h, j) ==
    /\ doing[h] = None
    /\ status[j] \in {"queued", "running"}
    /\ \A g \in Hands : doing[g] # None => doing[g] # j /\ Disjoint(doing[g], j)
    /\ status' = [status EXCEPT ![j] = "running"]
    /\ doing' = [doing EXCEPT ![h] = j]
    /\ UNCHANGED scope

(* Only the hand that works on a job ends it. *)
End(h) ==
    /\ doing[h] # None
    /\ status[doing[h]] = "running"
    /\ \E s \in {"completed", "failed"} : status' = [status EXCEPT ![doing[h]] = s]
    /\ doing' = [doing EXCEPT ![h] = None]
    /\ UNCHANGED scope

GiveUp(gone) ==
    /\ doing' = [h \in Hands |-> IF h \in gone THEN None ELSE doing[h]]
    /\ UNCHANGED <<status, scope>>

Cancel(j) ==
    /\ \/ status[j] = "queued" /\ status' = [status EXCEPT ![j] = "canceled"]
       \/ status[j] = "running" /\ status' = [status EXCEPT ![j] = "canceling"]
    /\ UNCHANGED <<scope, doing>>

(* A job is canceled for good only when nobody works on it any more. *)
Canceled(j) ==
    /\ status[j] = "canceling"
    /\ \A h \in Hands : doing[h] # j
    /\ status' = [status EXCEPT ![j] = "canceled"]
    /\ UNCHANGED <<scope, doing>>

Delete(j) ==
    /\ status[j] \in Ended
    /\ status' = [status EXCEPT ![j] = "deleted"]
    /\ scope' = [scope EXCEPT ![j] = {}]
    /\ UNCHANGED doing

Next ==
    \/ \E j \in JobIds : Submit(j) \/ Cancel(j) \/ Canceled(j) \/ Delete(j)
    \/ \E h \in Hands : End(h)
    \/ \E h \in Hands, j \in JobIds : Begin(h, j)
    \/ \E gone \in SUBSET Hands : GiveUp(gone)

Spec == Init /\ [][Next]_<<status, scope, doing>>
=============================================================================
