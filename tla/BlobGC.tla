------------------------------- MODULE BlobGC -------------------------------
(***************************************************************************)
(* The content-addressed blob store and what keeps it in step with the     *)
(* tables that refer to it: an XMind sync puts the objects of a workbook,  *)
(* then replaces the workbook's rows in one transaction; a collector       *)
(* removes objects, and their rows, that are old and that nothing refers   *)
(* to.  A sync ends with a collection of its own, the server runs one      *)
(* every hour.                                                             *)
(*                                                                         *)
(* referenceMu keeps the two apart: a sync holds it for reading from its   *)
(* first Put to its commit, a collection for writing while it walks the    *)
(* objects.  It is a lock of a process: `docgraph source sync` has its own *)
(* over the same directory and database.  mu, which Put and the walk take  *)
(* inside it, adds nothing between them and is left out.                   *)
(*                                                                         *)
(* An object's or a row's age is whether it is past the grace period of a  *)
(* day; things may age while a collection runs, which only lets it remove  *)
(* more.                                                                   *)
(***************************************************************************)
EXTENDS Naturals, FiniteSets

CONSTANTS
    Digests,     \* sha256 digests
    Sources,     \* XMind sources
    Syncs,       \* syncs that may be under way at once
    Collectors,  \* periodic collectors: one in a server, none in a command line
    Home,        \* the process each of them runs in
    None,
    MaxFaults    \* bound: failures and stops of a process

Actors == Syncs \cup Collectors

ASSUME ActorsAssumption == Syncs \cap Collectors = {}

ASSUME NoneAssumption == None \notin Digests \cup Sources

ASSUME FaultsAssumption == MaxFaults \in Nat

VARIABLES
    files,   \* the final object of each digest: none, young or old
    rows,    \* its media_blobs row: none, young or old
    refs,    \* per source: the digests its snapshot and assets refer to
    actor,   \* the syncs and the collectors
    faults

vars == <<files, rows, refs, actor, faults>>

-----------------------------------------------------------------------------

Age == {"none", "young", "old"}

Present(at) == {d \in Digests : at[d] # "none"}

Referenced == UNION {refs[s] : s \in Sources}

Idle == [pc |-> "idle", source |-> None, want |-> {}, todo |-> {}, digest |-> None,
         staged |-> "none"]

At(a, pc) == actor[a].pc = pc

(* A mutated form: the guard is only released when the sync returns. *)
GuardedUntilReturn(a) ==
    actor[a].pc \in {"put", "promote", "committed"} \/ (a \in Syncs /\ At(a, "wait"))

(* Between BeginReferenceUpdate and its release; inside CollectGarbage; asking
   for the write lock, which keeps new readers out (sync.RWMutex). *)
Guarded(a) == actor[a].pc \in {"put", "promote", "committed"}
Locked(a)  == actor[a].pc \in {"walk", "remove"}
Waiting(a) == At(a, "wait")

Neighbours(a) == {b \in Actors : Home[b] = Home[a]}

Becomes(a, state) == actor' = [actor EXCEPT ![a] = state]

-----------------------------------------------------------------------------
(* An XMind sync *)

(* The workbook is parsed, then the guard is taken. *)
BeginSync(a, s, want) ==
    /\ At(a, "idle")
    /\ \A b \in Neighbours(a) : ~ Waiting(b) /\ ~ Locked(b)
    /\ Becomes(a, [Idle EXCEPT !.pc = "put", !.source = s, !.want = want, !.todo = want])
    /\ UNCHANGED <<files, rows, refs, faults>>

(* Put, first half: the bytes are copied to a staging file and hashed. *)
StageBlob(a) ==
    /\ At(a, "put")
    /\ \E d \in actor[a].todo :
          Becomes(a, [actor[a] EXCEPT !.pc = "promote", !.digest = d, !.staged = "young"])
    /\ UNCHANGED <<files, rows, refs, faults>>

(* A mutated form: the same blob over again. *)
PuttingAgain(a) == [actor[a] EXCEPT !.todo = @ \ {actor[a].digest}, !.digest = None, !.staged = "none"]

Putting(a) == [actor[a] EXCEPT !.pc = "put", !.todo = @ \ {actor[a].digest},
                               !.digest = None, !.staged = "none"]

(* Put, second half: an object that is there is left as it is, with its age; else
   the staging file becomes the object. *)
PromoteBlob(a) ==
    LET d == actor[a].digest IN
    /\ At(a, "promote")
    /\ files[d] = "none" => actor[a].staged # "none"
    /\ files' = IF files[d] = "none" THEN [files EXCEPT ![d] = actor[a].staged] ELSE files
    /\ Becomes(a, Putting(a))
    /\ UNCHANGED <<rows, refs, faults>>

(* CleanupStaging took the staging file of a Put that is longer than a day. *)
StagingLost(a) ==
    /\ At(a, "promote")
    /\ files[actor[a].digest] = "none"
    /\ actor[a].staged = "none"
    /\ Becomes(a, Idle)
    /\ UNCHANGED <<files, rows, refs, faults>>

(* ReplaceWorkbookBundle, one transaction: rows are added or kept with their age,
   and the source refers to the new digests only. *)
ReplaceBundle(a) ==
    /\ At(a, "put")
    /\ actor[a].todo = {}
    /\ rows' = [d \in Digests |->
                  IF d \in actor[a].want /\ rows[d] = "none" THEN "young" ELSE rows[d]]
    /\ refs' = [refs EXCEPT ![actor[a].source] = actor[a].want]
    /\ Becomes(a, [Idle EXCEPT !.pc = "committed"])
    /\ UNCHANGED <<files, faults>>

(* The vectors of stale sections are deleted, then the guard is released and the
   sync asks for a collection. *)
ReleaseReferences(a) ==
    /\ At(a, "committed")
    /\ Becomes(a, [Idle EXCEPT !.pc = "wait"])
    /\ UNCHANGED <<files, rows, refs, faults>>

-----------------------------------------------------------------------------
(* A collection: of the hourly collector, or at the end of a sync *)

Tick(a) ==
    /\ At(a, "idle")
    /\ Becomes(a, [Idle EXCEPT !.pc = "wait"])
    /\ UNCHANGED <<files, rows, refs, faults>>

(* A mutated form: the collection does not wait for reference updates. *)
LockFreeUnguarded(a) == \A b \in Neighbours(a) : ~ Locked(b)

LockFree(a) == \A b \in Neighbours(a) : ~ Guarded(b) /\ ~ Locked(b)

(* CollectGarbage takes the locks and walks the objects. *)
BeginWalk(a) ==
    /\ Waiting(a)
    /\ LockFree(a)
    /\ Becomes(a, [actor[a] EXCEPT !.pc = "walk", !.todo = Present(files), !.want = {}])
    /\ UNCHANGED <<files, rows, refs, faults>>

Garbage(d) == files[d] = "old" /\ d \notin Referenced

(* An object is kept, or found to be garbage; one that has gone ends the walk. *)
Visit(a) ==
    /\ At(a, "walk")
    /\ \E d \in actor[a].todo :
          Becomes(a, IF files[d] = "none" THEN Idle
                     ELSE IF Garbage(d)
                       THEN [actor[a] EXCEPT !.pc = "remove", !.digest = d, !.todo = @ \ {d}]
                       ELSE [actor[a] EXCEPT !.todo = @ \ {d}])
    /\ UNCHANGED <<files, rows, refs, faults>>

(* "want" is the result's DeletedDigests. *)
Remove(a) ==
    LET d == actor[a].digest IN
    /\ At(a, "remove")
    /\ files' = [files EXCEPT ![d] = "none"]
    /\ Becomes(a, [actor[a] EXCEPT !.pc = "walk", !.digest = None, !.want = @ \cup {d}])
    /\ UNCHANGED <<rows, refs, faults>>

(* The walk is over: the locks are released before the rows are dealt with. *)
EndWalk(a) ==
    /\ At(a, "walk")
    /\ actor[a].todo = {}
    /\ Becomes(a, [Idle EXCEPT !.pc = "meta", !.todo = actor[a].want])
    /\ UNCHANGED <<files, rows, refs, faults>>

(* DeleteMediaBlobIfUnreferenced: the condition is checked in the statement. *)
DeleteRow(a) ==
    /\ actor[a].pc \in {"meta", "list"}
    /\ \E d \in actor[a].todo :
          /\ rows' = IF rows[d] = "old" /\ d \notin Referenced
                       THEN [rows EXCEPT ![d] = "none"] ELSE rows
          /\ Becomes(a, [actor[a] EXCEPT !.todo = @ \ {d}])
    /\ UNCHANGED <<files, refs, faults>>

(* A mutated form: only the rows of the objects just removed. *)
ListOrphansNever(a) ==
    /\ At(a, "meta")
    /\ actor[a].todo = {}
    /\ Becomes(a, [Idle EXCEPT !.pc = "list"])
    /\ UNCHANGED <<files, rows, refs, faults>>

(* ListUnreferencedMediaBlobs: rows that earlier collections left behind. *)
ListOrphans(a) ==
    /\ At(a, "meta")
    /\ actor[a].todo = {}
    /\ Becomes(a, [Idle EXCEPT !.pc = "list",
                               !.todo = {d \in Digests : rows[d] = "old" /\ d \notin Referenced}])
    /\ UNCHANGED <<files, rows, refs, faults>>

(* The hourly collector ends with CleanupStaging, which takes old staging files
   of every process. *)
EndCollection(a) ==
    /\ At(a, "list")
    /\ actor[a].todo = {}
    /\ actor' = [b \in Actors |->
          IF b = a THEN Idle
          ELSE IF a \in Collectors /\ actor[b].staged = "old" THEN [actor[b] EXCEPT !.staged = "none"]
          ELSE actor[b]]
    /\ UNCHANGED <<files, rows, refs, faults>>

-----------------------------------------------------------------------------
(* Failures and the world *)

(* A store call fails.  A sync or a collection ends, deferred unlocks included;
   the hourly collector goes on after a row it could not delete. *)
Fail(a) ==
    /\ faults < MaxFaults
    /\ faults' = faults + 1
    /\ \/ /\ actor[a].pc \in {"put", "promote", "walk", "remove"}
          /\ Becomes(a, Idle)
       \/ /\ actor[a].pc \in {"meta", "list"}
          /\ IF a \in Syncs THEN Becomes(a, Idle)
             ELSE \E d \in actor[a].todo : Becomes(a, [actor[a] EXCEPT !.todo = @ \ {d}])
    /\ UNCHANGED <<files, rows, refs>>

(* A process stops; its locks go with it. *)
Crash(p) ==
    /\ faults < MaxFaults
    /\ faults' = faults + 1
    /\ actor' = [a \in Actors |-> IF Home[a] = p THEN Idle ELSE actor[a]]
    /\ UNCHANGED <<files, rows, refs>>

(* DeleteSource: snapshots and assets go by cascade. *)
DeleteSource(s) ==
    /\ refs[s] # {}
    /\ refs' = [refs EXCEPT ![s] = {}]
    /\ UNCHANGED <<files, rows, actor, faults>>

(* A day passes. *)
Older(at, d) == [at EXCEPT ![d] = "old"]

AgeFile(d) ==
    /\ files[d] = "young"
    /\ files' = Older(files, d)
    /\ UNCHANGED <<rows, refs, actor, faults>>

AgeRow(d) ==
    /\ rows[d] = "young"
    /\ rows' = Older(rows, d)
    /\ UNCHANGED <<files, refs, actor, faults>>

AgeStaged(a) ==
    /\ actor[a].staged = "young"
    /\ Becomes(a, [actor[a] EXCEPT !.staged = "old"])
    /\ UNCHANGED <<files, rows, refs, faults>>

-----------------------------------------------------------------------------

Init ==
    /\ files = [d \in Digests |-> "none"]
    /\ rows = [d \in Digests |-> "none"]
    /\ refs = [s \in Sources |-> {}]
    /\ actor = [a \in Actors |-> Idle]
    /\ faults = 0

SyncWork(a) ==
    \/ StageBlob(a)
    \/ PromoteBlob(a)
    \/ StagingLost(a)
    \/ ReplaceBundle(a)
    \/ ReleaseReferences(a)

Collect(a) ==
    \/ BeginWalk(a)
    \/ Visit(a)
    \/ Remove(a)
    \/ EndWalk(a)
    \/ DeleteRow(a)
    \/ ListOrphans(a)
    \/ EndCollection(a)

TimePasses ==
    \/ \E d \in Digests : AgeFile(d) \/ AgeRow(d)
    \/ \E a \in Syncs : AgeStaged(a)

Next ==
    \/ \E a \in Syncs, s \in Sources : \E want \in SUBSET Digests \ {{}} : BeginSync(a, s, want)
    \/ \E a \in Syncs : SyncWork(a)
    \/ \E a \in Collectors : Tick(a)
    \/ \E a \in Actors : Collect(a) \/ Fail(a)
    \/ \E a \in Actors : Crash(Home[a])
    \/ \E s \in Sources : DeleteSource(s)
    \/ TimePasses

Spec == Init /\ [][Next]_vars

(* Goroutines run, the ticker ticks, and days pass.  A goroutine that waits for a
   Go lock is handed it in the end (sync.Mutex, starvation mode). *)
Fairness ==
    /\ \A a \in Syncs : WF_vars(SyncWork(a))
    /\ \A a \in Actors : WF_vars(Collect(a)) /\ SF_vars(BeginWalk(a))
    /\ \A a \in Collectors : WF_vars(Tick(a))
    /\ \A d \in Digests : WF_vars(AgeFile(d)) /\ WF_vars(AgeRow(d))

LiveSpec == Spec /\ Fairness

-----------------------------------------------------------------------------
(* Properties *)

State == [pc: {"idle", "put", "promote", "committed", "wait", "walk", "remove", "meta", "list"},
          source: Sources \cup {None}, want: SUBSET Digests, todo: SUBSET Digests,
          digest: Digests \cup {None}, staged: Age]

TypeOK ==
    /\ files \in [Digests -> Age]
    /\ rows \in [Digests -> Age]
    /\ refs \in [Sources -> SUBSET Digests]
    /\ actor \in [Actors -> State]
    /\ \A a \in Actors : actor[a].pc \in {"put", "promote"} => actor[a].source \in Sources
    /\ \A a \in Actors : actor[a].pc \in {"promote", "remove"} => actor[a].digest \in Digests
    /\ faults \in 0 .. MaxFaults

(* What a snapshot or an asset refers to has its row and its object, through
   every interleaving of syncs, collections, deletions and failures. *)
ReferencedIsStored == Referenced \subseteq Present(files) \cap Present(rows)

(* An object nobody wants any more, and its row, are removed in the end, whatever
   failed half way; otherwise deleted sources fill the disk. *)
Unwanted(d) == d \notin Referenced /\ \A a \in Syncs : Guarded(a) => d \notin actor[a].want

GarbageIsCollected ==
    \A d \in Digests : <>[]Unwanted(d) => <>[](files[d] = "none" /\ rows[d] = "none")

(* A sync always ends, although it takes the collector's locks, and so does the
   collector. *)
EveryRunEnds == \A a \in Actors : ~ At(a, "idle") ~> At(a, "idle")

=============================================================================
