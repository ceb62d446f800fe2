----------------------------- MODULE Embedding ------------------------------
(***************************************************************************)
(* The embeddings of a source: the job that a sync leaves behind           *)
(* (internal/jobs), the pass that compares stored chunks with the sections *)
(* page by page, replaces what is not current, sends batches to the model  *)
(* and sweeps orphans (internal/embedding), and the table of chunks        *)
(* (internal/vectorstore).                                                 *)
(*                                                                         *)
(* A pass decides on the inventory it read at its beginning, while syncs   *)
(* replace sections and other passes store chunks.  Batches form a stack:  *)
(* one that is too long for the model is replaced by smaller ones, and a   *)
(* chunk that alone is too long by its halves.                             *)
(***************************************************************************)
EXTENDS Integers, Sequences, FiniteSets, SequencesExt

CONSTANTS
    Sections,       \* section ids, numbers in the order of ListSectionsForEmbedding
    Contents,       \* what a section may say, and how the limits of the plan cut it
    None,           \* the section does not exist
    Text,           \* the chunks of a content: a sequence of token counts
    Plan,           \* the active plan: model, generator, tokenizer, chunk strategy
    Existing,       \* the sections when the server starts
    Leftovers,      \* chunks that may be stored when the server starts
    ContextTokens,  \* what the model takes in one call
    BatchSize,      \* sections in a page, and chunks in a batch
    MaxBatchTokens,
    Concurrency,    \* batches under way at once
    SplitFactor,    \* 1000000: halves of chunk n are numbered from n * SplitFactor
    OrdinalLimit,   \* 2^31 - 1: the column is an integer
    Passes,         \* goroutines that run ensure jobs
    Overlap,        \* whether a sync, or another pass, may run beside a pass
    MaxEdits,       \* bound: sections that syncs replace
    MaxFaults       \* bound: timeouts, failed calls, crashes

ASSUME SectionsAssumption ==
    /\ Sections \subseteq Nat /\ IsFiniteSet(Sections)
    /\ None \notin Contents /\ Existing \in [Sections -> Contents \cup {None}]

(* BuildChunks makes a chunk of an empty text too. *)
ASSUME TextAssumption ==
    \A c \in Contents :
        Text[c] \in Seq(Nat \ {0}) /\ Len(Text[c]) \in 1 .. SplitFactor \div 2

(* The ordinal of a half of a half does not fit the column. *)
ASSUME SizesAssumption ==
    /\ BatchSize \in Nat \ {0} /\ MaxBatchTokens \in Nat /\ ContextTokens \in Nat \ {0} /\ Concurrency \in Nat \ {0}
    /\ SplitFactor \in Nat /\ SplitFactor > 2
    /\ OrdinalLimit \in Nat /\ (SplitFactor \div 2) * SplitFactor > OrdinalLimit

ASSUME BoundsAssumption == MaxEdits \in Nat /\ MaxFaults \in Nat /\ Overlap \in BOOLEAN

VARIABLES
    sections,   \* the sections of the source: content or None
    chunks,     \* embedding_chunks
    sync,       \* the source's syncs: whether a job of one waits or runs in the table,
                \* and how many have ended and are about to enqueue
    queued,     \* ensure jobs that wait: the sync's, retries of deferred chunks
    row,        \* whether the ensure job that was claimed is still running in the table
    pass,
    stranded,   \* history: the last edits have no job that would embed them
    edits,
    faults

vars == <<sections, chunks, sync, queued, row, pass, stranded, edits, faults>>

-----------------------------------------------------------------------------
(* What is stored for a section, and what should be.                       *)

Chunk(s, c, ordinal, size) ==
    [section |-> s, content |-> c, ordinal |-> ordinal, size |-> size, plan |-> Plan]

(* BuildChunks *)
Expected(s, c) == [i \in DOMAIN Text[c] |-> Chunk(s, c, i - 1, Text[c][i])]

(* splitPendingChunkForRetry: nothing when the text is too short to halve. *)
Halves(x) ==
    LET left == x.size \div 2
        from == x.ordinal * SplitFactor + SplitFactor \div 2
    IN  IF x.size < 2
        THEN << >>
        ELSE <<[x EXCEPT !.ordinal = from, !.size = left],
               [x EXCEPT !.ordinal = from + 1, !.size = x.size - left]>>

(* The chunks that a pass may store for a content. *)
Pieces(s, c) == UNION {{Expected(s, c)[i]} \cup ToSet(Halves(Expected(s, c)[i])) : i \in DOMAIN Text[c]}

(* What an earlier process stored of a content in the active plan is what this one would; *)
(* what it cut by other limits is another content.  The column took its ordinal.          *)
ASSUME LeftoversAssumption ==
    \A x \in Leftovers :
        /\ x.section \in Sections /\ x.ordinal \in 0 .. OrdinalLimit
        /\ x.plan = Plan /\ x.content \in Contents => x \in Pieces(x.section, x.content)

(* A mutated form: the halves of a chunk do not stand for it. *)
WholeOnly(stored, x) == {x} \cap stored

(* The stored chunks that stand for an expected one: itself, or both its halves. *)
StandIns(stored, x) ==
    IF x \in stored THEN {x}
    ELSE IF Halves(x) # << >> /\ ToSet(Halves(x)) \subseteq stored THEN ToSet(Halves(x))
    ELSE {}

(* EvaluateSectionEmbedding *)
Evaluation(s, c, stored) ==
    LET active  == {x \in stored : x.section = s /\ x.plan = Plan}
        current == [i \in DOMAIN Text[c] |-> StandIns(active, Expected(s, c)[i])]
        missing == {i \in DOMAIN Text[c] : current[i] = {}}
    IN  IF Text[c] # << >> /\ missing = {} /\ active = UNION {current[i] : i \in DOMAIN Text[c]}
        THEN "ready"
        ELSE IF active = {} THEN "pending" ELSE "stale"

Orphans(current, stored) == {x \in stored : current[x.section] = None}

(* A mutated form: only sections without any chunk count. *)
StatusByMissing(current, stored) ==
    IF \E s \in Sections : current[s] # None /\ Evaluation(s, current[s], stored) = "pending"
    THEN "indexing"
    ELSE IF Orphans(current, stored) # {} THEN "cleanup_required" ELSE "ready"

(* AuditSourceEmbeddingStatus, its reads at one moment. *)
Status(current, stored) ==
    LET state(s) == Evaluation(s, current[s], stored)
        present  == {s \in Sections : current[s] # None}
    IN  IF \E s \in present : state(s) = "pending" THEN "indexing"
        ELSE IF \E s \in present : state(s) = "stale" THEN "stale"
        ELSE IF Orphans(current, stored) # {} THEN "cleanup_required"
        ELSE "ready"

-----------------------------------------------------------------------------
(* Batches.                                                                *)

Tokens(batch) == FoldSeq(LAMBDA x, n : x.size + n, 0, batch)

(* planEmbeddingChunkBatches: the longest prefix that fits, at least one chunk. *)
BatchLength(pending, size, limit) ==
    LET fits(n) == n = 1 \/ limit = 0 \/ Tokens(SubSeq(pending, 1, n)) <= limit
        lengths == {n \in 1 .. Len(pending) : n <= size /\ fits(n)}
    IN  CHOOSE n \in lengths : \A m \in lengths : m <= n

Batches(pending, size, limit) ==
    LET plan[n \in 0 .. Len(pending)] ==
            IF n = Len(pending) THEN << >>
            ELSE LET rest   == SubSeq(pending, n + 1, Len(pending))
                     length == BatchLength(rest, size, limit)
                 IN  <<[chunks |-> SubSeq(rest, 1, length), size |-> size, limit |-> limit]>>
                     \o plan[n + length]
    IN  plan[0]

(* tightenedRetryMaxBatchTokens, for a model that does not name its limit. *)
Tightened(limit) == IF limit \div 2 = 0 THEN 1 ELSE limit \div 2

(* The batches of a page: several that are sent concurrently are retried chunk by chunk. *)
Planned(pending) ==
    LET plan == Batches(pending, BatchSize, MaxBatchTokens)
    IN  IF Concurrency > 1 /\ Len(plan) > 1
        THEN [i \in DOMAIN plan |-> [plan[i] EXCEPT !.size = 1]]
        ELSE plan

(* The batches that take the place of one the model refused as too long. *)
Smaller(batch) ==
    LET n     == Len(batch.chunks)
        limit == Tightened(batch.limit)
    IN  IF n > 1
        THEN Batches(SubSeq(batch.chunks, 1, n \div 2), batch.size, limit)
             \o Batches(SubSeq(batch.chunks, n \div 2 + 1, n), batch.size, limit)
        ELSE Batches(Halves(batch.chunks[1]), 1, limit)

(* UpsertEmbeddingChunk: the ordinal must fit its column, and be free in its plan. *)
Storable(x, stored) ==
    /\ x.ordinal <= OrdinalLimit
    /\ \A y \in stored \ {x} : <<y.section, y.ordinal, y.plan>> # <<x.section, x.ordinal, x.plan>>

(* The place of the first chunk of a batch that the table refuses, 0 for none. *)
Refused(batch, stored) == SelectInSeq(batch, LAMBDA x : ~ Storable(x, stored))

-----------------------------------------------------------------------------
NoSections == [s \in Sections |-> None]
Idle == [pc |-> "idle", inventory |-> {}, current |-> NoSections, offset |-> 0, size |-> 0,
         stale |-> {}, work |-> << >>, deferred |-> FALSE, alone |-> FALSE]

At(p, pc) == pass[p].pc = pc

Fault == faults < MaxFaults /\ faults' = faults + 1

(* A change of sections or chunks by others: the pass is not alone. *)
Disturbed(others) == [p \in Passes |-> IF p \in others THEN [pass[p] EXCEPT !.alone = FALSE]
                                        ELSE pass[p]]

PassStep(p, record) == pass' = [Disturbed(Passes \ {p}) EXCEPT ![p] = record]

-----------------------------------------------------------------------------
(* The sync of the source, and the job it leaves behind.                   *)

(* A sync in the table: EnqueueSync, or the next one of the schedule. *)
CanSync == sync.active \/ Overlap \/ row = "none"

(* The job is queued, and may replace nothing. *)
SyncBegins ==
    /\ ~ sync.active /\ CanSync
    /\ edits < MaxEdits
    /\ sync' = [active |-> TRUE, ended |-> sync.ended]
    /\ edits' = edits + 1
    /\ UNCHANGED <<sections, chunks, queued, row, pass, stranded, faults>>

(* ReplaceDocument, ReplaceWorkbookBundle, DeleteDocumentsMissing: one section of theirs. *)
ReplaceSection(s, c) ==
    /\ CanSync
    /\ edits < MaxEdits /\ sections[s] # c
    /\ sync' = [active |-> TRUE, ended |-> sync.ended]
    /\ sections' = [sections EXCEPT ![s] = c]
    /\ edits' = edits + 1
    /\ stranded' = TRUE
    /\ pass' = Disturbed(Passes)
    /\ UNCHANGED <<chunks, queued, row, faults>>

(* CompleteSyncJob; the job of the embeddings is a second call. *)
SyncSucceeds ==
    /\ sync.active
    /\ sync' = [active |-> FALSE, ended |-> sync.ended + 1]
    /\ UNCHANGED <<sections, chunks, queued, row, pass, stranded, edits, faults>>

(* A failed or canceled sync leaves what it replaced, and no job. *)
SyncFails ==
    /\ sync.active /\ Fault
    /\ sync' = [active |-> FALSE, ended |-> sync.ended]
    /\ UNCHANGED <<sections, chunks, queued, row, pass, stranded, edits>>

(* enqueueEmbeddingEnsureJob: refused, which is no error, while an ensure job waits or *)
(* runs, or another sync of the source does (CreateEmbeddingEnsureJobIfIdle).          *)
EnqueueEnsure ==
    /\ sync.ended > 0
    /\ sync' = [active |-> sync.active, ended |-> sync.ended - 1]
    /\ LET refused == queued > 0 \/ row = "running" \/ sync.active
       IN  /\ queued' = IF refused THEN queued ELSE queued + 1
           /\ stranded' = (stranded /\ queued = 0 /\ (row = "running" \/ sync.active))
    /\ UNCHANGED <<sections, chunks, row, pass, edits, faults>>

-----------------------------------------------------------------------------
(* The pass.                                                               *)

(* ClaimDueJob takes a job that waits, or one whose lease ran out; then loadEmbeddingInventory. *)
Begin(p) ==
    /\ At(p, "idle")
    /\ \/ /\ queued > 0 /\ row = "none"
          /\ queued' = queued - 1
       \/ /\ row = "running"
          /\ Overlap \/ (\A q \in Passes : At(q, "idle"))
          /\ queued' = queued
    /\ Overlap \/ ~ sync.active
    /\ row' = "running"
    /\ PassStep(p, [Idle EXCEPT !.pc = "page", !.inventory = chunks,
                                !.alone = \A q \in Passes : At(q, "idle")])
    /\ UNCHANGED <<sections, chunks, sync, stranded, edits, faults>>

(* A mutated form: the sections that were ready are not counted. *)
OnByRedone(record) == [record EXCEPT !.pc = "page", !.offset = @ + record.size + 1]

(* offset += len(sections) *)
PageDone(record) == [record EXCEPT !.pc = "page", !.offset = @ + record.size]

(* What comes next in a page: deletions, then batches, then the next page. *)
Onward(record) ==
    IF record.stale # {} THEN [record EXCEPT !.pc = "delete"]
    ELSE IF record.work # << >> THEN [record EXCEPT !.pc = "embed"]
    ELSE PageDone(record)

(* ListSectionsForEmbedding: the sections after the first ones, in their order. *)
Listed == {s \in Sections : sections[s] # None}
Rank(s) == Cardinality({t \in Listed : t < s})
Page(offset) ==
    [i \in 1 .. Min({BatchSize, Cardinality(Listed) - offset}) |->
        CHOOSE s \in Listed : Rank(s) = offset + i - 1]

PageEnds(p) ==
    /\ At(p, "page") /\ Page(pass[p].offset) = << >>
    /\ PassStep(p, [pass[p] EXCEPT !.pc = "sweep"])
    /\ UNCHANGED <<sections, chunks, sync, queued, row, stranded, edits, faults>>

(* Each section of the page is compared with the inventory; what is not ready is redone. *)
ReadPage(p) ==
    /\ At(p, "page")
    /\ \E page \in {Page(pass[p].offset)} \ {<< >>} :
       LET stale == {s \in ToSet(page) : Evaluation(s, sections[s], pass[p].inventory) # "ready"}
           redone(s) == IF s \in stale THEN Expected(s, sections[s]) ELSE << >>
       IN  \E pending \in {FlattenSeq([i \in DOMAIN page |-> redone(page[i])])} :
           \E record \in {[pass[p] EXCEPT
               !.current = [s \in Sections |-> IF s \in ToSet(page) THEN sections[s] ELSE @[s]],
               !.size    = Len(page),
               !.stale   = stale,
               !.work    = Planned(pending)]} :
           PassStep(p, Onward(record))
    /\ UNCHANGED <<sections, chunks, sync, queued, row, stranded, edits, faults>>

(* DeleteEmbeddingChunksBySection: the chunks of the active plan. *)
DeleteStale(p) ==
    /\ At(p, "delete")
    /\ LET s == Min(pass[p].stale)
       IN  /\ chunks' = {x \in chunks : x.section # s \/ x.plan # Plan}
           /\ PassStep(p, Onward([pass[p] EXCEPT !.stale = @ \ {s}]))
    /\ UNCHANGED <<sections, sync, queued, row, stranded, edits, faults>>

(* The handler's FailJob: nothing runs the job again. *)
Fails(p) ==
    /\ PassStep(p, Idle)
    /\ row' = "none"
    /\ stranded' = (stranded \/ queued = 0)

ReplacedBy(work, i, smaller) == SubSeq(work, 1, i - 1) \o smaller \o SubSeq(work, i + 1, Len(work))

(* Batch i of the stack is done; the others stay. *)
Done(p, i, deferred) ==
    PassStep(p, Onward([pass[p] EXCEPT !.work = RemoveAt(@, i), !.deferred = @ \/ deferred]))

TooLong(p, i) ==
    LET batch == pass[p].work[i]
    IN  \E smaller \in {Smaller(batch)} :
        /\ Tokens(batch.chunks) > ContextTokens
        /\ IF smaller = << >>
           THEN Fails(p)
           ELSE /\ PassStep(p, [pass[p] EXCEPT !.work = ReplacedBy(@, i, smaller)])
                /\ UNCHANGED <<row, stranded>>
        /\ UNCHANGED <<sections, chunks, sync, queued, edits, faults>>

(* embedAndStoreChunkBatch *)
EmbedAndStore(p, i) ==
    LET batch == pass[p].work[i].chunks
        n     == Refused(batch, chunks)
    IN  /\ Tokens(batch) <= ContextTokens
        /\ chunks' = chunks \cup ToSet(IF n = 0 THEN batch ELSE SubSeq(batch, 1, n - 1))
        /\ IF n = 0
           THEN Done(p, i, FALSE) /\ UNCHANGED <<row, stranded>>
           ELSE Fails(p)
        /\ UNCHANGED <<sections, sync, queued, edits, faults>>

(* IsTransientEmbeddingError: the batch is deferred, the others go on. *)
TimesOut(p, i) ==
    /\ Fault
    /\ Done(p, i, TRUE)
    /\ UNCHANGED <<sections, chunks, sync, queued, row, stranded, edits>>

(* Any other error of the model, of the table or of the job's progress ends the pass; *)
(* the table may have taken the first chunks of the batch.                            *)
CallFails(p, i) ==
    /\ Fault
    /\ LET batch == pass[p].work[i].chunks
       IN  \E n \in 0 .. Len(batch) - 1 :
              /\ n > 0 => Tokens(batch) <= ContextTokens
              /\ \A k \in 1 .. n : Storable(batch[k], chunks)
              /\ chunks' = chunks \cup ToSet(SubSeq(batch, 1, n))
    /\ Fails(p)
    /\ UNCHANGED <<sections, sync, queued, edits>>

EmbedBatch(p) ==
    /\ At(p, "embed")
    /\ \E i \in DOMAIN pass[p].work : i <= Concurrency /\
          \/ TooLong(p, i)
          \/ EmbedAndStore(p, i)
          \/ TimesOut(p, i)
          \/ CallFails(p, i)

(* A call of the store that fails ends the pass: the inventory is already read, the page, *)
(* the deletion, the sweep or the retry's insert is not done.                             *)
StoreFails(p) ==
    /\ pass[p].pc \in {"page", "delete", "sweep", "swept"}
    /\ Fault
    /\ Fails(p)
    /\ UNCHANGED <<sections, chunks, sync, queued, edits>>

(* sweepOrphanEmbeddingChunks: by section, whatever the plan and whenever stored. *)
Sweep(p) ==
    /\ At(p, "sweep")
    /\ LET orphaned == {x.section : x \in Orphans(pass[p].current, pass[p].inventory)}
       IN  chunks' = {x \in chunks : x.section \notin orphaned}
    /\ PassStep(p, [pass[p] EXCEPT !.pc = "swept"])
    /\ UNCHANGED <<sections, sync, queued, row, stranded, edits, faults>>

(* A mutated form: what timed out is left to the next sync. *)
RetryForgotten(p) ==
    /\ At(p, "swept") /\ pass[p].deferred
    /\ pass' = [pass EXCEPT ![p].pc = "retried"]
    /\ UNCHANGED <<sections, chunks, sync, queued, row, stranded, edits, faults>>

(* createDeferredEmbeddingRetryJob, inserted while its parent still runs. *)
QueueRetry(p) ==
    /\ At(p, "swept") /\ pass[p].deferred
    /\ pass' = [pass EXCEPT ![p].pc = "retried"]
    /\ queued' = queued + 1
    /\ UNCHANGED <<sections, chunks, sync, row, stranded, edits, faults>>

(* CompleteJob *)
End(p) ==
    /\ At(p, "retried") \/ (At(p, "swept") /\ ~ pass[p].deferred)
    /\ PassStep(p, Idle)
    /\ row' = "none"
    /\ UNCHANGED <<sections, chunks, sync, queued, stranded, edits, faults>>

(* The rows of jobs that ran stay running until their leases expire. *)
Crash ==
    /\ Fault
    /\ pass' = [p \in Passes |-> Idle]
    /\ sync' = [active |-> sync.active, ended |-> 0]
    /\ UNCHANGED <<sections, chunks, queued, row, stranded, edits>>

-----------------------------------------------------------------------------
Init ==
    /\ sections = Existing
    /\ chunks \in SUBSET Leftovers
    /\ sync = [active |-> FALSE, ended |-> 0] /\ queued = 0 /\ row = "none"
    /\ pass = [p \in Passes |-> Idle]
    /\ stranded = TRUE /\ edits = 0 /\ faults = 0

SyncStep ==
    \/ SyncBegins
    \/ \E s \in Sections, c \in Contents \cup {None} : ReplaceSection(s, c)
    \/ SyncSucceeds
    \/ SyncFails
    \/ EnqueueEnsure

EnsureStep(p) ==
    \/ Begin(p)
    \/ PageEnds(p)
    \/ ReadPage(p)
    \/ DeleteStale(p)
    \/ EmbedBatch(p)
    \/ StoreFails(p)
    \/ Sweep(p)
    \/ QueueRetry(p)
    \/ End(p)

Next == SyncStep \/ (\E p \in Passes : EnsureStep(p)) \/ Crash

Spec == Init /\ [][Next]_vars

(* Workers take jobs that are due and run them; a sync that runs ends. *)
Fairness ==
    /\ WF_vars(SyncSucceeds) /\ WF_vars(EnqueueEnsure)
    /\ \A p \in Passes : WF_vars(EnsureStep(p))

FairSpec == Spec /\ Fairness

-----------------------------------------------------------------------------
(* What the stored chunks should be, said without the code's own comparison. *)
Root(ordinal) == IF ordinal < SplitFactor \div 2 THEN ordinal ELSE ordinal \div SplitFactor

Covered(s, stored) ==
    LET of(i) == {x \in stored : x.section = s /\ x.plan = Plan /\ Root(x.ordinal) = i - 1}
    IN  /\ \A x \in stored : x.section = s /\ x.plan = Plan => x.content = sections[s]
        /\ \A i \in DOMAIN Text[sections[s]] :
              FoldSet(LAMBDA x, n : x.size + n, 0, of(i)) = Text[sections[s]][i]

Embedded ==
    /\ \A s \in Sections : sections[s] # None => Covered(s, chunks)
    /\ \A x \in chunks : sections[x.section] # None

(* The audit answers "ready" exactly when all is embedded and nothing is left over, *)
(* in the middle of a pass, a failed batch or an edit no less than in between.      *)
AuditIsExact == Status(sections, chunks) = "ready" <=> Embedded

(* A pass beside which nothing ran and which deferred nothing leaves, whatever was *)
(* stored before: every chunk of every section covered once, whole or by its two   *)
(* halves, nothing of an earlier content, and no orphan of any plan.               *)
LonePassCompletes ==
    \A p \in Passes : At(p, "swept") /\ pass[p].alone /\ ~ pass[p].deferred => Embedded

(* A pass that runs alone never touches the embeddings of a section that is covered: *)
(* what is current is neither replaced nor swept, halves no less than wholes.        *)
LonePassKeepsCovered ==
    [][\A p \in Passes, s \in Sections :
          /\ pass[p].alone /\ pass'[p].alone /\ sections[s] # None
          /\ Covered(s, chunks)
          => Covered(s, chunks')]_vars

(* Once syncs and faults are over every section is embedded and every orphan gone, *)
(* unless the last edits have no job: their sync failed or was stopped before it   *)
(* enqueued, a pass failed, or the job of the sync was turned away by a pass under *)
(* way or by another sync of the source that then failed.  No job that waits is    *)
(* canceled here, and none that is canceled is left so by a stop.                  *)
EmbeddedUnlessStranded == <>[](stranded \/ Embedded)
=============================================================================
