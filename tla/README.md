# docgraph in TLA+

docgraph indexes documents. It loads them from sources (directories, git
repositories, web sites, Confluence, XMind workbooks ...), keeps documents,
sections, technical entities, profiles, a graph and embeddings in SQLite (and
PostgreSQL for vectors), and serves searches over REST and MCP. What makes it
hard is not one algorithm but that many things write the same tables: worker
goroutines that lease jobs, API requests, a scheduler, an hourly collector, and
command lines that open the same database from a process of their own. Almost
every operation is a sequence of separate transactions that can fail, be
canceled or be killed in the middle.

These modules describe that: every action is one store call, or one step of a
goroutine between two store calls, and properties are about what all writers
together leave behind.

## Reading order

| Module | What it is |
|---|---|
| `JobLifecycle` | abstract: what the job queue promises |
| `JobQueue` | the job table, the worker goroutines, cancellation, the inline command line, restarts |
| `Scheduling` | the row of a source: schedules, credentials, pauses, and everyone who writes it |
| `SyncPipeline` | one source's synchronisation, document by document, and who writes beside it |
| `Embedding` | the pass that keeps stored embeddings in step with the sections, and its jobs |
| `BlobGC` | the content-addressed object store, its locks, its rows and its collectors |
| `GraphMemberships` | which sources and documents nodes and edges belong to, and what deletes them |
| `KnowledgeRelations` | proposed relations between documents, who decides them, and what follows |
| `Pages` | a Markdown file or an HTML page cut into sections |
| `Chunker` | a section cut into chunks for the embedding model, and its evaluation |
| `Search` | one search: lanes, vector hits, rank fusion, related documents |
| `WebCrawl`, `Paths` | the crawl of a site, and the relative paths of links |
| `References` | where the references in a section's text lead |
| `OneCall` | what `Search` and `References` share: a behaviour is one call and its answer |
| `...MC` | constants, inputs and properties for TLC |
| `...Proofs` | theorems and proofs |

Each component module has the same layout: constants and their assumptions,
variables, helpers, one action per store call or handler step, `Init`, `Next`,
`Spec`, fairness, and the properties last. Beside some definitions stands a
*mutated form* of it, used nowhere in the specification: a plausible slip (a
missing parenthesis, a lost guard, a swapped order) that makes a named property
false. They record which line of code each property depends on.

## Inventory

### Job queue and job runner — modelled (`JobQueue`)
`internal/jobs/jobs.go`, the job functions of `internal/storage/sqlite/sqlite.go`,
the job endpoints of `internal/server/server.go`, `RunSyncJob` and `SyncSource` of
`internal/sync/sync.go`.

* State: the table `jobs` (status, source, kind, run_after, locked_until,
  worker_id); per server process the runner's map from job id to a cancel
  function; per goroutine its job and its context.
* Operations: enqueue with or without an idle check, claim, register, run a
  handler, enqueue the follow-up, defer, complete, fail, finalize, poll for
  cancellation; cancel and delete from the API; `docgraph source sync`, which
  enqueues a job and runs it inline without claiming it.
* Hard: leases that nothing renews; reads through one connection and writes
  through another; ends that compare no owner; a stop at any point.
* Correct when: executions of a source exclude each other, jobs are not
  duplicated, cancellations and ends stand, and every queued job is served.

### Sync service — partly modelled (`SyncPipeline`)
`internal/sync/sync.go` and the store functions it calls.

* State: documents with content hashes, sections, section entities, profiles,
  graph nodes and edges with their evidence.
* Operations: load, plan, replace a document, rewrite its entities and profile,
  delete what was not found, redraw the graph; the backfill command; a person's
  description of a document.
* Hard: no transaction spans two of these; the hash is written first and trusted
  afterwards; two syncs overlap when one outlives its lease.
* Correct when: the hash tells which sections are stored, a sync repairs what
  earlier ones broke, and nothing a person wrote is lost.
* Left out: links between HTML pages, broken link counts (both are more edges
  and counters written after the graph), and the XMind sync, which has its own
  transaction (below).

### Blob store and garbage collection — modelled (`BlobGC`)
`internal/blobstore/store.go`, the collector of `internal/app/app.go`,
`internal/sync/xmind.go`, the media functions of `sqlite.go`.

* State: object files with their age, staging files, `media_blobs` rows with
  their age, the references of snapshots and assets, the process's `referenceMu`.
* Operations: Put (stage, promote), commit of a workbook, release of the guard, a
  collection (walk, check, remove, rows, orphan rows), staging cleanup, source
  deletion.
* Hard: an object must exist before its reference, and be removed only when no
  reference can appear; the locks belong to a process, the directory does not.
* Correct when: what is referenced is stored, what is not is collected in the
  end, and no run blocks for ever.

### XMind sync and workbook bundles — partly (`BlobGC`, `GraphMemberships`)
What a sync does to objects, media rows and references, step by step (`BlobGC`), and
what the transaction of its bundle does to documents, sections, nodes and edges
(`GraphMemberships`). Parsing, profiles and diagnostics are left out.

### Scheduler and source sync state — modelled (`Scheduling`)
`internal/scheduler/scheduler.go`, `internal/syncschedule/schedule.go`, the source
handlers of `server.go`. State: schedules, sync state, credentials and pauses in
one row of `sources`. Hard: handlers read the row and write all of it back later;
job times are stored in UTC without a zone and parsed as local time; a pause is
decided on the row read when a sync began; a cancellation or an embedding job turns
scheduled syncs away. In `JobQueue` a scheduled sync is
`RequestSync`, enabled at any time. Correct when: a due source is synced once per
interval, a pause is neither lost nor resurrected, and a source whose credential
the site refuses is not tried for ever. Not so, and said so below: a cancellation
that a stop leaves behind ends the syncs of its source for good.

### Graph memberships and ownership — modelled (`GraphMemberships`)
The graph transactions of `internal/storage/sqlite/sqlite.go` and the foreign keys of
`internal/storage/sqlschema/schema.go`.

* State: sources, documents, sections, nodes and edges with what the metadata of
  nodes, the evidence of edges and the owner columns refer to; the derived tables
  `source_nodes`, `document_nodes` and `source_edges`.
* Operations: creation and deletion of a source, replacement of a document,
  deletion of documents a sync did not find, upserts of nodes and edges, edges and
  merges a person adds, replacement of a workbook.
* Hard: each transaction recomputes only the rows it thinks it touched, while an
  edge's rows depend on its section, on its two ends and on the sources those name;
  deletions trust these rows.
* Correct when: the tables say what a rebuild from scratch would, and a deletion
  takes what names the deleted source or document.

### Embedding ensure and reconcile — modelled (`Embedding`)
`internal/embedding/rebuild.go`, `reconcile.go`, `inventory.go`, `status.go`, the
enqueueing in `internal/jobs/jobs.go`. State: sections, stored chunks, the ensure jobs,
and a pass with its inventory, its page and its stack of batches. Hard: pages by
offset while syncs replace the sections, deletes before it inserts, decides orphans
from an old snapshot, halves what the model refuses. Correct when: a pass that nobody
overlaps leaves exactly the wanted chunks, touches nothing that is current, and the
status tells the truth in between. The vector store (PostgreSQL) is the table `chunks`;
the embedding client (HTTP) is how a batch ends: stored, too long, timed out, failed.

### Embedding limits, chunker and evaluation — partly (`Chunker`)
`internal/embeddingchunk/chunker.go`, the block checks of
`internal/embeddingeval/eval.go`. Pure: a section is a sequence of lines, a line its
kind and its length. Hard: seven kinds of blocks with their own splitting, overlaps,
budgets, a merging pass. Correct when: nothing of a section is lost or out of order,
no chunk only repeats others, chunks fit, and what the evaluation calls a kept block is
one. Left out: `limits.go`, which probes a model, and the wording of metadata.

### Search, intent routing and rank fusion — modelled (`Search`)
`rrf_fusion.go`, `intent_router.go` and the search functions of `sqlite.go`. A search
is many statements without a transaction; a sync may commit between any two of them. Hard:
vector hits whose section changed or went, media counted and listed apart, three orders to reconcile, limits applied at several places. Correct
when: hits are sections as stored, at most so many and so many of a document, and what
both lanes found comes first. How well a text matches a query is an input.

### Explicit references and knowledge relations — modelled (`References`, `KnowledgeRelations`)
`explicit_references.go` extracts references (links, numbers, titles) from the hits of a
search and resolves them; pure. Proposals and relations are rows that reviewers decide
concurrently through REST and MCP while syncs remove documents. Correct when: an explicit
link, title or number after a section sign leads to the section it names and to no other; a proposal is decided once.

### Web crawler — modelled (`WebCrawl`, `Paths`)
`internal/ingest/webdocs/webdocs.go`: the frontier, page and depth limits, rendered
pages, in-page menus, and how links between the pages become edges of the graph
(`internal/sync/sync.go`). Correct when: what can be reached is taken, once, nearer pages
first, and a link leads to the section it stands for. What a page holds is an input.

### Connectors — partly (`Pages`)
`localdocs.go` and `htmldocs.go` cut files into sections. Listing and fetching (git,
SFTP, Confluence, static sites) is I/O; OpenAPI is a mapping of names.

### Others
* **REST server**: the job endpoints are in `JobQueue`, those of sources and credentials
  in `Scheduling`, those of relations in `KnowledgeRelations`; the others read.
* **MCP server and sessions**: the tools that propose and list relations are in
  `KnowledgeRelations`; the others read. The table of SSE sessions is not modelled.
* **Command line**: `source sync` is `CliStart`, `CliEnds` and `CliStops`; the
  server's start and stop is `Crash`; the rest is one store call each.
* **Storage schema and migrations**: rows shape the other modules; migrations run
  once, before the server starts.
* **XMind parser, profiles and technical extraction, tokenizer, ids, source kinds, query
  service, configuration, web interface**: text heuristics, read-only assembly,
  presentation. They keep no state that a step of another actor can change under them.

### How they meet
The scheduler and the API enqueue into the job table. Workers claim rows and call
the sync service or the embedding service. A sync writes documents, graph and
blobs and enqueues an embedding pass. An XMind sync and the hourly collector meet
in the blob store. Searches read all of it between the commits of the others. A
command line opens the same database and directory from its own process, so that
everything kept in memory — the runner's map, the blob store's locks — excludes
nothing there.

## JobQueue

| In the code | In the model |
|---|---|
| a row of `jobs` | `jobs[j]`: kind, source, status, lock, worker |
| `run_after <= now`, `order by run_after, rowid` | membership of, and place in, `ready` |
| `locked_until` null / in the future / past | lock `"none"` / `"held"` / `"expired"` |
| a goroutine in `runOnce` | `worker[w]`: where it is, its job, whether its context is canceled |
| `Runner.running` | `running` |
| a request inside `CancelJob` | `client[c]`: read, write, signal, and the status it read |
| `SyncSource` in a command line | `cli[p]` |

Every SQL statement or transaction is an action; where the code reads and writes
in two statements the model does too (`CancelRead` / `CancelWrite`). A handler is
reduced to how it ends: it succeeds, defers, fails, or a store call of it is lost
(`StoreCallLost`), because its context was canceled, because the row may not be
ended any more, or because the call failed. Payloads, progress, results and the
attempts counter are left out: no decision of the queue reads them. `CreateSyncJob`
is called by tests only. The branch of the runner for a kind without a handler is
unreachable: only registered kinds are claimed.

`JobLifecycle` knows neither leases nor claims. A job is submitted, begun by a hand
when no other hand works on it or on its sources, ended by that hand, or canceled:
finally only when nobody works on it. `ImplementsLifecycle` maps a worker between
claim and end to a hand.

### Runs

* `queue_safety` (978 258 states): two jobs, two sources, two workers, a client, a
  command line, a crash, all kinds of jobs, failing store calls and leases that
  expire under running handlers. Two jobs are what every property compares; two
  workers on one job need an expired lease, which the bound allows any number of
  times. `SourceLeasedOnce`, `OneActiveSync`, `CancelIsFinal` and `EndedStaysEnded`
  hold even there.
* `queue_within_lease` (877 623 states): three jobs, so that a third can be
  claimed while two conflict; leases expire only after a crash. Then the *work* is
  exclusive too (`WorkIsExclusive`), a canceled job is idle (`CanceledMeansStopped`)
  and the queue implements `JobLifecycle`.
* `queue_liveness` (164 700 states): one source, three jobs (a sync, its ensure
  pass, a deferred retry), no crash. Under `FairSpec` every queued job of a
  registered kind is claimed or canceled, every cancellation settles, and retries
  inserted without an idle check do not pile up (`EnsureQueuedOnce`).
* `queue_restart` (violation of `QueuedIsServed`): one crash added to the run above.

The bound of the job ids is seen by a handler as a failed insert. Deadlock is not
checked: when the ids are used up and all jobs have ended the system rightly stops.

Fairness: workers poll every second, handlers return and monitors poll, so
`Claim`, `HandlerStep` and `Monitor` are weakly fair per worker; clocks advance, so
is a row becoming due and a lease running out; a request that was started is
carried through. Nobody is obliged to ask for anything: enqueueing, cancellation,
deletion, the command line and crashes are not fair. A row of the kind
`maintenance_profile_rebuild`, which the API accepts, has no handler and stays
queued for ever; `QueuedIsServed` is about registered kinds.

## SyncPipeline

A document's contents are hashes, a content's sections a set of ids. `documents`,
`sections`, `entities`, `profiles`, `nodes`, `owned` (the `document_nodes` rows),
`edges` and `mentions` are the tables; `sync[p]` is a goroutine in
`syncMarkdownDocs`, with what it loaded (`found`), what it has still to do and what
it has read. `Fail` is any error, cancellation or kill between two calls: all of
them end the sync and roll nothing back. Two syncs of one source overlap when one
of them has outlived its lease, or through the command
line. `alone` remembers that no other sync or backfill ran beside this one,
`clean` that none ever failed or overlapped, `crossed` the documents that were deleted
while another sync that had found them was under way.

### Runs

* `pipeline_overlap` (1 961 403 states): one document of two contents, so that a
  section appears and disappears and the document goes and comes back; two syncs that
  overlap in any way, a backfill, a description, an edit, a failure anywhere. The hash
  always tells the sections (`HashTellsSections`), a sync that nothing ever disturbed
  leaves the index its documents derive (`CleanSyncDerives`), a lone sync repairs it
  (`LoneSyncIndexes`), a description survives (`DescriptionKept`). One document is
  enough for two syncs to disagree: what a sync does to a document depends on the
  others only through the order in which it takes them.
  What a lone sync does *not* repair: when a document is deleted under the hands of a
  sync that had found it, that sync draws it all the same, as nodes that belong to no
  document (`UpsertNode` finds no row to refer to); when the document stays away, no
  later sync looks for them, since staleness is a matter of document rows
  (`staleDocumentIDs`). `Indexed` therefore asks that nothing at all is left of a
  document that was not found, nodes and edges included (`Erased`), unless its deletion was
  crossed in this way. Nodes of sections that a document found has lost stay in its
  graph by design of the code, with their edges bared of evidence.
* `pipeline_retry` (violation of `RetryDerives`): a failure, then a retry.

Deadlock is not checked where edits and faults are used up. The module has no
liveness property: whether a sync runs at all is the queue's affair.

## BlobGC

`files`, `rows` and `refs` are the object directory, `media_blobs` and the
references of snapshots and assets; `actor[a]` is a sync or a collector. `Home`
gives each its process, and the locks (`LockFree`, the guard of `BeginSync`) look at
neighbours in the same process only. A waiting writer keeps new readers out, as
`sync.RWMutex` does. `mu`, taken inside `referenceMu` by Put and by the walk, adds
nothing between them and is left out. Ages are a bit, young or past the grace
period. A staging file that a crash left behind is referred to by nobody and is
not kept in the state.

### Runs

* `blobs` (23 796 states): one process, one digest, two syncs that end with
  collections of their own, the hourly collector, deletion, a failure or a stop
  anywhere. `ReferencedIsStored`, `GarbageIsCollected` and `EveryRunEnds` hold. A
  digest is never compared with another, so one shows what can happen to it; that
  `ReferencedIsStored` holds of any number is proved.
* `blobs_processes` (violation of `ReferencedIsStored`): the sync in a command line.

Fairness: goroutines run and the hourly ticker ticks (`WF`), days pass (`WF` of
ageing), and a goroutine that waits for a lock gets it in the end (`SF` of
`BeginWalk`: a waiting writer bars new readers, and Go's mutex hands over to a
starving waiter). Syncs, deletions, failures and stops are not fair.

## GraphMemberships

| In the code | In the model |
|---|---|
| the content of the database within a transaction | the record `db`, or `g` |
| `metadata_json` of a node: `source_id`, `document_id` | `source`, `document` |
| `owner_source_id` | `owner` |
| a section's `document_id`, or no such section | `place` |
| a membership row with the bits of its `ref_mask` | one triple per bit |
| `replaceNodeMembershipsTx`, `replaceEdgeMembershipsTx` | `RefreshNodes`, `RefreshEdges` |
| `on delete cascade`, `on delete set null` | `DropNodes`, `DropEdges`, and the operators `Cascade...` |
| `rebuildGraphMemberships`, run by a migration | `NodeRefs`, `DocumentRefs`, `EdgeRefs`: the reference definition |

An action is one transaction, a composition of operators that take and return the
whole content. Ids derive from their source: a section or node with a given id never
belongs to two (`Home`), and what metadata name is consistent with it
(`InputsAssumption`). The edges a person adds are not: they may join anything and may
take over the id of any edge. Left out: search indexes, `section_nodes`, links of
media, and a change of a source's kind by an upsert of the same id (`Workbooks` is
constant). `owner_scope` is left out too: a source holds one workbook, whose key never
changes.

`fresh` is a history variable, read by no guard: the nodes written since their source
and document were created. Membership rows are computed when a node is written, and
the creation of a source or document adds none. A sync that goes on after its source
was deleted writes nodes without rows; if the source is created again, the rows stay
missing until the nodes are written again, and a deletion before that leaves the
nodes behind. That is what the code does, no document promises otherwise, and the
properties say so: `NodesFollow` demands rows of fresh nodes only, and
`GoneTakesItsNodes` is about these.

### Run

* `graph_memberships` (53 880 states): a plain source of two documents and a workbook
  of two sheets; five nodes, of which one belongs to no document and one to nothing
  but its owner; three edges, of which one crosses the sources and one is taken over
  by an edge of another kind of writer; bundles in which a topic moves between sheets
  and a sheet goes. Two sources are enough for a row of one to be wrongly kept by, or
  taken from, the other; with three edges each of the four references of an edge
  occurs. There is no bound on the number of transactions.

## Scheduling

| In the code | In the model |
|---|---|
| a row of `sources` (Confluence, the kind with a stored credential) | `rows[s]`: schedule, credential, sync status |
| `confluence_cookie_credentials` | `cookies[k]`: what the site says to it |
| the latest sync job of a source, its `updated_at` | `job[s]`: status, ticks since then |
| `Runner.RunOnce` of the scheduler | `pass`: list sources, list jobs, insert one by one |
| the embedding jobs in progress | `embedding`: their scopes, a source or all of them |
| a handler in `RunSyncJob` | `run[p]`: the row and the cookie it read, what is left to write, and its job: the latest, or the outcome of an older one |
| an API request between its reads and its writes | `request[c]`: the rows it will write |
| `time.Local` | `zone`: job times are UTC without a zone and read as local |

`syncschedule.Parse` accepts `manual`, `hourly`, `daily`, `weekly` and `every <duration>`
(the repository's README speaks of cron, lines 23 and 51): an interval is a number of
ticks. The zone is constant while a server runs. `since` and `alone` are history.

A job counts as in progress while it is queued, running or canceling, and turns other
syncs of its source away (`InProgress`, `Refusing`); so does an embedding job of the
source or of all sources. `Cancel` takes a queued job to canceled and a running one to
canceling, from which only the worker that runs it takes it on (`Aborts`, `Return`). A
run writes the end of its own job, which need not be the latest one any more, and writes
nothing to a job that is canceled or deleted (`EndsOwn`).

### Run

* `scheduling` (375 931 states): one source, one credential, an interval of one tick
  on a server one tick west of Greenwich, two runs of which one may have outlived its
  lease, one request that changes something (settings, a credential, a cancellation, a
  deleted job, an embedding job), one fault (a cookie expires, a sync fails, a crash).
  Sources are never compared with each other, and one interval is enough to be early
  or late. A pause survives whole-row writes (`PauseSurvivesEdits`), a success activates
  (`SuccessActivates`), scheduled syncs keep their distance up to the zone's offset
  (`ScheduledApart`, proved for every zone); a refused source is paused
  (`RefusedIsPaused`) and an active one is synced again (`ScheduledIsServed`).

The two liveness properties name what the code does not give. A row left canceling by
a stop is never taken out of that state (`Stuck`; the run `queue_restart` shows it): the
scheduler holds its source to be in progress, `CreateSyncJobIfIdle` refuses every other
sync of it, and nothing is tried any more. And an embedding job that defers what it
cannot embed queues its retry before it ends, so that the two can follow each other for
ever while syncs of the source are refused; the properties are claimed where embedding
jobs leave room again and again (`EmbeddingMakesRoom`).

Fairness: the ticker fires, free workers claim, started runs and requests go on, time
passes. Requests, expiry, failures, crashes and the end of embedding jobs are not fair.

## Embedding

A content is a sequence of token counts, its chunks. `chunks` is the table of the vector
store, with the ordinal and the plan (model, generator, tokenizer, strategy) that make a
row current. `pass[p]` is a pass: `inventory` as read at its beginning, `current` the
sections of the pages read so far, `stale` what this page deletes, `work` the stack of
batches, of which the first `Concurrency` may be answered in any order. The halves of a
chunk carry ordinals `n * SplitFactor + SplitFactor \div 2` and the next (1000000 in the
code): halves of halves, and the halves of late chunks, overflow the column and end the
pass, which the small `OrdinalLimit` reproduces. When the page makes several batches and
they are sent concurrently, a batch that is too long is retried chunk by chunk, else half
by half (`Planned`, `Smaller`). `sync` says whether a sync of the source is in the table
and how many have ended and not yet enqueued their job, which is refused while another
ensure job waits or runs, or another sync is active. `StoreFails` is any failing call of
the store outside a batch; it ends the pass. A page
is the next `BatchSize` sections by rank among those that exist (`limit` and `offset`), so
that an edit moves the pages that follow. A call that fails may have stored some of its
batch.

Assumed: section ids are numbers, a finite set; a content has at least one chunk (empty
texts get one, too) and at most half of `SplitFactor`; the ordinal of a half of a half does not
fit the column. A chunk that is stored before the first pass in the active plan and with a
content of today is one this plan would store: what an earlier process cut by other limits
is another content, since the hash of a chunk covers its text.

### Run

* `embedding` (273 660 states): three sections of which two exist, contents that fit,
  that need halving, and that no halving helps (a chunk too long even in halves, halves
  whose ordinals the column refuses), an old plan's orphan left over, one pass, two edits
  (a section replaced, or a sync begun that replaces nothing), one fault. Sections fill a
  page and begin another, so a replacement moves the offset. The audit is exact at every moment (`AuditIsExact`); a
  pass that nothing disturbed completes (`LonePassCompletes`) and keeps what was covered
  (`LonePassKeepsCovered`); in the end all is embedded unless the last edits have no job
  (`EmbeddedUnlessStranded`).

`stranded` names the gaps of the code: a sync that failed or stopped before it enqueued,
a pass that failed, a job refused because a pass that has read past the edit still
runs, or because the next sync was queued before the job was inserted and then failed.
Until the next sync of the source nothing makes another. What the model refused is
recognised by later passes (`docs/chunk-evaluation-design.md:253`) when it was halved once;
what needs halving twice fails every pass. Fairness: workers run passes, a
sync that runs ends and enqueues; jobs of embeddings are not canceled here, and no row
stays canceling (`JobQueue` has both).

## KnowledgeRelations

| In the code | In the model |
|---|---|
| `knowledge_relation_proposals`, `knowledge_relations` | `proposals`, `relations` |
| random ids | numbers, issued once |
| a request between two statements | `doing[c]`, a stage with what it carries |
| the HTTP status and body | `answer[c]` |
| `on delete cascade` of a document | `RemoveDocument` |

Checking the documents and inserting the proposal are two statements; rejecting, and
reading the row for the answer, are two; approving is one transaction and one read.
A locked store is answered 409, because its message contains the word by which a conflict
is recognised (`server.go:2397`). Page limits of the lists are left out. What a removed
document takes with it is gone for good: a document that comes back has no relations.

## Pages, Chunker, Search, WebCrawl, References

These are functions of their input, written as operators and checked over bounded inputs
against promises that do not use their own algorithm. Where Go leaves a choice (the order
of hits that nothing decides) the operator is a set of results. `Search` and `References`
are specifications of their own, over the variables of `OneCall`: a behaviour is one call
and one of its answers. The call of a search is a query, the store before and after a
commit, and where the commit falls (`edit`): a stage of the search, and which statements of
that stage come before it. That of the references is a store and the hits of a search in it
(`Catalogs`).

* `Pages`: the tree of a page, or lines, to sections. Quirks kept as they are: a line
  like a heading inside a Markdown fence cuts a section (`localdocs.go:127`); skipped
  levels nest ever deeper, so a path is promised only where levels are nested; texts
  directly in a `section`, `blockquote` or `dd`, or in a `div` with block children, table
  captions, and links in headings and menus are lost; the section for a page without
  any holds scripts and no links. `PagesAreWhole` promises the rest.
* `Chunker`: every strategy and every kind of block. An overlap at or above the budget
  never ends (`chunker.go:1336`) and is assumed away; what stands
  between two data rows of one HTML table is dropped (`BetweenRows`); `adaptive` may exceed its target by a quarter.
* `Search`: no transaction holds its statements together, so the stages (`Reads`) are those
  of the code: each attempt asks its index, and reads the rows of stored entities, the texts
  of literal terms (`sqlite.go:7714`), the sections of vector hits and the first sections
  of related documents one by one; media are counted (`sqlite.go:6817`) and listed (`6868`)
  apart. One term of a query is a literal, and the limit on listed entities is left out. A
  stored entity whose document is stale, or whose section went meanwhile, fails the whole
  search, and so does a candidate that goes before its text is looked up, where a text hit is
  only left out (`sqlite_test.go:2921-2926`); a related document is shown stale or not; the comment of
  the fusion says a bonus of 1.2 and the code 1.05 (`rrf_fusion.go:112`, `120`).
* `WebCrawl`: in browser mode routes are visited again under every page that is not the
  seed (`webdocs.go:307`), so `CrawlIsComplete` is about static and automatic crawls. The
  ids of all elements of a page are keys of its first section before the headings of the
  later ones are (`sync.go:1095-1103`): a link to the id of a paragraph becomes an edge to
  the first section, even where a later heading has that name (`Named`). Only the headings'
  own ids lead to their sections. No site of the run has a `<base>` or a seed at the root,
  which only routes of the browser mode depend on.
* `References`: a path is tried from the root first; a link to nothing falls back to its
  own document; a number matches all of its subsections. The groups of the pattern for bare
  numbers (`explicit_references.go:51`) are read one too early (`274-288`): the blank or
  bracket before the number is kept as its number and the number as its title, and the words
  are dropped. Such a reference is therefore never looked up by its number: `1.2` is compared
  with titles as `2`, what is left of it without a leading number (`RawReference`,
  `ReferenceTitle`), and `MeansSection` promises nothing of it. Two links in HTML with one
  label and one target are one reference (`AddReference`).

### Run

* `algorithms` (626 293 states): a behaviour is one call of one of these, one search, or what
  two reviewers do to the relations in four calls. Files of up to four Markdown lines of nine
  kinds or three fragments of HTML; every block of the chunker alone and followed by
  every other, under budgets below and about their size; sites of five pages of which some
  do not answer; two references that may overlap among three documents; three documents of
  which one is removed. Two blocks are enough for a chunk to span a boundary and for an
  overlap to meet it; three pages for two ways to one; two reviewers for a race. For the
  search: queries of both routes with and without relations, vectors, exact terms and limits
  on media; stores of four sections, two of them of one document, so that caps and merging
  matter; chunks of sections that went or changed; a stale mark, a deletion, or a
  new text with other media committed before any of the 22 stages, between the statements of one, or never.

The invariants are `PagesAreWhole`, `ChunksAreWhole`, `BlocksAreKept`, `HitsAreCurrent`,
`CrawlIsComplete`, `ReferencesFindTheirTarget` and `DecisionsStand`. A call that has
returned stops: deadlock is not checked.

## Where code and documents disagree

1. `queue_restart`. "Server restart does not lose queued jobs"
   (`docs/docgraph-acceptance.md:460`). A stop between a cancel request and its
   finalizer leaves the row `canceling`; the claim query counts it as in progress
   (`sqlite.go:4136`), and no code takes it out. Queued embedding jobs of the same
   source are never claimed.
2. `pipeline_retry`. "Failed sync jobs can be retried"
   (`docs/docgraph-acceptance.md:457`). The new hash is committed
   (`sync.go:653`) before the entities (`sync.go:656`); the retry sees an unchanged
   document and never writes them.
3. `blobs_processes`. The comment of `CollectGarbage` (`store.go:223`) asks callers
   to serialize collections across processes. No caller does: a command line sync
   may find an old object present, and the server's collector may remove it before
   the commit.

Seen while modelling, without a run of their own: nodes and edges of sections that are
gone stay (`docs/docgraph-acceptance.md:231` says derived graph data are updated), and
a handler that outlives its lease is run a second time beside itself (`jobs.go:221`).

## Theorems

All are proved for every value of the constants, from the assumptions named in the
component modules (bounds are naturals, null values are not members, the contents
of different documents have different section ids) and nothing else.

**JobQueue.** `TypeCorrect`. Then the proof forgets the actions: `NextIsTableStep`
shows that every step changes at most one row, in one of five ways (inserted,
claimed, closed, expired, canceling). `RowsStep` shows that such a change keeps
`RowsInv`: the two properties and `LeaseOfExecution` (only an execution holds a
lease), without which a held lease would not be seen by the claim query. This
gives `LeasesExclude` and `SyncIsUnique`; `CancellationStands` and `EndedForGood`
follow from the same five ways.

`WorkExcludes` and `CanceledIsStopped` assume `~ LeaseOverrun` and `Clis = {}`; both
are needed: the claim query looks at the lease, not at the goroutine. The strengthening
is `LeasedWork`: a goroutine with a job either holds the unexpired lease of it in its
own name, or has ended it and works on it no more. Exclusion of leases then gives
exclusion of work.

`QueueImplementsLifecycle` (same assumptions) is the refinement:
status and scope of a job are read off its row (`StatusBar`, `ScopeBar`), and a hand works
on what its goroutine is busy with (`DoingBar`). A claim begins a job because whoever is
busy with one owns its lease, which the claim query respects; a cancellation is final only
where no hand works because of the owner that `LeasedWork` gives; every other step of the
queue is a step of the life cycle, or none.

`EnsureWaitsOnce` assumes, besides, no failed store call and `MaxCrashes = 0`: after one
crash TLC finds a pass that is run again and defers a second time, so that two retries
wait. `RetryInv` relates the table to the goroutines: every execution in progress is in
the hands of one (`InHand`), it leaves only when its job is over (`Stopping`), a request
signals only what it has canceled (`Signals`), and of two overlapping ensure jobs that are
active one waits while the other leaves (`OneRetry`).

**SyncPipeline.** `TypeCorrect`, `HashIsTruthful` and `DescriptionsSurvive`, for any
number of documents, contents and overlapping syncs. The type invariant includes
that entities belong to stored sections and is not inductive alone: a sync writes
what it remembers. `PipelineInv` adds `Grounded`: each sync's document is among
those it found, with a hash that document can have, and what it is about to delete
it did not find.

`LoneSyncsRepair` and `CleanSyncsDerive` say what the end of a sync leaves, and hence need
to know how far it is. `IndexInv` adds that profiles and memberships go with the document's
row (`RowsCarry`), that a sync links only sections of the content it loaded (`LinksWanted`),
and `LoneInv`, the progress of a sync that has been alone since it loaded: no other writer
runs (`Apart`), what it has passed has the hash and the sections it found (`Written`),
has its row and profile (`HasRow`), what it did not find is gone (`Cleared`), what it has
drawn is drawn (`Drawn`), and of the document in hand all but the rest (`UnderWay`).
That nothing at all is left of a document not found needs three more, about every sync and
not only the lone one: a document that a sync found and is past writing has its row, or was
deleted meanwhile (`StoredInv`); hence a node without a row is of a document whose
deletion was crossed (`OwnedInv`); and an edge has both its ends (`EndsInv`).
`CleanInv` adds, while nothing ever failed or overlapped, that every section has its
entities (`Full`) but those that the sync in hand is about to write: the one thing that a lone
sync does *not* repair (`pipeline_retry`), so it needs history and not only solitude.

**BlobGC.** `TypeCorrect`, and `NothingReferencedIsCollected` under `OneHome` (all
actors share a process; `blobs_processes` shows that it is needed). `StoreInv` is
the property with three parts: `Exclusion` (nobody updates references while a
collection walks), `Covered` (what a sync has put so far is there) and `Doomed`
(what a collection is about to remove is not referred to). Actions that touch none
of the three are disposed of by one lemma, `Quiet`.

**GraphMemberships.** `TypeCorrect` (with all foreign keys), `EdgesFollowAlways`,
`NodesFollowAlways` and `GoneTakes`, for all sources, documents, graphs, texts and
bundles. The actions are compositions, and so is the proof. `Good` says of any content
of the database that types, foreign keys, ids (`Sound`) and the rows of nodes are
right; `ExactBut(g, es)` that the rows of all edges but `es` are. Each operator has a
lemma of its effect, and one that it keeps `Good` and turns one `ExactBut` into
another: deleting sections makes the edges they prove inexact, refreshing edges makes
them exact. An action is right because what an early step leaves inexact is among what
a later one refreshes. `Sound` is needed because a workbook's nodes are deleted by owner
and everything else by metadata: ids make the two agree.

**KnowledgeRelations.** `DecisionsAlwaysStand`, for every number of reviewers, documents,
calls and removals, from no assumption. The strengthening `IInv` says that ids are used
once, that the ends of a proposal are stored, that each relation is derived from an
approved proposal and each approved proposal has exactly one; and, of the calls under
way, that one about to tell a decision has found the proposal settled
(`StageHolds`, `AnswerHolds`). A settled proposal never changes again, so a step that
adds rows or decides a pending one contradicts nobody (`CallsSurvive`); the cascades
of a removed document take a proposal and its relation together because the relation
has the proposal's ends.

**Scheduling.** `TypeCorrect`, `SuccessAlwaysActivates`, `PausesSurvive` and
`SyncsKeepTheirDistance`, for every number of sources, credentials, runs, requests,
edits and faults, every set of intervals and every zone. The scheduler, the runs and the
requests all act on what they read earlier, so no property is inductive by itself. The
strengthening `Inv` adds to the types that a latest job is no older than the last
insertion (`JobsHold`); that a listed schedule is still the source's or the source was
not inserted for `MaxAge`, and that what is due has kept its distance (`PassHolds`); and
that a run that found its source active still sees it active, unless another run paused
it (`RunsHold`).

**Embedding.** `EmbedInvHolds`, `AuditsAreExact`, `LonePassesComplete` and
`LonePassesKeepCovered`, for every number of sections, contents, passes, edits and faults,
every size of pages, batches and the model's window, overlapping passes included. `EmbedInv`
says what may be stored (leftovers, expected chunks, their halves) and that a pass's stack
holds no chunk twice and only pieces, or chunks too deep for the column (`Tidy`).
`ReadyIsCovered` is the heart of the audit: the comparison of the code (each expected chunk has
its stand-ins, and nothing else is active) says that the tokens stored for each chunk
amount to those wanted. That is so because what is stored are pieces: chunks cut in any
other way could add up to the same. `LoneInv` is about passes that nothing
has disturbed: each section it has listed is unread, to be deleted and redone, or kept but
for what still waits in the stack; pages by rank leave no gap while no section comes or goes;
the sweep leaves no orphan. A pass that gave nothing up and has an empty stack then has
covered all.

Batches, concatenations and sums are folds. Their facts (`Batches` cut a list into
non-empty pieces and lose nothing, a concatenation holds what its parts hold, a sum over
at most two is that sum) are proved by a least counterexample: the natural numbers are
well-founded, and a fold's value at a number is given by its value one below. The library's
induction theorems take an operator as a parameter and cannot be used here.

**Search.** `SearchesAreCurrent`, for every query, store and place of a commit among the
statements of the search.
`QueriesAssumption` is what the server makes of the options (`Limit` and the cap of a
document are positive); `CommitsAssumption` says that stored sections have keys, and that a
section keeps its document (its id is derived from the document's). `ScaleAssumption` makes
shares of the first `RRFK + 1` ranks integers; the code has fractions, and without it
rounding could tie what the code tells apart. A search folds over its attempts, chunks,
hits, relations and media. A fold is a function on sets of positions: `SetRecursion` gives
it by recursion on the greatest position, and each fold's steps follow. What a step keeps
then holds of the whole: after the attempts the hits are of stored sections and no two of
one (`HitSets`), the limits and the cap cut them to `Rankings`, both lanes together are
`Fused`, and relations add only what is not there (`Grown`). Media are differences of
prefix sums, which grow and never exceed the limit; the totals are of the store before or
after the commit, the rows of the same one unless it falls between the two. Agreement is
arithmetic: two shares of the last rank that counts (`RRFK + 1`) exceed one of the first. A
failed search is traced to a stored entity that is stale or gone, or to a look-up of a
literal that the commit interrupts (`Excused`).

**References.** `ReferencesAreFound`, for every store and hits (`CatalogsAssumption`:
documents and sections have keys, each section a document and a heading, and patterns match
finitely often) whose documents have different paths and URLs. It speaks of links, of titles
and of numbers after a section sign or the word: bare numbers are never looked up. Each
reference is a match with what it resolves to, by the steps of the fold. A link that means
a section leads to its document: by URL it is the only one; by path the second of the three
keys tried is its own, and the first is unknown or its own too. A document found, its
title is among the anchors; a number is the last of its headings; and the words of a title
are what follows a number however much of the number is left.

Only model-checked:

* The liveness properties `QueuedIsServed`, `CancelSettles`, `GarbageIsCollected`,
  `EveryRunEnds`, `RefusedIsPaused`, `ScheduledIsServed` and `EmbeddedUnlessStranded`: they
  need fairness, which is outside the prover's reach.
* The promises of the other algorithms, `PagesAreWhole`, `ChunksAreWhole`, `BlocksAreKept`,
  and `CrawlIsComplete`. `Pages` uses recursive operators, which cost the prover its
  arithmetic. `Chunker` and `WebCrawl` use folds, which the technique of `SearchProofs`
  reaches, and sorting by a library operator that the prover does not expand; they are next.

## Plan

In order:

1. Proofs about `WebCrawl` and the lemmas of `Chunker`, with the folds of `SearchProofs`.
2. `Embedding` composed with the ensure jobs of `JobQueue` and the sections of
   `SyncPipeline`, in place of its own small copies of both.
3. The table of SSE and streamable sessions of `mcp/`, and the probing of
   `embedding/limits.go`.

## Not modelled

The fetching half of the connectors, the embedding client's HTTP, browsers and git are
I/O: they appear as inputs and failures of what calls them. The XMind parser, profiles,
technical extraction and the tokenizer are heuristics on characters; a model of them
would be their transliteration. Configuration is read once, migrations run before
anything else, the web interface presents. The query service assembles what `Search`
finds. Sessions of the MCP transports are in memory, one goroutine each.
