---------------------------- MODULE SyncPipeline ----------------------------
(***************************************************************************)
(* One source's synchronisation: what internal/sync writes, in which order *)
(* and in which transactions, for the connectors that load a list of       *)
(* documents (local, git, sftp, static, html, web, confluence, openapi).   *)
(*                                                                         *)
(* A sync loads the documents, then document by document plans, replaces   *)
(* the sections, rewrites the entities and the profile, then deletes the   *)
(* documents it did not find, then redraws the graph.  Every store call is *)
(* a transaction of its own: a sync may fail, be canceled or be killed     *)
(* between any two, and nothing is rolled back.  The job queue keeps the   *)
(* syncs of a source apart only as long as their leases last, so two may   *)
(* overlap; `docgraph backfill` and API clients write beside them.         *)
(*                                                                         *)
(* Contents are content hashes; the sections of a content are a set of     *)
(* section ids (an id is derived from the document, the ordinal and the    *)
(* text, so an unchanged section keeps its id).  Every section is taken to *)
(* hold at least one technical entity.                                     *)
(***************************************************************************)
EXTENDS Naturals, FiniteSets

CONSTANTS
    Docs,       \* the source's documents, by external id
    Content,    \* per document: its possible content hashes, each with its section ids
    None,       \* no document, no hash
    Procs,      \* sync runs that may be under way at once
    MaxEdits,   \* bound: edits of the origin
    MaxFaults   \* bound: store calls that fail, syncs that are canceled or killed

Hashes(d)   == DOMAIN Content[d]
OfDoc(d)    == UNION {Content[d][h] : h \in Hashes(d)}
AllHashes   == UNION {Hashes(d) : d \in Docs}
AllSections == UNION {OfDoc(d) : d \in Docs}

ASSUME ContentAssumption ==
    /\ None \notin Docs \cup AllHashes \cup AllSections
    /\ Docs \cap AllSections = {}
    /\ \A d \in Docs : \A h \in Hashes(d) : Content[d][h] # {}
    /\ \A d, e \in Docs : d # e => OfDoc(d) \cap OfDoc(e) = {}

ASSUME BoundsAssumption == MaxEdits \in Nat /\ MaxFaults \in Nat

VARIABLES
    origin,     \* what the source holds now: a hash per document, or None
    documents,  \* documents.content_hash, or None when there is no row
    sections,   \* the section rows
    entities,   \* the sections whose section_entities rows are there
    profiles,   \* document_profiles: the hash it was built from, whether it was
                \* built from all the entities, whether a person described it
    nodes,      \* graph nodes of documents and sections
    owned,      \* the nodes with a document_nodes row
    edges,      \* per section: its edge from the document, with or without evidence
    mentions,   \* the sections whose API edges were drawn from their entities
    sync,       \* the sync runs
    backfill,   \* `docgraph backfill`: the document and the sections it read
    clean,      \* history: no sync ever failed or overlapped another writer
    crossed,    \* history: the documents deleted while a sync that found them ran
    edits,
    faults

store == <<documents, sections, entities, profiles, nodes, owned, edges, mentions>>
graph == <<nodes, owned, edges, mentions>>
vars  == <<origin, store, sync, backfill, clean, crossed, edits, faults>>

-----------------------------------------------------------------------------

NoProfile == [hash |-> None, full |-> FALSE, desc |-> FALSE]

Idle == [pc |-> "idle", found |-> [d \in Docs |-> None], todo |-> {}, doc |-> None,
         known |-> {}, rest |-> {}, section |-> None, alone |-> FALSE]

NoBackfill == [doc |-> None, read |-> {}]

Running(p) == sync[p].pc # "idle"

At(p, pc) == sync[p].pc = pc

Present(found) == {d \in Docs : found[d] # None}

(* The document p works on, and the sections it loaded for it. *)
Doc(p) == sync[p].doc

Wanted(p) == Content[Doc(p)][sync[p].found[Doc(p)]]

Step(p, pc) == sync' = [sync EXCEPT ![p].pc = pc]

(* The loop over the documents goes on, or ends. *)
NextDoc(p) ==
    sync' = [sync EXCEPT ![p] = [@ EXCEPT !.pc = IF sync[p].todo = {} THEN "stale" ELSE "plan",
                                          !.doc = None, !.known = {}]]

-----------------------------------------------------------------------------
(* Loading and planning *)

(* The connector loads all documents first; a load that fails changes nothing. *)
Fetch(p) ==
    LET alone == backfill = NoBackfill /\ \A q \in Procs : ~ Running(q) IN
    /\ At(p, "idle")
    /\ sync' = [q \in Procs |->
          IF q = p THEN [Idle EXCEPT !.pc = IF Present(origin) = {} THEN "stale" ELSE "plan",
                                     !.found = origin, !.todo = Present(origin),
                                     !.alone = alone]
                   ELSE [sync[q] EXCEPT !.alone = FALSE]]
    /\ clean' = (clean /\ alone)
    /\ UNCHANGED <<origin, store, backfill, crossed, edits, faults>>

(* A mutated form: a document whose profile is current is taken for unchanged. *)
ChangedByProfile(d, hash) == profiles[d].hash # hash

(* planDocumentSync: no row, or a row with another hash. *)
Changed(d, hash) == documents[d] # hash

PlanDocument(p) ==
    /\ At(p, "plan")
    /\ \E d \in sync[p].todo :
          sync' = [sync EXCEPT ![p].doc = d, ![p].todo = @ \ {d},
                     ![p].pc = IF Changed(d, sync[p].found[d]) THEN "replace" ELSE "check"]
    /\ UNCHANGED <<origin, store, backfill, clean, crossed, edits, faults>>

(* The rest of planDocumentSync for an unchanged document: the profile only. *)
PlanProfile(p) ==
    /\ At(p, "check")
    /\ IF profiles[Doc(p)].hash = sync[p].found[Doc(p)] THEN NextDoc(p) ELSE Step(p, "profile")
    /\ UNCHANGED <<origin, store, backfill, clean, crossed, edits, faults>>

-----------------------------------------------------------------------------
(* Writing a document *)

(* Edges whose evidence is among these sections lose it: on delete set null. *)
Bared(gone) ==
    [s \in AllSections |-> IF s \in gone /\ edges[s] = "backed" THEN "bare" ELSE edges[s]]

(* Mutated forms: the document row is deleted and inserted again, and takes its
   profile with it; the rows of the old content are left; the profile is built
   first and the entities are forgotten. *)
ReplaceDocumentByDeleting(p) ==
    /\ At(p, "replace")
    /\ documents' = [documents EXCEPT ![Doc(p)] = sync[p].found[Doc(p)]]
    /\ sections' = (sections \ OfDoc(Doc(p))) \cup Wanted(p)
    /\ entities' = entities \ OfDoc(Doc(p))
    /\ edges' = Bared(OfDoc(Doc(p)))
    /\ profiles' = [profiles EXCEPT ![Doc(p)] = NoProfile]
    /\ Step(p, "entities")
    /\ UNCHANGED <<origin, nodes, owned, mentions, backfill, clean, crossed, edits, faults>>

ReplaceDocumentKeepingSections(p) ==
    /\ At(p, "replace")
    /\ documents' = [documents EXCEPT ![Doc(p)] = sync[p].found[Doc(p)]]
    /\ sections' = sections \cup Wanted(p)
    /\ Step(p, "entities")
    /\ UNCHANGED <<origin, entities, profiles, graph, backfill, clean, crossed, edits, faults>>

ReplaceDocumentThenProfile(p) ==
    /\ At(p, "replace")
    /\ documents' = [documents EXCEPT ![Doc(p)] = sync[p].found[Doc(p)]]
    /\ sections' = (sections \ OfDoc(Doc(p))) \cup Wanted(p)
    /\ entities' = entities \ OfDoc(Doc(p))
    /\ edges' = Bared(OfDoc(Doc(p)))
    /\ Step(p, "profile")
    /\ UNCHANGED <<origin, profiles, nodes, owned, mentions,
                   backfill, clean, crossed, edits, faults>>

(* One transaction: the row with its new hash, the old sections out, the new ones
   in.  Entities go with the sections; profile and graph stay as they are. *)
ReplaceDocument(p) ==
    /\ At(p, "replace")
    /\ documents' = [documents EXCEPT ![Doc(p)] = sync[p].found[Doc(p)]]
    /\ sections' = (sections \ OfDoc(Doc(p))) \cup Wanted(p)
    /\ entities' = entities \ OfDoc(Doc(p))
    /\ edges' = Bared(OfDoc(Doc(p)))
    /\ Step(p, "entities")
    /\ UNCHANGED <<origin, profiles, nodes, owned, mentions,
                   backfill, clean, crossed, edits, faults>>

(* A mutated form: the sections are not looked up. *)
StorableUnchecked(d, secs) == documents[d] # None

(* ReplaceSectionEntities refuses an entity of a section that is not there. *)
Storable(d, secs) == documents[d] # None /\ secs \subseteq sections

ReplaceSectionEntities(p) ==
    /\ At(p, "entities")
    /\ Storable(Doc(p), Wanted(p))
    /\ entities' = (entities \ OfDoc(Doc(p))) \cup Wanted(p)
    /\ Step(p, "profile")
    /\ UNCHANGED <<origin, documents, sections, profiles, graph,
                   backfill, clean, crossed, edits, faults>>

(* syncDocumentProfile looks again at the profile, then reads the entities. *)
ReadEntities(p) ==
    /\ At(p, "profile")
    /\ IF profiles[Doc(p)].hash = sync[p].found[Doc(p)]
         THEN NextDoc(p)
         ELSE sync' = [sync EXCEPT ![p].pc = "upsert", ![p].known = entities \cap OfDoc(Doc(p))]
    /\ UNCHANGED <<origin, store, backfill, clean, crossed, edits, faults>>

(* The generated part of the profile is replaced, the description kept. *)
UpsertProfile(p) ==
    /\ At(p, "upsert")
    /\ documents[Doc(p)] # None
    /\ profiles' = [profiles EXCEPT ![Doc(p)] =
                      [@ EXCEPT !.hash = sync[p].found[Doc(p)],
                                !.full = sync[p].known = Wanted(p)]]
    /\ NextDoc(p)
    /\ UNCHANGED <<origin, documents, sections, entities, graph,
                   backfill, clean, crossed, edits, faults>>

-----------------------------------------------------------------------------
(* Deleting what was not found *)

(* staleDocumentIDs, read before the deleting transaction begins. *)
Stale(p) == {d \in Docs : documents[d] # None /\ sync[p].found[d] = None}

ListStale(p) ==
    /\ At(p, "stale")
    /\ sync' = [sync EXCEPT ![p].todo = Stale(p), ![p].pc = "delete"]
    /\ UNCHANGED <<origin, store, backfill, clean, crossed, edits, faults>>

(* A sync that found the document is under way, and will draw it. *)
Awaited(d) == \E q \in Procs : Running(q) /\ sync[q].found[d] # None

(* One transaction: nodes with a membership in a stale document go, edges with
   them; rows hanging on the document go by cascade. *)
DeleteStale(p) ==
    LET docs == sync[p].todo
        secs == UNION {OfDoc(d) : d \in docs}
        gone == owned \cap (docs \cup secs)
        kept(s) == \A d \in Docs : s \in OfDoc(d) => {d, s} \cap gone = {} IN
    /\ At(p, "delete")
    /\ documents' = [d \in Docs |-> IF d \in docs THEN None ELSE documents[d]]
    /\ sections' = sections \ secs
    /\ entities' = entities \ secs
    /\ profiles' = [d \in Docs |-> IF d \in docs THEN NoProfile ELSE profiles[d]]
    /\ nodes' = nodes \ gone
    /\ owned' = owned \ gone
    /\ edges' = [s \in AllSections |-> IF kept(s) THEN Bared(secs)[s] ELSE "none"]
    /\ mentions' = mentions \ gone
    /\ sync' = [sync EXCEPT ![p].todo = Present(sync[p].found),
                            ![p].pc = IF Present(sync[p].found) = {} THEN "finish" ELSE "graph"]
    /\ crossed' = crossed \cup {d \in docs : Awaited(d)}
    /\ UNCHANGED <<origin, backfill, clean, edits, faults>>

-----------------------------------------------------------------------------
(* Redrawing the graph: of every document found, changed or not *)

(* A node upsert recomputes the node's memberships; a document without a row
   gives none. *)
UpsertNode(n, d) ==
    /\ nodes' = nodes \cup {n}
    /\ owned' = IF documents[d] # None THEN owned \cup {n} ELSE owned \ {n}

GraphDocument(p) ==
    /\ At(p, "graph")
    /\ \E d \in sync[p].todo :
          /\ UpsertNode(d, d)
          /\ sync' = [sync EXCEPT ![p].doc = d, ![p].todo = @ \ {d},
                                  ![p].known = entities \cap OfDoc(d),
                                  ![p].rest = Content[d][sync[p].found[d]], ![p].pc = "node"]
    /\ UNCHANGED <<origin, documents, sections, entities, profiles, edges, mentions,
                   backfill, clean, crossed, edits, faults>>

GraphSection(p) ==
    /\ At(p, "node")
    /\ \E s \in sync[p].rest :
          /\ UpsertNode(s, Doc(p))
          /\ sync' = [sync EXCEPT ![p].section = s, ![p].rest = @ \ {s}, ![p].pc = "edge"]
    /\ UNCHANGED <<origin, documents, sections, entities, profiles, edges, mentions,
                   backfill, clean, crossed, edits, faults>>

(* Foreign keys: both nodes, and the section that is the evidence, must exist. *)
Linkable(p) == {Doc(p), sync[p].section} \subseteq nodes /\ sync[p].section \in sections

GraphEdge(p) ==
    /\ At(p, "edge")
    /\ Linkable(p)
    /\ edges' = [edges EXCEPT ![sync[p].section] = "backed"]
    /\ Step(p, "mentions")
    /\ UNCHANGED <<origin, documents, sections, entities, profiles, nodes, owned, mentions,
                   backfill, clean, crossed, edits, faults>>

(* API nodes and edges from the entities; without any, from a pattern that finds
   fewer.  Edges are added, never removed. *)
GraphMentions(p) ==
    LET s == sync[p].section IN
    /\ At(p, "mentions")
    /\ Linkable(p)
    /\ mentions' = IF s \in sync[p].known THEN mentions \cup {s} ELSE mentions
    /\ IF sync[p].rest # {}
         THEN Step(p, "node")
         ELSE sync' = [sync EXCEPT ![p] =
                [@ EXCEPT !.pc = IF sync[p].todo # {} THEN "graph" ELSE "finish",
                          !.doc = None, !.known = {}, !.section = None]]
    /\ UNCHANGED <<origin, documents, sections, entities, profiles, nodes, owned, edges,
                   backfill, clean, crossed, edits, faults>>

(* The sync returns and its job is completed. *)
Finish(p) ==
    /\ At(p, "finish")
    /\ sync' = [sync EXCEPT ![p] = Idle]
    /\ UNCHANGED <<origin, store, backfill, clean, crossed, edits, faults>>

(* The next store call is refused because another writer got in between. *)
Refused(p) ==
    \/ At(p, "entities") /\ ~ Storable(Doc(p), Wanted(p))
    \/ At(p, "upsert") /\ documents[Doc(p)] = None
    \/ sync[p].pc \in {"edge", "mentions"} /\ ~ Linkable(p)

(* Any error ends the whole sync; so do a cancellation and a kill. *)
Fail(p) ==
    /\ sync[p].pc \notin {"idle", "finish"}
    /\ \/ Refused(p) /\ faults' = faults
       \/ faults < MaxFaults /\ faults' = faults + 1
    /\ sync' = [sync EXCEPT ![p] = Idle]
    /\ clean' = FALSE
    /\ UNCHANGED <<origin, store, backfill, crossed, edits>>

-----------------------------------------------------------------------------
(* The other writers *)

(* The source's author edits, adds or removes a document. *)
Edit(d, h) ==
    /\ edits < MaxEdits
    /\ origin[d] # h
    /\ origin' = [origin EXCEPT ![d] = h]
    /\ edits' = edits + 1
    /\ UNCHANGED <<store, sync, backfill, clean, crossed, faults>>

(* UpdateDocumentProfileDesc *)
Describe(d) ==
    /\ documents[d] # None
    /\ profiles' = [profiles EXCEPT ![d].desc = TRUE]
    /\ UNCHANGED <<origin, documents, sections, entities, graph, sync,
                   backfill, clean, crossed, edits, faults>>

(* backfillDocumentSectionEntities reads a document's sections, from another
   process, and then rewrites its entities. *)
BackfillRead(d) ==
    /\ backfill = NoBackfill
    /\ documents[d] # None
    /\ backfill' = [doc |-> d, read |-> sections \cap OfDoc(d)]
    /\ sync' = [p \in Procs |-> [sync[p] EXCEPT !.alone = FALSE]]
    /\ clean' = (clean /\ \A p \in Procs : ~ Running(p))
    /\ UNCHANGED <<origin, store, crossed, edits, faults>>

BackfillWrite ==
    /\ backfill # NoBackfill
    /\ entities' = IF Storable(backfill.doc, backfill.read)
                     THEN (entities \ OfDoc(backfill.doc)) \cup backfill.read
                     ELSE entities
    /\ backfill' = NoBackfill
    /\ UNCHANGED <<origin, documents, sections, profiles, graph, sync,
                   clean, crossed, edits, faults>>

-----------------------------------------------------------------------------

Init ==
    /\ origin \in [Docs -> AllHashes \cup {None}]
    /\ \A d \in Docs : origin[d] \in Hashes(d) \cup {None}
    /\ documents = [d \in Docs |-> None]
    /\ sections = {}
    /\ entities = {}
    /\ profiles = [d \in Docs |-> NoProfile]
    /\ nodes = {}
    /\ owned = {}
    /\ edges = [s \in AllSections |-> "none"]
    /\ mentions = {}
    /\ sync = [p \in Procs |-> Idle]
    /\ backfill = NoBackfill
    /\ clean = TRUE
    /\ crossed = {}
    /\ edits = 0
    /\ faults = 0

WriteDocument(p) ==
    \/ PlanDocument(p)
    \/ PlanProfile(p)
    \/ ReplaceDocument(p)
    \/ ReplaceSectionEntities(p)
    \/ ReadEntities(p)
    \/ UpsertProfile(p)

DrawGraph(p) ==
    \/ GraphDocument(p)
    \/ GraphSection(p)
    \/ GraphEdge(p)
    \/ GraphMentions(p)

SyncStep(p) ==
    \/ Fetch(p)
    \/ WriteDocument(p)
    \/ ListStale(p)
    \/ DeleteStale(p)
    \/ DrawGraph(p)
    \/ Finish(p)
    \/ Fail(p)

Next ==
    \/ \E p \in Procs : SyncStep(p)
    \/ \E d \in Docs : \E h \in Hashes(d) \cup {None} : Edit(d, h)
    \/ \E d \in Docs : Describe(d) \/ BackfillRead(d)
    \/ BackfillWrite

Spec == Init /\ [][Next]_vars

-----------------------------------------------------------------------------
(* Properties *)

SyncRun == [pc: {"idle", "plan", "check", "replace", "entities", "profile", "upsert", "stale",
                 "delete", "graph", "node", "edge", "mentions", "finish"},
            found: [Docs -> AllHashes \cup {None}], todo: SUBSET Docs, doc: Docs \cup {None},
            known: SUBSET AllSections, rest: SUBSET AllSections,
            section: AllSections \cup {None}, alone: BOOLEAN]

TypeOK ==
    /\ origin \in [Docs -> AllHashes \cup {None}]
    /\ documents \in [Docs -> AllHashes \cup {None}]
    /\ sections \subseteq AllSections
    /\ entities \subseteq sections
    /\ profiles \in [Docs -> [hash: AllHashes \cup {None}, full: BOOLEAN, desc: BOOLEAN]]
    /\ owned \subseteq nodes /\ nodes \subseteq Docs \cup AllSections
    /\ edges \in [AllSections -> {"none", "bare", "backed"}]
    /\ mentions \subseteq nodes
    /\ sync \in [Procs -> SyncRun]
    /\ backfill \in [doc: Docs \cup {None}, read: SUBSET AllSections]
    /\ clean \in BOOLEAN
    /\ crossed \subseteq Docs
    /\ edits \in 0 .. MaxEdits
    /\ faults \in 0 .. MaxFaults

(* The rows of a document are those of the content its hash names, whichever
   syncs overlapped, failed or were killed: the hash is what later syncs trust. *)
HashTellsSections ==
    \A d \in Docs :
        sections \cap OfDoc(d) = IF documents[d] = None THEN {} ELSE Content[d][documents[d]]

(* Nothing in the graph is of this document, a node without a row included. *)
Erased(d) ==
    /\ nodes \cap ({d} \cup OfDoc(d)) = {}
    /\ \A s \in OfDoc(d) : edges[s] = "none"

(* What the sync promised when it loaded the source: every document found is
   there with its sections, a current profile and a graph whose edges have their
   evidence; of the others no row is left, nor anything in the graph.  The one
   exception: when a document was once deleted while another sync that had found
   it ran, that sync may draw it again, with nodes that belong to no document,
   and no later sync removes those.  (Nodes of sections a document found no
   longer has stay in the graph: only its deletion removes them.) *)
Indexed(p) ==
    \A d \in Docs :
        /\ documents[d] = sync[p].found[d]
        /\ IF documents[d] = None
             THEN /\ profiles[d] = NoProfile
                  /\ owned \cap ({d} \cup OfDoc(d)) = {}
                  /\ d \notin crossed => Erased(d)
             ELSE /\ profiles[d].hash = documents[d]
                  /\ {d} \cup Content[d][documents[d]] \subseteq owned
                  /\ \A s \in Content[d][documents[d]] : edges[s] = "backed"

(* A sync that no other writer overlapped repairs the index, whatever wreckage
   earlier syncs left: failed half way, killed, or interleaved with each other;
   all but what syncs drew of a document another one had just deleted. *)
LoneSyncIndexes == \A p \in Procs : At(p, "finish") /\ sync[p].alone => Indexed(p)

(* What is derived from the text of the documents found is all there. *)
Derived(p) ==
    \A d \in Present(sync[p].found) :
        /\ Content[d][sync[p].found[d]] \subseteq entities \cap mentions
        /\ profiles[d].full

(* As long as no sync ever failed or overlapped another writer, entities, API
   edges and profiles follow the text, through any sequence of edits. *)
CleanSyncDerives == \A p \in Procs : clean /\ At(p, "finish") => Derived(p)

(* A description a person wrote survives every sync, even those that fail or
   overlap, unless the document was missing from what the sync loaded. *)
DescriptionKept ==
    [][\A d \in Docs : profiles[d].desc /\ ~ profiles'[d].desc =>
          \E p \in Procs : At(p, "delete") /\ sync[p].found[d] = None]_vars

(* "Failed sync jobs can be retried": a later sync that succeeds, alone, leaves
   what the failed one would have left. *)
RetryDerives == \A p \in Procs : At(p, "finish") /\ sync[p].alone => Derived(p)

=============================================================================
