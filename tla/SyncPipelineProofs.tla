------------------------- MODULE SyncPipelineProofs -------------------------
(***************************************************************************)
(* Theorems about SyncPipeline, for every set of documents and contents,   *)
(* every number of syncs that overlap, and any number of edits and faults: *)
(* the type invariant, that the stored hash names the stored sections,     *)
(* that descriptions survive, that a sync no other writer overlaps repairs *)
(* the index, and that clean syncs derive all that the text holds.         *)
(*                                                                         *)
(* The strengthening has three layers.  PipelineInv says of every sync     *)
(* that it works on documents it loaded, with hashes these documents can   *)
(* have.  IndexInv adds what hangs on a document's row, and how far a lone *)
(* sync has come.  CleanInv adds, while nothing failed or overlapped, what *)
(* is derived from the text.                                               *)
(***************************************************************************)
EXTENDS SyncPipeline, TLAPS

LEMMA ContentFacts ==
  ASSUME NEW d \in Docs
  PROVE  /\ OfDoc(d) \subseteq AllSections
         /\ \A h \in Hashes(d) : Content[d][h] \subseteq OfDoc(d) /\ h \in AllHashes /\ h # None
         /\ \A e \in Docs : d # e => OfDoc(d) \cap OfDoc(e) = {}
  BY ContentAssumption DEF OfDoc, AllSections, AllHashes, Hashes

(* The hashes a document can have, or none. *)
Possible(d) == Hashes(d) \cup {None}

LEMMA PossibleTyped == \A d \in Docs : Possible(d) \subseteq AllHashes \cup {None}
  BY DEF Possible, AllHashes

-----------------------------------------------------------------------------
(* The strengthening *)

OnDocuments == {"plan", "check", "replace", "entities", "profile", "upsert",
                "graph", "node", "edge", "mentions"}

OnDocument == OnDocuments \ {"plan", "graph"}

Grounded(r) ==
    /\ r \in SyncRun
    /\ \A d \in Docs : r.found[d] \in Possible(d)
    /\ r.pc \in OnDocuments => r.todo \subseteq Present(r.found)
    /\ r.pc \in OnDocument => r.doc \in Present(r.found)
    /\ r.pc = "delete" => r.todo \cap Present(r.found) = {}

PipelineInv ==
    /\ TypeOK
    /\ \A d \in Docs : origin[d] \in Possible(d) /\ documents[d] \in Possible(d)
    /\ \A p \in Procs : Grounded(sync[p])

Profile == [hash: AllHashes \cup {None}, full: BOOLEAN, desc: BOOLEAN]

(* What is proved of a step of sync p. *)
LEMMA SyncGrounded ==
  ASSUME PipelineInv, NEW p \in Procs, NEW r, Grounded(r), sync' = [sync EXCEPT ![p] = r]
  PROVE  sync' \in [Procs -> SyncRun] /\ \A q \in Procs : Grounded(sync'[q])
<1>1. \A q \in Procs : sync'[q] = IF q = p THEN r ELSE sync[q]
  BY DEF PipelineInv, TypeOK
<1> QED BY <1>1 DEF PipelineInv, TypeOK, Grounded

(* The steps that only move the sync on. *)
LEMMA PlainStep ==
  ASSUME PipelineInv, NEW p \in Procs, NEW r, Grounded(r), sync' = [sync EXCEPT ![p] = r],
         UNCHANGED <<origin, store, backfill, crossed, edits>>, clean' \in BOOLEAN,
         faults' \in 0 .. MaxFaults
  PROVE  PipelineInv'
<1>1. sync' \in [Procs -> SyncRun] /\ \A q \in Procs : Grounded(sync'[q])
  BY SyncGrounded
<1> QED BY <1>1 DEF PipelineInv, TypeOK, store

LEMMA StepGrounded ==
  ASSUME PipelineInv, NEW p \in Procs, NEW pc,
         pc \in OnDocument,
         sync[p].pc \in OnDocument
  PROVE  /\ Grounded([sync[p] EXCEPT !.pc = pc])
         /\ Step(p, pc) => sync' = [sync EXCEPT ![p] = [sync[p] EXCEPT !.pc = pc]]
<1>1. Grounded(sync[p])
  BY DEF PipelineInv
<1>2. Grounded([sync[p] EXCEPT !.pc = pc])
  BY <1>1 DEF Grounded, SyncRun, OnDocuments, OnDocument
<1> QED BY <1>2 DEF Step, PipelineInv, TypeOK

LEMMA NextDocGrounded ==
  ASSUME PipelineInv, NEW p \in Procs, sync[p].pc \in OnDocument, NextDoc(p)
  PROVE  \E r : Grounded(r) /\ sync' = [sync EXCEPT ![p] = r]
<1> DEFINE r == [sync[p] EXCEPT !.pc = IF sync[p].todo = {} THEN "stale" ELSE "plan",
                                !.doc = None, !.known = {}]
<1>1. Grounded(sync[p])
  BY DEF PipelineInv
<1>2. Grounded(r)
  BY <1>1 DEF Grounded, SyncRun, OnDocuments, OnDocument
<1>3. sync' = [sync EXCEPT ![p] = r]
  BY DEF NextDoc, PipelineInv, TypeOK
<1> QED BY <1>2, <1>3

LEMMA IdleGrounded == Grounded(Idle)
  BY DEF Grounded, Idle, SyncRun, OnDocuments, OnDocument, Possible, Present

LEMMA AloneGrounded ==
  ASSUME NEW r, Grounded(r)
  PROVE  Grounded([r EXCEPT !.alone = FALSE])
  BY DEF Grounded, SyncRun, OnDocuments, OnDocument

LEMMA PipelineInit == Init => PipelineInv
<1> SUFFICES ASSUME Init PROVE PipelineInv
  OBVIOUS
<1>1. \A p \in Procs : Grounded(sync[p])
  BY IdleGrounded DEF Init
<1>2. sync \in [Procs -> SyncRun]
  BY <1>1 DEF Init, Grounded
<1>3. TypeOK
  BY <1>2, BoundsAssumption DEF Init, TypeOK, NoProfile, NoBackfill
<1> QED BY <1>1, <1>3 DEF Init, PipelineInv, Possible

-----------------------------------------------------------------------------
(* Every step keeps the strengthening *)

LEMMA FetchStep ==
  ASSUME PipelineInv, NEW p \in Procs, Fetch(p)
  PROVE  PipelineInv'
<1> DEFINE alone == backfill = NoBackfill /\ \A q \in Procs : ~ Running(q)
           r == [Idle EXCEPT !.pc = IF Present(origin) = {} THEN "stale" ELSE "plan",
                             !.found = origin, !.todo = Present(origin), !.alone = alone]
<1>1. alone \in BOOLEAN
  OBVIOUS
<1>2. sync' = [q \in Procs |-> IF q = p THEN r ELSE [sync[q] EXCEPT !.alone = FALSE]]
  BY Zenon DEF Fetch
<1>3. clean' = (clean /\ alone) /\ UNCHANGED <<origin, store, backfill, crossed, edits, faults>>
  BY Zenon DEF Fetch
<1> HIDE DEF alone
<1>4. Grounded(r)
  <2>1. origin \in [Docs -> AllHashes \cup {None}] /\ \A d \in Docs : origin[d] \in Possible(d)
    BY DEF PipelineInv, TypeOK
  <2>2. r \in SyncRun
    BY <1>1, <2>1 DEF Idle, SyncRun, Present
  <2> QED BY <2>1, <2>2 DEF Grounded, Idle, OnDocuments, OnDocument, Present
<1>5. \A q \in Procs : Grounded([sync[q] EXCEPT !.alone = FALSE])
  BY AloneGrounded DEF PipelineInv
<1> HIDE DEF r
<1>6. \A q \in Procs : Grounded(sync'[q])
  BY <1>2, <1>4, <1>5
<1>7. sync' \in [Procs -> SyncRun]
  BY <1>2, <1>4, <1>5 DEF Grounded
<1>8. clean' \in BOOLEAN
  BY <1>1, <1>3 DEF PipelineInv, TypeOK
<1> QED BY <1>3, <1>6, <1>7, <1>8 DEF PipelineInv, TypeOK, store

LEMMA PlanStep ==
  ASSUME PipelineInv, NEW p \in Procs, PlanDocument(p) \/ PlanProfile(p)
  PROVE  PipelineInv'
<1>1. CASE PlanDocument(p)
  <2>1. PICK d \in sync[p].todo :
          sync' = [sync EXCEPT ![p].doc = d, ![p].todo = @ \ {d},
                     ![p].pc = IF Changed(d, sync[p].found[d]) THEN "replace" ELSE "check"]
    BY <1>1 DEF PlanDocument
  <2> DEFINE r == [sync[p] EXCEPT !.doc = d, !.todo = @ \ {d},
                     !.pc = IF Changed(d, sync[p].found[d]) THEN "replace" ELSE "check"]
  <2>2. Grounded(sync[p]) /\ sync[p].pc = "plan"
    BY <1>1 DEF PlanDocument, PipelineInv, At
  <2>3. Grounded(r)
    BY <2>2 DEF Grounded, SyncRun, OnDocuments, OnDocument, Present
  <2>4. sync' = [sync EXCEPT ![p] = r]
    BY <2>1 DEF PipelineInv, TypeOK, SyncRun
  <2> QED BY <1>1, <2>3, <2>4, PlainStep DEF PlanDocument, PipelineInv, TypeOK
<1>2. CASE PlanProfile(p)
  <2>1. sync[p].pc \in OnDocument
    BY <1>2 DEF PlanProfile, At, OnDocument, OnDocuments
  <2>2. CASE NextDoc(p)
    <3>1. \E r : Grounded(r) /\ sync' = [sync EXCEPT ![p] = r]
      BY <2>1, <2>2, NextDocGrounded
    <3> QED BY <1>2, <3>1, PlainStep DEF PlanProfile, PipelineInv, TypeOK
  <2>3. CASE Step(p, "profile")
    <3>1. Grounded([sync[p] EXCEPT !.pc = "profile"])
          /\ sync' = [sync EXCEPT ![p] = [sync[p] EXCEPT !.pc = "profile"]]
      BY <2>1, <2>3, StepGrounded DEF OnDocument, OnDocuments
    <3> QED BY <1>2, <3>1, PlainStep DEF PlanProfile, PipelineInv, TypeOK
  <2> QED BY <1>2, <2>2, <2>3 DEF PlanProfile
<1> QED BY <1>1, <1>2

(* What the steps that write a document start from. *)
LEMMA WriterFacts ==
  ASSUME PipelineInv, NEW p \in Procs, sync[p].pc \in OnDocument
  PROVE  /\ Doc(p) \in Docs
         /\ sync[p].found[Doc(p)] \in Hashes(Doc(p))
         /\ Wanted(p) \subseteq OfDoc(Doc(p))
         /\ OfDoc(Doc(p)) \subseteq AllSections
<1>1. Doc(p) \in Docs /\ sync[p].found[Doc(p)] \in Possible(Doc(p)) \ {None}
  BY DEF PipelineInv, Grounded, Present, Doc
<1> QED BY <1>1, ContentFacts DEF Possible, Wanted

LEMMA WriteStep ==
  ASSUME PipelineInv, NEW p \in Procs,
         ReplaceDocument(p) \/ ReplaceSectionEntities(p) \/ ReadEntities(p) \/ UpsertProfile(p)
  PROVE  PipelineInv'
<1>1. sync[p].pc \in OnDocument
  BY DEF ReplaceDocument, ReplaceSectionEntities, ReadEntities, UpsertProfile, At, OnDocument,
         OnDocuments
<1>2. /\ Doc(p) \in Docs /\ sync[p].found[Doc(p)] \in Hashes(Doc(p))
      /\ Wanted(p) \subseteq OfDoc(Doc(p)) /\ OfDoc(Doc(p)) \subseteq AllSections
  BY <1>1, WriterFacts
<1>3. sync[p].found[Doc(p)] \in AllHashes
  BY <1>2, ContentFacts
<1>4. CASE ReplaceDocument(p)
  <2>1. sync' \in [Procs -> SyncRun] /\ \A q \in Procs : Grounded(sync'[q])
    BY <1>1, <1>4, StepGrounded, SyncGrounded DEF ReplaceDocument, OnDocument, OnDocuments
  <2>2. \A d \in Docs : documents'[d] \in Possible(d)
    BY <1>2, <1>4 DEF ReplaceDocument, PipelineInv, TypeOK, Possible
  <2>3. documents' \in [Docs -> AllHashes \cup {None}]
    BY <1>2, <1>3, <1>4 DEF ReplaceDocument, PipelineInv, TypeOK
  <2>4. sections' \subseteq AllSections /\ entities' \subseteq sections'
    BY <1>2, <1>4 DEF ReplaceDocument, PipelineInv, TypeOK
  <2>5. edges' \in [AllSections -> {"none", "bare", "backed"}]
    BY <1>4 DEF ReplaceDocument, PipelineInv, TypeOK, Bared
  <2> QED BY <1>4, <2>1, <2>2, <2>3, <2>4, <2>5 DEF ReplaceDocument, PipelineInv, TypeOK
<1>5. CASE ReplaceSectionEntities(p)
  <2>1. sync' \in [Procs -> SyncRun] /\ \A q \in Procs : Grounded(sync'[q])
    BY <1>1, <1>5, StepGrounded, SyncGrounded DEF ReplaceSectionEntities, OnDocument, OnDocuments
  <2>2. entities' \subseteq sections
    BY <1>5 DEF ReplaceSectionEntities, Storable, PipelineInv, TypeOK
  <2> QED BY <1>5, <2>1, <2>2 DEF ReplaceSectionEntities, PipelineInv, TypeOK, graph
<1>6. CASE ReadEntities(p)
  <2> DEFINE r == [sync[p] EXCEPT !.pc = "upsert", !.known = entities \cap OfDoc(Doc(p))]
  <2>1. Grounded(r)
    <3>1. entities \cap OfDoc(Doc(p)) \in SUBSET AllSections /\ Grounded(sync[p])
      BY DEF PipelineInv, TypeOK
    <3> QED BY <1>1, <3>1 DEF Grounded, SyncRun, OnDocuments, OnDocument
  <2>2. CASE profiles[Doc(p)].hash = sync[p].found[Doc(p)]
    <3>1. \E q : Grounded(q) /\ sync' = [sync EXCEPT ![p] = q]
      BY <1>1, <1>6, <2>2, NextDocGrounded DEF ReadEntities
    <3> QED BY <1>6, <3>1, PlainStep DEF ReadEntities, PipelineInv, TypeOK
  <2>3. CASE profiles[Doc(p)].hash # sync[p].found[Doc(p)]
    <3>1. sync' = [sync EXCEPT ![p] = r]
      BY <1>6, <2>3 DEF ReadEntities, PipelineInv, TypeOK, SyncRun
    <3> QED BY <1>6, <2>1, <3>1, PlainStep DEF ReadEntities, PipelineInv, TypeOK
  <2> QED BY <2>2, <2>3
<1>7. CASE UpsertProfile(p)
  <2>1. \E q : Grounded(q) /\ sync' = [sync EXCEPT ![p] = q]
    BY <1>1, <1>7, NextDocGrounded DEF UpsertProfile
  <2>2. sync' \in [Procs -> SyncRun] /\ \A q \in Procs : Grounded(sync'[q])
    BY <2>1, SyncGrounded
  <2>3. profiles' \in [Docs -> [hash: AllHashes \cup {None}, full: BOOLEAN, desc: BOOLEAN]]
    <3> DEFINE full == sync[p].known = Wanted(p)
    <3>1. full \in BOOLEAN
      OBVIOUS
    <3>2. profiles' = [profiles EXCEPT ![Doc(p)] =
                         [@ EXCEPT !.hash = sync[p].found[Doc(p)], !.full = full]]
      BY <1>7, Zenon DEF UpsertProfile
    <3> HIDE DEF full
    <3>3. profiles \in [Docs -> Profile] /\ Doc(p) \in Docs /\ sync[p].found[Doc(p)] \in AllHashes
      BY <1>2, <1>3 DEF PipelineInv, TypeOK, Profile
    <3>4. [profiles[Doc(p)] EXCEPT !.hash = sync[p].found[Doc(p)], !.full = full] \in Profile
      BY <3>1, <3>3 DEF Profile
    <3>5. profiles' \in [Docs -> Profile]
      BY <3>2, <3>3, <3>4
    <3> QED BY <3>5 DEF Profile
  <2> QED BY <1>7, <2>2, <2>3 DEF UpsertProfile, PipelineInv, TypeOK, graph
<1> QED BY <1>4, <1>5, <1>6, <1>7

LEMMA DeleteStep ==
  ASSUME PipelineInv, NEW p \in Procs, ListStale(p) \/ DeleteStale(p)
  PROVE  PipelineInv'
<1>1. Grounded(sync[p])
  BY DEF PipelineInv
<1>2. CASE ListStale(p)
  <2> DEFINE r == [sync[p] EXCEPT !.todo = Stale(p), !.pc = "delete"]
  <2>1. Grounded(r)
    BY <1>1 DEF Grounded, SyncRun, OnDocuments, OnDocument, Stale, Present
  <2>2. sync' = [sync EXCEPT ![p] = r]
    BY <1>2 DEF ListStale, PipelineInv, TypeOK, SyncRun
  <2> QED BY <1>2, <2>1, <2>2, PlainStep DEF ListStale, PipelineInv, TypeOK
<1>3. CASE DeleteStale(p)
  <2> DEFINE docs == sync[p].todo
             secs == UNION {OfDoc(d) : d \in docs}
             gone == owned \cap (docs \cup secs)
             kept(s) == \A d \in Docs : s \in OfDoc(d) => {d, s} \cap gone = {}
             r == [sync[p] EXCEPT !.todo = Present(sync[p].found),
                     !.pc = IF Present(sync[p].found) = {} THEN "finish" ELSE "graph"]
  <2>1. Grounded(r)
    BY <1>1 DEF Grounded, SyncRun, OnDocuments, OnDocument, Present
  <2>2. sync' = [sync EXCEPT ![p] = r]
    BY <1>3 DEF DeleteStale, PipelineInv, TypeOK, SyncRun
  <2>3. sync' \in [Procs -> SyncRun] /\ \A q \in Procs : Grounded(sync'[q])
    BY <2>1, <2>2, SyncGrounded
  <2>4. /\ documents' = [d \in Docs |-> IF d \in docs THEN None ELSE documents[d]]
        /\ sections' = sections \ secs
        /\ entities' = entities \ secs
        /\ profiles' = [d \in Docs |-> IF d \in docs THEN NoProfile ELSE profiles[d]]
        /\ nodes' = nodes \ gone
        /\ owned' = owned \ gone
        /\ edges' = [s \in AllSections |-> IF kept(s) THEN Bared(secs)[s] ELSE "none"]
        /\ mentions' = mentions \ gone
        /\ crossed' = crossed \cup {d \in docs : Awaited(d)}
        /\ UNCHANGED <<origin, backfill, clean, edits, faults>>
    BY <1>3, Zenon DEF DeleteStale
  <2>5. \A d \in Docs : documents'[d] \in Possible(d)
    BY <2>4 DEF PipelineInv, TypeOK, Possible
  <2>6. documents' \in [Docs -> AllHashes \cup {None}]
    BY <2>4 DEF PipelineInv, TypeOK
  <2>7. profiles' \in [Docs -> [hash: AllHashes \cup {None}, full: BOOLEAN, desc: BOOLEAN]]
    BY <2>4 DEF PipelineInv, TypeOK, NoProfile
  <2>8. edges' \in [AllSections -> {"none", "bare", "backed"}]
    <3>1. \A s \in AllSections : Bared(secs)[s] \in {"none", "bare", "backed"}
      BY DEF Bared, PipelineInv, TypeOK
    <3> HIDE DEF secs, kept
    <3> QED BY <2>4, <3>1
  <2> HIDE DEF docs, secs, gone, kept, r
  <2>9. /\ sections' \subseteq AllSections /\ entities' \subseteq sections'
        /\ owned' \subseteq nodes' /\ nodes' \subseteq Docs \cup AllSections
        /\ mentions' \subseteq nodes'
    BY <2>4 DEF PipelineInv, TypeOK
  <2>10. crossed' \subseteq Docs
    <3>1. sync[p].todo \subseteq Docs
      BY <1>1 DEF Grounded, SyncRun
    <3> QED BY <2>4, <3>1 DEF docs, PipelineInv, TypeOK
  <2> QED BY <2>3, <2>4, <2>5, <2>6, <2>7, <2>8, <2>9, <2>10 DEF PipelineInv, TypeOK
<1> QED BY <1>2, <1>3

LEMMA NodeTyped ==
  ASSUME PipelineInv, NEW n \in Docs \cup AllSections, NEW d \in Docs, UpsertNode(n, d)
  PROVE  owned' \subseteq nodes' /\ nodes' \subseteq Docs \cup AllSections /\ nodes \subseteq nodes'
  BY DEF UpsertNode, PipelineInv, TypeOK

LEMMA DrawStep ==
  ASSUME PipelineInv, NEW p \in Procs, DrawGraph(p)
  PROVE  PipelineInv'
<1>1. Grounded(sync[p])
  BY DEF PipelineInv
<1>2. CASE GraphDocument(p)
  <2>1. PICK d \in sync[p].todo :
          /\ UpsertNode(d, d)
          /\ sync' = [sync EXCEPT ![p].doc = d, ![p].todo = @ \ {d},
                                  ![p].known = entities \cap OfDoc(d),
                                  ![p].rest = Content[d][sync[p].found[d]], ![p].pc = "node"]
    BY <1>2 DEF GraphDocument
  <2> DEFINE r == [sync[p] EXCEPT !.doc = d, !.todo = @ \ {d}, !.known = entities \cap OfDoc(d),
                                  !.rest = Content[d][sync[p].found[d]], !.pc = "node"]
  <2>2. d \in Present(sync[p].found) /\ sync[p].todo \subseteq Present(sync[p].found)
    BY <1>1, <1>2 DEF GraphDocument, At, Grounded, OnDocuments
  <2>3. d \in Docs /\ sync[p].found[d] \in Hashes(d)
    BY <1>1, <2>2 DEF Grounded, Present, Possible
  <2>4. Content[d][sync[p].found[d]] \subseteq AllSections /\ OfDoc(d) \subseteq AllSections
    BY <2>3, ContentFacts
  <2>5. Grounded(r)
    BY <1>1, <2>2, <2>3, <2>4 DEF Grounded, SyncRun, OnDocuments, OnDocument
  <2>6. sync' = [sync EXCEPT ![p] = r]
    BY <2>1 DEF PipelineInv, TypeOK, SyncRun
  <2>7. sync' \in [Procs -> SyncRun] /\ \A q \in Procs : Grounded(sync'[q])
    BY <2>5, <2>6, SyncGrounded
  <2>8. owned' \subseteq nodes' /\ nodes' \subseteq Docs \cup AllSections /\ nodes \subseteq nodes'
    BY <2>1, <2>3, NodeTyped
  <2> QED BY <1>2, <2>7, <2>8 DEF GraphDocument, PipelineInv, TypeOK
<1>3. CASE GraphSection(p)
  <2>1. PICK s \in sync[p].rest :
          /\ UpsertNode(s, Doc(p))
          /\ sync' = [sync EXCEPT ![p].section = s, ![p].rest = @ \ {s}, ![p].pc = "edge"]
    BY <1>3 DEF GraphSection
  <2> DEFINE r == [sync[p] EXCEPT !.section = s, !.rest = @ \ {s}, !.pc = "edge"]
  <2>2. sync[p].pc \in OnDocument
    BY <1>3 DEF GraphSection, At, OnDocument, OnDocuments
  <2>3. Doc(p) \in Docs /\ s \in AllSections
    BY <1>1, <2>2 DEF Grounded, SyncRun, Present, Doc
  <2>4. Grounded(r)
    BY <1>1, <2>2, <2>3 DEF Grounded, SyncRun, OnDocuments, OnDocument
  <2>5. sync' = [sync EXCEPT ![p] = r]
    BY <2>1 DEF PipelineInv, TypeOK, SyncRun
  <2>6. sync' \in [Procs -> SyncRun] /\ \A q \in Procs : Grounded(sync'[q])
    BY <2>4, <2>5, SyncGrounded
  <2>7. owned' \subseteq nodes' /\ nodes' \subseteq Docs \cup AllSections /\ nodes \subseteq nodes'
    BY <2>1, <2>3, NodeTyped
  <2> QED BY <1>3, <2>6, <2>7 DEF GraphSection, PipelineInv, TypeOK
<1>4. CASE GraphEdge(p)
  <2>1. sync[p].pc \in OnDocument
    BY <1>4 DEF GraphEdge, At, OnDocument, OnDocuments
  <2>2. sync' \in [Procs -> SyncRun] /\ \A q \in Procs : Grounded(sync'[q])
    BY <1>4, <2>1, StepGrounded, SyncGrounded DEF GraphEdge, OnDocument, OnDocuments
  <2>3. edges' \in [AllSections -> {"none", "bare", "backed"}]
    BY <1>4 DEF GraphEdge, PipelineInv, TypeOK
  <2> QED BY <1>4, <2>2, <2>3 DEF GraphEdge, PipelineInv, TypeOK
<1>5. CASE GraphMentions(p)
  <2> DEFINE r == [sync[p] EXCEPT !.pc = IF sync[p].todo # {} THEN "graph" ELSE "finish",
                                  !.doc = None, !.known = {}, !.section = None]
  <2>1. sync[p].pc \in OnDocument
    BY <1>5 DEF GraphMentions, At, OnDocument, OnDocuments
  <2>2. mentions' \subseteq nodes
    BY <1>5 DEF GraphMentions, Linkable, PipelineInv, TypeOK
  <2>3. sync' \in [Procs -> SyncRun] /\ \A q \in Procs : Grounded(sync'[q])
    <3>1. CASE sync[p].rest # {}
      BY <1>5, <2>1, <3>1, StepGrounded, SyncGrounded DEF GraphMentions, OnDocument, OnDocuments
    <3>2. CASE sync[p].rest = {}
      <4>1. Grounded(r)
        BY <1>1, <2>1 DEF Grounded, SyncRun, OnDocuments, OnDocument
      <4>2. sync' = [sync EXCEPT ![p] = r]
        BY <1>5, <3>2 DEF GraphMentions, PipelineInv, TypeOK
      <4> QED BY <4>1, <4>2, SyncGrounded
    <3> QED BY <3>1, <3>2
  <2> QED BY <1>5, <2>2, <2>3 DEF GraphMentions, PipelineInv, TypeOK
<1> QED BY <1>2, <1>3, <1>4, <1>5 DEF DrawGraph

LEMMA EndStep ==
  ASSUME PipelineInv, NEW p \in Procs, Finish(p) \/ Fail(p)
  PROVE  PipelineInv'
<1>1. sync' = [sync EXCEPT ![p] = Idle]
  BY DEF Finish, Fail
<1>2. UNCHANGED <<origin, store, backfill, crossed, edits>>
  BY DEF Finish, Fail
<1>3. clean' \in BOOLEAN
  BY DEF Finish, Fail, PipelineInv, TypeOK
<1>4. faults' \in 0 .. MaxFaults
  BY BoundsAssumption DEF Finish, Fail, PipelineInv, TypeOK
<1> QED BY <1>1, <1>2, <1>3, <1>4, IdleGrounded, PlainStep

LEMMA OtherStep ==
  ASSUME PipelineInv,
         \/ \E d \in Docs : \E h \in Hashes(d) \cup {None} : Edit(d, h)
         \/ \E d \in Docs : Describe(d) \/ BackfillRead(d)
         \/ BackfillWrite
  PROVE  PipelineInv'
<1>1. ASSUME NEW d \in Docs, NEW h \in Hashes(d) \cup {None}, Edit(d, h) PROVE PipelineInv'
  <2>1. h \in AllHashes \cup {None}
    BY ContentFacts
  <2>2. origin' \in [Docs -> AllHashes \cup {None}] /\ \A e \in Docs : origin'[e] \in Possible(e)
    BY <1>1, <2>1 DEF Edit, PipelineInv, TypeOK, Possible
  <2>3. edits' \in 0 .. MaxEdits
    BY <1>1, BoundsAssumption DEF Edit, PipelineInv, TypeOK
  <2> QED BY <1>1, <2>2, <2>3 DEF Edit, PipelineInv, TypeOK, store
<1>2. ASSUME NEW d \in Docs, Describe(d) PROVE PipelineInv'
  <2>1. profiles' \in [Docs -> [hash: AllHashes \cup {None}, full: BOOLEAN, desc: BOOLEAN]]
    <3>1. profiles \in [Docs -> Profile] /\ profiles' = [profiles EXCEPT ![d].desc = TRUE]
      BY <1>2 DEF Describe, PipelineInv, TypeOK, Profile
    <3>2. [profiles[d] EXCEPT !.desc = TRUE] \in Profile
      BY <3>1 DEF Profile
    <3>3. profiles' \in [Docs -> Profile]
      BY <3>1, <3>2
    <3> QED BY <3>3 DEF Profile
  <2> QED BY <1>2, <2>1 DEF Describe, PipelineInv, TypeOK, graph
<1>3. ASSUME NEW d \in Docs, BackfillRead(d) PROVE PipelineInv'
  <2>1. \A q \in Procs : Grounded([sync[q] EXCEPT !.alone = FALSE])
    BY AloneGrounded DEF PipelineInv
  <2>2. sync' \in [Procs -> SyncRun] /\ \A q \in Procs : Grounded(sync'[q])
    BY <1>3, <2>1 DEF BackfillRead, Grounded
  <2>3. clean' \in BOOLEAN
    BY <1>3 DEF BackfillRead, PipelineInv, TypeOK
  <2>4. backfill' \in [doc: Docs \cup {None}, read: SUBSET AllSections]
    BY <1>3 DEF BackfillRead, PipelineInv, TypeOK
  <2> QED BY <1>3, <2>2, <2>3, <2>4 DEF BackfillRead, PipelineInv, TypeOK, store
<1>4. CASE BackfillWrite
  <2>1. entities' \subseteq sections
    BY <1>4 DEF BackfillWrite, Storable, PipelineInv, TypeOK
  <2> QED BY <1>4, <2>1 DEF BackfillWrite, PipelineInv, TypeOK, NoBackfill, graph
<1> QED BY <1>1, <1>2, <1>3, <1>4

LEMMA PipelineStep == PipelineInv /\ [Next]_vars => PipelineInv'
<1> SUFFICES ASSUME PipelineInv, [Next]_vars PROVE PipelineInv'
  OBVIOUS
<1>1. ASSUME NEW p \in Procs, SyncStep(p) PROVE PipelineInv'
  BY <1>1, FetchStep, PlanStep, WriteStep, DeleteStep, DrawStep, EndStep DEF SyncStep, WriteDocument
<1>2. CASE UNCHANGED vars
  BY <1>2 DEF vars, store, PipelineInv, TypeOK
<1> QED BY <1>1, <1>2, OtherStep DEF Next

(* The type invariant: entities belong to stored sections and mentions to nodes,
   and every document worked on is one that was loaded. *)
THEOREM TypeCorrect == Spec => []TypeOK
<1>1. PipelineInv => TypeOK
  BY DEF PipelineInv
<1> QED BY <1>1, PipelineInit, PipelineStep, PTL DEF Spec

-----------------------------------------------------------------------------
(* The hash names the sections *)

LEMMA HashStep ==
  ASSUME PipelineInv, HashTellsSections, [Next]_vars
  PROVE  HashTellsSections'
<1>1. ASSUME NEW p \in Procs, ReplaceDocument(p) PROVE HashTellsSections'
  <2>1. sync[p].pc \in OnDocument
    BY <1>1 DEF ReplaceDocument, At, OnDocument, OnDocuments
  <2>2. /\ Doc(p) \in Docs /\ sync[p].found[Doc(p)] \in Hashes(Doc(p))
        /\ Wanted(p) \subseteq OfDoc(Doc(p))
    BY <2>1, WriterFacts
  <2>3. sync[p].found[Doc(p)] # None
    BY <2>2, ContentFacts
  <2>4. /\ documents' = [documents EXCEPT ![Doc(p)] = sync[p].found[Doc(p)]]
        /\ sections' = (sections \ OfDoc(Doc(p))) \cup Wanted(p)
    BY <1>1 DEF ReplaceDocument
  <2>5. sections' \cap OfDoc(Doc(p)) = Content[Doc(p)][documents'[Doc(p)]]
    BY <2>2, <2>4 DEF Wanted, PipelineInv, TypeOK
  <2>6. documents'[Doc(p)] # None
    BY <2>2, <2>3, <2>4 DEF PipelineInv, TypeOK
  <2>7. ASSUME NEW d \in Docs, d # Doc(p)
        PROVE  sections' \cap OfDoc(d) = sections \cap OfDoc(d) /\ documents'[d] = documents[d]
    <3>1. OfDoc(Doc(p)) \cap OfDoc(d) = {}
      BY <2>2, <2>7, ContentFacts
    <3> QED BY <2>2, <2>4, <2>7, <3>1 DEF PipelineInv, TypeOK
  <2> QED BY <2>5, <2>6, <2>7 DEF HashTellsSections
<1>2. ASSUME NEW p \in Procs, DeleteStale(p) PROVE HashTellsSections'
  <2> DEFINE docs == sync[p].todo
             secs == UNION {OfDoc(d) : d \in docs}
  <2>1. /\ documents' = [d \in Docs |-> IF d \in docs THEN None ELSE documents[d]]
        /\ sections' = sections \ secs
    BY <1>2, Zenon DEF DeleteStale
  <2>2. docs \subseteq Docs
    BY DEF PipelineInv, Grounded, SyncRun
  <2>3. ASSUME NEW d \in Docs, d \in docs
        PROVE  sections' \cap OfDoc(d) = {} /\ documents'[d] = None
    BY <2>1, <2>3
  <2>4. ASSUME NEW d \in Docs, d \notin docs
        PROVE  sections' \cap OfDoc(d) = sections \cap OfDoc(d) /\ documents'[d] = documents[d]
    <3>1. \A e \in docs : OfDoc(e) \cap OfDoc(d) = {}
      BY <2>2, <2>4, ContentFacts
    <3> QED BY <2>1, <2>4, <3>1
  <2> QED BY <2>3, <2>4 DEF HashTellsSections
<1>3. CASE UNCHANGED <<documents, sections>>
  BY <1>3 DEF HashTellsSections
<1>4. ASSUME NEW p \in Procs, SyncStep(p) PROVE HashTellsSections'
  BY <1>1, <1>2, <1>3, <1>4 DEF SyncStep, WriteDocument, DrawGraph, Fetch, PlanDocument, PlanProfile,
     ReplaceSectionEntities, ReadEntities, UpsertProfile, ListStale, GraphDocument, GraphSection,
     GraphEdge, GraphMentions, Finish, Fail, store, graph
<1> QED BY <1>3, <1>4 DEF Next, Edit, Describe, BackfillRead, BackfillWrite, vars, store

(* Whatever overlaps, fails or is killed, the rows of a document are those of the
   content its hash names. *)
THEOREM HashIsTruthful == Spec => []HashTellsSections
<1>1. Init => HashTellsSections
  BY DEF Init, HashTellsSections
<1> QED BY <1>1, PipelineInit, PipelineStep, HashStep, PTL DEF Spec

-----------------------------------------------------------------------------
(* Descriptions *)

LEMMA DescStep ==
  ASSUME PipelineInv, [Next]_vars, NEW d \in Docs, profiles[d].desc, ~ profiles'[d].desc
  PROVE  \E p \in Procs : At(p, "delete") /\ sync[p].found[d] = None
<1>1. ASSUME NEW p \in Procs, DeleteStale(p) PROVE At(p, "delete") /\ sync[p].found[d] = None
  <2>1. At(p, "delete") /\ sync[p].todo \cap Present(sync[p].found) = {}
    BY <1>1 DEF DeleteStale, PipelineInv, Grounded, At
  <2>2. d \in sync[p].todo
    BY <1>1 DEF DeleteStale
  <2> QED BY <2>1, <2>2 DEF Present
<1>2. ASSUME NEW p \in Procs, UpsertProfile(p) PROVE FALSE
  <2>1. profiles'[d].desc = profiles[d].desc
    BY <1>2 DEF UpsertProfile, PipelineInv, TypeOK
  <2> QED BY <2>1
<1>3. ASSUME NEW e \in Docs, Describe(e) PROVE FALSE
  BY <1>3 DEF Describe, PipelineInv, TypeOK
<1>4. CASE UNCHANGED profiles
  BY <1>4
<1>5. ASSUME NEW p \in Procs, SyncStep(p), ~ DeleteStale(p) PROVE FALSE
  BY <1>2, <1>4, <1>5 DEF SyncStep, WriteDocument, DrawGraph, Fetch, PlanDocument, PlanProfile,
     ReplaceDocument, ReplaceSectionEntities, ReadEntities, ListStale, GraphDocument, GraphSection,
     GraphEdge, GraphMentions, Finish, Fail, store, graph
<1> QED BY <1>1, <1>3, <1>4, <1>5 DEF Next, Edit, BackfillRead, BackfillWrite, vars, store

(* A description is lost only with a document that was missing from what a sync
   loaded. *)
THEOREM DescriptionsSurvive == Spec => DescriptionKept
<1>1. PipelineInv /\ [Next]_vars =>
        [\A d \in Docs : profiles[d].desc /\ ~ profiles'[d].desc =>
           \E p \in Procs : At(p, "delete") /\ sync[p].found[d] = None]_vars
  BY DescStep
<1> QED BY <1>1, PipelineInit, PipelineStep, PTL DEF Spec, DescriptionKept

-----------------------------------------------------------------------------
(* What hangs on a document's row *)

(* The profile and the memberships of a document are there only with its row. *)
RowsCarry ==
    \A d \in Docs : documents[d] = None =>
        profiles[d] = NoProfile /\ owned \cap ({d} \cup OfDoc(d)) = {}

Linking == {"node", "edge", "mentions"}

(* A run links sections of the content it loaded. *)
LinksWanted ==
    \A p \in Procs : sync[p].pc \in Linking =>
        /\ sync[p].rest \subseteq Wanted(p)
        /\ sync[p].pc # "node" => sync[p].section \in Wanted(p)

(* A step of p that changes its place only, and one that ends a document. *)
LEMMA StepFields ==
  ASSUME PipelineInv, NEW p \in Procs, NEW pc, Step(p, pc)
  PROVE  /\ sync'[p] = [sync[p] EXCEPT !.pc = pc]
         /\ sync'[p].pc = pc /\ sync'[p].found = sync[p].found /\ sync'[p].todo = sync[p].todo
         /\ sync'[p].doc = sync[p].doc /\ sync'[p].known = sync[p].known
         /\ sync'[p].rest = sync[p].rest /\ sync'[p].section = sync[p].section
         /\ sync'[p].alone = sync[p].alone
         /\ \A q \in Procs \ {p} : sync'[q] = sync[q]
<1>1. sync[p] \in SyncRun
  BY DEF PipelineInv, TypeOK
<1> QED BY <1>1 DEF Step, PipelineInv, TypeOK, SyncRun

LEMMA NextDocFields ==
  ASSUME PipelineInv, NEW p \in Procs, NextDoc(p)
  PROVE  /\ sync'[p].pc = IF sync[p].todo = {} THEN "stale" ELSE "plan"
         /\ sync'[p].found = sync[p].found /\ sync'[p].todo = sync[p].todo
         /\ sync'[p].alone = sync[p].alone
         /\ \A q \in Procs \ {p} : sync'[q] = sync[q]
<1>1. sync[p] \in SyncRun
  BY DEF PipelineInv, TypeOK
<1> QED BY <1>1 DEF NextDoc, PipelineInv, TypeOK, SyncRun

(* What the other steps of a run make of its record. *)
LEMMA PlanDocumentFields ==
  ASSUME PipelineInv, NEW p \in Procs, PlanDocument(p)
  PROVE  \E d \in sync[p].todo :
            /\ sync'[p].doc = d /\ sync'[p].todo = sync[p].todo \ {d}
            /\ sync'[p].pc = IF Changed(d, sync[p].found[d]) THEN "replace" ELSE "check"
            /\ sync'[p].found = sync[p].found /\ sync'[p].alone = sync[p].alone
            /\ \A q \in Procs \ {p} : sync'[q] = sync[q]
<1>1. sync[p] \in SyncRun
  BY DEF PipelineInv, TypeOK
<1> QED BY <1>1 DEF PlanDocument, PipelineInv, TypeOK, SyncRun

LEMMA ReadEntitiesFields ==
  ASSUME PipelineInv, NEW p \in Procs, ReadEntities(p),
         profiles[Doc(p)].hash # sync[p].found[Doc(p)]
  PROVE  /\ sync'[p].pc = "upsert" /\ sync'[p].known = entities \cap OfDoc(Doc(p))
         /\ sync'[p].found = sync[p].found /\ sync'[p].alone = sync[p].alone
         /\ sync'[p].doc = sync[p].doc /\ sync'[p].todo = sync[p].todo
         /\ \A q \in Procs \ {p} : sync'[q] = sync[q]
<1>1. sync[p] \in SyncRun
  BY DEF PipelineInv, TypeOK
<1> QED BY <1>1 DEF ReadEntities, PipelineInv, TypeOK, SyncRun

LEMMA ListStaleFields ==
  ASSUME PipelineInv, NEW p \in Procs, ListStale(p)
  PROVE  /\ sync'[p].pc = "delete" /\ sync'[p].todo = Stale(p)
         /\ sync'[p].found = sync[p].found /\ sync'[p].alone = sync[p].alone
         /\ \A q \in Procs \ {p} : sync'[q] = sync[q]
<1>1. sync[p] \in SyncRun
  BY DEF PipelineInv, TypeOK
<1> QED BY <1>1 DEF ListStale, PipelineInv, TypeOK, SyncRun

LEMMA DeleteStaleFields ==
  ASSUME PipelineInv, NEW p \in Procs, DeleteStale(p)
  PROVE  /\ sync'[p].pc = IF Present(sync[p].found) = {} THEN "finish" ELSE "graph"
         /\ sync'[p].todo = Present(sync[p].found)
         /\ sync'[p].found = sync[p].found /\ sync'[p].alone = sync[p].alone
         /\ \A q \in Procs \ {p} : sync'[q] = sync[q]
<1>1. sync[p] \in SyncRun
  BY DEF PipelineInv, TypeOK
<1>2. sync' = [sync EXCEPT ![p].todo = Present(sync[p].found),
                           ![p].pc = IF Present(sync[p].found) = {} THEN "finish" ELSE "graph"]
  BY Zenon DEF DeleteStale
<1> QED BY <1>1, <1>2 DEF PipelineInv, TypeOK, SyncRun

LEMMA GraphDocumentFields ==
  ASSUME PipelineInv, NEW p \in Procs, GraphDocument(p)
  PROVE  \E d \in sync[p].todo :
            /\ UpsertNode(d, d)
            /\ d \in Docs /\ sync[p].found[d] \in Hashes(d) /\ d \in Present(sync[p].found)
            /\ sync'[p].pc = "node" /\ sync'[p].doc = d /\ sync'[p].todo = sync[p].todo \ {d}
            /\ sync'[p].known = entities \cap OfDoc(d)
            /\ sync'[p].rest = Content[d][sync[p].found[d]]
            /\ sync'[p].found = sync[p].found /\ sync'[p].alone = sync[p].alone
            /\ \A q \in Procs \ {p} : sync'[q] = sync[q]
<1>1. sync[p] \in SyncRun /\ Grounded(sync[p])
  BY DEF PipelineInv, TypeOK
<1>2. \A d \in sync[p].todo : d \in Docs /\ sync[p].found[d] \in Hashes(d)
                                         /\ d \in Present(sync[p].found)
  BY <1>1 DEF Grounded, OnDocuments, GraphDocument, At, Present, Possible
<1> QED BY <1>1, <1>2 DEF GraphDocument, PipelineInv, TypeOK, SyncRun

LEMMA GraphSectionFields ==
  ASSUME PipelineInv, NEW p \in Procs, GraphSection(p)
  PROVE  \E s \in sync[p].rest :
            /\ UpsertNode(s, Doc(p))
            /\ sync'[p].pc = "edge" /\ sync'[p].section = s
            /\ sync'[p].rest = sync[p].rest \ {s}
            /\ sync'[p].doc = sync[p].doc /\ sync'[p].todo = sync[p].todo
            /\ sync'[p].known = sync[p].known
            /\ sync'[p].found = sync[p].found /\ sync'[p].alone = sync[p].alone
            /\ \A q \in Procs \ {p} : sync'[q] = sync[q]
<1>1. sync[p] \in SyncRun
  BY DEF PipelineInv, TypeOK
<1> QED BY <1>1 DEF GraphSection, PipelineInv, TypeOK, SyncRun

(* The last section of a document: the next document, or the end. *)
LEMMA LastSectionFields ==
  ASSUME PipelineInv, NEW p \in Procs, GraphMentions(p), sync[p].rest = {}
  PROVE  /\ sync'[p].pc = IF sync[p].todo # {} THEN "graph" ELSE "finish"
         /\ sync'[p].todo = sync[p].todo
         /\ sync'[p].found = sync[p].found /\ sync'[p].alone = sync[p].alone
         /\ \A q \in Procs \ {p} : sync'[q] = sync[q]
<1>1. sync[p] \in SyncRun
  BY DEF PipelineInv, TypeOK
<1> DEFINE r == [sync[p] EXCEPT !.pc = IF sync[p].todo # {} THEN "graph" ELSE "finish",
                                !.doc = None, !.known = {}, !.section = None]
<1>2. sync' = [sync EXCEPT ![p] = r]
  BY DEF GraphMentions
<1>3. /\ r.pc = (IF sync[p].todo # {} THEN "graph" ELSE "finish")
      /\ r.todo = sync[p].todo /\ r.found = sync[p].found /\ r.alone = sync[p].alone
  BY <1>1 DEF SyncRun
<1> HIDE DEF r
<1> QED BY <1>2, <1>3 DEF PipelineInv, TypeOK

(* A run that ends, or has not begun. *)
LEMMA EndFields ==
  ASSUME PipelineInv, NEW p \in Procs, Finish(p) \/ Fail(p)
  PROVE  /\ sync'[p] = Idle /\ Idle.pc = "idle" /\ Idle.alone = FALSE
         /\ \A q \in Procs \ {p} : sync'[q] = sync[q]
         /\ UNCHANGED <<origin, store, backfill, crossed, edits>>
  BY DEF Finish, Fail, PipelineInv, TypeOK, Idle

(* Another run, or a backfill, has begun beside this one. *)
LEMMA NotAloneFields ==
  ASSUME NEW r \in SyncRun
  PROVE  LET s == [r EXCEPT !.alone = FALSE] IN
           /\ s.alone = FALSE /\ s.pc = r.pc /\ s.found = r.found /\ s.doc = r.doc
           /\ s.todo = r.todo /\ s.rest = r.rest /\ s.section = r.section
  BY DEF SyncRun

LEMMA FetchFields ==
  ASSUME PipelineInv, NEW p \in Procs, Fetch(p)
  PROVE  /\ sync'[p].pc = IF Present(origin) = {} THEN "stale" ELSE "plan"
         /\ sync'[p].found = origin /\ sync'[p].todo = Present(origin)
         /\ sync'[p].alone = (backfill = NoBackfill /\ \A q \in Procs : ~ Running(q))
         /\ \A q \in Procs \ {p} :
               /\ sync'[q] = [sync[q] EXCEPT !.alone = FALSE]
               /\ sync'[q].alone = FALSE /\ sync'[q].pc = sync[q].pc
               /\ sync'[q].found = sync[q].found /\ sync'[q].doc = sync[q].doc
               /\ sync'[q].todo = sync[q].todo
               /\ sync'[q].rest = sync[q].rest /\ sync'[q].section = sync[q].section
         /\ clean' = (clean /\ backfill = NoBackfill /\ \A q \in Procs : ~ Running(q))
         /\ UNCHANGED <<origin, store, backfill, crossed, edits, faults>>
<1> DEFINE alone == backfill = NoBackfill /\ \A q \in Procs : ~ Running(q)
           r == [Idle EXCEPT !.pc = IF Present(origin) = {} THEN "stale" ELSE "plan",
                             !.found = origin, !.todo = Present(origin), !.alone = alone]
<1>1. sync' = [q \in Procs |-> IF q = p THEN r ELSE [sync[q] EXCEPT !.alone = FALSE]]
  BY Zenon DEF Fetch
<1>2. clean' = (clean /\ alone) /\ UNCHANGED <<origin, store, backfill, crossed, edits, faults>>
  BY Zenon DEF Fetch
<1>3. sync'[p] = r /\ \A q \in Procs \ {p} : sync'[q] = [sync[q] EXCEPT !.alone = FALSE]
  BY <1>1
<1>4. \A q \in Procs : sync[q] \in SyncRun
  BY DEF PipelineInv, TypeOK
<1>5. /\ r.pc = (IF Present(origin) = {} THEN "stale" ELSE "plan")
      /\ r.found = origin /\ r.todo = Present(origin) /\ r.alone = alone
  <2> HIDE DEF alone
  <2> QED BY DEF Idle
<1>6. ASSUME NEW q \in Procs \ {p}
      PROVE  /\ sync'[q].alone = FALSE /\ sync'[q].pc = sync[q].pc
             /\ sync'[q].found = sync[q].found /\ sync'[q].doc = sync[q].doc
             /\ sync'[q].todo = sync[q].todo
             /\ sync'[q].rest = sync[q].rest /\ sync'[q].section = sync[q].section
  <2>1. sync[q] \in SyncRun /\ sync'[q] = [sync[q] EXCEPT !.alone = FALSE]
    BY <1>3, <1>4
  <2> HIDE DEF r, alone
  <2> QED BY <2>1, NotAloneFields
<1> HIDE DEF r
<1>7. sync'[p].alone = alone /\ clean' = (clean /\ alone)
  BY <1>2, <1>3, <1>5
<1>8. (clean /\ alone) = (clean /\ backfill = NoBackfill /\ \A q \in Procs : ~ Running(q))
  OBVIOUS
<1>9. sync'[p].alone = (backfill = NoBackfill /\ \A q \in Procs : ~ Running(q))
  BY <1>7
<1>10. clean' = (clean /\ backfill = NoBackfill /\ \A q \in Procs : ~ Running(q))
  BY <1>7, <1>8
<1> HIDE DEF alone
<1> QED BY <1>2, <1>3, <1>5, <1>6, <1>9, <1>10

LEMMA RowsCarryStep ==
  ASSUME PipelineInv, RowsCarry, LinksWanted, [Next]_vars
  PROVE  RowsCarry'
<1>1. CASE UNCHANGED <<documents, profiles, owned>>
  BY <1>1 DEF RowsCarry
<1>2. ASSUME NEW p \in Procs, ReplaceDocument(p) PROVE RowsCarry'
  <2>1. sync[p].pc \in OnDocument
    BY <1>2 DEF ReplaceDocument, At, OnDocument, OnDocuments
  <2>2. Doc(p) \in Docs /\ sync[p].found[Doc(p)] # None
    BY <2>1, WriterFacts, ContentFacts
  <2>3. \A d \in Docs : documents'[d] = None => documents[d] = None
    BY <1>2, <2>2 DEF ReplaceDocument, PipelineInv, TypeOK
  <2> QED BY <1>2, <2>3 DEF ReplaceDocument, RowsCarry
<1>3. ASSUME NEW p \in Procs, UpsertProfile(p) PROVE RowsCarry'
  <2>1. \A d \in Docs : documents[d] = None => profiles'[d] = profiles[d]
    BY <1>3 DEF UpsertProfile, PipelineInv, TypeOK
  <2> QED BY <1>3, <2>1 DEF UpsertProfile, RowsCarry, graph
<1>4. ASSUME NEW d \in Docs, Describe(d) PROVE RowsCarry'
  <2>1. \A e \in Docs : documents[e] = None => profiles'[e] = profiles[e]
    BY <1>4 DEF Describe, PipelineInv, TypeOK
  <2> QED BY <1>4, <2>1 DEF Describe, RowsCarry, graph
<1>5. ASSUME NEW p \in Procs, DeleteStale(p) PROVE RowsCarry'
  <2> DEFINE docs == sync[p].todo
             secs == UNION {OfDoc(d) : d \in docs}
             gone == owned \cap (docs \cup secs)
  <2>1. /\ documents' = [d \in Docs |-> IF d \in docs THEN None ELSE documents[d]]
        /\ profiles' = [d \in Docs |-> IF d \in docs THEN NoProfile ELSE profiles[d]]
        /\ owned' = owned \ gone
    BY <1>5, Zenon DEF DeleteStale
  <2>2. ASSUME NEW d \in Docs, documents'[d] = None
        PROVE  profiles'[d] = NoProfile /\ owned' \cap ({d} \cup OfDoc(d)) = {}
    <3>1. CASE d \in docs
      <4>1. {d} \cup OfDoc(d) \subseteq docs \cup secs
        BY <3>1
      <4> HIDE DEF docs, secs
      <4> QED BY <2>1, <3>1, <4>1
    <3>2. CASE d \notin docs
      <4>1. documents[d] = None
        BY <2>1, <2>2, <3>2
      <4>2. profiles[d] = NoProfile /\ owned \cap ({d} \cup OfDoc(d)) = {}
        BY <4>1 DEF RowsCarry
      <4> HIDE DEF docs, gone
      <4> QED BY <2>1, <3>2, <4>2
    <3> QED BY <3>1, <3>2
  <2> QED BY <2>2 DEF RowsCarry
<1>6. ASSUME NEW n, NEW d \in Docs, UpsertNode(n, d), n \in {d} \cup OfDoc(d),
             UNCHANGED <<documents, profiles>>
      PROVE  RowsCarry'
  <2>1. ASSUME NEW e \in Docs, documents[e] = None
        PROVE  owned' \cap ({e} \cup OfDoc(e)) = {}
    <3>1. owned \cap ({e} \cup OfDoc(e)) = {}
      BY <2>1 DEF RowsCarry
    <3>2. CASE documents[d] = None
      BY <1>6, <3>1, <3>2 DEF UpsertNode
    <3>3. CASE documents[d] # None
      <4>1. n \notin {e} \cup OfDoc(e)
        <5>1. d # e
          BY <2>1, <3>3
        <5>2. OfDoc(d) \cap OfDoc(e) = {} /\ OfDoc(d) \subseteq AllSections
                                         /\ OfDoc(e) \subseteq AllSections
          BY <5>1, ContentFacts
        <5> QED BY <1>6, <5>1, <5>2, ContentAssumption
      <4> QED BY <1>6, <3>1, <3>3, <4>1 DEF UpsertNode
    <3> QED BY <3>2, <3>3
  <2> QED BY <1>6, <2>1 DEF RowsCarry
<1>7. ASSUME NEW p \in Procs, GraphDocument(p) PROVE RowsCarry'
  <2>1. PICK d \in sync[p].todo : UpsertNode(d, d) /\ d \in Docs
    BY <1>7, GraphDocumentFields
  <2> QED BY <1>6, <1>7, <2>1 DEF GraphDocument
<1>8. ASSUME NEW p \in Procs, GraphSection(p) PROVE RowsCarry'
  <2>1. PICK s \in sync[p].rest : UpsertNode(s, Doc(p))
    BY <1>8, GraphSectionFields
  <2>2. s \in Wanted(p)
    BY <1>8 DEF GraphSection, At, LinksWanted, Linking
  <2>3. Doc(p) \in Docs /\ Wanted(p) \subseteq OfDoc(Doc(p))
    BY <1>8, WriterFacts DEF GraphSection, At, OnDocument, OnDocuments
  <2> QED BY <1>6, <1>8, <2>1, <2>2, <2>3 DEF GraphSection
<1>9. ASSUME NEW p \in Procs, SyncStep(p) PROVE RowsCarry'
  BY <1>1, <1>2, <1>3, <1>5, <1>7, <1>8, <1>9 DEF SyncStep, WriteDocument, DrawGraph, Fetch,
     PlanDocument, PlanProfile, ReplaceSectionEntities, ReadEntities, ListStale, GraphEdge,
     GraphMentions, Finish, Fail, store, graph
<1> QED BY <1>1, <1>4, <1>9 DEF Next, Edit, BackfillRead, BackfillWrite, vars, store, graph

LEMMA LinksWantedStep ==
  ASSUME PipelineInv, LinksWanted, [Next]_vars
  PROVE  LinksWanted'
<1> DEFINE Ok(q) == sync[q].pc \in Linking =>
                      /\ sync[q].rest \subseteq Wanted(q)
                      /\ sync[q].pc # "node" => sync[q].section \in Wanted(q)
<1>0. \A q \in Procs : Ok(q)
  BY DEF LinksWanted
<1>1. \A q \in Procs : sync'[q] = sync[q] => Ok(q)'
  BY <1>0 DEF Wanted, Doc
<1>2. ASSUME NEW p \in Procs, \A q \in Procs \ {p} : sync'[q] = sync[q],
             sync'[p].pc \notin Linking
      PROVE  LinksWanted'
  BY <1>1, <1>2 DEF LinksWanted
<1>3. ASSUME NEW p \in Procs, Fetch(p) PROVE LinksWanted'
  <2>1. sync'[p].pc \notin Linking
    BY <1>3, FetchFields DEF Linking
  <2>2. ASSUME NEW q \in Procs \ {p} PROVE Ok(q)'
    BY <1>0, <1>3, FetchFields DEF Wanted, Doc
  <2> QED BY <2>1, <2>2 DEF LinksWanted
<1>4. ASSUME NEW p \in Procs, WriteDocument(p) PROVE LinksWanted'
  <2>1. CASE PlanDocument(p)
    BY <1>2, <2>1, PlanDocumentFields DEF Linking
  <2>2. CASE NextDoc(p)
    BY <1>2, <2>2, NextDocFields DEF Linking
  <2>3. ASSUME NEW pc \in {"profile", "entities"}, Step(p, pc) PROVE LinksWanted'
    <3>1. sync'[p].pc = pc /\ \A q \in Procs \ {p} : sync'[q] = sync[q]
      BY <2>3, StepFields
    <3> QED BY <1>2, <3>1 DEF Linking
  <2>4. CASE ReadEntities(p) /\ profiles[Doc(p)].hash # sync[p].found[Doc(p)]
    BY <1>2, <2>4, ReadEntitiesFields DEF Linking
  <2> QED BY <1>4, <2>1, <2>2, <2>3, <2>4 DEF WriteDocument, PlanProfile, ReplaceDocument,
         ReplaceSectionEntities, ReadEntities, UpsertProfile
<1>5. ASSUME NEW p \in Procs, ListStale(p) \/ DeleteStale(p) \/ Finish(p) \/ Fail(p)
      PROVE  LinksWanted'
  BY <1>2, <1>5, ListStaleFields, DeleteStaleFields, EndFields DEF Linking
<1>6. ASSUME NEW p \in Procs, DrawGraph(p) PROVE LinksWanted'
  <2> SUFFICES ASSUME \A q \in Procs \ {p} : sync'[q] = sync[q] => Ok(q)'
               PROVE  (\A q \in Procs \ {p} : sync'[q] = sync[q]) /\ Ok(p)'
    BY <1>1 DEF LinksWanted
  <2>1. CASE GraphDocument(p)
    BY <2>1, GraphDocumentFields DEF Wanted, Doc, Linking
  <2>2. CASE GraphSection(p)
    BY <1>0, <2>2, GraphSectionFields DEF Wanted, Doc, Linking, GraphSection, At
  <2>3. CASE GraphEdge(p)
    BY <1>0, <2>3, StepFields DEF Wanted, Doc, Linking, GraphEdge, At
  <2>4. CASE GraphMentions(p)
    <3>1. CASE sync[p].rest # {}
      BY <1>0, <2>4, <3>1, StepFields DEF Wanted, Doc, Linking, GraphMentions, At
    <3>2. CASE sync[p].rest = {}
      BY <2>4, <3>2, LastSectionFields DEF Linking
    <3> QED BY <3>1, <3>2
  <2> QED BY <1>6, <2>1, <2>2, <2>3, <2>4 DEF DrawGraph
<1>7. ASSUME NEW d \in Docs, BackfillRead(d) PROVE LinksWanted'
  <2>1. \A q \in Procs : sync'[q] = [sync[q] EXCEPT !.alone = FALSE] /\ sync[q] \in SyncRun
    BY <1>7 DEF BackfillRead, PipelineInv, TypeOK
  <2>2. \A q \in Procs : /\ sync'[q].pc = sync[q].pc /\ sync'[q].found = sync[q].found
                         /\ sync'[q].doc = sync[q].doc /\ sync'[q].rest = sync[q].rest
                         /\ sync'[q].section = sync[q].section
    BY <2>1 DEF SyncRun
  <2> QED BY <1>0, <2>2 DEF LinksWanted, Wanted, Doc
<1>8. CASE UNCHANGED sync
  BY <1>1, <1>8 DEF LinksWanted
<1> QED BY <1>3, <1>4, <1>5, <1>6, <1>7, <1>8 DEF Next, SyncStep, Edit, Describe, BackfillWrite, vars

-----------------------------------------------------------------------------
(* What deletions beside other syncs leave *)

(* The documents a run found whose row it has still to write. *)
Unstored(r) ==
    IF r.pc = "plan" THEN r.todo
    ELSE IF r.pc = "replace" THEN r.todo \cup {r.doc}
    ELSE IF r.pc \in {"check", "entities", "profile", "upsert"} THEN r.todo
    ELSE {}

(* The other documents a run found have their row, unless it was deleted
   meanwhile. *)
Stored(p) ==
    Running(p) => \A d \in Present(sync[p].found) \ Unstored(sync[p]) :
                      documents[d] # None \/ d \in crossed

StoredInv == \A p \in Procs : Stored(p)

(* Nodes without a row come from such deletions only. *)
OwnedInv ==
    \A d \in Docs : d \notin crossed => nodes \cap ({d} \cup OfDoc(d)) \subseteq owned

(* An edge has both its ends. *)
EndsInv ==
    \A d \in Docs : \A s \in OfDoc(d) : edges[s] # "none" => {d, s} \subseteq nodes

LEMMA DeleteStaleRows ==
  ASSUME PipelineInv, NEW p \in Procs, DeleteStale(p)
  PROVE  /\ crossed \subseteq crossed'
         /\ \A d \in Docs : d \notin sync[p].todo => documents'[d] = documents[d]
         /\ \A d \in sync[p].todo : Awaited(d) => d \in crossed'
         /\ sync[p].todo \cap Present(sync[p].found) = {}
<1>1. /\ documents' = [d \in Docs |-> IF d \in sync[p].todo THEN None ELSE documents[d]]
      /\ crossed' = crossed \cup {d \in sync[p].todo : Awaited(d)}
      /\ sync[p].pc = "delete"
  BY Zenon DEF DeleteStale, At
<1>2. sync[p].todo \cap Present(sync[p].found) = {}
  BY <1>1 DEF PipelineInv, Grounded
<1> QED BY <1>1, <1>2

LEMMA StoredStep ==
  ASSUME PipelineInv, StoredInv, [Next]_vars
  PROVE  StoredInv'
<1>1. ASSUME \A d \in Docs : documents[d] # None => documents'[d] # None, crossed' = crossed,
             NEW p \in Procs, Running(p), sync'[p].found = sync[p].found,
             Unstored(sync[p]) \subseteq Unstored(sync'[p])
      PROVE  Stored(p)'
  <2> SUFFICES ASSUME NEW d \in Docs, d \in Present(sync[p].found), d \notin Unstored(sync'[p])
               PROVE  documents'[d] # None \/ d \in crossed
    BY <1>1 DEF Stored, Present
  <2>1. documents[d] # None \/ d \in crossed
    BY <1>1 DEF StoredInv, Stored
  <2> QED BY <1>1, <2>1
<1>2. ASSUME \A d \in Docs : documents[d] # None => documents'[d] # None, crossed' = crossed,
             NEW p \in Procs, sync'[p] = sync[p]
      PROVE  Stored(p)'
  <2>1. CASE Running(p)
    BY <1>1, <1>2, <2>1
  <2>2. CASE ~ Running(p)
    BY <1>2, <2>2 DEF Stored, Running
  <2> QED BY <2>1, <2>2
<1>3. ASSUME NEW p \in Procs, \A d \in Docs : documents[d] # None => documents'[d] # None,
             crossed' = crossed, \A q \in Procs \ {p} : sync'[q] = sync[q], Stored(p)'
      PROVE  StoredInv'
  <2>1. \A q \in Procs \ {p} : Stored(q)'
    BY <1>2, <1>3
  <2> QED BY <1>3, <2>1 DEF StoredInv
<1>4. ASSUME NEW p \in Procs, Fetch(p) PROVE StoredInv'
  <2>1. documents' = documents /\ crossed' = crossed
    BY <1>4 DEF Fetch, store
  <2>2. Stored(p)'
    <3>1. /\ sync'[p].pc = (IF Present(origin) = {} THEN "stale" ELSE "plan")
          /\ sync'[p].found = origin /\ sync'[p].todo = Present(origin)
      BY <1>4, FetchFields
    <3>2. Present(sync'[p].found) \ Unstored(sync'[p]) = {}
      BY <3>1 DEF Unstored
    <3> QED BY <3>2 DEF Stored
  <2>3. ASSUME NEW q \in Procs \ {p} PROVE Stored(q)'
    <3>1. /\ sync'[q].pc = sync[q].pc /\ sync'[q].found = sync[q].found
          /\ sync'[q].doc = sync[q].doc /\ sync'[q].todo = sync[q].todo
      BY <1>4, FetchFields
    <3>2. Unstored(sync'[q]) = Unstored(sync[q]) /\ (Running(q)' => Running(q))
      BY <3>1 DEF Unstored, Running
    <3> QED BY <2>1, <3>1, <3>2 DEF StoredInv, Stored
  <2> QED BY <2>2, <2>3 DEF StoredInv
<1>5. ASSUME NEW p \in Procs, WriteDocument(p) PROVE StoredInv'
  <2>1. crossed' = crossed
    BY <1>5 DEF WriteDocument, PlanDocument, PlanProfile, ReplaceDocument, ReplaceSectionEntities,
       ReadEntities, UpsertProfile
  <2>2. CASE PlanDocument(p)
    <3>1. PICK d \in sync[p].todo :
            /\ sync'[p].doc = d /\ sync'[p].todo = sync[p].todo \ {d}
            /\ sync'[p].pc = IF Changed(d, sync[p].found[d]) THEN "replace" ELSE "check"
            /\ sync'[p].found = sync[p].found
            /\ \A q \in Procs \ {p} : sync'[q] = sync[q]
      BY <2>2, PlanDocumentFields
    <3>2. documents' = documents /\ sync[p].pc = "plan" /\ Running(p)
      BY <2>2 DEF PlanDocument, At, store, Running
    <3>3. Stored(p)'
      <4>1. CASE Changed(d, sync[p].found[d])
        <5>1. Unstored(sync'[p]) = Unstored(sync[p])
          BY <3>1, <3>2, <4>1 DEF Unstored
        <5> QED BY <1>1, <2>1, <3>1, <3>2, <5>1
      <4>2. CASE ~ Changed(d, sync[p].found[d])
        <5>1. documents[d] = sync[p].found[d]
          BY <4>2 DEF Changed
        <5>2. Unstored(sync'[p]) = sync[p].todo \ {d} /\ Unstored(sync[p]) = sync[p].todo
          BY <3>1, <3>2, <4>2 DEF Unstored
        <5>3. \A e \in Present(sync[p].found) \ Unstored(sync'[p]) :
                 documents[e] # None \/ e \in crossed
          BY <3>2, <5>1, <5>2 DEF StoredInv, Stored, Present
        <5> QED BY <2>1, <3>1, <3>2, <5>3 DEF Stored
      <4> QED BY <4>1, <4>2
    <3> QED BY <1>3, <2>1, <3>1, <3>2, <3>3
  <2>3. CASE ReplaceDocument(p)
    <3>1. /\ sync[p].pc = "replace" /\ Step(p, "entities") /\ Running(p)
          /\ documents' = [documents EXCEPT ![Doc(p)] = sync[p].found[Doc(p)]]
      BY <2>3 DEF ReplaceDocument, At, Running
    <3>2. sync'[p].pc = "entities" /\ sync'[p].found = sync[p].found
          /\ sync'[p].todo = sync[p].todo /\ \A q \in Procs \ {p} : sync'[q] = sync[q]
      BY <3>1, StepFields
    <3>3. Doc(p) \in Docs /\ sync[p].found[Doc(p)] # None
      <4>1. sync[p].pc \in OnDocument
        BY <3>1 DEF OnDocument, OnDocuments
      <4> QED BY <4>1, WriterFacts, ContentFacts
    <3>4. /\ documents'[Doc(p)] # None
          /\ \A d \in Docs : documents[d] # None => documents'[d] # None
      BY <3>1, <3>3 DEF PipelineInv, TypeOK
    <3>5. Unstored(sync'[p]) = sync[p].todo /\ Unstored(sync[p]) = sync[p].todo \cup {Doc(p)}
      BY <3>1, <3>2 DEF Unstored, Doc
    <3>6. \A e \in Present(sync[p].found) \ Unstored(sync'[p]) :
             documents'[e] # None \/ e \in crossed
      BY <3>1, <3>4, <3>5 DEF StoredInv, Stored, Present
    <3>7. Stored(p)'
      BY <2>1, <3>2, <3>6 DEF Stored
    <3> QED BY <1>3, <2>1, <3>2, <3>4, <3>7
  <2>4. CASE NextDoc(p) /\ sync[p].pc \in {"check", "profile", "upsert"} /\ documents' = documents
    <3>1. /\ sync'[p].pc = (IF sync[p].todo = {} THEN "stale" ELSE "plan")
          /\ sync'[p].found = sync[p].found /\ sync'[p].todo = sync[p].todo
          /\ \A q \in Procs \ {p} : sync'[q] = sync[q]
      BY <2>4, NextDocFields
    <3>2. Unstored(sync'[p]) = sync[p].todo /\ Unstored(sync[p]) = sync[p].todo
      BY <2>4, <3>1 DEF Unstored
    <3> QED BY <1>1, <1>3, <2>1, <2>4, <3>1, <3>2 DEF Running
  <2>5. ASSUME NEW pc \in {"profile", "upsert"}, sync'[p].pc = pc,
               sync[p].pc \in {"check", "entities", "profile"}, documents' = documents,
               sync'[p].found = sync[p].found, sync'[p].todo = sync[p].todo,
               \A q \in Procs \ {p} : sync'[q] = sync[q]
        PROVE  StoredInv'
    <3>1. Unstored(sync'[p]) = Unstored(sync[p])
      BY <2>5 DEF Unstored
    <3> QED BY <1>1, <1>3, <2>1, <2>5, <3>1 DEF Running
  <2>6. CASE PlanProfile(p)
    <3>1. sync[p].pc = "check" /\ documents' = documents /\ (NextDoc(p) \/ Step(p, "profile"))
      BY <2>6 DEF PlanProfile, At, store
    <3> QED BY <2>4, <2>5, <3>1, StepFields
  <2>7. CASE ReplaceSectionEntities(p)
    <3>1. sync[p].pc = "entities" /\ documents' = documents /\ Step(p, "profile")
      BY <2>7 DEF ReplaceSectionEntities, At
    <3> QED BY <2>5, <3>1, StepFields
  <2>8. CASE ReadEntities(p)
    <3>1. sync[p].pc = "profile" /\ documents' = documents
      BY <2>8 DEF ReadEntities, At, store
    <3>2. CASE profiles[Doc(p)].hash = sync[p].found[Doc(p)]
      BY <2>4, <2>8, <3>1, <3>2 DEF ReadEntities
    <3>3. CASE profiles[Doc(p)].hash # sync[p].found[Doc(p)]
      BY <2>5, <2>8, <3>1, <3>3, ReadEntitiesFields
    <3> QED BY <3>2, <3>3
  <2>9. CASE UpsertProfile(p)
    BY <2>4, <2>9 DEF UpsertProfile, At
  <2> QED BY <1>5, <2>2, <2>3, <2>6, <2>7, <2>8, <2>9 DEF WriteDocument
<1>6. ASSUME NEW p \in Procs, ListStale(p) PROVE StoredInv'
  <2>1. documents' = documents /\ crossed' = crossed /\ sync[p].pc = "stale" /\ Running(p)
    BY <1>6 DEF ListStale, store, At, Running
  <2>2. Unstored(sync[p]) = {}
    BY <2>1 DEF Unstored
  <2> QED BY <1>1, <1>3, <1>6, <2>1, <2>2, ListStaleFields
<1>7. ASSUME NEW p \in Procs, DeleteStale(p) PROVE StoredInv'
  <2>1. /\ crossed \subseteq crossed'
        /\ \A d \in Docs : d \notin sync[p].todo => documents'[d] = documents[d]
        /\ \A d \in sync[p].todo : Awaited(d) => d \in crossed'
        /\ sync[p].todo \cap Present(sync[p].found) = {}
    BY <1>7, DeleteStaleRows
  <2>2. sync[p].pc = "delete"
    BY <1>7 DEF DeleteStale, At
  <2>3. Stored(p)'
    <3>1. sync'[p].found = sync[p].found /\ Unstored(sync[p]) = {}
      BY <1>7, <2>2, DeleteStaleFields DEF Unstored
    <3>2. \A d \in Present(sync[p].found) : documents'[d] # None \/ d \in crossed'
      BY <2>1, <2>2, <3>1 DEF StoredInv, Stored, Present, Running
    <3> QED BY <3>1, <3>2 DEF Stored
  <2>4. ASSUME NEW q \in Procs \ {p} PROVE Stored(q)'
    <3>1. sync'[q] = sync[q]
      BY <1>7, DeleteStaleFields
    <3>2. ASSUME Running(q), NEW d \in Present(sync[q].found) \ Unstored(sync[q])
          PROVE  documents'[d] # None \/ d \in crossed'
      <4>1. d \in Docs /\ Awaited(d)
        BY <3>2 DEF Present, Awaited
      <4>2. documents[d] # None \/ d \in crossed
        BY <3>2 DEF StoredInv, Stored
      <4> QED BY <2>1, <4>1, <4>2
    <3> QED BY <3>1, <3>2 DEF Stored, Running
  <2> QED BY <2>3, <2>4 DEF StoredInv
<1>8. ASSUME NEW p \in Procs, DrawGraph(p) PROVE StoredInv'
  <2>1. documents' = documents /\ crossed' = crossed /\ sync[p].pc \in {"graph"} \cup Linking
    BY <1>8 DEF DrawGraph, GraphDocument, GraphSection, GraphEdge, GraphMentions, At, Linking
  <2>2. Unstored(sync[p]) = {} /\ Running(p)
    BY <2>1 DEF Unstored, Linking, Running
  <2>3. sync'[p].found = sync[p].found /\ \A q \in Procs \ {p} : sync'[q] = sync[q]
    <3>1. CASE GraphDocument(p)
      BY <3>1, GraphDocumentFields
    <3>2. CASE GraphSection(p)
      BY <3>2, GraphSectionFields
    <3>3. CASE GraphEdge(p)
      BY <3>3, StepFields DEF GraphEdge
    <3>4. CASE GraphMentions(p) /\ sync[p].rest # {}
      BY <3>4, StepFields DEF GraphMentions
    <3>5. CASE GraphMentions(p) /\ sync[p].rest = {}
      BY <3>5, LastSectionFields
    <3> QED BY <1>8, <3>1, <3>2, <3>3, <3>4, <3>5 DEF DrawGraph
  <2> QED BY <1>1, <1>3, <2>1, <2>2, <2>3
<1>9. ASSUME NEW p \in Procs, Finish(p) \/ Fail(p) PROVE StoredInv'
  <2>1. documents' = documents /\ crossed' = crossed
    BY <1>9 DEF Finish, Fail, store
  <2>2. sync'[p].pc = "idle" /\ \A q \in Procs \ {p} : sync'[q] = sync[q]
    BY <1>9, EndFields
  <2>3. Stored(p)'
    BY <2>2 DEF Stored, Running
  <2> QED BY <1>3, <2>1, <2>2, <2>3
<1>10. ASSUME NEW d \in Docs, BackfillRead(d) PROVE StoredInv'
  <2>1. documents' = documents /\ crossed' = crossed
    BY <1>10 DEF BackfillRead, store
  <2>2. \A q \in Procs : sync'[q] = [sync[q] EXCEPT !.alone = FALSE] /\ sync[q] \in SyncRun
    BY <1>10 DEF BackfillRead, PipelineInv, TypeOK
  <2>3. ASSUME NEW q \in Procs PROVE Stored(q)'
    <3>1. /\ sync'[q].pc = sync[q].pc /\ sync'[q].found = sync[q].found
          /\ sync'[q].doc = sync[q].doc /\ sync'[q].todo = sync[q].todo
      BY <2>2, NotAloneFields
    <3>2. Unstored(sync'[q]) = Unstored(sync[q]) /\ (Running(q)' => Running(q))
      BY <3>1 DEF Unstored, Running
    <3> QED BY <2>1, <3>1, <3>2 DEF StoredInv, Stored
  <2> QED BY <2>3 DEF StoredInv
<1>11. CASE UNCHANGED <<documents, crossed, sync>>
  BY <1>2, <1>11 DEF StoredInv
<1>12. ASSUME NEW p \in Procs, SyncStep(p) PROVE StoredInv'
  BY <1>4, <1>5, <1>6, <1>7, <1>8, <1>9, <1>12 DEF SyncStep
<1> QED BY <1>10, <1>11, <1>12 DEF Next, Edit, Describe, BackfillWrite, vars, store

LEMMA OwnedStep ==
  ASSUME PipelineInv, LinksWanted, StoredInv, OwnedInv, [Next]_vars
  PROVE  OwnedInv'
<1>1. CASE UNCHANGED <<nodes, owned, crossed>>
  BY <1>1 DEF OwnedInv
<1>2. ASSUME NEW n, NEW d \in Docs, UpsertNode(n, d), n \in {d} \cup OfDoc(d), crossed' = crossed,
             documents[d] # None \/ d \in crossed
      PROVE  OwnedInv'
  <2>1. ASSUME NEW e \in Docs, e \notin crossed
        PROVE  nodes' \cap ({e} \cup OfDoc(e)) \subseteq owned'
    <3>1. nodes \cap ({e} \cup OfDoc(e)) \subseteq owned
      BY <2>1 DEF OwnedInv
    <3>2. CASE documents[d] # None
      BY <1>2, <3>1, <3>2 DEF UpsertNode
    <3>3. CASE documents[d] = None
      <4>1. d # e
        BY <1>2, <2>1, <3>3
      <4>2. OfDoc(d) \cap OfDoc(e) = {} /\ OfDoc(d) \subseteq AllSections
                                       /\ OfDoc(e) \subseteq AllSections
        BY <4>1, ContentFacts
      <4>3. n \notin {e} \cup OfDoc(e)
        BY <1>2, <4>1, <4>2, ContentAssumption
      <4> QED BY <1>2, <3>1, <3>3, <4>3 DEF UpsertNode
    <3> QED BY <3>2, <3>3
  <2> QED BY <1>2, <2>1 DEF OwnedInv
<1>3. ASSUME NEW p \in Procs, DeleteStale(p) PROVE OwnedInv'
  <2> DEFINE gone == owned \cap (sync[p].todo \cup UNION {OfDoc(d) : d \in sync[p].todo})
  <2>1. nodes' = nodes \ gone /\ owned' = owned \ gone
    BY <1>3, Zenon DEF DeleteStale
  <2>2. crossed \subseteq crossed'
    BY <1>3, DeleteStaleRows
  <2> HIDE DEF gone
  <2> QED BY <2>1, <2>2 DEF OwnedInv
<1>4. ASSUME NEW p \in Procs, GraphDocument(p) PROVE OwnedInv'
  <2>1. PICK d \in sync[p].todo :
          UpsertNode(d, d) /\ d \in Docs /\ d \in Present(sync[p].found)
    BY <1>4, GraphDocumentFields
  <2>2. crossed' = crossed /\ sync[p].pc = "graph"
    BY <1>4 DEF GraphDocument, At
  <2>3. documents[d] # None \/ d \in crossed
    BY <2>1, <2>2 DEF StoredInv, Stored, Running, Unstored
  <2> QED BY <1>2, <2>1, <2>2, <2>3
<1>5. ASSUME NEW p \in Procs, GraphSection(p) PROVE OwnedInv'
  <2>1. PICK s \in sync[p].rest : UpsertNode(s, Doc(p))
    BY <1>5, GraphSectionFields
  <2>2. crossed' = crossed /\ sync[p].pc = "node"
    BY <1>5 DEF GraphSection, At
  <2>3. s \in Wanted(p)
    BY <2>1, <2>2 DEF LinksWanted, Linking
  <2>4. Doc(p) \in Docs /\ Wanted(p) \subseteq OfDoc(Doc(p)) /\ Doc(p) \in Present(sync[p].found)
    BY <2>2, WriterFacts DEF OnDocument, OnDocuments, PipelineInv, Grounded, Doc
  <2>5. documents[Doc(p)] # None \/ Doc(p) \in crossed
    BY <2>2, <2>4 DEF StoredInv, Stored, Running, Unstored
  <2> QED BY <1>2, <2>1, <2>2, <2>3, <2>4, <2>5
<1>6. ASSUME NEW p \in Procs, SyncStep(p) PROVE OwnedInv'
  BY <1>1, <1>3, <1>4, <1>5, <1>6 DEF SyncStep, WriteDocument, DrawGraph, Fetch,
     PlanDocument, PlanProfile, ReplaceDocument, ReplaceSectionEntities, ReadEntities,
     UpsertProfile, ListStale, GraphEdge, GraphMentions, Finish, Fail, store, graph
<1> QED BY <1>1, <1>6 DEF Next, Edit, Describe, BackfillRead, BackfillWrite, vars, store, graph

LEMMA EndsStep ==
  ASSUME PipelineInv, LinksWanted, EndsInv, [Next]_vars
  PROVE  EndsInv'
<1>1. ASSUME nodes \subseteq nodes', \A s \in AllSections : edges'[s] # "none" => edges[s] # "none"
      PROVE  EndsInv'
  <2>1. \A d \in Docs : OfDoc(d) \subseteq AllSections
    BY ContentFacts
  <2> QED BY <1>1, <2>1 DEF EndsInv
<1>2. ASSUME NEW p \in Procs, ReplaceDocument(p) PROVE EndsInv'
  <2>1. nodes' = nodes /\ edges' = Bared(OfDoc(Doc(p)))
    BY <1>2 DEF ReplaceDocument
  <2>2. \A s \in AllSections : edges'[s] # "none" => edges[s] # "none"
    BY <2>1 DEF Bared
  <2> QED BY <1>1, <2>1, <2>2
<1>3. ASSUME NEW p \in Procs, DeleteStale(p) PROVE EndsInv'
  <2> DEFINE secs == UNION {OfDoc(d) : d \in sync[p].todo}
             gone == owned \cap (sync[p].todo \cup secs)
             kept(s) == \A d \in Docs : s \in OfDoc(d) => {d, s} \cap gone = {}
  <2>1. /\ nodes' = nodes \ gone
        /\ edges' = [s \in AllSections |-> IF kept(s) THEN Bared(secs)[s] ELSE "none"]
    BY <1>3, Zenon DEF DeleteStale
  <2>2. ASSUME NEW d \in Docs, NEW s \in OfDoc(d), edges'[s] # "none"
        PROVE  {d, s} \subseteq nodes'
    <3>1. s \in AllSections
      BY ContentFacts
    <3>2. kept(s) /\ Bared(secs)[s] # "none"
      <4> HIDE DEF kept, secs
      <4> QED BY <2>1, <2>2, <3>1
    <3>3. edges[s] # "none"
      <4> HIDE DEF kept, secs
      <4> QED BY <3>1, <3>2 DEF Bared
    <3>4. {d, s} \cap gone = {}
      <4> HIDE DEF gone
      <4> QED BY <3>2
    <3>5. {d, s} \subseteq nodes
      BY <3>3 DEF EndsInv
    <3> HIDE DEF gone, kept, secs
    <3> QED BY <2>1, <3>4, <3>5
  <2> QED BY <2>2 DEF EndsInv
<1>4. ASSUME NEW p \in Procs, GraphDocument(p) \/ GraphSection(p) PROVE EndsInv'
  <2>1. nodes \subseteq nodes' /\ edges' = edges
    BY <1>4 DEF GraphDocument, GraphSection, UpsertNode
  <2> QED BY <1>1, <2>1
<1>5. ASSUME NEW p \in Procs, GraphEdge(p) PROVE EndsInv'
  <2>1. /\ sync[p].pc = "edge" /\ {Doc(p), sync[p].section} \subseteq nodes /\ nodes' = nodes
        /\ edges' = [edges EXCEPT ![sync[p].section] = "backed"]
    BY <1>5 DEF GraphEdge, At, Linkable
  <2>2. sync[p].section \in Wanted(p) /\ Wanted(p) \subseteq OfDoc(Doc(p)) /\ Doc(p) \in Docs
    BY <2>1, WriterFacts DEF LinksWanted, Linking, OnDocument, OnDocuments
  <2>3. ASSUME NEW d \in Docs, NEW s \in OfDoc(d), edges'[s] # "none"
        PROVE  {d, s} \subseteq nodes
    <3>1. CASE s = sync[p].section
      <4>1. d = Doc(p)
        BY <2>2, <3>1, ContentFacts
      <4> QED BY <2>1, <3>1, <4>1
    <3>2. CASE s # sync[p].section
      <4>1. edges'[s] = edges[s]
        BY <2>1, <3>2, ContentFacts DEF PipelineInv, TypeOK
      <4> QED BY <2>3, <4>1 DEF EndsInv
    <3> QED BY <3>1, <3>2
  <2> QED BY <2>1, <2>3 DEF EndsInv
<1>6. CASE UNCHANGED <<nodes, edges>>
  BY <1>6 DEF EndsInv
<1>7. ASSUME NEW p \in Procs, SyncStep(p) PROVE EndsInv'
  BY <1>2, <1>3, <1>4, <1>5, <1>6, <1>7 DEF SyncStep, WriteDocument, DrawGraph, Fetch,
     PlanDocument, PlanProfile, ReplaceSectionEntities, ReadEntities, UpsertProfile, ListStale,
     GraphMentions, Finish, Fail, store, graph
<1> QED BY <1>6, <1>7 DEF Next, Edit, Describe, BackfillRead, BackfillWrite, vars, store, graph

-----------------------------------------------------------------------------
(* A run that no other writer overlaps *)

(* The documents it has not written yet, and those it has not drawn yet. *)
Unwritten(r) ==
    IF r.pc = "plan" THEN r.todo
    ELSE IF r.pc \in {"check", "replace", "entities", "profile", "upsert"} THEN r.todo \cup {r.doc}
    ELSE {}

Undrawn(r) ==
    IF r.pc = "graph" THEN r.todo ELSE IF r.pc \in Linking THEN r.todo \cup {r.doc} ELSE {}

(* The sections of the document under way that have no edge yet. *)
Unlinked(r) == IF r.pc = "edge" THEN r.rest \cup {r.section} ELSE r.rest

Drawing == {"graph", "finish"} \cup Linking

Linked(s) == s \in owned /\ edges[s] = "backed"

Apart(p) ==
    /\ \A q \in Procs \ {p} : ~ Running(q)
    /\ backfill = NoBackfill
    /\ Running(p)

Written(p) ==
    \A d \in Present(sync[p].found) \ Unwritten(sync[p]) :
        documents[d] = sync[p].found[d] /\ profiles[d].hash = sync[p].found[d]

HasRow(p) ==
    sync[p].pc \in {"check", "entities", "profile", "upsert"} =>
        documents[Doc(p)] = sync[p].found[Doc(p)]

(* What it is about to delete is what it did not find; then that is gone. *)
Cleared(p) ==
    /\ At(p, "delete") => sync[p].todo = Stale(p)
    /\ sync[p].pc \in Drawing => \A d \in Docs : sync[p].found[d] = None => documents[d] = None

Drawn(p) ==
    sync[p].pc \in Drawing =>
        \A d \in Present(sync[p].found) \ Undrawn(sync[p]) :
            d \in owned /\ \A s \in Content[d][sync[p].found[d]] : Linked(s)

UnderWay(p) ==
    sync[p].pc \in Linking =>
        /\ Doc(p) \in owned
        /\ \A s \in Wanted(p) \ Unlinked(sync[p]) : Linked(s)
        /\ At(p, "edge") => sync[p].section \in owned

(* How far such a run has brought the index. *)
Lone(p) == Apart(p) /\ Written(p) /\ HasRow(p) /\ Cleared(p) /\ Drawn(p) /\ UnderWay(p)

LoneInv == \A p \in Procs : sync[p].alone => Lone(p)

LEMMA ApartKept ==
  ASSUME NEW p \in Procs, Apart(p), \A q \in Procs \ {p} : sync'[q] = sync[q],
         sync'[p].pc # "idle", backfill' = backfill
  PROVE  Apart(p)'
  BY DEF Apart, Running

(* Nobody else moves beside a lone run, but to end its being alone. *)
LEMMA OthersRest ==
  ASSUME PipelineInv, LoneInv, NEW p \in Procs, NEW q \in Procs, p # q, SyncStep(q),
         sync'[p].alone
  PROVE  FALSE
<1>1. CASE Fetch(q)
  BY <1>1, FetchFields
<1>2. CASE ~ Fetch(q)
  <2>1. Running(q)
    BY <1>2 DEF SyncStep, WriteDocument, DrawGraph, PlanDocument, PlanProfile, ReplaceDocument,
       ReplaceSectionEntities, ReadEntities, UpsertProfile, ListStale, DeleteStale, GraphDocument,
       GraphSection, GraphEdge, GraphMentions, Finish, Fail, At, Running
  <2>2. sync'[p] = sync[p]
    <3>1. CASE WriteDocument(q)
      <4>1. CASE PlanDocument(q)
        BY <4>1, PlanDocumentFields
      <4>2. CASE ReadEntities(q)
        BY <4>2, ReadEntitiesFields, NextDocFields DEF ReadEntities
      <4>3. CASE PlanProfile(q) \/ UpsertProfile(q)
        BY <4>3, NextDocFields, StepFields DEF PlanProfile, UpsertProfile
      <4>4. CASE ReplaceDocument(q) \/ ReplaceSectionEntities(q)
        BY <4>4, StepFields DEF ReplaceDocument, ReplaceSectionEntities
      <4> QED BY <3>1, <4>1, <4>2, <4>3, <4>4 DEF WriteDocument
    <3>2. CASE DrawGraph(q)
      <4>1. CASE GraphDocument(q)
        BY <4>1, GraphDocumentFields
      <4>2. CASE GraphSection(q)
        BY <4>2, GraphSectionFields
      <4>3. CASE GraphEdge(q)
        BY <4>3, StepFields DEF GraphEdge
      <4>4. CASE GraphMentions(q) /\ sync[q].rest # {}
        BY <4>4, StepFields DEF GraphMentions
      <4>5. CASE GraphMentions(q) /\ sync[q].rest = {}
        BY <4>5, LastSectionFields
      <4> QED BY <3>2, <4>1, <4>2, <4>3, <4>4, <4>5 DEF DrawGraph
    <3>3. CASE ListStale(q) \/ DeleteStale(q) \/ Finish(q) \/ Fail(q)
      BY <3>3, ListStaleFields, DeleteStaleFields, EndFields
    <3> QED BY <1>2, <3>1, <3>2, <3>3 DEF SyncStep
  <2>3. Lone(p)
    BY <2>2 DEF LoneInv
  <2> QED BY <2>1, <2>3 DEF Lone, Apart
<1> QED BY <1>1, <1>2

LEMMA LoneFetch ==
  ASSUME PipelineInv, NEW p \in Procs, Fetch(p), sync'[p].alone
  PROVE  Lone(p)'
<1>1. /\ sync'[p].pc = IF Present(origin) = {} THEN "stale" ELSE "plan"
      /\ sync'[p].found = origin /\ sync'[p].todo = Present(origin)
      /\ backfill = NoBackfill /\ \A q \in Procs : ~ Running(q)
      /\ \A q \in Procs \ {p} : sync'[q].pc = sync[q].pc
      /\ backfill' = backfill
  BY FetchFields
<1>2. sync'[p].pc \in {"stale", "plan"}
  BY <1>1
<1>3. Apart(p)'
  BY <1>1, <1>2 DEF Apart, Running
<1>4. Present(sync'[p].found) \ Unwritten(sync'[p]) = {}
  BY <1>1 DEF Unwritten
<1> QED BY <1>2, <1>3, <1>4 DEF Lone, Written, HasRow, Cleared, Drawn, UnderWay, At, Drawing, Linking

(* The writing of a document goes on. *)
LEMMA LoneWrites ==
  ASSUME PipelineInv, NEW p \in Procs, Lone(p),
         sync[p].pc \in {"check", "replace", "entities", "profile"},
         NEW pc \in {"entities", "profile", "upsert"},
         sync'[p].pc = pc, sync'[p].found = sync[p].found, sync'[p].doc = sync[p].doc,
         sync'[p].todo = sync[p].todo, \A q \in Procs \ {p} : sync'[q] = sync[q],
         documents'[Doc(p)] = sync[p].found[Doc(p)],
         \A d \in Docs \ {Doc(p)} : documents'[d] = documents[d],
         UNCHANGED <<profiles, backfill>>
  PROVE  Lone(p)'
<1>1. Apart(p)'
  BY ApartKept DEF Lone
<1>2. Unwritten(sync'[p]) = Unwritten(sync[p]) /\ Doc(p) \in Unwritten(sync[p])
  BY DEF Unwritten, Doc
<1>3. Written(p)'
  BY <1>2 DEF Lone, Written, Present
<1>4. HasRow(p)'
  BY DEF HasRow, Doc
<1> QED BY <1>1, <1>3, <1>4 DEF Lone, Cleared, Drawn, UnderWay, At, Drawing, Linking

(* The writing of a document is done. *)
LEMMA LoneGoesOn ==
  ASSUME PipelineInv, NEW p \in Procs, Lone(p), NextDoc(p),
         sync[p].pc \in {"check", "profile", "upsert"},
         profiles'[Doc(p)].hash = sync[p].found[Doc(p)],
         \A d \in Docs \ {Doc(p)} : profiles'[d] = profiles[d],
         UNCHANGED <<documents, backfill>>
  PROVE  Lone(p)'
<1>1. /\ sync'[p].pc = (IF sync[p].todo = {} THEN "stale" ELSE "plan")
      /\ sync'[p].found = sync[p].found /\ sync'[p].todo = sync[p].todo
      /\ \A q \in Procs \ {p} : sync'[q] = sync[q]
  BY NextDocFields
<1>2. sync'[p].pc \in {"stale", "plan"}
  BY <1>1
<1>3. Apart(p)'
  BY <1>1, <1>2, ApartKept DEF Lone
<1>4. Unwritten(sync'[p]) = sync[p].todo /\ Unwritten(sync[p]) = sync[p].todo \cup {Doc(p)}
  BY <1>1 DEF Unwritten, Doc
<1>5. documents[Doc(p)] = sync[p].found[Doc(p)]
  BY DEF Lone, HasRow
<1>6. Written(p)'
  BY <1>1, <1>4, <1>5 DEF Lone, Written, Present
<1> QED BY <1>2, <1>3, <1>6 DEF Lone, HasRow, Cleared, Drawn, UnderWay, At, Drawing, Linking

LEMMA LoneWriteDocument ==
  ASSUME PipelineInv, NEW p \in Procs, Lone(p), WriteDocument(p)
  PROVE  Lone(p)'
<1>1. CASE PlanDocument(p)
  <2>1. PICK d \in sync[p].todo :
            /\ sync'[p].doc = d /\ sync'[p].todo = sync[p].todo \ {d}
            /\ sync'[p].pc = IF Changed(d, sync[p].found[d]) THEN "replace" ELSE "check"
            /\ sync'[p].found = sync[p].found
            /\ \A q \in Procs \ {p} : sync'[q] = sync[q]
    BY <1>1, PlanDocumentFields
  <2>2. sync[p].pc = "plan" /\ UNCHANGED <<documents, profiles, backfill>>
    BY <1>1 DEF PlanDocument, At, store
  <2>3. sync'[p].pc \in {"check", "replace"}
    BY <2>1
  <2>4. Apart(p)'
    BY <2>1, <2>2, <2>3, ApartKept DEF Lone
  <2>5. Unwritten(sync'[p]) = Unwritten(sync[p])
    BY <2>1, <2>2, <2>3 DEF Unwritten
  <2>6. Written(p)'
    BY <2>1, <2>2, <2>5 DEF Lone, Written
  <2>7. HasRow(p)'
    BY <2>1, <2>2, <2>3 DEF HasRow, Changed, Doc
  <2> QED BY <2>3, <2>4, <2>6, <2>7 DEF Lone, Cleared, Drawn, UnderWay, At, Drawing, Linking
<1>2. CASE ~ PlanDocument(p)
  <2>1. sync[p].pc \in OnDocument
    BY <1>2 DEF WriteDocument, PlanProfile, ReplaceDocument, ReplaceSectionEntities, ReadEntities,
       UpsertProfile, At, OnDocument, OnDocuments
  <2>2. Doc(p) \in Docs
    BY <2>1, WriterFacts
  <2>3. CASE PlanProfile(p)
    <3>1. sync[p].pc = "check" /\ UNCHANGED <<documents, profiles, backfill>>
      BY <2>3 DEF PlanProfile, At, store
    <3>2. documents[Doc(p)] = sync[p].found[Doc(p)]
      BY <3>1 DEF Lone, HasRow
    <3>3. CASE profiles[Doc(p)].hash = sync[p].found[Doc(p)]
      BY <2>3, <3>1, <3>3, LoneGoesOn DEF PlanProfile
    <3>4. CASE profiles[Doc(p)].hash # sync[p].found[Doc(p)]
      <4>1. Step(p, "profile")
        BY <2>3, <3>4 DEF PlanProfile
      <4> QED BY <3>1, <3>2, <4>1, StepFields, LoneWrites
    <3> QED BY <3>3, <3>4
  <2>4. CASE ReplaceDocument(p)
    <3>1. /\ sync[p].pc = "replace" /\ UNCHANGED <<profiles, backfill>> /\ Step(p, "entities")
          /\ documents' = [documents EXCEPT ![Doc(p)] = sync[p].found[Doc(p)]]
      BY <2>4 DEF ReplaceDocument, At
    <3>2. /\ documents'[Doc(p)] = sync[p].found[Doc(p)]
          /\ \A d \in Docs \ {Doc(p)} : documents'[d] = documents[d]
      BY <2>2, <3>1 DEF PipelineInv, TypeOK
    <3> QED BY <3>1, <3>2, StepFields, LoneWrites
  <2>5. CASE ReplaceSectionEntities(p)
    <3>1. /\ sync[p].pc = "entities" /\ UNCHANGED <<documents, profiles, backfill>>
          /\ Step(p, "profile")
      BY <2>5 DEF ReplaceSectionEntities, At
    <3>2. documents[Doc(p)] = sync[p].found[Doc(p)]
      BY <3>1 DEF Lone, HasRow
    <3> QED BY <3>1, <3>2, StepFields, LoneWrites
  <2>6. CASE ReadEntities(p)
    <3>1. sync[p].pc = "profile" /\ UNCHANGED <<documents, profiles, backfill>>
      BY <2>6 DEF ReadEntities, At, store
    <3>2. documents[Doc(p)] = sync[p].found[Doc(p)]
      BY <3>1 DEF Lone, HasRow
    <3>3. CASE profiles[Doc(p)].hash = sync[p].found[Doc(p)]
      BY <2>6, <3>1, <3>3, LoneGoesOn DEF ReadEntities
    <3>4. CASE profiles[Doc(p)].hash # sync[p].found[Doc(p)]
      BY <2>6, <3>1, <3>2, <3>4, ReadEntitiesFields, LoneWrites
    <3> QED BY <3>3, <3>4
  <2>7. CASE UpsertProfile(p)
    <3>1. sync[p].pc = "upsert" /\ UNCHANGED <<documents, backfill>> /\ NextDoc(p)
      BY <2>7 DEF UpsertProfile, At
    <3>2. /\ profiles'[Doc(p)].hash = sync[p].found[Doc(p)]
          /\ \A d \in Docs \ {Doc(p)} : profiles'[d] = profiles[d]
      <4> DEFINE full == sync[p].known = Wanted(p)
      <4>1. profiles' = [profiles EXCEPT ![Doc(p)] =
                           [@ EXCEPT !.hash = sync[p].found[Doc(p)], !.full = full]]
        BY <2>7, Zenon DEF UpsertProfile
      <4> HIDE DEF full
      <4>2. profiles \in [Docs -> Profile]
        BY DEF PipelineInv, TypeOK, Profile
      <4> QED BY <2>2, <4>1, <4>2 DEF Profile
    <3> QED BY <3>1, <3>2, LoneGoesOn
  <2> QED BY <1>2, <2>3, <2>4, <2>5, <2>6, <2>7 DEF WriteDocument
<1> QED BY <1>1, <1>2

LEMMA LoneListStale ==
  ASSUME PipelineInv, NEW p \in Procs, Lone(p), ListStale(p)
  PROVE  Lone(p)'
<1>1. /\ sync'[p].pc = "delete" /\ sync'[p].todo = Stale(p) /\ sync'[p].found = sync[p].found
      /\ \A q \in Procs \ {p} : sync'[q] = sync[q]
  BY ListStaleFields
<1>2. sync[p].pc = "stale" /\ UNCHANGED <<documents, profiles, backfill>>
  BY DEF ListStale, At, store
<1>3. Apart(p)'
  BY <1>1, <1>2, ApartKept DEF Lone
<1>4. Unwritten(sync[p]) = {} /\ Unwritten(sync'[p]) = {}
  BY <1>1, <1>2 DEF Unwritten
<1>5. Written(p)'
  BY <1>1, <1>2, <1>4 DEF Lone, Written
<1>6. Stale(p)' = Stale(p)
  BY <1>1, <1>2 DEF Stale
<1> QED BY <1>1, <1>3, <1>5, <1>6 DEF Lone, HasRow, Cleared, Drawn, UnderWay, At, Drawing, Linking

LEMMA LoneDeleteStale ==
  ASSUME PipelineInv, NEW p \in Procs, Lone(p), DeleteStale(p)
  PROVE  Lone(p)'
<1>1. /\ sync'[p].pc = (IF Present(sync[p].found) = {} THEN "finish" ELSE "graph")
      /\ sync'[p].todo = Present(sync[p].found) /\ sync'[p].found = sync[p].found
      /\ \A q \in Procs \ {p} : sync'[q] = sync[q]
  BY DeleteStaleFields
<1>2. /\ sync[p].pc = "delete" /\ backfill' = backfill
      /\ documents' = [d \in Docs |-> IF d \in sync[p].todo THEN None ELSE documents[d]]
      /\ profiles' = [d \in Docs |-> IF d \in sync[p].todo THEN NoProfile ELSE profiles[d]]
  BY Zenon DEF DeleteStale, At
<1>3. sync[p].todo = Stale(p)
  BY <1>2 DEF Lone, Cleared, At
<1>4. sync'[p].pc \in {"finish", "graph"}
  BY <1>1
<1>5. Apart(p)'
  BY <1>1, <1>2, <1>4, ApartKept DEF Lone
<1>6. Unwritten(sync[p]) = {} /\ Unwritten(sync'[p]) = {}
  BY <1>2, <1>4 DEF Unwritten
<1>7. Written(p)'
  <2>1. ASSUME NEW d \in Present(sync[p].found)
        PROVE  documents'[d] = sync[p].found[d] /\ profiles'[d].hash = sync[p].found[d]
    <3>1. d \in Docs /\ d \notin Stale(p)
      BY DEF Present, Stale
    <3>2. documents[d] = sync[p].found[d] /\ profiles[d].hash = sync[p].found[d]
      BY <1>6 DEF Lone, Written
    <3> QED BY <1>2, <1>3, <3>1, <3>2
  <2> QED BY <1>1, <2>1 DEF Written
<1>8. Cleared(p)'
  <2>1. \A d \in Docs : sync[p].found[d] = None => documents'[d] = None
    BY <1>2, <1>3 DEF Stale
  <2> QED BY <1>1, <1>4, <2>1 DEF Cleared, At
<1>9. Present(sync'[p].found) \ Undrawn(sync'[p]) = {}
  BY <1>1, <1>4 DEF Undrawn, Linking
<1> QED BY <1>4, <1>5, <1>7, <1>8, <1>9 DEF Lone, HasRow, Drawn, UnderWay, Linking

(* The steps that draw: no row changes, and no link is lost. *)
LEMMA LoneDraws ==
  ASSUME PipelineInv, NEW p \in Procs, Lone(p), sync[p].pc \in Drawing,
         sync'[p].pc \in Drawing, sync'[p].found = sync[p].found,
         \A q \in Procs \ {p} : sync'[q] = sync[q],
         UNCHANGED <<documents, profiles, backfill>>,
         owned \subseteq owned', \A s \in AllSections : Linked(s) => Linked(s)'
  PROVE  /\ Apart(p)' /\ Written(p)' /\ HasRow(p)' /\ Cleared(p)'
         /\ \A d \in Present(sync[p].found) \ Undrawn(sync[p]) :
               d \in owned' /\ \A s \in Content[d][sync[p].found[d]] : Linked(s)'
<1>1. Apart(p)'
  BY ApartKept DEF Lone, Drawing, Linking
<1>2. Unwritten(sync[p]) = {} /\ Unwritten(sync'[p]) = {}
  BY DEF Unwritten, Drawing, Linking
<1>3. Written(p)'
  BY <1>2 DEF Lone, Written
<1>4. HasRow(p)' /\ Cleared(p)'
  BY DEF Lone, HasRow, Cleared, At, Drawing, Linking
<1>5. ASSUME NEW d \in Present(sync[p].found) \ Undrawn(sync[p])
      PROVE  d \in owned' /\ \A s \in Content[d][sync[p].found[d]] : Linked(s)'
  <2>1. d \in owned /\ \A s \in Content[d][sync[p].found[d]] : Linked(s)
    BY DEF Lone, Drawn
  <2>2. d \in Docs /\ sync[p].found[d] \in Hashes(d)
    BY DEF Present, PipelineInv, Grounded, Possible
  <2>3. Content[d][sync[p].found[d]] \subseteq AllSections
    BY <2>2, ContentFacts
  <2> QED BY <2>1, <2>3
<1> QED BY <1>1, <1>3, <1>4, <1>5

LEMMA LoneDrawGraph ==
  ASSUME PipelineInv, LinksWanted, NEW p \in Procs, Lone(p), DrawGraph(p)
  PROVE  Lone(p)'
<1>1. /\ UNCHANGED <<documents, profiles, backfill>>
      /\ sync[p].pc \in Drawing /\ sync[p].pc # "finish"
  BY DEF DrawGraph, GraphDocument, GraphSection, GraphEdge, GraphMentions, At, Drawing, Linking
<1>2. \A d \in Present(sync[p].found) : documents[d] # None
  BY <1>1 DEF Lone, Written, Unwritten, Drawing, Linking, Present
<1>3. CASE GraphDocument(p)
  <2>1. PICK d \in sync[p].todo :
            /\ UpsertNode(d, d)
            /\ d \in Docs /\ sync[p].found[d] \in Hashes(d) /\ d \in Present(sync[p].found)
            /\ sync'[p].pc = "node" /\ sync'[p].doc = d /\ sync'[p].todo = sync[p].todo \ {d}
            /\ sync'[p].rest = Content[d][sync[p].found[d]]
            /\ sync'[p].found = sync[p].found
            /\ \A q \in Procs \ {p} : sync'[q] = sync[q]
    BY <1>3, GraphDocumentFields
  <2>2. sync[p].pc = "graph" /\ edges' = edges
    BY <1>3 DEF GraphDocument, At
  <2>3. owned' = owned \cup {d}
    BY <1>2, <2>1 DEF UpsertNode
  <2>4. \A s \in AllSections : Linked(s) => Linked(s)'
    BY <2>2, <2>3 DEF Linked
  <2>5. /\ Apart(p)' /\ Written(p)' /\ HasRow(p)' /\ Cleared(p)'
        /\ \A e \in Present(sync[p].found) \ Undrawn(sync[p]) :
              e \in owned' /\ \A s \in Content[e][sync[p].found[e]] : Linked(s)'
    BY <1>1, <2>1, <2>3, <2>4, LoneDraws DEF Drawing, Linking
  <2>6. Undrawn(sync'[p]) = Undrawn(sync[p])
    BY <2>1, <2>2 DEF Undrawn, Linking
  <2>7. Drawn(p)'
    BY <2>1, <2>5, <2>6 DEF Drawn
  <2>8. UnderWay(p)'
    BY <2>1, <2>3 DEF UnderWay, Wanted, Doc, Unlinked, At
  <2> QED BY <2>5, <2>7, <2>8 DEF Lone
<1>4. CASE ~ GraphDocument(p)
  <2>1. /\ sync[p].pc \in Linking /\ Doc(p) \in Present(sync[p].found)
        /\ sync[p].rest \subseteq Wanted(p) /\ Wanted(p) \subseteq AllSections
        /\ sync[p].pc # "node" => sync[p].section \in Wanted(p)
        /\ Doc(p) \in owned /\ \A s \in Wanted(p) \ Unlinked(sync[p]) : Linked(s)
        /\ At(p, "edge") => sync[p].section \in owned
    <3>1. sync[p].pc \in Linking /\ sync[p].pc \in OnDocument
      BY <1>4 DEF DrawGraph, GraphSection, GraphEdge, GraphMentions, At, Linking, OnDocument,
         OnDocuments
    <3>2. Doc(p) \in Present(sync[p].found)
      BY <3>1 DEF PipelineInv, Grounded, Doc
    <3> QED BY <3>1, <3>2, WriterFacts DEF Lone, UnderWay, LinksWanted
  <2>2. Undrawn(sync[p]) = sync[p].todo \cup {Doc(p)}
    BY <2>1 DEF Undrawn, Linking, Doc
  <2>3. ASSUME sync'[p].pc \in Linking, sync'[p].doc = sync[p].doc, sync'[p].todo = sync[p].todo,
               sync'[p].found = sync[p].found, \A q \in Procs \ {p} : sync'[q] = sync[q],
               owned \subseteq owned', \A s \in AllSections : Linked(s) => Linked(s)',
               \A s \in Wanted(p) \ Unlinked(sync'[p]) : Linked(s)',
               At(p, "edge")' => sync'[p].section \in owned'
        PROVE  Lone(p)'
    <3>1. /\ Apart(p)' /\ Written(p)' /\ HasRow(p)' /\ Cleared(p)'
          /\ \A e \in Present(sync[p].found) \ Undrawn(sync[p]) :
                e \in owned' /\ \A s \in Content[e][sync[p].found[e]] : Linked(s)'
      BY <1>1, <2>3, LoneDraws DEF Drawing
    <3>2. Undrawn(sync'[p]) = Undrawn(sync[p])
      BY <2>1, <2>3 DEF Undrawn, Linking
    <3>3. Drawn(p)'
      BY <2>3, <3>1, <3>2 DEF Drawn
    <3>4. Wanted(p)' = Wanted(p) /\ Doc(p)' = Doc(p)
      BY <2>3 DEF Wanted, Doc
    <3>5. UnderWay(p)'
      BY <2>1, <2>3, <3>4 DEF UnderWay
    <3> QED BY <3>1, <3>3, <3>5 DEF Lone
  <2>4. CASE GraphSection(p)
    <3>1. PICK s \in sync[p].rest :
              /\ UpsertNode(s, Doc(p))
              /\ sync'[p].pc = "edge" /\ sync'[p].section = s
              /\ sync'[p].rest = sync[p].rest \ {s}
              /\ sync'[p].doc = sync[p].doc /\ sync'[p].todo = sync[p].todo
              /\ sync'[p].found = sync[p].found
              /\ \A q \in Procs \ {p} : sync'[q] = sync[q]
      BY <2>4, GraphSectionFields
    <3>2. sync[p].pc = "node" /\ edges' = edges
      BY <2>4 DEF GraphSection, At
    <3>3. owned' = owned \cup {s}
      BY <1>2, <2>1, <3>1 DEF UpsertNode
    <3>4. \A t \in AllSections : Linked(t) => Linked(t)'
      BY <3>2, <3>3 DEF Linked
    <3>5. Unlinked(sync'[p]) = Unlinked(sync[p])
      BY <3>1, <3>2 DEF Unlinked
    <3>6. \A t \in Wanted(p) \ Unlinked(sync'[p]) : Linked(t)'
      BY <2>1, <3>4, <3>5
    <3> QED BY <2>3, <3>1, <3>3, <3>4, <3>6 DEF Linking
  <2>5. CASE GraphEdge(p)
    <3>1. /\ Step(p, "mentions") /\ owned' = owned /\ sync[p].pc = "edge"
          /\ edges' = [edges EXCEPT ![sync[p].section] = "backed"]
      BY <2>5 DEF GraphEdge, At
    <3>2. /\ sync'[p].pc = "mentions" /\ sync'[p].found = sync[p].found
          /\ sync'[p].todo = sync[p].todo /\ sync'[p].doc = sync[p].doc
          /\ sync'[p].rest = sync[p].rest
          /\ \A q \in Procs \ {p} : sync'[q] = sync[q]
      BY <3>1, StepFields
    <3>3. \A t \in AllSections : edges'[t] = IF t = sync[p].section THEN "backed" ELSE edges[t]
      BY <3>1 DEF PipelineInv, TypeOK
    <3>4. \A t \in AllSections : Linked(t) => Linked(t)'
      BY <3>1, <3>3 DEF Linked
    <3>5. PICK u \in Wanted(p) : u = sync[p].section
      BY <2>1, <3>1
    <3>6. Linked(u)' /\ Wanted(p) \ Unlinked(sync'[p]) \subseteq (Wanted(p) \ Unlinked(sync[p])) \cup {u}
      BY <2>1, <3>1, <3>2, <3>3, <3>5 DEF Linked, At, Unlinked
    <3>7. \A t \in Wanted(p) \ Unlinked(sync'[p]) : Linked(t)'
      BY <2>1, <3>4, <3>5, <3>6
    <3> QED BY <2>3, <3>1, <3>2, <3>4, <3>7 DEF Linking, At
  <2>6. CASE GraphMentions(p)
    <3>1. owned' = owned /\ edges' = edges /\ sync[p].pc = "mentions"
      BY <2>6 DEF GraphMentions, At
    <3>2. \A t : Linked(t) <=> Linked(t)'
      BY <3>1 DEF Linked
    <3>3. CASE sync[p].rest # {}
      <4>1. /\ sync'[p].pc = "node" /\ sync'[p].found = sync[p].found
            /\ sync'[p].todo = sync[p].todo /\ sync'[p].doc = sync[p].doc
            /\ sync'[p].rest = sync[p].rest
            /\ \A q \in Procs \ {p} : sync'[q] = sync[q]
        BY <2>6, <3>3, StepFields DEF GraphMentions
      <4>2. Unlinked(sync'[p]) = Unlinked(sync[p])
        BY <3>1, <4>1 DEF Unlinked
      <4> QED BY <2>1, <2>3, <3>1, <3>2, <4>1, <4>2 DEF Linking, At
    <3>4. CASE sync[p].rest = {}
      <4>1. /\ sync'[p].pc = (IF sync[p].todo # {} THEN "graph" ELSE "finish")
            /\ sync'[p].todo = sync[p].todo /\ sync'[p].found = sync[p].found
            /\ \A q \in Procs \ {p} : sync'[q] = sync[q]
        BY <2>6, <3>4, LastSectionFields
      <4>2. sync'[p].pc \in {"graph", "finish"}
        BY <4>1
      <4>3. /\ Apart(p)' /\ Written(p)' /\ HasRow(p)' /\ Cleared(p)'
            /\ \A e \in Present(sync[p].found) \ Undrawn(sync[p]) :
                  e \in owned' /\ \A s \in Content[e][sync[p].found[e]] : Linked(s)'
        BY <1>1, <3>1, <3>2, <4>1, <4>2, LoneDraws DEF Drawing
      <4>4. Undrawn(sync'[p]) = sync[p].todo
        BY <4>1, <4>2 DEF Undrawn, Linking
      <4>5. Unlinked(sync[p]) = {}
        BY <3>1, <3>4 DEF Unlinked
      <4>6. Doc(p) \in owned' /\ \A s \in Content[Doc(p)][sync[p].found[Doc(p)]] : Linked(s)'
        BY <2>1, <3>1, <3>2, <4>5 DEF Wanted
      <4>7. Drawn(p)'
        BY <2>2, <4>1, <4>3, <4>4, <4>6 DEF Drawn
      <4>8. UnderWay(p)'
        BY <4>2 DEF UnderWay, Linking
      <4> QED BY <4>3, <4>7, <4>8 DEF Lone
    <3> QED BY <3>3, <3>4
  <2> QED BY <1>4, <2>4, <2>5, <2>6 DEF DrawGraph
<1> QED BY <1>3, <1>4

LEMMA LoneStep ==
  ASSUME PipelineInv, LinksWanted, LoneInv, [Next]_vars
  PROVE  LoneInv'
<1>1. ASSUME UNCHANGED <<documents, sync, backfill, owned, edges>>,
             \A d \in Docs : profiles'[d].hash = profiles[d].hash
      PROVE  LoneInv'
  <2>1. ASSUME NEW p \in Procs, Lone(p) PROVE Lone(p)'
    <3>1. Apart(p)' /\ HasRow(p)' /\ Cleared(p)' /\ Drawn(p)' /\ UnderWay(p)'
      BY <1>1, <2>1 DEF Lone, Apart, HasRow, Cleared, Drawn, UnderWay, Running, Stale, Linked, At,
         Doc, Wanted
    <3>2. Written(p)'
      BY <1>1, <2>1 DEF Lone, Written, Present
    <3> QED BY <3>1, <3>2 DEF Lone
  <2> QED BY <1>1, <2>1 DEF LoneInv
<1>2. ASSUME NEW q \in Procs, SyncStep(q) PROVE LoneInv'
  <2> SUFFICES ASSUME NEW p \in Procs, sync'[p].alone PROVE Lone(p)'
    BY DEF LoneInv
  <2>1. p = q
    BY <1>2, OthersRest
  <2>2. CASE Fetch(p)
    BY <2>2, LoneFetch
  <2>3. CASE Finish(p) \/ Fail(p)
    BY <2>3, EndFields
  <2>4. CASE WriteDocument(p)
    <3>1. sync'[p].alone = sync[p].alone
      <4>1. CASE PlanDocument(p)
        BY <4>1, PlanDocumentFields
      <4>2. CASE ReadEntities(p)
        BY <4>2, ReadEntitiesFields, NextDocFields DEF ReadEntities
      <4>3. CASE PlanProfile(p) \/ UpsertProfile(p)
        BY <4>3, NextDocFields, StepFields DEF PlanProfile, UpsertProfile
      <4>4. CASE ReplaceDocument(p) \/ ReplaceSectionEntities(p)
        BY <4>4, StepFields DEF ReplaceDocument, ReplaceSectionEntities
      <4> QED BY <2>4, <4>1, <4>2, <4>3, <4>4 DEF WriteDocument
    <3> QED BY <2>4, <3>1, LoneWriteDocument DEF LoneInv
  <2>5. CASE ListStale(p)
    BY <2>5, ListStaleFields, LoneListStale DEF LoneInv
  <2>6. CASE DeleteStale(p)
    BY <2>6, DeleteStaleFields, LoneDeleteStale DEF LoneInv
  <2>7. CASE DrawGraph(p)
    <3>1. sync'[p].alone = sync[p].alone
      <4>1. CASE GraphDocument(p)
        BY <4>1, GraphDocumentFields
      <4>2. CASE GraphSection(p)
        BY <4>2, GraphSectionFields
      <4>3. CASE GraphEdge(p)
        BY <4>3, StepFields DEF GraphEdge
      <4>4. CASE GraphMentions(p) /\ sync[p].rest # {}
        BY <4>4, StepFields DEF GraphMentions
      <4>5. CASE GraphMentions(p) /\ sync[p].rest = {}
        BY <4>5, LastSectionFields
      <4> QED BY <2>7, <4>1, <4>2, <4>3, <4>4, <4>5 DEF DrawGraph
    <3> QED BY <2>7, <3>1, LoneDrawGraph DEF LoneInv
  <2> QED BY <1>2, <2>1, <2>2, <2>3, <2>4, <2>5, <2>6, <2>7 DEF SyncStep
<1>3. ASSUME NEW d \in Docs, Describe(d) PROVE LoneInv'
  <2>1. \A e \in Docs : profiles'[e].hash = profiles[e].hash
    <3>1. profiles \in [Docs -> Profile] /\ profiles' = [profiles EXCEPT ![d].desc = TRUE]
      BY <1>3 DEF Describe, PipelineInv, TypeOK, Profile
    <3> QED BY <3>1 DEF Profile
  <2> QED BY <1>1, <1>3, <2>1 DEF Describe, graph
<1>4. ASSUME NEW d \in Docs, BackfillRead(d) PROVE LoneInv'
  <2>1. \A p \in Procs : sync'[p] = [sync[p] EXCEPT !.alone = FALSE] /\ sync[p] \in SyncRun
    BY <1>4 DEF BackfillRead, PipelineInv, TypeOK
  <2>2. \A p \in Procs : sync'[p].alone = FALSE
    BY <2>1 DEF SyncRun
  <2> QED BY <2>2 DEF LoneInv
<1>5. CASE BackfillWrite
  BY <1>5 DEF BackfillWrite, LoneInv, Lone, Apart
<1>6. CASE UNCHANGED <<store, sync, backfill>>
  BY <1>1, <1>6 DEF store
<1> QED BY <1>2, <1>3, <1>4, <1>5, <1>6 DEF Next, Edit, vars

(* What hangs on rows, what deletions leave, and how far lone runs are: the
   invariants together. *)
IndexInv ==
    /\ PipelineInv /\ RowsCarry /\ LinksWanted /\ LoneInv
    /\ StoredInv /\ OwnedInv /\ EndsInv

LEMMA IndexInit == Init => IndexInv
<1> SUFFICES ASSUME Init PROVE IndexInv
  OBVIOUS
<1>1. \A p \in Procs : sync[p] = Idle
  BY DEF Init
<1>2. RowsCarry
  BY DEF Init, RowsCarry
<1>3. LinksWanted
  BY <1>1 DEF LinksWanted, Linking, Idle
<1>4. LoneInv
  BY <1>1 DEF LoneInv, Idle
<1>5. StoredInv
  BY <1>1 DEF StoredInv, Stored, Running, Idle
<1>6. OwnedInv
  BY DEF Init, OwnedInv
<1>7. EndsInv
  <2>1. \A d \in Docs : OfDoc(d) \subseteq AllSections
    BY ContentFacts
  <2> QED BY <2>1 DEF Init, EndsInv
<1> QED BY <1>2, <1>3, <1>4, <1>5, <1>6, <1>7, PipelineInit DEF IndexInv

LEMMA IndexStep == IndexInv /\ [Next]_vars => IndexInv'
  BY PipelineStep, RowsCarryStep, LinksWantedStep, LoneStep, StoredStep, OwnedStep, EndsStep
  DEF IndexInv

(* A run that loaded the source, wrote, deleted and drew with no other writer
   beside it leaves the index of what it loaded, whatever rows and graph failed,
   killed and overlapping runs had left; and nothing at all, in rows or graph,
   of the documents it did not find, but for nodes some run drew of a document
   that another one deleted under its hands. *)
THEOREM LoneSyncsRepair == Spec => []LoneSyncIndexes
<1>1. IndexInv => LoneSyncIndexes
  <2> SUFFICES ASSUME IndexInv, NEW p \in Procs, At(p, "finish"), sync[p].alone,
                      NEW d \in Docs
               PROVE  /\ documents[d] = sync[p].found[d]
                      /\ IF documents[d] = None
                           THEN /\ profiles[d] = NoProfile
                                /\ owned \cap ({d} \cup OfDoc(d)) = {}
                                /\ d \notin crossed => Erased(d)
                           ELSE /\ profiles[d].hash = documents[d]
                                /\ {d} \cup Content[d][documents[d]] \subseteq owned
                                /\ \A s \in Content[d][documents[d]] : edges[s] = "backed"
    BY DEF LoneSyncIndexes, Indexed
  <2>1. Lone(p)
    BY DEF IndexInv, LoneInv
  <2>2. Unwritten(sync[p]) = {} /\ Undrawn(sync[p]) = {} /\ sync[p].pc \in Drawing
    BY DEF At, Unwritten, Undrawn, Drawing, Linking
  <2>3. CASE sync[p].found[d] = None
    <3>1. documents[d] = None
      BY <2>1, <2>2, <2>3 DEF Lone, Cleared
    <3>2. profiles[d] = NoProfile /\ owned \cap ({d} \cup OfDoc(d)) = {}
      BY <3>1 DEF IndexInv, RowsCarry
    <3>3. d \notin crossed => nodes \cap ({d} \cup OfDoc(d)) = {}
      BY <3>2 DEF IndexInv, OwnedInv
    <3>4. d \notin crossed => Erased(d)
      BY <3>3 DEF Erased, IndexInv, EndsInv
    <3> QED BY <2>3, <3>1, <3>2, <3>4
  <2>4. CASE sync[p].found[d] # None
    <3>1. d \in Present(sync[p].found)
      BY <2>4 DEF Present
    <3>2. documents[d] = sync[p].found[d] /\ profiles[d].hash = sync[p].found[d]
      BY <2>1, <2>2, <3>1 DEF Lone, Written
    <3>3. d \in owned /\ \A s \in Content[d][sync[p].found[d]] : Linked(s)
      BY <2>1, <2>2, <3>1 DEF Lone, Drawn
    <3> QED BY <2>4, <3>2, <3>3 DEF Linked
  <2> QED BY <2>3, <2>4
<1> QED BY <1>1, IndexInit, IndexStep, PTL DEF Spec

-----------------------------------------------------------------------------
(* As long as no sync failed or overlapped another writer *)

(* Only the document whose sections were just replaced lacks its entities. *)
Told ==
    \A s \in sections \ entities : \E p \in Procs : At(p, "entities") /\ s \in OfDoc(Doc(p))

Full == \A d \in Docs : profiles[d].hash # None => profiles[d].full

KnowsAll(p) == At(p, "upsert") => sync[p].known = Wanted(p)

(* The sections of the document under way whose API edges are still to come. *)
Unmentioned(r) == IF r.pc \in {"edge", "mentions"} THEN r.rest \cup {r.section} ELSE r.rest

Mentioned(p) ==
    sync[p].pc \in Drawing =>
        \A d \in Present(sync[p].found) \ Undrawn(sync[p]) :
            Content[d][sync[p].found[d]] \subseteq mentions

Mentioning(p) ==
    sync[p].pc \in Linking =>
        /\ Wanted(p) \subseteq sync[p].known
        /\ Wanted(p) \ Unmentioned(sync[p]) \subseteq mentions

CleanInv ==
    clean =>
        /\ \A p \in Procs : Running(p) => sync[p].alone
        /\ backfill # NoBackfill => backfill.read = sections \cap OfDoc(backfill.doc)
        /\ Told
        /\ Full
        /\ \A p \in Procs : KnowsAll(p) /\ Mentioned(p) /\ Mentioning(p)

(* While one runs it is alone, and all entities are there but those it is about
   to write. *)
LEMMA CleanRun ==
  ASSUME PipelineInv, LoneInv, CleanInv, clean, NEW p \in Procs, Running(p)
  PROVE  /\ sync[p].alone /\ Lone(p) /\ backfill = NoBackfill
         /\ \A q \in Procs \ {p} : sync[q].pc = "idle"
         /\ Full /\ KnowsAll(p) /\ Mentioned(p) /\ Mentioning(p)
         /\ \A s \in sections \ entities : At(p, "entities") /\ s \in OfDoc(Doc(p))
<1>1. sync[p].alone /\ Lone(p)
  BY DEF CleanInv, LoneInv
<1>2. backfill = NoBackfill /\ \A q \in Procs \ {p} : sync[q].pc = "idle"
  BY <1>1 DEF Lone, Apart, Running
<1>3. \A s \in sections \ entities : At(p, "entities") /\ s \in OfDoc(Doc(p))
  BY <1>2 DEF CleanInv, Told, At
<1> QED BY <1>1, <1>2, <1>3 DEF CleanInv

(* What is to be shown of a step of that run. *)
LEMMA CleanRunStep ==
  ASSUME PipelineInv, LoneInv, CleanInv, clean, NEW p \in Procs, Running(p),
         sync'[p].alone = sync[p].alone, \A q \in Procs \ {p} : sync'[q] = sync[q],
         backfill' = backfill, Told', Full', KnowsAll(p)', Mentioned(p)', Mentioning(p)'
  PROVE  CleanInv'
<1>1. /\ sync[p].alone /\ backfill = NoBackfill
      /\ \A q \in Procs \ {p} : sync[q].pc = "idle"
  BY CleanRun
<1>2. \A q \in Procs \ {p} : sync'[q].pc = "idle"
  BY <1>1
<1>3. \A q \in Procs \ {p} : ~ Running(q)' /\ KnowsAll(q)' /\ Mentioned(q)' /\ Mentioning(q)'
  BY <1>2 DEF Running, KnowsAll, Mentioned, Mentioning, At, Drawing, Linking
<1> QED BY <1>1, <1>3 DEF CleanInv

LEMMA CleanNextDoc ==
  ASSUME PipelineInv, LoneInv, CleanInv, clean, NEW p \in Procs, NextDoc(p),
         sync[p].pc \in {"check", "profile", "upsert"}, Full',
         UNCHANGED <<sections, entities, backfill>>
  PROVE  CleanInv'
<1>1. /\ sync'[p].pc = (IF sync[p].todo = {} THEN "stale" ELSE "plan")
      /\ sync'[p].alone = sync[p].alone /\ \A q \in Procs \ {p} : sync'[q] = sync[q]
  BY NextDocFields
<1>2. sync'[p].pc \in {"stale", "plan"}
  BY <1>1
<1>3. Running(p) /\ sections \subseteq entities
  BY CleanRun DEF Running, At
<1>4. Told' /\ KnowsAll(p)' /\ Mentioned(p)' /\ Mentioning(p)'
  BY <1>2, <1>3 DEF Told, KnowsAll, Mentioned, Mentioning, At, Drawing, Linking
<1> QED BY <1>1, <1>3, <1>4, CleanRunStep

LEMMA CleanWrites ==
  ASSUME PipelineInv, LoneInv, CleanInv, clean, NEW p \in Procs, Running(p),
         sync'[p].pc \in {"check", "replace", "profile", "delete", "plan", "stale"},
         sync'[p].alone = sync[p].alone, \A q \in Procs \ {p} : sync'[q] = sync[q],
         sections' \subseteq entities', Full', UNCHANGED backfill
  PROVE  CleanInv'
<1>1. Told' /\ KnowsAll(p)' /\ Mentioned(p)' /\ Mentioning(p)'
  BY DEF Told, KnowsAll, Mentioned, Mentioning, At, Drawing, Linking
<1> QED BY <1>1, CleanRunStep

LEMMA CleanWriteDocument ==
  ASSUME PipelineInv, HashTellsSections, LoneInv, CleanInv, clean, NEW p \in Procs, WriteDocument(p)
  PROVE  CleanInv'
<1>1. Running(p) /\ backfill' = backfill
  BY DEF WriteDocument, PlanDocument, PlanProfile, ReplaceDocument, ReplaceSectionEntities,
     ReadEntities, UpsertProfile, At, Running
<1>2. Full
  BY <1>1, CleanRun
<1>3. Lone(p) /\ \A s \in sections \ entities : At(p, "entities") /\ s \in OfDoc(Doc(p))
  BY <1>1, CleanRun
<1>4. CASE PlanDocument(p)
  <2>1. UNCHANGED <<sections, entities, profiles>> /\ sync[p].pc = "plan"
    BY <1>4 DEF PlanDocument, store, At
  <2>2. sync'[p].pc \in {"check", "replace"} /\ sync'[p].alone = sync[p].alone
        /\ \A q \in Procs \ {p} : sync'[q] = sync[q]
    BY <1>4, PlanDocumentFields
  <2> QED BY <1>1, <1>2, <1>3, <2>1, <2>2, CleanWrites DEF Full, At
<1>5. CASE PlanProfile(p)
  <2>1. UNCHANGED <<sections, entities, profiles>> /\ sync[p].pc = "check"
    BY <1>5 DEF PlanProfile, store, At
  <2>2. CASE NextDoc(p)
    BY <1>1, <1>2, <2>1, <2>2, CleanNextDoc DEF Full
  <2>3. CASE Step(p, "profile")
    <3>1. /\ sync'[p].pc = "profile" /\ sync'[p].alone = sync[p].alone
          /\ \A q \in Procs \ {p} : sync'[q] = sync[q]
      BY <2>3, StepFields
    <3> QED BY <1>1, <1>2, <1>3, <2>1, <3>1, CleanWrites DEF Full, At
  <2> QED BY <1>5, <2>2, <2>3 DEF PlanProfile
<1>6. CASE ~ PlanDocument(p)
  <2>1. sync[p].pc \in OnDocument
    BY <1>6 DEF WriteDocument, PlanProfile, ReplaceDocument, ReplaceSectionEntities, ReadEntities,
       UpsertProfile, At, OnDocument, OnDocuments
  <2>2. Doc(p) \in Docs /\ Wanted(p) \subseteq OfDoc(Doc(p)) /\ sync[p].found[Doc(p)] # None
    BY <2>1, WriterFacts, ContentFacts
  <2>3. sync[p].pc \in {"entities", "profile", "upsert"} => sections \cap OfDoc(Doc(p)) = Wanted(p)
    BY <1>3, <2>2 DEF Lone, HasRow, HashTellsSections, Wanted
  <2>4. CASE ReplaceDocument(p)
    <3>1. /\ sync[p].pc = "replace" /\ Step(p, "entities") /\ profiles' = profiles
          /\ sections' = (sections \ OfDoc(Doc(p))) \cup Wanted(p)
          /\ entities' = entities \ OfDoc(Doc(p))
      BY <2>4 DEF ReplaceDocument, At
    <3>2. /\ sync'[p].pc = "entities" /\ sync'[p].doc = sync[p].doc
          /\ sync'[p].alone = sync[p].alone /\ \A q \in Procs \ {p} : sync'[q] = sync[q]
      BY <3>1, StepFields
    <3>3. \A s \in sections' \ entities' : s \in OfDoc(Doc(p))
      BY <1>3, <2>2, <3>1 DEF At
    <3>4. Told'
      <4>1. Doc(p)' = Doc(p) /\ At(p, "entities")'
        BY <3>2 DEF Doc, At
      <4> QED BY <3>3, <4>1 DEF Told, OfDoc
    <3>5. Full' /\ KnowsAll(p)' /\ Mentioned(p)' /\ Mentioning(p)'
      BY <1>2, <3>1, <3>2 DEF Full, KnowsAll, Mentioned, Mentioning, At, Drawing, Linking
    <3> QED BY <1>1, <3>2, <3>4, <3>5, CleanRunStep
  <2>5. CASE ReplaceSectionEntities(p)
    <3>1. /\ sync[p].pc = "entities" /\ Step(p, "profile")
          /\ UNCHANGED <<sections, profiles>>
          /\ entities' = (entities \ OfDoc(Doc(p))) \cup Wanted(p)
      BY <2>5 DEF ReplaceSectionEntities, At
    <3>2. /\ sync'[p].pc = "profile"
          /\ sync'[p].alone = sync[p].alone /\ \A q \in Procs \ {p} : sync'[q] = sync[q]
      BY <3>1, StepFields
    <3>3. sections' \subseteq entities'
      BY <1>3, <2>3, <3>1
    <3> QED BY <1>1, <1>2, <3>1, <3>2, <3>3, CleanWrites DEF Full
  <2>6. CASE ReadEntities(p)
    <3>1. UNCHANGED <<sections, entities, profiles>> /\ sync[p].pc = "profile"
      BY <2>6 DEF ReadEntities, store, At
    <3>2. CASE profiles[Doc(p)].hash = sync[p].found[Doc(p)]
      BY <1>1, <1>2, <2>6, <3>1, <3>2, CleanNextDoc DEF ReadEntities, Full
    <3>3. CASE profiles[Doc(p)].hash # sync[p].found[Doc(p)]
      <4>1. /\ sync'[p].pc = "upsert" /\ sync'[p].known = entities \cap OfDoc(Doc(p))
            /\ sync'[p].found = sync[p].found /\ sync'[p].alone = sync[p].alone
            /\ sync'[p].doc = sync[p].doc /\ \A q \in Procs \ {p} : sync'[q] = sync[q]
        BY <2>6, <3>3, ReadEntitiesFields
      <4>2. sections = entities
        BY <1>3, <3>1 DEF At, PipelineInv, TypeOK
      <4>3. KnowsAll(p)'
        BY <2>3, <3>1, <4>1, <4>2 DEF KnowsAll, Wanted, Doc
      <4>4. Told' /\ Full' /\ Mentioned(p)' /\ Mentioning(p)'
        BY <1>2, <3>1, <4>1, <4>2 DEF Told, Full, Mentioned, Mentioning, Drawing, Linking
      <4> QED BY <1>1, <4>1, <4>3, <4>4, CleanRunStep
    <3> QED BY <3>2, <3>3
  <2>7. CASE UpsertProfile(p)
    <3>1. UNCHANGED <<sections, entities>> /\ sync[p].pc = "upsert" /\ NextDoc(p)
      BY <2>7 DEF UpsertProfile, At
    <3>2. Full'
      <4> DEFINE full == sync[p].known = Wanted(p)
      <4>1. profiles' = [profiles EXCEPT ![Doc(p)] =
                           [@ EXCEPT !.hash = sync[p].found[Doc(p)], !.full = full]]
        BY <2>7, Zenon DEF UpsertProfile
      <4>2. full = TRUE
        BY <1>1, <3>1, CleanRun DEF KnowsAll, At
      <4> HIDE DEF full
      <4>3. profiles \in [Docs -> Profile]
        BY DEF PipelineInv, TypeOK, Profile
      <4>4. /\ profiles'[Doc(p)].full
            /\ \A d \in Docs \ {Doc(p)} : profiles'[d] = profiles[d]
        BY <2>2, <4>1, <4>2, <4>3 DEF Profile
      <4> QED BY <1>2, <4>4 DEF Full
    <3> QED BY <1>1, <3>1, <3>2, CleanNextDoc
  <2> QED BY <1>5, <1>6, <2>4, <2>5, <2>6, <2>7 DEF WriteDocument
<1> QED BY <1>4, <1>6

LEMMA CleanDeletes ==
  ASSUME PipelineInv, LoneInv, CleanInv, clean, NEW p \in Procs, ListStale(p) \/ DeleteStale(p)
  PROVE  CleanInv'
<1>1. Running(p) /\ backfill' = backfill /\ sync[p].pc \in {"stale", "delete"}
  BY DEF ListStale, DeleteStale, At, Running
<1>2. Full /\ sections \subseteq entities
  BY <1>1, CleanRun DEF At
<1>3. CASE ListStale(p)
  <2>1. UNCHANGED <<sections, entities, profiles>>
    BY <1>3 DEF ListStale, store
  <2> QED BY <1>1, <1>2, <1>3, <2>1, ListStaleFields, CleanWrites DEF Full
<1>4. CASE DeleteStale(p)
  <2> DEFINE secs == UNION {OfDoc(d) : d \in sync[p].todo}
  <2>1. /\ profiles' = [d \in Docs |-> IF d \in sync[p].todo THEN NoProfile ELSE profiles[d]]
        /\ sections' = sections \ secs /\ entities' = entities \ secs
    BY <1>4, Zenon DEF DeleteStale
  <2>2. /\ sync'[p].pc = (IF Present(sync[p].found) = {} THEN "finish" ELSE "graph")
        /\ sync'[p].todo = Present(sync[p].found) /\ sync'[p].found = sync[p].found
        /\ sync'[p].alone = sync[p].alone
        /\ \A q \in Procs \ {p} : sync'[q] = sync[q]
    BY <1>4, DeleteStaleFields
  <2>3. Told'
    <3> HIDE DEF secs
    <3> QED BY <1>2, <2>1 DEF Told
  <2>4. Full'
    BY <1>2, <2>1 DEF Full, NoProfile
  <2>5. sync'[p].pc \in {"finish", "graph"} /\ Present(sync'[p].found) \ Undrawn(sync'[p]) = {}
    BY <2>2 DEF Undrawn, Linking
  <2>6. KnowsAll(p)' /\ Mentioned(p)' /\ Mentioning(p)'
    BY <2>5 DEF KnowsAll, Mentioned, Mentioning, At, Linking
  <2> QED BY <1>1, <2>2, <2>3, <2>4, <2>6, CleanRunStep
<1> QED BY <1>3, <1>4

LEMMA CleanDrawGraph ==
  ASSUME PipelineInv, HashTellsSections, LinksWanted, LoneInv, CleanInv, clean,
         NEW p \in Procs, DrawGraph(p)
  PROVE  CleanInv'
<1>1. /\ Running(p) /\ sync[p].pc \in Drawing
      /\ UNCHANGED <<documents, sections, entities, profiles, backfill>>
  BY DEF DrawGraph, GraphDocument, GraphSection, GraphEdge, GraphMentions, At, Running, Drawing, Linking
<1>2. /\ Lone(p) /\ Full /\ Mentioned(p) /\ Mentioning(p)
      /\ \A s \in sections \ entities : At(p, "entities") /\ s \in OfDoc(Doc(p))
  BY <1>1, CleanRun
<1>3. sections \subseteq entities
  BY <1>1, <1>2 DEF At, Drawing, Linking
<1>4. Told' /\ Full'
  BY <1>1, <1>2, <1>3 DEF Told, Full
<1>5. CASE GraphDocument(p)
  <2>1. PICK d \in sync[p].todo :
            /\ d \in Docs /\ d \in Present(sync[p].found)
            /\ sync'[p].pc = "node" /\ sync'[p].doc = d /\ sync'[p].todo = sync[p].todo \ {d}
            /\ sync'[p].known = entities \cap OfDoc(d)
            /\ sync'[p].rest = Content[d][sync[p].found[d]]
            /\ sync'[p].found = sync[p].found /\ sync'[p].alone = sync[p].alone
            /\ \A q \in Procs \ {p} : sync'[q] = sync[q]
    BY <1>5, GraphDocumentFields
  <2>2. sync[p].pc = "graph" /\ mentions' = mentions
    BY <1>5 DEF GraphDocument, At
  <2>3. Undrawn(sync'[p]) = Undrawn(sync[p])
    BY <2>1, <2>2 DEF Undrawn, Linking
  <2>4. Mentioned(p)'
    BY <1>1, <1>2, <2>1, <2>2, <2>3 DEF Mentioned
  <2>5. Content[d][sync[p].found[d]] = sections \cap OfDoc(d)
    <3>1. documents[d] = sync[p].found[d] /\ sync[p].found[d] # None
      BY <1>2, <2>1, <2>2 DEF Lone, Written, Unwritten, Present
    <3> QED BY <2>1, <3>1 DEF HashTellsSections
  <2>6. Mentioning(p)'
    BY <1>3, <2>1, <2>5 DEF Mentioning, Wanted, Doc, Unmentioned
  <2>7. KnowsAll(p)'
    BY <2>1 DEF KnowsAll, At
  <2> QED BY <1>1, <1>4, <2>1, <2>4, <2>6, <2>7, CleanRunStep
<1>6. CASE ~ GraphDocument(p)
  <2>1. /\ sync[p].pc \in Linking
        /\ sync[p].pc # "node" => sync[p].section \in Wanted(p)
        /\ Wanted(p) \subseteq sync[p].known
        /\ Wanted(p) \ Unmentioned(sync[p]) \subseteq mentions
    <3>1. sync[p].pc \in Linking
      BY <1>6 DEF DrawGraph, GraphSection, GraphEdge, GraphMentions, At, Linking
    <3> QED BY <1>2, <3>1 DEF Mentioning, LinksWanted
  <2>2. Undrawn(sync[p]) = sync[p].todo \cup {Doc(p)}
    BY <2>1 DEF Undrawn, Linking, Doc
  <2>3. ASSUME sync'[p].pc \in Linking, sync'[p].doc = sync[p].doc, sync'[p].todo = sync[p].todo,
               sync'[p].found = sync[p].found, sync'[p].known = sync[p].known,
               sync'[p].alone = sync[p].alone, \A q \in Procs \ {p} : sync'[q] = sync[q],
               mentions \subseteq mentions', Wanted(p) \ Unmentioned(sync'[p]) \subseteq mentions'
        PROVE  CleanInv'
    <3>1. Undrawn(sync'[p]) = Undrawn(sync[p])
      BY <2>1, <2>3 DEF Undrawn, Linking
    <3>2. Mentioned(p)'
      BY <1>1, <1>2, <2>3, <3>1 DEF Mentioned
    <3>3. Wanted(p)' = Wanted(p)
      BY <2>3 DEF Wanted, Doc
    <3>4. Mentioning(p)'
      BY <2>1, <2>3, <3>3 DEF Mentioning
    <3>5. KnowsAll(p)'
      BY <2>3 DEF KnowsAll, At, Linking
    <3> QED BY <1>1, <1>4, <2>3, <3>2, <3>4, <3>5, CleanRunStep
  <2>4. CASE GraphSection(p)
    <3>1. PICK s \in sync[p].rest :
              /\ sync'[p].pc = "edge" /\ sync'[p].section = s
              /\ sync'[p].rest = sync[p].rest \ {s}
              /\ sync'[p].doc = sync[p].doc /\ sync'[p].todo = sync[p].todo
              /\ sync'[p].known = sync[p].known
              /\ sync'[p].found = sync[p].found /\ sync'[p].alone = sync[p].alone
              /\ \A q \in Procs \ {p} : sync'[q] = sync[q]
      BY <2>4, GraphSectionFields
    <3>2. sync[p].pc = "node" /\ mentions' = mentions
      BY <2>4 DEF GraphSection, At
    <3>3. Unmentioned(sync'[p]) = Unmentioned(sync[p])
      BY <3>1, <3>2 DEF Unmentioned
    <3> QED BY <2>1, <2>3, <3>1, <3>2, <3>3 DEF Linking
  <2>5. CASE GraphEdge(p)
    <3>1. Step(p, "mentions") /\ mentions' = mentions /\ sync[p].pc = "edge"
      BY <2>5 DEF GraphEdge, At
    <3>2. /\ sync'[p].pc = "mentions" /\ sync'[p].found = sync[p].found
          /\ sync'[p].todo = sync[p].todo /\ sync'[p].doc = sync[p].doc
          /\ sync'[p].rest = sync[p].rest /\ sync'[p].section = sync[p].section
          /\ sync'[p].known = sync[p].known /\ sync'[p].alone = sync[p].alone
          /\ \A q \in Procs \ {p} : sync'[q] = sync[q]
      BY <3>1, StepFields
    <3>3. Unmentioned(sync'[p]) = Unmentioned(sync[p])
      BY <3>1, <3>2 DEF Unmentioned
    <3> QED BY <2>1, <2>3, <3>1, <3>2, <3>3 DEF Linking
  <2>6. CASE GraphMentions(p)
    <3>1. sync[p].pc = "mentions" /\ mentions' = mentions \cup {sync[p].section}
      BY <2>1, <2>6 DEF GraphMentions, At
    <3>2. Unmentioned(sync[p]) = sync[p].rest \cup {sync[p].section}
      BY <3>1 DEF Unmentioned
    <3>3. Wanted(p) \ sync[p].rest \subseteq mentions'
      BY <2>1, <3>1, <3>2
    <3>4. CASE sync[p].rest # {}
      <4>1. /\ sync'[p].pc = "node" /\ sync'[p].found = sync[p].found
            /\ sync'[p].todo = sync[p].todo /\ sync'[p].doc = sync[p].doc
            /\ sync'[p].rest = sync[p].rest /\ sync'[p].known = sync[p].known
            /\ sync'[p].alone = sync[p].alone
            /\ \A q \in Procs \ {p} : sync'[q] = sync[q]
        BY <2>6, <3>4, StepFields DEF GraphMentions
      <4>2. Unmentioned(sync'[p]) = sync[p].rest
        BY <4>1 DEF Unmentioned
      <4> QED BY <2>3, <3>1, <3>3, <4>1, <4>2 DEF Linking
    <3>5. CASE sync[p].rest = {}
      <4>1. /\ sync'[p].pc = (IF sync[p].todo # {} THEN "graph" ELSE "finish")
            /\ sync'[p].todo = sync[p].todo /\ sync'[p].found = sync[p].found
            /\ sync'[p].alone = sync[p].alone
            /\ \A q \in Procs \ {p} : sync'[q] = sync[q]
        BY <2>6, <3>5, LastSectionFields
      <4>2. sync'[p].pc \in {"graph", "finish"} /\ Undrawn(sync'[p]) = sync[p].todo
        BY <4>1 DEF Undrawn, Linking
      <4>3. Content[Doc(p)][sync[p].found[Doc(p)]] \subseteq mentions'
        BY <3>3, <3>5 DEF Wanted
      <4>4. Mentioned(p)'
        BY <1>1, <1>2, <2>2, <3>1, <4>1, <4>2, <4>3 DEF Mentioned
      <4>5. KnowsAll(p)' /\ Mentioning(p)'
        BY <4>2 DEF KnowsAll, Mentioning, At, Linking
      <4> QED BY <1>1, <1>4, <4>1, <4>4, <4>5, CleanRunStep
    <3> QED BY <3>4, <3>5
  <2> QED BY <1>6, <2>4, <2>5, <2>6 DEF DrawGraph
<1> QED BY <1>5, <1>6

LEMMA CleanStep ==
  ASSUME PipelineInv, HashTellsSections, LinksWanted, LoneInv, CleanInv, [Next]_vars
  PROVE  CleanInv'
<1> SUFFICES ASSUME clean' PROVE CleanInv'
  BY DEF CleanInv
<1>1. ASSUME NEW p \in Procs, Fetch(p) PROVE CleanInv'
  <2>1. /\ sync'[p].pc = IF Present(origin) = {} THEN "stale" ELSE "plan"
        /\ sync'[p].alone = (backfill = NoBackfill /\ \A q \in Procs : ~ Running(q))
        /\ \A q \in Procs \ {p} : sync'[q].pc = sync[q].pc
        /\ clean' = (clean /\ backfill = NoBackfill /\ \A q \in Procs : ~ Running(q))
        /\ UNCHANGED <<store, backfill>>
    BY <1>1, FetchFields
  <2>2. clean /\ backfill = NoBackfill /\ sync'[p].alone /\ \A q \in Procs : sync[q].pc = "idle"
    BY <2>1 DEF Running
  <2>3. sync'[p].pc \in {"stale", "plan"} /\ \A q \in Procs \ {p} : sync'[q].pc = "idle"
    BY <2>1, <2>2
  <2>4. sections \subseteq entities /\ Full
    BY <2>2 DEF CleanInv, Told, At
  <2>5. Told' /\ Full'
    BY <2>1, <2>4 DEF Told, Full, store
  <2>6. \A q \in Procs : KnowsAll(q)' /\ Mentioned(q)' /\ Mentioning(q)'
    BY <2>3 DEF KnowsAll, Mentioned, Mentioning, At, Drawing, Linking
  <2>7. \A q \in Procs : Running(q)' => sync'[q].alone
    BY <2>2, <2>3 DEF Running
  <2> QED BY <2>1, <2>2, <2>5, <2>6, <2>7 DEF CleanInv
<1>2. ASSUME NEW p \in Procs, Finish(p) PROVE CleanInv'
  <2>1. clean /\ Running(p) /\ sync[p].pc = "finish" /\ UNCHANGED <<store, backfill>>
    BY <1>2 DEF Finish, At, Running
  <2>2. sync'[p].pc = "idle" /\ \A q \in Procs \ {p} : sync'[q] = sync[q]
    BY <1>2, EndFields
  <2>3. /\ \A q \in Procs \ {p} : sync[q].pc = "idle"
        /\ Full /\ sections \subseteq entities /\ backfill = NoBackfill
    BY <2>1, CleanRun DEF At
  <2>4. \A q \in Procs : sync'[q].pc = "idle"
    BY <2>2, <2>3
  <2>5. Told' /\ Full'
    BY <2>1, <2>3 DEF Told, Full, store
  <2>6. \A q \in Procs : ~ Running(q)' /\ KnowsAll(q)' /\ Mentioned(q)' /\ Mentioning(q)'
    BY <2>4 DEF Running, KnowsAll, Mentioned, Mentioning, At, Drawing, Linking
  <2> QED BY <2>1, <2>3, <2>5, <2>6 DEF CleanInv
<1>3. ASSUME NEW p \in Procs, SyncStep(p) PROVE CleanInv'
  <2>1. CASE WriteDocument(p)
    <3>1. clean
      BY <2>1 DEF WriteDocument, PlanDocument, PlanProfile, ReplaceDocument, ReplaceSectionEntities,
         ReadEntities, UpsertProfile
    <3> QED BY <2>1, <3>1, CleanWriteDocument
  <2>2. CASE ListStale(p) \/ DeleteStale(p)
    <3>1. clean
      BY <2>2 DEF ListStale, DeleteStale
    <3> QED BY <2>2, <3>1, CleanDeletes
  <2>3. CASE DrawGraph(p)
    <3>1. clean
      BY <2>3 DEF DrawGraph, GraphDocument, GraphSection, GraphEdge, GraphMentions
    <3> QED BY <2>3, <3>1, CleanDrawGraph
  <2>4. ~ Fail(p)
    BY DEF Fail
  <2> QED BY <1>1, <1>2, <1>3, <2>1, <2>2, <2>3, <2>4 DEF SyncStep
<1>4. ASSUME UNCHANGED <<sections, entities, sync, backfill, clean, mentions>>,
             \A d \in Docs : /\ profiles'[d].hash = profiles[d].hash
                             /\ profiles'[d].full = profiles[d].full
      PROVE  CleanInv'
  <2>1. Told' = Told /\ (Full => Full')
    BY <1>4 DEF Told, Full, At, Doc
  <2>2. \A p \in Procs : /\ Running(p)' = Running(p) /\ KnowsAll(p)' = KnowsAll(p)
                         /\ Mentioned(p)' = Mentioned(p) /\ Mentioning(p)' = Mentioning(p)
    BY <1>4 DEF Running, KnowsAll, Mentioned, Mentioning, At, Doc, Wanted
  <2> QED BY <1>4, <2>1, <2>2 DEF CleanInv
<1>5. ASSUME NEW d \in Docs, Describe(d) PROVE CleanInv'
  <2>1. \A e \in Docs : profiles'[e].hash = profiles[e].hash /\ profiles'[e].full = profiles[e].full
    <3>1. profiles \in [Docs -> Profile] /\ profiles' = [profiles EXCEPT ![d].desc = TRUE]
      BY <1>5 DEF Describe, PipelineInv, TypeOK, Profile
    <3> QED BY <3>1 DEF Profile
  <2> QED BY <1>4, <1>5, <2>1 DEF Describe, graph
<1>6. ASSUME NEW d \in Docs, BackfillRead(d) PROVE CleanInv'
  <2>1. clean /\ \A p \in Procs : sync[p].pc = "idle"
    BY <1>6 DEF BackfillRead, Running
  <2>2. UNCHANGED store /\ backfill' = [doc |-> d, read |-> sections \cap OfDoc(d)]
    BY <1>6 DEF BackfillRead
  <2>3. \A p \in Procs : sync'[p] = [sync[p] EXCEPT !.alone = FALSE] /\ sync[p] \in SyncRun
    BY <1>6 DEF BackfillRead, PipelineInv, TypeOK
  <2>4. \A p \in Procs : sync'[p].pc = "idle"
    BY <2>1, <2>3 DEF SyncRun
  <2>5. sections \subseteq entities /\ Full
    BY <2>1 DEF CleanInv, Told, At
  <2>6. Told' /\ Full'
    BY <2>2, <2>5 DEF Told, Full, store
  <2>7. \A p \in Procs : ~ Running(p)' /\ KnowsAll(p)' /\ Mentioned(p)' /\ Mentioning(p)'
    BY <2>4 DEF Running, KnowsAll, Mentioned, Mentioning, At, Drawing, Linking
  <2>8. backfill'.read = sections' \cap OfDoc(backfill'.doc)
    BY <2>2 DEF store
  <2> QED BY <2>6, <2>7, <2>8 DEF CleanInv, OfDoc
<1>7. CASE BackfillWrite
  <2>1. /\ clean /\ backfill # NoBackfill /\ backfill' = NoBackfill
        /\ UNCHANGED <<documents, sections, profiles, mentions, sync>>
    BY <1>7 DEF BackfillWrite, graph
  <2>2. /\ \A p \in Procs : ~ Running(p)
        /\ backfill.read = sections \cap OfDoc(backfill.doc) /\ Told /\ Full
    BY <2>1, CleanRun DEF CleanInv
  <2>3. sections \subseteq entities
    BY <2>2 DEF Told, Running, At
  <2>4. sections \subseteq entities'
    BY <1>7, <2>2, <2>3 DEF BackfillWrite
  <2>5. Told' /\ Full'
    BY <2>1, <2>2, <2>4 DEF Told, Full
  <2>6. \A p \in Procs : ~ Running(p)' /\ KnowsAll(p)' /\ Mentioned(p)' /\ Mentioning(p)'
    BY <2>1, <2>2 DEF Running, KnowsAll, Mentioned, Mentioning, At, Drawing, Linking
  <2> QED BY <2>1, <2>5, <2>6 DEF CleanInv
<1>8. CASE UNCHANGED <<store, sync, backfill, clean>>
  BY <1>4, <1>8 DEF store
<1> QED BY <1>3, <1>5, <1>6, <1>7, <1>8 DEF Next, Edit, vars

(* Through any sequence of edits, syncs, descriptions and backfills of which none
   failed or overlapped, each sync leaves every section found with its entities
   and API edges, and every profile built from all of them. *)
THEOREM CleanSyncsDerive == Spec => []CleanSyncDerives
<1>1. Init => HashTellsSections /\ CleanInv
  <2> SUFFICES ASSUME Init PROVE HashTellsSections /\ CleanInv
    OBVIOUS
  <2>1. \A p \in Procs : sync[p].pc = "idle"
    BY DEF Init, Idle
  <2>2. \A p \in Procs : ~ Running(p) /\ KnowsAll(p) /\ Mentioned(p) /\ Mentioning(p)
    BY <2>1 DEF Running, KnowsAll, Mentioned, Mentioning, At, Drawing, Linking
  <2>3. Told /\ Full /\ backfill = NoBackfill /\ HashTellsSections
    BY DEF Init, Told, Full, NoProfile, HashTellsSections
  <2> QED BY <2>2, <2>3 DEF CleanInv
<1>2. IndexInv /\ HashTellsSections /\ CleanInv /\ [Next]_vars => HashTellsSections' /\ CleanInv'
  BY HashStep, CleanStep DEF IndexInv
<1>3. IndexInv /\ HashTellsSections /\ CleanInv => CleanSyncDerives
  <2> SUFFICES ASSUME IndexInv, HashTellsSections, CleanInv, NEW p \in Procs, clean,
                      At(p, "finish"), NEW d \in Present(sync[p].found)
               PROVE  /\ Content[d][sync[p].found[d]] \subseteq entities \cap mentions
                      /\ profiles[d].full
    BY DEF CleanSyncDerives, Derived
  <2>1. /\ Lone(p) /\ Full /\ Mentioned(p)
        /\ \A s \in sections \ entities : At(p, "entities") /\ s \in OfDoc(Doc(p))
    BY CleanRun DEF IndexInv, Running, At
  <2>2. Unwritten(sync[p]) = {} /\ Undrawn(sync[p]) = {} /\ sync[p].pc \in Drawing
    BY DEF At, Unwritten, Undrawn, Drawing, Linking
  <2>3. d \in Docs /\ sync[p].found[d] # None
    BY DEF Present
  <2>4. documents[d] = sync[p].found[d] /\ profiles[d].hash = sync[p].found[d]
    BY <2>1, <2>2 DEF Lone, Written
  <2>5. Content[d][sync[p].found[d]] \subseteq sections
    BY <2>3, <2>4 DEF HashTellsSections
  <2>6. sections \subseteq entities
    BY <2>1 DEF At
  <2>7. Content[d][sync[p].found[d]] \subseteq mentions
    BY <2>1, <2>2 DEF Mentioned
  <2> QED BY <2>1, <2>3, <2>4, <2>5, <2>6, <2>7 DEF Full
<1> QED BY <1>1, <1>2, <1>3, IndexInit, IndexStep, PTL DEF Spec

=============================================================================
