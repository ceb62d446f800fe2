------------------------------- MODULE Search -------------------------------
(***************************************************************************)
(* One search (SearchSectionsWithOptions of sqlite.go, rrf_fusion.go,      *)
(* intent_router.go): attempts on the text indexes one after the other,    *)
(* the vector lane, the fusion of the two rankings, and the documents      *)
(* related to those found.  All are functions of what the store holds; a   *)
(* behaviour is one call and one of the answers it may give.               *)
(*                                                                         *)
(* A search is a sequence of statements without a transaction around them, *)
(* and a sync or a curator may commit between any two of them: the call    *)
(* carries the store before and after that commit, the stage of the search *)
(* it falls into, and those of the stage's own statements that ran before. *)
(*                                                                         *)
(*   query: [limit, cap, maxSearches, differs, exactTerms, vector,         *)
(*           candidates, relations, route, media]                          *)
(*   store: [sections, stale, canonical, chunks, related]                  *)
(*                                                                         *)
(* A section is a record of what the indexes know of it: id, doc, hash,    *)
(* lane (its score per kind of attempt, 0 when it does not match), boost   *)
(* (title, heading, symbols, coverage), entity (how its text matches the   *)
(* entities of the query), stored (whether its entities have rows) and     *)
(* media (how many media assets it shows).  Ids are numbers in the order   *)
(* of titles, and a query has one literal term.  Snippets, profiles and    *)
(* explanations are left out.                                              *)
(***************************************************************************)
EXTENDS Integers, Sequences, FiniteSets, SequencesExt, OneCall

CONSTANTS
  Queries,
  Commits, \* a store before and after a commit, and where in a search it falls
  RRFK,    \* the constant of reciprocal rank fusion (60)
  Scale    \* scores are integers: the first RRFK + rank divide Scale

Kinds == {"unicode61", "trigram", "original_unicode61", "original_trigram", "exact_terms",
          "profile_fallback", "profile_trigram", "substring_fallback"}

Section == [id : Nat, doc : Nat, hash : Nat, lane : [Kinds -> Nat], boost : Nat,
            entity : {"none", "exact", "normalized"}, stored : BOOLEAN, media : Nat]

\* A store: its sections have keys.
IsStore(store) ==
  /\ IsFiniteSet(store.sections) /\ store.sections \in SUBSET Section
  /\ \A s, t \in store.sections : s.id = t.id => s = t
  /\ store.chunks \in Seq([id : Nat, section : Nat, hash : Nat, similarity : Int])
  /\ store.related \in Seq([from : Nat, to : Nat, undirected : BOOLEAN, ignore : BOOLEAN, weight : Int])

\* What the server makes of the options before it searches.
ASSUME QueriesAssumption ==
  \A query \in Queries :
    /\ query.limit \in Nat \ {0} /\ query.cap \in Nat \ {0}
    /\ query.candidates \in Nat /\ query.maxSearches \in Nat
    /\ query.route \in {"entity", "conceptual", "general"}
    /\ query.media.perResult \in Nat /\ query.media.total \in Nat

\* The id of a section is derived from the id of its document.  A statement
\* is << what it reads, of which >>; the section of a stored entity is read
\* after the entity is listed.
ASSUME CommitsAssumption ==
  \A commit \in Commits :
    /\ IsStore(commit.before) /\ IsStore(commit.after)
    /\ \A s \in commit.before.sections, t \in commit.after.sections : s.id = t.id => s.doc = t.doc
    /\ commit.edit.stage \in Nat
    /\ \A s \in commit.before.sections \cup commit.after.sections :
         << "row", s.id >> \in commit.edit.early => << "listed", s.id >> \in commit.edit.early

ASSUME ScaleAssumption ==
  RRFK \in Nat /\ Scale \in Nat \ {0} /\ \A rank \in 1 .. RRFK + 1 : Scale % (RRFK + rank) = 0

\* The stages of a search in their order: an attempt, or what comes after the
\* attempts, and what of it is read.
Reads == <<
  << "exact", "entities" >>, << "exact", "index" >>, << "exact", "stored" >>,
  << "normalized", "entities" >>, << "normalized", "index" >>, << "normalized", "stored" >>,
  << "unicode61", "index" >>, << "trigram", "index" >>,
  << "original_unicode61", "index" >>, << "original_trigram", "index" >>,
  << "exact_terms", "candidates" >>, << "exact_terms", "literals" >>,
  << "profile_fallback", "index" >>, << "profile_trigram", "index" >>,
  << "substring_fallback", "candidates" >>, << "substring_fallback", "literals" >>,
  << "vectors", "search" >>, << "vectors", "sections" >>,
  << "relations", "list" >>, << "relations", "sections" >>,
  << "media", "totals" >>, << "media", "rows" >> >>

Place(read) == CHOOSE k \in DOMAIN Reads : Reads[k] = read

\* What a stage of one statement sees, and what one statement of a stage of
\* several does: within its stage the commit divides them in any way.
Sees(call, read) == IF Place(read) < call.edit.stage THEN call.before ELSE call.after

SeesOne(call, read, statement) ==
  IF Place(read) = call.edit.stage /\ statement \in call.edit.early THEN call.before
  ELSE Sees(call, read)

Firsts(seq, n) == SubSeq(seq, 1, Min({n, Len(seq)}))

\* A set by an order that decides between any two of its elements.
InOrder(S, ahead(_, _)) ==
  LET order == {p \in S \X S : ahead(p[1], p[2])}
      place(x) == 1 + Cardinality({y \in S : << y, x >> \in order})
  IN [k \in 1..Cardinality(S) |-> CHOOSE x \in S : place(x) = k]

----------------------------------------------------------------------------
\* Routing: the weights of the two lanes by the kind of the query.

RouteIntent(query) ==
  LET weights == CASE query.route = "entity"     -> [text |-> 8, vector |-> 2]
                   [] query.route = "conceptual" -> [text |-> 3, vector |-> 7]
                   [] query.route = "general"    -> [text |-> 5, vector |-> 5]
  IN IF query.vector THEN weights ELSE [weights EXCEPT !.vector = 0]

----------------------------------------------------------------------------
\* Text lanes.  A hit is a section with what speaks for it.

Canonical(store, s) == s.doc \in store.canonical

\* Sections of an index, without those of stale documents: canonical ones
\* first, then by score, as many as asked for.
Found(store, kind) == {s \in store.sections : s.lane[kind] > 0 /\ s.doc \notin store.stale}

IndexHits(store, kind, limit) ==
  LET ahead(a, b) ==
        IF Canonical(store, a) # Canonical(store, b) THEN Canonical(store, a)
        ELSE IF a.lane[kind] # b.lane[kind] THEN a.lane[kind] > b.lane[kind]
        ELSE a.id < b.id
  IN Firsts(InOrder(Found(store, kind), ahead), limit)

Total(b) == b.unicode + b.trigram + b.text + b.exact + b.canonical + b.fallback

WeightedScoreBreakdown(store, s, kind) ==
  [unicode   |-> IF kind \in {"unicode61", "original_unicode61"} THEN s.lane[kind] ELSE 0,
   trigram   |-> IF kind \in {"trigram", "original_trigram"} THEN s.lane[kind] ELSE 0,
   text      |-> s.boost,
   exact     |-> CASE s.entity = "exact" -> 260 [] s.entity = "normalized" -> 160 [] OTHER -> 0,
   canonical |-> IF Canonical(store, s) THEN 30 ELSE 0,
   fallback  |-> IF kind \in {"profile_fallback", "exact_terms", "substring_fallback"} THEN 1 ELSE 0]

Hit(store, s, kind, breakdown) ==
  [id |-> s.id, doc |-> s.doc, canonical |-> Canonical(store, s), score |-> breakdown,
   kinds |-> {kind}]

TextHits(store, kind, limit) ==
  LET found == IndexHits(store, kind, limit) IN
  {Hit(store, s, kind, WeightedScoreBreakdown(store, s, kind)) : s \in ToSet(found)}

\* Stored entities are listed term by term and their sections read one by one:
\* a section that is gone, or whose document is stale, fails the search.
StoredEntityMatches(call, mode) ==
  {id \in {s.id : s \in call.before.sections \cup call.after.sections} :
     \E s \in SeesOne(call, << mode, "entities" >>, << "listed", id >>).sections :
       s.id = id /\ s.stored /\ s.entity = mode}

EntityRow(call, mode, id) ==
  LET store == SeesOne(call, << mode, "entities" >>, << "row", id >>) IN
  {s \in store.sections : s.id = id /\ s.doc \notin store.stale}

EntityHit(call, mode, s) ==
  LET store == SeesOne(call, << mode, "entities" >>, << "row", s.id >>) IN
  Hit(store, s, mode, [unicode |-> 0, trigram |-> 0, text |-> 0, fallback |-> 0,
                       exact |-> IF mode = "exact" THEN 260 ELSE 180,
                       canonical |-> IF Canonical(store, s) THEN 30 ELSE 0])

\* Without a stored entity the index is asked: of what it finds, the sections
\* that match and have no entity stored, each looked up in turn.
HasStoredEntities(call, mode, id) ==
  \E s \in SeesOne(call, << mode, "stored" >>, << "stored", id >>).sections : s.id = id /\ s.stored

EntityHits(call, mode) ==
  LET listed == StoredEntityMatches(call, mode)
      found == Sees(call, << mode, "index" >>)
  IN IF listed # {}
     THEN {EntityHit(call, mode, s) : s \in UNION {EntityRow(call, mode, id) : id \in listed}}
     ELSE {h \in TextHits(found, "unicode61", 3 * call.query.limit) :
             /\ \E s \in found.sections : s.id = h.id /\ s.entity = mode
             /\ ~HasStoredEntities(call, mode, h.id)}

Fallbacks == {"profile_fallback", "substring_fallback"}

\* The hits an attempt asks for.
Wanted(call, kind) == (IF kind \in Fallbacks THEN 2 ELSE 3) * call.query.limit

\* The literal of a short term is looked up in the candidates one by one, until
\* as many as wanted have it: a candidate that is gone fails the search, one
\* of a stale document does not.
LiteralCandidates(call, kind) ==
  IndexHits(Sees(call, << kind, "candidates" >>), kind, 2 * Wanted(call, kind))

LiteralRow(call, kind, id) ==
  {s \in SeesOne(call, << kind, "literals" >>, << "text", id >>).sections : s.id = id}

ContainsLiteral(call, kind, id) == \E s \in LiteralRow(call, kind, id) : s.lane[kind] > 0

LookedUp(call, kind) ==
  LET candidates == LiteralCandidates(call, kind)
      matched == {k \in DOMAIN candidates : ContainsLiteral(call, kind, candidates[k].id)}
  IN {candidates[k] : k \in {n \in DOMAIN candidates :
                              Cardinality({j \in matched : j < n}) < Wanted(call, kind)}}

LiteralHits(call, kind) ==
  LET store == Sees(call, << kind, "candidates" >>) IN
  {Hit(store, s, kind, WeightedScoreBreakdown(store, s, kind)) :
     s \in {c \in LookedUp(call, kind) : ContainsLiteral(call, kind, c.id)}}

\* Two indexes of profiles: the second fills up what the first leaves free.
ProfileHits(call) ==
  LET wanted == Wanted(call, "profile_fallback")
      first == TextHits(Sees(call, << "profile_fallback", "index" >>), "profile_fallback", wanted)
      store == Sees(call, << "profile_trigram", "index" >>)
      second == IndexHits(store, "profile_trigram", wanted)
      new == {k \in DOMAIN second : \A h \in first : h.id # second[k].id}
      free == {k \in new : Cardinality(first) + Cardinality({j \in new : j < k}) < wanted}
      score(s) == WeightedScoreBreakdown(store, s, "profile_fallback")
  IN first \cup {Hit(store, second[k], "profile_fallback", score(second[k])) : k \in free}

\* What the attempts say of the same section is merged: the scores of the
\* indexes add up, of the other evidence the strongest counts.
MergeScoreBreakdowns(a, b) ==
  LET most(x, y) == IF x > y THEN x ELSE y IN
  [unicode |-> a.unicode + b.unicode, trigram |-> a.trigram + b.trigram,
   text |-> most(a.text, b.text), exact |-> most(a.exact, b.exact),
   canonical |-> most(a.canonical, b.canonical), fallback |-> most(a.fallback, b.fallback)]

CollectorAdd(hits, new) ==
  LET old(n) == {h \in hits : h.id = n.id}
      merged(n) == LET h == CHOOSE x \in old(n) : TRUE IN
                   [h EXCEPT !.score = MergeScoreBreakdowns(@, n.score), !.kinds = @ \cup n.kinds]
  IN {h \in hits : \A n \in new : n.id # h.id}
       \cup {IF old(n) = {} THEN n ELSE merged(n) : n \in new}

\* At most limit hits, at most cap of a document.
Of(out, doc) == {k \in DOMAIN out : out[k].doc = doc}

Take(out, h, limit, cap) ==
  IF Len(out) < limit /\ Cardinality(Of(out, h.doc)) < cap THEN Append(out, h) ELSE out

Capped(seq, limit, cap) == FoldLeft(LAMBDA out, h : Take(out, h, limit, cap), << >>, seq)

CollectorResults(hits, query) ==
  LET ahead(a, b) ==
        IF Total(a.score) # Total(b.score) THEN Total(a.score) > Total(b.score)
        ELSE IF a.canonical # b.canonical THEN a.canonical ELSE a.id < b.id
  IN Capped(InOrder(hits, ahead), query.limit, query.cap)

\* The attempts in their order.
Attempts(call) ==
  LET query == call.query
      entities == \E s \in call.before.sections \cup call.after.sections : s.entity # "none"
  IN (IF entities THEN << "exact", "normalized" >> ELSE << >>)
     \o << "unicode61", "trigram" >>
     \o (IF query.differs THEN << "original_unicode61", "original_trigram" >> ELSE << >>)
     \o (IF query.exactTerms THEN << "exact_terms" >> ELSE << >>)
     \o << "profile_fallback", "substring_fallback" >>

Required(kind) == kind \notin {"exact", "normalized", "unicode61", "trigram", "profile_fallback"}

AttemptHits(call, kind) ==
  CASE kind \in {"exact", "normalized"} -> EntityHits(call, kind)
    [] kind \in {"exact_terms", "substring_fallback"} -> LiteralHits(call, kind)
    [] kind = "profile_fallback" -> ProfileHits(call)
    [] OTHER -> TextHits(Sees(call, << kind, "index" >>), kind, Wanted(call, kind))

\* One that is not required is skipped once as many as allowed have run.  The
\* fallbacks run only while nothing is found.
RunAttempt(call, st, kind) ==
  IF \/ ~Required(kind) /\ Cardinality(st.ran) >= call.query.maxSearches
     \/ kind \in Fallbacks /\ st.hits # {}
  THEN st
  ELSE [ran |-> st.ran \cup {kind}, hits |-> CollectorAdd(st.hits, AttemptHits(call, kind))]

TextLane(call) ==
  FoldLeft(LAMBDA st, kind : RunAttempt(call, st, kind), [ran |-> {}, hits |-> {}], Attempts(call))

TextRanked(call) == CollectorResults(TextLane(call).hits, call.query)

\* A read of a row that has just gone ends the search with its error.
TextLaneFails(call) ==
  LET ran == TextLane(call).ran IN
  \/ \E mode \in {"exact", "normalized"} \cap ran :
       \E id \in StoredEntityMatches(call, mode) : EntityRow(call, mode, id) = {}
  \/ \E kind \in {"exact_terms", "substring_fallback"} \cap ran :
       \E s \in LookedUp(call, kind) : LiteralRow(call, kind, s.id) = {}

----------------------------------------------------------------------------
\* The vector lane: the nearest chunks, each held against the section it was
\* made from.  They come in the order of their similarity, which ranks them.

ChunkStore(call, chunk) == SeesOne(call, << "vectors", "sections" >>, << "chunk", chunk.id >>)

\* A mutated form: chunks are taken as they come, whatever became of their section.
HydrateUnchecked(call, chunk) == {s \in ChunkStore(call, chunk).sections : s.id = chunk.section}

HydrateAndValidateVectorHit(call, chunk) ==
  LET store == ChunkStore(call, chunk) IN
  {s \in store.sections : s.id = chunk.section /\ s.doc \notin store.stale /\ s.hash = chunk.hash}

VectorHit(call, s, chunk) ==
  [id |-> s.id, doc |-> s.doc, canonical |-> Canonical(ChunkStore(call, chunk), s),
   similarity |-> chunk.similarity]

AddVector(call, out, chunk) ==
  LET valid == HydrateAndValidateVectorHit(call, chunk) IN
  IF valid = {} \/ \E h \in ToSet(out) : h.id = chunk.section THEN out
  ELSE Append(out, VectorHit(call, CHOOSE s \in valid : TRUE, chunk))

VectorLane(call) ==
  IF call.query.vector
  THEN FoldLeft(LAMBDA out, chunk : AddVector(call, out, chunk), << >>,
                Firsts(Sees(call, << "vectors", "search" >>).chunks, call.query.candidates))
  ELSE << >>

----------------------------------------------------------------------------
\* Fusion.

\* The score of a section: for each lane its weight over RRFK plus its rank.
Share(seq, weight, id) ==
  Max({0} \cup {(weight * Scale) \div (RRFK + r) : r \in {k \in DOMAIN seq : seq[k].id = id}})

WeightedRRFFusion(textRanked, vectorRanked, w, id) ==
  Share(textRanked, w.text, id) + Share(vectorRanked, w.vector, id)

\* A canonical document found by the text lane counts for 21/20.
MultiplierCalibration(rrf, textHit) == IF \E h \in textHit : h.canonical THEN 21 * rrf ELSE 20 * rrf

\* The hits of both lanes by their final score.  Documents of equal titles
\* stay in the order of a map: any order.
ById(seq, id) == {h \in ToSet(seq) : h.id = id}

Entry(call, textRanked, vectorRanked, id) ==
  LET th == ById(textRanked, id)
      vh == ById(vectorRanked, id)
      base == CHOOSE h \in IF th # {} THEN th ELSE vh : TRUE
      rrf == WeightedRRFFusion(textRanked, vectorRanked, RouteIntent(call.query), id)
  IN [id |-> id, doc |-> base.doc, canonical |-> base.canonical,
      evidence |-> Cardinality(UNION {h.kinds : h \in th}) + Cardinality(vh),
      rank |-> MultiplierCalibration(rrf, th)]

FinalHits(call, textRanked, vectorRanked) ==
  LET all == {Entry(call, textRanked, vectorRanked, h.id) : h \in ToSet(textRanked) \cup ToSet(vectorRanked)}
      ahead(a, b) ==
        IF a.rank # b.rank THEN a.rank > b.rank
        ELSE IF a.evidence # b.evidence THEN a.evidence > b.evidence
        ELSE IF a.canonical # b.canonical THEN a.canonical ELSE a.doc < b.doc
      orders == {q \in SetToSeqs(all) : \A i, j \in DOMAIN q : i < j => ~ahead(q[j], q[i])}
  IN {Capped(q, call.query.limit, call.query.cap) : q \in orders}

----------------------------------------------------------------------------
\* Related documents: the first section of each, unless the document is there.

RelationTarget(r, doc) ==
  IF r.from = doc THEN {r.to} ELSE IF r.to = doc /\ r.undirected THEN {r.from} ELSE {}

\* The hits so far, of those found the ones of doc, and a relation of doc.
Follow(call, found, hits, doc, r) ==
  LET store == SeesOne(call, << "relations", "sections" >>, << "first", << doc, r >> >>)
      free == {d \in RelationTarget(r, doc) : Of(hits, d) = {}}
      sections == {s \in store.sections : s.doc \in free}
      first == CHOOSE s \in sections : \A t \in sections : s.id <= t.id
  IN IF r.ignore \/ sections = {} \/ Len(hits) >= call.query.limit THEN hits
     ELSE Append(hits, [id |-> first.id, doc |-> first.doc, canonical |-> Canonical(store, first),
                        evidence |-> 0,
                        rank |-> found[Max(Of(found, doc))].rank + 20 * Scale * r.weight])

FollowAll(call, found, hits, doc) ==
  LET store == SeesOne(call, << "relations", "list" >>, << "of", doc >>) IN
  FoldLeft(LAMBDA hs, r : Follow(call, found, hs, doc, r), hits, store.related)

ExpandWithRelations(call, hits) ==
  LET docs == InOrder({h.doc : h \in ToSet(hits)}, <)
      all == ToSet(FoldLeft(LAMBDA hs, doc : FollowAll(call, hits, hs, doc), hits, docs))
      ahead(a, b) ==
        IF a.rank # b.rank THEN a.rank > b.rank
        ELSE IF a.canonical # b.canonical THEN a.canonical ELSE a.id < b.id
  IN IF call.query.relations THEN Firsts(InOrder(all, ahead), call.query.limit) ELSE hits

----------------------------------------------------------------------------
\* Media of the hits: at most so many of each, and of all together in the
\* order of the hits; zero is no limit.

Least(n, limit) == IF limit > 0 /\ limit < n THEN limit ELSE n

Sum(seq) == FoldLeft(+, 0, seq)

MediaOf(store, id) ==
  LET sections == {s \in store.sections : s.id = id} IN
  IF sections = {} THEN 0 ELSE (CHOOSE s \in sections : TRUE).media

\* They are counted by one statement and listed by the next.
SearchSectionMediaAssets(call, hits) ==
  LET limits == call.query.media
      listed == Sees(call, << "media", "rows" >>)
      offered == [k \in DOMAIN hits |-> Least(MediaOf(listed, hits[k].id), limits.perResult)]
      upTo(k) == Least(Sum(SubSeq(offered, 1, k)), limits.total)
  IN [k \in DOMAIN hits |->
       [total |-> MediaOf(Sees(call, << "media", "totals" >>), hits[k].id),
        shown |-> IF limits.detail = "none" THEN 0 ELSE upTo(k) - upTo(k - 1)]]

HydrateMedia(call, hits) ==
  LET assets == SearchSectionMediaAssets(call, hits) IN
  [k \in DOMAIN hits |->
    [id |-> hits[k].id, doc |-> hits[k].doc, canonical |-> hits[k].canonical, media |-> assets[k]]]

\* The answers a search may give: an error or a sequence of hits.
SearchSections(call) ==
  IF TextLaneFails(call) THEN {[ok |-> FALSE, hits |-> << >>]}
  ELSE {[ok |-> TRUE, hits |-> HydrateMedia(call, ExpandWithRelations(call, hits))]
          : hits \in FinalHits(call, TextRanked(call), VectorLane(call))}

----------------------------------------------------------------------------
\* A behaviour is one search.

Call(query, commit) ==
  [query |-> query, before |-> commit.before, after |-> commit.after, edit |-> commit.edit]

SearchInit ==
  /\ subject = "search" /\ answered = << >>
  /\ \E query \in Queries, commit \in Commits : asked = Call(query, commit)

SearchStore == Called("search") /\ \E result \in SearchSections(asked) : Return(result)

SearchSpec == SearchInit /\ [][SearchStore]_callVars

----------------------------------------------------------------------------
\* What a search promises.

\* Nothing makes a search fail but an entity whose section is gone or whose
\* document is stale, or a section that goes while the literal of a term is
\* being looked up.
SearchAnswers(call, result) ==
  LET known(s) == \E r \in call.after.sections : r.id = s.id /\ r.doc \notin call.after.stale
  IN ~result.ok =>
       \/ /\ call.edit.stage \in {Place(<< "exact_terms", "literals" >>),
                                 Place(<< "substring_fallback", "literals" >>)}
          /\ \E s \in call.before.sections : \A r \in call.after.sections : r.id # s.id
       \/ \E s \in call.before.sections \cup call.after.sections :
            s.entity # "none" /\ s.stored /\ (s.doc \in call.before.stale \/ ~known(s))

\* Media stay within their limits, and no hit goes short of them for the sake
\* of a later one.  They are those of one store, and so are their numbers: of
\* the same unless the commit comes between the two statements.
CurrentMedia(call, hits) ==
  LET limits == call.query.media
      shown == [k \in DOMAIN hits |-> hits[k].media.shown]
  IN /\ limits.perResult > 0 => \A k \in DOMAIN hits : shown[k] <= limits.perResult
     /\ limits.total > 0 => Sum(shown) <= limits.total
     /\ \E counted, listed \in {call.before, call.after} :
          /\ counted # listed => call.edit.stage = Place(<< "media", "rows" >>)
          /\ \A k \in DOMAIN hits : hits[k].media.total = MediaOf(counted, hits[k].id)
          /\ \A k \in DOMAIN hits : shown[k] <= MediaOf(listed, hits[k].id)
          /\ limits.detail # "none" =>
               \A i, j \in DOMAIN hits : i < j /\ shown[j] > 0 =>
                 shown[i] = Least(MediaOf(listed, hits[i].id), limits.perResult)

\* The hits respect the limit, no section comes twice, no document more often
\* than its cap; each exists, and one of a document that was stale all along
\* is there only because a relation leads to it.
CurrentHits(call, result) ==
  LET hits == result.hits
      stale == call.before.stale \cap call.after.stale
  IN /\ Len(hits) <= call.query.limit
     /\ \A i, j \in DOMAIN hits : i # j => hits[i].id # hits[j].id
     /\ \A k \in DOMAIN hits : Cardinality(Of(hits, hits[k].doc)) <= call.query.cap
     /\ \A k \in DOMAIN hits :
          \E s \in call.before.sections \cup call.after.sections : s.id = hits[k].id
     /\ \A k \in DOMAIN hits : hits[k].doc \in stale =>
          call.query.relations /\ \E r \in ToSet(call.before.related \o call.after.related) :
                                     hits[k].doc \in {r.from, r.to}
     /\ CurrentMedia(call, hits)

\* Agreement counts: with balanced weights a section that both lanes found,
\* among the first RRFK + 1 of each, comes before one that only one of them
\* found.  A canonical document, or a relation, may change the order.
AgreementWins(call, result) ==
  LET text == TextRanked(call)
      vector == VectorLane(call)
      in(seq, id, n) == \E k \in 1..Min({n, Len(seq)}) : seq[k].id = id
      both(id) == in(text, id, RRFK + 1) /\ in(vector, id, RRFK + 1)
      one(id) == ~(in(text, id, Len(text)) /\ in(vector, id, Len(vector)))
  IN call.query.route = "general" /\ call.query.vector /\ ~call.query.relations =>
       \A i, j \in DOMAIN result.hits :
         both(result.hits[i].id) /\ one(result.hits[j].id) /\ ~result.hits[j].canonical => i < j

\* A search fails only over stored entities or a section lost under a look-up,
\* and its hits are current sections within its limits.  What both its lanes found
\* comes before what only one of them found.
HitsAreCurrent ==
  Returned("search") => /\ SearchAnswers(asked, answered[1])
                        /\ CurrentHits(asked, answered[1])
                        /\ AgreementWins(asked, answered[1])

=============================================================================
