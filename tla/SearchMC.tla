------------------------------ MODULE SearchMC ------------------------------
(***************************************************************************)
(* Searches for AlgorithmsMC: small stores with a commit between any two   *)
(* of their reads.                                                         *)
(***************************************************************************)
EXTENDS Search

\* Stores to search: four sections, two of them of one document.

Lane(u, t, o, e, p) ==
  [unicode61 |-> u, trigram |-> t, original_unicode61 |-> o, original_trigram |-> o,
   exact_terms |-> e, substring_fallback |-> e, profile_fallback |-> p,
   profile_trigram |-> IF p + e > 0 THEN 1 ELSE 0]

Sec(id, doc, lane, boost, entity, stored) ==
  [id |-> id, doc |-> doc, hash |-> 1, lane |-> lane, boost |-> boost, entity |-> entity,
   stored |-> stored, media |-> id % 3]

Corpora == {
  {Sec(1, 1, Lane(90, 40, 0, 0, 0), 0, "none", FALSE),
   Sec(2, 1, Lane(60, 20, 0, 0, 0), 10, "none", FALSE),
   Sec(3, 2, Lane(30, 10, 50, 0, 0), 0, "none", FALSE),
   Sec(4, 3, Lane(0, 0, 0, 1, 1), 0, "none", FALSE)},
  {Sec(1, 1, Lane(90, 0, 0, 0, 0), 0, "exact", TRUE),
   Sec(2, 1, Lane(60, 20, 0, 1, 0), 0, "normalized", TRUE),
   Sec(3, 2, Lane(95, 10, 20, 0, 0), 0, "exact", FALSE),
   Sec(4, 3, Lane(20, 0, 0, 0, 0), 80, "none", FALSE)},
  {Sec(1, 1, Lane(0, 0, 0, 1, 0), 0, "none", FALSE),
   Sec(2, 1, Lane(0, 0, 0, 1, 1), 0, "none", FALSE),
   Sec(3, 2, Lane(0, 0, 0, 1, 1), 0, "none", FALSE),
   Sec(4, 3, Lane(0, 0, 0, 0, 0), 0, "none", FALSE)} }

\* The nearest chunks: none, several of a section, of a lost or changed one.
Near(s, h, v) == [id |-> v, section |-> s, hash |-> h, similarity |-> v]
ChunkSeqs == { << >>,
  << Near(4, 1, 9), Near(4, 1, 8), Near(1, 1, 7), Near(3, 1, 6), Near(2, 1, 5) >>,
  << Near(5, 1, 9), Near(2, 0, 8), Near(3, 1, 7), Near(1, 1, 7) >> }

Related == << [from |-> 1, to |-> 3, undirected |-> FALSE, ignore |-> FALSE, weight |-> 1],
              [from |-> 3, to |-> 2, undirected |-> TRUE, ignore |-> FALSE, weight |-> 0],
              [from |-> 1, to |-> 2, undirected |-> FALSE, ignore |-> TRUE, weight |-> 1] >>

Stores == {[sections |-> c, stale |-> t, canonical |-> n, chunks |-> v, related |-> Related] :
             c \in Corpora, t \in {{}, {2}}, n \in {{}, {1}}, v \in ChunkSeqs}

\* What may be committed beside a search: a stale mark, the end of a section,
\* another text of one with other media.
Edits(st) == {
  [st EXCEPT !.stale = @ \cup {1}],
  [st EXCEPT !.sections = {s \in @ : s.id # 2}],
  [st EXCEPT !.sections = {IF s.id = 1 THEN [s EXCEPT !.hash = 2, !.media = 3] ELSE s : s \in @}]}

SearchQueries ==
  {[limit |-> l, cap |-> 1, maxSearches |-> 5, differs |-> d, exactTerms |-> FALSE, vector |-> TRUE,
    candidates |-> 4, relations |-> r, route |-> o,
    media |-> [perResult |-> 1, total |-> 2, detail |-> "full"]] :
     l \in {2, 4}, d \in BOOLEAN, r \in BOOLEAN, o \in {"general", "entity"}}
  \cup
  {[limit |-> 3, cap |-> 2, maxSearches |-> m, differs |-> FALSE, exactTerms |-> e, vector |-> v,
    candidates |-> 4, relations |-> r, route |-> "general",
    media |-> [perResult |-> 0, total |-> IF e THEN 1 ELSE 0, detail |-> IF v THEN "compact" ELSE "none"]] :
     m \in {1, 5}, e \in BOOLEAN, v \in BOOLEAN, r \in BOOLEAN}

\* Statements of the stages that run before the commit: all for the sections
\* and documents named here, or the listing of their entities alone.
Early(read) ==
  CASE read[2] = "entities" -> {{}, {<< "listed", 2 >>}, {<< "listed", 2 >>, << "row", 2 >>}}
    [] read[2] = "stored" -> {{}, {<< "stored", 1 >>}}
    [] read[2] = "literals" -> {{}, {<< "text", 1 >>}}
    [] read[1] = "vectors" /\ read[2] = "sections" -> {{}, {<< "chunk", 9 >>, << "chunk", 8 >>}}
    [] read[1] = "relations" -> {{}, {<< "of", 1 >>}}
    [] OTHER -> {{}}

\* A search alone, and one with a commit beside it.
StoreCommits ==
  {[before |-> st, after |-> st, edit |-> [stage |-> 0, early |-> {}]] : st \in Stores}
    \cup UNION {UNION {
      {[before |-> st, after |-> e, edit |-> [stage |-> k, early |-> y]] : e \in Edits(st), y \in Early(Reads[k])}
        : k \in DOMAIN Reads} : st \in Stores}

=============================================================================
