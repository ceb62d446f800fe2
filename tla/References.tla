----------------------------- MODULE References -----------------------------
(***************************************************************************)
(* References written in the text of a section, and the sections they lead *)
(* to (explicit_references.go).  Pure functions of the store and of what   *)
(* the patterns match in the text.                                         *)
(*                                                                         *)
(*   call: [docs, sections, hits]                                          *)
(*   doc: [id, external, url: [host, path]]     in the order of their ids  *)
(*   section: [id, doc, headings, matches]      headings from the top down *)
(*   heading: [number, words]                                              *)
(*   match: [extractor, start, end, label, href, number, title]            *)
(*                                                                         *)
(* A number like 1.2 is the sequence << "1", "2" >> and a title the        *)
(* sequence of its words; a title holds another if its words follow each   *)
(* other in it.  An href is [host, path, rooted, fragment]; host is "" for *)
(* a link within the site of its document, rooted says that its path       *)
(* starts with a slash, and a fragment is the sequence of its words.  A    *)
(* label is the text of a link; a bare number ends where its title begins. *)
(***************************************************************************)
EXTENDS Paths, OneCall

CONSTANT Catalogs   \* the stores, each with the hits of a search

Extractors == << "markdown", "html", "url", "number", "bare number", "title" >>

Docs == [id : Nat, external : Seq(STRING), url : [host : STRING, path : Seq(STRING)]]
HeadingPaths == Seq([number : Seq(STRING), words : Seq(STRING)]) \ {<< >>}
Matches == [extractor : ToSet(Extractors), start : Nat, end : Nat, number : Seq(STRING), title : Seq(STRING), label : STRING,
            href : [host : STRING, path : Seq(STRING), rooted : BOOLEAN, fragment : Seq(STRING)]]

\* What a store holds: documents and sections have keys, each section has a
\* document and a heading, and in its text the patterns match here and there.
IsCatalog(call) ==
  /\ call.docs \in Seq(Docs)
  /\ \A c, d \in ToSet(call.docs) : c.id = d.id => c = d
  /\ \A s, t \in call.sections : s.id = t.id => s = t
  /\ \A s \in call.sections : /\ \E d \in ToSet(call.docs) : d.id = s.doc
                              /\ s.headings \in HeadingPaths
                              /\ IsFiniteSet(s.matches) /\ s.matches \in SUBSET Matches
                              /\ \A m \in s.matches : m.extractor = "bare number" => Len(m.number) > 1

ASSUME CatalogsAssumption == \A call \in Catalogs : IsCatalog(call)

----------------------------------------------------------------------------
\* Finding references

OverlapsAny(match, matches) == \E m \in matches : match.start < m.end /\ m.start < match.end

\* One pattern after the other, where those before it have found nothing;
\* titles take no place.
FindAll(section, found, extractor) ==
  found \cup
    {m \in section.matches :
       /\ m.extractor = extractor
       /\ extractor = "markdown" \/ ~OverlapsAny(m, found)
       /\ extractor = "title" => m.title # << >>}

FoundIn(section) == FoldLeft(LAMBDA found, extractor : FindAll(section, found, extractor), {}, Extractors)

\* What is kept of a match.  Of a bare number the blank or bracket before it is
\* taken for the number, and the number for the title; the words that follow are
\* not kept.
RawReference(m) ==
  IF m.extractor = "bare number" THEN [m EXCEPT !.number = << >>, !.title = m.number] ELSE m

\* In the order of the text; no two of them start at one place.
CollectRawExplicitReferences(section) ==
  LET found == FoundIn(section)
      before(m) == {n \in found : n.start < m.start}
  IN [k \in 1..Cardinality(found) |->
        RawReference(CHOOSE m \in found : Cardinality(before(m)) = k - 1)]

----------------------------------------------------------------------------
\* Finding sections

Holds(words, part) == \E k \in 0..Len(words) - Len(part) : SubSeq(words, k + 1, k + Len(part)) = part

Text(heading) == heading.number \o heading.words
TitleText(section) == Text(Last(section.headings))

SectionsOf(call, doc) == {s \in call.sections : s.doc = doc}

\* Its title, and the whole path to it.
SectionAnchors(section) ==
  {TitleText(section), FlattenSeq([k \in DOMAIN section.headings |-> Text(section.headings[k])])}

ResolveFragment(call, fragment, doc) == {s \in SectionsOf(call, doc) : fragment \in SectionAnchors(s)}

\* A number at the start of a title goes: all of it in a reference, but only
\* its first part in a section, where it reads "1 2" by then.
NormalizedTitle(section) ==
  IF Last(section.headings).number = << >> THEN TitleText(section) ELSE Tail(TitleText(section))

ResolvePlainTitle(call, title, doc) ==
  {s \in SectionsOf(call, doc) : Holds(NormalizedTitle(s), title) \/ Holds(title, NormalizedTitle(s))}

\* Every section below the one with the number has it in its path too.  No
\* heading starts with the blank or bracket before a bare number.
HeadingStartsWithNumber(section, number) ==
  number # << >> /\ \E k \in DOMAIN section.headings : section.headings[k].number = number

ResolveHeadingNumber(call, number, title, doc) ==
  LET numbered == {s \in SectionsOf(call, doc) : HeadingStartsWithNumber(s, number)}
      matches == {s \in numbered : \/ title = << >>
                                   \/ Holds(TitleText(s), title)
                                   \/ Holds(title, TitleText(s))}
  IN IF matches = {} /\ title # << >> THEN ResolvePlainTitle(call, title, doc) ELSE matches

----------------------------------------------------------------------------
\* Finding documents

\* By its name in the source and by its URL.
DocumentPathKeys(doc) == << CleanPath(doc.external), CleanPath(doc.url.path) >>

\* The first document with the path; the last one with the URL.
DocByPath(call, key) ==
  LET ks == {k \in DOMAIN call.docs : key \in ToSet(DocumentPathKeys(call.docs[k]))}
  IN IF ks = {} THEN {} ELSE {call.docs[Min(ks)].id}

DocByURL(call, url) ==
  LET ks == {k \in DOMAIN call.docs : call.docs[k].url = url}
  IN IF ks = {} THEN {} ELSE {call.docs[Max(ks)].id}

FirstKnown(call, keys) ==
  LET known == {k \in DOMAIN keys : DocByPath(call, keys[k]) # {}}
  IN IF known = {} THEN {} ELSE DocByPath(call, keys[Min(known)])

\* A mutated form: relative to the document and not to its directory.
ResolveFromDocument(call, href, source) ==
  LET bases == DocumentPathKeys(source)
      relative(k) == IF href.rooted THEN CleanPath(href.path) ELSE JoinPath(bases[k], href.path)
  IN IF href.host # "" THEN DocByURL(call, [host |-> href.host, path |-> href.path])
     ELSE IF href.path = << >> THEN {source.id}
     ELSE FirstKnown(call, << CleanPath(href.path) >> \o [k \in DOMAIN bases |-> relative(k)])

\* The path as it stands, and then from the directory of the source document.
ResolveLinkedDocumentID(call, href, source) ==
  LET bases == DocumentPathKeys(source)
      relative(k) == IF href.rooted THEN CleanPath(href.path) ELSE JoinPath(DirOf(bases[k]), href.path)
  IN IF href.host # "" THEN DocByURL(call, [host |-> href.host, path |-> href.path])
     ELSE IF href.path = << >> THEN {source.id}
     ELSE FirstKnown(call, << CleanPath(href.path) >> \o [k \in DOMAIN bases |-> relative(k)])

----------------------------------------------------------------------------
\* Resolving

Unresolved == [resolved |-> FALSE, doc |-> {}, targets |-> {}]

FillResolvedReference(candidates) ==
  [resolved |-> Cardinality(candidates) = 1,
   doc |-> IF Cardinality(candidates) = 1 THEN {s.doc : s \in candidates} ELSE {},
   targets |-> {s.id : s \in candidates}]

\* A link to a document that is not known is taken for one into its own.
ResolveLinkReference(call, href, source) ==
  LET linked == ResolveLinkedDocumentID(call, href, source)
      doc == IF linked = {} THEN source.id ELSE CHOOSE d \in linked : TRUE
  IN IF href.fragment # << >> THEN FillResolvedReference(ResolveFragment(call, href.fragment, doc))
     ELSE IF doc # source.id THEN [resolved |-> TRUE, doc |-> {doc}, targets |-> {}]
     ELSE Unresolved

\* Of a number that is taken for a title the first part goes.
ReferenceTitle(match) == IF match.extractor = "bare number" THEN Tail(match.title) ELSE match.title

ResolveExplicitReference(call, match, source) ==
  IF match.extractor \in {"markdown", "html", "url"} THEN ResolveLinkReference(call, match.href, source)
  ELSE IF match.extractor = "title" THEN FillResolvedReference(ResolvePlainTitle(call, match.title, source.id))
  ELSE FillResolvedReference(ResolveHeadingNumber(call, match.number, ReferenceTitle(match), source.id))

\* What a reader sees: of an HTML link its label, and not where it leads.
RefText(m) ==
  << m.label, m.number, m.title, IF m.extractor = "html" /\ m.label # "" THEN << >> ELSE << m.href >> >>

ReferenceKey(ref) == << ref.match.extractor, RefText(ref.match), ref.found.targets >>

\* The references of a section; one that reads the same and leads to the same
\* sections is left out, be it a link to another document.
AddReference(call, source, refs, m) ==
  LET ref == [match |-> m, found |-> ResolveExplicitReference(call, m, source)]
  IN IF \E k \in DOMAIN refs : ReferenceKey(refs[k]) = ReferenceKey(ref) THEN refs
     ELSE Append(refs, ref)

DocumentOf(call, section) == CHOOSE d \in ToSet(call.docs) : d.id = section.doc

ExtractExplicitReferences(call, section) ==
  FoldLeft(LAMBDA refs, m : AddReference(call, DocumentOf(call, section), refs, m), << >>,
           CollectRawExplicitReferences(section))

\* The references of each hit of a search; one that is gone meanwhile has none.
EnrichSearchResult(call) ==
  [k \in DOMAIN call.hits |->
     LET rows == {s \in call.sections : s.id = call.hits[k]} IN
     IF rows = {} THEN << >> ELSE ExtractExplicitReferences(call, CHOOSE s \in rows : TRUE)]

ReferencesInit == subject = "references" /\ answered = << >> /\ asked \in Catalogs

FollowReferences == Called("references") /\ Return(EnrichSearchResult(asked))

ReferencesSpec == ReferencesInit /\ [][FollowReferences]_callVars

----------------------------------------------------------------------------
\* What they promise

\* What a reference says of a section t when it stands in the document source:
\* its anchor or its number or its title, and for a link the URL of its
\* document or the path to it from the directory of source, when that path
\* does not also lead to another document from the root.  A number means a
\* section after a section sign or the word; a bare number is not looked up.
MeansSection(call, match, source, t) ==
  LET doc == DocumentOf(call, t)
      heading == Last(t.headings)
      href == match.href
      path == JoinPath(DirOf(CleanPath(source.external)), href.path)
  IN \/ /\ match.extractor \in {"markdown", "html", "url"}
        /\ href.fragment # << >> /\ href.fragment = TitleText(t)
        /\ IF href.host # "" THEN doc.url = [host |-> href.host, path |-> href.path]
           ELSE IF href.path = << >> THEN doc = source
           ELSE /\ ~href.rooted /\ path = CleanPath(doc.external)
                /\ DocByPath(call, CleanPath(href.path)) \subseteq {doc.id}
     \/ /\ match.extractor = "number" /\ match.number # << >>
        /\ doc = source /\ match.number = heading.number /\ Holds(TitleText(t), match.title)
     \/ /\ match.extractor = "title"
        /\ doc = source /\ match.title = heading.words

\* Documents can be told apart by each of their keys.
PathsAreApart(call) ==
  \A c, d \in ToSet(call.docs) :
    c # d => ToSet(DocumentPathKeys(c)) \cap ToSet(DocumentPathKeys(d)) = {} /\ c.url # d.url

\* A reference that means a section has it among its targets.
TargetsFound(call, result) ==
  PathsAreApart(call) =>
    \A k \in DOMAIN result, s \in call.sections, t \in call.sections :
      s.id = call.hits[k] =>
        \A n \in DOMAIN result[k] :
          MeansSection(call, result[k][n].match, DocumentOf(call, s), t) => t.id \in result[k][n].found.targets

\* A reference that says which section it means leads to it, alone or among
\* those that answer as well, and is never resolved to another one
\* (resolveExplicitReference).
ReferencesFindTheirTarget == Returned("references") => TargetsFound(asked, answered[1])

=============================================================================
