---------------------------- MODULE AlgorithmsMC ----------------------------
(***************************************************************************)
(* The small parts of the program, one at a time: how a file is cut into   *)
(* sections and a section into chunks, how a store is searched, how a site *)
(* is crawled and its links followed, where the references in a text lead, *)
(* and how relations between documents are curated.                        *)
(*                                                                         *)
(* A behaviour is one call of a pure part and its answer, one of those the *)
(* module allows, or it is what reviewers do to the relations.  The inputs *)
(* are listed here and in SearchMC; the promises are those of the modules. *)
(***************************************************************************)
EXTENDS SearchMC, References, KnowledgeRelations, TLC

CONSTANTS LongLine, MinBody, MinTarget, DefaultTarget, Margin, LongFragment,
          Dotted, MaxCandidates, MaxNoProgress, InPageDefault, BaseName

C == INSTANCE Chunker
W == INSTANCE WebCrawl
P == INSTANCE Pages

----------------------------------------------------------------------------
\* Sections to chunk: one block of every kind, and any two of them, directly
\* below each other or with a blank line between them.

L(kind, size) == [kind |-> kind, size |-> size]
B == L("blank", 0)

Blocks == {
  << L("text", 3) >>,
  << L("text", 9) >>,
  << L("text", 2), L("text", 13) >>,
  << L("text", 2), L("text", 3), L("text", 2) >>,
  << L("fence", 1), L("declaration", 2), L("text", 1), L("declaration", 1), B, L("text", 2),
     L("fence", 1) >>,
  << L("fence", 1), L("text", 9), L("fence", 1) >>,
  << L("fence", 1), L("text", 2), L("text", 2), L("text", 2) >>,
  << L("row", 1), L("separator", 1), L("row", 2), L("row", 1), L("row", 3) >>,
  << L("row", 1), L("separator", 1), L("row", 9) >>,
  << L("row", 1), L("row", 1), L("row", 2) >>,
  << L("<table", 1), L("<tr><th>", 1), L("<tr><td>", 2), L("<tr><td>", 2), L("</table>", 1) >>,
  << L("<table", 1), L("<tr><td>", 2), L("<tr><th>", 1), L("<tr>", 1), L("<td>", 2),
     L("</tr>", 1), L("</table>", 1) >>,
  << L("<table", 1), L("<tr><td>", 2), L("<table", 1), L("</table>", 1), L("text", 4) >>,
  << L("<figure>", 1), L("image", 2), L("caption", 4), L("</figure>", 1) >>,
  << L("image", 2), L("caption", 5) >>,
  << L("image", 2), L("italic", 5) >>,
  << L("item", 3), L("indented", 2), B, L("item", 3), L("item", 8) >>,
  << L("item", 2), L("item", 2) >>,
  << L(">", 2), L(">", 8), L(">", 3) >>,
  << L(">", 3) >>,
  << L("> [!note]", 2), L(">", 3), L(">", 3) >>,
  << L("!!!", 1), L("indented", 3), L("indented", 9) >>,
  << L(":::name", 1), L("text", 3), L("text", 3), L(":::", 1) >> }

Contents == {<< >>} \cup Blocks \cup {a \o m \o b : a \in Blocks, b \in Blocks, m \in {<< >>, << B >>}}

\* A budget below most of these blocks, one about as large as them, and a
\* target as large as the context.
Configs ==
  {[strategy |-> s, context |-> c, target |-> 0, overlap |-> o, reserve |-> 0] :
     s \in {"auto", "section_whole", "structural", "block_aware_pack", "adaptive"},
     c \in {18, 21}, o \in {0, 2}}
  \cup {[strategy |-> s, context |-> 12, target |-> 30, overlap |-> 2, reserve |-> 1] :
          s \in {"auto", "structural"}}

ChunkCalls == [config : Configs, content : Contents, prefix : {4}]

Chunk == Called("chunk") /\ \E r \in C!BuildChunks(asked.config, asked.content, asked.prefix) : Return(r)

----------------------------------------------------------------------------
\* Sites to crawl: up to four pages below a seed, the other pages they link to
\* and those that do not answer.

Url(path, slash) == [host |-> "site", path |-> path, slash |-> slash]
Top == Url(<< "docs" >>, TRUE)
PageA == Url(<< "docs", "a" >>, FALSE)
PageB == Url(<< "docs", "b" >>, TRUE)
PageC == Url(<< "docs", "b", "c.html" >>, FALSE)
PageD == Url(<< "docs", "d" >>, FALSE)
To(url, fragment) ==
  [host |-> "site", path |-> url.path, slash |-> url.slash, fragment |-> fragment, route |-> << >>]
Route(path) == [host |-> "site", path |-> Top.path, slash |-> TRUE, fragment |-> << >>, route |-> path]
Away == {To(Url(<< "other" >>, FALSE), << >>), [To(PageA, << >>) EXCEPT !.host = "elsewhere"]}

\* On one page the name of a later heading is the id of another element too.
Ids(url) == {<< "use" >>} \cup (IF url = Top THEN {<< "gone" >>} ELSE {})
            \cup (IF url = PageC THEN {<< "intro", "1" >>} ELSE {})

Page(url, links, rendered, up, routed) ==
  [url |-> url, routed |-> routed, up |-> url \in up, answers |-> url \in up, shell |-> rendered # {},
   base |-> {}, ids |-> Ids(url), links |-> links, rendered |-> links \cup rendered,
   sections |-> << [anchor |-> << >>, heading |-> "intro"], [anchor |-> << "use" >>, heading |-> "intro"],
                   [anchor |-> << >>, heading |-> "use"] >>]

Menu(visible, third) ==
  [start |-> [text |-> "t0", long |-> TRUE, title |-> "home", visible |-> visible],
   m1 |-> [text |-> "t1", long |-> TRUE, title |-> "one", visible |-> << "m1", "m2" >>],
   m2 |-> [text |-> "t1", long |-> TRUE, title |-> "two", visible |-> << "m3", "m1" >>],
   m3 |-> [text |-> third, long |-> TRUE, title |-> "three", visible |-> << "m1", "m2", "m3" >>]]

CrawlConfig(mode, pages, depth) == [mode |-> mode, isSPA |-> FALSE, maxPages |-> pages, maxDepth |-> depth]

CrawlCall ==
  \E top \in {{To(PageA, << >>), To(PageB, << >>)}, {To(PageA, << "use" >>), To(PageC, << "intro", "1" >>)} \cup Away,
               {To(PageB, << >>)}},
     a \in {{To(Top, << "gone" >>), To(PageC, << >>)}, {To(PageD, << >>), To(PageA, << "use" >>)}},
     b \in {{To(PageC, << "use" >>)}, {To(PageD, << >>), To(PageA, << >>)}},
     c \in {{}, {To(PageD, << "gone" >>), To(PageB, << "use" >>)}},
     up \in {{Top, PageA, PageB, PageC, PageD}, {Top, PageA, PageC, PageD}, {Top, PageB, PageC}, {PageA}},
     shell \in {{}, {To(PageD, << >>), Route(<< "docs", "b", "c.html" >>), Route(<< "docs", "a" >>)}},
     routed \in BOOLEAN, browser \in BOOLEAN, menu \in {Menu(<< >>, "t3"), Menu(<< "m1", "m2" >>, "t0"),
                                                        Menu(<< "m2" >>, "t3")},
     config \in {CrawlConfig("static", 0, 0), CrawlConfig("static", 3, 0), CrawlConfig("static", 0, 1),
                 CrawlConfig("auto", 0, 0), CrawlConfig("auto", 2, 2), CrawlConfig("browser", 0, 0),
                 CrawlConfig("in_page", 2, 0), CrawlConfig("in_page", 0, 0)} :
    \E unclickable \in IF config.mode # "static" /\ browser THEN SUBSET {"m2"} ELSE {{}},
       breaks \in IF config.mode # "static" /\ browser THEN {0, 2, 9} ELSE {9} :
      /\ config.mode = "static" => ~browser
      /\ ~browser => menu = Menu(<< >>, "t3")
      /\ routed => browser
      /\ asked = [seed |-> Top, config |-> config, browser |-> browser, menu |-> menu,
                 unclickable |-> unclickable, breaks |-> breaks,
                 site |-> << Page(Top, top, shell, up, FALSE), Page(PageA, a, {}, up, FALSE),
                             Page(PageB, b, {}, up, FALSE), Page(PageC, c, {}, up, FALSE),
                             Page(PageD, {}, {}, up, routed) >>]

CrawlSite == Called("crawl") /\ Return(W!SyncCrawl(asked))

----------------------------------------------------------------------------
\* Texts that refer to sections: two references that may overlap, in one of
\* the sections of three documents.

Doc(id, path) == [id |-> id, external |-> path, url |-> [host |-> "site", path |-> << "wiki" >> \o path]]
DocSets == {
  << Doc(1, << "a.md" >>), Doc(2, << "x", "b.md" >>), Doc(3, << "x", "c.md" >>) >>,
  << Doc(1, << "a.md" >>), Doc(2, << "x", "b.md" >>), Doc(3, << "x", "a.md" >>) >>,
  << Doc(1, << "x", "b.md" >>), Doc(2, << "x", "b.md" >>), Doc(3, << "c.md" >>) >> }

H(number, words) == [number |-> number, words |-> words]
Intro == H(<< "1" >>, << "intro" >>)
Usage == H(<< "1", "2" >>, << "basic", "usage" >>)
Notes == H(<< >>, << "usage" >>)
Headings == << << Intro >>, << Intro, Usage >>, << Notes >> >>

Href(host, path, fragment) == [host |-> host, path |-> path, rooted |-> FALSE, fragment |-> fragment]
NoHref == Href("", << >>, << >>)
Hrefs == {Href("", p, f) : f \in {<< >>, << "usage" >>, << "1", "2", "basic", "usage" >>},
                                  p \in {<< >>, << "b.md" >>, << "..", "a.md" >>, << "a.md" >>, << "z.md" >>}}
         \cup {Href("site", << "wiki", "x", "b.md" >>, << "1", "intro" >>),
               [Href("", << "x", "b.md" >>, << "usage" >>) EXCEPT !.rooted = TRUE]}

Ref(extractor, href, number, title) ==
  [extractor |-> extractor, href |-> href, number |-> number, title |-> title,
   label |-> IF extractor \in {"markdown", "html"} THEN "here" ELSE ""]
Refs == {Ref("markdown", h, << >>, << >>) : h \in Hrefs}
        \cup {Ref("url", h, << >>, << >>) : h \in {g \in Hrefs : g.path # << >> /\ g.fragment # << >>}}
        \cup {Ref("html", Href("", p, f), << >>, << >>) : p \in {<< "b.md" >>, << "..", "a.md" >>},
                                                         f \in {<< >>, << "usage" >>}}
        \cup {Ref("bare number", NoHref, << "1", "2" >>, << "basic", "usage" >>),
              Ref("bare number", NoHref, << "1", "1" >>, << "intro" >>)}
        \cup {Ref("number", NoHref, n, t) : n \in {<< "1" >>, << "1", "2" >>, << "7" >>},
                                            t \in {<< >>, << "basic", "usage" >>, << "usage", "tips" >>}}
        \cup {Ref("title", NoHref, << >>, t) : t \in {<< >>, << "intro" >>, << "usage" >>, << "basic", "usage" >>}}

Match(ref, start, end) ==
  [extractor |-> ref.extractor, href |-> ref.href, number |-> ref.number, title |-> ref.title, label |-> ref.label,
   start |-> start, end |-> end]

ReferenceCall(docs, d, text) ==
  LET section(e, k) == [id |-> 3 * e + k, doc |-> e, headings |-> Headings[k],
                        matches |-> IF e = d /\ k = 1 THEN text ELSE {}]
  IN [docs |-> docs, hits |-> << 3 * d + 1, 99, 3 * d + 2 >>,
      sections |-> {section(e, k) : e \in 1..3, k \in 1..3}]

\* The matches of one pattern do not overlap.
Texts == {{Match(f, 1, 3), Match(g, start, 5)} : f \in Refs, g \in Refs, start \in {2, 4}}

Apart(text) == \A m, n \in text : m.start = 1 /\ n.start = 2 => m.extractor # n.extractor

ReferenceCalls ==
  {ReferenceCall(docs, d, text) : docs \in DocSets, d \in 1..3, text \in {t \in Texts : Apart(t)}}

----------------------------------------------------------------------------
\* Files to cut into sections: up to four Markdown lines, or up to three of the
\* things a page may hold.

Line(hashes, indent, spaced, words) == [hashes |-> hashes, indent |-> indent, spaced |-> spaced, words |-> words]

MarkdownLines == {
  Line(1, 0, TRUE, << "one" >>), Line(2, 3, TRUE, << "two", "#" >>), Line(2, 0, TRUE, << "file" >>),
  Line(3, 0, TRUE, << "three" >>), Line(1, 0, TRUE, << >>), Line(2, 4, TRUE, << "code" >>),
  Line(7, 0, FALSE, << "seven" >>), Line(0, 0, FALSE, << >>), Line(0, 0, FALSE, << "text" >>) }

MarkdownFiles == {[format |-> "markdown", lines |-> l] : l \in SeqOf(MarkdownLines, 4)}

Path(scheme, slash, ext, name) == [scheme |-> scheme, slash |-> slash, ext |-> ext, name |-> name]
NoPath == Path("none", FALSE, "", "")

El(tag, kids) == [tag |-> tag, level |-> 0, id |-> "", href |-> NoPath, text |-> << >>, kids |-> kids]
T(word) == [El("text", << >>) EXCEPT !.text = << word >>]
Heading(level, id, kids) == [El("h", kids) EXCEPT !.level = level, !.id = id]
Anchor(path) == [El("a", << T(path.name) >>) EXCEPT !.href = path]

Fragments == {
  Heading(1, "top", << T("one") >>), Heading(2, "", << T("two"), Anchor(Path("", FALSE, "html", "in")) >>),
  Heading(2, "b", << >>), Heading(3, "c", << T("three") >>),
  El("p", << T("t1"), Anchor(Path("", TRUE, "", "guide")), Anchor(Path("https", FALSE, "", "out")) >>),
  El("li", << T("t2"), El("ul", << El("li", << T("t3") >>) >>), Heading(2, "", << T("inner") >>) >>),
  El("table", << El("caption", << T("lost") >>),
                 El("tr", << El("th", << T("c1") >>), El("td", << El("p", << T("c2") >>) >>) >>),
                 El("tr", << El("td", << Anchor(Path("", FALSE, "", "row")) >>) >>) >>),
  El("table", << El("tr", << El("td", << >>) >>) >>),
  El("div", << T("leaf"), El("span", << T("s1") >>) >>),
  El("div", << T("bare"), El("p", << T("t4") >>), El("nav", << El("p", << T("menu") >>) >>) >>),
  [El("section", << Heading(1, "", << T("deep") >>), El("blockquote", << T("quote") >>),
                    El("span", << El("code", << T("x1") >>) >>) >>) EXCEPT !.id = "sec"],
  Anchor(Path("", FALSE, "htm", "loose")), Anchor(Path("", FALSE, "pdf", "file")),
  El("script", << T("code") >>), El("nav", << Heading(1, "", << T("no") >>), Anchor(Path("", TRUE, "", "n")) >>) }

Pages == {[format |-> "html", title |-> IF Len(f) = 1 THEN << >> ELSE << "page" >>, root |-> El("body", f)] :
            f \in SeqOf(Fragments, 3)}

ReadFile == Called("file") /\ Return(P!Parse(asked))

----------------------------------------------------------------------------
\* Relations to propose: one that takes the effect of its type, one with
\* another effect, and two that are refused.

Input(from, to, type, effect) == [from |-> from, to |-> to, type |-> type, effect |-> effect, direction |-> ""]

Proposable == {Input("a", "b", "related_to", ""), Input("b", "c", "should_ignore", "boost"),
               Input("a", "a", "related_to", ""), Input("a", "c", "replaces", "")}

FileName == << "file" >>

ClientSymmetry == Permutations(Clients)

Curate == subject = "relations" /\ Next

----------------------------------------------------------------------------

\* The calls of the other parts find no relations and change none.
AlgorithmsInit ==
  /\ Init
  /\ \/ SearchInit
     \/ ReferencesInit
     \/ subject = "chunk" /\ answered = << >> /\ asked \in ChunkCalls
     \/ subject = "crawl" /\ answered = << >> /\ CrawlCall
     \/ subject = "file" /\ answered = << >> /\ asked \in MarkdownFiles \cup Pages
     \/ subject = "relations" /\ answered = << >> /\ asked = << >>

AlgorithmsNext ==
  \/ (Chunk \/ CrawlSite \/ FollowReferences \/ ReadFile \/ SearchStore) /\ UNCHANGED vars
  \/ Curate /\ UNCHANGED callVars

AlgorithmsSpec == AlgorithmsInit /\ [][AlgorithmsNext]_<< callVars, vars >>

----------------------------------------------------------------------------
\* The chunks of a section lose none of its characters nor their order, but
\* for what stands between the data rows of an HTML table; and no chunk of a
\* block-aware plan only repeats what the chunks before it hold.  With its
\* metadata it fits the context of the model.
ChunksAreWhole ==
  Returned("chunk") => /\ C!LosesNothing(asked, answered[1])
                       /\ C!EveryChunkIsNew(asked, answered[1])
                       /\ C!FitsContext(asked, answered[1])

\* The evaluation finds the blocks kept that the default strategy cut.
BlocksAreKept == Returned("chunk") => C!BlocksAreKept(asked, answered[1])

\* A crawl takes every page it can reach, once, the nearer ones first, and the
\* links between its pages become edges to the sections they stand for.
CrawlIsComplete ==
  Returned("crawl") => /\ W!CrawlIsComplete(asked, answered[1].docs)
                       /\ W!LinksLeadOn(answered[1].docs, answered[1].synced)

\* The sections of a file follow its headings and lose none of its text nor
\* links.
PagesAreWhole == Returned("file") => P!PagesAreWhole(asked, answered[1])

=============================================================================
