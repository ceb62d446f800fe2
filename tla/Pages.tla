------------------------------- MODULE Pages -------------------------------
(***************************************************************************)
(* How a file becomes a document with sections: a Markdown file            *)
(* (localdocs.go) cut at its heading lines, an HTML page (htmldocs.go)     *)
(* walked for its headings, texts and links.  Pure functions of the file;  *)
(* AlgorithmsMC.tla evaluates them.                                        *)
(*                                                                         *)
(*   line: [indent, hashes, spaced, words]       of a Markdown file        *)
(*   node: [tag, level, id, href, text, kids]    of an HTML page           *)
(*   section: [path, title, anchor, lines, links]                          *)
(*                                                                         *)
(* A title is a sequence of words, << >> if it is empty.  The node of a    *)
(* text has the tag "text"; a heading has the tag "h" and a level.         *)
(* An href is [scheme, slash, ext, name]: its scheme, whether its path     *)
(* ends with a slash and the extension of it; the scheme "none" stands for *)
(* no href at all.                                                         *)
(***************************************************************************)
EXTENDS Integers, SequencesExt

CONSTANT BaseName         \* the name of the file, the title of last resort

----------------------------------------------------------------------------
\* Headings

\* A mutated form: the heading of the same level stays.
StackKeepsSibling(stack, level, title) ==
  Append(IF level < Len(stack) THEN SubSeq(stack, 1, level) ELSE stack, title)

UpdateHeadingStack(stack, level, title) ==
  Append(IF level <= Len(stack) THEN SubSeq(stack, 1, level - 1) ELSE stack, title)

----------------------------------------------------------------------------
\* Markdown

ParseATXHeading(line) == line.indent <= 3 /\ line.hashes \in 1..6 /\ (line.spaced \/ line.words = << >>)

StripClosingHashes(words) == IF Len(words) > 1 /\ Last(words) = "#" THEN Front(words) ELSE words

Blank(line) == line.hashes = 0 /\ line.words = << >>

FlushMarkdown(p) ==
  IF ~p.isHeading /\ \A k \in DOMAIN p.lines : Blank(p.lines[k])
  THEN [p EXCEPT !.lines = << >>]
  ELSE [p EXCEPT !.lines = << >>,
                 !.sections = Append(@, [path |-> p.path, anchor |-> "", lines |-> p.lines, links |-> << >>,
                                         title |-> IF p.isHeading THEN p.title ELSE p.docTitle])]

ReadLine(p, line) ==
  IF ~ParseATXHeading(line) THEN [p EXCEPT !.lines = Append(@, line)]
  ELSE LET f == FlushMarkdown(p)
           title == StripClosingHashes(line.words)
           stack == UpdateHeadingStack(f.stack, line.hashes, title)
       IN [f EXCEPT !.docTitle = IF line.hashes = 1 /\ title # << >> /\ @ = BaseName THEN title ELSE @,
                    !.isHeading = TRUE, !.title = title, !.stack = stack, !.path = stack]

ParseMarkdown(lines) ==
  LET start == [docTitle |-> BaseName, isHeading |-> FALSE, title |-> << >>, stack |-> << >>, path |-> << >>,
                lines |-> << >>, sections |-> << >>]
      end == FlushMarkdown(FoldLeft(ReadLine, start, lines))
  IN [title |-> end.docTitle, sections |-> end.sections]

----------------------------------------------------------------------------
\* HTML

Skipped == {"script", "style", "noscript", "nav"}
TextBlocks == {"p", "li", "pre", "code"}
Blocks == {"div", "section", "article", "main", "header", "footer", "ul", "ol", "dl", "table", "form",
           "fieldset", "h", "p", "blockquote", "pre", "hr", "iframe"}

RECURSIVE TextContent(_)
TextContent(node) ==
  IF node.tag = "text" THEN node.text
  ELSE FoldLeft(LAMBDA t, kid : t \o TextContent(kid), << >>, node.kids)

IsInternalHTMLLink(href) == href.scheme = "" /\ (href.slash \/ href.ext \in {"", "html", "htm"})

LinkOf(node) == IF node.tag = "a" /\ IsInternalHTMLLink(node.href) THEN << node.href >> ELSE << >>

RECURSIVE InternalLinks(_)
InternalLinks(node) == FoldLeft(LAMBDA l, kid : l \o InternalLinks(kid), LinkOf(node), node.kids)

\* A row is one line of the texts of its cells.
RECURSIVE TableRows(_)
TableRows(node) ==
  IF node.tag = "tr"
  THEN LET cells == SelectSeq(node.kids, LAMBDA kid : kid.tag \in {"th", "td"})
           line == FoldLeft(LAMBDA t, cell : t \o TextContent(cell), << >>, cells)
       IN IF line = << >> THEN << >> ELSE << line >>
  ELSE FoldLeft(LAMBDA r, kid : r \o TableRows(kid), << >>, node.kids)

TextLine(node) == IF TextContent(node) = << >> THEN << >> ELSE << TextContent(node) >>

TableLines(node) == IF TableRows(node) = << >> THEN TextLine(node) ELSE TableRows(node)

IsLeafTextElement(node) ==
  /\ \E k \in DOMAIN node.kids : node.kids[k].tag = "text" /\ node.kids[k].text # << >>
  /\ \A k \in DOMAIN node.kids : node.kids[k].tag \notin Blocks

Flush(p) ==
  IF p.lines = << >> /\ p.title = << >> THEN p
  ELSE LET untitled == p.title = << >>
       IN [p EXCEPT !.lines = << >>, !.links = << >>,
                    !.sections = Append(@, [path |-> IF untitled THEN << p.docTitle >> ELSE p.path,
                                            title |-> IF untitled THEN p.docTitle ELSE p.title,
                                            anchor |-> p.anchor, lines |-> p.lines, links |-> p.links])]

ReadHeading(p, node) ==
  LET f == Flush(p)
      title == IF TextContent(node) = << >> THEN p.docTitle ELSE TextContent(node)
      stack == UpdateHeadingStack(f.stack, node.level, title)
  IN [f EXCEPT !.stack = stack, !.path = stack, !.title = title, !.anchor = node.id]

Take(p, lines, node) == [p EXCEPT !.lines = @ \o lines, !.links = @ \o InternalLinks(node)]

RECURSIVE Walk(_, _)
Walk(p, node) ==
  LET q == IF node.id = "" THEN p ELSE [p EXCEPT !.anchors = Append(@, node.id)]
  IN CASE node.tag \in Skipped -> q
       [] node.tag = "h" -> ReadHeading(q, node)
       [] node.tag \in TextBlocks -> Take(q, TextLine(node), node)
       [] node.tag = "table" -> Take(q, TableLines(node), node)
       [] node.tag \in {"div", "span"} /\ IsLeafTextElement(node) -> Take(q, TextLine(node), node)
       [] OTHER -> FoldLeft(Walk, [q EXCEPT !.links = @ \o LinkOf(node)], node.kids)

\* A page without a section is one section of all it says, scripts included.
ParseHTML(page) ==
  LET title == IF page.title = << >> THEN BaseName ELSE page.title
      start == [docTitle |-> title, title |-> << >>, stack |-> << >>, path |-> << >>, anchor |-> "",
                lines |-> << >>, links |-> << >>, anchors |-> << >>, sections |-> << >>]
      end == Flush(Walk(start, page.root))
      whole == [path |-> << title >>, title |-> title, anchor |-> "", lines |-> TextLine(page.root),
                links |-> << >>]
  IN [title |-> title, anchors |-> end.anchors,
      sections |-> IF end.sections = << >> THEN << whole >> ELSE end.sections]

Parse(file) == IF file.format = "markdown" THEN ParseMarkdown(file.lines) ELSE ParseHTML(file)

----------------------------------------------------------------------------
\* What a section owes to the file

\* The titles of the headings around the k-th one: the last of every level
\* below its own, and its own.
Around(headings, k) ==
  LET last(level) == CHOOSE i \in 1..k : /\ headings[i].level = level
                                         /\ \A j \in i+1..k : headings[j].level > level
  IN [level \in 1..headings[k].level |-> headings[last(level)].title]

\* No heading is more than one level below the one before it.
Nested(headings) ==
  \A k \in DOMAIN headings : headings[k].level <= (IF k = 1 THEN 1 ELSE headings[k - 1].level + 1)

\* The headings of a Markdown file and, as sections 0, 1, ..., what follows them.
MarkdownHeadings(lines) ==
  LET found == SelectSeq(lines, ParseATXHeading)
  IN [k \in DOMAIN found |-> [level |-> found[k].hashes, title |-> StripClosingHashes(found[k].words)]]

MarkdownParts(lines) ==
  LET before(i) == Cardinality({j \in 1..i : ParseATXHeading(lines[j])})
      part(n) == SelectSeq([i \in DOMAIN lines |-> i], LAMBDA i : before(i) = n /\ ~ParseATXHeading(lines[i]))
  IN [n \in 1..before(Len(lines)) + 1 |-> [k \in DOMAIN part(n - 1) |-> lines[part(n - 1)[k]]]]

\* The texts, links and headings of an HTML page in their order, each under
\* the elements around it.
RECURSIVE Leaves(_, _)
Leaves(node, above) ==
  LET here == IF node.tag \in {"text", "h"} \/ LinkOf(node) # << >>
              THEN << [node |-> node, above |-> above] >> ELSE << >>
  IN FoldLeft(LAMBDA l, kid : l \o Leaves(kid, Append(above, node)), here, node.kids)

Keeps(node) ==
  \/ node.tag \in TextBlocks \cup {"table"}
  \/ node.tag \in {"div", "span"} /\ IsLeafTextElement(node)

\* Nothing around it is skipped, or something below that keeps all its text.
Seen(leaf) ==
  \A k \in DOMAIN leaf.above :
    leaf.above[k].tag \in Skipped \cup {"h"} => \E j \in 1..k-1 : Keeps(leaf.above[j])

\* Headings within what is kept as text are text.
HeadingLeaf(leaf) ==
  leaf.node.tag = "h" /\ Seen(leaf) /\ \A k \in DOMAIN leaf.above : ~Keeps(leaf.above[k])

Within(leaf, tag) == \E k \in DOMAIN leaf.above : leaf.above[k].tag = tag

\* What a table says outside its rows counts for nothing.
TextLeaf(leaf) ==
  /\ leaf.node.tag = "text"
  /\ Seen(leaf)
  /\ \E k \in DOMAIN leaf.above : Keeps(leaf.above[k])
  /\ Within(leaf, "caption") => ~Within(leaf, "table")

HTMLHeadings(page, title) ==
  LET found == SelectSeq(Leaves(page.root, << >>), HeadingLeaf)
      own(node) == IF TextContent(node) = << >> THEN title ELSE TextContent(node)
  IN [k \in DOMAIN found |-> [level |-> found[k].node.level, title |-> own(found[k].node)]]

\* What stands between the headings, as one sequence.
Between(leaves, which(_), what(_)) ==
  LET before(i) == Cardinality({j \in 1..i : HeadingLeaf(leaves[j])})
      part(n) == SelectSeq([i \in DOMAIN leaves |-> i], LAMBDA i : before(i) = n /\ which(leaves[i]))
  IN [n \in 1..before(Len(leaves)) + 1 |->
        FoldLeft(LAMBDA t, i : t \o what(leaves[i].node), << >>, part(n - 1))]

HTMLTexts(page) == Between(Leaves(page.root, << >>), TextLeaf, LAMBDA node : node.text)
HTMLLinks(page) ==
  Between(Leaves(page.root, << >>), LAMBDA leaf : leaf.node.tag = "a" /\ Seen(leaf), LinkOf)

----------------------------------------------------------------------------
\* A section for every heading, after one for what precedes the first if that
\* says anything; each holds what the file says up to the next heading, in its
\* order, below the headings around it.
SectionsFollowHeadings(file, doc) ==
  LET headings == IF file.format = "markdown" THEN MarkdownHeadings(file.lines)
                  ELSE HTMLHeadings(file, doc.title)
      texts == IF file.format = "markdown" THEN MarkdownParts(file.lines) ELSE HTMLTexts(file)
      said == IF file.format = "markdown" THEN \E k \in DOMAIN texts[1] : ~Blank(texts[1][k])
              ELSE texts[1] # << >>
      preface == IF said THEN 1 ELSE 0
      lines(s) == IF file.format = "markdown" THEN s.lines ELSE FlattenSeq(s.lines)
  IN Len(headings) + preface > 0 =>
       /\ Len(doc.sections) = Len(headings) + preface
       /\ \A k \in DOMAIN headings :
            LET s == doc.sections[k + preface]
            IN /\ s.title = headings[k].title
               /\ Nested(headings) => s.path = Around(headings, k)
               /\ lines(s) = texts[k + 1]
       /\ said => lines(doc.sections[1]) = texts[1]

\* Every link that leads into the site is a link of the section it stands in;
\* links before the first heading go to the first section, those of a heading
\* to none.
LinksStayInPlace(page, doc) ==
  LET links == HTMLLinks(page)
      last == Len(doc.sections)
  IN HTMLHeadings(page, doc.title) # << >> \/ HTMLTexts(page)[1] # << >> =>
       /\ FlattenSeq([k \in 1..last |-> doc.sections[k].links]) = FlattenSeq(links)
       /\ \A k \in 2..last : doc.sections[k].links = links[Len(links) - last + k]

\* The sections of a file follow its headings and lose none of its text nor links.
PagesAreWhole(file, doc) ==
  /\ SectionsFollowHeadings(file, doc)
  /\ file.format = "html" => LinksStayInPlace(file, doc)

=============================================================================
