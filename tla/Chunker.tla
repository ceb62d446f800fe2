------------------------------ MODULE Chunker ------------------------------
(***************************************************************************)
(* How the content of a section is cut into chunks for the embedding       *)
(* model (embeddingchunk/chunker.go), and how an evaluation judges a plan  *)
(* (embeddingeval/eval.go).  Pure functions: the module has no variables,  *)
(* AlgorithmsMC.tla evaluates it on a set of sections.                     *)
(*                                                                         *)
(* A content is a sequence of lines [kind, size]: the kind says which of   *)
(* the line predicates of the code hold, the size how many tokens the line *)
(* counts.  A text is the sequence of its tokens <<line, position>>, so    *)
(* that two texts are equal when the same characters of the section stand  *)
(* in them.  Line ends count nothing, as in the measurer for a text        *)
(* without ASCII words, where every character is a token.                  *)
(***************************************************************************)
EXTENDS Integers, SequencesExt

CONSTANTS
  LongLine,        \* a line above this many characters keeps its block together (240)
  MinBody,         \* the least body budget (32)
  MinTarget,       \* the least chunk target (64)
  DefaultTarget,   \* the target when neither it nor a context length is given (512)
  Margin,          \* tokens kept free besides the metadata (16)
  LongFragment     \* from this length the evaluation looks for the ends of a line (80)

LineKinds == {"blank", "text", "fence", "declaration", "row", "separator", "<table", "</table>",
  "<tr><td>", "<tr><th>", "<tr>", "<td>", "</tr>", "<figure>", "</figure>", "image", "caption",
  "italic", "item", "indented", "!!!", ":::name", ":::", "> [!note]", ">"}

Rows              == {"row", "separator"}
Quotes            == {">", "> [!note]"}
AdmonitionStarts  == {"!!!", ":::name", ":::", "> [!note]"}
ListContinuations == {"blank", "item", "indented"}
RowStarts         == {"<tr><td>", "<tr><th>", "<tr>"}
RowEnds           == {"<tr><td>", "<tr><th>", "</tr>"}
DataCells         == {"<tr><td>", "<td>"}

----------------------------------------------------------------------------
\* Texts and lines.

Lines(content) ==
  [i \in DOMAIN content |->
    [kind |-> content[i].kind, text |-> [j \in 1..content[i].size |-> <<i, j>>]]]

Text(lines) == FlattenSeq([i \in DOMAIN lines |-> lines[i].text])

NonEmptyLines(lines) == SelectSeq(lines, LAMBDA l : l.kind # "blank")

LeastOr(S, default) == IF S = {} THEN default ELSE Min(S)

\* The pieces of at most size tokens of a text, each beginning back tokens
\* before the end of the one before it.
Pieces(text, size, back) ==
  LET n == Len(text)
      from[i \in 1..n + 1] ==
        IF i > n THEN << >>
        ELSE LET last == Min({i + size - 1, n}) IN
             << SubSeq(text, i, last) >> \o from[IF last < n THEN last + 1 - back ELSE n + 1]
  IN from[1]

\* The last max tokens of a text (the whole of a shorter one).
SuffixApproxTokens(text, max) == SubSeq(text, Max({1, Len(text) - max + 1}), Len(text))

\* A unit no structure is known of is cut anywhere.  The overlap must be
\* smaller than the budget: otherwise the next piece starts where this one did.
SplitLongUnit(text, budget, overlap) == Pieces(text, budget, overlap)

----------------------------------------------------------------------------
\* Blocks and units.

MarkdownTableStart(lines, i) ==
  /\ i < Len(lines)
  /\ lines[i].kind \in Rows
  /\ lines[i + 1].kind = "separator"

\* The block that begins at line i and its last line; "paragraph" if none does.
BlockAt(lines, i, captions) ==
  LET n == Len(lines)
      kind(j) == lines[j].kind
      next(S) == LeastOr({j \in i + 1..n : kind(j) \in S}, n)
      while(S) == LeastOr({j \in i + 1..n : kind(j) \notin S}, n + 1) - 1
      depth(j) == Cardinality({k \in i..j : kind(k) = "<table"})
                    - Cardinality({k \in i..j : kind(k) = "</table>"})
      tableEnd == LeastOr({j \in i..n : kind(j) = "</table>" /\ depth(j) <= 0}, n)
      stop == LeastOr({j \in i + 1..n : kind(j) \in {"blank", "covered", ":::"}}, n + 1)
      noteEnd == IF stop <= n /\ kind(stop) = ":::" THEN stop ELSE stop - 1
      block(k, e) == [kind |-> k, end |-> e]
      followed(S) == i < n /\ kind(i + 1) \in S
  IN CASE kind(i) = "fence" -> block("fenced_code", next({"fence"}))
       [] kind(i) = "<table" -> block("html_table", tableEnd)
       [] MarkdownTableStart(lines, i) -> block("markdown_table", while(Rows))
       [] kind(i) = "<figure>" -> block("image_caption", next({"</figure>"}))
       [] kind(i) = "image" -> block("image_caption", IF followed(captions) THEN i + 1 ELSE i)
       [] kind(i) = "item" -> block("list", while(ListContinuations))
       [] kind(i) \in AdmonitionStarts -> block("admonition", noteEnd)
       [] kind(i) \in Quotes /\ followed(Quotes) -> block("blockquote", while(Quotes))
       [] OTHER -> block("paragraph", i)

\* A unit loses the blank lines at its end.
Unit(kind, lines, first, last) ==
  LET end == Max({k \in first..last : lines[k].kind # "blank"}) IN
  [kind |-> kind, lines |-> SubSeq(lines, first, end)]

SplitContentBlockAwareUnits(content) ==
  LET lines == Lines(content)
      n == Len(lines)
      block == [i \in 1..n |-> BlockAt(lines, i, {"caption"})]
      prose == {i \in 1..n : lines[i].kind # "blank" /\ block[i].kind = "paragraph"}
      from[i \in 1..n + 1] ==
        IF i > n THEN << >>
        ELSE IF lines[i].kind = "blank" THEN from[i + 1]
        ELSE LET end == IF i \in prose THEN LeastOr((i + 1..n) \ prose, n + 1) - 1
                        ELSE block[i].end
             IN << Unit(block[i].kind, lines, i, end) >> \o from[end + 1]
  IN from[1]

\* Blocks end at a blank line; the lines of a block of short lines are units
\* of their own.  Returns texts.
SplitContentUnits(content) ==
  LET lines == Lines(content)
      n == Len(lines)
      from[i \in 1..n + 1] ==
        IF i > n THEN << >>
        ELSE IF lines[i].kind = "blank" THEN from[i + 1]
        ELSE LET end == LeastOr({j \in i..n : lines[j].kind = "blank"}, n + 1) - 1
                 members == SubSeq(lines, i, end)
                 short == \A j \in i..end : content[j].size <= LongLine
             IN (IF short THEN [k \in DOMAIN members |-> members[k].text]
                 ELSE << Text(members) >>) \o from[end + 1]
  IN from[1]

----------------------------------------------------------------------------
\* Blocks above the budget: each kind has its own way of being cut, most of
\* them repeating the frame that gives the parts their meaning.

\* A line too long for its frame is cut to what fits, one character at least.
SplitWrappedLine(text, frame, budget) == Pieces(text, Max({1, budget - frame}), 0)

\* Groups of lines are packed between a prefix and a suffix.
PackLineGroups(groups, prefix, suffix, budget) ==
  LET frame == Len(prefix) + Len(suffix)
      part(t) == prefix \o t \o suffix
      flush(st) == IF st.current = << >> THEN st.out ELSE Append(st.out, part(st.current))
      cut(g) == LET ps == SplitWrappedLine(g, frame, budget) IN [k \in DOMAIN ps |-> part(ps[k])]
      add(st, g) ==
        IF g = << >> THEN st
        ELSE IF frame + Len(g) > budget THEN [out |-> flush(st) \o cut(g), current |-> << >>]
        ELSE IF frame + Len(st.current) + Len(g) > budget THEN [out |-> flush(st), current |-> g]
        ELSE [st EXCEPT !.current = @ \o g]
      end == flush(FoldLeft(add, [out |-> << >>, current |-> << >>], groups))
  IN IF end = << >> /\ frame > 0 THEN << prefix \o suffix >> ELSE end

Texts(lines) == [i \in DOMAIN lines |-> lines[i].text]

\* Code is grouped at blank lines and before declarations and comments; a
\* group that does not fit falls back to its lines.
CodeGroups(lines, frame, budget) ==
  LET n == Len(lines)
      from[i \in 1..n + 1] ==
        IF i > n THEN << >>
        ELSE IF lines[i].kind = "blank" THEN from[i + 1]
        ELSE LET end == LeastOr({j \in i + 1..n : lines[j].kind \in {"blank", "declaration"}},
                                n + 1) - 1
                 group == SubSeq(lines, i, end)
             IN (IF frame + Len(Text(group)) <= budget THEN << Text(group) >> ELSE Texts(group))
                  \o from[end + 1]
  IN from[1]

SplitOversizedFencedCode(lines, budget) ==
  LET n == Len(lines)
      closed == n > 1 /\ lines[n].kind = "fence"
      opening == lines[1].text
      closing == IF closed THEN lines[n].text ELSE SubSeq(opening, 1, 1)
      body == SubSeq(lines, 2, IF closed THEN n - 1 ELSE n)
  IN IF n < 2 THEN SplitLongUnit(Text(lines), budget, 0)
     ELSE PackLineGroups(CodeGroups(body, Len(opening) + Len(closing), budget),
                         opening, closing, budget)

\* A mutated form: only the first line of the header is repeated.
HeaderCut(lines, budget) ==
  LET rows == NonEmptyLines(lines) IN
  IF Len(rows) < 3 THEN SplitLongUnit(Text(rows), budget, 0)
  ELSE PackLineGroups(Texts(SubSeq(rows, 2, Len(rows))), rows[1].text, << >>, budget)

SplitOversizedMarkdownTable(lines, budget) ==
  LET rows == NonEmptyLines(lines) IN
  IF Len(rows) < 3 THEN SplitLongUnit(Text(rows), budget, 0)
  ELSE PackLineGroups(Texts(SubSeq(rows, 3, Len(rows))), Text(SubSeq(rows, 1, 2)), << >>, budget)

\* The first and last line of every data row of an HTML table.
HtmlTableDataRows(lines) ==
  LET n == Len(lines)
      from[i \in 1..n + 1] ==
        IF i > n THEN << >>
        ELSE IF lines[i].kind \notin RowStarts THEN from[i + 1]
        ELSE LET end == LeastOr({j \in i..n : lines[j].kind \in RowEnds}, n)
                 data == \E j \in i..end : lines[j].kind \in DataCells
             IN (IF data THEN << [start |-> i, end |-> end] >> ELSE << >>) \o from[end + 1]
  IN from[1]

\* What stands before the first data row and after the last one is repeated;
\* what stands between two of them is in no chunk.
SplitOversizedHTMLTable(all, budget) ==
  LET lines == NonEmptyLines(all)
      rows == HtmlTableDataRows(lines)
      n == Len(rows)
  IN IF n = 0 THEN SplitLongUnit(Text(lines), budget, 0)
     ELSE PackLineGroups([k \in 1..n |-> Text(SubSeq(lines, rows[k].start, rows[k].end))],
                         Text(SubSeq(lines, 1, rows[1].start - 1)),
                         Text(SubSeq(lines, rows[n].end + 1, Len(lines))), budget)

SplitOversizedImageCaption(all, budget) ==
  LET lines == NonEmptyLines(all)
      n == Len(lines)
      figure == lines[1].kind = "<figure>" /\ lines[n].kind = "</figure>"
  IN IF n <= 1 THEN SplitLongUnit(Text(lines), budget, 0)
     ELSE PackLineGroups(Texts(SubSeq(lines, 2, IF figure THEN n - 1 ELSE n)), lines[1].text,
                         IF figure THEN lines[n].text ELSE << >>, budget)

\* The items of a list with their continuation lines.
SplitListItems(lines) ==
  LET n == Len(lines)
      from[i \in 1..n + 1] ==
        IF i > n THEN << >>
        ELSE LET end == LeastOr({j \in i + 1..n : lines[j].kind = "item"}, n + 1) - 1
             IN << Text(SubSeq(lines, i, end)) >> \o from[end + 1]
  IN from[1]

\* The marker of an item or of a quoted line is its first token: every part
\* of one that is cut begins with it.
CutAfterMarker(text, budget) ==
  IF Len(text) <= budget THEN << text >>
  ELSE LET parts == SplitWrappedLine(Tail(text), 1, budget)
       IN [k \in DOMAIN parts |-> << Head(text) >> \o parts[k]]

SplitOversizedList(lines, budget) ==
  LET items == SplitListItems(NonEmptyLines(lines)) IN
  PackLineGroups(FlattenSeq([k \in DOMAIN items |-> CutAfterMarker(items[k], budget)]),
                 << >>, << >>, budget)

SplitOversizedBlockquote(lines, budget) ==
  LET quoted == NonEmptyLines(lines) IN
  PackLineGroups(FlattenSeq([k \in DOMAIN quoted |-> CutAfterMarker(quoted[k].text, budget)]),
                 << >>, << >>, budget)

SplitOversizedAdmonition(all, budget) ==
  LET lines == NonEmptyLines(all)
      n == Len(lines)
      closed == lines[1].kind \in {":::name", ":::"} /\ lines[n].kind = ":::"
  IN IF n <= 1 THEN SplitLongUnit(Text(lines), budget, 0)
     ELSE PackLineGroups(Texts(SubSeq(lines, 2, IF closed THEN n - 1 ELSE n)), lines[1].text,
                         IF closed THEN lines[n].text ELSE << >>, budget)

SplitOversizedBlockAwareUnit(unit, budget, overlap) ==
  CASE unit.kind = "fenced_code"    -> SplitOversizedFencedCode(unit.lines, budget)
    [] unit.kind = "markdown_table" -> SplitOversizedMarkdownTable(unit.lines, budget)
    [] unit.kind = "html_table"     -> SplitOversizedHTMLTable(unit.lines, budget)
    [] unit.kind = "image_caption"  -> SplitOversizedImageCaption(unit.lines, budget)
    [] unit.kind = "list"           -> SplitOversizedList(unit.lines, budget)
    [] unit.kind = "blockquote"     -> SplitOversizedBlockquote(unit.lines, budget)
    [] unit.kind = "admonition"     -> SplitOversizedAdmonition(unit.lines, budget)
    [] OTHER                        -> SplitLongUnit(Text(unit.lines), budget, overlap)

----------------------------------------------------------------------------
\* Packing units into bodies.

\* A body is closed and the next one begins with the end of it.
FlushBody(st, overlap) ==
  IF st.current = << >> THEN st
  ELSE [out |-> Append(st.out, st.current),
        current |-> IF overlap > 0 THEN SuffixApproxTokens(st.current, overlap) ELSE << >>]

AddUnit(st, text, budget, overlap) ==
  LET room == IF st.current # << >> /\ Len(st.current) + Len(text) > budget
              THEN FlushBody(st, overlap) ELSE st
  IN [room EXCEPT !.current = @ \o text]

Emptied(overlap, st) == FlushBody(st, overlap).out

\* A mutated form: a unit above the budget leaves the overlap of the body
\* before it in place, as the packing of plain units does.
StaleOverlap(units, budget, overlap) ==
  LET add(st, unit) ==
        LET text == Text(unit.lines) IN
        IF Len(text) > budget
        THEN [FlushBody(st, overlap) EXCEPT
                !.out = @ \o SplitOversizedBlockAwareUnit(unit, budget, overlap)]
        ELSE AddUnit(st, text, budget, overlap)
  IN Emptied(overlap, FoldLeft(add, [out |-> << >>, current |-> << >>], units))

PackBlockAwareUnits(units, budget, overlap) ==
  LET add(st, unit) ==
        LET text == Text(unit.lines) IN
        IF Len(text) > budget
        THEN [out |-> Emptied(overlap, st)
                        \o SplitOversizedBlockAwareUnit(unit, budget, overlap),
              current |-> << >>]
        ELSE AddUnit(st, text, budget, overlap)
  IN Emptied(overlap, FoldLeft(add, [out |-> << >>, current |-> << >>], units))

\* After a unit above the budget the overlap of the body before it stays: it
\* comes again, out of its place, with the unit that follows or on its own.
PackUnits(units, budget, overlap) ==
  LET add(st, text) ==
        IF Len(text) > budget
        THEN LET flushed == FlushBody(st, overlap) IN
             [flushed EXCEPT !.out = @ \o SplitLongUnit(text, budget, overlap)]
        ELSE AddUnit(st, text, budget, overlap)
  IN Emptied(overlap, FoldLeft(add, [out |-> << >>, current |-> << >>], units))

----------------------------------------------------------------------------
\* Strategies.

AdaptiveCandidates(budget, overlap) ==
  LET budgets == {Max({MinBody, b}) : b \in {(3 * budget) \div 4, budget, (5 * budget) \div 4}}
      overlaps == IF overlap = 0 THEN {0, Max({1, budget \div 20})}
                  ELSE {overlap \div 2, overlap, 2 * overlap}
  IN {[budget |-> b, overlap |-> Min({o, b \div 5})] : b \in budgets, o \in overlaps}

\* The bodies a strategy may return.  The adaptive one takes the candidate of
\* the lowest score, a weighing of sizes: here any candidate.
BuildBodies(strategy, content, budget, overlap) ==
  LET whole == Text(Lines(content))
      structural(b, o) == PackUnits(SplitContentUnits(content), b, o)
      blockAware(o) == PackBlockAwareUnits(SplitContentBlockAwareUnits(content), budget, o)
  IN CASE whole = << >> -> { << >> }
       [] strategy \in {"auto", "section_whole"} /\ whole # << >> /\ Len(whole) <= budget ->
            { << whole >> }
       [] strategy = "auto" /\ Len(whole) > budget -> { blockAware(0) }
       [] strategy = "section_whole" /\ Len(whole) > budget -> { structural(budget, overlap) }
       [] strategy = "block_aware_pack" /\ whole # << >> -> { blockAware(overlap) }
       [] strategy = "structural" /\ whole # << >> -> { structural(budget, overlap) }
       [] strategy = "adaptive" /\ whole # << >> ->
            { structural(c.budget, c.overlap) : c \in AdaptiveCandidates(budget, overlap) }

\* The target and the overlap a chunker works with.
Normalized(c) ==
  LET given == IF c.target > 0 THEN c.target
               ELSE IF c.context > 0 THEN (3 * c.context) \div 5 ELSE DefaultTarget
      held == IF c.context > 0 THEN Min({given, c.context - c.reserve - Margin}) ELSE given
      target == Max({held, MinTarget})
      overlap == IF c.overlap = 0 THEN (target \div 5) \div 2
                 ELSE Min({c.overlap, target \div 5})
  IN [c EXCEPT !.target = target, !.overlap = overlap]

BodyBudget(c, prefixTokens) == Max({MinBody, Normalized(c).target - prefixTokens - Margin})

\* The chunks of a section: metadata and body.  A section without content
\* still gets one chunk.
BuildChunks(c, content, prefixTokens) ==
  LET plans == BuildBodies(c.strategy, content, BodyBudget(c, prefixTokens),
                           Normalized(c).overlap)
      chunk(body) == [body |-> body, tokens |-> prefixTokens + Len(body)]
  IN { LET bodies == IF p = << >> THEN << << >> >> ELSE p
       IN [i \in DOMAIN bodies |-> chunk(bodies[i])] : p \in plans }

----------------------------------------------------------------------------
\* The evaluation of a plan: which blocks of the section does it keep?

\* Blocks of one of the kinds, read from top to bottom.
ScanBlocks(lines, kinds) ==
  LET n == Len(lines)
      from[i \in 1..n + 1] ==
        IF i > n THEN {}
        ELSE LET b == BlockAt(lines, i, {"caption", "italic"}) IN
             IF b.kind \in kinds /\ (b.kind = "list" => b.end > i)
             THEN {[kind |-> b.kind, first |-> i, last |-> b.end]} \cup from[b.end + 1]
             ELSE from[i + 1]
  IN from[1]

\* Lines of blocks already found begin and continue no other block; only the
\* search for the end of a figure reads them.
Covered(lines, blocks) ==
  [i \in DOMAIN lines |->
    IF (\E b \in blocks : i \in b.first..b.last) /\ lines[i].kind # "</figure>"
    THEN [lines[i] EXCEPT !.kind = "covered"] ELSE lines[i]]

\* Code and HTML tables first, then Markdown tables, then the rest.
ProtectedBlocks(content) ==
  LET lines == Lines(content)
      framed == ScanBlocks(lines, {"fenced_code", "html_table"})
      tables == ScanBlocks(Covered(lines, framed), {"markdown_table"})
      others == ScanBlocks(Covered(lines, framed \cup tables),
                           {"image_caption", "list", "admonition", "blockquote"})
  IN {[kind |-> b.kind, first |-> b.first, lines |-> NonEmptyLines(SubSeq(lines, b.first, b.last))]
        : b \in framed \cup tables \cup others}

Occurs(text, part) ==
  \E k \in 0..Len(text) - Len(part) : SubSeq(text, k + 1, k + Len(part)) = part

InSome(bodies, part) == \E b \in bodies : Occurs(b, part)

\* The bodies in which all the texts occur.
BodiesWithAll(bodies, texts) == {b \in bodies : \A t \in texts : Occurs(b, t)}

LongLineFragmentsPreserved(bodies, text) ==
  LET half == LongFragment \div 2 IN
  /\ Len(text) >= LongFragment
  /\ InSome(bodies, SubSeq(text, 1, half))
  /\ InSome(bodies, SubSeq(text, Len(text) - half + 1, Len(text)))

\* A block that is cut counts as kept when every part of it is in a body that
\* has the frame of the block.
SplitPreserved(block, bodies) ==
  LET lines == block.lines
      n == Len(lines)
      kept(bs, text) == InSome(bs, text) \/ LongLineFragmentsPreserved(bs, text)
      inner(first, last) == {lines[k].text : k \in first..last}
      framed(frame, parts) == LET bs == BodiesWithAll(bodies, frame) IN
                              bs # {} /\ \A p \in parts : kept(bs, p)
      closed == lines[1].kind \in {":::name", ":::"} /\ lines[n].kind = ":::"
  IN CASE block.kind = "fenced_code" ->
            LET shut == n > 1 /\ lines[n].kind = "fence"
                closing == IF shut THEN lines[n].text ELSE SubSeq(lines[1].text, 1, 1)
                bs == BodiesWithAll(bodies, {lines[1].text, closing})
                code == inner(2, IF shut THEN n - 1 ELSE n)
            IN code # {} /\ bs # {} /\ \A t \in code : InSome(bs, t)
       [] block.kind = "markdown_table" ->
            n >= 3 /\ framed({lines[1].text, lines[2].text}, inner(3, n))
       [] block.kind = "html_table" ->
            LET rows == HtmlTableDataRows(lines)
                header == {l.text : l \in {lines[k] : k \in {j \in 1..n :
                             lines[j].kind \in {"<table", "<tr><th>", "</table>"}}}}
            IN rows # << >> /\ framed(header, {Text(SubSeq(lines, rows[k].start, rows[k].end))
                                                : k \in DOMAIN rows})
       [] block.kind = "list" ->
            \A item \in ToSet(SplitListItems(lines)) :
              InSome(bodies, item) \/ \A t \in inner(1, n) :
                                        Occurs(item, t) => kept(bodies, t)
       [] block.kind = "admonition" ->
            n >= 2 /\ framed({lines[1].text} \cup (IF closed THEN {lines[n].text} ELSE {}),
                             inner(2, IF closed THEN n - 1 ELSE n))
       [] OTHER -> \A t \in inner(1, n) : kept(bodies, t)

\* A block within one chunk is kept, whatever its kind.
Preserved(block, bodies) ==
  InSome(bodies, Text(block.lines)) \/ SplitPreserved(block, bodies)

----------------------------------------------------------------------------
\* What a plan promises, of a call [config, content, prefix] and the chunks
\* it returned.

\* The first and the last chunk a token is in; 0 when it is in none.
FirstIn(chunks, t) == LeastOr({i \in DOMAIN chunks : t \in ToSet(chunks[i].body)}, 0)
LastIn(chunks, t)  == Max({0} \cup {i \in DOMAIN chunks : t \in ToSet(chunks[i].body)})

\* A line between two data rows of one HTML table and in neither: the row of an
\* earlier cell has ended, that of a later one begins behind it, and the table
\* that opened before the first is still open at the last.
BetweenRows(content, i) ==
  LET of(S, T) == {k \in S : content[k].kind \in T}
      open(t, k) == Cardinality(of(t..k, {"<table"})) > Cardinality(of(t..k, {"</table>"}))
  IN \E a \in of(1..i - 1, DataCells), b \in of(i + 1..Len(content), DataCells) :
       /\ \E t \in of(1..a - 1, {"<table"}) : \A k \in a..b : open(t, k)
       /\ of(a..i - 1, RowEnds) # {}
       /\ of(i + 1..b, RowStarts) # {}

\* Chunking loses nothing and keeps the order: every token of the section is
\* in some chunk, and a token never comes only after its successor.  The one
\* thing that may be missing stands between the data rows of an HTML table.
LosesNothing(call, chunks) ==
  LET text == Text(Lines(call.content)) IN
  \A k \in DOMAIN text :
    /\ FirstIn(chunks, text[k]) = 0 => BetweenRows(call.content, text[k][1])
    /\ k < Len(text) /\ FirstIn(chunks, text[k + 1]) > 0
         => FirstIn(chunks, text[k]) <= LastIn(chunks, text[k + 1])

\* Every chunk of a block-aware plan says something no chunk before it said:
\* what overlaps never comes on its own.
EveryChunkIsNew(call, chunks) ==
  call.config.strategy \in {"auto", "block_aware_pack"} =>
    \A i \in 2..Len(chunks) :
      \E t \in ToSet(chunks[i].body) : FirstIn(chunks, t) = i

\* A chunk, metadata included, fits the context of the model, but for the
\* overlap, whenever the context has room for the metadata and the least body.
\* A frame above the budget is repeated all the same, with one token of the
\* block at a time; the adaptive strategy may exceed its budget by a quarter.
FitsContext(call, chunks) ==
  LET c == call.config
      room == c.context - c.reserve - Margin
      extra == IF c.strategy = "auto" THEN 0 ELSE Normalized(c).overlap
      own(i) == {t \in ToSet(chunks[i].body) : FirstIn(chunks, t) = i /\ LastIn(chunks, t) = i}
  IN /\ c.context > 0
     /\ c.strategy # "adaptive"
     /\ room >= Max({MinTarget, call.prefix + MinBody + Margin})
     => \A i \in DOMAIN chunks :
          chunks[i].tokens <= room - Margin + extra \/ Cardinality(own(i)) <= 1

\* The evaluation agrees that the plan the code runs by default keeps the
\* blocks: one all of whose lines are whole in some chunk has its frame there.
\* Only a block that stands directly below another line may be judged otherwise:
\* the chunker may take it for a part of what it stands below.
BlocksAreKept(call, chunks) ==
  LET bodies == {chunks[i].body : i \in DOMAIN chunks}
      apart(b) == b.first = 1 \/ call.content[b.first - 1].kind = "blank"
      whole(b) == \A k \in DOMAIN b.lines : InSome(bodies, b.lines[k].text)
  IN call.config.strategy = "auto" =>
       \A b \in ProtectedBlocks(call.content) : apart(b) /\ whole(b) => Preserved(b, bodies)

=============================================================================
