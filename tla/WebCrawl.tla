------------------------------ MODULE WebCrawl ------------------------------
(***************************************************************************)
(* A crawl of a web site (ingest/webdocs/webdocs.go) and what the sync     *)
(* makes of the links it keeps (syncHTMLLinks of sync/sync.go).  Pure      *)
(* functions of the site, except that any request may fail: the call says  *)
(* which ones do.  AlgorithmsMC.tla evaluates them.                        *)
(*                                                                         *)
(*   call: [seed, config: [mode, isSPA, maxPages, maxDepth], browser,      *)
(*          site, menu, unclickable, breaks]                               *)
(*                                                                         *)
(* A URL is [host, path, slash]: slash says that it ends with one.  The    *)
(* site is a sequence of pages in the order of their URLs:                 *)
(*   page: [url, routed, up, answers, shell, base, ids, links, rendered,   *)
(*          sections]                                                      *)
(* routed says that the page is a route of a single page application and   *)
(* not served itself, up whether a plain request for it succeeds, answers  *)
(* whether the browser gets anything at all, shell whether it looks like   *)
(* the shell of an application, base the path its <base> names if it has   *)
(* one, ids the ids of its elements, links and rendered its links as       *)
(* served and after its scripts have run, sections the anchor and the      *)
(* heading of each of its sections.                                        *)
(* A link is [host, path, slash, fragment, route]:                         *)
(* where it leads once resolved against its page, and the route of a       *)
(* fragment like "#/guide".  The menu of the page the crawl starts at maps *)
(* the key of a menu entry to what a click on it shows:                    *)
(*   [text, long, title, visible]                                          *)
(***************************************************************************)
EXTENDS Paths

CONSTANTS
  Dotted,            \* path elements with a dot: names of files
  MaxCandidates,     \* menu entries considered (160)
  MaxNoProgress,     \* clicks in a row that may show nothing new (32)
  InPageDefault      \* documents of a page without a limit on pages (80)

----------------------------------------------------------------------------
\* URLs

\* Without fragment and query; a trailing slash stays, but for the root.
CanonicalPageURL(link) ==
  LET path == CleanAbsolute(link.path) IN
  [host |-> link.host, path |-> path, slash |-> link.slash /\ path # << >>]

ScopePath(seed) == CanonicalPageURL(seed).path

SameScopePath(path, scope) == IsPrefix(scope, CleanAbsolute(path))

\* The name of a document: its path below the scope, index.html for a directory.
DocPathForURL(scope, url) ==
  LET below == SubSeq(url.path, Len(scope) + 1, Len(url.path)) IN
  IF below # << >> /\ Last(below) \in Dotted THEN below ELSE Append(below, "index.html")

----------------------------------------------------------------------------
\* Pages

PagesAt(call, url) == {p \in ToSet(call.site) : p.url = url}

\* A plain request fails on an error status or on anything that is no HTML.
Fetch(call, url) ==
  {[of |-> p.url, shell |-> p.shell, base |-> p.base, ids |-> p.ids, links |-> p.links,
    sections |-> p.sections] : p \in {q \in PagesAt(call, url) : q.up /\ ~q.routed}}

\* The browser does not look at the status: a page fails only when nothing
\* comes.  Once the path of an application is known, every other URL is taken
\* for a route of it; a server shows the page at that path for any route.
FetchWithBrowser(call, url, base) ==
  LET viaBase == base # {} /\ url.path \notin base
      routes == {p \in PagesAt(call, url) : p.routed}
      shown == IF ~viaBase THEN PagesAt(call, url) \ routes
               ELSE IF routes # {} THEN routes
               ELSE {p \in ToSet(call.site) : p.url.path \in base /\ ~p.routed}
  IN {[of |-> p.url, shell |-> FALSE, base |-> p.base, ids |-> p.ids, links |-> p.rendered,
       sections |-> p.sections] : p \in {q \in shown : q.answers}}

\* The path of an application: that of the seed, or what the page names as its
\* base, or what two or more links to its routes share (with or without a
\* trailing slash is the same here).
SpaPageBase(call, content) ==
  LET links == {l \in content.links : l.route # << >> /\ l.path # << >>}
      paths == {l.path : l \in links}
      shared(p, q) == {SubSeq(p, 1, k) : k \in 0..Len(p)} \cap {SubSeq(q, 1, k) : k \in 0..Len(q)}
      common == {p \in UNION {shared(a, b) : a \in paths, b \in paths} :
                   \A q \in paths : IsPrefix(p, q)}
  IN IF call.seed.path # << >> THEN {call.seed.path}
     ELSE IF content.base # {} THEN content.base
     ELSE IF Cardinality(links) < 2 THEN {<< >>}
     ELSE {CHOOSE p \in common : \A q \in common : Len(q) <= Len(p)}

\* Links to pages of the site within the scope, without those to routes.
ExtractLinks(content, seed, scope) ==
  {[url |-> CanonicalPageURL(l), fragment |-> l.fragment]
     : l \in {k \in content.links : k.host = seed.host /\ k.route = << >> /\ SameScopePath(k.path, scope)}}

\* A link to a route becomes a link to a page of that path; the route stays
\* as the fragment of the link.
ExtractHashRouteLinks(content, seed, scope) ==
  {[url |-> CanonicalPageURL([host |-> seed.host, path |-> l.route, slash |-> FALSE]),
    fragment |-> << "route" >> \o l.route]
     : l \in {k \in content.links : k.route # << >> /\ SameScopePath(k.route, scope)}}

\* The pages the links lead to, plain links first, each in the order of URLs.
MergeLinks(call, plain, routes) ==
  LET place(l) == CHOOSE k \in 0..Len(call.site) :
                    IF k = 0 THEN PagesAt(call, l.url) = {} ELSE call.site[k].url = l.url
      inOrder(ls) == SetToSortSeq({[url |-> l.url, at |-> place(l)] : l \in ls}, LAMBDA a, b : a.at < b.at)
      only == {r \in routes : \A l \in plain : l.url # r.url}
      reached == SelectSeq(inOrder(plain) \o inOrder(only), LAMBDA l : l.at > 0)
  IN [k \in DOMAIN reached |-> reached[k].url]

----------------------------------------------------------------------------
\* Menus of a page: entries are clicked one by one, and entries that appear
\* are clicked too.

\* Entries not yet clicked or waiting are queued, within the limit.
Enqueue(t, candidates) ==
  LET add(q, key) ==
        IF key \in t.seen \cup ToSet(q.queue) \/ q.full THEN q
        ELSE LET longer == Append(q.queue, key) IN
             [queue |-> longer, full |-> t.processed + Len(longer) >= MaxCandidates]
  IN FoldLeft(add, [queue |-> t.queue, full |-> FALSE], candidates).queue

CanContinue(t, limit) ==
  /\ t.queue # << >>
  /\ Len(t.docs) < limit
  /\ t.processed < MaxCandidates
  /\ t.noProgress < MaxNoProgress

\* One click.  What it shows becomes a document when it is long enough and its
\* text is new.
Click(call, t) ==
  LET key == Head(t.queue)
      next == [t EXCEPT !.queue = Tail(@), !.seen = @ \cup {key}, !.processed = @ + 1]
      shown == call.menu[key]
      queue == Enqueue(next, shown.visible)
      more == Len(queue) > Len(next.queue)
      new == shown.text # t.text /\ shown.long /\ shown.text \notin t.texts
      quiet == IF more \/ new THEN 0 ELSE t.noProgress + 1
  IN IF key \notin t.visible \ call.unclickable
     THEN [next EXCEPT !.noProgress = @ + 1]
     ELSE [next EXCEPT !.queue = queue, !.noProgress = quiet, !.text = shown.text,
             !.visible = ToSet(shown.visible), !.texts = @ \cup (IF new THEN {shown.text} ELSE {}),
             !.docs = IF new THEN Append(@, [key |-> key, text |-> shown.text, title |-> shown.title])
                      ELSE @]

\* The documents of a page.  The browser may break at any click: those found
\* so far are returned, and less than two of them count as none.
DiscoverInPageDocuments(call) ==
  LET limit == IF call.config.maxPages > 0 THEN call.config.maxPages ELSE InPageDefault
      start == call.menu["start"]
      first == [queue |-> << >>, seen |-> {}, processed |-> 0, noProgress |-> 0, text |-> start.text,
                texts |-> {start.text}, visible |-> ToSet(start.visible),
                docs |-> IF start.long
                         THEN << [key |-> "start", text |-> start.text, title |-> start.title] >>
                         ELSE << >>]
      step(t) == IF CanContinue(t, limit) THEN Click(call, t) ELSE t
      run[n \in 0..call.breaks] ==
        IF n = 0 THEN [first EXCEPT !.queue = Enqueue(first, start.visible)] ELSE step(run[n - 1])
      found(t) ==
        LET broken == CanContinue(t, limit) IN
        [docs |-> IF Len(t.docs) < 2 /\ call.config.mode # "in_page" /\ ~broken THEN << >> ELSE t.docs,
         broken |-> broken]
  IN found(run[call.breaks])

\* Its name lies below that of its page.
VirtualDocPath(path, title) ==
  LET base == IF Last(path) # "index.html" THEN path
              ELSE IF Len(path) = 1 THEN << "index" >> ELSE Front(path)
  IN Append(base, title)

----------------------------------------------------------------------------
\* The crawl

InPageNavigationEnabled(config) == config.mode # "static" \/ config.isSPA

Started(call) ==
  LET browser == call.config.isSPA \/ call.config.mode \in {"browser", "in_page"} IN
  [queue |-> << [url |-> call.seed, depth |-> 0] >>, queued |-> {CanonicalPageURL(call.seed)},
   pages |-> << >>, browser |-> browser, base |-> {}, failed |-> browser /\ ~call.browser]

Ended(call, t) ==
  t.failed \/ t.queue = << >> \/ (call.config.maxPages > 0 /\ Len(t.pages) >= call.config.maxPages)

\* The content at a URL.  A seed that looks like the shell of an application is
\* fetched again with a browser, and so is every page after it, if there is one.
Open(call, t, item) ==
  LET plain == IF t.browser THEN FetchWithBrowser(call, item.url, t.base) ELSE Fetch(call, item.url)
      detected == /\ ~t.browser /\ call.browser
                  /\ call.config.mode # "static" /\ item.depth = 0
                  /\ \E c \in plain : c.shell
      base == IF t.browser /\ item.depth = 0 /\ plain # {}
              THEN UNION {SpaPageBase(call, c) : c \in plain} ELSE t.base
  IN IF detected THEN [browser |-> TRUE, base |-> {}, content |-> FetchWithBrowser(call, item.url, {})]
     ELSE [browser |-> t.browser, base |-> base, content |-> plain]

\* A mutated form: the links of a page go before those found earlier.
VisitDepthFirst(call, t, item, content) ==
  LET scope == ScopePath(call.seed)
      links == ExtractLinks(content, call.seed, scope)
      page == [url |-> CanonicalPageURL(item.url), depth |-> item.depth, path |-> DocPathForURL(scope, item.url),
               links |-> links, sections |-> content.sections, ids |-> content.ids,
               of |-> content.of, text |-> {}]
      new == SelectSeq(MergeLinks(call, links, {}), LAMBDA u : u \notin t.queued)
  IN [t EXCEPT !.pages = Append(@, page),
        !.queue = [k \in DOMAIN new |-> [url |-> new[k], depth |-> item.depth + 1]] \o @,
        !.queued = @ \cup ToSet(new)]

\* One page becomes a document, and its links wait behind those found before.
Visit(call, t, item, content) ==
  LET scope == ScopePath(call.seed)
      plain == ExtractLinks(content, call.seed, scope)
      routes == IF t.browser THEN ExtractHashRouteLinks(content, call.seed, scope) ELSE {}
      path == DocPathForURL(scope, item.url)
      page == [url |-> CanonicalPageURL(item.url), depth |-> item.depth, path |-> path,
               links |-> plain \cup routes, sections |-> content.sections, ids |-> content.ids,
               of |-> content.of, text |-> {}]
      asks == /\ t.browser /\ item.depth = 0
              /\ InPageNavigationEnabled(call.config)
              /\ Cardinality(plain \cup routes) <= 2
      shown(docs) == [k \in DOMAIN docs |->
                       [page EXCEPT !.depth = 1, !.path = VirtualDocPath(path, docs[k].title),
                          !.links = {}, !.ids = {}, !.sections = << [anchor |-> << >>, heading |-> docs[k].title] >>,
                          !.text = {docs[k].text}]]
      follows == call.config.maxDepth = 0 \/ item.depth < call.config.maxDepth
      new == SelectSeq(MergeLinks(call, plain, routes), LAMBDA u : u \notin t.queued)
      taken(found) ==
        IF found.docs # << >> THEN [t EXCEPT !.pages = @ \o shown(found.docs)]
        ELSE IF found.broken /\ call.config.mode = "in_page" THEN [t EXCEPT !.failed = TRUE]
        ELSE [t EXCEPT !.pages = Append(@, page),
                !.queue = IF follows
                          THEN @ \o [k \in DOMAIN new |-> [url |-> new[k], depth |-> item.depth + 1]]
                          ELSE @,
                !.queued = IF follows THEN @ \cup ToSet(new) ELSE @]
  IN taken(IF asks THEN DiscoverInPageDocuments(call) ELSE [docs |-> << >>, broken |-> FALSE])

\* The page at the head of the queue; one that does not answer is passed over,
\* the seed excepted.
CrawlNext(call, t) ==
  LET item == Head(t.queue)
      opened == Open(call, t, item)
      then == [t EXCEPT !.queue = Tail(@), !.browser = opened.browser, !.base = opened.base]
  IN IF opened.content # {} THEN Visit(call, then, item, CHOOSE c \in opened.content : TRUE)
     ELSE [then EXCEPT !.failed = item.depth = 0]

\* A URL is queued once, so there are no more steps than pages.
Crawl(call) ==
  LET step(t) == IF Ended(call, t) THEN t ELSE CrawlNext(call, t)
      run[n \in 0..Len(call.site) + 1] == IF n = 0 THEN Started(call) ELSE step(run[n - 1])
  IN run[Len(call.site) + 1]

\* The links of a page to other pages of the crawl, as paths from the directory
\* of its document to that of the other.
NormalizedLinks(pages, page) ==
  LET last(url) == Max({k \in 0..Len(pages) : k > 0 => pages[k].url = url})
  IN {[path |-> RelPath(DirOf(page.path), pages[last(l.url)].path), fragment |-> l.fragment]
        : l \in {k \in page.links : last(k.url) > 0}}

CrawledDocuments(pages) ==
  [k \in DOMAIN pages |->
    [url |-> pages[k].url, path |-> pages[k].path, of |-> pages[k].of, text |-> pages[k].text,
     depth |-> pages[k].depth, sections |-> pages[k].sections, ids |-> pages[k].ids, found |-> pages[k].links,
     links |-> NormalizedLinks(pages, pages[k])]]

\* The documents of the source, or none when the crawl fails.
Load(call) ==
  LET documents(t) == IF t.failed THEN << >> ELSE CrawledDocuments(t.pages)
  IN documents(Crawl(call))

----------------------------------------------------------------------------
\* Links between the documents of a source

\* The paths a document may have that a link calls by this path.
HtmlPathCandidates(path) ==
  LET p == IF path = << >> THEN << "index.html" >> ELSE path
      name == Last(p)
  IN << p >>
     \o (IF name \in {".html", ".htm"} THEN << Append(Front(p), "index.html") >> ELSE << >>)
     \o (IF name \notin Dotted \cup {".."}
         THEN << Append(p, "index.html"), Append(Front(p), name \o ".html") >> ELSE << >>)
     \o (IF name = "index.html" /\ Len(p) > 1 THEN << Front(p) >> ELSE << >>)

\* From the directory of the document the link is in, then from the root.
ResolveHTMLHrefCandidates(source, link) ==
  LET paths == IF link.path = << >> THEN << source >>
               ELSE << JoinPath(DirOf(source), link.path), CleanPath(link.path) >>
      keys(p) == LET c == HtmlPathCandidates(p) IN [k \in DOMAIN c |-> [path |-> c[k], anchor |-> link.fragment]]
  IN FlattenSeq([k \in DOMAIN paths |-> keys(paths[k])])

\* The second heading of a name is numbered.
HeadingSlug(S, k) ==
  LET earlier == Cardinality({j \in 1..k - 1 : S[j].heading = S[k].heading}) IN
  IF earlier = 0 THEN << S[k].heading >> ELSE << S[k].heading, ToString(earlier) >>

\* The keys of a document: the anchor and the heading of each section, and the
\* document itself.  The ids of its elements are added with the first section,
\* before the headings of the others.
HtmlTargets(doc) ==
  LET S == doc.sections
      put(ts, a, k) == {t \in ts : t.anchor # a} \cup {[anchor |-> a, section |-> k]}
      putNew(ts, a, k) == IF \E t \in ts : t.anchor = a THEN ts ELSE put(ts, a, k)
      ids(ts) == ts \cup {[anchor |-> a, section |-> 1] : a \in doc.ids \ {t.anchor : t \in ts}}
      add(ts, k) ==
        LET own == IF S[k].anchor # << >> THEN put(ts, S[k].anchor, k) ELSE ts
            named == putNew(own, HeadingSlug(S, k), k)
        IN IF k = 1 THEN ids(put(named, << >>, 1)) ELSE named
  IN {[key |-> [path |-> doc.path, anchor |-> t.anchor], section |-> t.section]
        : t \in FoldLeft(add, {}, [k \in DOMAIN S |-> k])}

\* The links of the first section of each document (the only one that has any)
\* become edges to the first candidate that exists; the others are reported.
\* Documents of one path are not told apart.
SyncHTMLLinks(docs) ==
  LET targets == UNION {HtmlTargets(docs[k]) : k \in DOMAIN docs}
      found(d, l) == LET keys == ResolveHTMLHrefCandidates(d.path, l)
                         hits == SelectSeq(keys, LAMBDA c : \E t \in targets : t.key = c)
                     IN IF hits = << >> THEN {} ELSE {t \in targets : t.key = hits[1]}
      self(d, t) == t.key.path = d.path /\ t.section = 1
      own == UNION {{<< docs[k], l >> : l \in docs[k].links} : k \in DOMAIN docs}
  IN [edges |-> UNION {{[from |-> x[1].path, to |-> t.key.path, section |-> t.section] :
                          t \in {s \in found(x[1], x[2]) : ~self(x[1], s)}} : x \in own},
      broken |-> {[from |-> x[1].path, link |-> x[2]] : x \in {y \in own : found(y[1], y[2]) = {}}}]

\* A crawl and what the sync makes of its links.
SyncCrawl(call) ==
  LET sync(docs) == [docs |-> docs, synced |-> SyncHTMLLinks(docs)]
  IN sync(Load(call))

----------------------------------------------------------------------------
\* What the crawl and the sync promise

Paths(docs) == {docs[k].path : k \in DOMAIN docs}

\* A page was taken from its menu and not from its links.
FromMenu(docs) == \E k \in DOMAIN docs : docs[k].text # {}

\* Whether pages are seen as the browser renders them.
Rendered(call) == call.config.mode = "auto" /\ call.browser /\ \E p \in Fetch(call, call.seed) : p.shell

\* The pages that answer, by their distance from the seed in links between them.
NearPages(call) ==
  LET scope == ScopePath(call.seed)
      content(u) == IF Rendered(call) THEN FetchWithBrowser(call, u, {}) ELSE Fetch(call, u)
      next(u) == UNION {ExtractLinks(c, call.seed, scope)
                          \cup (IF Rendered(call) THEN ExtractHashRouteLinks(c, call.seed, scope) ELSE {})
                        : c \in content(u)}
      answers(us) == {u \in us : content(u) # {}}
      within[n \in 0..Len(call.site)] ==
        IF n = 0 THEN answers({CanonicalPageURL(call.seed)})
        ELSE LET near == within[n - 1] IN
             near \cup answers({l.url : l \in UNION {next(u) : u \in near}})
  IN within

\* A crawl without an explicit browser mode takes every page of the site that
\* answers and can be reached from the seed within its depth, each once, with
\* its own content, the nearer ones first, up to its number of pages; documents
\* of a menu have each another text.
CrawlIsComplete(call, docs) ==
  LET c == call.config
      near == NearPages(call)
      depth == IF c.maxDepth = 0 \/ c.maxDepth > Len(call.site) THEN Len(call.site) ELSE c.maxDepth
      got == {docs[k].url : k \in DOMAIN docs}
      nearer == {near[n] : n \in 0..depth}
  IN IF FromMenu(docs)
     THEN /\ Len(docs) <= (IF c.maxPages > 0 THEN c.maxPages ELSE InPageDefault)
          /\ \A j, k \in DOMAIN docs : j # k => docs[j].text # docs[k].text
     ELSE c.mode \in {"static", "auto"} /\ ~c.isSPA =>
          /\ Cardinality(got) = Len(docs)
          /\ \A k \in DOMAIN docs : docs[k].of = docs[k].url
          /\ IF c.maxPages = 0 \/ Cardinality(near[depth]) <= c.maxPages THEN got = near[depth]
             ELSE Len(docs) = c.maxPages /\ \A s \in nearer : got \subseteq s \/ s \subseteq got

\* The section of a page that a fragment stands for: the first one without a
\* fragment, the one whose heading has that id, the first one for the id of any
\* other element, even over a heading of that name, and the heading otherwise.
Named(doc, fragment) ==
  LET S == doc.sections
      own == {k \in DOMAIN S : S[k].anchor = fragment}
      headings == {k \in DOMAIN S : HeadingSlug(S, k) = fragment}
  IN IF S = << >> THEN {}
     ELSE IF fragment = << >> THEN {1}
     ELSE IF own # {} THEN {Max(own)}
     ELSE IF fragment \in doc.ids THEN {1}
     ELSE headings

\* A link between two pages of a crawl becomes an edge to the section of the
\* other page that its fragment stands for, or is reported when it stands for
\* none; when no two pages have the same path.  A link to the page it stands on
\* needs none.
LinksLeadOn(docs, synced) ==
  Cardinality(Paths(docs)) = Len(docs) /\ ~FromMenu(docs) =>
    LET sections(l) == UNION {{[to |-> docs[k].path, section |-> n] : n \in Named(docs[k], l.fragment)}
                                : k \in {n \in DOMAIN docs : docs[n].url = l.url}}
        edges(d) == {[to |-> e.to, section |-> e.section] : e \in {x \in synced.edges : x.from = d.path}}
        own(d) == {[to |-> d.path, section |-> 1]}
        known(d) == {l \in d.found : \E k \in DOMAIN docs : docs[k].url = l.url}
        dead(d) == {l.fragment : l \in {x \in known(d) : sections(x) = {}}}
    IN \A j \in DOMAIN docs :
         LET d == docs[j] IN
         /\ edges(d) = UNION {sections(l) : l \in known(d)} \ own(d)
         /\ {b.link.fragment : b \in {x \in synced.broken : x.from = d.path}} = dead(d)

=============================================================================
