----------------------- MODULE GraphMembershipsProofs -----------------------
(***************************************************************************)
(* That the membership tables follow the graph, for all sources, documents,*)
(* graphs and inputs.                                                      *)
(*                                                                         *)
(* The actions are composed of a few operators on the whole database.  Of  *)
(* each a first lemma says which fields it changes and how (Effect), and a *)
(* second one that it keeps the database good and which edges it leaves    *)
(* with rows that are no longer exact (Keeps).  An action is then right if *)
(* what one of its steps leaves is among what a later one refreshes.       *)
(***************************************************************************)
EXTENDS GraphMemberships, TLAPS

NodeMask == {"owner", "metadata"}
EdgeMask == {"owner", "evidence", "src", "dst"}

(* What ids tell of rows: sections and nodes stay with the source their id is
   derived from, and a workbook owns its nodes. *)
Sound(g) ==
    /\ \A c \in Sections : g.place[c] # None => SourceOf[g.place[c]] = Home[c]
    /\ \A n \in Nodes :
          /\ g.nodes[n].source \in {None, Home[n]}
          /\ g.nodes[n].owner \in {None, Home[n]}
          /\ g.nodes[n].document # None => g.nodes[n].source = SourceOf[g.nodes[n].document]
          /\ g.nodes[n].source \in Workbooks => g.nodes[n].owner = g.nodes[n].source

(* No row of a node is wrong. *)
RowsTrue(g) ==
    /\ \A s \in Sources, n \in Nodes, ref \in NodeMask :
          <<s, n, ref>> \in g.sourceNodes => NodeRef(g, s, n, ref)
    /\ \A d \in Documents, n \in Nodes :
          <<d, n>> \in g.documentNodes => g.nodes[n].document = d /\ d \in g.documents

(* No row of a node in ns is missing. *)
RowsThere(g, ns) ==
    /\ \A s \in Sources, n \in ns, ref \in NodeMask :
          NodeRef(g, s, n, ref) => <<s, n, ref>> \in g.sourceNodes
    /\ \A n \in ns : g.nodes[n].document \in g.documents =>
                        <<g.nodes[n].document, n>> \in g.documentNodes

Good(g, ns) ==
    /\ Typed(g)
    /\ Keyed(g)
    /\ Sound(g)
    /\ RowsTrue(g)
    /\ RowsThere(g, ns)

(* The rows of the edges outside es are exactly what they must be. *)
ExactBut(g, es) ==
    \A s \in Sources, e \in Edges, ref \in EdgeMask :
        e \notin es => (<<s, e, ref>> \in g.sourceEdges <=> EdgeRef(g, s, e, ref))

(* All that is the same in two databases but for the tables in `but`. *)
Same(g, h, but) ==
    /\ "sources" \notin but => h.sources = g.sources
    /\ "documents" \notin but => h.documents = g.documents
    /\ "place" \notin but => h.place = g.place
    /\ "nodes" \notin but => h.nodes = g.nodes
    /\ "edges" \notin but => h.edges = g.edges
    /\ "sourceNodes" \notin but => h.sourceNodes = g.sourceNodes
    /\ "documentNodes" \notin but => h.documentNodes = g.documentNodes
    /\ "sourceEdges" \notin but => h.sourceEdges = g.sourceEdges

-----------------------------------------------------------------------------
(* Sets of rows, and the rows of what is not there *)

LEMMA EdgeRefsMember ==
    ASSUME NEW g, NEW es, NEW s, NEW e, NEW ref
    PROVE  <<s, e, ref>> \in EdgeRefs(g, es) <=>
              s \in Sources /\ e \in es /\ ref \in EdgeMask /\ EdgeRef(g, s, e, ref)
BY DEF EdgeRefs, EdgeMask

LEMMA NodeRefsMember ==
    ASSUME NEW g, NEW ns, NEW s, NEW n, NEW ref
    PROVE  <<s, n, ref>> \in NodeRefs(g, ns) <=>
              s \in Sources /\ n \in ns /\ ref \in NodeMask /\ NodeRef(g, s, n, ref)
BY DEF NodeRefs, NodeMask

LEMMA DocumentRefsMember ==
    ASSUME NEW g, NEW ns, NEW d, NEW n
    PROVE  <<d, n>> \in DocumentRefs(g, ns) <=>
              d \in Documents /\ n \in ns /\ g.nodes[n].document = d /\ d \in g.documents
BY DEF DocumentRefs

(* Edges that are there have ends, edges that are not have neither ends nor evidence. *)
LEMMA EdgeIsWhole ==
    ASSUME NEW g, Typed(g), Keyed(g), NEW e \in Edges
    PROVE  /\ e \in EdgesIn(g) => /\ g.edges[e].src \in NodesIn(g)
                                  /\ g.edges[e].dst \in NodesIn(g)
                                  /\ g.edges[e].evidence \in SectionsOf(g.place) \cup {None}
                                  /\ g.edges[e].owner \in g.sources \cup {None}
           /\ e \notin EdgesIn(g) => g.edges[e] = NoEdge
BY DEF Keyed, Ends, EdgesIn

LEMMA NoRowForNone ==
    ASSUME NEW g, Typed(g)
    PROVE  /\ \A s, ref : <<s, None, ref>> \notin g.sourceNodes
           /\ None \notin Sources \cup Documents \cup Sections \cup Nodes \cup Edges
BY NullAssumption DEF Typed

-----------------------------------------------------------------------------
(* Recomputing the rows of edges *)

LEMMA RefreshEdgesEffect ==
    ASSUME NEW g, Typed(g), NEW es \in SUBSET Edges
    PROVE  /\ Typed(RefreshEdges(g, es))
           /\ Same(g, RefreshEdges(g, es), {"sourceEdges"})
           /\ \A s \in Sources, e \in Edges, ref \in EdgeMask :
                 <<s, e, ref>> \in RefreshEdges(g, es).sourceEdges <=>
                    IF e \in es THEN EdgeRef(g, s, e, ref) ELSE <<s, e, ref>> \in g.sourceEdges
<1> DEFINE h == RefreshEdges(g, es)
<1>1. /\ h.sourceEdges = {m \in g.sourceEdges : m[2] \notin es} \cup EdgeRefs(g, es)
      /\ Same(g, h, {"sourceEdges"})
  BY DEF RefreshEdges, Typed, Same
<1>2. EdgeRefs(g, es) \subseteq Sources \X Edges \X EdgeMask
  BY DEF EdgeRefs, EdgeMask
<1>3. Typed(h)
  BY <1>1, <1>2 DEF Typed, EdgeMask, RefreshEdges
<1>4. ASSUME NEW s \in Sources, NEW e \in Edges, NEW ref \in EdgeMask
      PROVE  <<s, e, ref>> \in h.sourceEdges <=>
                IF e \in es THEN EdgeRef(g, s, e, ref) ELSE <<s, e, ref>> \in g.sourceEdges
  BY <1>1, EdgeRefsMember
<1> QED BY <1>1, <1>3, <1>4

LEMMA RefreshEdgesKeeps ==
    ASSUME NEW g, NEW ns, Good(g, ns), NEW es \in SUBSET Edges, ExactBut(g, es)
    PROVE  Good(RefreshEdges(g, es), ns) /\ ExactBut(RefreshEdges(g, es), {})
<1> DEFINE h == RefreshEdges(g, es)
<1> HIDE DEF h
<1>1. /\ Typed(g) /\ Typed(h)
      /\ Same(g, h, {"sourceEdges"})
      /\ \A s \in Sources, e \in Edges, ref \in EdgeMask :
            <<s, e, ref>> \in h.sourceEdges <=>
               IF e \in es THEN EdgeRef(g, s, e, ref) ELSE <<s, e, ref>> \in g.sourceEdges
  BY RefreshEdgesEffect DEF Good, h
<1>2. Keyed(h)
  BY <1>1 DEF Good, Keyed, Same, Ends, EdgesIn, NodesIn
<1>3. Sound(h)
  BY <1>1 DEF Good, Sound, Same
<1>4. RowsTrue(h)
  BY <1>1 DEF Good, RowsTrue, Same, NodeRef
<1>5. RowsThere(h, ns)
  BY <1>1 DEF Good, RowsThere, Same, NodeRef
<1>6. \A s, e, ref : EdgeRef(h, s, e, ref) <=> EdgeRef(g, s, e, ref)
  BY <1>1 DEF Same, EdgeRef
<1>7. ExactBut(h, {})
  BY <1>1, <1>6 DEF ExactBut
<1> QED BY <1>1, <1>2, <1>3, <1>4, <1>5, <1>7 DEF Good, h

-----------------------------------------------------------------------------
(* Deleting edges and nodes *)

LEMMA DropEdgesEffect ==
    ASSUME NEW g, Typed(g), NEW es \in SUBSET Edges
    PROVE  /\ Typed(DropEdges(g, es))
           /\ Same(g, DropEdges(g, es), {"edges", "sourceEdges"})
           /\ \A e \in Edges :
                 DropEdges(g, es).edges[e] = IF e \in es THEN NoEdge ELSE g.edges[e]
           /\ \A s \in Sources, e \in Edges, ref \in EdgeMask :
                 <<s, e, ref>> \in DropEdges(g, es).sourceEdges <=>
                    e \notin es /\ <<s, e, ref>> \in g.sourceEdges
<1> DEFINE h == DropEdges(g, es)
<1>1. /\ h.sourceEdges = {m \in g.sourceEdges : m[2] \notin es}
      /\ h.edges = [e \in Edges |-> IF e \in es THEN NoEdge ELSE g.edges[e]]
      /\ Same(g, h, {"edges", "sourceEdges"})
  BY DEF DropEdges, Typed, Same
<1>2. NoEdge \in EdgeRow
  BY DEF NoEdge, EdgeRow
<1>3. h.edges \in [Edges -> EdgeRow]
  BY <1>1, <1>2 DEF Typed
<1>4. Typed(h)
  BY <1>1, <1>3 DEF Typed, DropEdges
<1> QED BY <1>1, <1>4

LEMMA DropEdgesKeeps ==
    ASSUME NEW g, NEW ns, Good(g, ns), NEW es \in SUBSET Edges, ExactBut(g, {})
    PROVE  Good(DropEdges(g, es), ns) /\ ExactBut(DropEdges(g, es), {})
<1> DEFINE h == DropEdges(g, es)
<1> HIDE DEF h
<1>1. /\ Typed(g) /\ Typed(h)
      /\ Same(g, h, {"edges", "sourceEdges"})
      /\ \A e \in Edges : h.edges[e] = IF e \in es THEN NoEdge ELSE g.edges[e]
      /\ \A s \in Sources, e \in Edges, ref \in EdgeMask :
            <<s, e, ref>> \in h.sourceEdges <=> e \notin es /\ <<s, e, ref>> \in g.sourceEdges
  BY DropEdgesEffect DEF Good, h
<1>2. Keyed(h)
  BY <1>1 DEF Good, Keyed, Same, Ends, EdgesIn, NodesIn
<1>3. Sound(h)
  BY <1>1 DEF Good, Sound, Same
<1>4. RowsTrue(h)
  BY <1>1 DEF Good, RowsTrue, Same, NodeRef
<1>5. RowsThere(h, ns)
  BY <1>1 DEF Good, RowsThere, Same, NodeRef
<1>6. ASSUME NEW s \in Sources, NEW e \in Edges, NEW ref \in EdgeMask
      PROVE  <<s, e, ref>> \in h.sourceEdges <=> EdgeRef(h, s, e, ref)
  <2>1. CASE e \in es
    <3>1. h.edges[e] = NoEdge /\ <<s, e, ref>> \notin h.sourceEdges
      BY <1>1, <2>1
    <3>2. <<s, None, "metadata">> \notin h.sourceNodes /\ s # None
      BY <1>1, NoRowForNone
    <3> QED BY <3>1, <3>2 DEF EdgeRef, NoEdge
  <2>2. CASE e \notin es
    BY <1>1, <2>2 DEF ExactBut, EdgeRef, Same
  <2> QED BY <2>1, <2>2
<1> QED BY <1>1, <1>2, <1>3, <1>4, <1>5, <1>6 DEF Good, ExactBut, h

LEMMA DropNodesEffect ==
    ASSUME NEW g, Typed(g), NEW ds \in SUBSET Nodes
    PROVE  LET g1 == DropEdges(g, Incident(g, ds))
               h == DropNodes(g, ds) IN
           /\ Typed(h)
           /\ Same(g1, h, {"nodes", "sourceNodes", "documentNodes"})
           /\ \A n \in Nodes : h.nodes[n] = IF n \in ds THEN NoNode ELSE g.nodes[n]
           /\ \A s \in Sources, n \in Nodes, ref \in NodeMask :
                 <<s, n, ref>> \in h.sourceNodes <=> n \notin ds /\ <<s, n, ref>> \in g.sourceNodes
           /\ \A d \in Documents, n \in Nodes :
                 <<d, n>> \in h.documentNodes <=> n \notin ds /\ <<d, n>> \in g.documentNodes
<1> DEFINE g1 == DropEdges(g, Incident(g, ds))
           h == DropNodes(g, ds)
<1>1. Typed(g1) /\ Same(g, g1, {"edges", "sourceEdges"})
  BY DropEdgesEffect DEF Incident
<1>2. /\ h.nodes = [n \in Nodes |-> IF n \in ds THEN NoNode ELSE g.nodes[n]]
      /\ h.sourceNodes = {m \in g1.sourceNodes : m[2] \notin ds}
      /\ h.documentNodes = {m \in g1.documentNodes : m[2] \notin ds}
      /\ Same(g1, h, {"nodes", "sourceNodes", "documentNodes"})
  <2> HIDE DEF g1
  <2> QED BY <1>1 DEF DropNodes, Typed, Same, g1
<1>3. NoNode \in NodeRow
  BY DEF NoNode, NodeRow
<1>4. h.nodes \in [Nodes -> NodeRow]
  BY <1>2, <1>3 DEF Typed
<1>5. Typed(h)
  <2> HIDE DEF g1
  <2> QED BY <1>1, <1>2, <1>4 DEF Typed, DropNodes, g1
<1> QED BY <1>1, <1>2, <1>5 DEF Same

LEMMA DropNodesKeeps ==
    ASSUME NEW g, NEW ns, Good(g, ns), NEW ds \in SUBSET Nodes, ExactBut(g, {}), ns \subseteq Nodes
    PROVE  Good(DropNodes(g, ds), ns) /\ ExactBut(DropNodes(g, ds), {})
<1> DEFINE g1 == DropEdges(g, Incident(g, ds))
           h == DropNodes(g, ds)
<1>1. /\ Incident(g, ds) \in SUBSET Edges
      /\ Good(g1, ns) /\ ExactBut(g1, {})
  BY DropEdgesKeeps DEF Incident
<1>2. /\ Same(g, g1, {"edges", "sourceEdges"})
      /\ \A e \in Edges : g1.edges[e] = IF e \in Incident(g, ds) THEN NoEdge ELSE g.edges[e]
  BY <1>1, DropEdgesEffect DEF Good
<1>3. /\ Typed(g) /\ Typed(g1) /\ Typed(h)
      /\ Same(g1, h, {"nodes", "sourceNodes", "documentNodes"})
      /\ \A n \in Nodes : h.nodes[n] = IF n \in ds THEN NoNode ELSE g.nodes[n]
      /\ \A s \in Sources, n \in Nodes, ref \in NodeMask :
            <<s, n, ref>> \in h.sourceNodes <=> n \notin ds /\ <<s, n, ref>> \in g.sourceNodes
      /\ \A d \in Documents, n \in Nodes :
            <<d, n>> \in h.documentNodes <=> n \notin ds /\ <<d, n>> \in g.documentNodes
  BY <1>1, DropNodesEffect DEF Good
<1> HIDE DEF g1, h
<1>4. \A e \in EdgesIn(g1) : g1.edges[e].src \notin ds /\ g1.edges[e].dst \notin ds
  BY <1>2 DEF EdgesIn, Incident, Ends
<1>5. Keyed(h)
  <2>1. \A n \in Nodes : h.nodes[n].owner \in h.sources \cup {None}
    BY <1>1, <1>2, <1>3 DEF Good, Keyed, Same, NoNode
  <2>2. ASSUME NEW e \in EdgesIn(h) PROVE Ends(h, e) \subseteq NodesIn(h)
    <3>1. e \in EdgesIn(g1) /\ h.edges[e] = g1.edges[e]
      BY <1>3 DEF EdgesIn, Same
    <3>2. Ends(g1, e) \subseteq NodesIn(g1)
      BY <1>1, <3>1 DEF Good, Keyed
    <3> QED BY <1>2, <1>3, <1>4, <3>1, <3>2 DEF Ends, NodesIn, Same
  <2>3. ASSUME NEW e \in EdgesIn(h)
        PROVE  /\ h.edges[e].evidence \in SectionsOf(h.place) \cup {None}
               /\ h.edges[e].owner \in h.sources \cup {None}
    BY <1>1, <1>3 DEF Good, Keyed, Same, EdgesIn
  <2> QED BY <1>1, <1>3, <2>1, <2>2, <2>3 DEF Good, Keyed, Same
<1>6. Sound(h)
  BY <1>2, <1>3, NullAssumption, KeysAssumption DEF Good, Sound, Same, NoNode
<1>7. RowsTrue(h)
  BY <1>2, <1>3 DEF Good, RowsTrue, Same, NodeRef
<1>8. RowsThere(h, ns)
  <2>1. ASSUME NEW s \in Sources, NEW n \in ns, NEW ref \in NodeMask, NodeRef(h, s, n, ref)
        PROVE  <<s, n, ref>> \in h.sourceNodes
    BY <1>2, <1>3, <2>1, NullAssumption DEF Good, RowsThere, Same, NodeRef, NoNode
  <2>2. ASSUME NEW n \in ns, h.nodes[n].document \in h.documents
        PROVE  <<h.nodes[n].document, n>> \in h.documentNodes
    BY <1>2, <1>3, <2>2, NullAssumption DEF Good, RowsThere, Same, NoNode, Typed
  <2> QED BY <2>1, <2>2 DEF RowsThere
<1>9. ASSUME NEW s \in Sources, NEW e \in Edges, NEW ref \in EdgeMask
      PROVE  <<s, e, ref>> \in h.sourceEdges <=> EdgeRef(h, s, e, ref)
  <2>1. <<s, e, ref>> \in h.sourceEdges <=> EdgeRef(g1, s, e, ref)
    BY <1>1, <1>3 DEF ExactBut, Same
  <2>2. /\ <<s, g1.edges[e].src, "metadata">> \in h.sourceNodes
              <=> <<s, g1.edges[e].src, "metadata">> \in g1.sourceNodes
        /\ <<s, g1.edges[e].dst, "metadata">> \in h.sourceNodes
              <=> <<s, g1.edges[e].dst, "metadata">> \in g1.sourceNodes
    <3>1. CASE e \in EdgesIn(g1)
      <4>1. g1.edges[e].src \in Nodes /\ g1.edges[e].dst \in Nodes
        BY <1>1, <3>1, EdgeIsWhole DEF Good, NodesIn
      <4> QED BY <1>2, <1>3, <1>4, <3>1, <4>1 DEF Same, NodeMask
    <3>2. CASE e \notin EdgesIn(g1)
      BY <1>1, <1>3, <3>2, EdgeIsWhole, NoRowForNone DEF Good, NoEdge
    <3> QED BY <3>1, <3>2
  <2> QED BY <1>3, <2>1, <2>2 DEF EdgeRef, Same
<1> QED BY <1>3, <1>5, <1>6, <1>7, <1>8, <1>9 DEF Good, ExactBut, h

-----------------------------------------------------------------------------
(* Deleting sections and documents *)

LEMMA CascadeSectionsEffect ==
    ASSUME NEW g, Typed(g), NEW cs \in SUBSET Sections
    PROVE  LET h == CascadeSections(g, cs) IN
           /\ Typed(h)
           /\ Same(g, h, {"place", "edges"})
           /\ \A c \in Sections : h.place[c] = IF c \in cs THEN None ELSE g.place[c]
           /\ \A e \in Edges :
                 /\ h.edges[e].src = g.edges[e].src
                 /\ h.edges[e].dst = g.edges[e].dst
                 /\ h.edges[e].owner = g.edges[e].owner
                 /\ h.edges[e].evidence = IF g.edges[e].evidence \in cs
                                            THEN None ELSE g.edges[e].evidence
<1> DEFINE h == CascadeSections(g, cs)
           row(e) == IF e \in Proving(g, cs) THEN [g.edges[e] EXCEPT !.evidence = None]
                                             ELSE g.edges[e]
<1>1. /\ h.place = [c \in Sections |-> IF c \in cs THEN None ELSE g.place[c]]
      /\ h.edges = [e \in Edges |-> row(e)]
      /\ Same(g, h, {"place", "edges"})
  BY DEF CascadeSections, Typed, Same
<1>2. ASSUME NEW e \in Edges
      PROVE  /\ row(e) \in EdgeRow
             /\ row(e).src = g.edges[e].src
             /\ row(e).dst = g.edges[e].dst
             /\ row(e).owner = g.edges[e].owner
             /\ row(e).evidence = IF g.edges[e].evidence \in cs
                                    THEN None ELSE g.edges[e].evidence
  <2>1. g.edges[e] \in EdgeRow
    BY DEF Typed
  <2> QED BY <2>1 DEF Proving, EdgeRow
<1> HIDE DEF row
<1>3. h.edges \in [Edges -> EdgeRow] /\ h.place \in [Sections -> Documents \cup {None}]
  BY <1>1, <1>2 DEF Typed
<1>4. Typed(h)
  BY <1>1, <1>3 DEF Typed, CascadeSections
<1> QED BY <1>1, <1>2, <1>4

LEMMA CascadeSectionsKeeps ==
    ASSUME NEW g, NEW ns, Good(g, ns), NEW cs \in SUBSET Sections, ExactBut(g, {})
    PROVE  /\ Good(CascadeSections(g, cs), ns)
           /\ ExactBut(CascadeSections(g, cs), Proving(g, cs))
<1> DEFINE h == CascadeSections(g, cs)
<1> HIDE DEF h
<1>1. /\ Typed(g) /\ Typed(h)
      /\ Same(g, h, {"place", "edges"})
      /\ \A c \in Sections : h.place[c] = IF c \in cs THEN None ELSE g.place[c]
      /\ \A e \in Edges :
            /\ h.edges[e].src = g.edges[e].src
            /\ h.edges[e].dst = g.edges[e].dst
            /\ h.edges[e].owner = g.edges[e].owner
            /\ h.edges[e].evidence = IF g.edges[e].evidence \in cs
                                       THEN None ELSE g.edges[e].evidence
  BY CascadeSectionsEffect DEF Good, h
<1>2. Keyed(h)
  <2>1. ASSUME NEW c \in SectionsOf(h.place) PROVE h.place[c] \in h.documents
    BY <1>1 DEF Good, Keyed, Same, SectionsOf
  <2>2. ASSUME NEW e \in EdgesIn(h)
        PROVE  /\ Ends(h, e) \subseteq NodesIn(h)
               /\ h.edges[e].evidence \in SectionsOf(h.place) \cup {None}
               /\ h.edges[e].owner \in h.sources \cup {None}
    <3>1. CASE e \in EdgesIn(g)
      BY <1>1, <3>1 DEF Good, Keyed, Same, EdgesIn, Ends, NodesIn, SectionsOf
    <3>2. CASE e \notin EdgesIn(g)
      <4>1. h.edges[e] \in EdgeRow /\ g.edges[e] = NoEdge
        BY <1>1, <3>2 DEF EdgesIn, Typed
      <4>2. h.edges[e] = NoEdge
        BY <1>1, <4>1, NullAssumption DEF EdgesIn, EdgeRow, NoEdge
      <4> QED BY <4>2 DEF EdgesIn
    <3> QED BY <3>1, <3>2
  <2> QED BY <1>1, <2>1, <2>2 DEF Good, Keyed, Same
<1>3. Sound(h)
  BY <1>1 DEF Good, Sound, Same
<1>4. RowsTrue(h)
  BY <1>1 DEF Good, RowsTrue, Same, NodeRef
<1>5. RowsThere(h, ns)
  BY <1>1 DEF Good, RowsThere, Same, NodeRef
<1>6. ASSUME NEW s \in Sources, NEW e \in Edges, NEW ref \in EdgeMask, e \notin Proving(g, cs)
      PROVE  EdgeRef(h, s, e, ref) <=> EdgeRef(g, s, e, ref)
  <2>1. h.edges[e].evidence = g.edges[e].evidence /\ g.edges[e].evidence \notin cs
    BY <1>1, <1>6 DEF Proving
  <2>2. g.edges[e].evidence # None => h.place[g.edges[e].evidence] = g.place[g.edges[e].evidence]
    BY <1>1, <2>1 DEF Typed, EdgeRow
  <2> QED BY <1>1, <2>1, <2>2 DEF EdgeRef, Same
<1>7. ExactBut(h, Proving(g, cs))
  BY <1>1, <1>6 DEF ExactBut, Same
<1> QED BY <1>1, <1>2, <1>3, <1>4, <1>5, <1>7 DEF Good, h

LEMMA DropSectionsKeeps ==
    ASSUME NEW g, NEW ns, Good(g, ns), NEW cs \in SUBSET Sections, ExactBut(g, {})
    PROVE  LET h == DropSections(g, cs) IN
           /\ Good(h, ns) /\ ExactBut(h, {})
           /\ Same(g, h, {"place", "edges", "sourceEdges"})
           /\ \A c \in Sections : h.place[c] = IF c \in cs THEN None ELSE g.place[c]
<1> DEFINE g1 == CascadeSections(g, cs)
           h == DropSections(g, cs)
<1>1. Good(g1, ns) /\ ExactBut(g1, Proving(g, cs)) /\ Proving(g, cs) \in SUBSET Edges
  BY CascadeSectionsKeeps DEF Proving
<1>2. /\ Same(g, g1, {"place", "edges"})
      /\ \A c \in Sections : g1.place[c] = IF c \in cs THEN None ELSE g.place[c]
  BY CascadeSectionsEffect DEF Good
<1>3. Good(h, ns) /\ ExactBut(h, {}) /\ Same(g1, h, {"sourceEdges"})
  <2> HIDE DEF g1
  <2> QED BY <1>1, RefreshEdgesKeeps, RefreshEdgesEffect DEF DropSections, Good, g1
<1> HIDE DEF g1, h
<1> QED BY <1>2, <1>3 DEF Same, h

LEMMA CascadeDocumentsEffect ==
    ASSUME NEW g, Typed(g), NEW ds \in SUBSET Documents
    PROVE  LET g1 == CascadeSections(g, SectionsIn(g, ds))
               h == CascadeDocuments(g, ds) IN
           /\ Typed(h)
           /\ Same(g1, h, {"documents", "documentNodes"})
           /\ h.documents = g.documents \ ds
           /\ \A d \in Documents, n \in Nodes :
                 <<d, n>> \in h.documentNodes <=> d \notin ds /\ <<d, n>> \in g.documentNodes
<1> DEFINE g1 == CascadeSections(g, SectionsIn(g, ds))
           h == CascadeDocuments(g, ds)
<1>1. Typed(g1) /\ Same(g, g1, {"place", "edges"})
  BY CascadeSectionsEffect DEF SectionsIn
<1> HIDE DEF g1
<1>2. /\ h.documents = g1.documents \ ds
      /\ h.documentNodes = {m \in g1.documentNodes : m[1] \notin ds}
      /\ Same(g1, h, {"documents", "documentNodes"})
      /\ Typed(h)
  BY <1>1 DEF CascadeDocuments, Typed, Same, g1
<1> QED BY <1>1, <1>2 DEF Same, g1

LEMMA CascadeDocumentsKeeps ==
    ASSUME NEW g, NEW ns, Good(g, ns), NEW ds \in SUBSET Documents, ExactBut(g, {})
    PROVE  /\ Good(CascadeDocuments(g, ds), ns)
           /\ ExactBut(CascadeDocuments(g, ds), Proving(g, SectionsIn(g, ds)))
<1> DEFINE cs == SectionsIn(g, ds)
           g1 == CascadeSections(g, cs)
           h == CascadeDocuments(g, ds)
<1>1. Good(g1, ns) /\ ExactBut(g1, Proving(g, cs)) /\ cs \in SUBSET Sections
  BY CascadeSectionsKeeps DEF SectionsIn
<1>2. /\ Same(g, g1, {"place", "edges"})
      /\ \A c \in Sections : g1.place[c] = IF c \in cs THEN None ELSE g.place[c]
  BY <1>1, CascadeSectionsEffect DEF Good
<1>3. /\ Typed(h)
      /\ Same(g1, h, {"documents", "documentNodes"})
      /\ h.documents = g.documents \ ds
      /\ \A d \in Documents, n \in Nodes :
            <<d, n>> \in h.documentNodes <=> d \notin ds /\ <<d, n>> \in g.documentNodes
  BY CascadeDocumentsEffect DEF Good
<1>4. \A c \in SectionsOf(g1.place) : g1.place[c] \notin ds
  BY <1>2 DEF SectionsOf, SectionsIn
<1> HIDE DEF g1, h, cs
<1>5. Keyed(h)
  <2>1. \A c \in SectionsOf(h.place) : h.place[c] \in h.documents
    BY <1>1, <1>2, <1>3, <1>4 DEF Good, Keyed, Same
  <2>2. \A e \in EdgesIn(h) : /\ Ends(h, e) \subseteq NodesIn(h)
                              /\ h.edges[e].evidence \in SectionsOf(h.place) \cup {None}
                              /\ h.edges[e].owner \in h.sources \cup {None}
    BY <1>1, <1>3 DEF Good, Keyed, Same, EdgesIn, Ends, NodesIn
  <2> QED BY <1>1, <1>2, <1>3, <2>1, <2>2 DEF Good, Keyed, Same
<1>6. Sound(h)
  BY <1>1, <1>3 DEF Good, Sound, Same
<1>7. RowsTrue(h)
  BY <1>1, <1>2, <1>3 DEF Good, RowsTrue, Same, NodeRef
<1>8. RowsThere(h, ns)
  <2>1. \A s \in Sources, n \in ns, ref \in NodeMask :
            NodeRef(h, s, n, ref) => <<s, n, ref>> \in h.sourceNodes
    BY <1>1, <1>3 DEF Good, RowsThere, Same, NodeRef
  <2>2. ASSUME NEW n \in ns, h.nodes[n].document \in h.documents
        PROVE  <<h.nodes[n].document, n>> \in h.documentNodes
    <3>1. /\ h.nodes[n].document = g.nodes[n].document
          /\ g.nodes[n].document \in g.documents \ ds
      BY <1>2, <1>3, <2>2 DEF Same
    <3>2. /\ <<g.nodes[n].document, n>> \in g.documentNodes
          /\ g.documentNodes \subseteq Documents \X Nodes
      BY <3>1 DEF Good, RowsThere, Typed
    <3> QED BY <1>3, <3>1, <3>2
  <2> QED BY <2>1, <2>2 DEF RowsThere
<1>9. ExactBut(h, Proving(g, cs))
  <2>1. \A s, e, ref : EdgeRef(h, s, e, ref) <=> EdgeRef(g1, s, e, ref)
    BY <1>3 DEF EdgeRef, Same
  <2> QED BY <1>1, <1>3, <2>1 DEF ExactBut, Same
<1> QED BY <1>3, <1>5, <1>6, <1>7, <1>8, <1>9 DEF Good, h, cs

-----------------------------------------------------------------------------
(* Writing nodes and edges *)

(* What the writers of nodes see to: a sync names its source, a bundle claims the
   nodes whose ids it derived. *)
Writable(i, owner) ==
    /\ Homely(i)
    /\ IF owner = None THEN i.source \in Sources \ Workbooks ELSE Home[i.node] = owner

LEMMA PutNodesEffect ==
    ASSUME NEW g, Typed(g), NEW inputs \in SUBSET NodeInput, NEW owner \in Sources \cup {None}
    PROVE  LET h == PutNodes(g, inputs, owner) IN
           /\ Typed(h)
           /\ Same(g, h, {"nodes"})
           /\ NodeIds(inputs) \subseteq Nodes
           /\ \A n \in Nodes \ NodeIds(inputs) : h.nodes[n] = g.nodes[n]
           /\ \A n \in NodeIds(inputs) : \E i \in inputs :
                 /\ i.node = n
                 /\ h.nodes[n].source = i.source
                 /\ h.nodes[n].document = i.document
                 /\ h.nodes[n].owner = IF owner = None THEN g.nodes[n].owner ELSE owner
<1> DEFINE h == PutNodes(g, inputs, owner)
           input(n) == CHOOSE i \in inputs : i.node = n
           row(n) == IF n \in NodeIds(inputs)
                       THEN [source |-> input(n).source, document |-> input(n).document,
                             owner |-> IF owner = None THEN g.nodes[n].owner ELSE owner]
                       ELSE g.nodes[n]
<1>1. /\ h.nodes = [n \in Nodes |-> row(n)]
      /\ Same(g, h, {"nodes"})
  BY DEF PutNodes, Typed, Same
<1>2. ASSUME NEW n \in NodeIds(inputs) PROVE input(n) \in inputs /\ input(n).node = n
  BY DEF NodeIds
<1>3. NodeIds(inputs) \subseteq Nodes
  BY DEF NodeIds, NodeInput
<1> HIDE DEF input
<1>4. ASSUME NEW n \in Nodes PROVE row(n) \in NodeRow
  <2>1. g.nodes[n] \in NodeRow
    BY DEF Typed
  <2>2. ASSUME n \in NodeIds(inputs) PROVE row(n) \in NodeRow
    <3>1. input(n) \in NodeInput
      BY <1>2, <2>2
    <3> QED BY <2>1, <2>2, <3>1 DEF NodeInput, NodeRow
  <2> QED BY <2>1, <2>2
<1> HIDE DEF row
<1>5. h.nodes \in [Nodes -> NodeRow]
  BY <1>1, <1>4
<1>6. Typed(h)
  BY <1>1, <1>5 DEF Typed, PutNodes
<1>7. \A n \in Nodes \ NodeIds(inputs) : h.nodes[n] = g.nodes[n]
  BY <1>1 DEF row
<1>8. ASSUME NEW n \in NodeIds(inputs)
      PROVE  \E i \in inputs :
                 /\ i.node = n
                 /\ h.nodes[n].source = i.source
                 /\ h.nodes[n].document = i.document
                 /\ h.nodes[n].owner = IF owner = None THEN g.nodes[n].owner ELSE owner
  <2>1. h.nodes[n] = row(n)
    BY <1>1, <1>3
  <2>2. input(n) \in inputs /\ input(n).node = n
    BY <1>2
  <2> QED BY <2>1, <2>2 DEF row
<1> QED BY <1>1, <1>3, <1>6, <1>7, <1>8

LEMMA ReplaceNodeRowsEffect ==
    ASSUME NEW g, Typed(g), NEW ns \in SUBSET Nodes
    PROVE  LET h == ReplaceNodeRows(g, ns) IN
           /\ Typed(h)
           /\ Same(g, h, {"sourceNodes", "documentNodes"})
           /\ \A s \in Sources, n \in Nodes, ref \in NodeMask :
                 <<s, n, ref>> \in h.sourceNodes <=>
                    IF n \in ns THEN NodeRef(g, s, n, ref) ELSE <<s, n, ref>> \in g.sourceNodes
           /\ \A d \in Documents, n \in Nodes :
                 <<d, n>> \in h.documentNodes <=>
                    IF n \in ns THEN g.nodes[n].document = d /\ d \in g.documents
                                ELSE <<d, n>> \in g.documentNodes
<1> DEFINE h == ReplaceNodeRows(g, ns)
<1>1. /\ h.sourceNodes = {m \in g.sourceNodes : m[2] \notin ns} \cup NodeRefs(g, ns)
      /\ h.documentNodes = {m \in g.documentNodes : m[2] \notin ns} \cup DocumentRefs(g, ns)
      /\ Same(g, h, {"sourceNodes", "documentNodes"})
  BY DEF ReplaceNodeRows, Typed, Same
<1>2. /\ NodeRefs(g, ns) \subseteq Sources \X Nodes \X NodeMask
      /\ DocumentRefs(g, ns) \subseteq Documents \X Nodes
  BY DEF NodeRefs, DocumentRefs, NodeMask
<1>3. Typed(h)
  BY <1>1, <1>2 DEF Typed, NodeMask, ReplaceNodeRows
<1>4. ASSUME NEW s \in Sources, NEW n \in Nodes, NEW ref \in NodeMask
      PROVE  <<s, n, ref>> \in h.sourceNodes <=>
                IF n \in ns THEN NodeRef(g, s, n, ref) ELSE <<s, n, ref>> \in g.sourceNodes
  BY <1>1, NodeRefsMember
<1>5. ASSUME NEW d \in Documents, NEW n \in Nodes
      PROVE  <<d, n>> \in h.documentNodes <=>
                IF n \in ns THEN g.nodes[n].document = d /\ d \in g.documents
                            ELSE <<d, n>> \in g.documentNodes
  BY <1>1, DocumentRefsMember
<1> QED BY <1>1, <1>3, <1>4, <1>5

(* Nodes written may have rows that are wrong or missing until they are refreshed. *)
LEMMA RefreshNodesKeeps ==
    ASSUME NEW g, NEW old, Good(old, {}), Typed(g), Same(old, g, {"nodes"}), Keyed(g), Sound(g),
           NEW fs, RowsThere(old, fs), fs \subseteq Nodes,
           NEW ns \in SUBSET Nodes, \A n \in Nodes \ ns : g.nodes[n] = old.nodes[n],
           ExactBut(old, {})
    PROVE  LET h == RefreshNodes(g, ns) IN
           /\ Good(h, fs \cup ns) /\ ExactBut(h, {})
           /\ Same(g, h, {"sourceNodes", "documentNodes", "sourceEdges"})
<1> DEFINE h == ReplaceNodeRows(g, ns)
           moved == {n \in ns : MetadataSources(h, n) # MetadataSources(g, n)}
<1>1. /\ Typed(h)
      /\ Same(g, h, {"sourceNodes", "documentNodes"})
      /\ \A s \in Sources, n \in Nodes, ref \in NodeMask :
            <<s, n, ref>> \in h.sourceNodes <=>
               IF n \in ns THEN NodeRef(g, s, n, ref) ELSE <<s, n, ref>> \in g.sourceNodes
      /\ \A d \in Documents, n \in Nodes :
            <<d, n>> \in h.documentNodes <=>
               IF n \in ns THEN g.nodes[n].document = d /\ d \in g.documents
                           ELSE <<d, n>> \in g.documentNodes
  BY ReplaceNodeRowsEffect
<1> HIDE DEF h
<1>2. Keyed(h)
  BY <1>1 DEF Keyed, Same, Ends, EdgesIn, NodesIn
<1>3. Sound(h)
  BY <1>1 DEF Sound, Same
<1>4. RowsTrue(h)
  BY <1>1 DEF Good, RowsTrue, Same, NodeRef
<1>5. RowsThere(h, fs \cup ns)
  <2>1. ASSUME NEW s \in Sources, NEW n \in fs \cup ns, NEW ref \in NodeMask, NodeRef(h, s, n, ref)
        PROVE  <<s, n, ref>> \in h.sourceNodes
    BY <1>1, <2>1 DEF RowsThere, Same, NodeRef
  <2>2. ASSUME NEW n \in fs \cup ns, h.nodes[n].document \in h.documents
        PROVE  <<h.nodes[n].document, n>> \in h.documentNodes
    BY <1>1, <2>2 DEF RowsThere, Same, Typed
  <2> QED BY <2>1, <2>2 DEF RowsThere
<1>6. Good(h, fs \cup ns)
  BY <1>1, <1>2, <1>3, <1>4, <1>5 DEF Good
<1>7. ExactBut(h, Incident(h, moved))
  <2> SUFFICES ASSUME NEW s \in Sources, NEW e \in Edges, NEW ref \in EdgeMask,
                      e \notin Incident(h, moved)
               PROVE  EdgeRef(h, s, e, ref) <=> EdgeRef(old, s, e, ref)
    BY <1>1 DEF ExactBut, Same
  <2>1. ASSUME NEW n \in Nodes, n \notin moved
        PROVE  <<s, n, "metadata">> \in h.sourceNodes <=> <<s, n, "metadata">> \in old.sourceNodes
    <3>1. CASE n \in ns
      BY <2>1, <3>1 DEF MetadataSources, Same
    <3>2. CASE n \notin ns
      BY <1>1, <3>2 DEF Same, NodeMask
    <3> QED BY <3>1, <3>2
  <2>2. /\ h.edges[e] = old.edges[e]
        /\ h.edges[e].src \in (Nodes \ moved) \cup {None}
        /\ h.edges[e].dst \in (Nodes \ moved) \cup {None}
    BY <1>1 DEF Same, Incident, Ends, Typed, EdgeRow
  <2>3. /\ <<s, h.edges[e].src, "metadata">> \in h.sourceNodes
              <=> <<s, h.edges[e].src, "metadata">> \in old.sourceNodes
        /\ <<s, h.edges[e].dst, "metadata">> \in h.sourceNodes
              <=> <<s, h.edges[e].dst, "metadata">> \in old.sourceNodes
    BY <1>1, <2>1, <2>2, NoRowForNone DEF Good
  <2> QED BY <1>1, <2>2, <2>3 DEF EdgeRef, Same
<1>8. Incident(h, moved) \in SUBSET Edges
  BY DEF Incident
<1>9. LET k == RefreshEdges(h, Incident(h, moved)) IN
      /\ Good(k, fs \cup ns) /\ ExactBut(k, {})
      /\ Same(h, k, {"sourceEdges"})
  BY <1>1, <1>6, <1>7, <1>8, RefreshEdgesKeeps, RefreshEdgesEffect
<1>10. RefreshNodes(g, ns) = RefreshEdges(h, Incident(h, moved))
  BY DEF RefreshNodes, h
<1> HIDE DEF moved
<1> QED BY <1>1, <1>9, <1>10 DEF Same

(* The rows of h are those of g, but for the inputs'. *)
Wrote(g, h, inputs) ==
    /\ NodesIn(h) = NodesIn(g) \cup NodeIds(inputs)
    /\ \A n \in Nodes \ NodeIds(inputs) : h.nodes[n] = g.nodes[n]
    /\ \A n \in NodeIds(inputs) : \E i \in inputs :
          i.node = n /\ h.nodes[n].source = i.source /\ h.nodes[n].document = i.document

LEMMA WriteNodesKeeps ==
    ASSUME NEW g, NEW fs, Good(g, fs), fs \subseteq Nodes, ExactBut(g, {}),
           NEW inputs \in SUBSET NodeInput, NEW owner \in g.sources \cup {None},
           \A i \in inputs : Writable(i, owner)
    PROVE  LET h == WriteNodes(g, inputs, owner) IN
           /\ Good(h, fs \cup NodeIds(inputs)) /\ ExactBut(h, {})
           /\ Same(g, h, {"nodes", "sourceNodes", "documentNodes", "sourceEdges"})
           /\ Wrote(g, h, inputs)
<1> DEFINE g1 == PutNodes(g, inputs, owner)
           ns == NodeIds(inputs)
<1>0. owner \in Sources \cup {None} /\ g.sources \subseteq Sources /\ Typed(g)
  BY DEF Good, Typed
<1>1. /\ Typed(g1)
      /\ Same(g, g1, {"nodes"})
      /\ ns \subseteq Nodes
      /\ \A n \in Nodes \ ns : g1.nodes[n] = g.nodes[n]
      /\ \A n \in ns : \E i \in inputs :
            /\ i.node = n
            /\ g1.nodes[n].source = i.source
            /\ g1.nodes[n].document = i.document
            /\ g1.nodes[n].owner = IF owner = None THEN g.nodes[n].owner ELSE owner
  BY <1>0, PutNodesEffect
<1> HIDE DEF g1, ns
<1>2. \A n \in ns : g1.nodes[n].source # None \/ g1.nodes[n].owner # None
  BY <1>0, <1>1, NullAssumption DEF Writable
<1>3. NodesIn(g1) = NodesIn(g) \cup ns
  BY <1>1, <1>2 DEF NodesIn, NoNode
<1>4. Keyed(g1)
  <2>1. \A n \in Nodes : g1.nodes[n].owner \in g1.sources \cup {None}
    BY <1>1 DEF Good, Keyed, Same
  <2>2. \A e \in EdgesIn(g1) : /\ Ends(g1, e) \subseteq NodesIn(g1)
                               /\ g1.edges[e].evidence \in SectionsOf(g1.place) \cup {None}
                               /\ g1.edges[e].owner \in g1.sources \cup {None}
    BY <1>1, <1>3 DEF Good, Keyed, Same, EdgesIn, Ends
  <2> QED BY <1>1, <2>1, <2>2 DEF Good, Keyed, Same
<1>5. Sound(g1)
  <2>1. ASSUME NEW n \in ns
        PROVE  /\ g1.nodes[n].source \in {None, Home[n]}
               /\ g1.nodes[n].owner \in {None, Home[n]}
               /\ g1.nodes[n].document # None =>
                     g1.nodes[n].source = SourceOf[g1.nodes[n].document]
               /\ g1.nodes[n].source \in Workbooks => g1.nodes[n].owner = g1.nodes[n].source
    <3>1. PICK i \in inputs : /\ i.node = n
                              /\ g1.nodes[n].source = i.source
                              /\ g1.nodes[n].document = i.document
                              /\ g1.nodes[n].owner = IF owner = None THEN g.nodes[n].owner ELSE owner
      BY <1>1
    <3>2. Writable(i, owner) /\ n \in Nodes
      BY <1>1
    <3>3. g.nodes[n].owner \in {None, Home[n]}
      BY <3>2 DEF Good, Sound
    <3>4. None \notin Workbooks
      BY NullAssumption, KeysAssumption
    <3> QED BY <3>1, <3>2, <3>3, <3>4 DEF Writable, Homely
  <2> QED BY <1>1, <2>1 DEF Good, Sound, Same
<1>6. Good(g, {}) /\ RowsThere(g, fs)
  BY DEF Good, RowsThere
<1>7. LET h == RefreshNodes(g1, ns) IN
      /\ Good(h, fs \cup ns) /\ ExactBut(h, {})
      /\ Same(g1, h, {"sourceNodes", "documentNodes", "sourceEdges"})
  BY <1>1, <1>4, <1>5, <1>6, RefreshNodesKeeps
<1>8. WriteNodes(g, inputs, owner) = RefreshNodes(g1, ns)
  BY DEF WriteNodes, g1, ns
<1>9. NodesIn(RefreshNodes(g1, ns)) = NodesIn(g1)
  BY <1>7 DEF Same, NodesIn
<1> QED BY <1>1, <1>3, <1>7, <1>8, <1>9 DEF Same, Wrote, ns

LEMMA PutEdgesEffect ==
    ASSUME NEW g, Typed(g), NEW inputs \in SUBSET EdgeInput, NEW owner \in Sources \cup {None}
    PROVE  LET h == PutEdges(g, inputs, owner) IN
           /\ Typed(h)
           /\ Same(g, h, {"edges"})
           /\ \A e \in Edges \ EdgeIds(inputs) : h.edges[e] = g.edges[e]
           /\ \A e \in EdgeIds(inputs) : \E i \in inputs :
                 /\ i.edge = e
                 /\ h.edges[e].src = i.src
                 /\ h.edges[e].dst = i.dst
                 /\ h.edges[e].evidence = i.evidence
                 /\ h.edges[e].owner = IF owner = None THEN g.edges[e].owner ELSE owner
<1> DEFINE h == PutEdges(g, inputs, owner)
           input(e) == CHOOSE i \in inputs : i.edge = e
           row(e) == IF e \in EdgeIds(inputs)
                       THEN [src |-> input(e).src, dst |-> input(e).dst,
                             evidence |-> input(e).evidence,
                             owner |-> IF owner = None THEN g.edges[e].owner ELSE owner]
                       ELSE g.edges[e]
<1>1. /\ h.edges = [e \in Edges |-> row(e)]
      /\ Same(g, h, {"edges"})
  BY DEF PutEdges, Typed, Same
<1>2. ASSUME NEW e \in EdgeIds(inputs) PROVE input(e) \in inputs /\ input(e).edge = e
  BY DEF EdgeIds
<1>3. EdgeIds(inputs) \subseteq Edges
  BY DEF EdgeIds, EdgeInput
<1> HIDE DEF input
<1>4. ASSUME NEW e \in Edges PROVE row(e) \in EdgeRow
  <2>1. g.edges[e] \in EdgeRow
    BY DEF Typed
  <2>2. ASSUME e \in EdgeIds(inputs) PROVE row(e) \in EdgeRow
    <3>1. input(e) \in EdgeInput
      BY <1>2, <2>2
    <3> QED BY <2>1, <2>2, <3>1 DEF EdgeInput, EdgeRow
  <2> QED BY <2>1, <2>2
<1> HIDE DEF row
<1>5. h.edges \in [Edges -> EdgeRow]
  BY <1>1, <1>4
<1>6. Typed(h)
  BY <1>1, <1>5 DEF Typed, PutEdges
<1>7. \A e \in Edges \ EdgeIds(inputs) : h.edges[e] = g.edges[e]
  BY <1>1 DEF row
<1>8. ASSUME NEW e \in EdgeIds(inputs)
      PROVE  \E i \in inputs :
                 /\ i.edge = e
                 /\ h.edges[e].src = i.src
                 /\ h.edges[e].dst = i.dst
                 /\ h.edges[e].evidence = i.evidence
                 /\ h.edges[e].owner = IF owner = None THEN g.edges[e].owner ELSE owner
  <2>1. h.edges[e] = row(e)
    BY <1>1, <1>3
  <2>2. input(e) \in inputs /\ input(e).edge = e
    BY <1>2
  <2> QED BY <2>1, <2>2 DEF row
<1> QED BY <1>1, <1>6, <1>7, <1>8

LEMMA WriteEdgesKeeps ==
    ASSUME NEW g, NEW fs, Good(g, fs), ExactBut(g, {}),
           NEW inputs \in SUBSET EdgeInput, NEW owner \in g.sources \cup {None},
           \A i \in inputs : Insertable(g, i)
    PROVE  LET h == WriteEdges(g, inputs, owner) IN
           Good(h, fs) /\ ExactBut(h, {}) /\ Same(g, h, {"edges", "sourceEdges"})
<1> DEFINE g1 == PutEdges(g, inputs, owner)
           es == EdgeIds(inputs)
<1>0. owner \in Sources \cup {None} /\ Typed(g) /\ es \in SUBSET Edges
  BY DEF Good, Typed, EdgeIds, EdgeInput
<1>1. /\ Typed(g1)
      /\ Same(g, g1, {"edges"})
      /\ \A e \in Edges \ es : g1.edges[e] = g.edges[e]
      /\ \A e \in es : \E i \in inputs :
            /\ i.edge = e
            /\ g1.edges[e].src = i.src
            /\ g1.edges[e].dst = i.dst
            /\ g1.edges[e].evidence = i.evidence
            /\ g1.edges[e].owner = IF owner = None THEN g.edges[e].owner ELSE owner
  BY <1>0, PutEdgesEffect
<1> HIDE DEF g1, es
<1>2. Keyed(g1)
  <2>1. ASSUME NEW e \in EdgesIn(g1)
        PROVE  /\ Ends(g1, e) \subseteq NodesIn(g1)
               /\ g1.edges[e].evidence \in SectionsOf(g1.place) \cup {None}
               /\ g1.edges[e].owner \in g1.sources \cup {None}
    <3>1. CASE e \in es
      <4>1. PICK i \in inputs : /\ g1.edges[e].src = i.src
                                /\ g1.edges[e].dst = i.dst
                                /\ g1.edges[e].evidence = i.evidence
                                /\ g1.edges[e].owner =
                                      IF owner = None THEN g.edges[e].owner ELSE owner
        BY <1>1, <3>1
      <4>2. Insertable(g, i) /\ i.evidence \in Sections \cup {None}
        BY DEF EdgeInput
      <4>3. g.edges[e].owner \in g.sources \cup {None}
        BY <1>0, EdgeIsWhole DEF Good, EdgesIn, NoEdge
      <4> QED BY <1>1, <4>1, <4>2, <4>3 DEF Insertable, Ends, NodesIn, SectionsOf, Same
    <3>2. CASE e \notin es
      BY <1>1, <3>2 DEF Good, Keyed, Same, Ends, NodesIn, EdgesIn
    <3> QED BY <3>1, <3>2
  <2> QED BY <1>1, <2>1 DEF Good, Keyed, Same
<1>3. Good(g1, fs)
  BY <1>1, <1>2 DEF Good, Sound, RowsTrue, RowsThere, NodeRef, Same
<1>4. ExactBut(g1, es)
  BY <1>1 DEF ExactBut, EdgeRef, Same
<1>5. LET h == RefreshEdges(g1, es) IN
      Good(h, fs) /\ ExactBut(h, {}) /\ Same(g1, h, {"sourceEdges"})
  BY <1>0, <1>1, <1>3, <1>4, RefreshEdgesKeeps, RefreshEdgesEffect
<1>6. WriteEdges(g, inputs, owner) = RefreshEdges(g1, es)
  BY DEF WriteEdges, g1, es
<1> QED BY <1>1, <1>5, <1>6 DEF Same

-----------------------------------------------------------------------------
(* The steps *)

Inv ==
    /\ fresh \subseteq Nodes
    /\ Good(db, fresh)
    /\ ExactBut(db, {})

LEMMA InvInit == Init => Inv
<1> SUFFICES ASSUME Init PROVE Inv
  OBVIOUS
<1>1. /\ db.sources = {} /\ db.documents = {}
      /\ db.sourceNodes = {} /\ db.documentNodes = {} /\ db.sourceEdges = {}
      /\ db.place = [c \in Sections |-> None]
      /\ db.nodes = [n \in Nodes |-> NoNode]
      /\ db.edges = [e \in Edges |-> NoEdge]
      /\ fresh = {}
  BY DEF Init
<1>2. NoNode \in NodeRow /\ NoEdge \in EdgeRow
  BY DEF NoNode, NodeRow, NoEdge, EdgeRow
<1>3. Typed(db)
  BY <1>2 DEF Init, Typed
<1>4. Keyed(db)
  BY <1>1 DEF Keyed, SectionsOf, EdgesIn, NoNode
<1>5. Sound(db)
  BY <1>1, NullAssumption, KeysAssumption DEF Sound, NoNode
<1>6. RowsTrue(db) /\ RowsThere(db, fresh)
  BY <1>1 DEF RowsTrue, RowsThere
<1>7. ExactBut(db, {})
  BY <1>1, NullAssumption DEF ExactBut, EdgeRef, NoEdge
<1> QED BY <1>1, <1>3, <1>4, <1>5, <1>6, <1>7 DEF Inv, Good

LEMMA CreateSourceKeeps == ASSUME Inv, NEW s \in Sources, CreateSource(s) PROVE Inv'
<1>1. /\ db'.sources = db.sources \cup {s}
      /\ Same(db, db', {"sources"})
      /\ Typed(db')
      /\ fresh' = {n \in fresh : db.nodes[n].source # s}
  BY DEF Inv, Good, Typed, CreateSource, Same
<1>2. Keyed(db')
  BY <1>1 DEF Inv, Good, Keyed, Same, Ends, EdgesIn, NodesIn
<1>3. Sound(db')
  BY <1>1 DEF Inv, Good, Sound, Same
<1>4. RowsTrue(db')
  BY <1>1 DEF Inv, Good, RowsTrue, NodeRef, Same
<1>5. RowsThere(db', fresh')
  BY <1>1 DEF Inv, Good, RowsThere, NodeRef, Same
<1>6. ExactBut(db', {})
  BY <1>1 DEF Inv, ExactBut, EdgeRef, Same
<1> QED BY <1>1, <1>2, <1>3, <1>4, <1>5, <1>6 DEF Inv, Good

(* What the deletion of a source does to nodes. *)
LEMMA DeleteSourceEffect ==
    ASSUME Inv, NEW s \in Sources, DeleteSource(s)
    PROVE  /\ Good(db', fresh) /\ ExactBut(db', {})
           /\ db'.sources = db.sources \ {s}
           /\ db'.documents = db.documents \ OfSource(s)
           /\ \A n \in Nodes : db'.nodes[n] = IF n \in OwnedBySource(db, s) \/ db.nodes[n].owner = s
                                                THEN NoNode ELSE db.nodes[n]
<1> DEFINE ns == OwnedBySource(db, s)
           g1 == DropNodes(db, ns)
           es == {e \in Edges : g1.edges[e].owner = s}
           g2 == DropEdges(g1, es)
           ns2 == {n \in Nodes : g1.nodes[n].owner = s}
           g3 == DropNodes(g2, ns2)
           ds == OfSource(s)
           g4 == CascadeDocuments(g3, ds)
<1>1. /\ ns \in SUBSET Nodes /\ ns2 \in SUBSET Nodes /\ es \in SUBSET Edges
      /\ ds \in SUBSET Documents
  BY DEF OwnedBySource, NodesIn, OfSource
<1>2. /\ Good(g1, fresh) /\ ExactBut(g1, {})
      /\ g1.sources = db.sources /\ g1.documents = db.documents
      /\ \A n \in Nodes : g1.nodes[n] = IF n \in ns THEN NoNode ELSE db.nodes[n]
  <2>1. Good(g1, fresh) /\ ExactBut(g1, {})
    BY <1>1, DropNodesKeeps DEF Inv
  <2>2. /\ Same(DropEdges(db, Incident(db, ns)), g1, {"nodes", "sourceNodes", "documentNodes"})
        /\ \A n \in Nodes : g1.nodes[n] = IF n \in ns THEN NoNode ELSE db.nodes[n]
    BY <1>1, DropNodesEffect DEF Inv, Good
  <2>3. Same(db, DropEdges(db, Incident(db, ns)), {"edges", "sourceEdges"})
    BY DropEdgesEffect DEF Inv, Good, Incident
  <2> QED BY <2>1, <2>2, <2>3 DEF Same
<1> HIDE DEF ns, g1
<1>3. /\ Good(g2, fresh) /\ ExactBut(g2, {})
      /\ Same(g1, g2, {"edges", "sourceEdges"})
      /\ \A e \in Edges : g2.edges[e].owner # s
  <2>1. /\ Good(g2, fresh) /\ ExactBut(g2, {})
        /\ Same(g1, g2, {"edges", "sourceEdges"})
        /\ \A e \in Edges : g2.edges[e] = IF e \in es THEN NoEdge ELSE g1.edges[e]
    BY <1>1, <1>2, DropEdgesKeeps, DropEdgesEffect DEF Good
  <2> QED BY <2>1, NullAssumption DEF NoEdge
<1> HIDE DEF es, g2
<1>4. /\ Good(g3, fresh) /\ ExactBut(g3, {})
      /\ g3.sources = db.sources /\ g3.documents = db.documents
      /\ \A n \in Nodes : g3.nodes[n] = IF n \in ns2 THEN NoNode ELSE g1.nodes[n]
      /\ \A e \in Edges : g3.edges[e].owner # s
  <2>1. Good(g3, fresh) /\ ExactBut(g3, {})
    BY <1>1, <1>3, DropNodesKeeps DEF Inv
  <2>2. /\ Same(DropEdges(g2, Incident(g2, ns2)), g3, {"nodes", "sourceNodes", "documentNodes"})
        /\ \A n \in Nodes : g3.nodes[n] = IF n \in ns2 THEN NoNode ELSE g2.nodes[n]
    BY <1>1, <1>3, DropNodesEffect DEF Good
  <2>3. /\ Same(g2, DropEdges(g2, Incident(g2, ns2)), {"edges", "sourceEdges"})
        /\ \A e \in Edges : DropEdges(g2, Incident(g2, ns2)).edges[e] =
                               IF e \in Incident(g2, ns2) THEN NoEdge ELSE g2.edges[e]
    BY <1>3, DropEdgesEffect DEF Good, Incident
  <2> HIDE DEF ns2, g3
  <2>4. g3.sources = db.sources /\ g3.documents = db.documents /\ g2.nodes = g1.nodes
    BY <1>2, <1>3, <2>2, <2>3 DEF Same
  <2>5. \A e \in Edges : g3.edges[e].owner # s
    BY <1>3, <2>2, <2>3, NullAssumption DEF Same, NoEdge
  <2> QED BY <2>1, <2>2, <2>4, <2>5
<1>5. \A n \in Nodes : g3.nodes[n].owner # s /\ g3.nodes[n] =
          IF n \in ns \/ db.nodes[n].owner = s THEN NoNode ELSE db.nodes[n]
  BY <1>2, <1>4, NullAssumption DEF NoNode
<1> HIDE DEF ns2, g3
<1>6. /\ Good(g4, fresh)
      /\ ExactBut(g4, Proving(g3, SectionsIn(g3, ds)))
      /\ Typed(g4)
      /\ g4.documents = g3.documents \ ds
      /\ Same(CascadeSections(g3, SectionsIn(g3, ds)), g4, {"documents", "documentNodes"})
  BY <1>1, <1>4, CascadeDocumentsKeeps, CascadeDocumentsEffect DEF Good
<1>7. /\ Same(g3, g4, {"documents", "documentNodes", "place", "edges"})
      /\ \A e \in Edges : /\ g4.edges[e].src = g3.edges[e].src
                          /\ g4.edges[e].dst = g3.edges[e].dst
                          /\ g4.edges[e].owner = g3.edges[e].owner
                          /\ g4.edges[e].evidence = IF g3.edges[e].evidence \in SectionsIn(g3, ds)
                                                      THEN None ELSE g3.edges[e].evidence
  <2>1. SectionsIn(g3, ds) \in SUBSET Sections
    BY DEF SectionsIn
  <2> QED BY <1>4, <1>6, <2>1, CascadeSectionsEffect DEF Good, Same
<1> HIDE DEF g4
<1>8. /\ db'.sources = g4.sources \ {s}
      /\ db'.sourceNodes = {m \in g4.sourceNodes : m[1] # s}
      /\ db'.sourceEdges = {m \in g4.sourceEdges : m[1] # s}
      /\ Same(g4, db', {"sources", "sourceNodes", "sourceEdges"})
      /\ Typed(db')
  <2>1. db' = [g4 EXCEPT !.sources = @ \ {s},
                         !.sourceNodes = {m \in @ : m[1] # s},
                         !.sourceEdges = {m \in @ : m[1] # s}]
    BY DEF DeleteSource, CascadeSource, ns, g1, es, g2, ns2, g3, g4
  <2> QED BY <1>6, <2>1 DEF Typed, Same
<1>9. Keyed(db')
  <2>1. \A d \in db'.documents : SourceOf[d] \in db'.sources
    BY <1>4, <1>6, <1>7, <1>8 DEF Good, Keyed, Same, OfSource, Typed
  <2>2. \A n \in Nodes : db'.nodes[n].owner \in db'.sources \cup {None}
    BY <1>4, <1>5, <1>7, <1>8 DEF Good, Keyed, Same
  <2>3. \A e \in EdgesIn(db') : /\ Ends(db', e) \subseteq NodesIn(db')
                                /\ db'.edges[e].evidence \in SectionsOf(db'.place) \cup {None}
                                /\ db'.edges[e].owner \in db'.sources \cup {None}
    BY <1>4, <1>6, <1>7, <1>8 DEF Good, Keyed, Same, EdgesIn, Ends, NodesIn
  <2> QED BY <1>6, <1>8, <2>1, <2>2, <2>3 DEF Good, Keyed, Same
<1>10. Sound(db')
  BY <1>6, <1>8 DEF Good, Sound, Same
<1>11. RowsTrue(db')
  BY <1>6, <1>8 DEF Good, RowsTrue, NodeRef, Same
<1>12. RowsThere(db', fresh)
  <2>1. ASSUME NEW r \in Sources, NEW n \in fresh, NEW ref \in NodeMask, NodeRef(db', r, n, ref)
        PROVE  <<r, n, ref>> \in db'.sourceNodes
    <3>1. r # s
      BY <1>5, <1>7, <1>8, <2>1 DEF NodeRef, Same, Inv
    <3> QED BY <1>6, <1>8, <2>1, <3>1 DEF Good, RowsThere, NodeRef, Same
  <2>2. \A n \in fresh : db'.nodes[n].document \in db'.documents =>
                            <<db'.nodes[n].document, n>> \in db'.documentNodes
    BY <1>6, <1>8 DEF Good, RowsThere, Same
  <2> QED BY <2>1, <2>2 DEF RowsThere
<1>13. ExactBut(db', {})
  <2> SUFFICES ASSUME NEW r \in Sources, NEW e \in Edges, NEW ref \in EdgeMask
               PROVE  <<r, e, ref>> \in db'.sourceEdges <=> EdgeRef(db', r, e, ref)
    BY DEF ExactBut
  <2>1. g3.edges[e].evidence \in SectionsIn(g3, ds) =>
           SourceOf[g3.place[g3.edges[e].evidence]] = s
    BY DEF SectionsIn, OfSource
  <2>2. <<r, e, ref>> \in g3.sourceEdges <=> EdgeRef(g3, r, e, ref)
    BY <1>4 DEF ExactBut
  <2>3. CASE r = s
    <3>1. <<r, e, ref>> \notin db'.sourceEdges /\ \A n : <<r, n, "metadata">> \notin db'.sourceNodes
      BY <1>8, <2>3
    <3>2. db'.edges[e].owner # s
      BY <1>4, <1>7, <1>8 DEF Same
    <3>3. ~ (db'.edges[e].evidence # None /\ SourceOf[db'.place[db'.edges[e].evidence]] = s)
      <4> SUFFICES ASSUME db'.edges[e].evidence # None,
                          SourceOf[db'.place[db'.edges[e].evidence]] = s
                   PROVE  FALSE
        OBVIOUS
      <4>1. e \in EdgesIn(db') /\ db'.edges[e].evidence \in SectionsOf(db'.place)
        BY <1>8, <1>9, EdgeIsWhole DEF NoEdge
      <4>2. db'.place[db'.edges[e].evidence] \in db'.documents
        BY <1>9, <4>1 DEF Keyed
      <4> QED BY <1>8, <1>9, <4>2 DEF Keyed
    <3> QED BY <2>3, <3>1, <3>2, <3>3 DEF EdgeRef
  <2>4. CASE r # s
    <3>1. <<r, e, ref>> \in db'.sourceEdges <=> <<r, e, ref>> \in g3.sourceEdges
      BY <1>7, <1>8, <2>4 DEF Same
    <3>2. \A n : <<r, n, "metadata">> \in db'.sourceNodes <=> <<r, n, "metadata">> \in g3.sourceNodes
      BY <1>7, <1>8, <2>4 DEF Same
    <3>3. /\ db'.edges[e].src = g3.edges[e].src
          /\ db'.edges[e].dst = g3.edges[e].dst
          /\ db'.edges[e].owner = g3.edges[e].owner
          /\ db'.edges[e].evidence = IF g3.edges[e].evidence \in SectionsIn(g3, ds)
                                       THEN None ELSE g3.edges[e].evidence
      BY <1>7, <1>8 DEF Same
    <3>4. g3.edges[e].evidence \in Sections /\ g3.edges[e].evidence \notin SectionsIn(g3, ds)
             => db'.place[g3.edges[e].evidence] = g3.place[g3.edges[e].evidence]
      <4>1. SectionsIn(g3, ds) \in SUBSET Sections
        BY DEF SectionsIn
      <4>2. \A c \in Sections : CascadeSections(g3, SectionsIn(g3, ds)).place[c] =
                                   IF c \in SectionsIn(g3, ds) THEN None ELSE g3.place[c]
        BY <1>4, <4>1, CascadeSectionsEffect DEF Good
      <4> QED BY <1>6, <1>8, <4>2 DEF Same
    <3>5. g3.edges[e].evidence \in Sections \cup {None}
      BY <1>4 DEF Good, Typed, EdgeRow
    <3> QED BY <2>1, <2>2, <2>4, <3>1, <3>2, <3>3, <3>4, <3>5 DEF EdgeRef
  <2> QED BY <2>3, <2>4
<1>14. Good(db', fresh)
  BY <1>8, <1>9, <1>10, <1>11, <1>12 DEF Good
<1>15. db'.sources = db.sources \ {s} /\ db'.documents = db.documents \ OfSource(s)
  BY <1>4, <1>6, <1>7, <1>8 DEF Same
<1>16. \A n \in Nodes : db'.nodes[n] = IF n \in ns \/ db.nodes[n].owner = s
                                         THEN NoNode ELSE db.nodes[n]
  BY <1>5, <1>7, <1>8 DEF Same
<1> QED BY <1>13, <1>14, <1>15, <1>16 DEF ns

LEMMA DeleteSourceKeeps == ASSUME Inv, NEW s \in Sources, DeleteSource(s) PROVE Inv'
BY DeleteSourceEffect DEF Inv, DeleteSource

LEMMA ReplaceDocumentKeeps ==
    ASSUME Inv, NEW d \in Documents, NEW text \in Texts[d], ReplaceDocument(d, text)
    PROVE  Inv'
<1> DEFINE cs == SectionsIn(db, {d})
           g == DropSections(db, cs)
<1>1. /\ Good(g, fresh) /\ ExactBut(g, {})
      /\ Same(db, g, {"place", "edges", "sourceEdges"})
      /\ \A c \in Sections : g.place[c] = IF c \in cs THEN None ELSE db.place[c]
  BY DropSectionsKeeps DEF Inv, SectionsIn
<1>2. \A c \in text : c \in Sections /\ g.place[c] = None /\ Home[c] = SourceOf[d]
  BY <1>1, InputsAssumption DEF ReplaceDocument, SectionsIn
<1> HIDE DEF g, cs
<1>3. /\ Same(g, db', {"documents", "place"})
      /\ db'.documents = g.documents \cup {d}
      /\ \A c \in Sections : db'.place[c] = IF c \in text THEN d ELSE g.place[c]
      /\ Typed(db')
      /\ fresh' = {n \in fresh : d \in db.documents \/ db.nodes[n].document # d}
  <2>1. db' = [g EXCEPT !.documents = @ \cup {d},
                        !.place = [c \in Sections |-> IF c \in text THEN d ELSE g.place[c]]]
    BY DEF ReplaceDocument, g, cs
  <2>2. [c \in Sections |-> IF c \in text THEN d ELSE g.place[c]]
            \in [Sections -> Documents \cup {None}]
    BY <1>1 DEF Good, Typed
  <2>3. Typed(g)
    BY <1>1 DEF Good
  <2>4. /\ Same(g, db', {"documents", "place"})
        /\ db'.documents = g.documents \cup {d}
        /\ db'.place = [c \in Sections |-> IF c \in text THEN d ELSE g.place[c]]
    BY <2>1, <2>3 DEF Typed, Same
  <2>5. Typed(db')
    BY <2>1, <2>2, <2>3 DEF Typed
  <2> QED BY <2>4, <2>5 DEF ReplaceDocument
<1>4. Keyed(db')
  <2>1. \A x \in db'.documents : SourceOf[x] \in db'.sources
    BY <1>1, <1>3 DEF Good, Keyed, Same, ReplaceDocument
  <2>2. \A c \in SectionsOf(db'.place) : db'.place[c] \in db'.documents
    BY <1>1, <1>3 DEF Good, Keyed, Same, SectionsOf
  <2>3. SectionsOf(g.place) \subseteq SectionsOf(db'.place)
    BY <1>3, NullAssumption DEF SectionsOf
  <2>4. \A e \in EdgesIn(db') : /\ Ends(db', e) \subseteq NodesIn(db')
                                /\ db'.edges[e].evidence \in SectionsOf(db'.place) \cup {None}
                                /\ db'.edges[e].owner \in db'.sources \cup {None}
    BY <1>1, <1>3, <2>3 DEF Good, Keyed, Same, EdgesIn, Ends, NodesIn
  <2> QED BY <1>1, <1>3, <2>1, <2>2, <2>4 DEF Good, Keyed, Same
<1>5. Sound(db')
  BY <1>1, <1>2, <1>3 DEF Good, Sound, Same
<1>6. RowsTrue(db')
  BY <1>1, <1>3 DEF Good, RowsTrue, NodeRef, Same
<1>7. RowsThere(db', fresh')
  BY <1>1, <1>3 DEF Good, RowsThere, NodeRef, Same
<1>8. ExactBut(db', {})
  <2> SUFFICES ASSUME NEW s \in Sources, NEW e \in Edges, NEW ref \in EdgeMask
               PROVE  EdgeRef(db', s, e, ref) <=> EdgeRef(g, s, e, ref)
    BY <1>1, <1>3 DEF ExactBut, Same
  <2>1. g.edges[e].evidence \in SectionsOf(g.place) \cup {None}
    BY <1>1, EdgeIsWhole DEF Good, NoEdge
  <2>2. g.edges[e].evidence # None => db'.place[g.edges[e].evidence] = g.place[g.edges[e].evidence]
    BY <1>2, <1>3, <2>1 DEF SectionsOf
  <2> QED BY <1>3, <2>2 DEF EdgeRef, Same
<1> QED BY <1>3, <1>4, <1>5, <1>6, <1>7, <1>8 DEF Inv, Good

LEMMA DeleteStaleEffect ==
    ASSUME Inv, NEW ds \in SUBSET Documents, DeleteStale(ds)
    PROVE  /\ Good(db', fresh) /\ ExactBut(db', {})
           /\ db'.sources = db.sources
           /\ db'.documents = db.documents \ ds
           /\ \A n \in Nodes : db'.nodes[n] = IF n \in OwnedByDocuments(db, ds)
                                                THEN NoNode ELSE db.nodes[n]
<1> DEFINE ns == OwnedByDocuments(db, ds)
           g1 == DropNodes(db, ns)
           g2 == CascadeDocuments(g1, ds)
           es == Proving(db, SectionsIn(db, ds))
<1>1. ns \in SUBSET Nodes /\ es \in SUBSET Edges
  BY DEF OwnedByDocuments, NodesIn, Proving
<1>2. /\ Good(g1, fresh) /\ ExactBut(g1, {})
      /\ Same(DropEdges(db, Incident(db, ns)), g1, {"nodes", "sourceNodes", "documentNodes"})
      /\ \A n \in Nodes : g1.nodes[n] = IF n \in ns THEN NoNode ELSE db.nodes[n]
  BY <1>1, DropNodesKeeps, DropNodesEffect DEF Inv, Good
<1>3. /\ Same(db, DropEdges(db, Incident(db, ns)), {"edges", "sourceEdges"})
      /\ \A e \in Edges : DropEdges(db, Incident(db, ns)).edges[e] =
                             IF e \in Incident(db, ns) THEN NoEdge ELSE db.edges[e]
  BY DropEdgesEffect DEF Inv, Good, Incident
<1> HIDE DEF ns, g1
<1>4. Proving(g1, SectionsIn(g1, ds)) \subseteq es
  <2>1. SectionsIn(g1, ds) = SectionsIn(db, ds)
    BY <1>2, <1>3 DEF Same, SectionsIn
  <2>2. \A e \in Edges : g1.edges[e] \in {NoEdge, db.edges[e]}
    BY <1>2, <1>3 DEF Same
  <2> QED BY <2>1, <2>2, NullAssumption DEF Proving, SectionsIn, NoEdge
<1>5. /\ Good(g2, fresh)
      /\ ExactBut(g2, Proving(g1, SectionsIn(g1, ds)))
      /\ g2.documents = g1.documents \ ds
      /\ Same(CascadeSections(g1, SectionsIn(g1, ds)), g2, {"documents", "documentNodes"})
  BY <1>2, CascadeDocumentsKeeps, CascadeDocumentsEffect DEF Good
<1>6. Same(g1, CascadeSections(g1, SectionsIn(g1, ds)), {"place", "edges"})
  BY <1>2, CascadeSectionsEffect DEF Good, SectionsIn
<1> HIDE DEF g2
<1>7. ExactBut(g2, es)
  BY <1>4, <1>5 DEF ExactBut
<1>8. db' = RefreshEdges(g2, es)
  BY DEF DeleteStale, g2, g1, ns
<1>9. Good(db', fresh) /\ ExactBut(db', {}) /\ Same(g2, db', {"sourceEdges"})
  BY <1>1, <1>5, <1>7, <1>8, RefreshEdgesKeeps, RefreshEdgesEffect DEF Good
<1> HIDE DEF es
<1> QED BY <1>2, <1>3, <1>5, <1>6, <1>9 DEF Same, ns

LEMMA DeleteStaleKeeps == ASSUME Inv, NEW ds \in SUBSET Documents, DeleteStale(ds) PROVE Inv'
BY DeleteStaleEffect DEF Inv, DeleteStale

LEMMA UpsertNodeEffect ==
    ASSUME Inv, NEW i \in NodeInputs, UpsertNode(i)
    PROVE  /\ Inv'
           /\ db'.sources = db.sources /\ db'.documents = db.documents
<1>1. {i} \in SUBSET NodeInput /\ \A j \in {i} : Writable(j, None)
  BY InputsAssumption DEF Writable
<1>2. NodeIds({i}) = {i.node} /\ i.node \in Nodes
  BY <1>1 DEF NodeIds, NodeInput
<1>3. LET h == WriteNodes(db, {i}, None) IN
      /\ Good(h, fresh \cup NodeIds({i})) /\ ExactBut(h, {})
      /\ Same(db, h, {"nodes", "sourceNodes", "documentNodes", "sourceEdges"})
  BY <1>1, WriteNodesKeeps DEF Inv
<1> QED BY <1>2, <1>3 DEF Inv, UpsertNode, Same

LEMMA UpsertEdgeEffect ==
    ASSUME Inv, NEW i \in EdgeInputs \cup Feedback, UpsertEdge(i)
    PROVE  Inv' /\ Same(db, db', {"edges", "sourceEdges"})
<1>1. {i} \in SUBSET EdgeInput
  BY InputsAssumption
<1>2. LET h == WriteEdges(db, {i}, None) IN
      Good(h, fresh) /\ ExactBut(h, {}) /\ Same(db, h, {"edges", "sourceEdges"})
  BY <1>1, WriteEdgesKeeps DEF Inv, UpsertEdge
<1> QED BY <1>2 DEF Inv, UpsertEdge

LEMMA NodeMergeEffect ==
    ASSUME Inv, NEW i \in Merges, NodeMerge(i)
    PROVE  Inv' /\ Same(db, db', {"edges", "sourceEdges"})
<1> DEFINE j == [edge |-> i.edge, src |-> i.src, dst |-> i.dst,
                 evidence |-> db.edges[i.edge].evidence]
<1>1. i \in [edge: Edges, src: Nodes, dst: Nodes]
  BY InputsAssumption
<1>2. db.edges[i.edge].evidence \in SectionsOf(db.place) \cup {None}
  BY <1>1, EdgeIsWhole DEF Inv, Good, NoEdge
<1>3. {j} \in SUBSET EdgeInput
  BY <1>1, <1>2 DEF EdgeInput, SectionsOf
<1>4. Insertable(db, j)
  BY <1>2 DEF Insertable, SectionsOf, NodeMerge
<1>5. LET h == WriteEdges(db, {j}, None) IN
      Good(h, fresh) /\ ExactBut(h, {}) /\ Same(db, h, {"edges", "sourceEdges"})
  <2> HIDE DEF j
  <2> QED BY <1>3, <1>4, WriteEdgesKeeps DEF Inv
<1>6. db' = WriteEdges(db, {j}, None) /\ fresh' = fresh
  BY DEF NodeMerge
<1> QED BY <1>5, <1>6 DEF Inv

(* A bundle's documents and sections are put in place before anything goes. *)
Placed(b) == [db EXCEPT !.documents = @ \cup b.documents,
                        !.place = [c \in Sections |->
                           IF b.place[c] # None THEN b.place[c] ELSE db.place[c]]]

StillFresh(b) == {n \in fresh : db.nodes[n].document \notin b.documents \ db.documents}

LEMMA PlaceBundle ==
    ASSUME Inv, NEW s \in Workbooks, NEW b \in Bundles[s], s \in db.sources, WellFormed(b)
    PROVE  LET g == Placed(b) IN
           /\ Good(g, StillFresh(b)) /\ ExactBut(g, {})
           /\ Same(db, g, {"documents", "place"})
           /\ g.documents = db.documents \cup b.documents
           /\ \A c \in Sections : g.place[c] = IF b.place[c] # None THEN b.place[c] ELSE db.place[c]
<1> DEFINE g == Placed(b)
           fs == StillFresh(b)
<1>1. /\ b \in Bundle
      /\ b.documents \subseteq OfSource(s)
      /\ \A c \in SectionsOf(b.place) : Home[c] = s /\ b.place[c] \in b.documents
  BY InputsAssumption DEF WellFormed
<1>2. /\ b.documents \subseteq Documents
      /\ b.place \in [Sections -> Documents \cup {None}]
      /\ \A d \in b.documents : SourceOf[d] = s
  BY <1>1 DEF Bundle, OfSource
<1>3. /\ Same(db, g, {"documents", "place"})
      /\ g.documents = db.documents \cup b.documents
      /\ g.place = [c \in Sections |-> IF b.place[c] # None THEN b.place[c] ELSE db.place[c]]
  BY DEF Placed, Inv, Good, Typed, Same
<1>4. Typed(g)
  <2>1. [c \in Sections |-> IF b.place[c] # None THEN b.place[c] ELSE db.place[c]]
            \in [Sections -> Documents \cup {None}]
    BY <1>2 DEF Inv, Good, Typed
  <2> QED BY <1>2, <2>1 DEF Placed, Inv, Good, Typed
<1> HIDE DEF g
<1>5. Keyed(g)
  <2>1. \A c \in SectionsOf(g.place) : g.place[c] \in g.documents
    BY <1>1, <1>3 DEF Inv, Good, Keyed, SectionsOf
  <2>2. SectionsOf(db.place) \subseteq SectionsOf(g.place)
    BY <1>3 DEF SectionsOf
  <2>3. \A e \in EdgesIn(g) : /\ Ends(g, e) \subseteq NodesIn(g)
                              /\ g.edges[e].evidence \in SectionsOf(g.place) \cup {None}
                              /\ g.edges[e].owner \in g.sources \cup {None}
    BY <1>3, <2>2 DEF Inv, Good, Keyed, Same, EdgesIn, Ends, NodesIn
  <2> QED BY <1>2, <1>3, <2>1, <2>3 DEF Inv, Good, Keyed, Same
<1>6. Sound(g)
  BY <1>1, <1>2, <1>3 DEF Inv, Good, Sound, Same, SectionsOf
<1>7. RowsTrue(g)
  BY <1>3 DEF Inv, Good, RowsTrue, NodeRef, Same
<1>8. RowsThere(g, fs)
  BY <1>3 DEF StillFresh, Inv, Good, RowsThere, NodeRef, Same
<1>9. ExactBut(g, {})
  <2> SUFFICES ASSUME NEW r \in Sources, NEW e \in Edges, NEW ref \in EdgeMask
               PROVE  EdgeRef(g, r, e, ref) <=> EdgeRef(db, r, e, ref)
    BY <1>3 DEF Inv, ExactBut, Same
  <2>1. db.edges[e].evidence \in SectionsOf(db.place) \cup {None}
    BY EdgeIsWhole DEF Inv, Good, NoEdge
  <2>2. \A c \in SectionsOf(db.place) : SourceOf[g.place[c]] = SourceOf[db.place[c]]
    BY <1>3, <1>6 DEF Inv, Good, Sound, SectionsOf
  <2> QED BY <1>3, <2>1, <2>2 DEF EdgeRef, Same
<1> QED BY <1>3, <1>4, <1>5, <1>6, <1>7, <1>8, <1>9 DEF Good, g

(* What a bundle does to the nodes that are there afterwards. *)
LEMMA BundleEffect ==
    ASSUME Inv, NEW s \in Workbooks, NEW b \in Bundles[s], ReplaceWorkbookBundle(s, b)
    PROVE  /\ Inv'
           /\ db'.sources = db.sources
           /\ db'.documents = (db.documents \cup b.documents) \ (OfSource(s) \ b.documents)
           /\ \A n \in NodesIn(db') :
                 \/ n \notin NodeIds(b.nodes) /\ db'.nodes[n] = db.nodes[n] /\ db.nodes[n].owner # s
                 \/ db'.nodes[n].document \in b.documents \cup {None}
<1> DEFINE g == Placed(b)
           fs == StillFresh(b)
           ids == NodeIds(b.nodes)
           g1 == WriteNodes(g, b.nodes, s)
           g2 == WriteEdges(g1, b.edges, s)
           es == StaleEdges(g2, s, b)
           g3 == DropEdges(g2, es)
           ns == StaleNodes(g2, s, b)
           g4 == DropNodes(g3, ns)
           cs == StaleSections(s, b)
           g5 == DropSections(g4, cs)
           ds == OfSource(s) \ b.documents
           g6 == CascadeDocuments(g5, ds)
<1>0. /\ s \in db.sources /\ WellFormed(b)
      /\ db' = g6 /\ fresh' = fs \cup ids
  BY DEF ReplaceWorkbookBundle, WriteBundle, Placed, StillFresh
<1>1. /\ b \in Bundle
      /\ b.documents \subseteq OfSource(s)
      /\ \A i \in b.nodes : Writable(i, s) /\ i.document \in b.documents \cup {None}
  <2>1. s # None
    BY NullAssumption, KeysAssumption
  <2> QED BY <2>1, InputsAssumption DEF Writable
<1>2. /\ b.nodes \in SUBSET NodeInput /\ b.edges \in SUBSET EdgeInput
      /\ ids \subseteq Nodes /\ fs \subseteq Nodes
      /\ es \in SUBSET Edges /\ ns \in SUBSET Nodes /\ cs \in SUBSET Sections
      /\ ds \in SUBSET Documents
  BY <1>1 DEF Bundle, NodeIds, NodeInput, StaleEdges, StaleNodes, StaleSections, SectionsIn,
              OfSource, Inv, StillFresh
<1>3. /\ Good(g, fs) /\ ExactBut(g, {})
      /\ Same(db, g, {"documents", "place"})
      /\ g.documents = db.documents \cup b.documents
      /\ \A c \in Sections : g.place[c] = IF b.place[c] # None THEN b.place[c] ELSE db.place[c]
  BY <1>0, PlaceBundle
<1> HIDE DEF g, fs
<1>4. /\ Good(g1, fs \cup ids) /\ ExactBut(g1, {})
      /\ Same(g, g1, {"nodes", "sourceNodes", "documentNodes", "sourceEdges"})
      /\ NodesIn(g1) = NodesIn(g) \cup ids
      /\ \A n \in Nodes \ ids : g1.nodes[n] = g.nodes[n]
      /\ \A n \in ids : \E i \in b.nodes :
            i.node = n /\ g1.nodes[n].source = i.source /\ g1.nodes[n].document = i.document
  <2>1. s \in g.sources \cup {None}
    BY <1>0, <1>3 DEF Same
  <2>2. /\ Good(g, fs) /\ fs \subseteq Nodes /\ ExactBut(g, {})
        /\ b.nodes \in SUBSET NodeInput
        /\ \A i \in b.nodes : Writable(i, s)
    BY <1>1, <1>2, <1>3
  <2>3. /\ Good(g1, fs \cup ids) /\ ExactBut(g1, {})
        /\ Same(g, g1, {"nodes", "sourceNodes", "documentNodes", "sourceEdges"})
        /\ Wrote(g, g1, b.nodes)
    BY <2>1, <2>2, WriteNodesKeeps
  <2> HIDE DEF g1
  <2> QED BY <2>3 DEF Wrote
<1> HIDE DEF g1
<1>5. \A i \in b.edges : Insertable(g1, i)
  <2> SUFFICES ASSUME NEW i \in b.edges PROVE Insertable(g1, i)
    OBVIOUS
  <2>1. {i.src, i.dst} \subseteq ids /\ i.evidence \in SectionsOf(b.place) \cup {None}
    BY <1>0 DEF WellFormed
  <2>2. i.evidence # None => g1.place[i.evidence] # None
    BY <1>3, <1>4, <2>1 DEF Same, SectionsOf
  <2> QED BY <1>4, <2>1, <2>2 DEF Insertable
<1>6. Good(g2, fs \cup ids) /\ ExactBut(g2, {}) /\ Same(g1, g2, {"edges", "sourceEdges"})
  <2>1. s \in g1.sources \cup {None}
    BY <1>0, <1>3, <1>4 DEF Same
  <2> QED BY <1>2, <1>4, <1>5, <2>1, WriteEdgesKeeps
<1> HIDE DEF g2, es
<1>7. Good(g3, fs \cup ids) /\ ExactBut(g3, {}) /\ Same(g2, g3, {"edges", "sourceEdges"})
  BY <1>2, <1>6, DropEdgesKeeps, DropEdgesEffect DEF Good
<1> HIDE DEF g3, ns
<1>8. /\ Good(g4, fs \cup ids) /\ ExactBut(g4, {})
      /\ Same(g3, g4, {"nodes", "edges", "sourceNodes", "documentNodes", "sourceEdges"})
      /\ \A n \in Nodes : g4.nodes[n] = IF n \in ns THEN NoNode ELSE g3.nodes[n]
  <2>1. Good(g4, fs \cup ids) /\ ExactBut(g4, {})
    BY <1>2, <1>7, DropNodesKeeps
  <2>2. /\ Same(DropEdges(g3, Incident(g3, ns)), g4, {"nodes", "sourceNodes", "documentNodes"})
        /\ \A n \in Nodes : g4.nodes[n] = IF n \in ns THEN NoNode ELSE g3.nodes[n]
    BY <1>2, <1>7, DropNodesEffect DEF Good
  <2>3. Same(g3, DropEdges(g3, Incident(g3, ns)), {"edges", "sourceEdges"})
    BY <1>7, DropEdgesEffect DEF Good, Incident
  <2> QED BY <2>1, <2>2, <2>3 DEF Same
<1> HIDE DEF g4, cs
<1>9. /\ Good(g5, fs \cup ids) /\ ExactBut(g5, {})
      /\ Same(g4, g5, {"place", "edges", "sourceEdges"})
      /\ \A c \in Sections : g5.place[c] = IF c \in cs THEN None ELSE g4.place[c]
  BY <1>2, <1>8, DropSectionsKeeps
<1>10. g5.documents = db.documents \cup b.documents /\ g5.sources = db.sources
  BY <1>3, <1>4, <1>6, <1>7, <1>8, <1>9 DEF Same
<1>11. Proving(g5, SectionsIn(g5, ds)) = {}
  <2>1. ASSUME NEW c \in Sections, g5.place[c] \in ds PROVE FALSE
    <3>1. g5.place[c] = g.place[c] /\ c \notin cs
      BY <1>2, <1>4, <1>6, <1>7, <1>8, <1>9, <2>1, NullAssumption DEF Same
    <3>2. CASE b.place[c] # None
      BY <1>0, <1>3, <2>1, <3>1, <3>2 DEF WellFormed, SectionsOf
    <3>3. CASE b.place[c] = None
      <4>1. db.place[c] \in OfSource(s)
        BY <1>3, <2>1, <3>1, <3>3
      <4> QED BY <3>1, <3>3, <4>1 DEF cs, StaleSections, SectionsIn, SectionsOf
    <3> QED BY <3>2, <3>3
  <2> QED BY <2>1 DEF Proving, SectionsIn
<1> HIDE DEF g5
<1>12. /\ Good(g6, fs \cup ids) /\ ExactBut(g6, {})
       /\ g6.documents = g5.documents \ ds
       /\ Same(g5, g6, {"documents", "documentNodes", "place", "edges"})
  <2>1. /\ Good(g6, fs \cup ids) /\ ExactBut(g6, {})
        /\ Same(CascadeSections(g5, SectionsIn(g5, ds)), g6, {"documents", "documentNodes"})
        /\ g6.documents = g5.documents \ ds
    <3>1. Typed(g5) /\ ds \in SUBSET Documents
      BY <1>2, <1>9 DEF Good
    <3>2. Good(g6, fs \cup ids) /\ ExactBut(g6, {})
      <4> HIDE DEF ds
      <4> QED BY <1>9, <1>11, <3>1, CascadeDocumentsKeeps
    <3>3. /\ Same(CascadeSections(g5, SectionsIn(g5, ds)), g6, {"documents", "documentNodes"})
          /\ g6.documents = g5.documents \ ds
      <4> HIDE DEF ds
      <4> QED BY <3>1, CascadeDocumentsEffect
    <3> QED BY <3>2, <3>3
  <2>2. Same(g5, CascadeSections(g5, SectionsIn(g5, ds)), {"place", "edges"})
    BY <1>9, CascadeSectionsEffect DEF Good, SectionsIn
  <2> QED BY <2>1, <2>2 DEF Same
<1> HIDE DEF g6, ds, ids
<1>13. ASSUME NEW n \in NodesIn(g6)
       PROVE  \/ n \notin ids /\ g6.nodes[n] = db.nodes[n] /\ db.nodes[n].owner # s
              \/ g6.nodes[n].document \in b.documents \cup {None}
  <2>1. n \in Nodes /\ n \notin ns /\ g6.nodes[n] = g2.nodes[n] /\ g2.nodes[n] = g1.nodes[n]
    BY <1>6, <1>7, <1>8, <1>9, <1>12 DEF Same, NodesIn
  <2>2. CASE n \in ids
    BY <1>1, <1>4, <2>1, <2>2
  <2>3. CASE n \notin ids
    BY <1>3, <1>4, <2>1, <2>3 DEF ns, StaleNodes, ids, Same
  <2> QED BY <2>2, <2>3
<1> QED BY <1>0, <1>2, <1>10, <1>12, <1>13 DEF Inv, Same, ds, ids

LEMMA ReplaceDocumentGrows ==
    ASSUME Inv, NEW d \in Documents, NEW text \in Texts[d], ReplaceDocument(d, text)
    PROVE  db'.sources = db.sources /\ db.documents \subseteq db'.documents
<1> DEFINE g == DropSections(db, SectionsIn(db, {d}))
<1>1. g.sources = db.sources /\ g.documents = db.documents
  BY DropSectionsKeeps DEF Inv, SectionsIn, Same
<1>2. Typed(g)
  BY DropSectionsKeeps DEF Inv, Good, SectionsIn
<1> HIDE DEF g
<1>3. db' = [g EXCEPT !.documents = @ \cup {d},
                      !.place = [c \in Sections |-> IF c \in text THEN d ELSE g.place[c]]]
  BY DEF ReplaceDocument, g
<1> QED BY <1>1, <1>2, <1>3 DEF Typed

LEMMA InvStep == Inv /\ [Next]_vars => Inv'
<1> SUFFICES ASSUME Inv, [Next]_vars PROVE Inv'
  OBVIOUS
<1>1. CASE UNCHANGED vars
  BY <1>1 DEF vars, Inv, Good, Typed, Keyed, Sound, RowsTrue, RowsThere, NodeRef, ExactBut,
              EdgeRef, SectionsOf, EdgesIn, NodesIn, Ends
<1>2. CASE \E s \in Sources : CreateSource(s) \/ DeleteSource(s)
  BY <1>2, CreateSourceKeeps, DeleteSourceKeeps
<1>3. CASE \E d \in Documents : \E text \in Texts[d] : ReplaceDocument(d, text)
  BY <1>3, ReplaceDocumentKeeps
<1>4. CASE \E s \in Sources \ Workbooks : \E ds \in SUBSET OfSource(s) : DeleteStale(ds)
  BY <1>4, DeleteStaleKeeps DEF OfSource
<1>5. CASE \E i \in NodeInputs : UpsertNode(i)
  BY <1>5, UpsertNodeEffect
<1>6. CASE \E i \in EdgeInputs \cup Feedback : UpsertEdge(i)
  BY <1>6, UpsertEdgeEffect
<1>7. CASE \E i \in Merges : NodeMerge(i)
  BY <1>7, NodeMergeEffect
<1>8. CASE \E s \in Workbooks : \E b \in Bundles[s] : ReplaceWorkbookBundle(s, b)
  BY <1>8, BundleEffect
<1> QED BY <1>1, <1>2, <1>3, <1>4, <1>5, <1>6, <1>7, <1>8 DEF Next

LEMMA Inductive == Spec => []Inv
<1>1. Init => Inv
  BY InvInit
<1>2. Inv /\ [Next]_vars => Inv'
  BY InvStep
<1> QED BY <1>1, <1>2, PTL DEF Spec

-----------------------------------------------------------------------------
(* The database keeps to its types and its foreign keys, whatever the order of
   the transactions. *)
THEOREM TypeCorrect == Spec => []TypeOK
<1>1. Inv => TypeOK
  BY DEF Inv, Good, TypeOK
<1> QED BY <1>1, Inductive, PTL

(* After every transaction each edge belongs to exactly the sources that its owner,
   its evidence and its ends' metadata say: those that touch one of these find
   every edge concerned. *)
THEOREM EdgesFollowAlways == Spec => []EdgesFollow
<1>1. Inv => EdgesFollow
  <2> SUFFICES ASSUME Inv PROVE db.sourceEdges = EdgeRefs(db, Edges)
    BY DEF EdgesFollow
  <2>1. /\ db.sourceEdges \subseteq Sources \X Edges \X EdgeMask
        /\ EdgeRefs(db, Edges) \subseteq Sources \X Edges \X EdgeMask
    BY DEF Inv, Good, Typed, EdgeMask, EdgeRefs
  <2>2. \A s \in Sources, e \in Edges, ref \in EdgeMask :
           <<s, e, ref>> \in db.sourceEdges <=> <<s, e, ref>> \in EdgeRefs(db, Edges)
    BY EdgeRefsMember DEF Inv, ExactBut
  <2> QED BY <2>1, <2>2
<1> QED BY <1>1, Inductive, PTL

(* After every transaction the memberships of nodes hold no wrong row, and lack only
   rows of nodes written before their source or document was created. *)
THEOREM NodesFollowAlways == Spec => []NodesFollow
<1>1. Inv => NodesFollow
  <2> SUFFICES ASSUME Inv PROVE NodesFollow
    OBVIOUS
  <2>1. db.sourceNodes \subseteq NodeRefs(db, Nodes)
    <3>1. db.sourceNodes \subseteq Sources \X Nodes \X NodeMask
      BY DEF Inv, Good, Typed, NodeMask
    <3>2. \A s \in Sources, n \in Nodes, ref \in NodeMask :
             <<s, n, ref>> \in db.sourceNodes => <<s, n, ref>> \in NodeRefs(db, Nodes)
      BY NodeRefsMember DEF Inv, Good, RowsTrue
    <3> QED BY <3>1, <3>2
  <2>2. db.documentNodes \subseteq DocumentRefs(db, Nodes)
    <3>1. db.documentNodes \subseteq Documents \X Nodes
      BY DEF Inv, Good, Typed
    <3>2. \A d \in Documents, n \in Nodes :
             <<d, n>> \in db.documentNodes => <<d, n>> \in DocumentRefs(db, Nodes)
      BY DocumentRefsMember DEF Inv, Good, RowsTrue
    <3> QED BY <3>1, <3>2
  <2>3. NodeRefs(db, fresh) \subseteq db.sourceNodes
    <3>1. NodeRefs(db, fresh) \subseteq Sources \X fresh \X NodeMask
      BY DEF NodeRefs, NodeMask
    <3>2. \A s \in Sources, n \in fresh, ref \in NodeMask :
             <<s, n, ref>> \in NodeRefs(db, fresh) => <<s, n, ref>> \in db.sourceNodes
      BY NodeRefsMember DEF Inv, Good, RowsThere
    <3> QED BY <3>1, <3>2
  <2>4. DocumentRefs(db, fresh) \subseteq db.documentNodes
    <3>1. DocumentRefs(db, fresh) \subseteq Documents \X fresh
      BY DEF DocumentRefs
    <3>2. \A d \in Documents, n \in fresh :
             <<d, n>> \in DocumentRefs(db, fresh) => <<d, n>> \in db.documentNodes
      BY DocumentRefsMember DEF Inv, Good, RowsThere
    <3> QED BY <3>1, <3>2
  <2> QED BY <2>1, <2>2, <2>3, <2>4 DEF NodesFollow
<1> QED BY <1>1, Inductive, PTL

Takes ==
    \A n \in fresh \cap NodesIn(db)' :
        /\ db.nodes[n].source \notin db.sources \ db'.sources
        /\ db'.nodes[n].document \notin db.documents \ db'.documents

LEMMA DeleteSourceTakes == ASSUME Inv, NEW s \in Sources, DeleteSource(s) PROVE Takes
<1> SUFFICES ASSUME NEW n \in fresh \cap NodesIn(db')
             PROVE  /\ db.nodes[n].source # s
                    /\ db'.nodes[n].document \notin OfSource(s)
  BY DeleteSourceEffect DEF Takes
<1>1. n \in fresh /\ n \in Nodes /\ s \in db.sources /\ s # None
  BY NullAssumption DEF Inv, DeleteSource
<1>2. /\ n \notin OwnedBySource(db, s) /\ db.nodes[n].owner # s
      /\ db'.nodes[n] = db.nodes[n] /\ db.nodes[n] # NoNode
  BY <1>1, DeleteSourceEffect DEF NodesIn
<1>3. db.nodes[n].source # s
  <2> SUFFICES ASSUME db.nodes[n].source = s PROVE FALSE
    OBVIOUS
  <2>1. <<s, n, "metadata">> \in db.sourceNodes
    BY <1>1 DEF Inv, Good, RowsThere, NodeRef, NodeMask
  <2>2. db.nodes[n].owner = None
    BY <1>1, <1>2 DEF Inv, Good, Sound
  <2> QED BY <1>1, <1>2, <2>1, <2>2 DEF OwnedBySource, NodesIn
<1>4. db'.nodes[n].document \notin OfSource(s)
  BY <1>1, <1>2, <1>3, NullAssumption DEF Inv, Good, Sound, OfSource
<1> QED BY <1>3, <1>4

LEMMA DeleteStaleTakes == ASSUME Inv, NEW ds \in SUBSET Documents, DeleteStale(ds) PROVE Takes
<1> SUFFICES ASSUME NEW n \in fresh \cap NodesIn(db'), db'.nodes[n].document \in ds \cap db.documents
             PROVE  FALSE
  BY DeleteStaleEffect DEF Takes
<1> DEFINE d == db.nodes[n].document
<1>1. n \in Nodes /\ n \in NodesIn(db) /\ db'.nodes[n] = db.nodes[n] /\ n \notin OwnedByDocuments(db, ds)
  BY DeleteStaleEffect DEF NodesIn
<1>2. d \in ds \cap db.documents /\ <<d, n>> \in db.documentNodes
  BY <1>1 DEF Inv, Good, RowsThere
<1>3. db.nodes[n].owner \in {None, SourceOf[d]}
  BY <1>1, <1>2, NullAssumption, KeysAssumption DEF Inv, Good, Sound
<1> QED BY <1>1, <1>2, <1>3 DEF OwnedByDocuments

LEMMA BundleTakes ==
    ASSUME Inv, NEW s \in Workbooks, NEW b \in Bundles[s], ReplaceWorkbookBundle(s, b)
    PROVE  Takes
<1> SUFFICES ASSUME NEW n \in fresh \cap NodesIn(db'),
                    db'.nodes[n].document \in db.documents \ db'.documents
             PROVE  FALSE
  BY BundleEffect DEF Takes
<1>1. /\ db'.nodes[n].document \in OfSource(s) /\ db'.nodes[n].document \notin b.documents \cup {None}
      /\ n \in Nodes
  BY BundleEffect, NullAssumption DEF NodesIn, OfSource
<1>2. db'.nodes[n] = db.nodes[n] /\ db.nodes[n].owner # s
  BY <1>1, BundleEffect
<1>3. db.nodes[n].source = s
  BY <1>1, <1>2, NullAssumption DEF Inv, Good, Sound, OfSource
<1> QED BY <1>1, <1>2, <1>3 DEF Inv, Good, Sound

(* A node written since its source and its document were created goes with either of
   them, as long as it names it. *)
THEOREM GoneTakes == Spec => GoneTakesItsNodes
<1>1. Inv /\ [Next]_vars => [Takes]_vars
  <2> SUFFICES ASSUME Inv, Next PROVE Takes
    OBVIOUS
  <2>1. ASSUME NEW s \in Sources, CreateSource(s) PROVE Takes
    BY <2>1 DEF CreateSource, Takes, Inv, Good, Typed
  <2>2. ASSUME NEW d \in Documents, NEW text \in Texts[d], ReplaceDocument(d, text) PROVE Takes
    BY <2>2, ReplaceDocumentGrows DEF Takes
  <2>3. ASSUME NEW s \in Sources, DeleteSource(s) PROVE Takes
    BY <2>3, DeleteSourceTakes
  <2>4. ASSUME NEW s \in Sources, NEW ds \in SUBSET OfSource(s), DeleteStale(ds) PROVE Takes
    BY <2>4, DeleteStaleTakes DEF OfSource
  <2>5. ASSUME NEW i \in NodeInputs, UpsertNode(i) PROVE Takes
    BY <2>5, UpsertNodeEffect DEF Takes
  <2>6. ASSUME NEW i \in EdgeInputs \cup Feedback, UpsertEdge(i) PROVE Takes
    BY <2>6, UpsertEdgeEffect DEF Takes, Same
  <2>7. ASSUME NEW i \in Merges, NodeMerge(i) PROVE Takes
    BY <2>7, NodeMergeEffect DEF Takes, Same
  <2>8. ASSUME NEW s \in Workbooks, NEW b \in Bundles[s], ReplaceWorkbookBundle(s, b) PROVE Takes
    BY <2>8, BundleTakes
  <2> QED BY <2>1, <2>2, <2>3, <2>4, <2>5, <2>6, <2>7, <2>8 DEF Next
<1> QED BY <1>1, Inductive, PTL DEF Spec, Takes, GoneTakesItsNodes
=============================================================================
