-------------------------- MODULE GraphMemberships --------------------------
(***************************************************************************)
(* The graph's membership tables: which sources a node and an edge belong  *)
(* to, and which document a node.  They are a materialised view: what they *)
(* must say is computed from nodes, edges, sections and documents, and     *)
(* every transaction that writes one of these recomputes the rows it thinks*)
(* it touched.  Deleting a source or a document trusts them.               *)
(*                                                                         *)
(* Every action is one transaction of the store; the operators it is       *)
(* composed of take and return the whole content of the database `g`, and  *)
(* include what foreign keys cascade.  A row's ref_mask is a set of        *)
(* triples: <<source, node, reference>>.  Names, kinds, confidences and    *)
(* the search indexes beside nodes and sections are left out.              *)
(***************************************************************************)

CONSTANTS
    Sources,
    Workbooks,   \* the XMind sources, which write their graph as one bundle
    Documents,
    SourceOf,    \* document -> its source
    Sections,
    Nodes,
    Edges,
    Home,        \* node or section -> the source its id is derived from
    None,
    Texts,       \* document -> the sets of sections it may be parsed into
    NodeInputs,  \* what syncs upsert: [node, source, document], from metadata_json
    EdgeInputs,  \* what syncs upsert: [edge, src, dst, evidence]
    Feedback,    \* edges API users may add: [edge, src, dst, evidence]
    Merges,      \* edges of node merges: [edge, src, dst]
    Bundles      \* workbook -> what it may hold: [documents, place, nodes, edges]

OfSource(s) == {d \in Documents : SourceOf[d] = s}

SectionsOf(place) == {c \in Sections : place[c] # None}

NodeIds(inputs) == {i.node : i \in inputs}
EdgeIds(inputs) == {i.edge : i \in inputs}

NodeInput == [node: Nodes, source: Sources \cup {None}, document: Documents \cup {None}]
EdgeInput == [edge: Edges, src: Nodes, dst: Nodes, evidence: Sections \cup {None}]

Bundle == [documents: SUBSET Documents, place: [Sections -> Documents \cup {None}],
           nodes: SUBSET NodeInput, edges: SUBSET EdgeInput]

ASSUME NullAssumption ==
    None \notin Sources \cup Documents \cup Sections \cup Nodes \cup Edges

ASSUME KeysAssumption ==
    /\ Workbooks \subseteq Sources
    /\ SourceOf \in [Documents -> Sources]
    /\ Home \in [Nodes \cup Sections -> Sources]

(* A node's metadata names the source its id is derived from, if any, and a
   document of that source, if any. *)
Homely(i) ==
    /\ i.source \in {None, Home[i.node]}
    /\ i.document # None => i.source = SourceOf[i.document]

ASSUME InputsAssumption ==
    /\ Texts \in [Documents -> SUBSET SUBSET Sections]
    /\ \A d \in Documents : \A text \in Texts[d] : \A c \in text : Home[c] = SourceOf[d]
    /\ NodeInputs \subseteq NodeInput
    /\ \A i \in NodeInputs : Homely(i) /\ i.source \in Sources \ Workbooks
    /\ EdgeInputs \subseteq EdgeInput
    /\ Feedback \subseteq EdgeInput
    /\ Merges \subseteq [edge: Edges, src: Nodes, dst: Nodes]
    /\ Bundles \in [Workbooks -> SUBSET Bundle]
    /\ \A s \in Workbooks : \A b \in Bundles[s] :
          /\ b.documents \subseteq OfSource(s)
          /\ \A c \in SectionsOf(b.place) : Home[c] = s
          /\ \A i \in b.nodes :
                Homely(i) /\ Home[i.node] = s /\ i.document \in b.documents \cup {None}

VARIABLES
    db,      \* the database
    fresh    \* history: the nodes written since their source and document were created

vars == <<db, fresh>>

-----------------------------------------------------------------------------
(* Rows *)

NoNode == [source |-> None, document |-> None, owner |-> None]

NoEdge == [src |-> None, dst |-> None, evidence |-> None, owner |-> None]

NodesIn(g) == {n \in Nodes : g.nodes[n] # NoNode}

EdgesIn(g) == {e \in Edges : g.edges[e] # NoEdge}

Ends(g, e) == {g.edges[e].src, g.edges[e].dst}

Incident(g, ns) == {e \in Edges : Ends(g, e) \cap ns # {}}

Proving(g, cs) == {e \in Edges : g.edges[e].evidence \in cs}

-----------------------------------------------------------------------------
(* What the membership tables must say: rebuildGraphMemberships *)

NodeRef(g, s, n, ref) ==
    \/ ref = "owner" /\ g.nodes[n].owner = s
    \/ ref = "metadata" /\ g.nodes[n].source = s /\ s \in g.sources

NodeRefs(g, ns) ==
    {m \in Sources \X ns \X {"owner", "metadata"} : NodeRef(g, m[1], m[2], m[3])}

DocumentRefs(g, ns) ==
    {m \in Documents \X ns : g.nodes[m[2]].document = m[1] /\ m[1] \in g.documents}

EdgeRef(g, s, e, ref) ==
    \/ ref = "owner" /\ g.edges[e].owner = s
    \/ /\ ref = "evidence"
       /\ g.edges[e].evidence # None
       /\ SourceOf[g.place[g.edges[e].evidence]] = s
    \/ ref = "src" /\ <<s, g.edges[e].src, "metadata">> \in g.sourceNodes
    \/ ref = "dst" /\ <<s, g.edges[e].dst, "metadata">> \in g.sourceNodes

EdgeRefs(g, es) ==
    {m \in Sources \X es \X {"owner", "evidence", "src", "dst"} : EdgeRef(g, m[1], m[2], m[3])}

-----------------------------------------------------------------------------
(* Recomputing rows *)

(* replaceEdgeMembershipsTx *)
RefreshEdges(g, es) ==
    [g EXCEPT !.sourceEdges = {m \in @ : m[2] \notin es} \cup EdgeRefs(g, es)]

MetadataSources(g, n) == {s \in Sources : <<s, n, "metadata">> \in g.sourceNodes}

(* A mutated form: what the node belonged to before is kept. *)
AddNodeRows(g, ns) ==
    [g EXCEPT !.sourceNodes = @ \cup NodeRefs(g, ns),
              !.documentNodes = @ \cup DocumentRefs(g, ns)]

(* The first half of replaceNodeMembershipsTx: the node's own rows. *)
ReplaceNodeRows(g, ns) ==
    [g EXCEPT !.sourceNodes = {m \in @ : m[2] \notin ns} \cup NodeRefs(g, ns),
              !.documentNodes = {m \in @ : m[2] \notin ns} \cup DocumentRefs(g, ns)]

(* A mutated form: the incident edges are left as they are. *)
RefreshNodesAlone(g, ns) == ReplaceNodeRows(g, ns)

(* replaceNodeMembershipsTx: edges follow the nodes whose sources changed. *)
RefreshNodes(g, ns) ==
    LET h == ReplaceNodeRows(g, ns)
        moved == {n \in ns : MetadataSources(h, n) # MetadataSources(g, n)} IN
    RefreshEdges(h, Incident(h, moved))

-----------------------------------------------------------------------------
(* Deleting rows, with what foreign keys delete or set to null *)

DropEdges(g, es) ==
    [g EXCEPT !.edges = [e \in Edges |-> IF e \in es THEN NoEdge ELSE g.edges[e]],
              !.sourceEdges = {m \in @ : m[2] \notin es}]

(* A mutated form: without the foreign keys of edges to their ends. *)
DropNodesAlone(g, ns) ==
    [g EXCEPT !.nodes = [n \in Nodes |-> IF n \in ns THEN NoNode ELSE g.nodes[n]],
              !.sourceNodes = {m \in @ : m[2] \notin ns},
              !.documentNodes = {m \in @ : m[2] \notin ns}]

DropNodes(g, ns) ==
    [DropEdges(g, Incident(g, ns)) EXCEPT
        !.nodes = [n \in Nodes |-> IF n \in ns THEN NoNode ELSE g.nodes[n]],
        !.sourceNodes = {m \in @ : m[2] \notin ns},
        !.documentNodes = {m \in @ : m[2] \notin ns}]

(* Evidence is set to null with its section. *)
CascadeSections(g, cs) ==
    [g EXCEPT !.place = [c \in Sections |-> IF c \in cs THEN None ELSE g.place[c]],
              !.edges = [e \in Edges |-> IF e \in Proving(g, cs)
                                           THEN [g.edges[e] EXCEPT !.evidence = None]
                                           ELSE g.edges[e]]]

SectionsIn(g, ds) == {c \in Sections : g.place[c] \in ds}

CascadeDocuments(g, ds) ==
    [CascadeSections(g, SectionsIn(g, ds)) EXCEPT
        !.documents = @ \ ds,
        !.documentNodes = {m \in @ : m[1] \notin ds}]

(* The nodes and edges the source owns, its documents and its memberships. *)
CascadeSource(g, s) ==
    LET nodesOwned == {n \in Nodes : g.nodes[n].owner = s}
        edgesOwned == {e \in Edges : g.edges[e].owner = s} IN
    [CascadeDocuments(DropNodes(DropEdges(g, edgesOwned), nodesOwned), OfSource(s)) EXCEPT
        !.sources = @ \ {s},
        !.sourceNodes = {m \in @ : m[1] # s},
        !.sourceEdges = {m \in @ : m[1] # s}]

(* Sections go and the edges they were evidence of, looked up before, are refreshed. *)
DropSections(g, cs) == RefreshEdges(CascadeSections(g, cs), Proving(g, cs))

(* A mutated form: the other reference. *)
OwnedBySourceByOwner(g, s) == {n \in NodesIn(g) : g.nodes[n].owner = s}

(* effectiveSourceOwnedNodeIDsSQL, effectiveDocumentOwnedNodeIDsSQL *)
OwnedBySource(g, s) ==
    {n \in NodesIn(g) :
        \/ g.nodes[n].owner = s
        \/ g.nodes[n].owner = None /\ <<s, n, "metadata">> \in g.sourceNodes}

OwnedByDocuments(g, ds) ==
    {n \in NodesIn(g) : \E d \in ds \cap g.documents :
        <<d, n>> \in g.documentNodes /\ g.nodes[n].owner \in {None, SourceOf[d]}}

-----------------------------------------------------------------------------
(* Writing rows *)

(* A node keeps the owner it has, unless its workbook claims it. *)
PutNodes(g, inputs, owner) ==
    [g EXCEPT !.nodes = [n \in Nodes |->
        IF n \in NodeIds(inputs)
          THEN LET i == CHOOSE i \in inputs : i.node = n IN
               [source |-> i.source, document |-> i.document,
                owner |-> IF owner = None THEN g.nodes[n].owner ELSE owner]
          ELSE g.nodes[n]]]

PutEdges(g, inputs, owner) ==
    [g EXCEPT !.edges = [e \in Edges |->
        IF e \in EdgeIds(inputs)
          THEN LET i == CHOOSE i \in inputs : i.edge = e IN
               [src |-> i.src, dst |-> i.dst, evidence |-> i.evidence,
                owner |-> IF owner = None THEN g.edges[e].owner ELSE owner]
          ELSE g.edges[e]]]

WriteNodes(g, inputs, owner) == RefreshNodes(PutNodes(g, inputs, owner), NodeIds(inputs))

WriteEdges(g, inputs, owner) == RefreshEdges(PutEdges(g, inputs, owner), EdgeIds(inputs))

(* Both ends and the evidence are foreign keys. *)
Insertable(g, i) ==
    {i.src, i.dst} \subseteq NodesIn(g) /\ (i.evidence # None => g.place[i.evidence] # None)

-----------------------------------------------------------------------------
(* Transactions *)

(* An upsert: a source that is there is only edited. *)
CreateSource(s) ==
    /\ s \notin db.sources
    /\ db' = [db EXCEPT !.sources = @ \cup {s}]
    /\ fresh' = {n \in fresh : db.nodes[n].source # s}

DeleteSource(s) ==
    /\ s \in db.sources
    /\ db' = CascadeSource(DropNodes(db, OwnedBySource(db, s)), s)
    /\ UNCHANGED fresh

(* Section ids are primary keys, and a document needs its source. *)
ReplaceDocument(d, text) ==
    /\ SourceOf[d] \in db.sources \ Workbooks
    /\ \A c \in text : db.place[c] \in {None, d}
    /\ LET g == DropSections(db, SectionsIn(db, {d})) IN
       db' = [g EXCEPT !.documents = @ \cup {d},
                       !.place = [c \in Sections |-> IF c \in text THEN d ELSE g.place[c]]]
    /\ fresh' = {n \in fresh : d \in db.documents \/ db.nodes[n].document # d}

(* DeleteDocumentsNotInSource: the list was read before, so some of the documents
   may have gone since. *)
DeleteStale(ds) ==
    /\ LET g == DropNodes(db, OwnedByDocuments(db, ds)) IN
       db' = RefreshEdges(CascadeDocuments(g, ds), Proving(db, SectionsIn(db, ds)))
    /\ UNCHANGED fresh

UpsertNode(i) ==
    /\ db' = WriteNodes(db, {i}, None)
    /\ fresh' = fresh \cup {i.node}

UpsertEdge(i) ==
    /\ Insertable(db, i)
    /\ db' = WriteEdges(db, {i}, None)
    /\ UNCHANGED fresh

(* applyNodeMerge: evidence that is there stays. *)
NodeMerge(i) ==
    /\ {i.src, i.dst} \subseteq NodesIn(db)
    /\ db' = WriteEdges(db, {[edge |-> i.edge, src |-> i.src, dst |-> i.dst,
                              evidence |-> db.edges[i.edge].evidence]}, None)
    /\ UNCHANGED fresh

(* normalizeWorkbookBundle refuses dangling and duplicate ids. *)
WellFormed(b) ==
    /\ b.documents # {} /\ SectionsOf(b.place) # {}
    /\ \A c \in SectionsOf(b.place) : b.place[c] \in b.documents
    /\ \A i, j \in b.nodes : i.node = j.node => i = j
    /\ \A i, j \in b.edges : i.edge = j.edge => i = j
    /\ \A i \in b.edges :
          {i.src, i.dst} \subseteq NodeIds(b.nodes) /\ i.evidence \in SectionsOf(b.place) \cup {None}

(* Documents and sections first, so that a section can move between documents;
   then nodes and edges; then what the workbook owns and no longer holds. *)
WriteBundle(s, b) ==
    LET placed == [db EXCEPT !.documents = @ \cup b.documents,
                             !.place = [c \in Sections |->
                                IF b.place[c] # None THEN b.place[c] ELSE db.place[c]]] IN
    WriteEdges(WriteNodes(placed, b.nodes, s), b.edges, s)

StaleEdges(g, s, b) == {e \in Edges : g.edges[e].owner = s} \ EdgeIds(b.edges)

StaleNodes(g, s, b) == {n \in Nodes : g.nodes[n].owner = s} \ NodeIds(b.nodes)

StaleSections(s, b) == SectionsIn(db, OfSource(s)) \ SectionsOf(b.place)

ReplaceWorkbookBundle(s, b) ==
    /\ s \in db.sources
    /\ WellFormed(b)
    /\ LET g == WriteBundle(s, b)
           owned == DropNodes(DropEdges(g, StaleEdges(g, s, b)), StaleNodes(g, s, b)) IN
       db' = CascadeDocuments(DropSections(owned, StaleSections(s, b)), OfSource(s) \ b.documents)
    /\ fresh' = {n \in fresh : db.nodes[n].document \notin b.documents \ db.documents}
                   \cup NodeIds(b.nodes)

-----------------------------------------------------------------------------

Init ==
    /\ db = [sources |-> {}, documents |-> {}, place |-> [c \in Sections |-> None],
             nodes |-> [n \in Nodes |-> NoNode], edges |-> [e \in Edges |-> NoEdge],
             sourceNodes |-> {}, documentNodes |-> {}, sourceEdges |-> {}]
    /\ fresh = {}

Next ==
    \/ \E s \in Sources : CreateSource(s) \/ DeleteSource(s)
    \/ \E d \in Documents : \E text \in Texts[d] : ReplaceDocument(d, text)
    \/ \E s \in Sources \ Workbooks : \E ds \in SUBSET OfSource(s) : DeleteStale(ds)
    \/ \E i \in NodeInputs : UpsertNode(i)
    \/ \E i \in EdgeInputs \cup Feedback : UpsertEdge(i)
    \/ \E i \in Merges : NodeMerge(i)
    \/ \E s \in Workbooks : \E b \in Bundles[s] : ReplaceWorkbookBundle(s, b)

Spec == Init /\ [][Next]_vars

-----------------------------------------------------------------------------
(* Properties *)

NodeRow == [source: Sources \cup {None}, document: Documents \cup {None}, owner: Sources \cup {None}]

EdgeRow == [src: Nodes \cup {None}, dst: Nodes \cup {None}, evidence: Sections \cup {None},
            owner: Sources \cup {None}]

Typed(g) ==
    /\ g \in [sources: SUBSET Sources, documents: SUBSET Documents,
              place: [Sections -> Documents \cup {None}],
              nodes: [Nodes -> NodeRow], edges: [Edges -> EdgeRow],
              sourceNodes: SUBSET (Sources \X Nodes \X {"owner", "metadata"}),
              documentNodes: SUBSET (Documents \X Nodes),
              sourceEdges: SUBSET (Sources \X Edges \X {"owner", "evidence", "src", "dst"})]

(* The foreign keys. *)
Keyed(g) ==
    /\ \A d \in g.documents : SourceOf[d] \in g.sources
    /\ \A c \in SectionsOf(g.place) : g.place[c] \in g.documents
    /\ \A n \in Nodes : g.nodes[n].owner \in g.sources \cup {None}
    /\ \A e \in EdgesIn(g) :
          /\ Ends(g, e) \subseteq NodesIn(g)
          /\ g.edges[e].evidence \in SectionsOf(g.place) \cup {None}
          /\ g.edges[e].owner \in g.sources \cup {None}

TypeOK == Typed(db) /\ Keyed(db) /\ fresh \subseteq Nodes

(* The source memberships of edges are exactly what replaceEdgeMembershipsTx would
   compute now, of all edges: no transaction forgets one whose evidence, end or
   end's source it changed. *)
EdgesFollow == db.sourceEdges = EdgeRefs(db, Edges)

(* No row of a node's memberships is wrong, and only the creation of the node's
   source or document after the node was written can make one be missing. *)
NodesFollow ==
    /\ db.sourceNodes \subseteq NodeRefs(db, Nodes)
    /\ db.documentNodes \subseteq DocumentRefs(db, Nodes)
    /\ NodeRefs(db, fresh) \subseteq db.sourceNodes
    /\ DocumentRefs(db, fresh) \subseteq db.documentNodes

(* A node whose memberships are fresh never outlives the source it names, nor the
   document it still names: whatever deletes these finds the node. *)
GoneTakesItsNodes ==
    [][\A n \in fresh \cap NodesIn(db)' :
          /\ db.nodes[n].source \notin db.sources \ db'.sources
          /\ db'.nodes[n].document \notin db.documents \ db'.documents]_vars
=============================================================================
