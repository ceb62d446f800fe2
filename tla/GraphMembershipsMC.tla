------------------------- MODULE GraphMembershipsMC -------------------------
(* A plain source of two documents beside a workbook of two sheets. *)
EXTENDS GraphMemberships, TLC

CONSTANTS site, map, page, guide, sheet1, sheet2, intro, usage, setup, topic,
          pageNode, guideNode, apiNode, topicNode, linkNode, mentions, links, related

DocumentSource == page :> site @@ guide :> site @@ sheet1 :> map @@ sheet2 :> map

IdSource == [x \in Nodes \cup Sections |-> IF x \in {topic, topicNode, linkNode} THEN map ELSE site]

(* The page loses a section and gains it back. *)
PageTexts ==
    page :> {{intro}, {intro, usage}} @@ guide :> {{setup}} @@ sheet1 :> {} @@ sheet2 :> {}

Node(n, s, d) == [node |-> n, source |-> s, document |-> d]
Edge(e, m, n, c) == [edge |-> e, src |-> m, dst |-> n, evidence |-> c]

SiteNodes == {Node(pageNode, site, page), Node(guideNode, site, guide), Node(apiNode, site, None)}

(* Both documents mention the API. *)
SiteEdges == {Edge(mentions, pageNode, apiNode, usage), Edge(links, guideNode, apiNode, setup)}

(* An edge across the sources, and one that takes over the id of another. *)
Additions == {Edge(related, pageNode, topicNode, topic), Edge(mentions, topicNode, apiNode, intro)}

Merged == {[edge |-> related, src |-> pageNode, dst |-> apiNode]}

Place(d) == [c \in Sections |-> IF c = topic THEN d ELSE None]

(* The topic is on the first sheet, with a link; moves to the second one; and the
   first one goes. *)
Workbook ==
    map :> {[documents |-> {sheet1, sheet2}, place |-> Place(sheet1),
             nodes |-> {Node(topicNode, map, sheet1), Node(linkNode, None, None)},
             edges |-> {Edge(related, topicNode, linkNode, topic)}],
            [documents |-> {sheet1, sheet2}, place |-> Place(sheet2),
             nodes |-> {Node(topicNode, map, sheet2)},
             edges |-> {}],
            [documents |-> {sheet2}, place |-> Place(sheet2),
             nodes |-> {Node(topicNode, map, sheet2)},
             edges |-> {}]}
=============================================================================
