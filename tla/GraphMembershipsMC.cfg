SPECIFICATION Spec
CONSTANTS
    Sources = {site, map}
    Workbooks = {map}
    Documents = {page, guide, sheet1, sheet2}
    SourceOf <- DocumentSource
    Sections = {intro, usage, setup, topic}
    Nodes = {pageNode, guideNode, apiNode, topicNode, linkNode}
    Edges = {mentions, links, related}
    Home <- IdSource
    None = None
    Texts <- PageTexts
    NodeInputs <- SiteNodes
    EdgeInputs <- SiteEdges
    Feedback <- Additions
    Merges <- Merged
    Bundles <- Workbook
    site = site
    map = map
    page = page
    guide = guide
    sheet1 = sheet1
    sheet2 = sheet2
    intro = intro
    usage = usage
    setup = setup
    topic = topic
    pageNode = pageNode
    guideNode = guideNode
    apiNode = apiNode
    topicNode = topicNode
    linkNode = linkNode
    mentions = mentions
    links = links
    related = related
INVARIANTS TypeOK EdgesFollow NodesFollow
PROPERTY GoneTakesItsNodes
