-------------------------- MODULE DocumentStructure -------------------------
(* Building the structural graph of a document (axis 1):                      *)
(* graph/axis1_structural.py over graph/chunker.py, with the page nodes of    *)
(* document/page_numbers.py and the regions of graph/region_description.py.   *)
(*                                                                            *)
(* A document is read page by page, then built from its own outline when it   *)
(* has a usable one and from its headings when it has none, one entry or one  *)
(* block a step; pages, regions and numbered parents are linked at the end.   *)
EXTENDS DocumentPages

CONSTANT Documents   \* the PDFs that may be ingested

VARIABLES
  doc,        \* the PDF: its pages, its outline, and the parser that reads it
  pages,      \* the extracts, then the pages of the DocumentIR
  phase,      \* "extract", "outline", "headings", "pages", "regions", "numbers", "done"
  rest,       \* the outline entries or blocks still to be placed
  nodes,      \* the nodes built, in order
  edges,      \* the CONTAINS edges, in the order they were added
  stack,      \* heading_stack: open headings, outermost first
  chapter,    \* the id of the current chapter, NoNode for none
  section,    \* the id of the current section, NoNode for none
  counts,     \* chapter_idx, global_section_idx and doc_order
  numbers     \* number_map, in insertion order

vars == <<doc, pages, phase, rest, nodes, edges, stack, chapter, section, counts, numbers>>
builder == <<nodes, edges, stack, chapter, section, counts, numbers>>

NoNode == <<"none">>
DocumentId == <<"document">>
ChapterId(c) == <<"chapter", c>>
SectionIdInAnyChapter(c, i) == <<"section", 0, i>>
SectionId(c, i) == <<"section", c, i>>
PageId(p) == <<"page", p>>
RegionId(p, i) == <<"region", p, i>>

Types == {"document", "chapter", "section", "page", "region"}

Node(id, title, number, order, first, last, depth) ==
  [id |-> id, type |-> id[1], title |-> title, number |-> number, order |-> order,
   first |-> first, last |-> last, depth |-> depth, body |-> <<>>,
   label |-> <<>>, path |-> <<>>, unit |-> NoNode]

Preamble == <<"Preamble", "auto">>

PageCount == Len(doc.pages)

Ids == {nodes[i].id : i \in DOMAIN nodes}
At(id) == CHOOSE i \in DOMAIN nodes : nodes[i].id = id
NodeOf(id) == nodes[At(id)]
OfType(type) == SelectSeq(nodes, LAMBDA n : n.type = type)

-----------------------------------------------------------------------------
Init ==
  /\ doc \in Documents
  /\ pages = <<>>
  /\ phase = "extract"
  /\ rest = <<>>
  /\ nodes = <<Node(DocumentId, <<"document", "whole">>, <<>>, 0, 1,
                    Max({1, Len(doc.pages)}), 0)>>
  /\ edges = <<>>
  /\ stack = <<[level |-> 0, id |-> DocumentId]>>
  /\ chapter = NoNode
  /\ section = NoNode
  /\ counts = [chapter |-> 0, section |-> 0, order |-> 0]
  /\ numbers = <<>>

\* The fallback reader may time out or fail, and so may the OCR.
ExtractPage ==
  /\ phase = "extract"
  /\ doc.reader = "light"
  /\ Len(pages) < PageCount
  /\ \E plumber, ocr \in {"read", "failed"} :
       pages' = Append(pages, Extract(doc.pages[Len(pages) + 1], Len(pages) + 1, plumber, ocr))
  /\ UNCHANGED <<doc, phase, rest>>
  /\ UNCHANGED builder

ExtractPageByRtldoc ==
  /\ phase = "extract"
  /\ doc.reader = "rtldoc"
  /\ Len(pages) < PageCount
  /\ pages' = Append(pages, ExtractByRtldoc(doc.pages[Len(pages) + 1], Len(pages) + 1))
  /\ UNCHANGED <<doc, phase, rest>>
  /\ UNCHANGED builder

FinishExtraction ==
  /\ phase = "extract"
  /\ Len(pages) = PageCount
  /\ pages' = FlagRepeatedHeaders(pages)
  /\ IF IsUsable(doc.outline)
     THEN /\ phase' = "outline"
          /\ rest' = OutlineEntries(doc.outline)
     ELSE /\ phase' = "headings"
          /\ rest' = BlocksOf(pages')
  /\ UNCHANGED doc
  /\ UNCHANGED builder

-----------------------------------------------------------------------------
(* _build_from_toc                                                            *)

\* The stack with every heading at this level or below closed.
Closed(level) ==
  SelectSeq(stack, LAMBDA h : h.level = 0 \/ h.level < level)

\* An entry reaches to the page before the next one at its level or above.
EntryEnd(entry, later) ==
  LET nexts == {i \in DOMAIN later : later[i].level <= entry.level}
  IN  IF nexts = {} THEN PageCount
      ELSE Max({entry.page, later[Min(nexts)].page - 1})

PageText(p) == pages[p].text

EntryBody(first, last) ==
  FoldLeft(LAMBDA acc, e : IF e.page \in first .. last THEN acc \o e.text ELSE acc, <<>>, pages)

PlaceEntry ==
  /\ phase = "outline"
  /\ rest # <<>>
  /\ LET e == Head(rest)
         last == EntryEnd(e, Tail(rest))
         order == counts.order + 1
         id == IF e.level = 1 THEN ChapterId(counts.chapter + 1)
               ELSE SectionId(counts.chapter, counts.section + 1)
     IN  /\ nodes' = Append(nodes,
                [Node(id, <<e.title, "whole">>, <<>>, order, e.page, last, e.level)
                   EXCEPT !.body = EntryBody(e.page, last)])
         /\ edges' = Append(edges, <<Last(Closed(e.level)).id, id>>)
         /\ stack' = Append(Closed(e.level), [level |-> e.level, id |-> id])
         /\ counts' = IF e.level = 1
                      THEN [chapter |-> counts.chapter + 1, section |-> 0, order |-> order]
                      ELSE [counts EXCEPT !.section = @ + 1, !.order = order]
  /\ rest' = Tail(rest)
  /\ UNCHANGED <<doc, pages, phase, chapter, section, numbers>>

-----------------------------------------------------------------------------
(* _build_from_extracts                                                       *)

IsBoxLabel(b) == b.form = "box" /\ b.number = <<>>
IsBox(id) == id # NoNode /\ NodeOf(id).title[2] = "box"

\* The lines under a "Box N" label are its body, however they are set.
StartsHeading(b) == IsHeading(b) /\ (IsBox(section) => IsBoxLabel(b))

\* A lone level-one number makes a chapter.
IsChapter(b) == Len(b.number) = 1

Level(b) ==
  LET nominal == IF IsChapter(b) THEN 1
                 ELSE IF b.number = <<>> THEN 2
                 ELSE Max({2, Len(b.number) + IF chapter = NoNode THEN 0 ELSE 1})
  IN  IF /\ ~IsChapter(b)
         /\ section # NoNode
         /\ nominal <= Last(stack).level
         /\ Last(stack).id = section
         /\ NodeOf(section).number # <<>>
         /\ Len(b.number) > Len(NodeOf(section).number)
      THEN Last(stack).level + 1 ELSE nominal

Numbered(map, number, id) ==
  IF \E i \in DOMAIN map : map[i].number = number
  THEN Collected(LAMBDA m : <<IF m.number = number THEN [m EXCEPT !.node = id] ELSE m>>, map)
  ELSE Append(map, [number |-> number, node |-> id])

\* A section's number is entered with each of its prefixes that has none yet.
WithPrefixes(map, number, id) ==
  FoldLeft(LAMBDA m, i : IF \E j \in DOMAIN m : m[j].number = SubSeq(number, 1, i) THEN m
                         ELSE Numbered(m, SubSeq(number, 1, i), id),
           Numbered(map, number, id), [i \in 1 .. Len(number) - 1 |-> i])

PlaceChapter ==
  /\ phase = "headings"
  /\ rest # <<>>
  /\ LET b == Head(rest)
         id == ChapterId(counts.chapter + 1)
     IN  /\ StartsHeading(b) /\ IsChapter(b)
         /\ nodes' = Append(nodes, Node(id, <<b.text, b.part>>, b.number, counts.order + 1,
                                        b.page, b.page, 1))
         /\ edges' = Append(edges, <<DocumentId, id>>)
         /\ stack' = <<[level |-> 0, id |-> DocumentId], [level |-> 1, id |-> id]>>
         /\ chapter' = id
         /\ numbers' = Numbered(numbers, b.number, id)
  /\ section' = NoNode
  /\ counts' = [chapter |-> counts.chapter + 1, section |-> 0, order |-> counts.order + 1]
  /\ rest' = Tail(rest)
  /\ UNCHANGED <<doc, pages, phase>>

PlaceSection ==
  /\ phase = "headings"
  /\ rest # <<>>
  /\ LET b == Head(rest)
         id == SectionId(counts.chapter, counts.section + 1)
         open == Closed(Level(b))
     IN  /\ StartsHeading(b) /\ ~IsChapter(b)
         /\ nodes' = Append(nodes, Node(id, <<b.text, IF IsBoxLabel(b) THEN "box" ELSE b.part>>,
                                        b.number, counts.order + 1, b.page, b.page, Level(b)))
         /\ edges' = Append(edges, <<Last(open).id, id>>)
         /\ stack' = Append(open, [level |-> Level(b), id |-> id])
         /\ section' = id
         /\ numbers' = IF b.number = <<>> THEN numbers ELSE WithPrefixes(numbers, b.number, id)
  /\ counts' = [counts EXCEPT !.section = @ + 1, !.order = @ + 1]
  /\ rest' = Tail(rest)
  /\ UNCHANGED <<doc, pages, phase, chapter>>

\* A table and a weak reading are marked as such in the text of a section.
Said(b) == <<b.text, IF b.weak THEN "weak" ELSE IF b.table THEN "table" ELSE b.part>>

\* The open section and chapter reach to the page of the text they take.
Extended(ns, b, id) ==
  Collected(LAMBDA n :
    <<IF n.id = id THEN [n EXCEPT !.body = Append(@, Said(b)), !.last = Max({@, b.page})]
      ELSE IF n.id = chapter THEN [n EXCEPT !.last = Max({@, b.page})] ELSE n>>, ns)

\* Text with no section open starts one of its own.
PlaceText ==
  /\ phase = "headings"
  /\ rest # <<>>
  /\ LET b == Head(rest)
         id == IF section = NoNode THEN SectionId(counts.chapter, counts.section + 1) ELSE section
         opened == Node(id, Preamble, <<>>, counts.order + 1, b.page, b.page, 2)
     IN  /\ ~b.repeated
         /\ ~StartsHeading(b)
         /\ section' = id
         /\ IF section # NoNode
            THEN /\ nodes' = Extended(nodes, b, id)
                 /\ UNCHANGED <<edges, stack, counts>>
            ELSE /\ nodes' = Extended(Append(nodes, opened), b, id)
                 /\ edges' = Append(edges, <<IF chapter = NoNode THEN DocumentId ELSE chapter, id>>)
                 /\ stack' = Append(stack, [level |-> 2, id |-> id])
                 /\ counts' = [counts EXCEPT !.section = @ + 1, !.order = @ + 1]
  /\ rest' = Tail(rest)
  /\ UNCHANGED <<doc, pages, phase, chapter, numbers>>

SkipFurniture ==
  /\ phase = "headings"
  /\ rest # <<>>
  /\ Head(rest).repeated
  /\ rest' = Tail(rest)
  /\ UNCHANGED <<doc, pages, phase>>
  /\ UNCHANGED builder

-----------------------------------------------------------------------------
(* The end of both ways.                                                      *)

Printed == UNION {Range(doc.pages[p].blocks \o doc.pages[p].plumber
                       \o doc.pages[p].ocr \o doc.pages[p].rtldoc) :
                    p \in DOMAIN doc.pages}
TextsOf(form) == {b.text : b \in {c \in Printed : c.form = form}}

\* A "Box N" section with next to no body takes what follows the label on its
\* page, to the next label.
BoxBody(n) ==
  LET text == PageText(n.first)
      start == {i \in DOMAIN text : text[i][1] = n.title[1]}
      next == {i \in DOMAIN text : i > Min(start) /\ text[i][1] \in TextsOf("box")}
  IN  IF start = {} THEN <<>>
      ELSE SubSeq(text, Min(start) + 1, Min(next \cup {Len(text) + 1}) - 1)

Enriched(n) ==
  IF /\ n.title[2] = "box"
     /\ \A t \in Range(n.body) : t[1] \notin TextsOf("prose")
     /\ BoxBody(n) # <<>>
  THEN [n EXCEPT !.body = BoxBody(n)] ELSE n

\* The current chapter for every page with no section.
ParentInLastChapter(p) ==
  LET over == {i \in DOMAIN nodes : nodes[i].type = "section" /\ p \in nodes[i].first .. nodes[i].last}
  IN  IF over # {} THEN nodes[Max(over)].id ELSE ChapterId(counts.chapter)

\* The deepest section over a page, else the last chapter, else the document.
PageParent(p) ==
  LET over(type) == {i \in DOMAIN nodes : /\ nodes[i].type = type
                                          /\ p \in nodes[i].first .. nodes[i].last}
      deepest == CHOOSE i \in over("section") : \A j \in over("section") :
                   \/ nodes[j].depth < nodes[i].depth
                   \/ nodes[j].depth = nodes[i].depth /\ nodes[j].order <= nodes[i].order
  IN  IF over("section") # {} THEN nodes[deepest].id
      ELSE IF over("chapter") # {} THEN nodes[Max(over("chapter"))].id ELSE DocumentId

PageLabel(p) == ReconciledLabel([q \in DOMAIN pages |-> pages[q].label], p)

SPARSE_CHARS == 1

\* A page with hardly any text shows the text of its section with its own.
\* Its title only gives both numbers when the printed one is another.
PageNode(p) ==
  LET parent == PageParent(p)
      filler == IF parent[1] = "section" THEN Enriched(NodeOf(parent)).body ELSE <<>>
      named == IF PageLabel(p) \in {<<>>, <<p, "arabic">>} THEN "plain" ELSE "positional"
  IN  [Node(PageId(p), <<"Page", named>>, <<>>, p, p, p, 99)
         EXCEPT !.label = PageLabel(p),
                !.body = IF pages[p].chars < SPARSE_CHARS THEN filler \o PageText(p) ELSE PageText(p)]

LinkPages ==
  /\ phase \in {"outline", "headings"}
  /\ rest = <<>>
  /\ nodes' = Collected(LAMBDA n : <<Enriched(n)>>, nodes)
              \o Collected(LAMBDA e : <<PageNode(e.page)>>, pages)
  /\ edges' = edges \o Collected(LAMBDA e : << <<PageParent(e.page), PageId(e.page)>> >>, pages)
  /\ phase' = "regions"
  /\ UNCHANGED <<doc, pages, rest, stack, chapter, section, counts, numbers>>

\* The k-th table of a page is named by the k-th table caption in its text.
RegionTitle(e, i) ==
  LET kind == e.regions[i].kind
      k == Cardinality({j \in 1 .. i : e.regions[j].kind = kind})
      captions == SelectSeq(e.text, LAMBDA t :
                    \E b \in Printed : b.text = t[1] /\ b.caption /\ b.region = kind)
  IN  IF k <= Len(captions) THEN captions[k] ELSE <<kind, "plain">>

RegionNodes(e) ==
  Collected(LAMBDA i : <<[Node(RegionId(e.page, i), RegionTitle(e, i), <<>>, i, e.page, e.page, 100)
                            EXCEPT !.label = PageLabel(e.page), !.body = <<e.regions[i].text>>]>>,
            [i \in DOMAIN e.regions |-> i])

LinkRegions ==
  /\ phase = "regions"
  /\ nodes' = nodes \o Collected(RegionNodes, pages)
  /\ edges' = edges \o Collected(LAMBDA e :
       Collected(LAMBDA n : << <<PageId(e.page), n.id>> >>, RegionNodes(e)), pages)
  /\ phase' = "numbers"
  /\ UNCHANGED <<doc, pages, rest, stack, chapter, section, counts, numbers>>

\* Sections as the only numbered parents.
SectionEdges ==
  FoldLeft(LAMBDA es, m :
             LET parents == {i \in DOMAIN numbers : /\ numbers[i].node[1] = "section"
                                                    /\ numbers[i].number = Front(m.number)}
             IN  IF Len(m.number) < 2 \/ parents = {} THEN es
                 ELSE Append(es, <<numbers[Min(parents)].node, m.node>>),
           edges, SelectSeq(numbers, LAMBDA m : m.node[1] = "section"))

\* Every number whose parent number is in the map hangs from it.
NumberedEdges ==
  FoldLeft(LAMBDA es, m :
             LET parents == {i \in DOMAIN numbers : numbers[i].number = Front(m.number)}
                 edge == <<numbers[Min(parents)].node, m.node>>
             IN  IF Len(m.number) < 2 \/ parents = {} THEN es
                 ELSE IF edge[1] = edge[2] \/ edge \in Range(es) THEN es
                 ELSE Append(es, edge),
           edges, numbers)

LinkNumbers ==
  /\ phase = "numbers"
  /\ edges' = NumberedEdges
  /\ phase' = "names"
  /\ UNCHANGED <<doc, pages, rest, nodes, stack, chapter, section, counts, numbers>>

-----------------------------------------------------------------------------
(* build: units, names and paths.                                             *)

\* The parent a path goes through is the one of the last CONTAINS edge.
ParentOf(id) ==
  LET into == {i \in DOMAIN edges : edges[i][2] = id}
  IN  IF into = {} THEN NoNode ELSE edges[Max(into)][1]

\* The trail stops at the document, or at a node it has been through.
PathOf(id) ==
  FoldLeft(LAMBDA trail, n :
             LET up == ParentOf(IF trail = <<>> THEN id ELSE Head(trail))
             IN  IF up \in {NoNode, DocumentId, id} \/ up \in Range(trail) THEN trail
                 ELSE <<up>> \o trail,
           <<>>, nodes)

\* A page is known by the first line of its text, its title being positional.
Heading(n) == IF n.title[2] = "positional" /\ n.body # <<>> THEN Head(n.body) ELSE n.title

\* A continued title belongs with the last node that had the title itself.
Continues(i) ==
  LET heads == {j \in 1 .. i - 1 : /\ Heading(nodes[j])[1] = Heading(nodes[i])[1]
                                   /\ Heading(nodes[j])[2] # "continued"}
  IN  IF Heading(nodes[i])[2] = "continued" /\ heads # {} THEN Max(heads) ELSE 0

UnitOf(i) ==
  IF Continues(i) # 0 THEN nodes[Continues(i)].id
  ELSE IF \E j \in DOMAIN nodes : Continues(j) = i THEN nodes[i].id ELSE NoNode

\* A "Preamble" is named by its first line that reads like a name.
Named(n) ==
  LET lines == SelectSeq(n.body, LAMBDA t : t[2] \notin {"weak", "table"})
  IN  IF n.title = Preamble /\ lines # <<>> THEN <<Head(lines)[1], "auto">> ELSE n.title

Finish ==
  /\ phase = "names"
  /\ nodes' = Collected(LAMBDA i :
       <<[nodes[i] EXCEPT !.unit = UnitOf(i), !.title = Named(nodes[i]), !.path = PathOf(nodes[i].id),
                          !.label = IF nodes[i].first \in DOMAIN pages
                                    THEN PageLabel(nodes[i].first) ELSE @]>>,
       [i \in DOMAIN nodes |-> i])
  /\ phase' = "done"
  /\ UNCHANGED <<doc, pages, rest, edges, stack, chapter, section, counts, numbers>>

Next ==
  \/ ExtractPage \/ ExtractPageByRtldoc \/ FinishExtraction
  \/ PlaceEntry
  \/ PlaceChapter \/ PlaceSection \/ PlaceText \/ SkipFurniture
  \/ LinkPages \/ LinkRegions \/ LinkNumbers \/ Finish

Spec == Init /\ [][Next]_vars

-----------------------------------------------------------------------------
StructureTypeOK ==
  /\ phase \in {"extract", "outline", "headings", "regions", "numbers", "names", "done"}
  /\ \A i \in DOMAIN nodes : /\ nodes[i].type \in Types
                             /\ nodes[i].order \in Nat /\ nodes[i].depth \in Nat
  /\ Range(edges) \subseteq Ids \X Ids
  /\ \A i \in DOMAIN stack : stack[i].id \in Ids
  /\ {chapter, section} \subseteq Ids \cup {NoNode}
  /\ {numbers[i].node : i \in DOMAIN numbers} \subseteq Ids

FromHeadings == ~IsUsable(doc.outline)

\* What the chapters and sections say, one after the other: headings and text.
\* A block parted in two is told by its second part.
Spoken ==
  Collected(LAMBDA n :
    IF n.type \notin {"chapter", "section"} THEN <<>>
    ELSE Collected(LAMBDA t : IF t[2] = "line" THEN <<>> ELSE <<t[1]>>,
                   (IF n.title[2] = "auto" THEN <<>> ELSE <<n.title>>) \o n.body), nodes)

\* Read in order, the chapters and sections of a document built from its
\* headings say what its pages say, each block once and in its place: whatever
\* is split, merged with a number, demoted to text or put under a Preamble.
\* Running headers and the bare numbers are all that is left out, and the
\* boxes, which may be given the text of their page again.
SectionsReadLikeTheDocument ==
  phase = "done" /\ FromHeadings /\ TextsOf("box") = {} =>
    Spoken = Collected(LAMBDA e :
               Collected(LAMBDA b : IF b.repeated \/ b.form = "number" THEN <<>> ELSE <<b.text>>,
                         e.blocks), pages)

IsNumber(n) == n.number # <<>> /\ \A m \in Range(nodes) : m.number = n.number => m.id = n.id

\* A numbered section that comes after the chapter or section of its parent
\* number is found under it, although text between the two has opened a
\* Preamble, the headings came at one level, or its page is placed elsewhere.
SectionsAreFoundUnderTheirNumber ==
  phase = "done" =>
    \A i, j \in DOMAIN nodes :
      /\ i < j
      /\ IsNumber(nodes[i]) /\ IsNumber(nodes[j])
      /\ Len(nodes[j].number) > 1 /\ Front(nodes[j].number) = nodes[i].number
      => nodes[j].path # <<>> /\ Last(nodes[j].path) = nodes[i].id

Reached(ids) == ids \cup {e[2] : e \in {f \in Range(edges) : f[1] \in ids}}

\* Every node has an id of its own, hangs from the document, and every page
\* hangs from a node whose pages it is among.
NodesHangFromTheDocument ==
  /\ IsInjective([i \in DOMAIN nodes |-> nodes[i].id])
  /\ phase = "done" =>
       /\ FoldLeft(LAMBDA ids, n : Reached(ids), {DocumentId}, nodes) = Ids
       /\ \A e \in Range(edges) : e[2][1] = "page" =>
            e[2][2] \in NodeOf(e[1]).first .. Max({NodeOf(e[1]).last, NodeOf(e[1]).first})

\* The chapters of an outline follow one another: none reaches past the page
\* the next one starts on, none starts before the one it follows, and every
\* page from the first chapter on is in one.
ChaptersFollowOneAnother ==
  phase = "done" /\ ~FromHeadings =>
    LET cs == OfType("chapter")
    IN  /\ \A i \in 1 .. Len(cs) - 1 : cs[i].first <= cs[i + 1].first /\ cs[i].last <= cs[i + 1].first
        /\ \A p \in cs[1].first .. PageCount : \E c \in Range(cs) : p \in c.first .. c.last

\* "Ensure numbered parent sections CONTAINS numbered children": a numbered
\* parent is never contained in its own numbered child.
NumberedParentsContainTheirChildren ==
  \A e \in Range(edges) :
    LET up == NodeOf(e[1]).number
        down == NodeOf(e[2]).number
    IN  ~(Len(down) < Len(up) /\ down # <<>> /\ SubSeq(up, 1, Len(down)) = down)
=============================================================================
