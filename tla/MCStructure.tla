---------------------------- MODULE MCStructure -----------------------------
(* Small documents for DocumentStructure: every page pattern that takes a     *)
(* branch of its own,put together in every order.                           *)
EXTENDS DocumentStructure

CONSTANT MaxBlocks

Block(text, form, number) ==
  [text |-> text, part |-> "whole", form |-> form, number |-> number, table |-> FALSE,
   weak |-> FALSE, vetoed |-> FALSE, repeated |-> FALSE, chars |-> 2, at |-> 0,
   region |-> "none", caption |-> FALSE]

Header == [Block("header", "heading", <<>>) EXCEPT !.at = 1, !.chars = 1]
Palette ==
  {Block("one", "heading", <<1>>), Block("sub", "short", <<1, 1>>), Block("deep", "prose", <<1, 1, 1>>),
   Block("title", "heading", <<>>), Block("text", "short", <<>>), Block("prose", "prose", <<>>),
   Block("number", "number", <<1, 2>>),
   [Block("table", "prose", <<>>) EXCEPT !.table = TRUE, !.region = "table"],
   [Block("cell", "heading", <<>>) EXCEPT !.vetoed = TRUE]}

Page(blocks) ==
  [blocks |-> blocks, images |-> FALSE, plumber |-> <<>>, ocr |-> <<>>, rtldoc |-> <<>>, label |-> <<>>]

\* Any few blocks, spread over two pages.
Spread ==
  {[outline |-> <<>>, reader |-> "light", pages |-> <<Page(SubSeq(s, 1, Len(s) \div 2)), Page(SubSeq(s, Len(s) \div 2 + 1, Len(s)))>>] :
     s \in UNION {[1 .. n -> Palette] : n \in 1 .. MaxBlocks}}

\* Boxes, a table continued over the pages, running headers and scanned pages.
Scan == [Page(<<>>) EXCEPT !.images = TRUE, !.ocr = <<Block("scanned", "short", <<>>)>>]
Faint == [Page(<<[Block("faint", "short", <<>>) EXCEPT !.chars = 1]>>)
            EXCEPT !.plumber = <<Block("clear", "prose", <<>>)>>,
                   !.rtldoc = <<Block("two", "heading", <<2>>), Block("text", "short", <<>>)>>]
Box == Page(<<Block("box", "box", <<>>), Block("subtitle", "heading", <<>>), Block("text", "short", <<>>)>>)
Tables(part) ==
  Page(<<Header, [Block("Table 1", "short", <<>>) EXCEPT !.part = part, !.region = "table", !.caption = TRUE]>>)
Labelled(page, p) == [page EXCEPT !.label = <<p, "arabic">>]
Kinds == {Scan, Faint, Box, Tables("whole"), Tables("continued"), Page(<<Block("one", "heading", <<1>>)>>)}
Mixed ==
  {[outline |-> <<>>, reader |-> r, pages |-> <<Labelled(a, 4), Labelled(b, 5), c>>] :
     a, b, c \in Kinds, r \in {"light", "rtldoc"}}

\* Outlines with skipped levels, entries that go backwards and broken ones.
Entry(level, page) == [level |-> level, page |-> page, title |-> "entry"]
Outlines ==
  {<<Entry(1, 1)>> \o s :
     s \in [1 .. 4 -> {Entry(1, -1), Entry(1, 2), Entry(1, 3), Entry(2, 1), Entry(2, 2), Entry(3, 3)}]}
Outlined ==
  {[outline |-> o, reader |-> "light", pages |-> [i \in 1 .. 3 |-> Page(<<Block("text", "short", <<>>)>>)]] : o \in Outlines}

MCDocuments == Spread \cup Mixed \cup Outlined
=============================================================================
