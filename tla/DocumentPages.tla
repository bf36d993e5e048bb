--------------------------- MODULE DocumentPages ----------------------------
(* How a PDF becomes the intermediate representation the graph is built from: *)
(* document/light/parser.py with the rtldoc and table-aware variants,         *)
(* document/ir.py, document/patterns.py and document/page_numbers.py.         *)
(*                                                                            *)
(* A block of a page is a record:                                             *)
(*   text, part - which block it is, and whether it is the "whole" of it, the *)
(*                first "line" or the "rest" of one that was split, or the    *)
(*                same title again with a "continued" after it                *)
(*   form       - "number" (a section number alone), "heading" (its looks or  *)
(*                its words make it one), "box" (a "Box N" label), "short"    *)
(*                (a short paragraph) or "prose" (several lines of body)      *)
(*   number     - the section number it starts with, <<>> for none            *)
(*   table, weak, vetoed, repeated - its kind and the flags set on it         *)
(*   chars, at  - the length of the text, and the height it stands at on the  *)
(*                page (0 when the reader gave no position)                   *)
(*   region, caption - the table or figure it is or names, and whether its    *)
(*                text is a caption line                                      *)
EXTENDS Integers, Sequences, FiniteSets, SequencesExt

CONSTANTS
  UsePdfplumber,   \* PDF_ENABLE_PDFPLUMBER, with the package installed
  UseOcr,          \* PDF_ENABLE_OCR, with a backend that loads
  LowTextChars     \* PDF_LOW_TEXT_CHARS

ASSUME PagesAssumption == /\ UsePdfplumber \in BOOLEAN
                          /\ UseOcr \in BOOLEAN
                          /\ LowTextChars \in Nat \ {0}

Collected(Op(_), s) == FoldLeft(LAMBDA acc, x : acc \o Op(x), <<>>, s)

-----------------------------------------------------------------------------
(* Extraction, page by page.                                                  *)

Chars(bs) == FoldLeft(LAMBDA n, b : n + b.chars, 0, bs)

\* _join_blocks: the text of a page, as the texts it is made of.
Joined(bs) == Collected(LAMBDA b : << <<b.text, b.part>> >>, bs)

\* In percent, for text whose characters are all printable.
Confidence(page, bs) ==
  IF Chars(bs) = 0 THEN 0
  ELSE Max({0, 25 + Min({55, (55 * Chars(bs)) \div (2 * LowTextChars)})
                  + Min({20, (20 * Len(bs)) \div 6})
                  - (IF page.images /\ Chars(bs) < LowTextChars THEN 20 ELSE 0)})

NeedsPdfplumber(page, bs) ==
  UsePdfplumber /\ (Chars(bs) < LowTextChars \/ Confidence(page, bs) < 55)

\* The page as pdfplumber reads it replaces the first reading when it is
\* better; a reading that timed out or failed is empty.
AfterPdfplumber(page, answer) ==
  LET first == page.blocks
      second == IF answer = "read" THEN page.plumber ELSE <<>>
  IN  IF /\ NeedsPdfplumber(page, first)
         /\ \/ Confidence(page, second) > Confidence(page, first)
            \/ Chars(second) > Chars(first)
      THEN second ELSE first

IsLow(page, bs) == Confidence(page, bs) < 35 \/ Chars(bs) < LowTextChars

AfterOcr(page, bs, answer) ==
  IF IsLow(page, bs) /\ UseOcr /\ answer = "read" THEN bs \o page.ocr ELSE bs

LowConfidenceMarker ==
  [text |-> "marker", part |-> "whole", form |-> "short", number |-> <<>>,
   table |-> FALSE, weak |-> TRUE, vetoed |-> FALSE, repeated |-> FALSE,
   chars |-> 1, at |-> 0, region |-> "none", caption |-> FALSE]

\* Tables and figures of the first reading, each text once.
RegionsOf(page, p) ==
  FoldLeft(LAMBDA rs, b :
             IF b.region = "none" \/ \E i \in DOMAIN rs : rs[i].text = <<b.text, b.part>>
             THEN rs
             ELSE Append(rs, [kind |-> b.region, text |-> <<b.text, b.part>>, page |-> p]),
           <<>>, page.blocks)

Extract(page, p, plumber, ocr) ==
  LET read == AfterOcr(page, AfterPdfplumber(page, plumber), ocr)
  IN  [page |-> p, text |-> Joined(read), chars |-> Chars(read), regions |-> RegionsOf(page, p),
       low |-> IsLow(page, read), label |-> page.label,
       blocks |-> IF IsLow(page, read) THEN Append(read, LowConfidenceMarker) ELSE read]

\* rtldoc reads a page or declines it; a page it declines is read plainly,
\* with neither of the fallbacks.
ExtractByRtldoc(page, p) ==
  LET read == IF page.rtldoc = <<>> THEN page.blocks ELSE page.rtldoc
  IN  [page |-> p, text |-> Joined(read), chars |-> Chars(read), label |-> page.label,
       regions |-> RegionsOf([page EXCEPT !.blocks = read], p),
       low |-> Confidence(page, read) < 35, blocks |-> read]

-----------------------------------------------------------------------------
(* Running headers and footers, over the whole document.                      *)

REPEAT_MIN_PAGES == 3

MayRepeat(b) == ~b.table /\ ~b.weak /\ b.at # 0 /\ b.form # "prose"

IsRepeated(es, b) ==
  /\ MayRepeat(b)
  /\ Cardinality({i \in DOMAIN es : \E j \in DOMAIN es[i].blocks :
                    LET c == es[i].blocks[j]
                    IN  MayRepeat(c) /\ c.text = b.text /\ c.at = b.at})
       >= Max({REPEAT_MIN_PAGES, Len(es) \div 10})

\* The pages with a repeated header are joined again, from all their other
\* blocks.
FlagRepeatedHeaders(es) ==
  IF Len(es) < REPEAT_MIN_PAGES THEN es
  ELSE Collected(LAMBDA e :
         LET flagged == Collected(LAMBDA b : <<[b EXCEPT !.repeated = IsRepeated(es, b)]>>, e.blocks)
             kept == SelectSeq(flagged, LAMBDA b : ~b.repeated)
         IN  IF Len(kept) = Len(flagged) THEN <<e>>
             ELSE <<[e EXCEPT !.blocks = flagged, !.text = Joined(kept), !.chars = Chars(kept)]>>,
         es)

MIN_OUTLINE_ENTRIES == 5

IsUsable(outline) ==
  /\ Len(outline) >= MIN_OUTLINE_ENTRIES
  /\ \E i \in DOMAIN outline : outline[i].level = 1

\* A broken bookmark taken for the first page.
ClampedEntries(outline) == Collected(LAMBDA e : <<[e EXCEPT !.page = Max({1, @})]>>, outline)

\* Broken bookmarks (page -1) and entries that go backwards are dropped.
OutlineEntries(outline) ==
  FoldLeft(LAMBDA kept, e :
             IF e.page < 1 \/ (kept # <<>> /\ e.page < Last(kept).page) THEN kept
             ELSE Append(kept, e),
           <<>>, outline)

-----------------------------------------------------------------------------
(* Printed page numbers.  A label is <<value, system>>, or <<>> for none.     *)

OFFSET_WINDOW == 3

\* What the neighbours of a page vouch for: <<offset, system>>, or <<>>.
Trusted(labels, p) ==
  LET Offset(q) == <<labels[q][1] - q, labels[q][2]>>
  IN  IF /\ labels[p] # <<>>
         /\ \E q \in DOMAIN labels \ {p} : /\ labels[q] # <<>>
                                           /\ q - p \in -OFFSET_WINDOW .. OFFSET_WINDOW
                                           /\ Offset(q) = Offset(p)
      THEN Offset(p) ELSE <<>>

\* A page no neighbour vouches for takes the offset of the trusted pages on
\* both sides of it when they agree, and no label otherwise.
ReconciledLabel(labels, p) ==
  LET anchors == {q \in DOMAIN labels : Trusted(labels, q) # <<>>}
      before == {q \in anchors : q < p}
      after == {q \in anchors : q > p}
      run == IF p \in anchors THEN Trusted(labels, p)
             ELSE IF before # {} /\ after # {}
                     /\ Trusted(labels, Max(before)) = Trusted(labels, Min(after))
                  THEN Trusted(labels, Min(after)) ELSE <<>>
  IN  IF run = <<>> THEN <<>> ELSE <<p + run[1], run[2]>>

-----------------------------------------------------------------------------
(* Blocks as the builder reads them.                                          *)

\* A section number on a line of its own goes to the block after it, whatever
\* that block is; the number of a last such line goes nowhere.
ResolveNumberPrefixes(bs) ==
  FoldLeft(LAMBDA acc, b :
             IF b.form = "number" THEN [acc EXCEPT !.pending = b.number]
             ELSE [out |-> Append(acc.out, IF acc.pending = <<>> THEN b
                                           ELSE [b EXCEPT !.number = acc.pending]),
                   pending |-> <<>>],
           [out |-> <<>>, pending |-> <<>>], bs).out

\* Parting a block and keeping only its first line.
FirstLinesOnly(bs) ==
  Collected(LAMBDA b :
    IF b.form = "prose" /\ b.number # <<>> THEN <<[b EXCEPT !.part = "line", !.form = "short"]>>
    ELSE <<b>>, bs)

\* A numbered first line is parted from the prose that follows it.
SplitMergedHeadings(bs) ==
  Collected(LAMBDA b :
    IF b.form = "prose" /\ b.number # <<>> /\ ~b.table /\ ~b.weak
    THEN <<[b EXCEPT !.part = "line", !.form = "short"],
           [b EXCEPT !.part = "rest", !.number = <<>>]>>
    ELSE <<b>>, bs)

IsHeading(b) ==
  /\ ~b.table /\ ~b.weak /\ ~b.vetoed /\ ~b.repeated
  /\ b.form \in {"heading", "box"} \/ (b.form = "short" /\ b.number # <<>>)

\* Every block of the document in reading order, with the page it is on.
BlocksOf(es) ==
  SplitMergedHeadings(ResolveNumberPrefixes(
    Collected(LAMBDA e : Collected(LAMBDA b : <<b @@ [page |-> e.page]>>, e.blocks), es)))
=============================================================================
