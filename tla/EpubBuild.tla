------------------------------ MODULE EpubBuild -----------------------------
(***************************************************************************)
(* Making an EPUB of a text (ingestion/epub_build.py) that OpenITI or      *)
(* Wikisource has sent, line by line.  A line is known by its number and   *)
(* its kind; headings and paragraphs by the number of their line, 0 being  *)
(* the heading of what comes before the first and the empty paragraph.     *)
(* Left out are the title guessed from the text, and the preface.          *)
(***************************************************************************)
EXTENDS Orders, SequencesExt

CONSTANTS
    Parasize,       \* PARAS_PER_XHTML
    MaxFiles,       \* MAX_XHTML_FILES
    MaxLines,       \* bound on the lines of a text
    None

VARIABLES
    source,         \* where the text is from
    lines,          \* the kinds of the lines read
    chapters,       \* the chapters finished, in order
    heading,        \* current_title
    buf,            \* the paragraphs of the current chapter
    files           \* the chapters of the EPUB, as what they show; None before

vars == <<source, lines, chapters, heading, buf, files>>

Sources == {"openiti", "wikisource"}
Kinds == {"text", "tildes", "blank", "page", "meta", "openiti", "header", "untitled"}

TypeOK ==
    /\ source \in Sources
    /\ lines \in Seq(Kinds) /\ Len(lines) <= MaxLines
    /\ chapters \in Seq([title : Nat, paras : Seq(Nat)])
    /\ heading \in 0 .. Len(lines) /\ buf \in Seq(0 .. Len(lines))
    /\ files = None \/ files \in Seq(Seq([tag : {"h", "p"}, of : Nat]))

Init ==
    /\ source \in Sources
    /\ lines = <<>> /\ chapters = <<>> /\ heading = 0 /\ buf = <<>>
    /\ files = None
-----------------------------------------------------------------------------
(***************************************************************************)
(* Reading: mARkdown_to_chapters, wikitext_to_chapters.                    *)
(***************************************************************************)
Line(kind) ==
    /\ files = None /\ Len(lines) < MaxLines
    /\ lines' = Append(lines, kind)
    /\ UNCHANGED <<source, files>>

Here == Len(lines')

\* A chapter without paragraphs is none.
Chapters == IF buf = <<>> THEN chapters ELSE Append(chapters, [title |-> heading, paras |-> buf])

\* A line of the book; one of nothing but ~~ is an empty paragraph.
Text(kind) ==
    /\ kind \in {"text", "tildes"} /\ Line(kind)
    /\ source = "openiti" \/ kind = "text"
    /\ buf' = Append(buf, IF kind = "text" THEN Here ELSE 0)
    /\ UNCHANGED <<chapters, heading>>

\* Empty lines, and those of a page mark alone, make one empty paragraph, and
\* #META# lines are such lines.
Blank(kind) ==
    /\ kind \in {"blank", "page", "meta"} /\ Line(kind)
    /\ buf' = IF source = "openiti" /\ buf # <<>> /\ Last(buf) # 0 THEN Append(buf, 0) ELSE buf
    /\ source = "openiti" \/ kind = "blank"
    /\ UNCHANGED <<chapters, heading>>

\* OpenITI's own first line
Magic == source = "openiti" /\ Line("openiti") /\ UNCHANGED <<chapters, heading, buf>>

\* ### | heading, or ### | alone
Header(kind) ==
    /\ kind \in {"header", "untitled"} /\ Line(kind)
    /\ source = "openiti" \/ kind = "header"
    /\ chapters' = Chapters /\ buf' = <<>>
    /\ heading' = IF kind = "header" THEN Here ELSE heading
-----------------------------------------------------------------------------
(***************************************************************************)
(* Building.                                                               *)
(***************************************************************************)
Upto(i, n) == IF i < n THEN i ELSE n
Pieces(s, size) == [i \in 1 .. (Len(s) + size - 1) \div size |-> SubSeq(s, (i - 1) * size + 1, Upto(i * size, Len(s)))]

H(n) == [tag |-> "h", of |-> n]
P(n) == [tag |-> "p", of |-> n]
Body(paras) == [i \in DOMAIN paras |-> P(paras[i])]

\* A long chapter is split, each part under the chapter's title; Wikisource's are not.
PartsOf(chapter) ==
    LET paras == IF source = "openiti" THEN Pieces(chapter.paras, Parasize) ELSE <<chapter.paras>> IN
    [i \in DOMAIN paras |-> [title |-> chapter.title, body |-> Body(paras[i])]]

\* Mutant of Pack: the chapters that are too many are dropped, as an older builder did.
PackCapped(parts) == SubSeq(parts, 1, Upto(Len(parts), MaxFiles))

\* Too many parts are merged in groups, each with its title.
Pack(parts) ==
    IF Len(parts) <= MaxFiles THEN parts
    ELSE LET groups == Pieces(parts, (Len(parts) + MaxFiles - 1) \div MaxFiles) IN
         [i \in DOMAIN groups |->
            [title |-> groups[i][1].title,
             body |-> FlattenSeq([j \in DOMAIN groups[i] |-> <<H(groups[i][j].title)>> \o groups[i][j].body])]]

\* build_epub packs once more.
Built(parts) == LET list == Pack(parts) IN [i \in DOMAIN list |-> <<H(list[i].title)>> \o list[i].body]

\* The lines of some kinds, as they come.
LinesOf(kinds) == Ascending({i \in DOMAIN lines : lines[i] \in kinds})

\* A text without a chapter is taken as it is, but for its #META# lines; the
\* whole of one that has nothing at all is one paragraph.
Raw ==
    LET rest == LinesOf(Kinds \ {"blank", "meta"}) IN
    [title |-> 0, paras |-> IF rest = <<>> THEN <<0>> ELSE rest]

Build ==
    /\ files = None
    /\ IF source = "openiti" THEN ToSet(lines) \ {"blank"} # {} ELSE Chapters # <<>>     \* not too short
    /\ LET all == IF Chapters = <<>> THEN <<Raw>> ELSE Chapters
           parts == FlattenSeq([i \in DOMAIN all |-> PartsOf(all[i])])
       IN  files' = Built(IF source = "openiti" THEN Pack(parts) ELSE parts)
    /\ UNCHANGED <<source, lines, chapters, heading, buf>>

Next ==
    \/ \E kind \in Kinds : Text(kind) \/ Blank(kind) \/ Header(kind)
    \/ Magic \/ Build

Spec == Init /\ [][Next]_vars
-----------------------------------------------------------------------------
(***************************************************************************)
(* Property.                                                               *)
(***************************************************************************)
Of(elements) == [i \in DOMAIN elements |-> elements[i].of]
Shown(elements) == Of(Among(elements, {e \in ToSet(elements) : e.tag = "p" /\ e.of # 0}))

\* The last heading before line n of the text, or 0.
Latest(n) ==
    LET earlier == {i \in 1 .. n - 1 : lines[i] = "header"} IN IF earlier = {} THEN 0 ELSE Max(earlier)

\* epub_build.py:16: "This must never drop paragraphs - only pack them."  The
\* files, no more than a reader bears, show every line of the book once, in
\* order, under the heading it was written under; a text in which nothing was
\* recognized as the book's is shown as it came.
NothingIsDropped ==
    files # None =>
        LET elements == FlattenSeq(files)
            under(i, n) == /\ n < i /\ elements[n].tag = "h"
                           /\ \A j \in n + 1 .. i - 1 : elements[j].tag = "p"
        IN
        /\ Len(files) \in 1 .. MaxFiles
        /\ LinesOf({"text"}) # <<>> =>
            /\ Shown(elements) = LinesOf({"text"})
            /\ \A i \in DOMAIN elements : elements[i].tag = "p" /\ elements[i].of # 0 =>
                    \E n \in DOMAIN elements : under(i, n) /\ elements[n].of = Latest(elements[i].of)
        /\ LinesOf({"text", "tildes"}) = <<>> =>
                Shown(elements) = LinesOf({"page", "openiti", "header", "untitled"})
=============================================================================
