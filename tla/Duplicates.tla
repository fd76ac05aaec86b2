----------------------------- MODULE Duplicates -----------------------------
(***************************************************************************)
(* Whether an item is a work the catalog has: duplicates/score.py, and     *)
(* what the pipeline makes of it (ingestion/pipeline.py).                  *)
(*                                                                         *)
(* A title or an author is the sequence of its words, each of about six    *)
(* letters, so that the twelve compared at the start are two words.        *)
(* Similarities are counted in units of 1/240 and scores in units of       *)
(* 1/4800, in which everything the code adds up here is a whole number,    *)
(* unions having at most four words.                                       *)
(***************************************************************************)
EXTENDS Naturals, Sequences, FiniteSets, SequencesExt

CONSTANTS
    Titles, Authors,    \* normalized
    Years,              \* with None
    Volumes,            \* [pages, size] of a file, or None for unknown
    None

VARIABLES
    item, work,         \* what is known of the item, and of the work compared, with its first author
    coauthor,           \* the work's second author, or None
    same,               \* "sha" if a work has the item's first file, else None
    fate                \* "duplicate", "review", "new", or None before

vars == <<item, work, coauthor, same, fate>>

Descriptions == [title : Titles, author : Authors, year : Years, volume : Volumes]

TypeOK ==
    /\ {item, work} \subseteq Descriptions /\ coauthor \in Authors \union {None} /\ same \in {"sha", None}
    /\ fate \in {"duplicate", "review", "new", None}

Init ==
    /\ item \in Descriptions /\ work \in Descriptions /\ coauthor \in Authors \union {None}
    /\ same \in {"sha", None}
    /\ fate = None
-----------------------------------------------------------------------------
(***************************************************************************)
(* score_duplicate                                                         *)
(***************************************************************************)
Upto(m, n) == IF m < n THEN m ELSE n
Difference(m, n) == IF m < n THEN n - m ELSE m - n

StartAlike(a, b) == \A n \in 1 .. Upto(2, Upto(Len(a), Len(b))) : a[n] = b[n]

\* _sim: the words in common and the common start
Sim(a, b) ==
    IF a = <<>> \/ b = <<>> THEN 0
    ELSE IF a = b THEN 240
    ELSE (204 * Cardinality(ToSet(a) \intersect ToSet(b))) \div Cardinality(ToSet(a) \union ToSet(b))
            + (IF StartAlike(a, b) THEN 36 ELSE 0)

\* Mutant of YearAlike: neighbouring years count in full.
YearAbout(x, y) == IF None \notin {x, y} /\ Difference(x, y) <= 2 THEN 240 ELSE 0

YearAlike(x, y) ==
    IF None \in {x, y} THEN 0 ELSE IF x = y THEN 240 ELSE IF Difference(x, y) <= 2 THEN 96 ELSE 0

\* By how much two numbers differ, slope times counted.
Near(m, n, slope) ==
    LET larger == m + n - Upto(m, n)
        off == (240 * slope * Difference(m, n)) \div larger
    IN  IF off < 240 THEN 240 - off ELSE 0

VolumeAlike(v, w) == IF None \in {v, w} THEN 0 ELSE Near(v.pages, w.pages, 4) + Near(v.size, w.size, 5)

\* The weighted sum, at most 0.94; that of a similar title by another author at most 0.45.
Score(x, y, common) ==
    LET title == Sim(x.title, y.title)
        author == Sim(x.author, y.author)
        sum == 10 * title + 6 * author + 2 * YearAlike(x.year, y.year) + VolumeAlike(x.volume, y.volume)
    IN  CASE common = "sha" -> 4800
          [] common = "isbn" -> 4560
          [] common = None -> IF title >= 221 /\ author < 96 THEN Upto(sum, 2160) ELSE Upto(sum, 4512)

\* Scores are rounded to thousandths, 4.8 of the units each.
AtLeast(score, thousandths) == 10 * score + 24 >= 48 * thousandths

-----------------------------------------------------------------------------
(***************************************************************************)
(* run_ingest_item                                                         *)
(***************************************************************************)
\* find_work_by_title_author, by the item's first author and any of the work's.
Found == item.title = work.title /\ item.author \in {work.author, coauthor}

\* What is compared then: title, first authors and year, so that auto_merge is
\* never set.

Bare(x) == [x EXCEPT !.volume = None]
Judged == Score(Bare(item), Bare(work), None)

Fate ==
    IF same = "sha" \/ (Found /\ AtLeast(Judged, 850)) THEN "duplicate"
    ELSE IF Found /\ AtLeast(Judged, 550) THEN "review"
    ELSE "new"

RunIngestItem ==
    /\ fate = None
    /\ fate' = Fate
    /\ UNCHANGED <<item, work, coauthor, same>>

Next == RunIngestItem

Spec == Init /\ [][Next]_vars
-----------------------------------------------------------------------------
(***************************************************************************)
(* Properties.                                                             *)
(***************************************************************************)
\* The weights, the thresholds and the lookup together: an item with a file the
\* catalog has is a duplicate, and no other is unless title and year agree and
\* are known; one of the same title and first author is never catalogued anew
\* without a review, if something is left of its title and of the author's name.
\* Behind that, scores do not depend on which of two is the newcomer, nothing is
\* more like an item than itself, again if something is left of its names, and
\* without a common file or ISBN nothing is certain.
DuplicatesAreJudged ==
    fate # None =>
        /\ same = "sha" => fate = "duplicate"
        /\ same = None /\ (item.title # work.title \/ item.title = <<>> \/ item.year # work.year \/ item.year = None) =>
            fate # "duplicate"
        /\ item.title = work.title /\ item.title # <<>> /\ item.author = work.author /\ item.author # <<>> => fate # "new"
        /\ Score(item, work, same) = Score(work, item, same)
        /\ item.title # <<>> /\ item.author # <<>> => Score(item, work, None) <= Score(item, item, None)
        /\ Score(item, work, None) < Score(item, work, "isbn")

\* Stated by the documents, and not kept: only a common file or ISBN merges, and
\* any other match is left to a librarian.  The pipeline merges by itself what has
\* title, author and year in common, and catalogues anew, without a review, what
\* it found by the second author of a work.
UncertainIsReviewed ==
    fate # None /\ Found /\ same = None /\ <<>> \notin {item.title, item.author, work.author} => fate = "review"
=============================================================================
