--------------------------- MODULE Classification ---------------------------
(***************************************************************************)
(* Classifying one book (classification/engine.py): score_categories and   *)
(* select_assignments, as the pipeline and reclassify_catalog call them,   *)
(* and the audit find_misplaced, which judges the outcome by contradictions.*)
(*                                                                         *)
(* A text is the set of the telling words in it; what matters of a word is *)
(* for which categories it is evidence and which markers of the rules it   *)
(* matches.  Tags are the categories that TAG_MAP makes of them.  Scores   *)
(* are in thousandths.                                                     *)
(***************************************************************************)
EXTENDS Naturals, FiniteSetsExt

CONSTANTS
    None,           \* not classified yet
    Words,          \* the words that books may have
    Tagged          \* the categories that tags may name

\* A part of the taxonomy, by parent.
Parent == [hadith |-> "din", tafsir |-> "din", aqida |-> "din", novels |-> "lang-adab",
           stories |-> "lang-adab", history |-> "", modern_history |-> "history",
           physics |-> "sciences", chemistry |-> "sciences", math |-> "sciences",
           astronomy |-> "sciences", medicine |-> "", economics |-> "society"]
Slugs == DOMAIN Parent

Science == {"physics", "chemistry", "math", "astronomy"}
Medicine == {"medicine"}
Fiction == {"novels", "stories"}

\* By word, the categories it is evidence for and the weights of its phrases.
Positive == [
    ahadith |-> [hadith |-> 700], tafsir_alquran |-> [tafsir |-> 1250], aqida |-> [aqida |-> 850],
    hadith |-> <<>>, riwaya_haditha |-> [novels |-> 1400], qisas |-> [stories |-> 550],
    hawliyyat |-> [history |-> 700], tarikh_dimashq |-> [history |-> 700],
    istimar |-> [modern_history |-> 850], tarikh_hadith |-> [modern_history |-> 850],
    alfizya |-> [physics |-> 900], kimiya |-> [chemistry |-> 900], aljabr |-> [math |-> 900],
    anwa |-> [astronomy |-> 650], fi_altibb |-> [medicine |-> 1450], dawa |-> [medicine |-> 550],
    kharaj |-> [economics |-> 650], saada |-> <<>>, ahlam |-> <<>>]

\* Words that hold the names of categories.
Names == [alfizya |-> {"physics"}, tarikh_hadith |-> {"history", "modern_history"}]

\* The words that match each kind of marker.
Religion == {"ahadith", "tafsir_alquran", "aqida", "hadith"}
MedicineOverride == {"fi_altibb"}
ModernHistory == {"tarikh_hadith"}
Evidence == [physics |-> {"alfizya"}, chemistry |-> {"kimiya"}, math |-> {"aljabr"}]


VARIABLES
    book,           \* title, the other texts, tags
    assigned        \* its work_categories and the need of a review, None before

vars == <<book, assigned>>

AtMostOne(S) == {{}} \union {{s} : s \in S}
AtMostTwo(S) == {{}} \union {{s, t} : s, t \in S}

\* Up to two telling words in the title are a bound of the model, like one
\* elsewhere and one tag.
Books == [title : AtMostTwo(Words), rest : AtMostOne(Words), tags : AtMostOne(Tagged)]

Rows == [slug : Slugs \union {"unclassified"}, score : 0 .. 1000, primary : BOOLEAN]

TypeOK ==
    /\ book \in Books
    /\ assigned # None => assigned.rows \subseteq Rows /\ assigned.review \in BOOLEAN
-----------------------------------------------------------------------------
(***************************************************************************)
(* score_categories.                                                       *)
(***************************************************************************)
Hay(b) == b.title \union b.rest
Hits(words, markers) == words \intersect markers # {}

Points(word, slug) ==
    (IF slug \in DOMAIN Positive[word] THEN Positive[word][slug] ELSE 0)
    + IF word \in DOMAIN Names /\ slug \in Names[word] THEN 150 ELSE 0

Evident(b, slug) ==
    MapThenSumSet(LAMBDA w : Points(w, slug), Hay(b)) + IF slug \in b.tags THEN 850 ELSE 0

\* Mutant of Vetoed: religious novels are let through.
NovelsAllowed(b, slug) ==
    /\ Hits(Hay(b), Religion)
    /\ \/ slug \in Science \ b.tags
       \/ slug \in Medicine \ b.tags /\ ~Hits(Hay(b), MedicineOverride)
       \/ slug = "modern_history" /\ ~Hits(Hay(b), ModernHistory)

\* The contradictions that take a category out.
Vetoed(b, slug) ==
    \/ /\ Hits(Hay(b), Religion)
       /\ \/ slug \in Science \ b.tags
          \/ slug \in Medicine \ b.tags /\ ~Hits(Hay(b), MedicineOverride)
          \/ slug \in Fiction
          \/ slug = "modern_history" /\ ~Hits(Hay(b), ModernHistory)
    \/ slug = "chemistry" /\ "saada" \in Hay(b)
    \/ slug = "tafsir" /\ "ahlam" \in Hay(b)
    \/ slug = "economics" /\ "aqida" \in Hay(b)

Score(b, slug) ==
    IF Vetoed(b, slug) THEN 0 ELSE Min({1000, Evident(b, slug)})

ScoreCategories(b) == {s \in Slugs : Score(b, s) > 0}
-----------------------------------------------------------------------------
(***************************************************************************)
(* select_assignments.                                                     *)
(***************************************************************************)
Low == 520
Extra == 720

Depth(slug) == IF Parent[slug] = "" THEN 0 ELSE 1

\* The order of the results: by score, then the deeper path; ties stand in the
\* order in which the evidence was found, which is not modelled.
Before(b, s, t) ==
    Score(b, s) > Score(b, t) \/ (Score(b, s) = Score(b, t) /\ Depth(s) > Depth(t))
First(b, slugs) == {s \in slugs : \A t \in slugs : ~Before(b, t, s)}

Row(b, slug, primary) == [slug |-> slug, score |-> Score(b, slug), primary |-> primary]

Related(s, t) == s = t \/ Parent[s] = t \/ Parent[t] = s

\* The best category if it is good enough, and the best of those that are far
\* better than that and neither above nor below it.
Selections(b) ==
    LET others(top) == {s \in ScoreCategories(b) : Score(b, s) >= Extra /\ ~Related(s, top)}
        pairs(top) == {{Row(b, top, TRUE), Row(b, s, FALSE)} : s \in First(b, others(top))}
    IN  UNION {IF others(top) = {} THEN {{Row(b, top, TRUE)}} ELSE pairs(top) :
               top \in {s \in First(b, ScoreCategories(b)) : Score(b, s) >= Low}}

Unclassified == {[slug |-> "unclassified", score |-> 0, primary |-> TRUE]}
-----------------------------------------------------------------------------
Init == book \in Books /\ assigned = None

\* A book without a category is put where a librarian finds it.
Classify ==
    /\ assigned = None
    /\ \/ \E rows \in Selections(book) : assigned' = [rows |-> rows, review |-> FALSE]
       \/ Selections(book) = {} /\ assigned' = [rows |-> Unclassified, review |-> TRUE]
    /\ UNCHANGED book

Next == Classify

Spec == Init /\ [][Next]_vars
-----------------------------------------------------------------------------
(***************************************************************************)
(* The audit, and the property.                                            *)
(***************************************************************************)
\* What contradictions says of a book with this title and these tags.
Contradictions(title, tags, slug) ==
    LET found == [
        religion_in_science |-> Hits(title, Religion) /\ slug \in Science \ tags,
        religion_in_medicine |->
            Hits(title, Religion) /\ slug \in Medicine /\ ~Hits(title, MedicineOverride),
        religion_in_fiction |-> Hits(title, Religion) /\ slug \in Fiction,
        hadith_in_modern_history |->
            Hits(title, Religion) /\ slug = "modern_history" /\ ~Hits(title, ModernHistory),
        without_evidence |->
            slug \in DOMAIN Evidence \ tags /\ ~Hits(title, Evidence[slug])]
    IN  {issue \in DOMAIN found : found[issue]}

\* What of it is due to texts or tags that only the scoring looks at.
Unseen(b, slug) ==
    (IF Hits(b.rest, MedicineOverride) \/ slug \in b.tags THEN {"religion_in_medicine"} ELSE {})
    \union (IF Hits(b.rest, ModernHistory) THEN {"hadith_in_modern_history"} ELSE {})
    \union (IF slug \in DOMAIN Evidence /\ Hits(b.rest, Evidence[slug])
            THEN {"without_evidence"} ELSE {})

\* find_misplaced never reports the primary category the rules themselves chose,
\* but for what it cannot see.
AuditAgrees ==
    assigned # None => \A row \in assigned.rows :
        row.primary /\ row.slug # "unclassified" =>
            Contradictions(book.title, book.tags, row.slug) \subseteq Unseen(book, row.slug)
=============================================================================
