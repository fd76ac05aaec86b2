------------------------------ MODULE MCRights ------------------------------
(***************************************************************************)
(* The decisions about the metadata of an item, for TLC: Rights, with      *)
(* every Creative Commons license as the URL it is published under and the *)
(* other kinds of license fields, Classification, and Duplicates.  They    *)
(* share nothing, so a run explores each with the others at rest: part     *)
(* says which.                                                             *)
(***************************************************************************)
EXTENDS Rights, Sequences

CONSTANTS
    Parts,                                          \* the parts to explore
    Words, Tagged,                                  \* Classification
    Titles, Authors, Years, Volumes                 \* Duplicates

VARIABLES part, book, assigned, item, work, coauthor, same, fate

books == <<book, assigned>>
pairs == <<item, work, coauthor, same, fate>>

C == INSTANCE Classification
D == INSTANCE Duplicates

ASSUME PartsAssumption == Parts \subseteq {"rights", "classification", "duplicates"}
ASSUME YearsAssumption == Years \subseteq Nat \union {None} /\ None \notin Nat
ASSUME NamesAssumption == Titles \union Authors \subseteq Seq(STRING)
ASSUME VolumesAssumption ==
    /\ Volumes \subseteq [pages : Nat \ {0}, size : Nat \ {0}] \union {None}
    /\ None \notin [pages : Nat \ {0}, size : Nat \ {0}]
ASSUME FatesAssumption == None \notin {"sha", "isbn", "duplicate", "review", "new"}
ASSUME TextsAssumption == Words \subseteq DOMAIN C!Positive /\ Tagged \subseteq C!Slugs

Has(fragments) == [code |-> None, has |-> fragments]

MCUrls ==
    {CcUrl(terms) : terms \in CcTerms} \union {
        Has({}),                                                    \* none, or no license at all
        Has({"creativecommons.org"}),                               \* no license of the table
        Has({"creativecommons.org", "/by", "by-sa", "by-sa/3.0"}),  \* an older version
        Has({"creativecommons.org", "publicdomain"}),
        Has({"creativecommons.org", "publicdomain", "zero"}),
        Has({"zero"}),                                              \* /licenses/cc0 elsewhere
        [code |-> "ccby", has |-> {}]}

\* Second authors matter only where no volumes are compared.
Bare == {d \in D!Descriptions : d.volume = None}

\* A part at rest is in one of its initial states.
MCInit ==
    /\ part \in Parts
    /\ IF part = "rights" THEN Init ELSE request = (CHOOSE r \in Requests : TRUE) /\ decision = None
    /\ IF part = "classification" THEN C!Init ELSE book = (CHOOSE b \in C!Books : TRUE) /\ assigned = None
    /\ IF part = "duplicates" THEN D!Init /\ (coauthor = None \/ {item, work} \subseteq Bare)
       ELSE item = (CHOOSE d \in D!Descriptions : TRUE) /\ work = item
            /\ coauthor = None /\ same = None /\ fate = None

MCNext ==
    \/ part = "rights" /\ Next /\ UNCHANGED <<part, books, pairs>>
    \/ part = "classification" /\ C!Next /\ UNCHANGED <<part, vars, pairs>>
    \/ part = "duplicates" /\ D!Next /\ UNCHANGED <<part, vars, books>>

MCSpec == MCInit /\ [][MCNext]_<<vars, part, books, pairs>>

\* Titles with the same words, some of them, or none, in this or another order.
MCTitles ==
    {<<>>, <<"tarikh">>, <<"diwan">>, <<"tarikh", "diwan">>, <<"diwan", "tarikh">>,
     <<"tarikh", "muluk">>, <<"tarikh", "diwan", "muluk">>}
MCAuthors == {<<>>, <<"tabari">>, <<"tabari", "jarir">>, <<"jahiz">>}
MCVolumes == {None, [pages |-> 100, size |-> 100], [pages |-> 90, size |-> 80]}
-----------------------------------------------------------------------------
\* find_misplaced agrees with the rules about the categories they chose.
AuditAgrees == C!AuditAgrees

\* Merging and cataloguing keep to what files, titles, authors and years tell.
DuplicatesAreJudged == D!DuplicatesAreJudged

\* Stated by the documents, and not kept: a match that is not certain is reviewed.
UncertainIsReviewed == D!UncertainIsReviewed
=============================================================================
