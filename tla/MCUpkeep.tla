------------------------------ MODULE MCUpkeep ------------------------------
(***************************************************************************)
(* The files and the upkeep of a published catalog, for TLC: the making    *)
(* and the rebuilding of EPUBs, the serving of ranges, and the passes of   *)
(* reclassification.  They share the write lock only, which those that use *)
(* it take from others as well, so a run explores each with the others at  *)
(* rest: part says which.                                                  *)
(***************************************************************************)
EXTENDS Ranges, Sequences, FiniteSets

CONSTANTS
    Parts,                                              \* the parts to explore
    Books, Digests, First, Capped, Builds, Every, Readers, Worker, Command, MaxRuns,    \* Rebuild
    Works, Old, New, Ingested, Passes, Boots, Forced, Current, MaxEdits,                \* Catalog
    Parasize, MaxFiles, MaxLines                        \* EpubBuild

ASSUME PartsAssumption == Parts \subseteq {"rebuild", "catalog", "epub", "ranges"}
ASSUME BooksAssumption ==
    /\ Books = 1 .. Cardinality(Books) /\ Capped \subseteq Digests
    /\ First \in [Books -> Digests] /\ Builds \in [Books -> SUBSET Digests]
ASSUME ActorsAssumption == Worker # Command /\ None \notin {Worker, Command} \union Digests
ASSUME PassesAssumption == Boots \subseteq Passes /\ Forced \subseteq Passes \ Boots
ASSUME VersionAssumption == None \notin Passes /\ None # Current /\ None \notin {"draft", "published", "hidden"}
\* select_assignments gives a work one primary category and at most one more, and
\* where it gives none the work is unclassified.
ASSUME RowsAssumption ==
    \A by \in {Old, New, Ingested} : DOMAIN by = Works /\ \A w \in Works :
        Cardinality({r \in by[w] : r.primary}) = 1 /\ Cardinality(by[w]) <= 2
ASSUME TextsAssumption == {Parasize, MaxFiles} \subseteq Nat \ {0}
ASSUME BoundsAssumption == Every \in Nat \ {0} /\ {MaxRuns, MaxEdits, MaxLines} \subseteq Nat

VARIABLES
    part,
    row, others, objects, lost, writer, place, at, built, own, seen, adding, opening, runs,
    status, rows, unclassified, version, lock, pc, listed, todo, mine, missed, completed,
    swallowed, edits,
    source, lines, chapters, heading, buf, files

rebuild == <<row, others, objects, lost, writer, place, at, built, own, seen, adding, opening, runs>>
categories == <<status, rows, unclassified, version, lock, pc, listed, todo, mine, missed,
                completed, swallowed, edits>>
epub == <<source, lines, chapters, heading, buf, files>>

R == INSTANCE Rebuild WITH Works <- Books, lock <- writer, pc <- place, mine <- own
C == INSTANCE Catalog
E == INSTANCE EpubBuild

\* A part at rest is in one of its initial states.
MCInit ==
    /\ part \in Parts /\ Init /\ R!Init /\ C!Init /\ E!Init
    /\ part # "ranges" => header = None /\ size = CHOOSE s \in Sizes : TRUE
    /\ part # "rebuild" => lost = {}
    /\ part # "catalog" => ~unclassified /\ status = [w \in Works |-> None]
    /\ part # "epub" => source = "openiti"

MCNext ==
    \/ part = "rebuild" /\ R!Next /\ UNCHANGED <<part, categories, epub, vars>>
    \/ part = "catalog" /\ C!Next /\ UNCHANGED <<part, rebuild, epub, vars>>
    \/ part = "epub" /\ E!Next /\ UNCHANGED <<part, rebuild, categories, vars>>
    \/ part = "ranges" /\ Next /\ UNCHANGED <<part, rebuild, categories, epub>>

MCSpec == MCInit /\ [][MCNext]_<<part, rebuild, categories, epub, vars>>

\* Two books, the first damaged or not; each may come out anew, or as another's.
MCFirst == <<"a", "b">>
MCBuilds == <<{"a", "c"}, {"c", "d"}>>

Is(slug) == [slug |-> slug, primary |-> TRUE]
Also(slug) == [slug |-> slug, primary |-> FALSE]

\* The rules of today move, add and drop a category.
MCOld == <<{Is("novels")}, {Is("fiqh")}, {Is("unclassified")}>>
MCNew == <<{Is("hadith")}, {Is("fiqh"), Also("hadith")}, {Is("unclassified")}>>

\* Without the author's name there is less to go by.
MCIngested == <<{Is("unclassified")}, {Is("fiqh")}, {Is("unclassified")}>>
-----------------------------------------------------------------------------
(***************************************************************************)
(* Properties: those of the parts.                                         *)
(***************************************************************************)
\* Replacing files takes none from the catalog or from a reader.
FilesAreServed == R!FilesAreServed

\* A work keeps one primary category whatever interleaves.
OnePrimary == C!OnePrimary

\* The version tells by which rules the catalog is classified.
VersionIsTrue == C!VersionIsTrue

\* An EPUB shows every line of its text, in order and under its heading.
NothingIsDropped == E!NothingIsDropped
=============================================================================
