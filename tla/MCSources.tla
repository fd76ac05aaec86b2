----------------------------- MODULE MCSources ------------------------------
(***************************************************************************)
(* Getting books from the sources, for TLC: the harvest loop, the passes   *)
(* of discovery and the fetching of an item's files.  Harvest reduces the  *)
(* other two to their results, so that no state is shared: a run explores  *)
(* each with the others at rest, and part says which.                      *)
(***************************************************************************)
EXTENDS Naturals, Sequences, FiniteSets

CONSTANTS
    Parts,                                              \* the parts to explore
    Items, Fates, Target, Batch, EmptyLimit, FailureLimit, MaxJobs, MaxFaults,   \* Harvest
    Sources, Listed, Fitting, Categories, Rows, MaxPages, Limit, Passes, Jobs,
    MaxChanges, None,                                   \* Discovery
    Plans, Attempts, MaxTries                           \* Fetch

Connectors == {"openiti", "gutenberg", "internet_archive", "oapen", "wikisource_ar"}

ASSUME PartsAssumption == Parts \subseteq {"harvest", "discovery", "fetch"}
ASSUME ItemsAssumption == Items \subseteq Nat /\ IsFiniteSet(Items)
ASSUME FatesAssumption == Fates \subseteq [Items -> {"ok", "gone", "fileless", "broken", "poison"}]
\* A batch is 40 items unless the command line says otherwise.
ASSUME CountsAssumption ==
    /\ {Target, EmptyLimit, FailureLimit, MaxFaults, MaxChanges} \subseteq Nat
    /\ {Batch, MaxJobs} \subseteq Nat \ {0}
\* A place with after = 0 is before every item.
ASSUME ListedAssumption == Listed \subseteq Nat \ {0} /\ IsFiniteSet(Listed) /\ Fitting \subseteq Listed
ASSUME SourcesAssumption ==
    Sources \subseteq Connectors /\ Categories \in Seq(SUBSET Listed) /\ Categories # <<>>
ASSUME PagingAssumption == {Rows, MaxPages} \subseteq Nat \ {0} /\ Limit \in Nat
ASSUME PassesAssumption == Jobs \subseteq Passes /\ None \notin Passes \union Listed \union [category : Nat, after : Nat]
\* OpenITI's discover_files gives one file per item.
ASSUME PlansAssumption ==
    /\ DOMAIN Plans \subseteq Connectors
    /\ \A c \in DOMAIN Plans :
        Plans[c] \in Seq(Nat \ {0}) /\ Plans[c] # <<>> /\ (c = "openiti" => Len(Plans[c]) = 1)
ASSUME LimitsAssumption == Attempts \in Nat /\ MaxTries \in Nat \ {0}

VARIABLES
    part,
    fate, status, due, waiting, pc, budget, requeued, processed, emptyRounds, faults,
    source, listing, rows, lock, place, at, page, created, mine, checked, steady, changes,
    connector, state, tries, file, url, asked, transient, saved, permanent, last

loop == <<fate, status, due, waiting, pc, budget, requeued, processed, emptyRounds, faults>>
pass == <<source, listing, rows, lock, place, at, page, created, mine, checked, steady, changes>>
try == <<connector, state, tries, file, url, asked, transient, saved, permanent, last>>

H == INSTANCE Harvest
D == INSTANCE Discovery WITH Items <- Listed, pc <- place
F == INSTANCE Fetch WITH source <- connector, pc <- state, at <- file

\* A part at rest is in one of its initial states.
Init ==
    /\ part \in Parts /\ H!Init /\ D!Init /\ F!Init
    /\ part # "discovery" =>
        source = (CHOOSE s \in Sources : TRUE) /\ listing = D!Ascending(Listed)
    /\ part # "harvest" => fate = CHOOSE f \in Fates : TRUE
    /\ part # "fetch" => connector = CHOOSE c \in DOMAIN Plans : TRUE

Next ==
    \/ part = "harvest" /\ H!Next /\ UNCHANGED <<part, pass, try>>
    \/ part = "discovery" /\ D!Next /\ UNCHANGED <<part, loop, try>>
    \/ part = "fetch" /\ F!Next /\ UNCHANGED <<part, loop, pass>>

\* The loop is one process that goes on running.
Spec == Init /\ [][Next]_<<part, loop, pass, try>> /\ WF_loop(part = "harvest" /\ H!HarvestLoop /\ UNCHANGED fate)

\* The first item of the harvest is gone for good, and at most one other fails.
MCFates ==
    {f \in [Items -> {"ok", "gone", "fileless", "broken", "poison"}] :
        /\ {i \in Items : f[i] = "gone"} = {1}
        /\ Cardinality({i \in Items : f[i] # "ok"}) <= 2}

\* Categories that overlap, one with more than a page.
MCCategories == <<{1, 2, 4}, {2, 3}, {4, 5}>>

\* Files of an item: OpenITI has one with many URLs, Gutenberg three with one
\* each, of the archive's two are chosen.
MCPlans == [openiti |-> <<3>>, gutenberg |-> <<1, 1, 1>>, internet_archive |-> <<1, 1>>]
-----------------------------------------------------------------------------
(***************************************************************************)
(* Properties: those of the parts.                                         *)
(***************************************************************************)
\* Rows, jobs and locals keep their types.
TypeOK == H!TypeOK /\ D!TypeOK /\ F!TypeOK

\* The loop asks for more only when everything it got was worked off, and "no
\* more eligible" is true of what was discovered.
RoundsAreTrue == H!RoundsAreTrue

\* A pass that ends below its limit has found all there was to find.
DiscoveryIsComplete == D!DiscoveryIsComplete

\* An item is given up only for what all its URLs answered.
GivenUpLate == F!GivenUpLate

\* The loop ends, unless it tries an item that fails without being gone for ever.
HarvestEnds == part = "harvest" => H!HarvestEnds
=============================================================================
