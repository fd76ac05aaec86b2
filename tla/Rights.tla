------------------------------- MODULE Rights -------------------------------
(***************************************************************************)
(* Rights decisions (rights/eligibility.py): classify_license and          *)
(* decide_eligibility, as the pipeline applies them to the metadata of an  *)
(* item.  A license is known by the code it is given as or by which of the *)
(* looked-for fragments its URL contains; reasons and evidence are left    *)
(* out.  Ingestion takes up the outcome as the item's rights class.        *)
(***************************************************************************)
EXTENDS Integers

CONSTANTS
    None,           \* no license, unknown death year, not decided yet
    Urls,           \* license URLs or codes that sources give
    Deaths,         \* Hijri death years of authors
    MaxDeath        \* openiti_max_death_ah

\* The keys of LICENSE_TABLE, all of which allow redistribution, and the terms
\* each stands for.
Terms == [
    pd |-> {}, cc0 |-> {}, ccby |-> {"by"}, ccbysa |-> {"by", "sa"}, ccbysa3 |-> {"by", "sa"},
    ccbync |-> {"by", "nc"}, ccbyncsa |-> {"by", "nc", "sa"}, ccbynd |-> {"by", "nd"},
    ccbyncnd |-> {"by", "nc", "nd"}]
Keys == DOMAIN Terms

Fragments == {"publicdomain", "zero", "creativecommons.org", "by-nc-sa", "by-nc-nd", "by-nc",
              "by-sa/3.0", "by-sa", "by-nd", "/by"}

Url == [code : Keys \union {None}, has : SUBSET Fragments]

Sources == {"gutenberg", "openiti", "wikisource_ar", "fixture", "internet_archive", "other"}
AutoPublish == {"verified_public_domain", "verified_open_license", "explicitly_authorized"}

Requests == [
    source : Sources, url : Urls, trusted : BOOLEAN, death : Deaths \union {None},
    lending : BOOLEAN, authorized : BOOLEAN, copyright : {"unknown", "yes", "no"}]

ASSUME NoneAssumption == None \notin Keys /\ None \notin Int
ASSUME InputsAssumption == Urls \subseteq Url /\ Deaths \subseteq Int /\ MaxDeath \in Int
-----------------------------------------------------------------------------
(***************************************************************************)
(* classify_license.                                                       *)
(***************************************************************************)
\* Mutant of CreativeCommons: the shorter names are tried first.
ShortestFirst == <<
    [name |-> "/by", key |-> "ccby"], [name |-> "by-nc", key |-> "ccbync"],
    [name |-> "by-nc-sa", key |-> "ccbyncsa"], [name |-> "by-nc-nd", key |-> "ccbyncnd"],
    [name |-> "by-sa/3.0", key |-> "ccbysa3"], [name |-> "by-sa", key |-> "ccbysa"],
    [name |-> "by-nd", key |-> "ccbynd"]>>

\* Tried in this order, for by-nc is part of by-nc-sa and every name begins
\* with by.
CreativeCommons == <<
    [name |-> "by-nc-sa", key |-> "ccbyncsa"], [name |-> "by-nc-nd", key |-> "ccbyncnd"],
    [name |-> "by-nc", key |-> "ccbync"], [name |-> "by-sa/3.0", key |-> "ccbysa3"],
    [name |-> "by-sa", key |-> "ccbysa"], [name |-> "by-nd", key |-> "ccbynd"],
    [name |-> "/by", key |-> "ccby"]>>

\* The key of the first name a URL has.
Named(url) ==
    LET found == {n \in 1 .. 7 : CreativeCommons[n].name \in url.has}
    IN  IF found = {} THEN None
        ELSE CreativeCommons[CHOOSE n \in found : \A k \in found : n <= k].key

\* The test for zero comes after one that holds of every such URL, and is
\* never reached by it.
ClassifyLicense(url) ==
    IF url.code # None THEN url.code
    ELSE IF "publicdomain" \in url.has THEN "pd"
    ELSE IF "zero" \in url.has THEN "cc0"
    ELSE IF "creativecommons.org" \in url.has THEN Named(url)
    ELSE None
-----------------------------------------------------------------------------
(***************************************************************************)
(* decide_eligibility.                                                     *)
(***************************************************************************)
Decision(eligibility, license) == [eligibility |-> eligibility, license |-> license]

Or(match, default) == IF match = None THEN default ELSE match

Gutenberg(r, match) ==
    IF r.copyright = "no" \/ match # None
    THEN Decision("verified_public_domain", Or(match, "pd"))
    ELSE Decision("uncertain", None)

\* Mutant of OpenITI: an unknown year counts as zero.
OpenITIUndated(r, match) ==
    IF r.death = None \/ r.death <= MaxDeath
    THEN Decision("verified_open_license", "ccbyncsa")
    ELSE Decision("uncertain", "ccbyncsa")

OpenITI(r, match) ==
    IF r.death = None THEN Decision("uncertain", Or(match, "ccbyncsa"))
    ELSE IF r.death > MaxDeath THEN Decision("uncertain", "ccbyncsa")
    ELSE Decision("verified_open_license", "ccbyncsa")

\* Mutant of InternetArchive: any license mark is believed.
ArchiveBelieved(r, match) ==
    IF match = None THEN Decision("uncertain", None)
    ELSE Decision(IF match = "pd" THEN "verified_public_domain" ELSE "verified_open_license", match)

InternetArchive(r, match) ==
    IF match = None \/ ~r.trusted THEN Decision("uncertain", match)
    ELSE Decision(IF match = "pd" THEN "verified_public_domain" ELSE "verified_open_license", match)

\* wikisource_ar, and every source without a rule of its own.
ByLicense(match) ==
    Decision(IF match = None THEN "uncertain" ELSE "verified_open_license", match)

BySource(r, match) ==
    CASE r.source = "gutenberg" -> Gutenberg(r, match)
      [] r.source = "openiti" -> OpenITI(r, match)
      [] r.source = "fixture" -> Decision("explicitly_authorized", Or(match, "cc0"))
      [] r.source = "internet_archive" -> InternetArchive(r, match)
      [] r.source \in {"wikisource_ar", "other"} -> ByLicense(match)

DecideEligibility(r) ==
    IF r.lending \/ r.copyright = "yes" THEN Decision("prohibited", None)
    ELSE IF r.authorized THEN Decision("explicitly_authorized", ClassifyLicense(r.url))
    ELSE BySource(r, ClassifyLicense(r.url))
-----------------------------------------------------------------------------
(***************************************************************************)
(* The pipeline asks once for an item.                                     *)
(***************************************************************************)
VARIABLES
    request,        \* what the connector's metadata say of an item
    decision        \* the item's eligibility and license, None before

vars == <<request, decision>>

Decisions == [eligibility : AutoPublish \union {"uncertain", "prohibited"}, license : Keys \union {None}]

TypeOK == request \in Requests /\ decision \in Decisions \union {None}

Init == request \in Requests /\ decision = None

Decide ==
    /\ decision = None
    /\ decision' = DecideEligibility(request)
    /\ UNCHANGED request

Next == Decide

Spec == Init /\ [][Next]_vars
-----------------------------------------------------------------------------
(***************************************************************************)
(* Properties.                                                             *)
(***************************************************************************)
Published == decision # None /\ decision.eligibility \in AutoPublish

\* What is published without a librarian is neither lent nor in copyright, and
\* unless it is authorized, there is a license for it and the issuer of that
\* license is trusted: the source itself or, in the archive, the collection;
\* for OpenITI, the author died long enough ago.
AutoPublishIsJustified ==
    Published =>
        /\ ~request.lending /\ request.copyright # "yes"
        /\ \/ request.authorized
           \/ /\ decision.license # None
              /\ request.source = "internet_archive" => request.trusted
              /\ request.source = "openiti" => request.death # None /\ request.death <= MaxDeath

\* How far a decision goes.
Rank(d) == CASE d.eligibility = "prohibited" -> 0
             [] d.eligibility = "uncertain" -> 1
             [] d.eligibility \in AutoPublish -> 2

\* The same request with a piece of evidence missing.
Weaker(r) == {
    [r EXCEPT !.url = [code |-> None, has |-> {}]], [r EXCEPT !.trusted = FALSE],
    [r EXCEPT !.death = None], [r EXCEPT !.authorized = FALSE],
    [r EXCEPT !.lending = TRUE], [r EXCEPT !.copyright = "yes"]}

\* Missing evidence never helps: no book is published because less is known of it.
EvidenceIsNeeded ==
    decision # None =>
        \A r \in Weaker(request) : Rank(DecideEligibility(r)) <= Rank(decision)

\* The URL of a Creative Commons license with these terms, as published.
CcNames(terms) ==
    CASE terms = {"by"} -> {"/by"}
      [] terms = {"by", "sa"} -> {"/by", "by-sa"}
      [] terms = {"by", "nd"} -> {"/by", "by-nd"}
      [] terms = {"by", "nc"} -> {"/by", "by-nc"}
      [] terms = {"by", "nc", "sa"} -> {"/by", "by-nc", "by-nc-sa"}
      [] terms = {"by", "nc", "nd"} -> {"/by", "by-nc", "by-nc-nd"}
CcUrl(terms) == [code |-> None, has |-> {"creativecommons.org"} \union CcNames(terms)]
CcTerms == {Terms[k] : k \in Keys} \ {{}}

\* A book is published under the terms its source named, no more and no less;
\* OpenITI's texts have terms of their own.
TermsAreKept ==
    Published /\ request.source # "openiti" =>
        \A terms \in CcTerms : request.url = CcUrl(terms) =>
            decision.license # None /\ Terms[decision.license] = terms
=============================================================================
