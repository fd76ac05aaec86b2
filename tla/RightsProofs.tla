---------------------------- MODULE RightsProofs ----------------------------
(***************************************************************************)
(* Theorems about Rights, for every license URL, every death year and      *)
(* every limit, about Duplicates, for any titles, authors, years and       *)
(* files, and about Classification, for any words and tags of a book.      *)
(***************************************************************************)
EXTENDS MCRights, DataLemmas, TLAPS

\* LICENSE_TABLE has nine rows.
LEMMA KeysAre == Keys = {"pd", "cc0", "ccby", "ccbysa", "ccbysa3", "ccbync", "ccbyncsa", "ccbynd", "ccbyncnd"}
  BY DEF Keys, Terms

\* A URL with a name of the list gets the key next to one of its names, for
\* there is a first among them.
LEMMA NamedType == \A url \in Url : Named(url) \in Keys \union {None}
<1> SUFFICES ASSUME NEW url \in Url PROVE Named(url) \in Keys \union {None}
  OBVIOUS
<1> DEFINE found == {n \in 1 .. 7 : CreativeCommons[n].name \in url.has}
<1>1. CASE found = {}
  BY <1>1 DEF Named
<1>2. CASE found # {}
  <2>1. \E n \in found : \A k \in found : n <= k
    <3>1. \A n \in found : n \in Int /\ 1 <= n /\ n <= 7
      OBVIOUS
    <3> HIDE DEF found
    <3>2. CASE 1 \in found
      BY <3>1, <3>2
    <3>3. CASE 1 \notin found /\ 2 \in found
      BY <3>1, <3>3
    <3>4. CASE 1 \notin found /\ 2 \notin found /\ 3 \in found
      BY <3>1, <3>4
    <3>5. CASE 1 \notin found /\ 2 \notin found /\ 3 \notin found /\ 4 \in found
      BY <3>1, <3>5
    <3>6. CASE 1 \notin found /\ 2 \notin found /\ 3 \notin found /\ 4 \notin found
      <4>1. CASE 5 \in found
        BY <3>1, <3>6, <4>1
      <4>2. CASE 5 \notin found /\ 6 \in found
        BY <3>1, <3>6, <4>2
      <4>3. CASE 5 \notin found /\ 6 \notin found
        BY <1>2, <3>1, <3>6, <4>3
      <4> QED
        BY <4>1, <4>2, <4>3
    <3> QED
      BY <3>2, <3>3, <3>4, <3>5, <3>6
  <2> DEFINE least == CHOOSE n \in found : \A k \in found : n <= k
  <2>2. least \in 1 .. 7
    BY <2>1
  <2>3. Named(url) = CreativeCommons[least].key
    BY <1>2 DEF Named
  <2> HIDE DEF least
  <2>4. CreativeCommons[least].key \in Keys
    BY <2>2, KeysAre DEF CreativeCommons
  <2> QED
    BY <2>3, <2>4
<1> QED
  BY <1>1, <1>2

\* classify_license returns a row of the table or nothing.
LEMMA ClassifyType == \A url \in Url : ClassifyLicense(url) \in Keys \union {None}
  BY NamedType, KeysAre DEF ClassifyLicense, Url

-----------------------------------------------------------------------------
(***************************************************************************)
(* decide_eligibility in one formula: what it publishes, and how far it    *)
(* goes.  The lemmas are about any request, as EvidenceIsNeeded compares   *)
(* with some that no source makes.                                         *)
(***************************************************************************)
AnyRequest == [
    source : Sources, url : Url, trusted : BOOLEAN, death : Int \union {None},
    lending : BOOLEAN, authorized : BOOLEAN, copyright : {"unknown", "yes", "no"}]

\* What clears a request for publication, and what bars it.
Cleared(r) ==
    LET match == ClassifyLicense(r.url) IN
    \/ r.authorized
    \/ r.source = "gutenberg" /\ (r.copyright = "no" \/ match # None)
    \/ r.source = "openiti" /\ r.death # None /\ r.death <= MaxDeath
    \/ r.source = "fixture"
    \/ r.source = "internet_archive" /\ match # None /\ r.trusted
    \/ r.source \in {"wikisource_ar", "other"} /\ match # None
Barred(r) == r.lending \/ r.copyright = "yes"

LEMMA RequestsAreAny == Requests \subseteq AnyRequest
  BY InputsAssumption DEF Requests, AnyRequest

\* A source's own rule: its decision, and when it publishes.
LEMMA SourceRules ==
  ASSUME NEW r \in AnyRequest, ~r.authorized, ~Barred(r)
  PROVE  LET d == BySource(r, ClassifyLicense(r.url)) IN
         /\ d \in Decisions /\ d.eligibility # "prohibited"
         /\ d.eligibility \in AutoPublish <=> Cleared(r)
         /\ Cleared(r) => d.license # None
<1> DEFINE match == ClassifyLicense(r.url)
           Right(d) == /\ d \in Decisions /\ d.eligibility # "prohibited"
                       /\ d.eligibility \in AutoPublish <=> Cleared(r)
                       /\ Cleared(r) => d.license # None
<1>1. match \in Keys \union {None}
  BY ClassifyType DEF AnyRequest
<1>2. r.source \in Sources /\ r.death \in Int \union {None} /\ r.trusted \in BOOLEAN
  BY DEF AnyRequest
<1>3. Cleared(r) <=>
        \/ r.source = "gutenberg" /\ (r.copyright = "no" \/ match # None)
        \/ r.source = "openiti" /\ r.death # None /\ r.death <= MaxDeath
        \/ r.source = "fixture"
        \/ r.source = "internet_archive" /\ match # None /\ r.trusted
        \/ r.source \in {"wikisource_ar", "other"} /\ match # None
  BY DEF Cleared
<1> HIDE DEF match
<1>4. CASE r.source = "gutenberg"
  <2>1. Right(Gutenberg(r, match))
    BY <1>1, <1>3, <1>4, KeysAre, NoneAssumption DEF Gutenberg, Decision, Or, Decisions, AutoPublish
  <2> QED
    BY <1>4, <2>1 DEF BySource, match
<1>5. CASE r.source = "openiti"
  <2>1. Right(OpenITI(r, match))
    BY <1>1, <1>2, <1>3, <1>5, KeysAre, NoneAssumption, InputsAssumption
    DEF OpenITI, Decision, Or, Decisions, AutoPublish
  <2> QED
    BY <1>5, <2>1 DEF BySource, match
<1>6. CASE r.source = "fixture"
  <2>1. Right(Decision("explicitly_authorized", Or(match, "cc0")))
    BY <1>1, <1>3, <1>6, KeysAre, NoneAssumption DEF Decision, Or, Decisions, AutoPublish
  <2> QED
    BY <1>6, <2>1 DEF BySource, match
<1>7. CASE r.source = "internet_archive"
  <2>1. Right(InternetArchive(r, match))
    BY <1>1, <1>2, <1>3, <1>7 DEF InternetArchive, Decision, Decisions, AutoPublish
  <2> QED
    BY <1>7, <2>1 DEF BySource, match
<1>8. CASE r.source \in {"wikisource_ar", "other"}
  <2>1. Right(ByLicense(match))
    BY <1>1, <1>3, <1>8 DEF ByLicense, Decision, Decisions, AutoPublish
  <2>2. BySource(r, match) = ByLicense(match)
    BY <1>8 DEF BySource
  <2> QED
    BY <2>1, <2>2 DEF match
<1> QED
  BY <1>2, <1>4, <1>5, <1>6, <1>7, <1>8 DEF Sources

\* decide_eligibility publishes exactly what is cleared and not barred, and
\* prohibits exactly what is barred.
LEMMA DecisionIs ==
  ASSUME NEW r \in AnyRequest
  PROVE  LET d == DecideEligibility(r) IN
         /\ d \in Decisions
         /\ d.eligibility = "prohibited" <=> Barred(r)
         /\ d.eligibility \in AutoPublish <=> Cleared(r) /\ ~Barred(r)
         /\ d.eligibility \in AutoPublish => r.authorized \/ d.license # None
<1> DEFINE match == ClassifyLicense(r.url)
<1>1. match \in Keys \union {None}
  BY ClassifyType DEF AnyRequest
<1> HIDE DEF match
<1>2. CASE Barred(r)
  <2>1. DecideEligibility(r) = Decision("prohibited", None)
    BY <1>2 DEF DecideEligibility, Barred
  <2> QED
    BY <1>2, <2>1 DEF Decision, Decisions, AutoPublish
<1>3. CASE ~Barred(r) /\ r.authorized
  <2>1. DecideEligibility(r) = Decision("explicitly_authorized", match)
    BY <1>3 DEF DecideEligibility, Barred, match
  <2>2. Cleared(r)
    BY <1>3 DEF Cleared
  <2> QED
    BY <1>1, <1>3, <2>1, <2>2 DEF Decision, Decisions, AutoPublish
<1>4. CASE ~Barred(r) /\ ~r.authorized
  <2>1. DecideEligibility(r) = BySource(r, ClassifyLicense(r.url))
    BY <1>4 DEF DecideEligibility, Barred
  <2> QED
    BY <1>4, <2>1, SourceRules
<1> QED
  BY <1>2, <1>3, <1>4

LEMMA RankIs ==
  ASSUME NEW r \in AnyRequest
  PROVE  Rank(DecideEligibility(r)) = IF Barred(r) THEN 0 ELSE IF Cleared(r) THEN 2 ELSE 1
<1> DEFINE d == DecideEligibility(r)
<1>1. /\ d \in Decisions
      /\ d.eligibility = "prohibited" <=> Barred(r)
      /\ d.eligibility \in AutoPublish <=> Cleared(r) /\ ~Barred(r)
  BY DecisionIs
<1> HIDE DEF d
<1>2. CASE d.eligibility = "prohibited"
  <2>1. Rank(d) = 0
    BY <1>2 DEF Rank, AutoPublish
  <2> QED
    BY <1>1, <1>2, <2>1 DEF d
<1>3. CASE d.eligibility = "uncertain"
  <2>1. Rank(d) = 1 /\ d.eligibility \notin AutoPublish
    BY <1>3 DEF Rank, AutoPublish
  <2>2. ~Barred(r) /\ ~Cleared(r)
    BY <1>1, <1>3, <2>1
  <2> QED
    BY <2>1, <2>2 DEF d
<1>4. CASE d.eligibility \in AutoPublish
  <2>1. Rank(d) = 2
    BY <1>4 DEF Rank, AutoPublish
  <2> QED
    BY <1>1, <1>4, <2>1 DEF d
<1> QED
  BY <1>1, <1>2, <1>3, <1>4 DEF Decisions
-----------------------------------------------------------------------------
(***************************************************************************)
(* The specification.                                                      *)
(***************************************************************************)
\* What is decided is what decide_eligibility says of the request, which does
\* not change: each property then is one of decide_eligibility.
IInv == request \in Requests /\ decision \in {None, DecideEligibility(request)}

LEMMA Invariance == Spec => []IInv
<1>1. Init => IInv
  BY DEF Init, IInv
<1>2. IInv /\ [Next]_vars => IInv'
  BY DEF IInv, Next, Decide, vars
<1> QED
  BY <1>1, <1>2, PTL DEF Spec

\* Every decision is one of the five classes, with a license of the table or none.
THEOREM TypeCorrect == Spec => []TypeOK
<1>1. IInv => TypeOK
  BY DecisionIs, RequestsAreAny DEF IInv, TypeOK
<1> QED
  BY <1>1, Invariance, PTL

\* Nothing lent, in copyright, unlicensed, of an untrusted collection or of a
\* recent author is published without authorization, whatever its metadata say.
THEOREM PublicationIsJustified == Spec => []AutoPublishIsJustified
<1>1. IInv => AutoPublishIsJustified
  <2> SUFFICES ASSUME IInv, Published PROVE AutoPublishIsJustified
    BY DEF AutoPublishIsJustified
  <2>1. request \in AnyRequest /\ decision = DecideEligibility(request)
    BY RequestsAreAny DEF IInv, Published
  <2>2. Cleared(request) /\ ~Barred(request)
    BY <2>1, DecisionIs DEF Published
  <2>3. request.authorized \/ decision.license # None
    BY <2>1, DecisionIs DEF Published
  <2>4. CASE request.authorized
    BY <2>2, <2>4 DEF AutoPublishIsJustified, Barred
  <2>5. CASE ~request.authorized
    BY <2>2, <2>3, <2>5 DEF AutoPublishIsJustified, Barred, Cleared
  <2> QED
    BY <2>4, <2>5
<1> QED
  BY <1>1, Invariance, PTL

\* A request with less evidence is never cleared where the full one is not, nor
\* one barred where the weaker is not.
LEMMA WeakerIsWeaker ==
  ASSUME NEW r \in AnyRequest, NEW w \in Weaker(r)
  PROVE  /\ w \in AnyRequest
         /\ Barred(r) => Barred(w)
         /\ Cleared(w) => Cleared(r)
<1>1. CASE w = [r EXCEPT !.url = [code |-> None, has |-> {}]]
  <2>1. w.url = [code |-> None, has |-> {}] /\ w.url \in Url
    BY <1>1 DEF AnyRequest, Url
  <2>2. ClassifyLicense(w.url) = None
    BY <2>1 DEF ClassifyLicense
  <2>3. /\ w \in AnyRequest
        /\ w.source = r.source /\ w.trusted = r.trusted /\ w.death = r.death
        /\ w.lending = r.lending /\ w.authorized = r.authorized /\ w.copyright = r.copyright
    BY <1>1, <2>1 DEF AnyRequest
  <2> QED
    BY <2>2, <2>3 DEF Barred, Cleared
<1>2. CASE w = [r EXCEPT !.trusted = FALSE]
  BY <1>2 DEF AnyRequest, Barred, Cleared
<1>3. CASE w = [r EXCEPT !.death = None]
  BY <1>3 DEF AnyRequest, Barred, Cleared
<1>4. CASE w = [r EXCEPT !.authorized = FALSE]
  BY <1>4 DEF AnyRequest, Barred, Cleared
<1>5. CASE w = [r EXCEPT !.lending = TRUE]
  BY <1>5 DEF AnyRequest, Barred, Cleared
<1>6. CASE w = [r EXCEPT !.copyright = "yes"]
  <2>1. /\ w \in AnyRequest /\ w.copyright = "yes"
        /\ w.source = r.source /\ w.trusted = r.trusted /\ w.death = r.death
        /\ w.lending = r.lending /\ w.authorized = r.authorized /\ w.url = r.url
    BY <1>6 DEF AnyRequest
  <2>2. Cleared(w) => Cleared(r)
    BY <2>1 DEF Cleared
  <2> QED
    BY <2>1, <2>2 DEF Barred
<1> QED
  BY <1>1, <1>2, <1>3, <1>4, <1>5, <1>6 DEF Weaker

\* Leaving evidence out of a request never turns it into a publication.
THEOREM EvidenceIsAlwaysNeeded == Spec => []EvidenceIsNeeded
<1>1. IInv => EvidenceIsNeeded
  <2> SUFFICES ASSUME IInv, decision # None, NEW w \in Weaker(request)
               PROVE  Rank(DecideEligibility(w)) <= Rank(decision)
    BY DEF EvidenceIsNeeded
  <2>1. request \in AnyRequest /\ decision = DecideEligibility(request)
    BY RequestsAreAny DEF IInv
  <2>2. /\ w \in AnyRequest
        /\ Barred(request) => Barred(w)
        /\ Cleared(w) => Cleared(request)
    BY <2>1, WeakerIsWeaker
  <2>3. Rank(decision) = IF Barred(request) THEN 0 ELSE IF Cleared(request) THEN 2 ELSE 1
    BY <2>1, RankIs
  <2>4. Rank(DecideEligibility(w)) = IF Barred(w) THEN 0 ELSE IF Cleared(w) THEN 2 ELSE 1
    BY <2>2, RankIs
  <2> QED
    BY <2>2, <2>3, <2>4
<1> QED
  BY <1>1, Invariance, PTL

-----------------------------------------------------------------------------
(***************************************************************************)
(* The terms of a license.  classify_license tries the longer names first, *)
(* so that each URL of a Creative Commons license gets the key of that     *)
(* license and no other's.                                                 *)
(***************************************************************************)
LEMMA FirstName ==
    ASSUME NEW url, NEW m \in 1 .. 7, CreativeCommons[m].name \in url.has,
           \A k \in 1 .. 7 : k < m => CreativeCommons[k].name \notin url.has
    PROVE  Named(url) = CreativeCommons[m].key
<1> DEFINE found == {n \in 1 .. 7 : CreativeCommons[n].name \in url.has}
           least == CHOOSE n \in found : \A k \in found : n <= k
<1>1. m \in found /\ \A k \in found : m <= k
  <2> SUFFICES ASSUME NEW k \in found PROVE m <= k
    OBVIOUS
  <2>1. k \in 1 .. 7 /\ ~(k < m)
    OBVIOUS
  <2> QED  BY <2>1
<1>2. least \in found /\ \A k \in found : least <= k
  BY <1>1
<1>3. least = m
  <2>1. least \in 1 .. 7 /\ least <= m /\ m <= least
    BY <1>1, <1>2
  <2> HIDE DEF least
  <2> QED  BY <2>1
<1>4. found # {}
  BY <1>1
<1> QED
  BY <1>3, <1>4 DEF Named

LEMMA NamesAre ==
    /\ CreativeCommons[1] = [name |-> "by-nc-sa", key |-> "ccbyncsa"]
    /\ CreativeCommons[2] = [name |-> "by-nc-nd", key |-> "ccbyncnd"]
    /\ CreativeCommons[3] = [name |-> "by-nc", key |-> "ccbync"]
    /\ CreativeCommons[4] = [name |-> "by-sa/3.0", key |-> "ccbysa3"]
    /\ CreativeCommons[5] = [name |-> "by-sa", key |-> "ccbysa"]
    /\ CreativeCommons[6] = [name |-> "by-nd", key |-> "ccbynd"]
    /\ CreativeCommons[7] = [name |-> "/by", key |-> "ccby"]
  BY DEF CreativeCommons

LEMMA TermsAre ==
    /\ Terms["pd"] = {} /\ Terms["cc0"] = {} /\ Terms["ccby"] = {"by"}
    /\ Terms["ccbysa"] = {"by", "sa"} /\ Terms["ccbysa3"] = {"by", "sa"}
    /\ Terms["ccbync"] = {"by", "nc"} /\ Terms["ccbyncsa"] = {"by", "nc", "sa"}
    /\ Terms["ccbynd"] = {"by", "nd"} /\ Terms["ccbyncnd"] = {"by", "nc", "nd"}
  BY DEF Terms

\* A Creative Commons URL gets the key of the first name it has.
LEMMA Classified ==
    ASSUME NEW terms, NEW m \in 1 .. 7, CreativeCommons[m].name \in CcNames(terms),
           \A k \in 1 .. 7 : k < m => CreativeCommons[k].name \notin CcNames(terms),
           "publicdomain" \notin CcNames(terms), "zero" \notin CcNames(terms)
    PROVE  ClassifyLicense(CcUrl(terms)) = CreativeCommons[m].key
<1> DEFINE url == CcUrl(terms)
           names == CcNames(terms)
<1>1. url.code = None /\ url.has = {"creativecommons.org"} \union names
  BY DEF CcUrl
<1>2. \A k \in 1 .. 7 : CreativeCommons[k].name # "creativecommons.org"
  <2>1. \A k \in 1 .. 7 : k \in {1, 2, 3, 4, 5, 6, 7}
    OBVIOUS
  <2> QED  BY <2>1, NamesAre
<1> HIDE DEF url, names
<1>3. Named(url) = CreativeCommons[m].key
  <2>1. CreativeCommons[m].name \in url.has /\ \A k \in 1 .. 7 : k < m => CreativeCommons[k].name \notin url.has
    BY <1>1, <1>2 DEF names
  <2> QED  BY <2>1, FirstName
<1>4. ClassifyLicense(url) = Named(url)
  BY <1>1 DEF ClassifyLicense, names
<1> QED  BY <1>3, <1>4 DEF url

\* The URL of a license is classified as a license with its terms.
LEMMA UrlsAreKnown ==
    ASSUME NEW terms \in CcTerms
    PROVE  ClassifyLicense(CcUrl(terms)) \in Keys /\ Terms[ClassifyLicense(CcUrl(terms))] = terms
<1> DEFINE names == CcNames(terms)
           First(m) == /\ CreativeCommons[m].name \in names
                       /\ \A k \in 1 .. 7 : k < m => CreativeCommons[k].name \notin names
                       /\ "publicdomain" \notin names /\ "zero" \notin names
<1>1. terms \in {{"by"}, {"by", "sa"}, {"by", "nd"}, {"by", "nc"}, {"by", "nc", "sa"}, {"by", "nc", "nd"}}
  BY KeysAre, TermsAre DEF CcTerms
<1>2. \A m \in 1 .. 7 : First(m) => ClassifyLicense(CcUrl(terms)) = CreativeCommons[m].key
  BY Classified
<1> HIDE DEF names
<1>3. CASE terms = {"by"}
  <2>1. names = {"/by"}
    BY <1>3 DEF names, CcNames
  <2>2. First(7)
    <3>1. \A k \in 1 .. 7 : k < 7 => k \in {1, 2, 3, 4, 5, 6}
      OBVIOUS
    <3> QED  BY <2>1, <3>1, NamesAre
  <2> QED  BY <1>2, <1>3, <2>2, NamesAre, KeysAre, TermsAre
<1>4. CASE terms = {"by", "sa"}
  <2>1. names = {"/by", "by-sa"}
    BY <1>4 DEF names, CcNames
  <2>2. First(5)
    <3>1. \A k \in 1 .. 7 : k < 5 => k \in {1, 2, 3, 4}
      OBVIOUS
    <3> QED  BY <2>1, <3>1, NamesAre
  <2> QED  BY <1>2, <1>4, <2>2, NamesAre, KeysAre, TermsAre
<1>5. CASE terms = {"by", "nd"}
  <2>1. names = {"/by", "by-nd"}
    BY <1>5 DEF names, CcNames
  <2>2. First(6)
    <3>1. \A k \in 1 .. 7 : k < 6 => k \in {1, 2, 3, 4, 5}
      OBVIOUS
    <3> QED  BY <2>1, <3>1, NamesAre
  <2> QED  BY <1>2, <1>5, <2>2, NamesAre, KeysAre, TermsAre
<1>6. CASE terms = {"by", "nc"}
  <2>1. names = {"/by", "by-nc"}
    BY <1>6 DEF names, CcNames
  <2>2. First(3)
    <3>1. \A k \in 1 .. 7 : k < 3 => k \in {1, 2}
      OBVIOUS
    <3> QED  BY <2>1, <3>1, NamesAre
  <2> QED  BY <1>2, <1>6, <2>2, NamesAre, KeysAre, TermsAre
<1>7. CASE terms = {"by", "nc", "sa"}
  <2>1. names = {"/by", "by-nc", "by-nc-sa"}
    BY <1>7 DEF names, CcNames
  <2>2. First(1)
    <3>1. \A k \in 1 .. 7 : k < 1 => k \in {}
      OBVIOUS
    <3> QED  BY <2>1, <3>1, NamesAre
  <2> QED  BY <1>2, <1>7, <2>2, NamesAre, KeysAre, TermsAre
<1>8. CASE terms = {"by", "nc", "nd"}
  <2>1. names = {"/by", "by-nc", "by-nc-nd"}
    BY <1>8 DEF names, CcNames
  <2>2. First(2)
    <3>1. \A k \in 1 .. 7 : k < 2 => k \in {1}
      OBVIOUS
    <3> QED  BY <2>1, <3>1, NamesAre
  <2> QED  BY <1>2, <1>8, <2>2, NamesAre, KeysAre, TermsAre
<1> QED  BY <1>1, <1>3, <1>4, <1>5, <1>6, <1>7, <1>8

\* A published book keeps the terms its source named (TermsAreKept), whatever
\* the source and the other evidence: classify_license recognizes every license
\* by its URL, and decide_eligibility passes it on.
THEOREM TermsKept == Spec => []TermsAreKept
<1>1. IInv => TermsAreKept
  <2> SUFFICES ASSUME IInv, Published, request.source # "openiti",
                      NEW terms \in CcTerms, request.url = CcUrl(terms)
               PROVE  decision.license # None /\ Terms[decision.license] = terms
    BY DEF TermsAreKept
  <2> DEFINE match == ClassifyLicense(request.url)
  <2>1. match \in Keys /\ match # None /\ Terms[match] = terms
    BY UrlsAreKnown, NoneAssumption
  <2>2. decision = DecideEligibility(request) /\ request.source \in Sources
    BY DEF IInv, Published, Requests
  <2>3. decision.license = match
    <3> HIDE DEF match
    <3>1. DecideEligibility(request).eligibility \in AutoPublish
      BY <2>2 DEF Published
    <3>2. ~Barred(request)
      BY <3>1 DEF DecideEligibility, Decision, AutoPublish, Barred
    <3>3. CASE request.authorized
      BY <2>2, <3>2, <3>3 DEF DecideEligibility, Decision, match, Barred
    <3>4. CASE ~request.authorized
      <4>1. decision = BySource(request, match)
        BY <2>2, <3>2, <3>4 DEF DecideEligibility, match, Barred
      <4>2. CASE request.source = "gutenberg"
        BY <2>1, <4>1, <4>2 DEF BySource, Gutenberg, Or, Decision
      <4>3. CASE request.source = "fixture"
        BY <2>1, <4>1, <4>3 DEF BySource, Or, Decision
      <4>4. CASE request.source = "internet_archive"
        BY <2>1, <4>1, <4>4 DEF BySource, InternetArchive, Decision
      <4>5. CASE request.source \in {"wikisource_ar", "other"}
        BY <2>1, <4>1, <4>5 DEF BySource, ByLicense, Decision
      <4> QED  BY <2>2, <4>2, <4>3, <4>4, <4>5 DEF Sources
    <3> QED  BY <3>3, <3>4
  <2> QED  BY <2>1, <2>3
<1> QED
  BY <1>1, Invariance, PTL
-----------------------------------------------------------------------------
(***************************************************************************)
(* Duplicates (MCSpec, with the other parts at rest): likeness is          *)
(* symmetric and bounded, and only what is equal counts in full.           *)
(***************************************************************************)
Texts == Seq(STRING)
AnyYears == Nat \union {None}
AnyVolumes == [pages : Nat \ {0}, size : Nat \ {0}] \union {None}

LEMMA SameNumber == \A S : D!Cardinality(S) = Cardinality(S)
BY DEF D!Cardinality, Cardinality

\* A share of a whole, in units of the whole.
LEMMA Share ==
    ASSUME NEW k \in Nat, NEW some \in Nat, NEW whole \in Nat \ {0}, some <= whole
    PROVE  (k * some) \div whole \in 0 .. k
OBVIOUS

LEMMA Arithmetic == \A a, b \in Nat : a * b \in Nat /\ (b # 0 => a \div b \in Nat)
OBVIOUS

LEMMA WordsAre ==
    ASSUME NEW a \in Texts
    PROVE  IsFiniteSet(D!ToSet(a)) /\ (a # <<>> => D!ToSet(a) # {})
<1>1. Len(a) \in Nat /\ DOMAIN a = 1 .. Len(a) /\ (a = <<>> <=> Len(a) = 0)
  BY SeqParts DEF Texts
<1>2. IsFiniteSet(1 .. Len(a))
  BY <1>1, IntervalSize
<1>3. D!ToSet(a) = {a[i] : i \in 1 .. Len(a)}
  BY <1>1 DEF D!ToSet
<1>4. IsFiniteSet(D!ToSet(a))
  <2> DEFINE f == [i \in 1 .. Len(a) |-> a[i]]
  <2>1. f \in Surjection(1 .. Len(a), D!ToSet(a))
    BY <1>3 DEF Surjection
  <2> HIDE DEF f
  <2> QED  BY <1>2, <2>1, FS_Surjection
<1>5. a # <<>> => D!ToSet(a) # {}
  <2> SUFFICES ASSUME a # <<>> PROVE a[1] \in D!ToSet(a)
    OBVIOUS
  <2> QED  BY <1>1, <1>3
<1> QED  BY <1>4, <1>5

LEMMA StartIsSymmetric == \A a, b \in Texts : D!StartAlike(a, b) = D!StartAlike(b, a)
<1> SUFFICES ASSUME NEW a \in Texts, NEW b \in Texts PROVE D!StartAlike(a, b) <=> D!StartAlike(b, a)
  BY DEF D!StartAlike
<1>1. Len(a) \in Nat /\ Len(b) \in Nat
  BY SeqParts DEF Texts
<1>2. D!Upto(Len(a), Len(b)) = D!Upto(Len(b), Len(a))
  BY <1>1 DEF D!Upto
<1> QED  BY <1>2 DEF D!StartAlike

LEMMA SimIs ==
    ASSUME NEW a \in Texts, NEW b \in Texts
    PROVE  /\ D!Sim(a, b) \in 0 .. 240 /\ D!Sim(a, b) = D!Sim(b, a)
           /\ a = <<>> => D!Sim(a, b) = 0
           /\ a # <<>> => D!Sim(a, a) = 240
<1> DEFINE common == D!ToSet(a) \intersect D!ToSet(b)
           all == D!ToSet(a) \union D!ToSet(b)
           words == (204 * Cardinality(common)) \div Cardinality(all)
<1>1. CASE a = <<>> \/ b = <<>> \/ a = b
  BY <1>1 DEF D!Sim
<1>2. CASE a # <<>> /\ b # <<>> /\ a # b
  <2>1. IsFiniteSet(all) /\ all # {} /\ common \subseteq all
    BY <1>2, WordsAre, FS_Union
  <2>2. Cardinality(all) \in Nat \ {0} /\ Cardinality(common) \in Nat /\ Cardinality(common) <= Cardinality(all)
    <3> HIDE DEF all, common
    <3>1. IsFiniteSet(common) /\ Cardinality(common) <= Cardinality(all)
      BY <2>1, FS_Subset
    <3> QED  BY <2>1, <3>1, FS_CardinalityType, FS_EmptySet
  <2>3. words \in 0 .. 204
    <3> HIDE DEF all, common
    <3> QED  BY <2>2, Share
  <2>4. D!Sim(a, b) = words + (IF D!StartAlike(a, b) THEN 36 ELSE 0)
    BY <1>2, SameNumber DEF D!Sim
  <2>5. D!Sim(b, a) = words + (IF D!StartAlike(b, a) THEN 36 ELSE 0)
    <3>1. D!ToSet(b) \intersect D!ToSet(a) = common /\ D!ToSet(b) \union D!ToSet(a) = all
      OBVIOUS
    <3>2. D!Sim(b, a) = (204 * Cardinality(D!ToSet(b) \intersect D!ToSet(a)))
                            \div Cardinality(D!ToSet(b) \union D!ToSet(a))
                        + (IF D!StartAlike(b, a) THEN 36 ELSE 0)
      BY <1>2, SameNumber DEF D!Sim
    <3> QED  BY <3>1, <3>2
  <2> HIDE DEF words
  <2>6. D!Sim(a, b) \in 0 .. 240
    BY <2>3, <2>4
  <2>7. D!Sim(a, b) = D!Sim(b, a)
    BY <2>4, <2>5, StartIsSymmetric
  <2>8. D!Sim(a, a) = 240
    BY <1>2 DEF D!Sim
  <2> QED  BY <1>2, <2>6, <2>7, <2>8
<1> QED  BY <1>1, <1>2

LEMMA YearAlikeIs ==
    ASSUME NEW x \in AnyYears, NEW y \in AnyYears
    PROVE  /\ D!YearAlike(x, y) \in {0, 96, 240} /\ D!YearAlike(x, y) = D!YearAlike(y, x)
           /\ D!YearAlike(x, y) = 240 => x = y /\ x # None
           /\ x = None => D!YearAlike(x, y) = 0
           /\ x # None => D!YearAlike(x, x) = 240
<1>1. CASE None \in {x, y}
  BY <1>1 DEF D!YearAlike
<1>2. CASE None \notin {x, y}
  <2>1. x \in Nat /\ y \in Nat
    BY <1>2 DEF AnyYears
  <2>2. D!Difference(x, y) = D!Difference(y, x)
    BY <2>1 DEF D!Difference
  <2> QED  BY <1>2, <2>2 DEF D!YearAlike
<1> QED  BY <1>1, <1>2

NearRight(m, n, slope) ==
    D!Near(m, n, slope) \in 0 .. 240 /\ D!Near(m, n, slope) = D!Near(n, m, slope) /\ D!Near(m, m, slope) = 240

LEMMA NearIs ==
    ASSUME NEW m \in Nat \ {0}, NEW n \in Nat \ {0}, NEW slope \in Nat
    PROVE  NearRight(m, n, slope)
<1> DEFINE larger(x, y) == x + y - D!Upto(x, y)
           off(x, y) == (240 * slope * D!Difference(x, y)) \div larger(x, y)
<1>1. \A x, y \in Nat \ {0} : /\ D!Difference(x, y) \in Nat /\ D!Difference(x, y) = D!Difference(y, x)
                              /\ larger(x, y) \in Nat \ {0} /\ larger(x, y) = larger(y, x)
                              /\ D!Difference(x, x) = 0
  BY DEF D!Difference, D!Upto
<1>2. \A x, y : D!Near(x, y, slope) = IF off(x, y) < 240 THEN 240 - off(x, y) ELSE 0
  BY DEF D!Near
<1>3. off(m, n) = off(n, m)
  BY <1>1
<1>4. off(m, n) \in Nat
  <2> DEFINE d == D!Difference(m, n)
             l == larger(m, n)
  <2>1. 240 * slope \in Nat /\ d \in Nat /\ l \in Nat /\ l # 0 /\ off(m, n) = (240 * slope * d) \div l
    BY <1>1
  <2> HIDE DEF d, l, off
  <2>2. 240 * slope * d \in Nat
    BY <2>1, Arithmetic
  <2> QED  BY <2>1, <2>2, Arithmetic
<1>5. off(m, m) = 0
  <2>1. 240 * slope * D!Difference(m, m) = 0
    BY <1>1
  <2> HIDE DEF larger
  <2> QED  BY <1>1, <2>1
<1> HIDE DEF off
<1> QED  BY <1>2, <1>3, <1>4, <1>5 DEF NearRight

LEMMA VolumeAlikeIs ==
    ASSUME NEW v \in AnyVolumes, NEW w \in AnyVolumes
    PROVE  /\ D!VolumeAlike(v, w) \in 0 .. 480 /\ D!VolumeAlike(v, w) = D!VolumeAlike(w, v)
           /\ v = None => D!VolumeAlike(v, w) = 0
           /\ v # None => D!VolumeAlike(v, v) = 480
<1>1. CASE None \in {v, w}
  <2>1. D!VolumeAlike(v, w) = 0 /\ D!VolumeAlike(w, v) = 0
    BY <1>1 DEF D!VolumeAlike
  <2>2. ASSUME v # None PROVE D!VolumeAlike(v, v) = 480
    <3>1. v.pages \in Nat \ {0} /\ v.size \in Nat \ {0}
      BY <2>2 DEF AnyVolumes
    <3>2. NearRight(v.pages, v.pages, 4) /\ NearRight(v.size, v.size, 5)
      BY <3>1, NearIs
    <3> QED  BY <2>2, <3>2 DEF D!VolumeAlike, NearRight
  <2> QED  BY <2>1, <2>2
<1>2. CASE None \notin {v, w}
  <2>1. v.pages \in Nat \ {0} /\ v.size \in Nat \ {0} /\ w.pages \in Nat \ {0} /\ w.size \in Nat \ {0}
    BY <1>2 DEF AnyVolumes
  <2>2. /\ D!Near(v.pages, w.pages, 4) \in 0 .. 240 /\ D!Near(v.pages, w.pages, 4) = D!Near(w.pages, v.pages, 4)
        /\ D!Near(v.size, w.size, 5) \in 0 .. 240 /\ D!Near(v.size, w.size, 5) = D!Near(w.size, v.size, 5)
        /\ D!Near(v.pages, v.pages, 4) = 240 /\ D!Near(v.size, v.size, 5) = 240
    <3>1. NearRight(v.pages, w.pages, 4) /\ NearRight(v.size, w.size, 5)
      BY <2>1, NearIs
    <3> QED  BY <3>1 DEF NearRight
  <2>3. /\ D!VolumeAlike(v, w) = D!Near(v.pages, w.pages, 4) + D!Near(v.size, w.size, 5)
        /\ D!VolumeAlike(w, v) = D!Near(w.pages, v.pages, 4) + D!Near(w.size, v.size, 5)
        /\ D!VolumeAlike(v, v) = D!Near(v.pages, v.pages, 4) + D!Near(v.size, v.size, 5)
    BY <1>2 DEF D!VolumeAlike
  <2>4. D!VolumeAlike(v, w) \in 0 .. 480
    <3> DEFINE p == D!Near(v.pages, w.pages, 4)
               q == D!Near(v.size, w.size, 5)
    <3>1. p \in 0 .. 240 /\ q \in 0 .. 240 /\ D!VolumeAlike(v, w) = p + q
      BY <2>2, <2>3
    <3> HIDE DEF p, q
    <3> QED  BY <3>1
  <2>5. D!VolumeAlike(v, w) = D!VolumeAlike(w, v) /\ D!VolumeAlike(v, v) = 480
    BY <2>2, <2>3
  <2> QED  BY <1>2, <2>4, <2>5
<1> QED  BY <1>1, <1>2


AnyBook == [title : Texts, author : Texts, year : AnyYears, volume : AnyVolumes]

TitleLike(x, y) == D!Sim(x.title, y.title)
AuthorLike(x, y) == D!Sim(x.author, y.author)
YearLike(x, y) == D!YearAlike(x.year, y.year)
VolumeLike(x, y) == D!VolumeAlike(x.volume, y.volume)

LEMMA LikenessIs ==
    ASSUME NEW x \in AnyBook, NEW y \in AnyBook
    PROVE  /\ TitleLike(x, y) \in 0 .. 240 /\ TitleLike(x, y) = TitleLike(y, x)
           /\ AuthorLike(x, y) \in 0 .. 240 /\ AuthorLike(x, y) = AuthorLike(y, x)
           /\ YearLike(x, y) \in {0, 96, 240} /\ YearLike(x, y) = YearLike(y, x)
           /\ VolumeLike(x, y) \in 0 .. 480 /\ VolumeLike(x, y) = VolumeLike(y, x)
           /\ YearLike(x, y) <= YearLike(x, x) /\ VolumeLike(x, y) <= VolumeLike(x, x)
<1>1. /\ x.title \in Texts /\ x.author \in Texts /\ x.year \in AnyYears /\ x.volume \in AnyVolumes
      /\ y.title \in Texts /\ y.author \in Texts /\ y.year \in AnyYears /\ y.volume \in AnyVolumes
  BY DEF AnyBook
<1>2. TitleLike(x, y) \in 0 .. 240 /\ TitleLike(x, y) = TitleLike(y, x)
  BY <1>1, SimIs DEF TitleLike
<1>3. AuthorLike(x, y) \in 0 .. 240 /\ AuthorLike(x, y) = AuthorLike(y, x)
  BY <1>1, SimIs DEF AuthorLike
<1>4. YearLike(x, y) \in {0, 96, 240} /\ YearLike(x, y) = YearLike(y, x)
  BY <1>1, YearAlikeIs DEF YearLike
<1>5. VolumeLike(x, y) \in 0 .. 480 /\ VolumeLike(x, y) = VolumeLike(y, x)
  BY <1>1, VolumeAlikeIs DEF VolumeLike
<1>6. YearLike(x, y) <= YearLike(x, x)
  <2>1. CASE x.year = None
    <3>1. YearLike(x, y) = 0 /\ YearLike(x, x) = 0
      BY <1>1, <2>1, YearAlikeIs DEF YearLike
    <3> QED  BY <3>1
  <2>2. CASE x.year # None
    <3>1. YearLike(x, x) = 240
      BY <1>1, <2>2, YearAlikeIs DEF YearLike
    <3> QED  BY <1>4, <3>1
  <2> QED  BY <2>1, <2>2
<1>7. VolumeLike(x, y) <= VolumeLike(x, x)
  <2>1. CASE x.volume = None
    <3>1. VolumeLike(x, y) = 0 /\ VolumeLike(x, x) = 0
      BY <1>1, <2>1, VolumeAlikeIs DEF VolumeLike
    <3> QED  BY <3>1
  <2>2. CASE x.volume # None
    <3>1. VolumeLike(x, x) = 480
      BY <1>1, <2>2, VolumeAlikeIs DEF VolumeLike
    <3> QED  BY <1>5, <3>1
  <2> QED  BY <2>1, <2>2
<1> QED  BY <1>2, <1>3, <1>4, <1>5, <1>6, <1>7

\* The score of what is compared without a file or an ISBN, as one formula.
ScoreSum(x, y) == 10 * TitleLike(x, y) + 6 * AuthorLike(x, y) + 2 * YearLike(x, y) + VolumeLike(x, y)
Cap(x, y) == IF TitleLike(x, y) >= 221 /\ AuthorLike(x, y) < 96 THEN 2160 ELSE 4512

LEMMA ScoreIs ==
    ASSUME NEW x \in AnyBook, NEW y \in AnyBook
    PROVE  /\ ScoreSum(x, y) \in Nat
           /\ D!Score(x, y, None) = IF ScoreSum(x, y) < Cap(x, y) THEN ScoreSum(x, y) ELSE Cap(x, y)
           /\ D!Score(x, y, "sha") = 4800 /\ D!Score(x, y, "isbn") = 4560
<1>1. ScoreSum(x, y) \in Nat
  <2> DEFINE t == TitleLike(x, y)
             a == AuthorLike(x, y)
             r == YearLike(x, y)
             v == VolumeLike(x, y)
  <2>1. t \in Nat /\ a \in Nat /\ v \in Nat
    BY LikenessIs
  <2>2. r \in Nat
    <3>1. r \in {0, 96, 240}
      BY LikenessIs
    <3> HIDE DEF r
    <3> QED  BY <3>1
  <2>3. ScoreSum(x, y) = 10 * t + 6 * a + 2 * r + v
    BY DEF ScoreSum
  <2> HIDE DEF t, a, r, v
  <2> QED  BY <2>1, <2>2, <2>3
<1>2. None # "sha" /\ None # "isbn"
  BY FatesAssumption
<1>3. D!Score(x, y, None) = IF TitleLike(x, y) >= 221 /\ AuthorLike(x, y) < 96
                            THEN D!Upto(ScoreSum(x, y), 2160) ELSE D!Upto(ScoreSum(x, y), 4512)
  BY <1>2 DEF D!Score, ScoreSum, TitleLike, AuthorLike, YearLike, VolumeLike
<1>4. D!Score(x, y, "sha") = 4800
  BY <1>2 DEF D!Score
<1>5. D!Score(x, y, "isbn") = 4560
  BY <1>2 DEF D!Score
<1> QED  BY <1>1, <1>3, <1>4, <1>5 DEF Cap, D!Upto

\* Scores do not depend on which of two is the newcomer.
LEMMA ScoreIsSymmetric ==
    ASSUME NEW x \in AnyBook, NEW y \in AnyBook, NEW common \in {"sha", None}
    PROVE  D!Score(x, y, common) = D!Score(y, x, common)
<1>1. ScoreSum(x, y) = ScoreSum(y, x) /\ Cap(x, y) = Cap(y, x)
  BY LikenessIs DEF ScoreSum, Cap
<1> QED  BY <1>1, ScoreIs

\* Nothing is more like a book than itself.
LEMMA SelfIsBest ==
    ASSUME NEW x \in AnyBook, NEW y \in AnyBook, x.title # <<>>, x.author # <<>>
    PROVE  D!Score(x, y, None) <= D!Score(x, x, None)
<1>1. TitleLike(x, x) = 240 /\ AuthorLike(x, x) = 240
  BY SimIs DEF TitleLike, AuthorLike, AnyBook
<1>2. Cap(x, x) = 4512 /\ Cap(x, y) <= 4512
  BY <1>1 DEF Cap
<1>3. ScoreSum(x, y) <= ScoreSum(x, x)
  <2> DEFINE t == TitleLike(x, y)
             a == AuthorLike(x, y)
             r == YearLike(x, y)
             v == VolumeLike(x, y)
             selfR == YearLike(x, x)
             selfV == VolumeLike(x, x)
  <2>1. t \in 0 .. 240 /\ a \in 0 .. 240 /\ r \in {0, 96, 240} /\ v \in 0 .. 480 /\ r <= selfR /\ v <= selfV
    BY LikenessIs
  <2>2. selfR \in {0, 96, 240} /\ selfV \in 0 .. 480
    BY LikenessIs
  <2>3. ScoreSum(x, y) = 10 * t + 6 * a + 2 * r + v /\ ScoreSum(x, x) = 2400 + 1440 + 2 * selfR + selfV
    BY <1>1 DEF ScoreSum
  <2> HIDE DEF t, a, r, v, selfR, selfV
  <2> QED  BY <2>1, <2>2, <2>3
<1>4. ScoreSum(x, y) \in Nat /\ ScoreSum(x, x) \in Nat /\ Cap(x, y) \in Nat
  BY ScoreIs DEF Cap
<1>5. /\ D!Score(x, y, None) = IF ScoreSum(x, y) < Cap(x, y) THEN ScoreSum(x, y) ELSE Cap(x, y)
      /\ D!Score(x, x, None) = IF ScoreSum(x, x) < Cap(x, x) THEN ScoreSum(x, x) ELSE Cap(x, x)
  BY ScoreIs
<1> QED  BY <1>2, <1>3, <1>4, <1>5

\* What the pipeline compares of an item and the work it found under its title.
LEMMA JudgedIs ==
    ASSUME item \in AnyBook, work \in AnyBook, item.title = work.title
    PROVE  /\ D!AtLeast(D!Judged, 850) =>
                  item.title # <<>> /\ item.year = work.year /\ item.year # None
           /\ D!AtLeast(D!Judged, 850) => D!AtLeast(D!Judged, 550)
           /\ item.title # <<>> => (D!AtLeast(D!Judged, 550) <=> D!Sim(item.author, work.author) >= 96)
<1> DEFINE x == D!Bare(item)
           y == D!Bare(work)
<1>1. /\ x \in AnyBook /\ x.title = item.title /\ x.author = item.author /\ x.year = item.year /\ x.volume = None
      /\ y \in AnyBook /\ y.title = work.title /\ y.author = work.author /\ y.year = work.year /\ y.volume = None
  BY DEF D!Bare, AnyBook, AnyVolumes
<1>2. D!Judged = D!Score(x, y, None)
  BY DEF D!Judged
<1> HIDE DEF x, y
<1>3. VolumeLike(x, y) = 0
  BY <1>1, VolumeAlikeIs DEF VolumeLike, AnyVolumes
<1>4. AuthorLike(x, y) = D!Sim(item.author, work.author)
  BY <1>1 DEF AuthorLike
<1>5. IF item.title = <<>> THEN TitleLike(x, y) = 0 ELSE TitleLike(x, y) = 240
  BY <1>1, SimIs DEF TitleLike, AnyBook
<1>6. YearLike(x, y) = 240 => item.year = work.year /\ item.year # None
  BY <1>1, YearAlikeIs DEF YearLike, AnyBook
<1> DEFINE t == TitleLike(x, y)
           a == AuthorLike(x, y)
           r == YearLike(x, y)
<1>7. t \in {0, 240} /\ a \in 0 .. 240 /\ r \in {0, 96, 240}
  BY <1>1, <1>5, LikenessIs
<1>8. ScoreSum(x, y) = 10 * t + 6 * a + 2 * r
  BY <1>3, <1>7 DEF ScoreSum
<1>9. D!Judged = IF ScoreSum(x, y) < Cap(x, y) THEN ScoreSum(x, y) ELSE Cap(x, y)
  BY <1>1, <1>2, ScoreIs
<1>10. Cap(x, y) = IF t >= 221 /\ a < 96 THEN 2160 ELSE 4512
  BY DEF Cap
<1> HIDE DEF t, a, r
<1>11. \A n \in {550, 850} : D!AtLeast(D!Judged, n) <=> 10 * D!Judged + 24 >= 48 * n
  BY DEF D!AtLeast
<1>12. D!AtLeast(D!Judged, 850) => t = 240 /\ r = 240
  BY <1>7, <1>8, <1>9, <1>10, <1>11
<1>13. t = 240 => (D!AtLeast(D!Judged, 550) <=> a >= 96)
  BY <1>7, <1>8, <1>9, <1>10, <1>11
<1>14. D!AtLeast(D!Judged, 850) => D!AtLeast(D!Judged, 550)
  BY <1>7, <1>8, <1>9, <1>10, <1>11
<1> QED  BY <1>4, <1>5, <1>6, <1>12, <1>13, <1>14 DEF t, a, r

DuplicatesInv ==
    /\ part # "duplicates" => fate = None
    /\ part = "duplicates" => {item, work} \subseteq AnyBook /\ same \in {"sha", None} /\ fate \in {None, D!Fate}

LEMMA DuplicatesInit == MCInit => DuplicatesInv
<1> SUFFICES ASSUME MCInit PROVE DuplicatesInv
  OBVIOUS
<1>1. CASE part = "duplicates"
  <2>1. D!Init
    BY <1>1 DEF MCInit
  <2>2. D!Descriptions \subseteq AnyBook
    BY NamesAssumption, YearsAssumption, VolumesAssumption DEF D!Descriptions, AnyBook, Texts, AnyYears, AnyVolumes
  <2> QED  BY <1>1, <2>1, <2>2 DEF D!Init, DuplicatesInv
<1>2. CASE part # "duplicates"
  BY <1>2 DEF MCInit, DuplicatesInv
<1> QED  BY <1>1, <1>2

LEMMA DuplicatesStep == ASSUME DuplicatesInv, [MCNext]_<<vars, part, books, pairs>> PROVE DuplicatesInv'
<1>1. UNCHANGED <<part, pairs>> \/ (part = "duplicates" /\ D!Next /\ UNCHANGED part)
  BY DEF MCNext, pairs
<1>2. CASE UNCHANGED <<part, pairs>>
  BY <1>2 DEF pairs, DuplicatesInv, D!Fate, D!Found, D!Judged
<1>3. CASE part = "duplicates" /\ D!Next /\ UNCHANGED part
  <2>1. fate' = D!Fate /\ UNCHANGED <<item, work, coauthor, same>>
    BY <1>3 DEF D!Next, D!RunIngestItem
  <2>2. D!Fate' = D!Fate
    BY <2>1 DEF D!Fate, D!Found, D!Judged
  <2> QED  BY <1>3, <2>1, <2>2 DEF DuplicatesInv
<1> QED  BY <1>1, <1>2, <1>3

\* For any titles, names, years and files, the pipeline takes a common file for a
\* duplicate, nothing without title and year in common, and never catalogues the
\* same title by the same first author anew without a review; and scores are
\* symmetric and bounded (DuplicatesAreJudged).
THEOREM JudgedRight == MCSpec => []DuplicatesAreJudged
<1>1. DuplicatesInv => DuplicatesAreJudged
  <2> SUFFICES ASSUME DuplicatesInv, fate # None PROVE D!DuplicatesAreJudged
    BY DEF DuplicatesAreJudged, D!DuplicatesAreJudged
  <2>1. item \in AnyBook /\ work \in AnyBook /\ same \in {"sha", None} /\ fate = D!Fate
    BY DEF DuplicatesInv
  <2>2. None # "sha"
    BY FatesAssumption
  <2>3. fate = IF same = "sha" \/ (D!Found /\ D!AtLeast(D!Judged, 850)) THEN "duplicate"
               ELSE IF D!Found /\ D!AtLeast(D!Judged, 550) THEN "review" ELSE "new"
    BY <2>1 DEF D!Fate
  <2>4. D!Found => item.title = work.title
    BY DEF D!Found
  <2>5. same = "sha" => fate = "duplicate"
    BY <2>3
  <2>6. same = None /\ (item.title # work.title \/ item.title = <<>> \/ item.year # work.year \/ item.year = None) =>
            fate # "duplicate"
    BY <2>1, <2>2, <2>3, <2>4, JudgedIs
  <2>7. item.title = work.title /\ item.title # <<>> /\ item.author = work.author /\ item.author # <<>> => fate # "new"
    <3> SUFFICES ASSUME item.title = work.title, item.title # <<>>, item.author = work.author, item.author # <<>>
                 PROVE  fate # "new"
      OBVIOUS
    <3>1. D!Found
      BY DEF D!Found
    <3>2. D!Sim(item.author, work.author) = 240
      BY <2>1, SimIs DEF AnyBook
    <3>3. D!AtLeast(D!Judged, 550)
      BY <2>1, <3>2, JudgedIs
    <3> QED  BY <2>3, <3>1, <3>3
  <2>8. D!Score(item, work, same) = D!Score(work, item, same)
    BY <2>1, ScoreIsSymmetric
  <2>9. item.title # <<>> /\ item.author # <<>> => D!Score(item, work, None) <= D!Score(item, item, None)
    BY <2>1, SelfIsBest
  <2>10. D!Score(item, work, None) < D!Score(item, work, "isbn")
    <3>1. ScoreSum(item, work) \in Nat /\ Cap(item, work) \in Nat /\ Cap(item, work) <= 4512
      BY <2>1, ScoreIs DEF Cap
    <3> QED  BY <2>1, <3>1, ScoreIs
  <2> QED  BY <2>5, <2>6, <2>7, <2>8, <2>9, <2>10 DEF D!DuplicatesAreJudged
<1> QED  BY <1>1, DuplicatesInit, DuplicatesStep, PTL DEF MCSpec

-----------------------------------------------------------------------------
(***************************************************************************)
(* Classification (MCSpec, with the other parts at rest).  A category      *)
(* without evidence has no points, because it gets none from any word: the *)
(* sum is a function that solves its recursive equation, and that which is *)
(* zero everywhere does; so it is chosen to be one, and has zero at every  *)
(* finite set.                                                             *)
(***************************************************************************)
\* The equation of the sum in Evident.
Sum(g, S, slug) ==
    g = [s \in SUBSET S |-> IF s = {} THEN 0
                            ELSE C!Points(CHOOSE x \in s : TRUE, slug) + g[s \ {CHOOSE x \in s : TRUE}]]

LEMMA EvidentIs ==
    ASSUME NEW b, NEW slug, slug \notin b.tags
    PROVE  C!Evident(b, slug) = (CHOOSE g : Sum(g, C!Hay(b), slug))[C!Hay(b)] + 0
BY Zenon DEF C!Evident, C!MapThenSumSet, C!MapThenFoldSet, Sum

LEMMA NoPoints ==
    ASSUME NEW S, IsFiniteSet(S), NEW slug, \A w \in S : C!Points(w, slug) = 0
    PROVE  (CHOOSE g : Sum(g, S, slug))[S] = 0
<1> DEFINE zero == [s \in SUBSET S |-> 0]
           sum == CHOOSE g : Sum(g, S, slug)
<1>1. Sum(zero, S, slug)
  <2>1. \A s \in SUBSET S : (IF s = {} THEN 0 ELSE C!Points(CHOOSE x \in s : TRUE, slug)
                                                   + zero[s \ {CHOOSE x \in s : TRUE}]) = 0
    <3> SUFFICES ASSUME NEW s \in SUBSET S, s # {}
                 PROVE  C!Points(CHOOSE x \in s : TRUE, slug) + zero[s \ {CHOOSE x \in s : TRUE}] = 0
      OBVIOUS
    <3>1. (CHOOSE x \in s : TRUE) \in S /\ s \ {CHOOSE x \in s : TRUE} \in SUBSET S
      OBVIOUS
    <3> QED  BY <3>1
  <2> QED  BY <2>1 DEF Sum
<1>2. Sum(sum, S, slug)
  <2> HIDE DEF zero
  <2> QED  BY <1>1
<1> HIDE DEF sum
<1>3. sum[{}] = 0
  BY <1>2 DEF Sum
<1>4. ASSUME NEW s \in SUBSET S, s # {} PROVE \E x \in s : sum[s] = 0 + sum[s \ {x}]
  <2>1. (CHOOSE x \in s : TRUE) \in s
    BY <1>4
  <2>2. sum[s] = C!Points(CHOOSE x \in s : TRUE, slug) + sum[s \ {CHOOSE x \in s : TRUE}]
    BY <1>2, <1>4 DEF Sum
  <2> QED  BY <2>1, <2>2
<1> DEFINE sizes == {Cardinality(s) : s \in {u \in SUBSET S : sum[u] # 0}}
<1>5. \A s \in SUBSET S : IsFiniteSet(s) /\ Cardinality(s) \in Nat
  BY FS_Subset, FS_CardinalityType
<1>6. sizes = {}
  <2> SUFFICES ASSUME sizes # {} PROVE FALSE
    OBVIOUS
  <2>1. sizes \in SUBSET Nat
    BY <1>5
  <2>2. PICK m \in sizes : \A k \in sizes : m <= k
    <3> HIDE DEF sizes
    <3> QED  BY <2>1, LeastNatural
  <2>3. PICK s \in SUBSET S : sum[s] # 0 /\ m = Cardinality(s)
    BY <2>2
  <2>4. PICK x \in s : sum[s] = 0 + sum[s \ {x}]
    BY <1>3, <1>4, <2>3
  <2>5. Cardinality(s \ {x}) = m - 1 /\ m \in Nat
    BY <1>5, <2>3, OneLeaves
  <2>6. Cardinality(s \ {x}) \notin sizes
    BY <2>2, <2>5
  <2>7. sum[s \ {x}] = 0
    BY <2>6
  <2> QED  BY <2>3, <2>4, <2>7
<1>7. sum[S] = 0
  BY <1>6
<1> QED  BY <1>7 DEF sum

\* A word is evidence for a science only if it names it.
LEMMA Telling ==
    ASSUME NEW w \in DOMAIN C!Positive, NEW slug \in DOMAIN C!Evidence, w \notin C!Evidence[slug]
    PROVE  C!Points(w, slug) = 0
<1>1. slug \in {"physics", "chemistry", "math"}
  BY DEF C!Evidence
<1>2. w \notin DOMAIN C!Names \/ slug \notin C!Names[w]
  BY <1>1 DEF C!Names, C!Evidence
<1>3. slug \notin DOMAIN C!Positive[w]
  BY <1>1 DEF C!Positive, C!Evidence
<1> QED  BY <1>2, <1>3 DEF C!Points

\* A book has finitely many telling words, all of the rules' tables.
LEMMA HayWords == \A b \in C!Books : IsFiniteSet(C!Hay(b)) /\ C!Hay(b) \subseteq DOMAIN C!Positive
<1> SUFFICES ASSUME NEW b \in C!Books PROVE IsFiniteSet(C!Hay(b)) /\ C!Hay(b) \subseteq DOMAIN C!Positive
  OBVIOUS
<1>1. b.title \in C!AtMostTwo(Words) /\ b.rest \in C!AtMostOne(Words)
  BY DEF C!Books
<1>2. IsFiniteSet(b.title) /\ b.title \subseteq Words
  <2>1. CASE b.title = {}
    BY <2>1, FS_EmptySet
  <2>2. CASE b.title # {}
    <3>1. PICK s \in Words, t \in Words : b.title = {s, t}
      BY <1>1, <2>2 DEF C!AtMostTwo
    <3>2. IsFiniteSet({s}) /\ {s, t} = {s} \union {t}
      BY FS_Singleton
    <3>3. IsFiniteSet({s} \union {t})
      BY <3>2, FS_AddElement
    <3> QED  BY <3>1, <3>2, <3>3
  <2> QED  BY <2>1, <2>2
<1>3. IsFiniteSet(b.rest) /\ b.rest \subseteq Words
  BY <1>1, FS_EmptySet, FS_Singleton DEF C!AtMostOne
<1>4. IsFiniteSet(b.title \union b.rest)
  BY <1>2, <1>3, FS_Union
<1> QED  BY <1>2, <1>3, <1>4, TextsAssumption DEF C!Hay

\* What is told by no word and no tag has no score.
LEMMA Untold ==
    ASSUME NEW b \in C!Books, NEW slug \in DOMAIN C!Evidence \ b.tags, ~C!Hits(C!Hay(b), C!Evidence[slug])
    PROVE  ~(C!Score(b, slug) > 0)
<1>1. \A w \in C!Hay(b) : C!Points(w, slug) = 0
  BY HayWords, Telling DEF C!Hits
<1>2. C!Evident(b, slug) = 0
  <2>1. (CHOOSE g : Sum(g, C!Hay(b), slug))[C!Hay(b)] = 0
    BY <1>1, HayWords, NoPoints
  <2> QED  BY <2>1, EvidentIs
<1>3. C!Min({1000, 0}) = 0
  BY DEF C!Min
<1> QED  BY <1>2, <1>3 DEF C!Score

\* The primary row of a selection is of a category with a score.
LEMMA PrimaryScores ==
    ASSUME NEW b, NEW rows \in C!Selections(b), NEW row \in rows, row.primary
    PROVE  row.slug \in C!ScoreCategories(b)
<1> DEFINE tops == {s \in C!First(b, C!ScoreCategories(b)) : C!Score(b, s) >= C!Low}
           others(top) == {s \in C!ScoreCategories(b) : C!Score(b, s) >= C!Extra /\ ~C!Related(s, top)}
           both(top) == {{C!Row(b, top, TRUE), C!Row(b, s, FALSE)} : s \in C!First(b, others(top))}
<1>1. PICK top \in tops : rows \in IF others(top) = {} THEN {{C!Row(b, top, TRUE)}} ELSE both(top)
  <2>1. C!Selections(b) = UNION {IF others(top) = {} THEN {{C!Row(b, top, TRUE)}} ELSE both(top) : top \in tops}
    BY DEF C!Selections
  <2> HIDE DEF tops, others, both
  <2> QED  BY <2>1
<1>2. top \in C!ScoreCategories(b)
  BY DEF C!First
<1>3. row = C!Row(b, top, TRUE) \/ \E s : row = C!Row(b, s, FALSE)
  <2> HIDE DEF tops, others
  <2> QED  BY <1>1
<1>4. row.slug = top
  BY <1>3 DEF C!Row
<1> QED  BY <1>2, <1>4

\* The audit sees nothing wrong with a category that has a score, but for what
\* it does not look at.
LEMMA ScoredAgrees ==
    ASSUME NEW b \in C!Books, NEW slug \in C!ScoreCategories(b)
    PROVE  C!Contradictions(b.title, b.tags, slug) \subseteq C!Unseen(b, slug)
<1>1. C!Score(b, slug) > 0
  BY DEF C!ScoreCategories
<1>2. ~C!Vetoed(b, slug)
  BY <1>1 DEF C!Score
<1>3. C!Hits(b.title, C!Religion) => C!Hits(C!Hay(b), C!Religion)
  BY DEF C!Hits, C!Hay
<1>4. \A markers : C!Hits(C!Hay(b), markers) => C!Hits(b.title, markers) \/ C!Hits(b.rest, markers)
  BY DEF C!Hits, C!Hay
<1>5. ~(C!Hits(b.title, C!Religion) /\ slug \in C!Science \ b.tags)
  BY <1>2, <1>3 DEF C!Vetoed
<1>6. ~(C!Hits(b.title, C!Religion) /\ slug \in C!Fiction)
  BY <1>2, <1>3 DEF C!Vetoed
<1>7. C!Hits(b.title, C!Religion) /\ slug \in C!Medicine /\ ~C!Hits(b.title, C!MedicineOverride)
        => "religion_in_medicine" \in C!Unseen(b, slug)
  BY <1>2, <1>3, <1>4 DEF C!Vetoed, C!Unseen
<1>8. C!Hits(b.title, C!Religion) /\ slug = "modern_history" /\ ~C!Hits(b.title, C!ModernHistory)
        => "hadith_in_modern_history" \in C!Unseen(b, slug)
  BY <1>2, <1>3, <1>4 DEF C!Vetoed, C!Unseen
<1>9. slug \in DOMAIN C!Evidence \ b.tags /\ ~C!Hits(b.title, C!Evidence[slug])
        => "without_evidence" \in C!Unseen(b, slug)
  BY <1>1, <1>4, Untold DEF C!Unseen
<1> DEFINE found == [
        religion_in_science |-> C!Hits(b.title, C!Religion) /\ slug \in C!Science \ b.tags,
        religion_in_medicine |->
            C!Hits(b.title, C!Religion) /\ slug \in C!Medicine /\ ~C!Hits(b.title, C!MedicineOverride),
        religion_in_fiction |-> C!Hits(b.title, C!Religion) /\ slug \in C!Fiction,
        hadith_in_modern_history |->
            C!Hits(b.title, C!Religion) /\ slug = "modern_history" /\ ~C!Hits(b.title, C!ModernHistory),
        without_evidence |->
            slug \in DOMAIN C!Evidence \ b.tags /\ ~C!Hits(b.title, C!Evidence[slug])]
<1>10. C!Contradictions(b.title, b.tags, slug) = {issue \in DOMAIN found : found[issue]}
  BY DEF C!Contradictions
<1>11. SUFFICES ASSUME NEW issue \in DOMAIN found, found[issue] PROVE issue \in C!Unseen(b, slug)
  BY <1>10
<1>12. issue \in {"religion_in_science", "religion_in_medicine", "religion_in_fiction",
                 "hadith_in_modern_history", "without_evidence"}
  OBVIOUS
<1>13. CASE issue = "religion_in_science"
  BY <1>5, <1>11, <1>13
<1>14. CASE issue = "religion_in_medicine"
  BY <1>7, <1>11, <1>14
<1>15. CASE issue = "hadith_in_modern_history"
  BY <1>8, <1>11, <1>15
<1>16. CASE issue = "without_evidence"
  BY <1>9, <1>11, <1>16
<1>17. CASE issue = "religion_in_fiction"
  BY <1>6, <1>11, <1>17
<1> QED
  BY <1>12, <1>13, <1>14, <1>15, <1>16, <1>17

\* A book is classified as its texts and tags ask for.
AuditInv ==
    /\ part = "classification" => book \in C!Books
    /\ assigned # None =>
        part = "classification" /\ assigned.rows \in C!Selections(book) \union {C!Unclassified}

\* find_misplaced never reports the category the rules themselves chose, but
\* for what it cannot see.
THEOREM AuditTrue == MCSpec => []AuditAgrees
<1>1. MCInit => AuditInv
  BY DEF MCInit, AuditInv, C!Init
<1>2. AuditInv /\ [MCNext]_<<vars, part, books, pairs>> => AuditInv'
  <2> SUFFICES ASSUME AuditInv, [MCNext]_<<vars, part, books, pairs>> PROVE AuditInv'
    OBVIOUS
  <2>1. CASE part = "classification" /\ C!Next /\ UNCHANGED part
    <3>1. book' = book /\ assigned = None
      BY <2>1 DEF C!Next, C!Classify
    <3>2. assigned'.rows \in C!Selections(book) \union {C!Unclassified}
      BY <2>1 DEF C!Next, C!Classify
    <3>3. book' \in C!Books
      BY <2>1, <3>1 DEF AuditInv
    <3> QED  BY <2>1, <3>1, <3>2, <3>3 DEF AuditInv
  <2>2. CASE UNCHANGED <<part, book, assigned>>
    BY <2>2 DEF AuditInv
  <2> QED  BY <2>1, <2>2 DEF MCNext, vars, books
<1>3. AuditInv => AuditAgrees
  <2> SUFFICES ASSUME AuditInv, assigned # None, NEW row \in assigned.rows,
                      row.primary, row.slug # "unclassified"
               PROVE  C!Contradictions(book.title, book.tags, row.slug) \subseteq C!Unseen(book, row.slug)
    BY DEF AuditAgrees, C!AuditAgrees
  <2>1. book \in C!Books /\ assigned.rows \in C!Selections(book) \union {C!Unclassified}
    BY DEF AuditInv
  <2>2. assigned.rows # C!Unclassified
    BY DEF C!Unclassified
  <2>3. row.slug \in C!ScoreCategories(book)
    BY <2>1, <2>2, PrimaryScores
  <2> QED  BY <2>1, <2>3, ScoredAgrees
<1> QED  BY <1>1, <1>2, <1>3, PTL DEF MCSpec
=============================================================================
