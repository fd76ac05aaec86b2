---------------------------- MODULE SourcesProofs ----------------------------
(***************************************************************************)
(* Of getting books from the sources (MCSources), for every listing of     *)
(* items and files and every limit: an item is given up only for what its  *)
(* URLs answered, the harvest loop ends a round, and the harvest, only     *)
(* when nothing retriable is left, and a pass of discovery that ends below *)
(* its limit has left nothing undiscovered.                                *)
(***************************************************************************)
EXTENDS MCSources, DataLemmas, TLAPS

(***************************************************************************)
(* Fetching.  A file that was passed over has an answer that speaks of it; *)
(* while the URLs of OpenITI's only file are asked in turn, those before   *)
(* the current one have refused it, unless a server was busy; and only the *)
(* last URL can turn that into a verdict.                                  *)
(***************************************************************************)
Plan == Plans[connector]
Final == {"missing", "refused", "odd"}

FetchTypes ==
    /\ connector \in DOMAIN Plans
    /\ state \in {"due", "asking"} \union F!Ends
    /\ tries \in 0 .. MaxTries
    /\ file \in 1 .. Len(Plan) /\ url \in 1 .. Plan[file]
    /\ transient \in BOOLEAN /\ saved \in BOOLEAN /\ permanent \in BOOLEAN
    /\ DOMAIN last \subseteq F!Urls

\* A URL of file f has answered something else than that it is busy.
Spoken(f) == \E x \in DOMAIN last : x[1] = f /\ last[x] # "busy"

\* The URLs of the current file before u have refused it.
RefusedUpto(u) == \A v \in 1 .. Plan[file] : v < u => <<file, v>> \in DOMAIN last /\ last[<<file, v>>] \in Final

FetchInv ==
    /\ FetchTypes
    /\ state = "due" => tries < MaxTries
    /\ state = "dead" => tries = MaxTries
    /\ state = "asking" => ~permanent /\ \A f \in 1 .. Len(Plan) : f < file => Spoken(f)
    /\ state \in {"saved", "gone", "failed"} => \A f \in 1 .. Len(Plan) : Spoken(f)
    /\ state = "asking" /\ connector = "openiti" /\ ~transient => RefusedUpto(url)
    /\ state = "gone" => connector = "openiti" /\ RefusedUpto(Plan[file] + 1)

LEMMA PlanFacts ==
    ASSUME connector \in DOMAIN Plans
    PROVE  /\ Plan \in Seq(Nat \ {0}) /\ Len(Plan) \in Nat /\ Len(Plan) >= 1 /\ DOMAIN Plan = 1 .. Len(Plan)
           /\ \A f \in 1 .. Len(Plan) : Plan[f] \in Nat \ {0}
           /\ connector = "openiti" => Len(Plan) = 1
           /\ F!Files = 1 .. Len(Plan)
           /\ \A f \in 1 .. Len(Plan) : \A u \in 1 .. Plan[f] : <<f, u>> \in F!Urls
           /\ \A x \in F!Urls : \E f \in 1 .. Len(Plan) : \E u \in 1 .. Plan[f] : x = <<f, u>>
<1>1. Plan \in Seq(Nat \ {0}) /\ Plan # <<>> /\ (connector = "openiti" => Len(Plan) = 1)
  BY PlansAssumption DEF Plan
<1>2. /\ Len(Plan) \in Nat /\ DOMAIN Plan = 1 .. Len(Plan) /\ Len(Plan) # 0
      /\ \A f \in 1 .. Len(Plan) : Plan[f] \in Nat \ {0}
  BY <1>1, SeqParts
<1>3. F!Files = 1 .. Len(Plan)
  BY <1>2 DEF F!Files, Plan
<1>4. F!Urls = UNION {{f} \X (1 .. Plan[f]) : f \in 1 .. Len(Plan)}
  BY <1>3 DEF F!Urls, Plan
<1>5. \A f \in 1 .. Len(Plan) : \A u \in 1 .. Plan[f] : <<f, u>> \in F!Urls
  BY <1>4
<1>6. \A x \in F!Urls : \E f \in 1 .. Len(Plan) : \E u \in 1 .. Plan[f] : x = <<f, u>>
  <2> SUFFICES ASSUME NEW x \in F!Urls
               PROVE  \E f \in 1 .. Len(Plan) : \E u \in 1 .. Plan[f] : x = <<f, u>>
    OBVIOUS
  <2>1. PICK f \in 1 .. Len(Plan) : x \in {f} \X (1 .. Plan[f])
    BY <1>4
  <2> QED  BY <2>1
<1> QED  BY <1>1, <1>2, <1>3, <1>5, <1>6

LEMMA FetchInit == F!Init => FetchInv
<1> SUFFICES ASSUME F!Init PROVE FetchInv
  OBVIOUS
<1>1. connector \in DOMAIN Plans
  BY DEF F!Init
<1>2. 1 \in 1 .. Len(Plan) /\ 1 \in 1 .. Plan[1]
  BY <1>1, PlanFacts
<1>3. FetchTypes
  <2>1. last = <<>> /\ DOMAIN <<>> = {}
    BY DEF F!Init
  <2>2. DOMAIN last \subseteq F!Urls
    BY <2>1
  <2>3. file = 1 /\ url = 1 /\ transient = FALSE /\ saved = FALSE /\ permanent = FALSE
    BY DEF F!Init
  <2>4. state = "due" /\ tries \in 0 .. MaxTries
    BY LimitsAssumption DEF F!Init
  <2> QED  BY <1>1, <1>2, <2>2, <2>3, <2>4 DEF FetchTypes
<1>4. MaxTries > 0
  BY LimitsAssumption
<1> QED  BY <1>3, <1>4 DEF F!Init, FetchInv

\* What is known of a URL after its answer.
LEMMA Answered ==
    ASSUME FetchTypes, NEW a, F!Answer(a)
    PROVE  /\ DOMAIN last' = DOMAIN last \union {<<file, url>>} /\ DOMAIN last' \subseteq F!Urls
           /\ last'[<<file, url>>] = a
           /\ \A x \in DOMAIN last : x # <<file, url>> => last'[x] = last[x]
<1>1. last' = [x \in DOMAIN last \union {<<file, url>>} |-> IF x = <<file, url>> THEN a ELSE last[x]]
  BY DEF F!Answer
<1>2. <<file, url>> \in F!Urls
  BY PlanFacts DEF FetchTypes
<1> QED  BY <1>1, <1>2 DEF FetchTypes

LEMMA SpokenStays ==
    ASSUME FetchTypes, NEW a, F!Answer(a)
    PROVE  /\ \A f \in 1 .. Len(Plan) : f # file /\ Spoken(f) => Spoken(f)'
           /\ a # "busy" => \E x \in DOMAIN last' : x[1] = file /\ last'[x] # "busy"
<1>1. /\ DOMAIN last' = DOMAIN last \union {<<file, url>>} /\ last'[<<file, url>>] = a
      /\ \A x \in DOMAIN last : x # <<file, url>> => last'[x] = last[x]
  BY Answered
<1>2. <<file, url>>[1] = file
  OBVIOUS
<1>3. \A f \in 1 .. Len(Plan) : f # file /\ Spoken(f) => Spoken(f)'
  BY <1>1, <1>2 DEF Spoken
<1> QED  BY <1>1, <1>2, <1>3

\* What was refused before stays so while the current URL answers.
LEMMA RefusedStays ==
    ASSUME FetchTypes, NEW a, F!Answer(a), RefusedUpto(url), UNCHANGED <<connector, file>>
    PROVE  RefusedUpto(url)' \/ url' # url
<1> SUFFICES ASSUME url' = url, NEW v \in 1 .. Plan[file], v < url
             PROVE  <<file, v>> \in DOMAIN last' /\ last'[<<file, v>>] \in Final
  BY DEF RefusedUpto, Plan
<1>1. <<file, v>> \in DOMAIN last /\ last[<<file, v>>] \in Final /\ v # url
  BY DEF RefusedUpto, FetchTypes
<1>2. <<file, v>> # <<file, url>>
  BY <1>1
<1> QED  BY <1>1, <1>2, Answered

\* The current URL adds its refusal.
LEMMA RefusedGrows ==
    ASSUME FetchTypes, NEW a \in Final, F!Answer(a), RefusedUpto(url)
    PROVE  \A v \in 1 .. Plan[file] : v <= url => <<file, v>> \in DOMAIN last' /\ last'[<<file, v>>] \in Final
<1> SUFFICES ASSUME NEW v \in 1 .. Plan[file], v <= url
             PROVE  <<file, v>> \in DOMAIN last' /\ last'[<<file, v>>] \in Final
  OBVIOUS
<1>1. Plan[file] \in Nat /\ url \in Nat
  BY PlanFacts DEF FetchTypes
<1>2. CASE v = url
  BY <1>2, Answered
<1>3. CASE v # url
  <2>1. <<file, v>> \in DOMAIN last /\ last[<<file, v>>] \in Final /\ <<file, v>> # <<file, url>>
    BY <1>1, <1>3 DEF RefusedUpto
  <2> QED  BY <2>1, Answered
<1> QED  BY <1>2, <1>3

\* The next file, or the verdict.
LEMMA FetchProceeds ==
    ASSUME FetchInv, state = "asking", NEW a, a # "busy", F!Answer(a),
           NEW s \in BOOLEAN, NEW p \in BOOLEAN, F!Proceed(s, p),
           p => connector = "openiti" /\ a \in Final /\ ~transient /\ url = Plan[file]
    PROVE  FetchInv'
<1>1. FetchTypes /\ connector' = connector /\ tries' = tries /\ saved' = s /\ permanent' = p
  BY DEF FetchInv, F!Proceed
<1>2. /\ Len(Plan) \in Nat /\ (connector = "openiti" => Len(Plan) = 1) /\ file \in 1 .. Len(Plan)
      /\ \A f \in 1 .. Len(Plan) : Plan[f] \in Nat \ {0}
  BY <1>1, PlanFacts DEF FetchTypes
<1>3. Plan' = Plan /\ F!Urls' = F!Urls
  BY <1>1 DEF Plan, F!Urls, F!Files
<1>4. \A f \in 1 .. Len(Plan) : f <= file => Spoken(f)'
  <2>1. \A f \in 1 .. Len(Plan) : f < file => Spoken(f)
    BY DEF FetchInv
  <2>2. Spoken(file)' \/ file' # file
    BY <1>1, SpokenStays DEF Spoken
  <2>3. \A f \in 1 .. Len(Plan) : f < file => Spoken(f)'
    BY <1>1, <1>2, <2>1, SpokenStays
  <2>4. \E x \in DOMAIN last' : x[1] = file /\ last'[x] # "busy"
    BY <1>1, SpokenStays
  <2> SUFFICES ASSUME NEW f \in 1 .. Len(Plan), f <= file PROVE Spoken(f)'
    OBVIOUS
  <2>5. CASE f = file
    BY <2>4, <2>5 DEF Spoken
  <2>6. CASE f < file
    BY <2>3, <2>6
  <2> QED  BY <1>2, <2>5, <2>6
<1>5. DOMAIN last' \subseteq F!Urls'
  BY <1>1, <1>3, Answered
<1>6. CASE file < Len(Plan)
  <2>1. file' = file + 1 /\ url' = 1 /\ transient' = FALSE /\ state' = state /\ connector # "openiti" /\ ~p
    BY <1>2, <1>6 DEF F!Proceed, Plan
  <2>2. FetchTypes'
    <3>1. file + 1 \in 1 .. Len(Plan)
      BY <1>2, <1>6
    <3>2. 1 \in 1 .. Plan[file + 1]
      BY <1>2, <3>1
    <3> QED  BY <1>1, <1>3, <1>5, <2>1, <3>1, <3>2 DEF FetchTypes
  <2>3. \A f \in 1 .. Len(Plan)' : f < file' => Spoken(f)'
    BY <1>2, <1>3, <1>4, <2>1
  <2> QED  BY <1>1, <2>1, <2>2, <2>3 DEF FetchInv
<1>7. CASE ~(file < Len(Plan))
  <2>1. /\ state' = IF s THEN "saved" ELSE IF p THEN "gone" ELSE "failed"
        /\ UNCHANGED <<file, url, transient>> /\ file = Len(Plan)
    BY <1>2, <1>7 DEF F!Proceed, Plan
  <2>2. FetchTypes'
    BY <1>1, <1>3, <1>5, <2>1 DEF FetchTypes, F!Ends
  <2>3. \A f \in 1 .. Len(Plan)' : Spoken(f)'
    BY <1>2, <1>3, <1>4, <2>1
  <2>4. ASSUME state' = "gone" PROVE connector' = "openiti" /\ RefusedUpto(Plan[file] + 1)'
    <3>1. p /\ connector = "openiti" /\ a \in Final /\ ~transient /\ url = Plan[file]
      BY <2>1, <2>4
    <3>2. \A v \in 1 .. Plan[file] : v <= url => <<file, v>> \in DOMAIN last' /\ last'[<<file, v>>] \in Final
      BY <1>1, <3>1, RefusedGrows DEF FetchInv
    <3> QED  BY <1>1, <1>2, <1>3, <2>1, <3>1, <3>2 DEF RefusedUpto
  <2> QED  BY <1>1, <2>1, <2>2, <2>3, <2>4 DEF FetchInv
<1> QED  BY <1>6, <1>7

\* The try ends, and the job is due again or dead.
LEMMA FetchRaises ==
    ASSUME FetchInv, state = "asking", NEW a, F!Retryable(a), tries \in Nat
    PROVE  FetchInv'
<1>1. FetchTypes /\ F!Answer(a) /\ UNCHANGED <<connector, file, url, transient, saved, permanent, tries>>
  BY DEF FetchInv, F!Retryable
<1>2. Plan' = Plan /\ F!Urls' = F!Urls
  BY <1>1 DEF Plan, F!Urls, F!Files
<1>3. DOMAIN last' \subseteq F!Urls'
  BY <1>1, <1>2, Answered
<1>4. (state' = "dead" /\ tries >= MaxTries) \/ (state' = "due" /\ tries < MaxTries)
  BY <1>1, LimitsAssumption DEF F!Retryable, F!FailJob, FetchTypes
<1>5. state' = "dead" => tries' = MaxTries
  BY <1>1, <1>4, LimitsAssumption DEF FetchTypes
<1>6. FetchTypes'
  BY <1>1, <1>2, <1>3, <1>4 DEF FetchTypes, F!Ends
<1> QED  BY <1>1, <1>4, <1>5, <1>6 DEF FetchInv

LEMMA FetchStep == ASSUME FetchInv, [F!Next]_try PROVE FetchInv'
<1>1. FetchTypes /\ tries \in Nat /\ MaxTries \in Nat
  BY LimitsAssumption DEF FetchInv, FetchTypes
<1>2. /\ Len(Plan) \in Nat /\ Len(Plan) >= 1 /\ (connector = "openiti" => Len(Plan) = 1)
      /\ \A f \in 1 .. Len(Plan) : Plan[f] \in Nat \ {0}
  BY <1>1, PlanFacts DEF FetchTypes
<1>3. CASE F!RunIngestItem
  <2>1. /\ state = "due" /\ tries' = tries + 1 /\ file' = 1 /\ url' = 1
        /\ transient' = FALSE /\ saved' = FALSE /\ permanent' = FALSE /\ last' = <<>> /\ connector' = connector
        /\ state' = "asking" \/ F!FailJob
    BY <1>3 DEF F!RunIngestItem
  <2>2. tries < MaxTries /\ tries' \in 0 .. MaxTries
    BY <1>1, <2>1 DEF FetchInv
  <2>3. \/ state' = "asking"
        \/ state' = "dead" /\ tries' = MaxTries
        \/ state' = "due" /\ tries' < MaxTries
    BY <1>1, <2>1, <2>2 DEF F!FailJob
  <2>4. Plan' = Plan /\ DOMAIN last' = {}
    BY <2>1 DEF Plan
  <2>5. FetchTypes'
    <3>1. 1 \in 1 .. Len(Plan) /\ 1 \in 1 .. Plan[1]
      BY <1>2
    <3> QED  BY <1>1, <2>1, <2>2, <2>3, <2>4, <3>1 DEF FetchTypes, F!Ends
  <2>6. RefusedUpto(url)'
    BY <1>2, <2>1, <2>4 DEF RefusedUpto
  <2> QED  BY <1>2, <2>1, <2>3, <2>4, <2>5, <2>6 DEF FetchInv
<1>4. CASE F!RetryRequest
  <2>1. /\ state = "asking" /\ F!Answer("busy")
        /\ UNCHANGED <<connector, state, tries, file, url, transient, saved, permanent>>
    BY <1>4 DEF F!RetryRequest
  <2>2. Plan' = Plan /\ F!Urls' = F!Urls
    BY <2>1 DEF Plan, F!Urls, F!Files
  <2>3. FetchTypes'
    <3>1. DOMAIN last' \subseteq F!Urls
      BY <1>1, <2>1, Answered
    <3> QED  BY <1>1, <2>1, <2>2, <3>1 DEF FetchTypes
  <2>4. \A f \in 1 .. Len(Plan)' : f < file' => Spoken(f)'
    BY <1>1, <2>1, <2>2, SpokenStays DEF FetchInv, FetchTypes
  <2>5. connector = "openiti" /\ ~transient => RefusedUpto(url)'
    BY <1>1, <2>1, RefusedStays DEF FetchInv
  <2> QED  BY <2>1, <2>3, <2>4, <2>5 DEF FetchInv
<1>5. CASE F!NextUrl
  <2>1. PICK a \in {"missing", "refused", "odd", "busy"} : F!Answer(a) /\ transient' = F!Transient(a)
    BY <1>5 DEF F!NextUrl
  <2>2. /\ state = "asking" /\ connector = "openiti" /\ url < Plan[file] /\ url' = url + 1
        /\ UNCHANGED <<connector, state, tries, file, saved, permanent>>
    BY <1>5 DEF F!NextUrl, F!Falls, Plan
  <2>3. Plan' = Plan /\ F!Urls' = F!Urls
    BY <2>2 DEF Plan, F!Urls, F!Files
  <2>4. FetchTypes'
    <3>1. DOMAIN last' \subseteq F!Urls /\ transient' \in BOOLEAN
      BY <1>1, <2>1, Answered DEF F!Transient, FetchTypes
    <3> QED  BY <1>1, <1>2, <2>2, <2>3, <3>1 DEF FetchTypes
  <2>5. \A f \in 1 .. Len(Plan)' : f < file' => Spoken(f)'
    BY <1>1, <2>1, <2>2, <2>3, SpokenStays DEF FetchInv, FetchTypes
  <2>6. ~transient' => RefusedUpto(url)'
    <3> SUFFICES ASSUME ~transient' PROVE RefusedUpto(url)'
      OBVIOUS
    <3>1. ~transient /\ a \in Final
      BY <2>1 DEF F!Transient, Final
    <3>2. \A v \in 1 .. Plan[file] : v <= url => <<file, v>> \in DOMAIN last' /\ last'[<<file, v>>] \in Final
      BY <1>1, <2>1, <2>2, <3>1, RefusedGrows DEF FetchInv
    <3> QED  BY <1>1, <1>2, <2>2, <2>3, <3>2 DEF RefusedUpto, FetchTypes
  <2> QED  BY <2>2, <2>4, <2>5, <2>6 DEF FetchInv
<1>6. CASE F!Saved
  <2>1. state = "asking" /\ F!Answer("file") /\ F!Proceed(TRUE, FALSE)
    <3>1. ~permanent /\ permanent \in BOOLEAN
      BY <1>6 DEF F!Saved, FetchInv, FetchTypes
    <3>2. permanent = FALSE
      BY <3>1
    <3> QED  BY <1>6, <3>2 DEF F!Saved
  <2> QED  BY <2>1, FetchProceeds
<1>7. CASE F!Raises
  <2>1. state = "asking" /\ \E a \in F!Answers : F!Retryable(a)
    BY <1>7 DEF F!Raises, F!Answers
  <2> QED  BY <1>1, <2>1, FetchRaises
<1>8. CASE F!AllGone
  <2>1. PICK a \in Final : ~F!Transient(a) /\ F!Answer(a) /\ F!Proceed(saved, TRUE)
    BY <1>8 DEF F!AllGone, Final
  <2>2. state = "asking" /\ connector = "openiti" /\ url = Plan[file] /\ ~transient /\ saved \in BOOLEAN /\ a # "busy"
    BY <1>1, <1>8, <2>1 DEF F!AllGone, F!Falls, F!LastUrl, F!Transient, FetchTypes, Final, Plan
  <2> QED  BY <2>1, <2>2, FetchProceeds
<1>9. CASE F!Skipped
  <2>1. PICK a \in {"invalid", "short", "missing", "refused", "odd"} : F!Answer(a)
    BY <1>9 DEF F!Skipped
  <2>2. state = "asking" /\ saved \in BOOLEAN /\ permanent = FALSE
    BY <1>1, <1>9 DEF F!Skipped, FetchInv, FetchTypes
  <2>3. F!Proceed(saved, FALSE)
    BY <1>9, <2>2 DEF F!Skipped
  <2> QED  BY <2>1, <2>2, <2>3, FetchProceeds
<1>10. CASE UNCHANGED try
  BY <1>10 DEF try, FetchInv, FetchTypes, Plan, F!Urls, F!Files, Spoken, RefusedUpto
<1> QED  BY <1>3, <1>4, <1>5, <1>6, <1>7, <1>8, <1>9, <1>10 DEF F!Next

LEMMA FetchLate == FetchInv => GivenUpLate
<1> SUFFICES ASSUME FetchInv PROVE GivenUpLate
  OBVIOUS
<1>1. FetchTypes
  BY DEF FetchInv
<1>2. /\ F!Files = 1 .. Len(Plan) /\ (connector = "openiti" => Len(Plan) = 1)
      /\ \A f \in 1 .. Len(Plan) : Plan[f] \in Nat \ {0}
      /\ \A x \in F!Urls : \E f \in 1 .. Len(Plan) : \E u \in 1 .. Plan[f] : x = <<f, u>>
  BY <1>1, PlanFacts DEF FetchTypes
<1>3. ASSUME state = "gone"
      PROVE  DOMAIN last = F!Urls /\ \A x \in F!Urls : last[x] \in {"missing", "refused", "odd"}
  <2>1. Len(Plan) = 1 /\ file = 1 /\ RefusedUpto(Plan[file] + 1)
    <3>1. connector = "openiti" /\ RefusedUpto(Plan[file] + 1)
      BY <1>3 DEF FetchInv
    <3>2. Len(Plan) = 1 /\ file \in 1 .. 1
      BY <1>1, <1>2, <3>1 DEF FetchTypes
    <3> QED  BY <3>1, <3>2
  <2>2. \A u \in 1 .. Plan[1] : <<1, u>> \in DOMAIN last /\ last[<<1, u>>] \in Final
    <3>1. Plan[1] \in Nat /\ \A u \in 1 .. Plan[1] : u < Plan[1] + 1
      BY <1>2, <2>1
    <3> QED  BY <2>1, <3>1 DEF RefusedUpto
  <2>3. ASSUME NEW x \in F!Urls PROVE x \in DOMAIN last /\ last[x] \in Final
    <3>1. PICK f \in 1 .. Len(Plan) : \E u \in 1 .. Plan[f] : x = <<f, u>>
      BY <1>2
    <3>2. f = 1
      BY <2>1
    <3> QED  BY <2>2, <3>1, <3>2
  <2> QED  BY <1>1, <2>3 DEF FetchTypes, Final
<1>4. state = "failed" => \A f \in F!Files : \E x \in DOMAIN last : x[1] = f /\ last[x] # "busy"
  BY <1>2 DEF FetchInv, Spoken
<1>5. state = "dead" => tries = MaxTries
  BY DEF FetchInv
<1> QED  BY <1>3, <1>4, <1>5 DEF GivenUpLate, F!GivenUpLate
-----------------------------------------------------------------------------
(***************************************************************************)
(* The harvest loop.  A drain that ran nothing ended with an empty queue,  *)
(* and requeue_failed found nothing before it: so nothing retriable is     *)
(* left, unless the items gone for good fill the window it looks at.       *)
(***************************************************************************)
FewGone == \A f \in Fates : Cardinality({i \in Items : f[i] = "gone"}) < Batch

Statuses == {"unknown", "queued", "settled", "failed", "gone"}

HarvestTypes ==
    /\ fate \in Fates /\ status \in [Items -> Statuses] /\ due \in [Items -> Nat]
    /\ budget \in Nat /\ requeued \in Nat /\ processed \in Nat

HarvestInv ==
    /\ HarvestTypes
    /\ \A i \in Items : status[i] = "queued" => due[i] > 0
    /\ \A i \in Items : status[i] = "gone" => fate[i] = "gone"
    /\ pc = "drain" /\ processed = 0 => budget > 0
    /\ FewGone /\ pc = "drain" /\ requeued = 0 /\ processed = 0 => H!With({"failed"}) = {}
    /\ pc = "discover" => H!With({"queued"}) = {} /\ (FewGone => H!With({"failed"}) = {})
    /\ pc = "no_more_eligible" =>
           /\ H!With({"queued"}) = {} /\ H!With({"unknown"}) = {}
           /\ FewGone => H!With({"failed"}) = {}

LEMMA SameNumber == \A S : H!Cardinality(S) = Cardinality(S)
BY DEF H!Cardinality, Cardinality

LEMMA HarvestInit == H!Init => HarvestInv
BY DEF H!Init, HarvestInv, HarvestTypes, Statuses

LEMMA WithStays == ASSUME NEW S, UNCHANGED status PROVE H!With(S)' = H!With(S)
BY DEF H!With

\* requeue_failed finds nothing only when nothing is failed, or everything it
\* looked at is gone for good.
LEMMA WindowIsWide ==
    ASSUME HarvestInv, FewGone, H!Cardinality(H!Retriable) = 0
    PROVE  H!With({"failed"}) = {}
<1> DEFINE Failing == H!With({"failed"})
           Over == H!With({"failed", "gone"})
           Lost == {i \in Items : fate[i] = "gone"}
<1>1. /\ Failing = {i \in Items : status[i] = "failed"}
      /\ Over = {i \in Items : status[i] \in {"failed", "gone"}}
      /\ Items \subseteq Nat /\ IsFiniteSet(Items) /\ Batch \in Nat
  BY ItemsAssumption, CountsAssumption DEF H!With
<1>2. H!Retriable = {i \in Over : Cardinality({j \in Over : j < i}) < Batch} \intersect Failing
  BY SameNumber DEF H!Retriable, H!FirstOf
<1>3. H!Retriable = {}
  <2>1. H!Retriable \subseteq Items
    BY <1>1, <1>2
  <2>2. IsFiniteSet(H!Retriable) /\ Cardinality(H!Retriable) = 0
    BY <1>1, <2>1, SameNumber, FS_Subset
  <2> QED  BY <2>2, FS_EmptySet
<1> SUFFICES ASSUME Failing # {} PROVE FALSE
  OBVIOUS
<1>4. PICK m \in Failing : \A k \in Failing : m <= k
  <2>1. Failing \in SUBSET Nat
    BY <1>1
  <2> HIDE DEF Failing
  <2> QED  BY <2>1, LeastNatural
<1>5. {j \in Over : j < m} \subseteq Lost
  <2> SUFFICES ASSUME NEW j \in Over, j < m PROVE j \in Lost
    OBVIOUS
  <2>1. j \in Items /\ j \in Nat /\ m \in Nat
    BY <1>1
  <2>2. j \notin Failing
    BY <1>4, <2>1
  <2>3. status[j] = "gone"
    BY <1>1, <2>2
  <2> QED  BY <2>1, <2>3 DEF HarvestInv
<1>6. IsFiniteSet(Lost)
  BY <1>1, FS_Subset
<1>7. Cardinality({j \in Over : j < m}) < Batch
  <2>1. /\ IsFiniteSet({j \in Over : j < m})
        /\ Cardinality({j \in Over : j < m}) <= Cardinality(Lost)
    BY <1>5, <1>6, FS_Subset
  <2>2. Cardinality(Lost) \in Nat /\ Cardinality({j \in Over : j < m}) \in Nat
    BY <1>6, <2>1, FS_CardinalityType
  <2>3. Cardinality(Lost) < Batch
    BY DEF FewGone, HarvestInv, HarvestTypes
  <2> QED  BY <1>1, <2>1, <2>2, <2>3
<1>8. m \in Over
  BY <1>1
<1> QED  BY <1>2, <1>3, <1>7, <1>8

\* A step of a drain that takes a job away from item i.
LEMMA WorkedOff ==
    ASSUME HarvestInv, fate' = fate, H!Draining, budget > 0, H!Ran, NEW i \in Items, due[i] > 0,
           due' = [due EXCEPT ![i] = @ - 1],
           NEW s \in {"settled", "gone", "failed"}, s = "gone" => fate[i] = "gone",
           status' = [status EXCEPT ![i] = s]
    PROVE  HarvestInv'
<1>1. /\ budget' = budget - 1 /\ pc' = pc /\ requeued' = requeued /\ pc \in {"drain", "drain_new"}
      /\ processed' = IF pc = "drain" THEN processed + 1 ELSE processed
  BY DEF H!Ran, H!Draining
<1>2. budget' \in Nat /\ processed' \in Nat /\ (pc = "drain" => processed' # 0)
  <2>1. budget \in Nat /\ processed \in Nat
    BY DEF HarvestInv, HarvestTypes
  <2>2. budget' \in Nat
    BY <1>1, <2>1
  <2> QED  BY <1>1, <2>1, <2>2
<1>3. due' \in [Items -> Nat] /\ \A j \in Items : j # i => due'[j] = due[j]
  <2>1. due \in [Items -> Nat] /\ due[i] \in Nat
    BY DEF HarvestInv, HarvestTypes
  <2>2. due[i] - 1 \in Nat
    BY <2>1
  <2> QED  BY <2>1, <2>2
<1>4. /\ status' \in [Items -> Statuses] /\ status'[i] = s
      /\ \A j \in Items : j # i => status'[j] = status[j]
  BY DEF HarvestInv, HarvestTypes, Statuses
<1>5. \A j \in Items : status'[j] = "queued" => due'[j] > 0
  BY <1>3, <1>4 DEF HarvestInv
<1>6. \A j \in Items : status'[j] = "gone" => fate[j] = "gone"
  BY <1>4 DEF HarvestInv
<1> QED  BY <1>1, <1>2, <1>3, <1>4, <1>5, <1>6 DEF HarvestInv, HarvestTypes

LEMMA HarvestStep == ASSUME HarvestInv, [H!Next]_loop PROVE HarvestInv'
<1>0. fate' = fate
  BY DEF H!Next, loop
<1> USE <1>0
<1>1. HarvestTypes /\ Batch \in Nat \ {0} /\ MaxJobs \in Nat \ {0} /\ IsFiniteSet(Items)
  BY CountsAssumption, ItemsAssumption DEF HarvestInv
<1>2. CASE H!Top
  <2>1. pc' \in {"target_reached", "requeue"} /\ UNCHANGED <<status, due, budget, requeued, processed>>
    BY <1>2 DEF H!Top, H!queue
  <2> QED  BY <2>1, WithStays DEF HarvestInv, HarvestTypes
<1>3. CASE H!RequeueFailed
  <2> DEFINE again == H!Retriable
  <2>1. /\ status' = [i \in Items |-> IF i \in again THEN "queued" ELSE status[i]]
        /\ due' = [i \in Items |-> IF i \in again /\ due[i] < MaxJobs THEN due[i] + 1 ELSE due[i]]
        /\ requeued' = H!Cardinality(again) /\ budget' = 3 * Batch /\ processed' = 0 /\ pc' = "drain"
    BY <1>3 DEF H!RequeueFailed
  <2>2. IsFiniteSet(again) /\ again \subseteq H!With({"failed"}) /\ again \subseteq Items
    <3>1. again \subseteq H!With({"failed"}) /\ again \subseteq Items
      BY DEF H!Retriable, H!With
    <3> QED  BY <1>1, <3>1, FS_Subset
  <2>3. requeued' \in Nat
    BY <2>1, <2>2, SameNumber, FS_CardinalityType
  <2> HIDE DEF again
  <2>4. HarvestTypes'
    BY <1>1, <2>1, <2>3 DEF HarvestTypes, Statuses
  <2>5. \A i \in Items : status'[i] = "queued" => due'[i] > 0
    <3> SUFFICES ASSUME NEW i \in Items, status'[i] = "queued" PROVE due'[i] > 0
      OBVIOUS
    <3>1. due[i] \in Nat /\ (due'[i] = due[i] \/ due'[i] = due[i] + 1)
      BY <1>1, <2>1 DEF HarvestTypes
    <3>2. CASE i \in again
      BY <1>1, <2>1, <3>1, <3>2
    <3>3. CASE i \notin again
      BY <2>1, <3>1, <3>3 DEF HarvestInv
    <3> QED  BY <3>2, <3>3
  <2>6. \A i \in Items : status'[i] = "gone" => fate[i] = "gone"
    BY <2>1 DEF HarvestInv
  <2>7. ASSUME FewGone, requeued' = 0 PROVE H!With({"failed"})' = {}
    <3>1. H!With({"failed"}) = {}
      BY <2>1, <2>7, WindowIsWide DEF again
    <3> QED  BY <2>1, <3>1 DEF H!With
  <2>8. budget' > 0
    BY <1>1, <2>1
  <2> QED  BY <2>1, <2>4, <2>5, <2>6, <2>7, <2>8 DEF HarvestInv
<1>4. CASE H!DrainEnds
  <2>1. /\ H!Draining /\ (budget = 0 \/ \A i \in Items : due[i] = 0) /\ budget' = 0
        /\ pc' = IF pc = "drain" /\ H!Quiet THEN "discover" ELSE "top"
        /\ UNCHANGED <<status, due, requeued, processed>>
    BY <1>4 DEF H!DrainEnds, H!queue
  <2>2. CASE pc = "drain" /\ H!Quiet
    <3>1. requeued = 0 /\ processed = 0 /\ budget # 0
      BY <2>2 DEF H!Quiet, HarvestInv
    <3>2. \A i \in Items : due[i] = 0
      BY <2>1, <3>1
    <3>3. H!With({"queued"}) = {}
      <4> SUFFICES ASSUME NEW i \in Items, status[i] = "queued" PROVE FALSE
        BY DEF H!With
      <4> QED  BY <1>1, <3>2 DEF HarvestInv, HarvestTypes
    <3>4. FewGone => H!With({"failed"}) = {}
      BY <2>2, <3>1 DEF HarvestInv
    <3> QED  BY <2>1, <2>2, <3>3, <3>4, WithStays DEF HarvestInv, HarvestTypes
  <2>3. CASE ~(pc = "drain" /\ H!Quiet)
    BY <2>1, <2>3 DEF HarvestInv, HarvestTypes
  <2> QED  BY <2>2, <2>3
<1>5. CASE H!DiscoverNew
  <2> DEFINE found == H!FirstOf(H!With({"unknown"}), Batch)
  <2>1. /\ status' = [i \in Items |-> IF i \in found THEN "queued" ELSE status[i]]
        /\ due' = [i \in Items |-> IF i \in found THEN 1 ELSE due[i]]
        /\ budget' = 3 * Batch /\ pc' = "drain_new" /\ UNCHANGED <<requeued, processed>>
    BY <1>5 DEF H!DiscoverNew
  <2> HIDE DEF found
  <2>2. HarvestTypes'
    <3>1. status' \in [Items -> Statuses]
      BY <1>1, <2>1 DEF HarvestTypes, Statuses
    <3>2. due' \in [Items -> Nat]
      BY <1>1, <2>1 DEF HarvestTypes
    <3>3. 3 * Batch \in Nat
      BY <1>1
    <3> QED  BY <1>1, <2>1, <3>1, <3>2, <3>3 DEF HarvestTypes
  <2>3. \A i \in Items : status'[i] = "queued" => due'[i] > 0
    <3> SUFFICES ASSUME NEW i \in Items, status'[i] = "queued" PROVE due'[i] > 0
      OBVIOUS
    <3>1. CASE i \in found
      BY <2>1, <3>1
    <3>2. CASE i \notin found
      BY <2>1, <3>2 DEF HarvestInv
    <3> QED  BY <3>1, <3>2
  <2>4. \A i \in Items : status'[i] = "gone" => fate[i] = "gone"
    BY <2>1 DEF HarvestInv
  <2> QED  BY <2>1, <2>2, <2>3, <2>4 DEF HarvestInv
<1>6. CASE H!DiscoverNothing
  <2>1. /\ pc = "discover" /\ H!With({"unknown"}) = {} /\ pc' \in {"no_more_eligible", "top"}
        /\ UNCHANGED <<status, due, budget, requeued, processed>>
    BY <1>6 DEF H!DiscoverNothing, H!EmptyRound, H!queue
  <2> QED  BY <2>1, WithStays DEF HarvestInv, HarvestTypes
<1>7. CASE H!DiscoveryFails
  <2>1. pc' \in {"blocked", "top"} /\ UNCHANGED <<status, due, budget, requeued, processed>>
    BY <1>7 DEF H!DiscoveryFails, H!EmptyRound, H!queue
  <2> QED  BY <2>1 DEF HarvestInv, HarvestTypes
<1>8. ASSUME NEW i \in Items, H!Handled(i) PROVE HarvestInv'
  <2> DEFINE s == CASE fate[i] = "ok" -> "settled" [] fate[i] = "gone" -> "gone" [] OTHER -> "failed"
  <2>1. s \in {"settled", "gone", "failed"} /\ (s = "gone" => fate[i] = "gone")
    BY <1>8 DEF H!Handled
  <2>2. status' = [status EXCEPT ![i] = s]
    BY <1>8 DEF H!Handled
  <2> HIDE DEF s
  <2> QED  BY <1>8, <2>1, <2>2, WorkedOff DEF H!Handled
<1>9. ASSUME NEW i \in Items, H!Raised(i) PROVE HarvestInv'
  BY <1>9, WorkedOff DEF H!Raised
<1>10. ASSUME NEW i \in Items, H!Crashed(i) PROVE HarvestInv'
  <2>1. /\ pc \in {"drain", "drain_new"} /\ budget > 0 /\ budget' = budget - 1
        /\ processed' = IF pc = "drain" THEN processed + 1 ELSE processed
        /\ UNCHANGED <<status, due, pc, requeued>>
    BY <1>10 DEF H!Crashed, H!Ran, H!Draining, H!queue
  <2>2. budget' \in Nat /\ processed' \in Nat /\ (pc = "drain" => processed' # 0)
    <3>1. budget \in Nat /\ processed \in Nat
      BY <1>1 DEF HarvestTypes
    <3>2. budget' \in Nat
      BY <2>1, <3>1
    <3> QED  BY <2>1, <3>1, <3>2
  <2> QED  BY <1>1, <2>1, <2>2 DEF HarvestInv, HarvestTypes
<1>11. ASSUME NEW i \in Items, H!Elapse(i) PROVE HarvestInv'
  <2>1. due' = [due EXCEPT ![i] = @ + 1] /\ UNCHANGED <<status, pc, budget, requeued, processed>>
    BY <1>11 DEF H!Elapse
  <2>2. due' \in [Items -> Nat] /\ \A j \in Items : due[j] > 0 => due'[j] > 0
    BY <1>1, <2>1 DEF HarvestTypes
  <2> QED  BY <1>1, <2>1, <2>2, WithStays DEF HarvestInv, HarvestTypes
<1>12. CASE UNCHANGED loop
  BY <1>12, WithStays DEF loop, HarvestInv, HarvestTypes
<1> QED  BY <1>2, <1>3, <1>4, <1>5, <1>6, <1>7, <1>8, <1>9, <1>10, <1>11, <1>12
         DEF H!Next, H!HarvestLoop

LEMMA HarvestTrue == HarvestInv /\ FewGone => RoundsAreTrue
BY DEF HarvestInv, RoundsAreTrue, H!RoundsAreTrue, H!With
-----------------------------------------------------------------------------
(***************************************************************************)
(* Discovery.  Each place in a listing has what is behind it.  As long as  *)
(* the listing stands still, what is behind a pass and within its reach    *)
(* has a row, gets one in its transaction, is being looked up or is still  *)
(* to be, on the page.                                                     *)
(***************************************************************************)
Spots == [category : Nat \ {0}, after : Nat]

ListingTypes ==
    /\ source \in Sources
    /\ listing \in Seq(Listed)
    /\ \A j, k \in 1 .. Len(listing) : listing[j] = listing[k] => j = k
    /\ D!ByTitle => \A j, k \in 1 .. Len(listing) : j < k => listing[j] < listing[k]

Known(spot) == spot \in Spots /\ (D!ByTitle => spot.category <= Len(Categories))

Behind(x, spot) ==
    IF D!ByTitle
    THEN \/ \E c \in 1 .. Len(Categories) : c < spot.category /\ x \in Categories[c]
         \/ x \in Categories[spot.category] /\ x <= spot.after
    ELSE \E j \in 1 .. Len(listing) : j <= spot.after /\ listing[j] = x

Passed(p) == {x \in D!Reachable : at[p] = None \/ Behind(x, at[p])}
Noticed(p) == D!ToSet(page[p]) \union rows \union mine[p] \union {checked[p]}

PassTypes ==
    /\ rows \subseteq Listed /\ lock \in Passes \union {None}
    /\ place \in [Passes -> {"idle", "fetch", "scan", "insert", "done", "failed"}]
    /\ at \in [Passes -> Spots \union {None}] /\ page \in [Passes -> Seq(Listed)]
    /\ created \in [Passes -> 0 .. Limit] /\ mine \in [Passes -> SUBSET Listed]
    /\ checked \in [Passes -> Listed \union {None}]
    /\ steady \in [Passes -> BOOLEAN] /\ changes \in 0 .. MaxChanges
    /\ \A p \in Passes : mine[p] # {} => lock = p

PassInv(p) ==
    /\ at[p] = None \/ Known(at[p])
    /\ place[p] = "fetch" => at[p] # None /\ page[p] = <<>>
    /\ place[p] = "insert" => created[p] < Limit /\ checked[p] # None
    /\ place[p] # "insert" => checked[p] = None
    /\ place[p] \in {"fetch", "scan", "insert"} /\ steady[p] => Passed(p) \subseteq Noticed(p)
    /\ place[p] = "done" /\ steady[p] /\ created[p] < Limit => D!Reachable \subseteq rows

DiscoveryInv == ListingTypes /\ PassTypes /\ \A p \in Passes : PassInv(p)

LEMMA SameListings ==
    /\ \A s, S : D!Among(s, S) = Among(s, S)
    /\ \A S : D!Ascending(S) = Ascending(S)
<1>1. \A S, before : D!InOrder(S, before) = InOrder(S, before)
  BY DEF D!InOrder, InOrder, D!Cardinality, Cardinality
<1>2. \A S : D!Ascending(S) = Ascending(S)
  BY <1>1 DEF D!Ascending, Ascending
<1> QED  BY <1>1, <1>2 DEF D!Among, Among

LEMMA EntriesOf == \A T : \A s \in Seq(T) : \A x : x \in D!ToSet(s) <=> \E i \in 1 .. Len(s) : s[i] = x
<1> SUFFICES ASSUME NEW T, NEW s \in Seq(T) PROVE \A x : x \in D!ToSet(s) <=> \E i \in 1 .. Len(s) : s[i] = x
  OBVIOUS
<1> QED  BY SeqParts DEF D!ToSet

LEMMA ReachableIs ==
    ASSUME ListingTypes
    PROVE  \A x : x \in D!Reachable <=>
               \E j \in 1 .. Len(listing) :
                   /\ listing[j] = x /\ x \in Fitting
                   /\ source = "internet_archive" => j <= Rows * MaxPages
                   /\ D!ByTitle => \E c \in 1 .. Len(Categories) : x \in Categories[c]
<1>1. DOMAIN listing = 1 .. Len(listing) /\ DOMAIN Categories = 1 .. Len(Categories)
  BY SeqParts, SourcesAssumption DEF ListingTypes
<1> QED  BY <1>1 DEF D!Reachable

\* The part of a sequence from one place to another.
LEMMA PartIs ==
    ASSUME NEW T, NEW s \in Seq(T), NEW a \in Nat, NEW b \in Nat, b <= Len(s)
    PROVE  /\ SubSeq(s, a + 1, b) \in Seq(T)
           /\ Len(SubSeq(s, a + 1, b)) = IF a < b THEN b - a ELSE 0
           /\ \A i \in 1 .. Len(SubSeq(s, a + 1, b)) : SubSeq(s, a + 1, b)[i] = s[a + i]
<1>1. Len(s) \in Nat /\ \A i \in 1 .. Len(s) : s[i] \in T
  BY SeqParts
<1>2. \A i \in a + 1 .. b : s[i] \in T
  BY <1>1
<1>3. /\ SubSeq(s, a + 1, b) \in Seq(T)
      /\ Len(SubSeq(s, a + 1, b)) = IF a + 1 <= b THEN b - (a + 1) + 1 ELSE 0
      /\ \A i \in 1 .. b - (a + 1) + 1 : SubSeq(s, a + 1, b)[i] = s[(a + 1) + i - 1]
  BY <1>2, SubSeqProperties
<1> DEFINE cut == SubSeq(s, a + 1, b)
<1> HIDE DEF cut
<1>4. Len(cut) = IF a < b THEN b - a ELSE 0
  BY <1>3 DEF cut
<1>5. \A i \in 1 .. Len(cut) : cut[i] = s[a + i]
  <2> SUFFICES ASSUME NEW i \in 1 .. Len(cut) PROVE cut[i] = s[a + i]
    OBVIOUS
  <2>1. i \in 1 .. b - (a + 1) + 1 /\ (a + 1) + i - 1 = a + i
    BY <1>4
  <2> QED  BY <1>3, <2>1 DEF cut
<1> QED  BY <1>3, <1>4, <1>5 DEF cut

\* What is left of a category, in the order of its titles.
LEMMA CategoryLeft ==
    ASSUME ListingTypes, D!ByTitle, NEW spot, Known(spot)
    PROVE  /\ D!Rest(spot) \in Seq(Listed)
           /\ \A x : (\E i \in 1 .. Len(D!Rest(spot)) : D!Rest(spot)[i] = x) <=>
                     /\ x \in Categories[spot.category] /\ x > spot.after
                     /\ \E j \in 1 .. Len(listing) : listing[j] = x
           /\ \A i, k \in 1 .. Len(D!Rest(spot)) : i < k => D!Rest(spot)[i] < D!Rest(spot)[k]
<1> DEFINE wanted == {i \in Categories[spot.category] : i > spot.after}
           rest == Among(listing, wanted)
<1>1. D!Rest(spot) = rest
  BY SameListings DEF D!Rest
<1>2. rest \in Seq(Listed \intersect wanted) /\ \E from : Takes(from, rest, listing, wanted)
  BY AmongIs DEF ListingTypes
<1>3. PICK from : Takes(from, rest, listing, wanted)
  BY <1>2
<1> HIDE DEF rest, wanted
<1>4. rest \in Seq(Listed) /\ \A i \in 1 .. Len(rest) : rest[i] \in wanted
  <2>1. Seq(Listed \intersect wanted) \subseteq Seq(Listed)
    OBVIOUS
  <2> QED  BY <1>2, <2>1, SeqParts
<1>5. \A x : (\E i \in 1 .. Len(rest) : rest[i] = x) <=> x \in wanted /\ \E j \in 1 .. Len(listing) : listing[j] = x
  <2>1. ASSUME NEW i \in 1 .. Len(rest) PROVE rest[i] \in wanted /\ \E j \in 1 .. Len(listing) : listing[j] = rest[i]
    BY <1>3, <1>4 DEF Takes
  <2>2. ASSUME NEW j \in 1 .. Len(listing), listing[j] \in wanted PROVE \E i \in 1 .. Len(rest) : rest[i] = listing[j]
    <3>1. PICK i \in 1 .. Len(rest) : from[i] = j
      BY <1>3, <2>2 DEF Takes
    <3> QED  BY <1>3, <3>1 DEF Takes
  <2> QED  BY <2>1, <2>2
<1>6. \A i, k \in 1 .. Len(rest) : i < k => rest[i] < rest[k]
  <2> SUFFICES ASSUME NEW i \in 1 .. Len(rest), NEW k \in 1 .. Len(rest), i < k PROVE rest[i] < rest[k]
    OBVIOUS
  <2>1. from[i] \in 1 .. Len(listing) /\ from[k] \in 1 .. Len(listing) /\ from[i] < from[k]
    BY <1>3 DEF Takes
  <2>2. rest[i] = listing[from[i]] /\ rest[k] = listing[from[k]]
    BY <1>3 DEF Takes
  <2> QED  BY <2>1, <2>2 DEF ListingTypes
<1>7. \A x : x \in wanted <=> x \in Categories[spot.category] /\ x > spot.after
  BY DEF wanted
<1> QED  BY <1>1, <1>4, <1>5, <1>6, <1>7

\* What is left of a list that is not by title.
LEMMA ListLeft ==
    ASSUME ListingTypes, ~D!ByTitle, NEW spot, Known(spot)
    PROVE  /\ D!Rest(spot) \in Seq(Listed)
           /\ Len(D!Rest(spot)) = IF spot.after < Len(listing) THEN Len(listing) - spot.after ELSE 0
           /\ \A i \in 1 .. Len(D!Rest(spot)) : D!Rest(spot)[i] = listing[spot.after + i]
<1>1. D!Rest(spot) = SubSeq(listing, spot.after + 1, Len(listing))
  BY DEF D!Rest
<1>2. listing \in Seq(Listed) /\ spot.after \in Nat /\ Len(listing) \in Nat
  BY SeqParts DEF ListingTypes, Known, Spots
<1>3. PICK a \in Nat, l \in Nat : a = spot.after /\ l = Len(listing) /\ l <= l
  BY <1>2
<1>4. /\ SubSeq(listing, a + 1, l) \in Seq(Listed)
      /\ Len(SubSeq(listing, a + 1, l)) = IF a < l THEN l - a ELSE 0
      /\ \A i \in 1 .. Len(SubSeq(listing, a + 1, l)) : SubSeq(listing, a + 1, l)[i] = listing[a + i]
  <2>1. l <= Len(listing)
    BY <1>3
  <2> QED  BY <1>2, <2>1, PartIs
<1> QED  BY <1>1, <1>3, <1>4

\* The page at a place.
Taken(rest) == IF D!Whole \/ Len(rest) < Rows THEN Len(rest) ELSE Rows

LEMMA PageIs ==
    ASSUME ListingTypes, NEW spot, Known(spot)
    PROVE  /\ D!Rest(spot) \in Seq(Listed) /\ D!PageAt(spot) \in Seq(Listed)
           /\ Len(D!PageAt(spot)) = Taken(D!Rest(spot))
           /\ \A i \in 1 .. Taken(D!Rest(spot)) : D!PageAt(spot)[i] = D!Rest(spot)[i]
<1> DEFINE rest == D!Rest(spot)
           n == Taken(rest)
<1>1. rest \in Seq(Listed)
  BY CategoryLeft, ListLeft
<1>2. D!PageAt(spot) = SubSeq(rest, 1, n)
  BY DEF D!PageAt, Taken
<1> HIDE DEF rest
<1>3. Len(rest) \in Nat /\ n \in Nat /\ n <= Len(rest)
  BY <1>1, SeqParts, PagingAssumption DEF Taken
<1> HIDE DEF n
<1>4. 0 \in Nat /\ 0 + 1 = 1 /\ (IF 0 < n THEN n - 0 ELSE 0) = n
  BY <1>3
<1>5. /\ SubSeq(rest, 1, n) \in Seq(Listed) /\ Len(SubSeq(rest, 1, n)) = n
      /\ \A i \in 1 .. n : SubSeq(rest, 1, n)[i] = rest[0 + i]
  BY <1>1, <1>3, <1>4, PartIs
<1>6. \A i \in 1 .. n : 0 + i = i
  OBVIOUS
<1> QED  BY <1>1, <1>2, <1>5, <1>6 DEF rest, n

\* The next place is one of the listing, and the page is all there is from a
\* place to the next one.
LEMMA NextPlace ==
    ASSUME ListingTypes, NEW spot, Known(spot)
    PROVE  D!PlaceAfter(spot) = None \/ Known(D!PlaceAfter(spot))
<1> DEFINE rest == D!Rest(spot)
           next == D!PlaceAfter(spot)
<1>1. /\ rest \in Seq(Listed) /\ D!PageAt(spot) \in Seq(Listed) /\ Len(D!PageAt(spot)) = Taken(rest)
      /\ \A i \in 1 .. Taken(rest) : D!PageAt(spot)[i] = rest[i]
  BY PageIs
<1>2. /\ Rows \in Nat \ {0} /\ spot.category \in Nat \ {0} /\ spot.after \in Nat
      /\ spot = [category |-> spot.category, after |-> spot.after]
      /\ Len(rest) \in Nat /\ Len(Categories) \in Nat
  BY <1>1, SeqParts, PagingAssumption, SourcesAssumption DEF Known, Spots
<1>3. CASE ~D!ByTitle
  <2>1. D!IsLast(spot) => next = None
    BY DEF D!PlaceAfter
  <2>2. ~D!IsLast(spot) => next = [spot EXCEPT !.after = @ + Rows]
    BY <1>3 DEF D!PlaceAfter
  <2> HIDE DEF next
  <2>3. ~D!IsLast(spot) => next \in Spots
    BY <1>2, <2>2 DEF Spots
  <2> QED  BY <1>3, <2>1, <2>3 DEF Known, next
<1>4. CASE D!ByTitle
  <2>1. D!IsLast(spot) => next = None
    BY DEF D!PlaceAfter
  <2>2. ~D!IsLast(spot) /\ Len(rest) <= Rows => next = [category |-> spot.category + 1, after |-> 0]
    BY <1>2, <1>4 DEF D!PlaceAfter
  <2>3. ~D!IsLast(spot) /\ Len(rest) > Rows => next = [spot EXCEPT !.after = D!Last(D!PageAt(spot))]
    BY <1>2, <1>4 DEF D!PlaceAfter
  <2>4. CASE Len(rest) <= Rows
    <3>1. ~D!IsLast(spot) => spot.category # Len(Categories)
      BY <1>4, <2>4 DEF D!IsLast
    <3> HIDE DEF next
    <3>2. ~D!IsLast(spot) => Known(next)
      BY <1>2, <2>2, <2>4, <3>1 DEF Known, Spots
    <3> QED  BY <2>1, <3>2 DEF next
  <2>5. CASE Len(rest) > Rows
    <3>1. Taken(rest) = Rows
      BY <1>2, <1>4, <2>5 DEF Taken, D!Whole, D!ByTitle
    <3>2. D!Last(D!PageAt(spot)) = rest[Rows] /\ rest[Rows] \in Listed
      BY <1>1, <1>2, <2>5, <3>1, SeqParts DEF D!Last
    <3>3. D!Last(D!PageAt(spot)) \in Nat
      BY <3>2, ListedAssumption
    <3> HIDE DEF next
    <3>4. ~D!IsLast(spot) => Known(next)
      BY <1>2, <2>3, <2>5, <3>3 DEF Known, Spots
    <3> QED  BY <2>1, <3>4 DEF next
  <2> QED  BY <1>2, <2>4, <2>5
<1> QED  BY <1>3, <1>4

LEMMA PageCoversList ==
    ASSUME ListingTypes, ~D!ByTitle, NEW spot, Known(spot), NEW x \in D!Reachable,
           D!PlaceAfter(spot) # None => Behind(x, D!PlaceAfter(spot))
    PROVE  Behind(x, spot) \/ x \in D!ToSet(D!PageAt(spot))
<1> DEFINE rest == D!Rest(spot)
           batch == D!PageAt(spot)
           n == Taken(rest)
           a == spot.after
           l == Len(listing)
<1>1. /\ batch \in Seq(Listed) /\ Len(batch) = n /\ \A i \in 1 .. n : batch[i] = rest[i]
  BY PageIs
<1>2. /\ Len(rest) = (IF a < l THEN l - a ELSE 0)
      /\ \A i \in 1 .. Len(rest) : rest[i] = listing[a + i]
  BY ListLeft
<1>3. Rows \in Nat \ {0} /\ MaxPages \in Nat \ {0} /\ a \in Nat /\ l \in Nat
  BY SeqParts, PagingAssumption DEF Known, Spots, ListingTypes
<1>4. n = IF D!Whole \/ Len(rest) < Rows THEN Len(rest) ELSE Rows
  BY DEF Taken
<1>5. \E j \in 1 .. l : listing[j] = x /\ j <= a + n
  <2>1. CASE D!Whole \/ n < Rows
    <3>1. PICK j \in 1 .. l : listing[j] = x
      BY ReachableIs
    <3>2. n = Len(rest)
      BY <1>2, <1>3, <1>4, <2>1
    <3>3. j <= a + n
      BY <1>2, <1>3, <3>2
    <3> QED  BY <3>1, <3>3
  <2>2. CASE ~D!Whole /\ ~(n < Rows)
    <3>1. n = Rows
      BY <1>2, <1>3, <1>4, <2>2
    <3>2. CASE source = "internet_archive" /\ a + Rows >= Rows * MaxPages
      <4>1. PICK j \in 1 .. l : listing[j] = x /\ j <= Rows * MaxPages
        BY <3>2, ReachableIs
      <4>2. Rows * MaxPages \in Nat
        BY <1>3
      <4>3. j <= a + n
        <5> DEFINE cap == Rows * MaxPages
        <5>1. cap \in Nat /\ a + Rows >= cap /\ j <= cap
          BY <3>2, <4>1, <4>2
        <5> HIDE DEF cap
        <5> QED  BY <1>3, <3>1, <5>1
      <4> QED  BY <4>1, <4>3
    <3>3. CASE ~(source = "internet_archive" /\ a + Rows >= Rows * MaxPages)
      <4>1. ~D!IsLast(spot)
        <5>1. Len(batch) = n
          BY <1>1
        <5> HIDE DEF n, rest, batch
        <5>2. ~(Len(D!PageAt(spot)) < Rows)
          BY <2>2, <5>1 DEF batch
        <5> QED  BY <2>2, <3>3, <5>2 DEF D!IsLast
      <4>2. D!PlaceAfter(spot) = [spot EXCEPT !.after = @ + Rows]
        BY <4>1 DEF D!PlaceAfter
      <4>3. D!PlaceAfter(spot).after = a + Rows /\ D!PlaceAfter(spot) # None
        <5>1. D!PlaceAfter(spot) \in Spots /\ D!PlaceAfter(spot).after = a + Rows
          BY <1>3, <4>2 DEF Known, Spots
        <5>2. Spots \subseteq [category : Nat, after : Nat]
          BY DEF Spots
        <5> QED  BY <5>1, <5>2, PassesAssumption
      <4>4. PICK j \in 1 .. l : j <= a + Rows /\ listing[j] = x
        BY <4>3 DEF Behind
      <4> QED  BY <3>1, <4>4
    <3> QED  BY <3>2, <3>3
  <2> QED  BY <2>1, <2>2
<1>6. PICK j \in 1 .. l : listing[j] = x /\ j <= a + n
  BY <1>5
<1>7. CASE j <= a
  BY <1>6, <1>7 DEF Behind
<1>8. CASE ~(j <= a)
  <2>1. n <= Len(rest) /\ n \in Nat
    BY <1>2, <1>3, <1>4
  <2>2. j - a \in 1 .. n /\ j - a \in 1 .. Len(rest) /\ a + (j - a) = j
    BY <1>2, <1>3, <1>6, <1>8, <2>1
  <2>3. batch[j - a] = x
    BY <1>1, <1>2, <1>6, <2>2
  <2> HIDE DEF batch
  <2> QED  BY <1>1, <2>2, <2>3, EntriesOf DEF batch
<1> QED  BY <1>7, <1>8

LEMMA PageCoversCategory ==
    ASSUME ListingTypes, D!ByTitle, NEW spot, Known(spot), NEW x \in D!Reachable,
           D!PlaceAfter(spot) # None => Behind(x, D!PlaceAfter(spot))
    PROVE  Behind(x, spot) \/ x \in D!ToSet(D!PageAt(spot))
<1> DEFINE rest == D!Rest(spot)
           batch == D!PageAt(spot)
           n == Taken(rest)
           next == D!PlaceAfter(spot)
<1>1. /\ rest \in Seq(Listed) /\ batch \in Seq(Listed) /\ Len(batch) = n /\ \A i \in 1 .. n : batch[i] = rest[i]
  BY PageIs
<1>2. /\ \A y : (\E i \in 1 .. Len(rest) : rest[i] = y) <=>
                /\ y \in Categories[spot.category] /\ y > spot.after
                /\ \E j \in 1 .. Len(listing) : listing[j] = y
      /\ \A i, k \in 1 .. Len(rest) : i < k => rest[i] < rest[k]
  BY CategoryLeft
<1>3. /\ Rows \in Nat \ {0} /\ Len(rest) \in Nat /\ spot.after \in Nat /\ spot.category \in Nat
      /\ Len(Categories) \in Nat /\ spot.category <= Len(Categories)
  BY <1>1, SeqParts, PagingAssumption, SourcesAssumption DEF Known, Spots
<1>4. n = IF Len(rest) < Rows THEN Len(rest) ELSE Rows
  BY DEF Taken, D!Whole, D!ByTitle
<1>5. PICK j \in 1 .. Len(listing) : listing[j] = x /\ \E c \in 1 .. Len(Categories) : x \in Categories[c]
  BY ReachableIs
<1>6. x \in Listed /\ x \in Nat
  BY <1>5, SeqParts, ListedAssumption DEF ListingTypes
<1> HIDE DEF rest, batch, n, next
<1>7. ASSUME NEW i \in 1 .. n, rest[i] = x PROVE x \in D!ToSet(batch)
  BY <1>1, <1>7, EntriesOf
<1>8. CASE Len(rest) <= Rows
  <2>1. x \in Categories[spot.category] => x <= spot.after \/ x \in D!ToSet(batch)
    <3> SUFFICES ASSUME x \in Categories[spot.category], ~(x <= spot.after) PROVE x \in D!ToSet(batch)
      OBVIOUS
    <3>1. x > spot.after
      BY <1>3, <1>6
    <3>2. PICK i \in 1 .. Len(rest) : rest[i] = x
      BY <1>2, <1>5, <3>1
    <3>3. i \in 1 .. n
      BY <1>3, <1>4, <1>8
    <3> QED  BY <1>7, <3>2, <3>3
  <2>2. CASE spot.category = Len(Categories)
    <3>1. PICK c \in 1 .. Len(Categories) : x \in Categories[c]
      BY <1>5
    <3>2. c < spot.category \/ c = spot.category
      BY <1>3, <2>2
    <3> QED  BY <2>1, <3>1, <3>2 DEF Behind, batch
  <2>3. CASE spot.category # Len(Categories)
    <3>1. ~D!IsLast(spot)
      BY <2>3 DEF D!IsLast
    <3>2. next = [category |-> spot.category + 1, after |-> 0]
      BY <1>3, <1>8, <3>1 DEF D!PlaceAfter, next, rest
    <3>3. next.category = spot.category + 1 /\ next.after = 0 /\ next # None
      <4>1. next \in [category : Nat, after : Nat]
        BY <1>3, <3>2
      <4> QED  BY <3>2, <4>1, PassesAssumption
    <3>4. Behind(x, next)
      BY <3>3 DEF next
    <3>5. \E c \in 1 .. Len(Categories) : c < spot.category + 1 /\ x \in Categories[c]
      <4>1. ~(x <= 0)
        BY <1>6, ListedAssumption
      <4> QED  BY <3>3, <3>4, <4>1 DEF Behind
    <3>6. PICK c \in 1 .. Len(Categories) : c < spot.category + 1 /\ x \in Categories[c]
      BY <3>5
    <3>7. c < spot.category \/ c = spot.category
      BY <1>3, <3>6
    <3> QED  BY <2>1, <3>6, <3>7 DEF Behind, batch
  <2> QED  BY <2>2, <2>3
<1>9. CASE ~(Len(rest) <= Rows)
  <2>1. n = Rows /\ Len(rest) > Rows /\ ~D!IsLast(spot)
    BY <1>3, <1>4, <1>9 DEF D!IsLast, rest
  <2>2. next = [spot EXCEPT !.after = D!Last(D!PageAt(spot))]
    BY <1>3, <2>1 DEF D!PlaceAfter, next, rest
  <2>3. D!Last(D!PageAt(spot)) = rest[Rows] /\ rest[Rows] \in Listed /\ Rows \in 1 .. Len(rest)
    <3>1. Rows \in 1 .. Len(rest) /\ Rows \in 1 .. n
      BY <1>3, <2>1
    <3> QED  BY <1>1, <2>1, <3>1, SeqParts DEF D!Last, batch
  <2>4. next.category = spot.category /\ next.after = rest[Rows] /\ next # None
    <3>1. rest[Rows] \in Nat /\ spot = [category |-> spot.category, after |-> spot.after]
      BY <2>3, ListedAssumption DEF Known, Spots
    <3>2. next = [category |-> spot.category, after |-> rest[Rows]]
      BY <2>2, <2>3, <3>1
    <3>3. next \in [category : Nat, after : Nat]
      BY <1>3, <3>1, <3>2
    <3> QED  BY <3>2, <3>3, PassesAssumption
  <2>5. \/ \E c \in 1 .. Len(Categories) : c < spot.category /\ x \in Categories[c]
        \/ x \in Categories[spot.category] /\ x <= rest[Rows]
    BY <2>4 DEF Behind, next
  <2>6. CASE x \in Categories[spot.category] /\ x <= rest[Rows] /\ ~(x <= spot.after)
    <3>1. x > spot.after
      BY <1>3, <1>6, <2>6
    <3>2. PICK i \in 1 .. Len(rest) : rest[i] = x
      BY <1>2, <1>5, <2>6, <3>1
    <3>3. rest[Rows] \in Nat
      BY <2>3, ListedAssumption
    <3>4. ~(Rows < i)
      BY <1>2, <1>6, <2>3, <2>6, <3>2, <3>3
    <3>5. i \in 1 .. n
      BY <1>3, <2>1, <3>4
    <3> QED  BY <1>7, <3>2, <3>5 DEF batch
  <2> QED  BY <2>5, <2>6 DEF Behind
<1> QED  BY <1>8, <1>9

\* Lists that stay in order.
LEMMA AscendingListing ==
    ASSUME NEW S \in SUBSET Listed
    PROVE  /\ D!Ascending(S) \in Seq(Listed)
           /\ \A j, k \in 1 .. Len(D!Ascending(S)) : D!Ascending(S)[j] = D!Ascending(S)[k] => j = k
           /\ \A j, k \in 1 .. Len(D!Ascending(S)) : j < k => D!Ascending(S)[j] < D!Ascending(S)[k]
<1> DEFINE list == D!Ascending(S)
<1>1. IsFiniteSet(S) /\ S \in SUBSET Int
  <2>1. S \subseteq Int
    BY ListedAssumption
  <2> QED  BY <2>1, ListedAssumption, FS_Subset
<1>2. /\ Cardinality(S) \in Nat /\ Ascending(S) \in [1 .. Cardinality(S) -> S]
      /\ \A j, k \in 1 .. Cardinality(S) : Ascending(S)[j] < Ascending(S)[k] <=> j < k
  BY <1>1, AscendingIs
<1>3. list = Ascending(S)
  BY SameListings
<1> HIDE DEF list
<1>4. list \in Seq(S) /\ Len(list) = Cardinality(S)
  BY <1>2, <1>3, ListIsSeq
<1>5. list \in Seq(Listed)
  <2>1. Seq(S) \subseteq Seq(Listed)
    OBVIOUS
  <2> QED  BY <1>4, <2>1
<1>6. \A j, k \in 1 .. Len(list) : list[j] < list[k] <=> j < k
  BY <1>2, <1>3, <1>4
<1>7. \A j, k \in 1 .. Len(list) : list[j] = list[k] => j = k
  <2> SUFFICES ASSUME NEW j \in 1 .. Len(list), NEW k \in 1 .. Len(list), list[j] = list[k] PROVE j = k
    OBVIOUS
  <2>1. list[j] \in Nat
    BY <1>5, SeqParts, ListedAssumption
  <2>2. ~(j < k) /\ ~(k < j)
    BY <1>6, <2>1
  <2> QED  BY <2>2
<1> QED  BY <1>5, <1>6, <1>7 DEF list

LEMMA ListingInit == D!Init => ListingTypes
<1> SUFFICES ASSUME D!Init PROVE ListingTypes
  OBVIOUS
<1>1. PICK i : listing = D!Ascending(Listed \ {i})
  BY DEF D!Init
<1>2. Listed \ {i} \in SUBSET Listed
  OBVIOUS
<1> QED  BY <1>1, <1>2, AscendingListing DEF D!Init, ListingTypes

LEMMA ListingStep == ASSUME ListingTypes, D!ListingChanges PROVE ListingTypes'
<1>1. listing \in Seq(Listed) /\ Len(listing) \in Nat /\ source \in Sources /\ source' = source
  BY SeqParts DEF ListingTypes, D!ListingChanges
<1>2. PICK i \in Listed :
        \/ i \notin D!ToSet(listing)
           /\ listing' = IF D!ByTitle THEN D!Ascending(D!ToSet(listing) \union {i}) ELSE Append(listing, i)
        \/ ~D!ByTitle /\ i \in D!ToSet(listing) /\ listing' = <<i>> \o D!Among(listing, Listed \ {i})
  BY DEF D!ListingChanges
<1>3. CASE D!ByTitle
  <2>1. D!ToSet(listing) \union {i} \in SUBSET Listed
    BY <1>1, EntriesOf, SeqParts
  <2>2. listing' = D!Ascending(D!ToSet(listing) \union {i})
    BY <1>2, <1>3
  <2> DEFINE S == D!ToSet(listing) \union {i}
  <2> HIDE DEF S
  <2>3. S \in SUBSET Listed /\ source' \in Sources /\ listing' = D!Ascending(S)
    BY <1>1, <2>1, <2>2 DEF S
  <2> QED  BY <2>3, AscendingListing DEF ListingTypes
<1>4. CASE ~D!ByTitle /\ i \notin D!ToSet(listing)
  <2>1. listing' = Append(listing, i)
    BY <1>2, <1>4
  <2>2. /\ listing' \in Seq(Listed) /\ Len(listing') = Len(listing) + 1
        /\ \A j \in 1 .. Len(listing) : listing'[j] = listing[j]
        /\ listing'[Len(listing) + 1] = i
    BY <1>1, <2>1, AppendProperties
  <2>3. \A j \in 1 .. Len(listing) : listing[j] # i
    BY <1>1, <1>4, EntriesOf
  <2>4. \A j, k \in 1 .. Len(listing') : listing'[j] = listing'[k] => j = k
    <3>1. \A j \in 1 .. Len(listing') : j \in 1 .. Len(listing) \/ j = Len(listing) + 1
      BY <1>1, <2>2
    <3> QED  BY <2>2, <2>3, <3>1 DEF ListingTypes
  <2> QED  BY <1>1, <1>4, <2>2, <2>4 DEF ListingTypes, D!ByTitle
<1>5. CASE ~D!ByTitle /\ i \in D!ToSet(listing) /\ listing' = <<i>> \o D!Among(listing, Listed \ {i})
  <2> DEFINE rest == Among(listing, Listed \ {i})
  <2>1. rest \in Seq(Listed \intersect (Listed \ {i})) /\ \E from : Takes(from, rest, listing, Listed \ {i})
    BY <1>1, AmongIs
  <2>2. PICK from : Takes(from, rest, listing, Listed \ {i})
    BY <2>1
  <2>3. listing' = <<i>> \o rest
    BY <1>5, SameListings
  <2> HIDE DEF rest
  <2>4. rest \in Seq(Listed) /\ Len(rest) \in Nat /\ \A j \in 1 .. Len(rest) : rest[j] # i
    <3>1. Seq(Listed \intersect (Listed \ {i})) \subseteq Seq(Listed)
      OBVIOUS
    <3>2. \A j \in 1 .. Len(rest) : rest[j] \in Listed \intersect (Listed \ {i})
      BY <2>1, SeqParts
    <3> QED  BY <2>1, <3>1, <3>2, SeqParts
  <2>5. \A j, k \in 1 .. Len(rest) : rest[j] = rest[k] => j = k
    <3> SUFFICES ASSUME NEW j \in 1 .. Len(rest), NEW k \in 1 .. Len(rest), rest[j] = rest[k] PROVE j = k
      OBVIOUS
    <3>1. from[j] = from[k] /\ from[j] \in Nat
      <4>1. /\ from[j] \in 1 .. Len(listing) /\ from[k] \in 1 .. Len(listing)
            /\ rest[j] = listing[from[j]] /\ rest[k] = listing[from[k]]
        BY <2>2 DEF Takes
      <4>2. \A m, n \in 1 .. Len(listing) : listing[m] = listing[n] => m = n
        BY DEF ListingTypes
      <4>3. from[j] = from[k]
        BY <4>1, <4>2
      <4> QED  BY <1>1, <4>1, <4>3
    <3>2. ~(j < k) /\ ~(k < j)
      BY <2>2, <3>1 DEF Takes
    <3> QED  BY <2>4, <3>2
  <2>6. /\ listing' \in Seq(Listed) /\ Len(listing') = 1 + Len(rest)
        /\ \A j \in 1 .. 1 + Len(rest) : listing'[j] = IF j <= 1 THEN i ELSE rest[j - 1]
    <3>1. <<i>> \in Seq(Listed) /\ Len(<<i>>) = 1 /\ <<i>>[1] = i
      OBVIOUS
    <3>2. /\ <<i>> \o rest \in Seq(Listed) /\ Len(<<i>> \o rest) = Len(<<i>>) + Len(rest)
          /\ \A j \in 1 .. Len(<<i>>) + Len(rest) :
                 (<<i>> \o rest)[j] = IF j <= Len(<<i>>) THEN <<i>>[j] ELSE rest[j - Len(<<i>>)]
      BY <2>4, <3>1, ConcatProperties
    <3>3. \A j \in 1 .. 1 + Len(rest) : j <= 1 => j = 1
      BY <2>4
    <3> QED  BY <2>3, <3>1, <3>2, <3>3
  <2>7. \A j, k \in 1 .. Len(listing') : listing'[j] = listing'[k] => j = k
    <3> SUFFICES ASSUME NEW j \in 1 .. 1 + Len(rest), NEW k \in 1 .. 1 + Len(rest), listing'[j] = listing'[k] PROVE j = k
      BY <2>6
    <3>1. CASE j = 1 \/ k = 1
      BY <2>4, <2>6, <3>1
    <3>2. CASE j # 1 /\ k # 1
      <4>1. j - 1 \in 1 .. Len(rest) /\ k - 1 \in 1 .. Len(rest) /\ rest[j - 1] = rest[k - 1]
        BY <2>4, <2>6, <3>2
      <4> QED  BY <2>5, <4>1
    <3> QED  BY <3>1, <3>2
  <2> QED  BY <1>1, <1>5, <2>6, <2>7 DEF ListingTypes, D!ByTitle
<1> QED  BY <1>2, <1>3, <1>4, <1>5

\* What is to be found depends on the listing alone.
LEMMA ReachStays ==
    ASSUME UNCHANGED <<source, listing>>
    PROVE  /\ D!Reachable' = D!Reachable
           /\ \A x, spot : Behind(x, spot)' <=> Behind(x, spot)
           /\ \A spot : Known(spot)' <=> Known(spot)
BY DEF D!Reachable, D!ByTitle, Behind, Known

LEMMA PassInit == D!Init => DiscoveryInv
<1> SUFFICES ASSUME D!Init PROVE DiscoveryInv
  OBVIOUS
<1>1. ListingTypes
  BY ListingInit
<1>2. /\ rows = {} /\ lock = None /\ changes = 0
      /\ place = [p \in Passes |-> "idle"] /\ at = [p \in Passes |-> D!Start]
      /\ page = [p \in Passes |-> <<>>] /\ created = [p \in Passes |-> 0] /\ mine = [p \in Passes |-> {}]
      /\ checked = [p \in Passes |-> None] /\ steady = [p \in Passes |-> TRUE]
  BY DEF D!Init
<1>3. D!Start \in Spots /\ <<>> \in Seq(Listed) /\ 0 \in 0 .. Limit /\ 0 \in 0 .. MaxChanges
      /\ D!Start.category = 1
  BY PagingAssumption, CountsAssumption DEF D!Start, Spots
<1>4. PassTypes
  BY <1>2, <1>3 DEF PassTypes
<1>5. Known(D!Start)
  <2>1. Len(Categories) \in Nat /\ Len(Categories) # 0
    BY SeqParts, SourcesAssumption
  <2> QED  BY <1>3, <2>1 DEF Known
<1>6. \A p \in Passes : PassInv(p)
  BY <1>2, <1>5 DEF PassInv
<1> QED  BY <1>1, <1>4, <1>6 DEF DiscoveryInv

\* A step of one pass leaves the others as they are, but for rows that come.
Apart(p) ==
    /\ UNCHANGED <<source, listing>> /\ rows \subseteq rows'
    /\ \A q \in Passes \ {p} :
        /\ place'[q] = place[q] /\ at'[q] = at[q] /\ page'[q] = page[q] /\ created'[q] = created[q]
        /\ mine'[q] = mine[q] /\ checked'[q] = checked[q] /\ steady'[q] = steady[q]

LEMMA OthersKeep ==
    ASSUME DiscoveryInv, NEW p \in Passes, Apart(p), PassTypes', PassInv(p)'
    PROVE  DiscoveryInv'
<1>1. ListingTypes'
  BY DEF DiscoveryInv, ListingTypes, Apart, D!ByTitle
<1>2. ASSUME NEW q \in Passes \ {p} PROVE PassInv(q)'
  <2>1. /\ place'[q] = place[q] /\ at'[q] = at[q] /\ page'[q] = page[q] /\ created'[q] = created[q]
        /\ mine'[q] = mine[q] /\ checked'[q] = checked[q] /\ steady'[q] = steady[q]
        /\ rows \subseteq rows' /\ UNCHANGED <<source, listing>>
    BY DEF Apart
  <2>2. PassInv(q)
    BY DEF DiscoveryInv
  <2>3. D!Reachable' = D!Reachable /\ (Known(at[q]) => Known(at[q])') /\ Passed(q)' = Passed(q)
    BY <2>1, ReachStays DEF Passed
  <2>4. Noticed(q) \subseteq Noticed(q)'
    BY <2>1 DEF Noticed, D!ToSet
  <2>5. at'[q] = None \/ Known(at[q])'
    BY <2>1, <2>2, <2>3 DEF PassInv
  <2> QED  BY <2>1, <2>2, <2>3, <2>4, <2>5 DEF PassInv, Known, Spots, D!ByTitle
<1> QED  BY <1>1, <1>2 DEF DiscoveryInv

LEMMA BeginKeeps == ASSUME DiscoveryInv, NEW p \in Passes, D!Begin(p) PROVE DiscoveryInv'
<1>1. PassTypes /\ PassInv(p) /\ place[p] \in {"idle", "done", "failed"}
  BY DEF DiscoveryInv, D!Begin, D!Ends
<1>2. /\ lock' = (IF p \in Jobs THEN p ELSE lock) /\ (p \in Jobs => lock \in {None, p})
      /\ place' = [place EXCEPT ![p] = "fetch"] /\ at' = [at EXCEPT ![p] = D!Start]
      /\ page' = [page EXCEPT ![p] = <<>>] /\ created' = [created EXCEPT ![p] = 0]
      /\ steady' = [steady EXCEPT ![p] = TRUE]
      /\ UNCHANGED <<source, listing, rows, mine, checked, changes>>
  BY DEF D!Begin, D!MayWrite
<1>3. D!Start \in Spots /\ D!Start.category = 1 /\ D!Start.after = 0 /\ 0 \in 0 .. Limit /\ <<>> \in Seq(Listed)
  BY PagingAssumption DEF D!Start, Spots
<1>4. Known(D!Start) /\ D!Start # None
  <2>1. Len(Categories) \in Nat /\ Len(Categories) # 0
    BY SeqParts, SourcesAssumption
  <2>2. Spots \subseteq [category : Nat, after : Nat]
    BY DEF Spots
  <2> QED  BY <1>3, <2>1, <2>2, PassesAssumption DEF Known
<1>5. \A q \in Passes : mine'[q] # {} => lock' = q
  BY <1>1, <1>2, PassesAssumption DEF PassTypes
<1>6. PassTypes'
  BY <1>1, <1>2, <1>3, <1>5 DEF PassTypes
<1>7. \A x \in D!Reachable : ~Behind(x, D!Start)
  <2> SUFFICES ASSUME NEW x \in D!Reachable, Behind(x, D!Start) PROVE FALSE
    OBVIOUS
  <2>1. x \in Nat \ {0}
    BY ReachableIs, SeqParts, ListedAssumption DEF DiscoveryInv, ListingTypes
  <2>2. ~(x <= 0) /\ (\A c \in 1 .. Len(Categories) : ~(c < 1)) /\ \A j \in 1 .. Len(listing) : ~(j <= 0)
    BY <2>1, SeqParts, SourcesAssumption DEF DiscoveryInv, ListingTypes
  <2> QED  BY <1>3, <2>2 DEF Behind
<1>8. /\ place'[p] = "fetch" /\ at'[p] = D!Start /\ page'[p] = <<>>
      /\ checked'[p] = None
  BY <1>1, <1>2 DEF PassTypes, PassInv
<1>9. PassInv(p)'
  <2>1. Known(at[p])'
    BY <1>2, <1>4, <1>8, ReachStays DEF Known, D!ByTitle
  <2>2. Passed(p)' = {}
    BY <1>2, <1>4, <1>7, <1>8, ReachStays DEF Passed
  <2> QED  BY <1>4, <1>8, <2>1, <2>2 DEF PassInv
<1> QED  BY <1>1, <1>2, <1>6, <1>9, OthersKeep DEF Apart, PassTypes

LEMMA FetchPageKeeps == ASSUME DiscoveryInv, NEW p \in Passes, D!FetchPage(p) PROVE DiscoveryInv'
<1> DEFINE got == D!PageAt(at[p])
           few == Among(got, Fitting)
           next == D!PlaceAfter(at[p])
<1>1. PassTypes /\ PassInv(p) /\ ListingTypes /\ place[p] = "fetch"
  BY DEF DiscoveryInv, D!FetchPage
<1>2. /\ page' = [page EXCEPT ![p] = few] /\ at' = [at EXCEPT ![p] = next]
      /\ place' = [place EXCEPT ![p] = "scan"]
      /\ UNCHANGED <<source, listing, rows, lock, created, mine, checked, steady, changes>>
  BY <1>1, SameListings DEF D!FetchPage, PassTypes
<1>3. Known(at[p])
  BY <1>1 DEF PassInv
<1>4. next = None \/ Known(next)
  BY <1>1, <1>3, NextPlace
<1>5. got \in Seq(Listed)
  BY <1>1, <1>3, PageIs
<1>6. ASSUME NEW x \in D!Reachable, next # None => Behind(x, next) PROVE Behind(x, at[p]) \/ x \in D!ToSet(got)
  BY <1>1, <1>3, <1>6, PageCoversList, PageCoversCategory
<1> HIDE DEF got, next
<1>7. few \in Seq(Listed) /\ \A x \in D!ToSet(got) : x \in Fitting => x \in D!ToSet(few)
  <2>1. few \in Seq(Listed \intersect Fitting) /\ \E from : Takes(from, few, got, Fitting)
    BY <1>5, AmongIs
  <2>2. PICK from : Takes(from, few, got, Fitting)
    BY <2>1
  <2> HIDE DEF few
  <2>3. few \in Seq(Listed)
    <3>1. Seq(Listed \intersect Fitting) \subseteq Seq(Listed)
      OBVIOUS
    <3> QED  BY <2>1, <3>1
  <2>4. ASSUME NEW x \in D!ToSet(got), x \in Fitting PROVE x \in D!ToSet(few)
    <3>1. PICK i \in 1 .. Len(got) : got[i] = x
      BY <1>5, EntriesOf
    <3>2. PICK k \in 1 .. Len(few) : from[k] = i
      BY <2>2, <2>4, <3>1 DEF Takes
    <3>3. few[k] = x
      BY <2>2, <3>1, <3>2 DEF Takes
    <3> QED  BY <2>3, <3>2, <3>3, EntriesOf
  <2> QED  BY <2>3, <2>4
<1> HIDE DEF few
<1>8. PassTypes'
  <2>1. next \in Spots \union {None}
    BY <1>4 DEF Known
  <2> QED  BY <1>1, <1>2, <1>7, <2>1 DEF PassTypes
<1>9. /\ place'[p] = "scan" /\ at'[p] = next /\ page'[p] = few
      /\ checked'[p] = None /\ checked[p] = None /\ mine'[p] = mine[p] /\ page[p] = <<>>
  BY <1>1, <1>2 DEF PassTypes, PassInv
<1>10. PassInv(p)'
  <2>1. at'[p] = None \/ Known(at[p])'
    BY <1>2, <1>4, <1>9 DEF Known, D!ByTitle
  <2>2. ASSUME steady'[p], NEW x \in Passed(p)' PROVE x \in Noticed(p)'
    <3>1. x \in D!Reachable /\ (next = None \/ Behind(x, next))
      BY <1>2, <1>9, ReachStays DEF Passed
    <3>2. CASE Behind(x, at[p])
      <4>1. x \in Noticed(p)
        BY <1>1, <1>2, <2>2, <3>1, <3>2 DEF PassInv, Passed
      <4>2. D!ToSet(page[p]) = {}
        BY <1>9 DEF D!ToSet
      <4> QED  BY <1>2, <1>9, <4>1, <4>2 DEF Noticed
    <3>3. CASE x \in D!ToSet(got)
      <4>1. x \in Fitting
        BY <1>1, <3>1, ReachableIs
      <4> QED  BY <1>7, <1>9, <3>3, <4>1 DEF Noticed, D!ToSet
    <3> QED  BY <1>6, <3>1, <3>2, <3>3
  <2> QED  BY <1>9, <2>1, <2>2 DEF PassInv
<1> QED  BY <1>1, <1>2, <1>8, <1>10, OthersKeep DEF Apart, PassTypes

LEMMA TurnKeeps == ASSUME DiscoveryInv, NEW p \in Passes, D!Turn(p) PROVE DiscoveryInv'
<1>1. PassTypes /\ PassInv(p) /\ place[p] = "scan" /\ page[p] = <<>> /\ at[p] # None
  BY DEF DiscoveryInv, D!Turn
<1>2. /\ place' = [place EXCEPT ![p] = "fetch"]
      /\ UNCHANGED <<source, listing, rows, lock, at, page, created, mine, checked, steady, changes>>
  BY DEF D!Turn
<1>3. PassTypes'
  BY <1>1, <1>2 DEF PassTypes
<1>4. Passed(p)' = Passed(p) /\ Noticed(p)' = Noticed(p) /\ (Known(at[p]) => Known(at[p])') /\ place'[p] = "fetch"
  BY <1>1, <1>2, ReachStays DEF Passed, Noticed, PassTypes, D!ToSet, Known, D!ByTitle
<1>5. PassInv(p)'
  BY <1>1, <1>2, <1>4 DEF PassInv
<1> QED  BY <1>1, <1>2, <1>3, <1>5, OthersKeep DEF Apart, PassTypes

LEMMA LookUpKeeps == ASSUME DiscoveryInv, NEW p \in Passes, D!LookUp(p) PROVE DiscoveryInv'
<1> DEFINE i == Head(page[p])
<1>1. PassTypes /\ PassInv(p) /\ place[p] = "scan" /\ page[p] # <<>> /\ created[p] < Limit
  BY DEF DiscoveryInv, D!LookUp
<1>2. /\ page' = [page EXCEPT ![p] = Tail(@)]
      /\ IF i \in rows \union mine[p]
         THEN UNCHANGED <<place, checked>>
         ELSE place' = [place EXCEPT ![p] = "insert"] /\ checked' = [checked EXCEPT ![p] = i]
      /\ UNCHANGED <<source, listing, rows, lock, at, created, mine, steady, changes>>
  BY DEF D!LookUp
<1>3. page[p] \in Seq(Listed)
  BY <1>1 DEF PassTypes
<1>4. i \in Listed /\ Tail(page[p]) \in Seq(Listed)
      /\ \A x \in D!ToSet(page[p]) : x = i \/ x \in D!ToSet(Tail(page[p]))
  <2>1. /\ i \in Listed /\ i = page[p][1] /\ Tail(page[p]) \in Seq(Listed)
        /\ Len(page[p]) \in Nat /\ Len(Tail(page[p])) = Len(page[p]) - 1
        /\ \A k \in 1 .. Len(page[p]) - 1 : Tail(page[p])[k] = page[p][k + 1]
    BY <1>1, <1>3, HeadTailProperties, LenProperties
  <2> HIDE DEF i
  <2>2. ASSUME NEW x \in D!ToSet(page[p]), x # i PROVE x \in D!ToSet(Tail(page[p]))
    <3>1. PICK k \in 1 .. Len(page[p]) : page[p][k] = x
      BY <1>3, EntriesOf
    <3>2. k # 1
      BY <2>1, <2>2, <3>1
    <3>3. k - 1 \in 1 .. Len(page[p]) - 1 /\ (k - 1) + 1 = k
      BY <2>1, <3>2
    <3>4. k - 1 \in 1 .. Len(Tail(page[p])) /\ Tail(page[p])[k - 1] = x
      BY <2>1, <3>1, <3>3
    <3> QED  BY <2>1, <3>4, EntriesOf
  <2> QED  BY <2>1, <2>2
<1> HIDE DEF i
<1>5. PassTypes'
  BY <1>1, <1>2, <1>4 DEF PassTypes
<1>6. /\ page'[p] = Tail(page[p]) /\ at'[p] = at[p] /\ mine'[p] = mine[p] /\ rows' = rows
      /\ \/ i \in rows \union mine[p] /\ place'[p] = "scan" /\ checked'[p] = checked[p]
         \/ place'[p] = "insert" /\ checked'[p] = i
  BY <1>1, <1>2 DEF PassTypes
<1>7. Passed(p)' = Passed(p) /\ (Known(at[p]) => Known(at[p])')
  BY <1>2, <1>6, ReachStays DEF Passed, Known, D!ByTitle
<1>8. checked[p] = None /\ None \notin Listed
  BY <1>1, PassesAssumption DEF PassInv
<1>9. ASSUME NEW x \in Noticed(p), x \in Listed PROVE x \in Noticed(p)'
  <2>1. D!ToSet(page[p])' = D!ToSet(Tail(page[p]))
    BY <1>6 DEF D!ToSet
  <2>2. x \in D!ToSet(page[p]) \/ x \in rows \/ x \in mine[p]
    BY <1>8, <1>9 DEF Noticed
  <2>3. CASE x \in D!ToSet(page[p])
    BY <1>4, <1>6, <2>1, <2>3 DEF Noticed
  <2>4. CASE x \in rows \union mine[p]
    BY <1>6, <2>4 DEF Noticed
  <2> QED  BY <2>2, <2>3, <2>4
<1>10. \A x \in Passed(p) : x \in Listed
  BY ReachableIs, SeqParts DEF Passed, DiscoveryInv, ListingTypes
<1>11. PassInv(p)'
  <2>1. steady'[p] = steady[p] /\ created'[p] = created[p]
    BY <1>2
  <2>2. steady[p] => Passed(p) \subseteq Noticed(p)'
    BY <1>1, <1>9, <1>10 DEF PassInv
  <2>3. at[p] = None \/ Known(at[p])
    BY <1>1 DEF PassInv
  <2>4. /\ place'[p] \in {"scan", "insert"}
        /\ place'[p] = "insert" => checked'[p] # None
        /\ place'[p] # "insert" => checked'[p] = None
    BY <1>1, <1>4, <1>6, <1>8
  <2>5. at'[p] = None \/ Known(at[p])'
    BY <1>6, <1>7, <2>3
  <2> QED  BY <1>1, <1>7, <2>1, <2>2, <2>4, <2>5 DEF PassInv
<1> QED  BY <1>1, <1>2, <1>5, <1>11, OthersKeep DEF Apart, PassTypes

LEMMA InsertKeeps == ASSUME DiscoveryInv, NEW p \in Passes, D!Insert(p) PROVE DiscoveryInv'
<1>1. PassTypes /\ PassInv(p) /\ place[p] = "insert" /\ lock \in {None, p}
      /\ created[p] < Limit /\ checked[p] # None
  BY DEF DiscoveryInv, D!Insert, D!MayWrite, PassInv
<1>2. /\ lock' = p /\ mine' = [mine EXCEPT ![p] = @ \union {checked[p]}]
      /\ created' = [created EXCEPT ![p] = @ + 1] /\ place' = [place EXCEPT ![p] = "scan"]
      /\ checked' = [checked EXCEPT ![p] = None]
      /\ UNCHANGED <<source, listing, rows, at, page, steady, changes>>
  BY DEF D!Insert
<1>3. checked[p] \in Listed /\ created[p] + 1 \in 0 .. Limit
  BY <1>1, PagingAssumption DEF PassTypes
<1>4. \A q \in Passes : mine'[q] # {} => lock' = q
  BY <1>1, <1>2, PassesAssumption DEF PassTypes
<1>5. PassTypes'
  BY <1>1, <1>2, <1>3, <1>4 DEF PassTypes
<1>6. /\ place'[p] = "scan" /\ checked'[p] = None /\ mine'[p] = mine[p] \union {checked[p]}
      /\ at'[p] = at[p] /\ page'[p] = page[p] /\ rows' = rows /\ steady'[p] = steady[p]
  BY <1>1, <1>2 DEF PassTypes
<1>7. Passed(p)' = Passed(p) /\ (Known(at[p]) => Known(at[p])')
  BY <1>2, <1>6, ReachStays DEF Passed, Known, D!ByTitle
<1>8. Noticed(p) \subseteq Noticed(p)'
  BY <1>6 DEF Noticed, D!ToSet
<1>9. PassInv(p)'
  <2>1. steady[p] => Passed(p) \subseteq Noticed(p)
    BY <1>1 DEF PassInv
  <2>2. at'[p] = None \/ Known(at[p])'
    BY <1>1, <1>6, <1>7 DEF PassInv
  <2> QED  BY <1>6, <1>7, <1>8, <2>1, <2>2 DEF PassInv
<1> QED  BY <1>1, <1>2, <1>5, <1>9, OthersKeep DEF Apart, PassTypes

LEMMA LeaveKeeps ==
    ASSUME DiscoveryInv, NEW p \in Passes, NEW end \in {"done", "failed"}, D!Leave(p, end),
           rows \subseteq rows', rows' \subseteq rows \union mine[p],
           end = "done" /\ steady[p] /\ created[p] < Limit => D!Reachable \subseteq rows'
    PROVE  DiscoveryInv'
<1>1. PassTypes /\ PassInv(p)
  BY DEF DiscoveryInv
<1>2. /\ lock' = (IF lock = p THEN None ELSE lock) /\ mine' = [mine EXCEPT ![p] = {}]
      /\ place' = [place EXCEPT ![p] = end] /\ checked' = [checked EXCEPT ![p] = None]
      /\ UNCHANGED <<source, listing, at, page, created, steady, changes>>
  BY DEF D!Leave
<1>3. \A q \in Passes : mine'[q] # {} => lock' = q
  BY <1>1, <1>2 DEF PassTypes
<1>4. rows' \subseteq Listed
  BY <1>1 DEF PassTypes
<1>5. PassTypes'
  BY <1>1, <1>2, <1>3, <1>4 DEF PassTypes
<1>6. place'[p] = end /\ checked'[p] = None
  BY <1>1, <1>2 DEF PassTypes
<1>7. PassInv(p)'
  <2>1. at'[p] = None \/ Known(at[p])'
    BY <1>1, <1>2 DEF PassInv, Known, D!ByTitle
  <2>2. D!Reachable' = D!Reachable
    BY <1>2, ReachStays
  <2> QED  BY <1>2, <1>6, <2>1, <2>2 DEF PassInv
<1> QED  BY <1>1, <1>2, <1>5, <1>7, OthersKeep DEF Apart, PassTypes

LEMMA FinishKeeps == ASSUME DiscoveryInv, NEW p \in Passes, D!Finish(p) PROVE DiscoveryInv'
<1>1. PassTypes /\ PassInv(p) /\ place[p] = "scan" /\ D!Finished(p)
      /\ rows' = rows \union mine[p] /\ D!Leave(p, "done")
  BY DEF DiscoveryInv, D!Finish
<1>2. ASSUME steady[p], created[p] < Limit PROVE D!Reachable \subseteq rows'
  <2>1. page[p] = <<>> /\ at[p] = None
    <3>1. created[p] \in Nat /\ Limit \in Nat
      BY <1>1, PagingAssumption DEF PassTypes
    <3> QED  BY <1>1, <1>2, <3>1 DEF D!Finished
  <2>2. D!Reachable \subseteq Noticed(p) /\ checked[p] = None
    BY <1>1, <1>2, <2>1 DEF PassInv, Passed
  <2>3. D!ToSet(page[p]) = {}
    BY <2>1 DEF D!ToSet
  <2>4. \A x \in D!Reachable : x \in Listed
    BY ReachableIs, SeqParts DEF DiscoveryInv, ListingTypes
  <2> QED  BY <1>1, <2>2, <2>3, <2>4, PassesAssumption DEF Noticed
<1> QED  BY <1>1, <1>2, LeaveKeeps

LEMMA DiscoveryStep == ASSUME DiscoveryInv, [D!Next]_pass PROVE DiscoveryInv'
<1>1. PassTypes /\ ListingTypes
  BY DEF DiscoveryInv
<1>2. CASE D!ListingChanges
  <2>1. ListingTypes'
    BY <1>1, <1>2, ListingStep
  <2>2. /\ changes < MaxChanges /\ changes' = changes + 1 /\ steady' = [p \in Passes |-> FALSE]
        /\ UNCHANGED <<source, rows, lock, place, at, page, created, mine, checked>>
    BY <1>2 DEF D!ListingChanges, D!pass
  <2>3. changes' \in 0 .. MaxChanges
    BY <1>1, <2>2, CountsAssumption DEF PassTypes
  <2>4. PassTypes'
    BY <1>1, <2>2, <2>3 DEF PassTypes
  <2>5. \A p \in Passes : PassInv(p)'
    BY <2>2 DEF DiscoveryInv, PassInv, Known, D!ByTitle
  <2> QED  BY <2>1, <2>4, <2>5 DEF DiscoveryInv
<1>3. ASSUME NEW p \in Passes, D!Begin(p) PROVE DiscoveryInv'
  BY <1>3, BeginKeeps
<1>4. ASSUME NEW p \in Passes, D!FetchPage(p) PROVE DiscoveryInv'
  BY <1>4, FetchPageKeeps
<1>5. ASSUME NEW p \in Passes, D!Turn(p) PROVE DiscoveryInv'
  BY <1>5, TurnKeeps
<1>6. ASSUME NEW p \in Passes, D!LookUp(p) PROVE DiscoveryInv'
  BY <1>6, LookUpKeeps
<1>7. ASSUME NEW p \in Passes, D!Insert(p) PROVE DiscoveryInv'
  BY <1>7, InsertKeeps
<1>8. ASSUME NEW p \in Passes, D!Finish(p) PROVE DiscoveryInv'
  BY <1>8, FinishKeeps
<1>9. ASSUME NEW p \in Passes, D!PageFails(p) \/ D!RollBack(p) PROVE DiscoveryInv'
  <2>1. D!Leave(p, "failed") /\ rows \subseteq rows' /\ rows' \subseteq rows \union mine[p]
    BY <1>9 DEF D!PageFails, D!RollBack
  <2> QED  BY <2>1, LeaveKeeps
<1>10. CASE UNCHANGED pass
  BY <1>10, ReachStays DEF pass, DiscoveryInv, ListingTypes, PassTypes, PassInv, Passed, Noticed, Known, D!ByTitle, D!ToSet
<1> QED  BY <1>2, <1>3, <1>4, <1>5, <1>6, <1>7, <1>8, <1>9, <1>10 DEF D!Next

LEMMA DiscoveryTrue == DiscoveryInv => DiscoveryIsComplete
BY DEF DiscoveryInv, PassInv, DiscoveryIsComplete, D!DiscoveryIsComplete

LEMMA DiscoveryTyped == DiscoveryInv => D!TypeOK
<1> SUFFICES ASSUME DiscoveryInv PROVE D!TypeOK
  OBVIOUS
<1>1. ListingTypes /\ PassTypes
  BY DEF DiscoveryInv
<1>2. DOMAIN listing = 1 .. Len(listing) /\ listing \in Seq(Listed)
  BY <1>1, SeqParts DEF ListingTypes
<1>3. D!IsInjective(listing)
  BY <1>1, <1>2 DEF D!IsInjective, ListingTypes
<1>4. \A s \in Seq(Listed) : D!ToSet(s) \subseteq Listed
  BY EntriesOf, SeqParts
<1>5. \A p \in Passes :
        /\ D!ToSet(page[p]) \subseteq Listed /\ mine[p] \subseteq Listed
        /\ checked[p] \in Listed \union {None} /\ (mine[p] # {} => lock = p)
  BY <1>1, <1>4 DEF PassTypes
<1> QED  BY <1>1, <1>2, <1>3, <1>4, <1>5 DEF D!TypeOK, D!Ends, PassTypes, ListingTypes

-----------------------------------------------------------------------------
(***************************************************************************)
(* The types of the loop and of a try, which their counters need a bound   *)
(* for: a drain takes from its budget what it runs, and the loop ends with *)
(* the first empty round beyond a limit.                                   *)
(***************************************************************************)
HarvestBounds ==
    /\ H!TypeOK
    /\ pc = "drain" => processed + budget <= 3 * Batch
    /\ pc \notin H!Ends => emptyRounds <= FailureLimit + EmptyLimit

\* At most n members of a set have fewer than n others before them.
LEMMA FirstsAreFew ==
    ASSUME NEW S \in SUBSET Items, NEW n \in Nat
    PROVE  IsFiniteSet(H!FirstOf(S, n)) /\ Cardinality(H!FirstOf(S, n)) <= n
<1> DEFINE firsts == H!FirstOf(S, n)
           below == [i \in firsts |-> {j \in S : j < i}]
           rank == [i \in firsts |-> Cardinality(below[i]) + 1]
<1>1. IsFiniteSet(S) /\ S \subseteq Nat /\ firsts \subseteq S
  BY ItemsAssumption, FS_Subset DEF H!FirstOf
<1>2. \A i \in firsts : IsFiniteSet(below[i]) /\ Cardinality(below[i]) \in Nat /\ Cardinality(below[i]) < n
  <2> TAKE i \in firsts
  <2>1. below[i] = {j \in S : j < i} /\ below[i] \subseteq S
    OBVIOUS
  <2>2. Cardinality({j \in S : j < i}) < n
    BY SameNumber DEF H!FirstOf
  <2> QED  BY <1>1, <2>1, <2>2, FS_Subset, FS_CardinalityType
<1>3. \A i, k \in firsts : i < k => Cardinality(below[i]) < Cardinality(below[k])
  <2> SUFFICES ASSUME NEW i \in firsts, NEW k \in firsts, i < k PROVE Cardinality(below[i]) < Cardinality(below[k])
    OBVIOUS
  <2>1. below[i] \subseteq below[k] \ {i} /\ i \in below[k]
    <3>1. below[i] = {j \in S : j < i} /\ below[k] = {j \in S : j < k} /\ i \in S /\ k \in S
      BY <1>1
    <3>2. \A j \in S : j \in Nat
      BY <1>1
    <3> HIDE DEF below, firsts
    <3> QED  BY <3>1, <3>2
  <2> HIDE DEF below, firsts
  <2>2. IsFiniteSet(below[k] \ {i}) /\ Cardinality(below[k] \ {i}) = Cardinality(below[k]) - 1
    BY <1>2, <2>1, OneLeaves
  <2>3. Cardinality(below[i]) <= Cardinality(below[k]) - 1
    BY <2>1, <2>2, FS_Subset
  <2> QED  BY <1>2, <2>3
<1> HIDE DEF firsts, below
<1>4. rank \in [firsts -> 1 .. n]
  <2>1. \A i \in firsts : Cardinality(below[i]) + 1 \in 1 .. n
    <3> TAKE i \in firsts
    <3> DEFINE c == Cardinality(below[i])
    <3>1. c \in Nat /\ c < n
      BY <1>2
    <3> HIDE DEF c
    <3>2. c + 1 \in 1 .. n
      BY <3>1
    <3> QED  BY <3>2 DEF c
  <2> QED  BY <2>1
<1>5. \A i, k \in firsts : rank[i] = rank[k] => i = k
  <2> SUFFICES ASSUME NEW i \in firsts, NEW k \in firsts, rank[i] = rank[k] PROVE i = k
    OBVIOUS
  <2>1. Cardinality(below[i]) = Cardinality(below[k])
    <3> DEFINE c == Cardinality(below[i])
               d == Cardinality(below[k])
    <3>1. c + 1 = d + 1 /\ c \in Nat /\ d \in Nat
      BY <1>2
    <3> HIDE DEF c, d
    <3>2. c = d
      BY <3>1
    <3> QED  BY <3>2 DEF c, d
  <2>2. i \in Nat /\ k \in Nat /\ ~(i < k) /\ ~(k < i)
    BY <1>1, <1>2, <1>3, <2>1
  <2> QED  BY <2>2
<1>6. IsFiniteSet(1 .. n) /\ Cardinality(1 .. n) = n
  BY IntervalSize
<1> HIDE DEF rank
<1>7. rank \in Injection(firsts, 1 .. n)
  BY <1>4, <1>5 DEF Injection, IsInjective
<1>8. IsFiniteSet(firsts) /\ Cardinality(firsts) <= Cardinality(1 .. n)
  BY <1>6, <1>7, FS_Injection
<1> QED  BY <1>6, <1>8 DEF firsts

LEMMA BoundsInit == H!Init => HarvestBounds
BY CountsAssumption DEF H!Init, HarvestBounds, H!TypeOK, H!Ends

LEMMA BoundsStep == ASSUME HarvestBounds, [H!Next]_loop PROVE HarvestBounds'
<1>0. fate' = fate
  BY DEF H!Next, loop
<1> USE <1>0
<1>1. /\ status \in [Items -> {"unknown", "queued", "settled", "failed", "gone"}]
      /\ due \in [Items -> 0 .. MaxJobs] /\ waiting \in [Items -> 0 .. MaxJobs]
      /\ pc \in {"top", "requeue", "drain", "discover", "drain_new"} \union H!Ends
      /\ budget \in 0 .. 3 * Batch
      /\ requeued \in 0 .. Batch /\ processed \in 0 .. 3 * Batch
      /\ emptyRounds \in 0 .. FailureLimit + EmptyLimit + 1
      /\ faults \in 0 .. MaxFaults
      /\ pc = "drain" => processed + budget <= 3 * Batch
      /\ pc \notin H!Ends => emptyRounds <= FailureLimit + EmptyLimit
  BY DEF HarvestBounds, H!TypeOK
<1>2. /\ Batch \in Nat \ {0} /\ MaxJobs \in Nat \ {0} /\ EmptyLimit \in Nat /\ FailureLimit \in Nat /\ MaxFaults \in Nat
  BY CountsAssumption
<1>3. CASE H!Top
  <2>1. pc' \in {"target_reached", "requeue"} /\ pc = "top"
        /\ UNCHANGED <<status, due, waiting, budget, requeued, processed, emptyRounds, faults>>
    BY <1>3 DEF H!Top, H!queue
  <2> QED  BY <1>1, <2>1 DEF HarvestBounds, H!TypeOK, H!Ends
<1>4. CASE H!RequeueFailed
  <2>1. /\ status' \in [Items -> {"unknown", "queued", "settled", "failed", "gone"}]
        /\ due' \in [Items -> 0 .. MaxJobs]
    BY <1>1, <1>2, <1>4 DEF H!RequeueFailed
  <2>2. requeued' \in 0 .. Batch
    <3>1. H!With({"failed", "gone"}) \in SUBSET Items
      BY DEF H!With
    <3>2. IsFiniteSet(H!FirstOf(H!With({"failed", "gone"}), Batch))
          /\ Cardinality(H!FirstOf(H!With({"failed", "gone"}), Batch)) <= Batch
      BY <1>2, <3>1, FirstsAreFew
    <3>3. H!Retriable \subseteq H!FirstOf(H!With({"failed", "gone"}), Batch)
      BY DEF H!Retriable
    <3>4. Cardinality(H!Retriable) \in Nat /\ Cardinality(H!Retriable) <= Batch
      BY <1>2, <3>2, <3>3, FS_Subset, FS_CardinalityType
    <3>5. requeued' = Cardinality(H!Retriable)
      BY <1>4, SameNumber DEF H!RequeueFailed
    <3> DEFINE c == Cardinality(H!Retriable)
    <3> HIDE DEF c
    <3>6. requeued' = c /\ c \in Nat /\ c <= Batch
      BY <3>4, <3>5 DEF c
    <3> QED  BY <1>2, <3>6
  <2>3. /\ pc = "requeue" /\ pc' = "drain" /\ budget' = 3 * Batch /\ processed' = 0
        /\ UNCHANGED <<waiting, emptyRounds, faults>>
    BY <1>4 DEF H!RequeueFailed
  <2> QED  BY <1>1, <1>2, <2>1, <2>2, <2>3 DEF HarvestBounds, H!TypeOK, H!Ends
<1>5. CASE H!DrainEnds
  <2>1. /\ pc \in {"drain", "drain_new"} /\ pc' \in {"discover", "top"} /\ budget' = 0
        /\ emptyRounds' \in {emptyRounds, 0}
        /\ UNCHANGED <<status, due, waiting, requeued, processed, faults>>
    BY <1>5 DEF H!DrainEnds, H!Draining, H!queue
  <2> QED  BY <1>1, <1>2, <2>1 DEF HarvestBounds, H!TypeOK, H!Ends
<1>6. CASE H!DiscoverNew
  <2>1. /\ status' \in [Items -> {"unknown", "queued", "settled", "failed", "gone"}]
        /\ due' \in [Items -> 0 .. MaxJobs]
    BY <1>1, <1>2, <1>6 DEF H!DiscoverNew
  <2>2. /\ pc' = "drain_new" /\ emptyRounds' = 0 /\ budget' = 3 * Batch
        /\ UNCHANGED <<waiting, requeued, processed, faults>>
    BY <1>6 DEF H!DiscoverNew
  <2> QED  BY <1>1, <1>2, <2>1, <2>2 DEF HarvestBounds, H!TypeOK, H!Ends
<1>7. CASE H!DiscoverNothing \/ H!DiscoveryFails
  <2>1. /\ pc = "discover"
        /\ UNCHANGED <<status, due, waiting, budget, requeued, processed, faults>>
        /\ emptyRounds' = emptyRounds + 1
        /\ \/ pc' \in H!Ends
           \/ pc' = "top" /\ (emptyRounds + 1 <= EmptyLimit \/ emptyRounds + 1 <= FailureLimit)
    BY <1>1, <1>2, <1>7 DEF H!DiscoverNothing, H!DiscoveryFails, H!EmptyRound, H!queue, H!Ends
  <2> QED  BY <1>1, <1>2, <2>1 DEF HarvestBounds, H!TypeOK, H!Ends
<1>8. ASSUME NEW i \in Items, H!Draining, budget > 0, H!Ran,
             status' \in [Items -> {"unknown", "queued", "settled", "failed", "gone"}],
             due' \in [Items -> 0 .. MaxJobs], waiting' \in [Items -> 0 .. MaxJobs], faults' \in 0 .. MaxFaults
      PROVE  HarvestBounds'
  <2>1. /\ pc \in {"drain", "drain_new"} /\ budget' = budget - 1
        /\ processed' = (IF pc = "drain" THEN processed + 1 ELSE processed)
        /\ UNCHANGED <<pc, requeued, emptyRounds>>
    BY <1>8 DEF H!Draining, H!Ran
  <2>2. budget' \in 0 .. 3 * Batch /\ processed' \in 0 .. 3 * Batch
        /\ (pc = "drain" => processed' + budget' <= 3 * Batch)
    <3> DEFINE all == 3 * Batch
    <3>1. all \in Nat /\ budget \in 0 .. all /\ processed \in 0 .. all /\ (pc = "drain" => processed + budget <= all)
      BY <1>1, <1>2
    <3> HIDE DEF all
    <3>2. budget' \in 0 .. all /\ processed' \in 0 .. all /\ (pc = "drain" => processed' + budget' <= all)
      BY <1>8, <2>1, <3>1
    <3> QED  BY <3>2 DEF all
  <2> QED  BY <1>1, <1>8, <2>1, <2>2 DEF HarvestBounds, H!TypeOK
<1>9. ASSUME NEW i \in Items, H!Handled(i) PROVE HarvestBounds'
  <2>1. /\ status' \in [Items -> {"unknown", "queued", "settled", "failed", "gone"}]
        /\ due' \in [Items -> 0 .. MaxJobs]
    BY <1>1, <1>2, <1>9 DEF H!Handled
  <2> QED  BY <1>1, <1>8, <1>9, <2>1 DEF H!Handled
<1>10. ASSUME NEW i \in Items, H!Raised(i) PROVE HarvestBounds'
  <2>1. /\ status' \in [Items -> {"unknown", "queued", "settled", "failed", "gone"}]
        /\ due' \in [Items -> 0 .. MaxJobs]
    BY <1>1, <1>2, <1>10 DEF H!Raised
  <2>2. waiting' \in [Items -> 0 .. MaxJobs]
    BY <1>1, <1>2, <1>10 DEF H!Raised
  <2>3. faults' \in 0 .. MaxFaults
    BY <1>1, <1>2, <1>10 DEF H!Raised, H!Fault
  <2> QED  BY <1>8, <1>10, <2>1, <2>2, <2>3 DEF H!Raised
<1>11. ASSUME NEW i \in Items, H!Crashed(i) PROVE HarvestBounds'
  <2>1. faults' \in 0 .. MaxFaults /\ UNCHANGED <<status, due, waiting>>
    BY <1>1, <1>2, <1>11 DEF H!Crashed, H!Fault, H!queue
  <2> QED  BY <1>1, <1>8, <1>11, <2>1 DEF H!Crashed
<1>12. ASSUME NEW i \in Items, H!Elapse(i) PROVE HarvestBounds'
  <2>1. waiting' \in [Items -> 0 .. MaxJobs] /\ due' \in [Items -> 0 .. MaxJobs]
    BY <1>1, <1>2, <1>12 DEF H!Elapse
  <2> QED  BY <1>1, <1>12, <2>1 DEF H!Elapse, HarvestBounds, H!TypeOK
<1>13. CASE UNCHANGED loop
  BY <1>1, <1>13 DEF loop, HarvestBounds, H!TypeOK
<1> QED  BY <1>3, <1>4, <1>5, <1>6, <1>7, <1>9, <1>10, <1>11, <1>12, <1>13 DEF H!Next, H!HarvestLoop

AnswersKnown == asked \in 0 .. Attempts /\ \A x \in DOMAIN last : last[x] \in F!Answers

LEMMA AnswersInit == F!Init => AnswersKnown
BY LimitsAssumption DEF F!Init, AnswersKnown

LEMMA AnswersStep == ASSUME AnswersKnown, [F!Next]_try PROVE AnswersKnown'
<1>1. Attempts \in Nat /\ asked \in Nat /\ asked <= Attempts /\ 0 \in 0 .. Attempts
  BY LimitsAssumption DEF AnswersKnown
<1>2. ASSUME NEW a \in F!Answers, F!Answer(a), asked' \in 0 .. Attempts PROVE AnswersKnown'
  <2>1. /\ last' = [x \in DOMAIN last \union {<<file, url>>} |-> IF x = <<file, url>> THEN a ELSE last[x]]
    BY <1>2 DEF F!Answer
  <2>2. \A x \in DOMAIN last' : last'[x] \in F!Answers
    BY <2>1 DEF AnswersKnown
  <2> QED  BY <1>2, <2>2 DEF AnswersKnown
<1>3. {"file", "short", "invalid", "missing", "refused", "odd", "busy"} = F!Answers
  BY DEF F!Answers
<1>4. \A s, p : F!Proceed(s, p) => asked' \in 0 .. Attempts
  BY <1>1 DEF F!Proceed
<1>5. CASE F!RunIngestItem
  <2>1. asked' = 0 /\ last' = <<>>
    BY <1>5 DEF F!RunIngestItem
  <2> QED  BY <1>1, <2>1 DEF AnswersKnown
<1>6. CASE F!RetryRequest
  <2>1. F!Answer("busy") /\ asked' = asked + 1 /\ ~(asked + 1 >= Attempts)
    BY <1>6 DEF F!RetryRequest, F!LastAttempt
  <2>2. asked' \in 0 .. Attempts
    BY <1>1, <2>1
  <2> QED  BY <1>2, <1>3, <2>1, <2>2
<1>7. CASE F!NextUrl
  <2>1. PICK a \in {"missing", "refused", "odd", "busy"} : F!Answer(a)
    BY <1>7 DEF F!NextUrl
  <2>2. asked' = 0
    BY <1>7 DEF F!NextUrl
  <2> QED  BY <1>1, <1>2, <1>3, <2>1, <2>2
<1>8. CASE F!Saved
  <2>1. F!Answer("file") /\ asked' \in 0 .. Attempts
    BY <1>4, <1>8 DEF F!Saved
  <2> QED  BY <1>2, <1>3, <2>1
<1>9. CASE F!Raises
  <2>1. PICK a \in F!Answers : F!Retryable(a)
    BY <1>3, <1>9 DEF F!Raises
  <2>2. F!Answer(a) /\ asked' = asked
    BY <2>1 DEF F!Retryable
  <2> QED  BY <1>2, <2>2 DEF AnswersKnown
<1>10. CASE F!AllGone
  <2>1. PICK a \in {"missing", "refused", "odd"} : F!Answer(a) /\ F!Proceed(saved, TRUE)
    BY <1>10 DEF F!AllGone
  <2> QED  BY <1>2, <1>3, <1>4, <2>1
<1>11. CASE F!Skipped
  <2>1. PICK a \in F!Answers : F!Answer(a)
    BY <1>3, <1>11 DEF F!Skipped
  <2>2. asked' \in 0 .. Attempts
    BY <1>4, <1>11 DEF F!Skipped
  <2> QED  BY <1>2, <2>1, <2>2
<1>12. CASE UNCHANGED try
  BY <1>12 DEF try, AnswersKnown
<1> QED  BY <1>5, <1>6, <1>7, <1>8, <1>9, <1>10, <1>11, <1>12 DEF F!Next

LEMMA FetchTyped == FetchInv /\ AnswersKnown => F!TypeOK
<1> SUFFICES ASSUME FetchInv, AnswersKnown PROVE F!TypeOK
  OBVIOUS
<1>1. DOMAIN Plan = 1 .. Len(Plan)
  BY PlanFacts DEF FetchInv, FetchTypes
<1> QED  BY <1>1 DEF FetchInv, FetchTypes, AnswersKnown, F!TypeOK, F!Files, Plan
-----------------------------------------------------------------------------
(***************************************************************************)
(* The theorems.                                                           *)
(***************************************************************************)
LEMMA StepOfAPart ==
    ASSUME [Next]_<<part, loop, pass, try>>
    PROVE  [H!Next]_loop /\ [D!Next]_pass /\ [F!Next]_try
BY DEF Next, loop, pass, try

\* An item is given up only for what its URLs answered (GivenUpLate), for every
\* plan of files, number of attempts and number of tries.
THEOREM GivesUpLate == Spec => []GivenUpLate
<1>1. Init => FetchInv
  BY FetchInit DEF Init
<1>2. FetchInv /\ [Next]_<<part, loop, pass, try>> => FetchInv'
  BY FetchStep, StepOfAPart
<1>3. FetchInv => GivenUpLate
  BY FetchLate
<1> QED  BY <1>1, <1>2, <1>3, PTL DEF Spec

\* The harvest loop asks its source for more only when what it got was worked
\* off, and its "no more eligible" is true (RoundsAreTrue), for every set of
\* items of which fewer than a batch are gone for good, whatever the fates of
\* the others and whatever else fails.
THEOREM RoundsTrue == FewGone => (Spec => []RoundsAreTrue)
<1> SUFFICES ASSUME FewGone PROVE Spec => []RoundsAreTrue
  OBVIOUS
<1>1. Init => HarvestInv
  BY HarvestInit DEF Init
<1>2. HarvestInv /\ [Next]_<<part, loop, pass, try>> => HarvestInv'
  BY HarvestStep, StepOfAPart
<1>3. HarvestInv => RoundsAreTrue
  BY HarvestTrue
<1> QED  BY <1>1, <1>2, <1>3, PTL DEF Spec

\* A pass that ends below its limit has found all there was to find
\* (DiscoveryIsComplete), for every listing, page size, cap, filter and list of
\* categories, whatever other passes and failures came between its steps.
THEOREM DiscoveryComplete == Spec => []DiscoveryIsComplete
<1>1. Init => DiscoveryInv
  BY PassInit DEF Init
<1>2. DiscoveryInv /\ [Next]_<<part, loop, pass, try>> => DiscoveryInv'
  BY DiscoveryStep, StepOfAPart
<1> QED  BY <1>1, <1>2, DiscoveryTrue, PTL DEF Spec

\* Rows, counters and locals keep their types, the listing in its order among
\* them, for every limit and bound.
THEOREM TypesKept == Spec => []TypeOK
<1> DEFINE Inv == FetchInv /\ AnswersKnown /\ HarvestBounds /\ DiscoveryInv
<1>1. Init => Inv
  BY FetchInit, AnswersInit, BoundsInit, PassInit DEF Init
<1>2. Inv /\ [Next]_<<part, loop, pass, try>> => Inv'
  BY FetchStep, AnswersStep, BoundsStep, DiscoveryStep, StepOfAPart
<1>3. Inv => TypeOK
  BY FetchTyped, DiscoveryTyped DEF HarvestBounds, TypeOK
<1> QED  BY <1>1, <1>2, <1>3, PTL DEF Spec
=============================================================================
