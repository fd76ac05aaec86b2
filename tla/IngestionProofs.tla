--------------------------- MODULE IngestionProofs --------------------------
(***************************************************************************)
(* Theorems about Ingestion, for any items, works, contents and faults.    *)
(***************************************************************************)
EXTENDS Ingestion, TLAPS

\* What was saved is a non-empty sequence of contents.
LEMMA SavesAre ==
    ASSUME NEW i \in Items, NEW s \in Saves[i]
    PROVE  /\ s \in Seq(Digests) /\ Len(s) \in 1 .. Len(Offers[i])
           /\ s[1] \in Digests /\ 1 \in DOMAIN s /\ Elements(s) \subseteq Digests
<1>1. PICK n \in 1 .. Len(Offers[i]) : s \in [1 .. n -> Digests]
  BY DEF Saves
<1>2. n \in Nat /\ 1 <= n
  BY <1>1, OffersAssumption
<1>3. s \in Seq(Digests) /\ Len(s) = n /\ DOMAIN s = 1 .. n
  BY <1>1, <1>2
<1> QED
  BY <1>1, <1>2, <1>3 DEF Elements

\* A run that makes a work makes one that did not exist.
LEMMA NextWorkIs ==
    ASSUME \E w \in Works : ~Exists(w)
    PROVE  NextWork \in Works /\ ~Exists(NextWork)
  BY DEF NextWork

-----------------------------------------------------------------------------
(***************************************************************************)
(* Type correctness.                                                       *)
(***************************************************************************)
LEMMA AddFilesType ==
    ASSUME TypeOK, NEW i \in Items, NEW w \in Works, NEW s \in Saves[i], NEW new \in SUBSET Digests,
           AddFiles(i, w, s, new)
    PROVE  /\ store' \in [Digests -> Digests \union {None}]
           /\ file' \in [Digests -> Works \union {None}]
           /\ provider' \in [Digests -> Items \union {None}]
<1>1. \A d \in Digests : ContentOf(i, s, d) \in Digests
  BY SavesAre DEF ContentOf
<1> QED
  BY <1>1 DEF AddFiles, Stored, TypeOK

LEMMA JobsType ==
    ASSUME TypeOK, NEW i \in Items, jobs[i] > 0, Return(i) \/ Raise(i)
    PROVE  jobs' \in [Items -> 0 .. MaxJobs] /\ faults' \in 0 .. MaxFaults
<1>1. jobs[i] - 1 \in 0 .. MaxJobs
  BY BoundsAssumption DEF TypeOK
<1>2. CASE Return(i)
  BY <1>1, <1>2 DEF Return, TypeOK
<1>3. CASE Raise(i)
  BY <1>1, <1>3, BoundsAssumption DEF Raise, TypeOK
<1> QED
  BY <1>2, <1>3

\* The type of the item's row, whatever verdict is written to it.
ItemType(it) == it \in [Items -> [status : ItemStatuses, work : Works \union {None},
                                  err : {"none", "transient", "permanent"}]]

LEMMA VerdictType ==
    ASSUME TypeOK, NEW i \in Items, NEW st \in ItemStatuses
    PROVE  /\ ItemType([item EXCEPT ![i].status = st])
           /\ \A w \in Works : /\ ItemType([item EXCEPT ![i].status = st, ![i].work = w])
                              /\ ItemType([item EXCEPT ![i].work = w, ![i].status = st])
           /\ \A err \in {"transient", "permanent"} :
                  ItemType([item EXCEPT ![i].status = st, ![i].err = err])
<1> DEFINE Rows == [status : ItemStatuses, work : Works \union {None},
                    err : {"none", "transient", "permanent"}]
<1>1. item \in [Items -> Rows]
  BY DEF TypeOK
<1>2. \A row \in Rows : /\ [row EXCEPT !.status = st] \in Rows
                        /\ \A w \in Works : [row EXCEPT !.work = w] \in Rows
                        /\ \A err \in {"transient", "permanent"} : [row EXCEPT !.err = err] \in Rows
  OBVIOUS
<1> HIDE DEF Rows
<1>3. \A it \in [Items -> Rows] :
        /\ [it EXCEPT ![i].status = st] \in [Items -> Rows]
        /\ \A w \in Works : [it EXCEPT ![i].work = w] \in [Items -> Rows]
        /\ \A err \in {"transient", "permanent"} : [it EXCEPT ![i].err = err] \in [Items -> Rows]
  BY <1>2
<1> QED
  BY <1>1, <1>3 DEF ItemType, Rows

LEMMA FailedType ==
    ASSUME TypeOK, NEW i \in Items, NEW err \in {"transient", "permanent"}
    PROVE  ItemType(Failed(i, err))
<1>1. "failed" \in ItemStatuses
  BY DEF ItemStatuses
<1> QED
  BY <1>1, VerdictType DEF Failed

LEMMA PointedType ==
    ASSUME NEW it, ItemType(it), NEW i \in Items, NEW w \in Works
    PROVE  ItemType([it EXCEPT ![i].work = w])
  BY DEF ItemType

LEMMA OriginalsAre ==
    ASSUME TypeOK, NEW i \in Items, NEW s \in Saves[i], NEW w \in Originals(i, s)
    PROVE  w \in Works /\ (w = file[s[1]] \/ Exists(w))
  BY SavesAre, KeysAssumption DEF Originals, Twins, TypeOK

\* Every variable has its type in every state: runs, retries and crashes leave
\* only rows the schema allows (db/models.py).
THEOREM TypeCorrect == Spec => []TypeOK
<1>1. Init => TypeOK
  BY BoundsAssumption DEF Init, TypeOK, ItemStatuses
<1>2. TypeOK /\ [Next]_vars => TypeOK'
  <2> SUFFICES ASSUME TypeOK, [Next]_vars PROVE TypeOK'
    OBVIOUS
  <2>1. ASSUME NEW i \in Items, Reject(i) PROVE TypeOK'
    <3>1. ItemType(item')
      <4>1. "rejected" \in ItemStatuses
        BY DEF ItemStatuses
      <4>2. ItemType([item EXCEPT ![i].status = "rejected"])
        BY <4>1, VerdictType
      <4> QED
        BY <2>1, <4>2 DEF Reject
    <3> QED
      BY <2>1, <3>1, JobsType DEF Reject, TypeOK, catalog, ItemType
  <2>2. ASSUME NEW i \in Items, NothingSaved(i) PROVE TypeOK'
    <3>1. ItemType(item')
      <4>1. PICK err \in {"transient", "permanent"} : item' = Failed(i, err)
        BY <2>2 DEF NothingSaved
      <4> QED
        BY <4>1, FailedType
    <3> QED
      BY <2>2, <3>1, JobsType DEF NothingSaved, TypeOK, catalog, ItemType
  <2>3. ASSUME NEW i \in Items, FetchRaises(i) PROVE TypeOK'
    <3>1. ItemType(item')
      <4>1. PICK err \in {"transient", "permanent"} : item' = Failed(i, err)
        BY <2>3 DEF FetchRaises
      <4> QED
        BY <4>1, FailedType
    <3> QED
      BY <2>3, <3>1, JobsType DEF FetchRaises, TypeOK, catalog, ItemType
  <2>4. ASSUME NEW i \in Items, NEW s \in Saves[i], Duplicate(i, s) PROVE TypeOK'
    <3>1. PICK w \in Originals(i, s) : Attach(i, w, s)
      BY <2>4 DEF Duplicate
    <3>2. w \in Works /\ Missing(w, s) \subseteq Digests
      BY OriginalsAre, SavesAre DEF Missing, Fresh, Elements
    <3>3. ItemType(item')
      BY <3>1, <3>2, VerdictType DEF Attach, ItemStatuses
    <3>4. jobs' \in [Items -> 0 .. MaxJobs] /\ faults' \in 0 .. MaxFaults
      BY <2>4, <3>1, JobsType DEF Duplicate, Attach
    <3>5. /\ store' \in [Digests -> Digests \union {None}]
          /\ file' \in [Digests -> Works \union {None}]
          /\ provider' \in [Digests -> Items \union {None}]
      BY <3>1, <3>2, AddFilesType DEF Attach
    <3> QED
      BY <2>4, <3>3, <3>4, <3>5 DEF Duplicate, TypeOK, ItemType
  <2>5. ASSUME NEW i \in Items, NEW s \in Saves[i], DuplicateRaises(i, s) PROVE TypeOK'
    <3>1. PICK w \in Originals(i, s), n \in 0 .. Len(s) - 1 :
              AddFiles(i, w, s, Missing(w, s) \intersect Elements(SubSeq(s, 1, n)))
      BY <2>5 DEF DuplicateRaises
    <3>2. w \in Works /\ Missing(w, s) \intersect Elements(SubSeq(s, 1, n)) \subseteq Digests
      BY OriginalsAre, SavesAre DEF Missing, Fresh, Elements
    <3>3. ItemType(item')
      BY <2>5, FailedType DEF DuplicateRaises
    <3>4. jobs' \in [Items -> 0 .. MaxJobs] /\ faults' \in 0 .. MaxFaults
      BY <2>5, JobsType DEF DuplicateRaises
    <3>5. /\ store' \in [Digests -> Digests \union {None}]
          /\ file' \in [Digests -> Works \union {None}]
          /\ provider' \in [Digests -> Items \union {None}]
      BY <3>1, <3>2, AddFilesType
    <3> QED
      BY <2>5, <3>3, <3>4, <3>5 DEF DuplicateRaises, TypeOK, ItemType
  <2>6. ASSUME NEW i \in Items, NEW s \in Saves[i], NEW twin \in Works \union {None},
               NEW unsure \in BOOLEAN, Create(i, s, twin, unsure)
        PROVE TypeOK'
    <3>1. NextWork \in Works /\ Fresh(s) \subseteq Digests
      BY <2>6, NextWorkIs, SavesAre DEF Create, IsNew, Fresh
    <3>2. Doubts(i, twin, unsure) \union RightsReview(i) \subseteq ReviewRows
      BY <3>1 DEF Doubts, RightsReview, ReviewRows
    <3>3. work' \in [Works -> [status : {"absent", "draft", "published", "hidden"}, origin : Items \union {None}]]
      BY <2>6, <3>1 DEF Create, TypeOK
    <3>4. ItemType(item')
      BY <2>6, <3>1, VerdictType DEF Create, ItemStatuses
    <3>5. index' \subseteq Works /\ reviews' \subseteq ReviewRows /\ approved' \subseteq Works
      BY <2>6, <3>1, <3>2 DEF Create, TypeOK
    <3>6. jobs' \in [Items -> 0 .. MaxJobs] /\ faults' \in 0 .. MaxFaults
      BY <2>6, JobsType DEF Create, IsNew
    <3>7. /\ store' \in [Digests -> Digests \union {None}]
          /\ file' \in [Digests -> Works \union {None}]
          /\ provider' \in [Digests -> Items \union {None}]
      BY <2>6, <3>1, AddFilesType DEF Create
    <3> QED
      BY <3>3, <3>4, <3>5, <3>6, <3>7 DEF TypeOK, ItemType
  <2>7. ASSUME NEW i \in Items, NEW s \in Saves[i], NEW twin \in Works \union {None},
               NEW unsure \in BOOLEAN, NEW n \in 0 .. Len(s), CreateRaises(i, s, twin, n, unsure)
        PROVE TypeOK'
    <3>1. NextWork \in Works /\ Fresh(s) \intersect Elements(SubSeq(s, 1, n)) \subseteq Digests
      BY <2>7, NextWorkIs, SavesAre DEF CreateRaises, IsNew, Fresh
    <3>2. Doubts(i, twin, unsure) \subseteq ReviewRows
      BY <3>1 DEF Doubts, ReviewRows
    <3>3. work' \in [Works -> [status : {"absent", "draft", "published", "hidden"}, origin : Items \union {None}]]
      BY <2>7, <3>1 DEF CreateRaises, TypeOK
    <3>4. ItemType(item')
      BY <2>7, FailedType DEF CreateRaises
    <3>5. index' \subseteq Works /\ reviews' \subseteq ReviewRows /\ approved' \subseteq Works
      BY <2>7, <3>2 DEF CreateRaises, TypeOK
    <3>6. jobs' \in [Items -> 0 .. MaxJobs] /\ faults' \in 0 .. MaxFaults
      BY <2>7, JobsType DEF CreateRaises, IsNew
    <3>7. /\ store' \in [Digests -> Digests \union {None}]
          /\ file' \in [Digests -> Works \union {None}]
          /\ provider' \in [Digests -> Items \union {None}]
      BY <2>7, <3>1, AddFilesType DEF CreateRaises
    <3> QED
      BY <3>3, <3>4, <3>5, <3>6, <3>7 DEF TypeOK, ItemType
  <2>14. ASSUME NEW i \in Items, NEW s \in Saves[i], NEW twin \in Works \union {None},
                NEW unsure \in BOOLEAN, PublishRaises(i, s, twin, unsure)
         PROVE TypeOK'
    <3>1. NextWork \in Works /\ Fresh(s) \subseteq Digests
      BY <2>14, NextWorkIs, SavesAre DEF PublishRaises, IsNew, Fresh
    <3>2. Doubts(i, twin, unsure) \subseteq ReviewRows
      BY <3>1 DEF Doubts, ReviewRows
    <3>3. work' \in [Works -> [status : {"absent", "draft", "published", "hidden"}, origin : Items \union {None}]]
      BY <2>14, <3>1 DEF PublishRaises, TypeOK
    <3>4. ItemType(item')
      BY <2>14, <3>1, FailedType, PointedType DEF PublishRaises
    <3>5. index' \subseteq Works /\ reviews' \subseteq ReviewRows /\ approved' \subseteq Works
      BY <2>14, <3>2 DEF PublishRaises, TypeOK
    <3>6. jobs' \in [Items -> 0 .. MaxJobs] /\ faults' \in 0 .. MaxFaults
      BY <2>14, JobsType DEF PublishRaises, IsNew
    <3>7. /\ store' \in [Digests -> Digests \union {None}]
          /\ file' \in [Digests -> Works \union {None}]
          /\ provider' \in [Digests -> Items \union {None}]
      BY <2>14, <3>1, AddFilesType DEF PublishRaises
    <3> QED
      BY <3>3, <3>4, <3>5, <3>6, <3>7 DEF TypeOK, ItemType
  <2>8. ASSUME NEW i \in Items, NEW s \in Saves[i], NEW new \in SUBSET Fresh(s), RollBack(i, s, new)
        PROVE TypeOK'
    <3>1. \A d \in Digests : ContentOf(i, s, d) \in Digests
      BY SavesAre DEF ContentOf
    <3>2. store' \in [Digests -> Digests \union {None}]
      BY <2>8, <3>1 DEF RollBack, Stored, TypeOK
    <3>3. faults' \in 0 .. MaxFaults
      BY <2>8, BoundsAssumption DEF RollBack, TypeOK
    <3> QED
      BY <2>8, <3>2, <3>3 DEF RollBack, TypeOK, catalog
  <2>9. ASSUME NEW found \in SUBSET Items, RunDiscovery(found) PROVE TypeOK'
    <3>1. jobs' \in [Items -> 0 .. MaxJobs]
      BY <2>9, BoundsAssumption DEF RunDiscovery, TypeOK
    <3>2. ItemType(item')
      BY <2>9 DEF RunDiscovery, TypeOK, ItemType, ItemStatuses
    <3> QED
      BY <2>9, <3>1, <3>2 DEF RunDiscovery, TypeOK, catalog, ItemType
  <2>10. CASE RequeueFailed
    <3> DEFINE Rows == [status : ItemStatuses, work : Works \union {None},
                        err : {"none", "transient", "permanent"}]
    <3>1. /\ \A i \in Retriable : jobs[i] < MaxJobs
          /\ jobs' = [i \in Items |-> IF i \in Retriable THEN jobs[i] + 1 ELSE jobs[i]]
      BY <2>10 DEF RequeueFailed
    <3>2. jobs' \in [Items -> 0 .. MaxJobs]
      BY <3>1, BoundsAssumption DEF TypeOK
    <3>3. item' = [i \in Items |-> IF i \in Retriable
                                  THEN [item[i] EXCEPT !.status = "queued", !.err = "none"] ELSE item[i]]
      BY <2>10 DEF RequeueFailed
    <3>4. \A row \in Rows : [row EXCEPT !.status = "queued", !.err = "none"] \in Rows
      BY DEF ItemStatuses
    <3>5. item \in [Items -> Rows]
      BY DEF TypeOK
    <3>6. item' \in [Items -> Rows]
      <4> HIDE DEF Rows
      <4> QED
        BY <3>3, <3>4, <3>5
    <3> QED
      BY <2>10, <3>2, <3>6 DEF RequeueFailed, TypeOK, catalog
  <2>11. ASSUME NEW w \in Works, AdminPublish(w) \/ AdminHide(w) PROVE TypeOK'
    BY <2>11 DEF AdminPublish, AdminHide, TypeOK
  <2>12. ASSUME NEW r \in reviews, AdminResolveReview(r) PROVE TypeOK'
    BY <2>12 DEF AdminResolveReview, TypeOK
  <2>13. CASE UNCHANGED vars
    BY <2>13 DEF vars, catalog, TypeOK
  <2> QED
    BY <2>1, <2>2, <2>3, <2>4, <2>5, <2>6, <2>7, <2>8, <2>9, <2>10, <2>11, <2>12, <2>13, <2>14
    DEF Next, RunIngestItem
<1> QED
  BY <1>1, <1>2, PTL DEF Spec

-----------------------------------------------------------------------------
(***************************************************************************)
(* What a step does to works and files.  A file in the catalog has its     *)
(* object and its work, and an item that points to a work points to one    *)
(* that exists: with that, every step is of one of four kinds.             *)
(***************************************************************************)
Grounded ==
    /\ \A d \in Digests : file[d] # None => store[d] # None /\ Exists(file[d])
    /\ \A i \in Items : item[i].work # None => Exists(item[i].work)

\* The contents of new come from i to w, and the others stay as they are.
Received(w, i, new) ==
    /\ \A d \in new : file[d] = None /\ file'[d] = w /\ provider'[d] = i /\ store'[d] \in Digests
    /\ \A d \in Digests \ new : file'[d] = file[d] /\ provider'[d] = provider[d] /\ store'[d] = store[d]
    /\ file' = [d \in Digests |-> file'[d]]

FilesKept ==
    /\ UNCHANGED <<file, provider>>
    /\ \A d \in Digests : store[d] # None => store'[d] = store[d]

Attaches == \E w \in Works, i \in Items, new \in SUBSET Digests :
    Received(w, i, new) /\ Exists(w) /\ UNCHANGED <<work, index, approved>>
Makes(w, i, new, st) ==
    /\ Received(w, i, new) /\ ~Exists(w)
    /\ work' = [work EXCEPT ![w] = [status |-> st, origin |-> i]]
    /\ \/ st = "draft" /\ UNCHANGED index
       \/ st = "published" /\ Publishable(i) /\ new # {} /\ index' \in {index, index \union {w}}
    /\ UNCHANGED approved
MakesAny == \E w \in Works, i \in Items, new \in SUBSET Digests, st \in {"draft", "published"} :
    Makes(w, i, new, st)
Decides == \E w \in Works : (AdminPublish(w) \/ AdminHide(w)) /\ Exists(w)
Leaves == FilesKept /\ UNCHANGED <<work, index, approved>>
Kind == Attaches \/ MakesAny \/ Decides \/ Leaves

LEMMA AddFilesShape ==
    ASSUME TypeOK, NEW i \in Items, NEW w \in Works, NEW s \in Saves[i], NEW new \in SUBSET Digests,
           new \subseteq Fresh(s), AddFiles(i, w, s, new)
    PROVE  Received(w, i, new)
<1>1. \A d \in Digests : ContentOf(i, s, d) \in Digests
  BY SavesAre DEF ContentOf
<1>2. \A d \in new : file[d] = None
  BY DEF Fresh
<1> QED
  BY <1>1, <1>2 DEF AddFiles, Stored, TypeOK, Received

LEMMA OriginalsExist ==
    ASSUME TypeOK, Grounded, NEW i \in Items, NEW s \in Saves[i], NEW w \in Originals(i, s)
    PROVE  w \in Works /\ Exists(w)
  BY SavesAre, KeysAssumption DEF Originals, Twins, TypeOK, Grounded

LEMMA Kinds == ASSUME TypeOK, Grounded, [Next]_vars PROVE Kind
<1>1. ASSUME NEW i \in Items, Reject(i) \/ NothingSaved(i) \/ FetchRaises(i) PROVE Kind
  BY <1>1 DEF Reject, NothingSaved, FetchRaises, catalog, Kind, Leaves, FilesKept
<1>2. ASSUME NEW i \in Items, NEW s \in Saves[i], Duplicate(i, s) PROVE Kind
  <2>1. PICK w \in Originals(i, s) : Attach(i, w, s)
    BY <1>2 DEF Duplicate
  <2>2. w \in Works /\ Exists(w)
    BY OriginalsExist
  <2>3. Missing(w, s) \subseteq Fresh(s) /\ Missing(w, s) \in SUBSET Digests
    BY SavesAre DEF Missing, Fresh, Elements
  <2>4. Received(w, i, Missing(w, s))
    BY <2>1, <2>2, <2>3, AddFilesShape DEF Attach
  <2> QED
    BY <1>2, <2>2, <2>3, <2>4 DEF Duplicate, Kind, Attaches
<1>3. ASSUME NEW i \in Items, NEW s \in Saves[i], DuplicateRaises(i, s) PROVE Kind
  <2>1. PICK w \in Originals(i, s), n \in 0 .. Len(s) - 1 :
            AddFiles(i, w, s, Missing(w, s) \intersect Elements(SubSeq(s, 1, n)))
    BY <1>3 DEF DuplicateRaises
  <2>2. w \in Works /\ Exists(w)
    BY OriginalsExist
  <2> DEFINE new == Missing(w, s) \intersect Elements(SubSeq(s, 1, n))
  <2>3. new \subseteq Fresh(s) /\ new \in SUBSET Digests
    BY SavesAre DEF Missing, Fresh, Elements
  <2>4. Received(w, i, new)
    BY <2>1, <2>2, <2>3, AddFilesShape
  <2> QED
    BY <1>3, <2>2, <2>3, <2>4 DEF DuplicateRaises, Kind, Attaches
<1>4. ASSUME NEW i \in Items, NEW s \in Saves[i], NEW twin \in Works \union {None},
             NEW unsure \in BOOLEAN, Create(i, s, twin, unsure)
      PROVE Kind
  <2>1. NextWork \in Works /\ ~Exists(NextWork)
    BY <1>4, NextWorkIs DEF Create, IsNew
  <2>2. s[1] \in Fresh(s) /\ Fresh(s) \in SUBSET Digests
    BY <1>4, SavesAre DEF Create, IsNew, Fresh, Elements
  <2>3. Received(NextWork, i, Fresh(s))
    BY <1>4, <2>1, <2>2, AddFilesShape DEF Create
  <2>4. CASE Publishable(i)
    <3>1. Makes(NextWork, i, Fresh(s), "published")
      BY <1>4, <2>1, <2>2, <2>3, <2>4 DEF Create, Makes
    <3> QED
      BY <2>1, <2>2, <3>1 DEF Kind, MakesAny
  <2>5. CASE ~Publishable(i)
    <3>1. Makes(NextWork, i, Fresh(s), "draft")
      BY <1>4, <2>1, <2>2, <2>3, <2>5 DEF Create, Makes
    <3> QED
      BY <2>1, <2>2, <3>1 DEF Kind, MakesAny
  <2> QED
    BY <2>4, <2>5
<1>5. ASSUME NEW i \in Items, NEW s \in Saves[i], NEW twin \in Works \union {None},
             NEW unsure \in BOOLEAN, NEW n \in 0 .. Len(s), CreateRaises(i, s, twin, n, unsure)
      PROVE Kind
  <2> DEFINE new == Fresh(s) \intersect Elements(SubSeq(s, 1, n))
  <2>1. NextWork \in Works /\ ~Exists(NextWork)
    BY <1>5, NextWorkIs DEF CreateRaises, IsNew
  <2>2. new \subseteq Fresh(s) /\ new \in SUBSET Digests
    BY SavesAre DEF Fresh
  <2>3. Received(NextWork, i, new)
    BY <1>5, <2>1, <2>2, AddFilesShape DEF CreateRaises
  <2>4. Makes(NextWork, i, new, "draft")
    BY <1>5, <2>1, <2>3 DEF CreateRaises, Makes
  <2> QED
    BY <2>1, <2>2, <2>4 DEF Kind, MakesAny
<1>12. ASSUME NEW i \in Items, NEW s \in Saves[i], NEW twin \in Works \union {None},
              NEW unsure \in BOOLEAN, PublishRaises(i, s, twin, unsure)
       PROVE Kind
  <2>1. NextWork \in Works /\ ~Exists(NextWork)
    BY <1>12, NextWorkIs DEF PublishRaises, IsNew
  <2>2. s[1] \in Fresh(s) /\ Fresh(s) \in SUBSET Digests
    BY <1>12, SavesAre DEF PublishRaises, IsNew, Fresh, Elements
  <2>3. Received(NextWork, i, Fresh(s))
    BY <1>12, <2>1, <2>2, AddFilesShape DEF PublishRaises
  <2>4. Makes(NextWork, i, Fresh(s), "published")
    BY <1>12, <2>1, <2>2, <2>3 DEF PublishRaises, Makes
  <2> QED
    BY <2>1, <2>2, <2>4 DEF Kind, MakesAny
<1>6. ASSUME NEW i \in Items, NEW s \in Saves[i], NEW new \in SUBSET Fresh(s), RollBack(i, s, new)
      PROVE Kind
  BY <1>6 DEF RollBack, Stored, catalog, Kind, Leaves, FilesKept
<1>7. ASSUME NEW found \in SUBSET Items, RunDiscovery(found) PROVE Kind
  BY <1>7 DEF RunDiscovery, catalog, Kind, Leaves, FilesKept
<1>8. CASE RequeueFailed
  BY <1>8 DEF RequeueFailed, catalog, Kind, Leaves, FilesKept
<1>9. ASSUME NEW w \in Works, AdminPublish(w) \/ AdminHide(w) PROVE Kind
  <2>1. Exists(w)
    BY <1>9 DEF AdminPublish, AdminHide
  <2> QED
    BY <1>9, <2>1 DEF Kind, Decides
<1>10. ASSUME NEW r \in reviews, AdminResolveReview(r) PROVE Kind
  BY <1>10 DEF AdminResolveReview, Kind, Leaves, FilesKept
<1>11. CASE UNCHANGED vars
  BY <1>11 DEF vars, catalog, Kind, Leaves, FilesKept
<1> QED
  BY <1>1, <1>2, <1>3, <1>4, <1>5, <1>6, <1>7, <1>8, <1>9, <1>10, <1>11, <1>12 DEF Next, RunIngestItem

-----------------------------------------------------------------------------
(***************************************************************************)
(* Works stay, with the item they were made from, and so do files.         *)
(***************************************************************************)
LEMMA WorksStay ==
    ASSUME TypeOK, Kind, NEW w \in Works, Exists(w)
    PROVE  work'[w].status # "absent" /\ work'[w].origin = work[w].origin
<1>1. CASE Attaches \/ Leaves
  BY <1>1 DEF Attaches, Leaves, Exists
<1>2. CASE MakesAny
  BY <1>2 DEF MakesAny, Makes, Exists, TypeOK
<1>3. CASE Decides
  BY <1>3 DEF Decides, AdminPublish, AdminHide, Exists, TypeOK
<1> QED
  BY <1>1, <1>2, <1>3 DEF Kind

LEMMA FilesGrounded ==
    ASSUME TypeOK, Grounded, Kind, NEW d \in Digests, file'[d] # None
    PROVE  store'[d] # None /\ work'[file'[d]].status # "absent"
<1>0. file[d] # None => file[d] \in Works
  BY DEF TypeOK
<1>1. CASE Attaches \/ MakesAny
  <2>1. PICK w \in Works, i \in Items, new \in SUBSET Digests :
            Received(w, i, new) /\ work'[w].status # "absent"
    BY <1>1, WorksStay DEF Attaches, MakesAny, Makes, Exists, TypeOK
  <2>2. CASE d \in new
    BY <2>1, <2>2, KeysAssumption DEF Received
  <2>3. CASE d \notin new
    BY <1>0, <2>1, <2>3, WorksStay DEF Received, Grounded
  <2> QED
    BY <2>2, <2>3
<1>2. CASE Decides
  BY <1>0, <1>2, WorksStay DEF Decides, AdminPublish, AdminHide, Grounded
<1>3. CASE Leaves
  BY <1>0, <1>3, WorksStay DEF Leaves, FilesKept, Grounded
<1> QED
  BY <1>1, <1>2, <1>3 DEF Kind

\* What a run writes into an item: the work it points to, if it changes, is
\* there when the run is over.
LEMMA ItemsGrounded ==
    ASSUME TypeOK, Grounded, [Next]_vars, Kind, NEW j \in Items, item'[j].work # None
    PROVE  work'[item'[j].work].status # "absent"
<1>0. ASSUME item'[j].work = item[j].work PROVE work'[item'[j].work].status # "absent"
  BY <1>0, WorksStay DEF Grounded, TypeOK
<1>1. ASSUME NEW i \in Items, Reject(i) \/ NothingSaved(i) \/ FetchRaises(i)
      PROVE item'[j].work = item[j].work
  <2>1. CASE Reject(i)
    BY <2>1 DEF Reject, TypeOK
  <2>2. CASE NothingSaved(i) \/ FetchRaises(i)
    <3>1. PICK err \in {"transient", "permanent"} : item' = Failed(i, err)
      BY <2>2 DEF NothingSaved, FetchRaises
    <3> QED
      BY <3>1 DEF Failed, TypeOK
  <2> QED
    BY <1>1, <2>1, <2>2
<1>2. ASSUME NEW i \in Items, NEW s \in Saves[i], Duplicate(i, s) PROVE work'[item'[j].work].status # "absent"
  <2>1. PICK w \in Originals(i, s) : Attach(i, w, s)
    BY <1>2 DEF Duplicate
  <2>2. w \in Works /\ Exists(w)
    BY OriginalsExist
  <2>3. item'[j].work = item[j].work \/ item'[j].work = w
    BY <2>1, <2>2 DEF Attach, TypeOK
  <2> QED
    BY <1>0, <2>2, <2>3, WorksStay
<1>3. ASSUME NEW i \in Items, NEW s \in Saves[i], DuplicateRaises(i, s)
      PROVE item'[j].work = item[j].work
  BY <1>3 DEF DuplicateRaises, Failed, TypeOK
<1>4. ASSUME NEW i \in Items, NEW s \in Saves[i], NEW twin \in Works \union {None},
             NEW unsure \in BOOLEAN, Create(i, s, twin, unsure)
      PROVE work'[item'[j].work].status # "absent"
  <2>1. NextWork \in Works
    BY <1>4, NextWorkIs DEF Create, IsNew
  <2>2. work'[NextWork].status # "absent"
    BY <1>4, <2>1 DEF Create, TypeOK
  <2>3. item'[j].work = item[j].work \/ item'[j].work = NextWork
    BY <1>4, <2>1 DEF Create, TypeOK
  <2> QED
    BY <1>0, <2>2, <2>3
<1>5. ASSUME NEW i \in Items, NEW s \in Saves[i], NEW twin \in Works \union {None},
             NEW unsure \in BOOLEAN, NEW n \in 0 .. Len(s), CreateRaises(i, s, twin, n, unsure)
      PROVE item'[j].work = item[j].work
  BY <1>5 DEF CreateRaises, Failed, TypeOK
<1>12. ASSUME NEW i \in Items, NEW s \in Saves[i], NEW twin \in Works \union {None},
              NEW unsure \in BOOLEAN, PublishRaises(i, s, twin, unsure)
       PROVE work'[item'[j].work].status # "absent"
  <2>1. NextWork \in Works
    BY <1>12, NextWorkIs DEF PublishRaises, IsNew
  <2>2. work'[NextWork].status # "absent"
    BY <1>12, <2>1 DEF PublishRaises, TypeOK
  <2>3. item'[j].work = item[j].work \/ item'[j].work = NextWork
    BY <1>12, <2>1 DEF PublishRaises, Failed, TypeOK
  <2> QED
    BY <1>0, <2>2, <2>3
<1>6. ASSUME NEW i \in Items, NEW s \in Saves[i], NEW new \in SUBSET Fresh(s), RollBack(i, s, new)
      PROVE item'[j].work = item[j].work
  BY <1>6 DEF RollBack
<1>7. ASSUME NEW found \in SUBSET Items, RunDiscovery(found) PROVE item'[j].work = item[j].work
  BY <1>7 DEF RunDiscovery, TypeOK
<1>8. CASE RequeueFailed
  <2>1. item' = [i \in Items |-> IF i \in Retriable
                                 THEN [item[i] EXCEPT !.status = "queued", !.err = "none"] ELSE item[i]]
    BY <1>8 DEF RequeueFailed
  <2>2. item'[j].work = item[j].work
    BY <2>1 DEF TypeOK
  <2> QED
    BY <1>0, <2>2
<1>9. ASSUME NEW w \in Works, AdminPublish(w) \/ AdminHide(w) PROVE item'[j].work = item[j].work
  BY <1>9 DEF AdminPublish, AdminHide
<1>10. ASSUME NEW r \in reviews, AdminResolveReview(r) PROVE item'[j].work = item[j].work
  BY <1>10 DEF AdminResolveReview
<1>11. CASE UNCHANGED vars
  BY <1>0, <1>11 DEF vars
<1> QED
  BY <1>0, <1>1, <1>2, <1>3, <1>4, <1>5, <1>6, <1>7, <1>8, <1>9, <1>10, <1>11, <1>12 DEF Next, RunIngestItem

LEMMA GroundedAlways == Spec => [](TypeOK /\ Grounded)
<1>1. Init => Grounded
  BY KeysAssumption DEF Init, Grounded
<1>2. TypeOK /\ Grounded /\ [Next]_vars => Grounded'
  BY Kinds, FilesGrounded, ItemsGrounded DEF Grounded, Exists
<1> QED
  BY <1>1, <1>2, TypeCorrect, PTL DEF Spec

-----------------------------------------------------------------------------
(***************************************************************************)
(* The refinement: works and files move only as PublicCatalog allows.      *)
(***************************************************************************)
LEMMA HoldsAre ==
    ASSUME TypeOK, Grounded, NEW d \in Digests
    PROVE  /\ file[d] = None => Holds[d] = None
           /\ file[d] # None => Holds[d] = [work |-> file[d], item |-> provider[d], bytes |-> store[d]]
  BY DEF Holds

LEMMA ReceiveMaps ==
    ASSUME TypeOK, TypeOK', Grounded, NEW w \in Works, NEW i \in Items, NEW new \in SUBSET Digests,
           Received(w, i, new)
    PROVE  Public!Receive(w, i, new)
<1>1. \A d \in new : Holds[d] = None /\ Holds'[d] = [work |-> w, item |-> i, bytes |-> store'[d]]
  BY KeysAssumption DEF Received, Holds
<1>2. \A d \in Digests \ new : Holds'[d] = Holds[d]
  BY DEF Received, Holds
<1>3. \A d \in new : /\ Holds'[d] \in Public!Files
                     /\ Holds'[d].work = w /\ Holds'[d].item = i
  <2> SUFFICES ASSUME NEW d \in new
               PROVE  Holds'[d] \in Public!Files /\ Holds'[d].work = w /\ Holds'[d].item = i
    OBVIOUS
  <2>1. store'[d] \in Digests
    BY DEF Received
  <2>2. Holds'[d] = [work |-> w, item |-> i, bytes |-> store'[d]]
    BY <1>1
  <2> QED
    BY <2>1, <2>2 DEF Public!Files
<1>4. Holds' = [d \in Digests |-> IF d \in new THEN Holds'[d] ELSE Holds[d]]
  BY <1>2 DEF Holds
<1> QED
  BY <1>1, <1>3, <1>4 DEF Public!Receive

LEMMA StepMaps ==
    ASSUME TypeOK, TypeOK', Grounded, Kind
    PROVE  [Public!Next]_(Public!vars)
<1>0. \A w \in Works : (Status[w] = "absent") <=> ~Exists(w)
  BY DEF Status, Exists
<1>1. CASE Attaches
  <2>1. PICK w \in Works, i \in Items, new \in SUBSET Digests :
            Received(w, i, new) /\ Exists(w) /\ work' = work
    BY <1>1 DEF Attaches
  <2>2. Public!Acquire(w, i, new)
    BY <1>0, <2>1, ReceiveMaps DEF Public!Acquire, Status
  <2> QED
    BY <2>2 DEF Public!Next
<1>2. CASE MakesAny
  <2>1. PICK w \in Works, i \in Items, new \in SUBSET Digests, st \in {"draft", "published"} :
            Makes(w, i, new, st)
    BY <1>2 DEF MakesAny
  <2>2. Status' = [Status EXCEPT ![w] = st]
    BY <2>1 DEF Makes, Status, TypeOK
  <2>3. Public!Accession(w, i, new)
    BY <1>0, <2>1, <2>2, ReceiveMaps DEF Makes, Public!Accession
  <2> QED
    BY <2>3 DEF Public!Next
<1>3. CASE Decides
  <2>1. PICK w \in Works : (AdminPublish(w) \/ AdminHide(w)) /\ Exists(w)
    BY <1>3 DEF Decides
  <2>2. Holds' = Holds
    BY <2>1 DEF AdminPublish, AdminHide, Holds
  <2>3. CASE AdminPublish(w)
    <3>0. \A v \in Works : work'[v].status = IF v = w THEN "published" ELSE work[v].status
      BY <2>3 DEF AdminPublish, TypeOK
    <3>1. Status' = [Status EXCEPT ![w] = "published"]
      BY <3>0 DEF Status
    <3>2. Public!Publish(w)
      BY <1>0, <2>1, <2>2, <3>1 DEF Public!Publish
    <3> QED
      BY <3>2 DEF Public!Next
  <2>4. CASE AdminHide(w)
    <3>0. \A v \in Works : work'[v].status = IF v = w THEN "hidden" ELSE work[v].status
      BY <2>4 DEF AdminHide, TypeOK
    <3>1. Status' = [Status EXCEPT ![w] = "hidden"]
      BY <3>0 DEF Status
    <3>2. Public!Hide(w)
      BY <1>0, <2>1, <2>2, <3>1 DEF Public!Hide
    <3> QED
      BY <3>2 DEF Public!Next
  <2> QED
    BY <2>1, <2>3, <2>4
<1>4. CASE Leaves
  <2>1. Status' = Status
    BY <1>4 DEF Leaves, Status
  <2>2. Holds' = Holds
    BY <1>4 DEF Leaves, FilesKept, Holds, Grounded
  <2> QED
    BY <2>1, <2>2 DEF Public!vars
<1> QED
  BY <1>1, <1>2, <1>3, <1>4 DEF Kind

\* Runs of the pipeline (every outcome of run_ingest_item), requeues and the
\* librarian's actions do to works and files what PublicCatalog allows: nothing
\* becomes public by itself but a cleared item's work with a file, no work is
\* lost, and a file keeps its work, its item and its bytes.
THEOREM CatalogImplemented == Spec => ImplementsPublicCatalog
<1>1. Init => Public!Init
  BY DEF Init, Public!Init, Status, Holds
<1>2. TypeOK /\ TypeOK' /\ Grounded /\ [Next]_vars => [Public!Next]_(Public!vars)
  BY Kinds, StepMaps
<1> QED
  BY <1>1, <1>2, GroundedAlways, PTL DEF Spec, Public!Spec, ImplementsPublicCatalog

-----------------------------------------------------------------------------
(***************************************************************************)
(* Files are intact, when no two files of an item share a name.            *)
(***************************************************************************)
Intact == \A d \in Digests : store[d] # None => store[d] = d

\* Objects change by storage.put alone.
Puts == \E i \in Items : \E s \in Saves[i] : \E new : store' = Stored(i, s, new)

LEMMA StoreStep == ASSUME [Next]_vars PROVE store' = store \/ Puts
<1>1. ASSUME NEW i \in Items, RunIngestItem(i) PROVE store' = store \/ Puts
  <2>1. CASE Reject(i) \/ NothingSaved(i) \/ FetchRaises(i)
    BY <2>1 DEF Reject, NothingSaved, FetchRaises
  <2>2. ASSUME NEW s \in Saves[i], Duplicate(i, s) \/ DuplicateRaises(i, s) PROVE Puts
    BY <2>2 DEF Duplicate, Attach, DuplicateRaises, AddFiles, Puts
  <2>3. ASSUME NEW s \in Saves[i], NEW twin \in Works \union {None}, NEW unsure \in BOOLEAN,
               \/ Create(i, s, twin, unsure) \/ PublishRaises(i, s, twin, unsure)
               \/ \E n \in 0 .. Len(s) : CreateRaises(i, s, twin, n, unsure)
        PROVE Puts
    BY <2>3 DEF Create, CreateRaises, PublishRaises, AddFiles, Puts
  <2>4. ASSUME NEW s \in Saves[i], NEW new \in SUBSET Fresh(s), RollBack(i, s, new) PROVE Puts
    BY <2>4 DEF RollBack, Puts
  <2> QED
    BY <1>1, <2>1, <2>2, <2>3, <2>4 DEF RunIngestItem
<1>2. CASE ~\E i \in Items : RunIngestItem(i)
  BY <1>2 DEF Next, vars, RunDiscovery, RequeueFailed, AdminPublish, AdminHide, AdminResolveReview
<1> QED
  BY <1>1, <1>2

\* A file in the catalog can be served with the bytes its sha256 promises,
\* whatever was rolled back or retried (storage.put, _attach_missing_formats):
\* provided the names a connector gives to the files of one item are its own.
THEOREM IntactUnlessShared == SharedName = {} /\ Spec => []FilesAreIntact
<1> SUFFICES ASSUME SharedName = {} PROVE Spec => []FilesAreIntact
  OBVIOUS
<1>1. Init => Intact
  BY DEF Init, Intact
<1>2. Intact /\ [Next]_vars => Intact'
  <2> SUFFICES ASSUME Intact, [Next]_vars PROVE Intact'
    OBVIOUS
  <2>1. CASE store' = store
    BY <2>1 DEF Intact
  <2>2. ASSUME NEW i \in Items, NEW s \in Saves[i], NEW new, store' = Stored(i, s, new)
        PROVE  Intact'
    BY <2>2 DEF Intact, Stored, ContentOf
  <2> QED
    BY <2>1, <2>2, StoreStep DEF Puts
<1>3. Grounded /\ Intact => FilesAreIntact
  BY DEF Grounded, Intact, FilesAreIntact
<1> QED
  BY <1>1, <1>2, <1>3, GroundedAlways, PTL DEF Spec

-----------------------------------------------------------------------------
(***************************************************************************)
(* Items: what a step may do to one, and to its jobs.                      *)
(***************************************************************************)
Verdict(j) ==
    \/ item'[j] = item[j] /\ jobs'[j] >= jobs[j]
    \/ item'[j].status \in {"rejected", "failed"}
    \/ item'[j].status = "duplicate" /\ item'[j].work # None
    \/ /\ item'[j].status \in {"published", "requires_review", "quarantined"}
       /\ item'[j].work # None /\ work'[item'[j].work].origin = j /\ ~Exists(item'[j].work)
    \/ item'[j].status = "queued" /\ jobs'[j] > 0

LEMMA Verdicts ==
    ASSUME TypeOK, Grounded, [Next]_vars, NEW j \in Items
    PROVE  Verdict(j)
<1>0. jobs[j] \in Nat
  BY BoundsAssumption DEF TypeOK
<1>1. ASSUME NEW i \in Items, i # j, Return(i) \/ Raise(i)
      PROVE  jobs'[j] >= jobs[j]
  BY <1>0, <1>1 DEF Return, Raise, TypeOK
<1>2. ASSUME NEW i \in Items, Reject(i) PROVE Verdict(j)
  BY <1>1, <1>2 DEF Reject, TypeOK, Verdict
<1>3. ASSUME NEW i \in Items, NothingSaved(i) \/ FetchRaises(i) PROVE Verdict(j)
  <2>1. PICK err \in {"transient", "permanent"} : item' = Failed(i, err)
    BY <1>3 DEF NothingSaved, FetchRaises
  <2>2. IF i = j THEN item'[j].status = "failed" ELSE item'[j] = item[j]
    BY <2>1 DEF Failed, TypeOK
  <2> QED
    BY <1>1, <1>3, <2>2 DEF NothingSaved, FetchRaises, Verdict
<1>4. ASSUME NEW i \in Items, NEW s \in Saves[i], Duplicate(i, s) PROVE Verdict(j)
  <2>1. PICK w \in Originals(i, s) : Attach(i, w, s)
    BY <1>4 DEF Duplicate
  <2>2. w \in Works /\ w # None
    BY OriginalsExist, KeysAssumption
  <2>3. IF i = j THEN item'[j].status = "duplicate" /\ item'[j].work = w ELSE item'[j] = item[j]
    BY <2>1 DEF Attach, TypeOK
  <2> QED
    BY <1>1, <2>1, <2>2, <2>3 DEF Attach, Verdict
<1>5. ASSUME NEW i \in Items, NEW s \in Saves[i], DuplicateRaises(i, s) PROVE Verdict(j)
  <2>1. IF i = j THEN item'[j].status = "failed" ELSE item'[j] = item[j]
    BY <1>5 DEF DuplicateRaises, Failed, TypeOK
  <2> QED
    BY <1>1, <1>5, <2>1 DEF DuplicateRaises, Verdict
<1>6. ASSUME NEW i \in Items, NEW s \in Saves[i], NEW twin \in Works \union {None},
             NEW unsure \in BOOLEAN, Create(i, s, twin, unsure)
      PROVE Verdict(j)
  <2>1. NextWork \in Works /\ NextWork # None /\ ~Exists(NextWork)
    BY <1>6, NextWorkIs, KeysAssumption DEF Create, IsNew
  <2>2. work'[NextWork].origin = i
    BY <1>6, <2>1 DEF Create, TypeOK
  <2>3. IF i = j THEN /\ item'[j].status \in {"published", "requires_review", "quarantined"}
                      /\ item'[j].work = NextWork
                 ELSE item'[j] = item[j]
    BY <1>6 DEF Create, TypeOK
  <2> QED
    BY <1>1, <1>6, <2>1, <2>2, <2>3 DEF Create, Verdict
<1>7. ASSUME NEW i \in Items, NEW s \in Saves[i], NEW twin \in Works \union {None},
             NEW unsure \in BOOLEAN, NEW n \in 0 .. Len(s), CreateRaises(i, s, twin, n, unsure)
      PROVE Verdict(j)
  <2>1. IF i = j THEN item'[j].status = "failed" ELSE item'[j] = item[j]
    BY <1>7 DEF CreateRaises, Failed, TypeOK
  <2> QED
    BY <1>1, <1>7, <2>1 DEF CreateRaises, Verdict
<1>14. ASSUME NEW i \in Items, NEW s \in Saves[i], NEW twin \in Works \union {None},
              NEW unsure \in BOOLEAN, PublishRaises(i, s, twin, unsure)
       PROVE Verdict(j)
  <2>1. IF i = j THEN item'[j].status = "failed" ELSE item'[j] = item[j]
    BY <1>14 DEF PublishRaises, Failed, TypeOK
  <2> QED
    BY <1>1, <1>14, <2>1 DEF PublishRaises, Verdict
<1>8. ASSUME NEW i \in Items, NEW s \in Saves[i], NEW new \in SUBSET Fresh(s), RollBack(i, s, new)
      PROVE Verdict(j)
  BY <1>0, <1>8 DEF RollBack, Verdict
<1>9. ASSUME NEW found \in SUBSET Items, RunDiscovery(found) PROVE Verdict(j)
  <2>1. IF j \in found THEN item'[j].status = "queued" /\ jobs'[j] = jobs[j] + 1
                       ELSE item'[j] = item[j] /\ jobs'[j] = jobs[j]
    BY <1>9 DEF RunDiscovery, TypeOK
  <2> QED
    BY <1>0, <2>1 DEF Verdict
<1>10. CASE RequeueFailed
  <2>1. /\ item' = [i \in Items |-> IF i \in Retriable
                                    THEN [item[i] EXCEPT !.status = "queued", !.err = "none"] ELSE item[i]]
        /\ jobs' = [i \in Items |-> IF i \in Retriable THEN jobs[i] + 1 ELSE jobs[i]]
    BY <1>10 DEF RequeueFailed
  <2>2. IF j \in Retriable THEN item'[j].status = "queued" /\ jobs'[j] = jobs[j] + 1
                           ELSE item'[j] = item[j] /\ jobs'[j] = jobs[j]
    BY <2>1 DEF TypeOK
  <2> QED
    BY <1>0, <2>2 DEF Verdict
<1>11. ASSUME NEW w \in Works, AdminPublish(w) \/ AdminHide(w) PROVE Verdict(j)
  BY <1>0, <1>11 DEF AdminPublish, AdminHide, Verdict
<1>12. ASSUME NEW r \in reviews, AdminResolveReview(r) PROVE Verdict(j)
  BY <1>0, <1>12 DEF AdminResolveReview, Verdict
<1>13. CASE UNCHANGED vars
  BY <1>0, <1>13 DEF vars, Verdict
<1> QED
  BY <1>2, <1>3, <1>4, <1>5, <1>6, <1>7, <1>8, <1>9, <1>10, <1>11, <1>12, <1>13, <1>14 DEF Next, RunIngestItem

\* An item waiting to be ingested has a job, and a verdict points to the work it
\* speaks of, whatever was retried, requeued or run twice (run_ingest_item,
\* requeue_failed).
THEOREM VerdictsAreTrue == Spec => []ItemsAreTrue
<1>1. Init => ItemsAreTrue
  BY DEF Init, ItemsAreTrue
<1>2. TypeOK /\ TypeOK' /\ Grounded /\ Grounded' /\ ItemsAreTrue /\ [Next]_vars => ItemsAreTrue'
  <2> SUFFICES ASSUME TypeOK, TypeOK', Grounded, Grounded', ItemsAreTrue, [Next]_vars, NEW j \in Items
               PROVE  /\ item'[j].status = "queued" => jobs'[j] > 0
                      /\ item'[j].status \in {"published", "requires_review", "quarantined"} =>
                             item'[j].work # None /\ work'[item'[j].work].origin = j
                      /\ item'[j].status = "duplicate" =>
                             item'[j].work # None /\ work'[item'[j].work].status # "absent"
    BY DEF ItemsAreTrue, Exists
  <2>1. item'[j].work # None => work'[item'[j].work].status # "absent"
    BY DEF Grounded, Exists
  <2>2. jobs[j] \in Nat /\ jobs'[j] \in Nat
    BY BoundsAssumption DEF TypeOK
  <2>3. CASE item'[j] = item[j] /\ jobs'[j] >= jobs[j]
    <3>1. item[j].work # None => /\ item[j].work \in Works /\ Exists(item[j].work)
      BY DEF TypeOK, Grounded
    <3>2. item[j].work # None => work'[item[j].work].origin = work[item[j].work].origin
      BY <3>1, Kinds, WorksStay
    <3> QED
      BY <2>1, <2>2, <2>3, <3>2 DEF ItemsAreTrue
  <2>4. CASE ~(item'[j] = item[j] /\ jobs'[j] >= jobs[j])
    BY <2>1, <2>4, Verdicts DEF Verdict
  <2> QED
    BY <2>3, <2>4
<1> QED
  BY <1>1, <1>2, TypeCorrect, GroundedAlways, PTL DEF Spec

-----------------------------------------------------------------------------
(***************************************************************************)
(* What is public is justified.                                            *)
(***************************************************************************)
Justified ==
    \A w \in Works : work[w].status = "published" =>
        w \in approved \/ (Rights[work[w].origin] = "auto" /\ \E d \in Digests : file[d] = w)

\* A work that is public but not searchable was made by a run that raised.
Searchable ==
    \A w \in Works : work[w].status = "published" =>
        w \in index \/ (faults > 0 /\ work[w].origin \in Items /\ ~Reported(w))

LEMMA FilesStayWithWork ==
    ASSUME TypeOK, Grounded, Kind, NEW d \in Digests, file[d] # None
    PROVE  file'[d] = file[d]
  BY DEF Kind, Attaches, MakesAny, Makes, Decides, Leaves, FilesKept, Received, AdminPublish, AdminHide

LEMMA JustifiedStep ==
    ASSUME TypeOK, Grounded, Kind, Justified
    PROVE  Justified'
<1> SUFFICES ASSUME NEW v \in Works, work'[v].status = "published"
             PROVE  \/ v \in approved'
                    \/ Rights[work'[v].origin] = "auto" /\ \E d \in Digests : file'[d] = v
  BY DEF Justified
<1>1. ASSUME work'[v] = work[v], approved \subseteq approved'
      PROVE  \/ v \in approved'
             \/ Rights[work'[v].origin] = "auto" /\ \E d \in Digests : file'[d] = v
  BY <1>1, FilesStayWithWork, KeysAssumption DEF Justified
<1>2. CASE Attaches \/ Leaves
  BY <1>1, <1>2 DEF Attaches, Leaves
<1>3. CASE MakesAny
  <2>1. PICK w \in Works, i \in Items, new \in SUBSET Digests, st \in {"draft", "published"} :
            Makes(w, i, new, st)
    BY <1>3 DEF MakesAny
  <2>2. CASE v # w
    <3>1. work'[v] = work[v]
      BY <2>1, <2>2 DEF Makes, TypeOK
    <3> QED
      BY <1>1, <2>1, <3>1 DEF Makes
  <2>3. CASE v = w
    <3>1. work'[v] = [status |-> st, origin |-> i]
      BY <2>1, <2>3 DEF Makes, TypeOK
    <3>2. Publishable(i) /\ new # {}
      BY <2>1, <3>1 DEF Makes
    <3>3. PICK d \in new : file'[d] = w
      BY <2>1, <3>2 DEF Makes, Received
    <3> QED
      BY <2>3, <3>1, <3>2, <3>3 DEF Publishable
  <2> QED
    BY <2>2, <2>3
<1>4. CASE Decides
  <2>1. PICK w \in Works : AdminPublish(w) \/ AdminHide(w)
    BY <1>4 DEF Decides
  <2>2. CASE v = w
    BY <2>1, <2>2 DEF AdminPublish, AdminHide, TypeOK
  <2>3. CASE v # w
    <3>1. work'[v] = work[v]
      BY <2>1, <2>3 DEF AdminPublish, AdminHide, TypeOK
    <3> QED
      BY <1>1, <2>1, <3>1 DEF AdminPublish, AdminHide
  <2> QED
    BY <2>2, <2>3
<1> QED
  BY <1>2, <1>3, <1>4 DEF Kind

\* A work that a step makes public is searchable then, unless the step raised
\* and the work's item failed.
LEMMA MadePublic ==
    ASSUME TypeOK, [Next]_vars, NEW w \in Works, work[w].status # "published", work'[w].status = "published"
    PROVE  w \in index' \/ (faults' > 0 /\ \E i \in Items : work'[w].origin = i /\ item'[i].status = "failed")
<1>1. ASSUME work' = work PROVE FALSE
  BY <1>1
<1>2. ASSUME NEW i \in Items, RunIngestItem(i)
      PROVE  w \in index' \/ (faults' > 0 /\ work'[w].origin = i /\ item'[i].status = "failed")
  <2>1. CASE Reject(i) \/ NothingSaved(i) \/ FetchRaises(i)
    BY <1>1, <2>1 DEF Reject, NothingSaved, FetchRaises, catalog
  <2>2. ASSUME NEW s \in Saves[i], Duplicate(i, s) \/ DuplicateRaises(i, s) PROVE FALSE
    BY <1>1, <2>2 DEF Duplicate, DuplicateRaises
  <2>3. ASSUME NEW s \in Saves[i], NEW new \in SUBSET Fresh(s), RollBack(i, s, new) PROVE FALSE
    BY <1>1, <2>3 DEF RollBack, catalog
  <2>4. ASSUME NEW s \in Saves[i], NEW twin \in Works \union {None}, NEW unsure \in BOOLEAN,
               Create(i, s, twin, unsure)
        PROVE  w \in index'
    BY <2>4 DEF Create, TypeOK
  <2>5. ASSUME NEW s \in Saves[i], NEW twin \in Works \union {None}, NEW unsure \in BOOLEAN,
               NEW n \in 0 .. Len(s), CreateRaises(i, s, twin, n, unsure)
        PROVE  FALSE
    BY <2>5 DEF CreateRaises, TypeOK
  <2>6. ASSUME NEW s \in Saves[i], NEW twin \in Works \union {None}, NEW unsure \in BOOLEAN,
               PublishRaises(i, s, twin, unsure)
        PROVE  faults' > 0 /\ work'[w].origin = i /\ item'[i].status = "failed"
    <3>1. w = NextWork /\ work'[w].origin = i
      BY <2>6 DEF PublishRaises, TypeOK
    <3>2. item'[i].status = "failed"
      BY <2>6 DEF PublishRaises, Failed, TypeOK
    <3>3. faults \in Nat /\ faults' = faults + 1
      BY <2>6, BoundsAssumption DEF PublishRaises, Raise, TypeOK
    <3> QED
      BY <3>1, <3>2, <3>3
  <2> QED
    BY <1>2, <2>1, <2>2, <2>3, <2>4, <2>5, <2>6 DEF RunIngestItem
<1>3. ASSUME NEW v \in Works, AdminPublish(v) \/ AdminHide(v) PROVE w \in index'
  BY <1>3 DEF AdminPublish, AdminHide, TypeOK
<1>4. CASE (\E found \in SUBSET Items : RunDiscovery(found)) \/ RequeueFailed
           \/ (\E r \in reviews : AdminResolveReview(r)) \/ UNCHANGED vars
  BY <1>1, <1>4 DEF RunDiscovery, RequeueFailed, AdminResolveReview, vars, catalog
<1> QED
  BY <1>2, <1>3, <1>4 DEF Next

LEMMA FaultsCount == ASSUME TypeOK, [Next]_vars PROVE faults \in Nat /\ faults' \in {faults, faults + 1}
<1>1. faults \in Nat
  BY BoundsAssumption DEF TypeOK
<1>2. ASSUME NEW i \in Items, RunIngestItem(i) PROVE faults' = faults \/ faults' = faults + 1
  BY <1>2 DEF RunIngestItem, Reject, NothingSaved, FetchRaises, Duplicate, Attach, DuplicateRaises,
      Create, PublishRaises, CreateRaises, RollBack, Return, Raise
<1>3. ASSUME ~\E i \in Items : RunIngestItem(i) PROVE faults' = faults
  BY <1>3 DEF Next, vars, RunDiscovery, RequeueFailed, AdminPublish, AdminHide, AdminResolveReview
<1> QED
  BY <1>1, <1>2, <1>3

LEMMA SearchableStep ==
    ASSUME TypeOK, Grounded, [Next]_vars, Kind, Searchable
    PROVE  Searchable'
<1> SUFFICES ASSUME NEW w \in Works, work'[w].status = "published", w \notin index'
             PROVE  faults' > 0 /\ work'[w].origin \in Items /\ ~Reported(w)'
  BY DEF Searchable
<1>1. index \subseteq index'
  BY DEF Kind, Attaches, MakesAny, Makes, Decides, Leaves, AdminPublish, AdminHide
<1>2. CASE work[w].status = "published"
  <2>1. faults > 0 /\ work[w].origin \in Items /\ ~Reported(w) /\ Exists(w)
    BY <1>1, <1>2 DEF Searchable, Exists
  <2>2. work'[w].origin = work[w].origin
    BY <2>1, WorksStay
  <2> DEFINE i == work[w].origin
  <2>3. ASSUME Reported(w)' PROVE FALSE
    <3>1. item'[i].work = w /\ item'[i].status \in {"published", "requires_review"}
      BY <2>2, <2>3 DEF Reported
    <3>2. item'[i] = item[i]
      BY <2>1, <3>1, Verdicts DEF Verdict
    <3> QED
      BY <2>1, <3>1, <3>2 DEF Reported
  <2>4. faults' > 0
    BY <2>1, FaultsCount
  <2> QED
    BY <2>1, <2>2, <2>3, <2>4
<1>3. CASE work[w].status # "published"
  <2>1. faults' > 0 /\ \E i \in Items : work'[w].origin = i /\ item'[i].status = "failed"
    BY <1>3, MadePublic
  <2> QED
    BY <2>1 DEF Reported
<1> QED
  BY <1>2, <1>3

\* What the public sees is, unless an admin published it, from an item with
\* clear rights and with a file, and it is searchable, unless a run raised while
\* it indexed the work and its item is not reported as published; no file is
\* lost and no item points to a work that is not there (run_ingest_item,
\* admin_publish, and the audits of quality.py).
THEOREM PublicationIsSound == Spec => []PublishedIsSound
<1>1. Init => Justified /\ Searchable
  BY DEF Init, Justified, Searchable
<1>2. TypeOK /\ Grounded /\ Justified /\ Searchable /\ [Next]_vars => Justified' /\ Searchable'
  BY Kinds, JustifiedStep, SearchableStep
<1>3. Grounded /\ Justified /\ Searchable => PublishedIsSound
  BY DEF Grounded, Justified, Searchable, PublishedIsSound, WorksWithoutFiles, MissingStorageFiles,
      OrphanSourceItems, FilesOf
<1> QED
  BY <1>1, <1>2, <1>3, GroundedAlways, PTL DEF Spec

-----------------------------------------------------------------------------
(***************************************************************************)
(* While nothing raises, crashes or is decided by hand, an item has at     *)
(* most one job and is queued when it has one, so a run finds no work made *)
(* from its item; and of two works alike the later one was put up for      *)
(* review.                                                                 *)
(***************************************************************************)
Ingested == {"published", "requires_review", "quarantined"}

Quarantined(w) ==
    /\ item[work[w].origin].status = "quarantined"
    /\ [kind |-> "rights", item |-> work[w].origin, work |-> w] \in reviews

\* Two works of one title and author, with a review that says so.
Alike(v, w) == v # w /\ Exists(v) /\ Exists(w) /\ Title[work[v].origin] = Title[work[w].origin]
Doubted(v, w) == \E r \in reviews : r.kind = "duplicate" /\ r.item \in {work[v].origin, work[w].origin}

Whole ==
    /\ \A i \in Items : jobs[i] = IF item[i].status = "queued" THEN 1 ELSE 0
    /\ \A w \in Works : IF Exists(w) THEN work[w].origin \in Items /\ item[work[w].origin].status \in Ingested
                                     ELSE work[w].origin = None
    /\ \A w \in Works : work[w].status = "draft" => Quarantined(w)
    /\ \A v, w \in Works : Exists(v) /\ work[v].origin = work[w].origin => v = w
    /\ \A v, w \in Works : Alike(v, w) => Doubted(v, w)

WholeUnlessFaulty == faults = 0 /\ Librarian = {} => Whole

\* An item whose verdict makes no work.
LEMMA VerdictIsWhole ==
    ASSUME TypeOK, Whole, NEW i \in Items, jobs[i] > 0, Return(i), UNCHANGED <<work, reviews>>,
           item'[i].status # "queued", \A j \in Items : j # i => item'[j] = item[j]
    PROVE  Whole'
<1>1. item[i].status = "queued" /\ jobs[i] = 1
  <2>1. jobs[i] = IF item[i].status = "queued" THEN 1 ELSE 0
    BY DEF Whole
  <2> QED  BY <2>1
<1>2. \A j \in Items : jobs'[j] = IF item'[j].status = "queued" THEN 1 ELSE 0
  BY <1>1 DEF Return, TypeOK, Whole
<1>3. \A w \in Works : Exists(w) => work[w].origin \in Items /\ work[w].origin # i
  BY <1>1 DEF Whole, Ingested
<1>4. \A w \in Works : Exists(w) => item'[work[w].origin] = item[work[w].origin]
  BY <1>3
<1>5. \A w \in Works : Quarantined(w) /\ work[w].status = "draft" => Quarantined(w)'
  BY <1>4 DEF Quarantined, Exists
<1>6. \A v, w \in Works : Alike(v, w)' = Alike(v, w) /\ Doubted(v, w)' = Doubted(v, w)
  BY DEF Alike, Doubted, Exists
<1> QED
  BY <1>2, <1>3, <1>4, <1>5, <1>6 DEF Whole, Exists

\* Items that are queued again, or for the first time.
LEMMA QueueIsWhole ==
    ASSUME TypeOK, Whole, NEW again \in SUBSET Items, UNCHANGED <<work, reviews>>,
           \A j \in again : item[j].status \in {"unknown", "failed"} /\ item'[j].status = "queued",
           \A j \in Items \ again : item'[j] = item[j],
           \A j \in Items : jobs'[j] = IF j \in again THEN jobs[j] + 1 ELSE jobs[j]
    PROVE  Whole'
<1>1. \A j \in Items : jobs'[j] = IF item'[j].status = "queued" THEN 1 ELSE 0
  <2> SUFFICES ASSUME NEW j \in Items PROVE jobs'[j] = IF item'[j].status = "queued" THEN 1 ELSE 0
    OBVIOUS
  <2>1. jobs[j] = IF item[j].status = "queued" THEN 1 ELSE 0
    BY DEF Whole
  <2> QED  BY <2>1
<1>2. \A w \in Works : Exists(w) => work[w].origin \in Items /\ work[w].origin \notin again
  BY DEF Whole, Ingested
<1>3. \A w \in Works : Exists(w) => item'[work[w].origin] = item[work[w].origin]
  BY <1>2
<1>4. \A w \in Works : Quarantined(w) /\ work[w].status = "draft" => Quarantined(w)'
  BY <1>3 DEF Quarantined, Exists
<1>5. \A v, w \in Works : Alike(v, w)' = Alike(v, w) /\ Doubted(v, w)' = Doubted(v, w)
  BY DEF Alike, Doubted, Exists
<1> QED
  BY <1>1, <1>2, <1>3, <1>4, <1>5 DEF Whole, Exists

LEMMA RequeueChanges ==
    ASSUME TypeOK, RequeueFailed
    PROVE  /\ Retriable \in SUBSET Items /\ UNCHANGED <<work, reviews, faults>>
           /\ \A j \in Retriable : item[j].status = "failed" /\ item'[j].status = "queued"
           /\ \A j \in Items \ Retriable : item'[j] = item[j]
           /\ \A j \in Items : jobs'[j] = IF j \in Retriable THEN jobs[j] + 1 ELSE jobs[j]
<1>1. /\ item' = [i \in Items |-> IF i \in Retriable
                                  THEN [item[i] EXCEPT !.status = "queued", !.err = "none"] ELSE item[i]]
      /\ jobs' = [i \in Items |-> IF i \in Retriable THEN jobs[i] + 1 ELSE jobs[i]]
  BY DEF RequeueFailed
<1>2. UNCHANGED <<work, reviews, faults>>
  BY DEF RequeueFailed, catalog
<1>3. Retriable \in SUBSET Items /\ \A j \in Retriable : item[j].status = "failed"
  BY DEF Retriable, Window
<1>4. ASSUME NEW j \in Retriable PROVE item'[j].status = "queued"
  <2>1. j \in Items /\ item'[j] = [item[j] EXCEPT !.status = "queued", !.err = "none"]
    BY <1>1, <1>3
  <2>2. item[j] \in [status : ItemStatuses, work : Works \union {None}, err : {"none", "transient", "permanent"}]
    BY <2>1 DEF TypeOK
  <2> QED
    BY <2>1, <2>2
<1> QED
  BY <1>1, <1>2, <1>3, <1>4

\* A new work: its item had none, and if another is like it, the item is put up
\* for review.
LEMMA CreateIsWhole ==
    ASSUME TypeOK, Whole, NEW i \in Items, NEW s \in Saves[i], NEW twin \in Works \union {None},
           NEW unsure \in BOOLEAN, Create(i, s, twin, unsure)
    PROVE  Whole'
<1>1. jobs[i] > 0 /\ Return(i)
  BY DEF Create, IsNew
<1>2. item[i].status = "queued" /\ jobs[i] = 1
  <2>1. jobs[i] = IF item[i].status = "queued" THEN 1 ELSE 0
    BY DEF Whole
  <2> QED  BY <1>1, <2>1
<1>3. NextWork \in Works /\ ~Exists(NextWork)
  BY NextWorkIs DEF Create, IsNew
<1>4. /\ item'[i].status = IF ~Publishable(i) THEN "quarantined" ELSE IF unsure THEN "requires_review" ELSE "published"
      /\ \A j \in Items : j # i => item'[j] = item[j]
  BY DEF Create, TypeOK
<1>5. /\ work'[NextWork] = [status |-> IF Publishable(i) THEN "published" ELSE "draft", origin |-> i]
      /\ \A w \in Works : w # NextWork => work'[w] = work[w]
  BY <1>3 DEF Create, TypeOK
<1>6. /\ reviews \subseteq reviews'
      /\ ~Publishable(i) => [kind |-> "rights", item |-> i, work |-> NextWork] \in reviews'
      /\ twin # None => [kind |-> "duplicate", item |-> i, work |-> twin] \in reviews'
  <2>1. reviews' = reviews \union Doubts(i, twin, unsure) \union RightsReview(i)
    BY DEF Create
  <2>2. ~Publishable(i) => [kind |-> "rights", item |-> i, work |-> NextWork] \in RightsReview(i)
    BY DEF RightsReview
  <2>3. twin # None => [kind |-> "duplicate", item |-> i, work |-> twin] \in Doubts(i, twin, unsure)
    BY DEF Doubts
  <2> QED  BY <2>1, <2>2, <2>3
<1>7. \A w \in Works : Exists(w) => /\ w # NextWork /\ work[w].origin \in Items /\ work[w].origin # i
                                    /\ work'[w] = work[w] /\ item'[work[w].origin] = item[work[w].origin]
  BY <1>2, <1>3, <1>4, <1>5 DEF Whole, Ingested
<1>8. \A w \in Works : w # NextWork => (Exists(w)' <=> Exists(w))
  BY <1>5 DEF Exists
<1>9. work'[NextWork].status # "absent" /\ work'[NextWork].origin = i
  BY <1>5
<1>10. \A j \in Items : jobs'[j] = IF item'[j].status = "queued" THEN 1 ELSE 0
  <2> SUFFICES ASSUME NEW j \in Items PROVE jobs'[j] = IF item'[j].status = "queued" THEN 1 ELSE 0
    OBVIOUS
  <2>1. CASE j = i
    BY <1>1, <1>2, <1>4, <2>1 DEF Return, TypeOK
  <2>2. CASE j # i
    BY <1>1, <1>4, <2>2 DEF Return, TypeOK, Whole
  <2> QED  BY <2>1, <2>2
<1>11. ASSUME NEW w \in Works
       PROVE  IF Exists(w)' THEN work'[w].origin \in Items /\ item'[work'[w].origin].status \in Ingested
                            ELSE work'[w].origin = None
  <2>1. CASE w = NextWork
    BY <1>4, <1>9, <2>1 DEF Ingested, Exists
  <2>2. CASE w # NextWork
    BY <1>5, <1>7, <1>8, <2>2 DEF Whole
  <2> QED  BY <2>1, <2>2
<1>12. ASSUME NEW w \in Works, work'[w].status = "draft" PROVE Quarantined(w)'
  <2>1. CASE w = NextWork
    <3>1. ~Publishable(i)
      BY <1>5, <1>12, <2>1
    <3> QED  BY <1>4, <1>6, <1>9, <2>1, <3>1 DEF Quarantined
  <2>2. CASE w # NextWork
    <3>1. work[w].status = "draft" /\ Quarantined(w) /\ Exists(w)
      BY <1>5, <1>12, <2>2 DEF Whole, Exists
    <3> QED  BY <1>6, <1>7, <3>1 DEF Quarantined
  <2> QED  BY <2>1, <2>2
<1>13. ASSUME NEW v \in Works, NEW w \in Works, Exists(v)', work'[v].origin = work'[w].origin PROVE v = w
  <2>1. i # None
    BY KeysAssumption
  <2>2. \A u \in Works : u # NextWork => work'[u].origin # i
    BY <1>5, <1>7, <2>1 DEF Whole
  <2>3. CASE v = NextWork \/ w = NextWork
    BY <1>9, <1>13, <2>2, <2>3
  <2>4. CASE v # NextWork /\ w # NextWork
    BY <1>5, <1>8, <1>13, <2>4 DEF Whole
  <2> QED  BY <2>3, <2>4
<1>14. ASSUME NEW v \in Works, NEW w \in Works, Alike(v, w)' PROVE Doubted(v, w)'
  <2>1. ASSUME NEW u \in Works, u # NextWork, Exists(u)', Title[work'[u].origin] = Title[i]
        PROVE  [kind |-> "duplicate", item |-> i, work |-> twin] \in reviews'
    <3>1. u \in Twins(i)
      BY <1>5, <1>8, <2>1 DEF Twins
    <3>2. twin \in Works
      BY <3>1 DEF Create, IsNew, Twins
    <3> QED  BY <1>6, <3>2, KeysAssumption
  <2>2. CASE v = NextWork \/ w = NextWork
    <3>1. [kind |-> "duplicate", item |-> i, work |-> twin] \in reviews'
      BY <1>9, <1>14, <2>1, <2>2 DEF Alike
    <3>2. i \in {work'[v].origin, work'[w].origin}
      BY <1>9, <2>2
    <3> QED  BY <3>1, <3>2 DEF Doubted
  <2>3. CASE v # NextWork /\ w # NextWork
    <3>1. Alike(v, w)
      BY <1>5, <1>8, <1>14, <2>3 DEF Alike
    <3>2. Doubted(v, w)
      BY <3>1 DEF Whole
    <3> QED  BY <1>5, <1>6, <2>3, <3>2 DEF Doubted
  <2> QED  BY <2>2, <2>3
<1> QED
  BY <1>10, <1>11, <1>12, <1>13, <1>14 DEF Whole

LEMMA WholeStep == ASSUME TypeOK, WholeUnlessFaulty, [Next]_vars PROVE WholeUnlessFaulty'
<1> SUFFICES ASSUME faults' = 0, Librarian = {} PROVE Whole'
  BY DEF WholeUnlessFaulty
<1>1. faults \in Nat
  BY BoundsAssumption DEF TypeOK
<1>2. ASSUME NEW i \in Items, Raise(i) PROVE FALSE
  BY <1>1, <1>2 DEF Raise
<1>3. ASSUME faults = 0 PROVE Whole
  BY <1>3 DEF WholeUnlessFaulty
<1>4. ASSUME NEW i \in Items, Reject(i) PROVE Whole'
  <2>1. Whole
    BY <1>3, <1>4 DEF Reject, Return
  <2> QED
    BY <1>4, <2>1, VerdictIsWhole DEF Reject, TypeOK, catalog
<1>5. ASSUME NEW i \in Items, NothingSaved(i) PROVE Whole'
  <2>1. Whole
    BY <1>3, <1>5 DEF NothingSaved, Return
  <2>2. item'[i].status = "failed" /\ \A j \in Items : j # i => item'[j] = item[j]
    BY <1>5 DEF NothingSaved, Failed, TypeOK
  <2> QED
    BY <1>5, <2>1, <2>2, VerdictIsWhole DEF NothingSaved, catalog
<1>6. ASSUME NEW i \in Items, FetchRaises(i) PROVE Whole'
  BY <1>2, <1>6 DEF FetchRaises
<1>7. ASSUME NEW i \in Items, NEW s \in Saves[i], Duplicate(i, s) PROVE Whole'
  <2>1. PICK w \in Originals(i, s) : Attach(i, w, s)
    BY <1>7 DEF Duplicate
  <2>2. Whole
    BY <1>3, <2>1 DEF Attach, Return
  <2>3. item'[i].status = "duplicate" /\ \A j \in Items : j # i => item'[j] = item[j]
    BY <2>1 DEF Attach, TypeOK
  <2> QED
    BY <1>7, <2>1, <2>2, <2>3, VerdictIsWhole DEF Duplicate, Attach
<1>8. ASSUME NEW i \in Items, NEW s \in Saves[i], DuplicateRaises(i, s) PROVE Whole'
  BY <1>2, <1>8 DEF DuplicateRaises
<1>9. ASSUME NEW i \in Items, NEW s \in Saves[i], NEW twin \in Works \union {None},
             NEW unsure \in BOOLEAN, Create(i, s, twin, unsure)
      PROVE Whole'
  <2>1. Whole
    BY <1>3, <1>9 DEF Create, Return
  <2> QED
    BY <1>9, <2>1, CreateIsWhole
<1>10. ASSUME NEW i \in Items, NEW s \in Saves[i], NEW twin \in Works \union {None},
              NEW unsure \in BOOLEAN, NEW n \in 0 .. Len(s), CreateRaises(i, s, twin, n, unsure)
       PROVE Whole'
  BY <1>2, <1>10 DEF CreateRaises
<1>18. ASSUME NEW i \in Items, NEW s \in Saves[i], NEW twin \in Works \union {None},
              NEW unsure \in BOOLEAN, PublishRaises(i, s, twin, unsure)
       PROVE Whole'
  BY <1>2, <1>18 DEF PublishRaises
<1>11. ASSUME UNCHANGED <<item, jobs, work, reviews, faults>> PROVE Whole'
  <2>1. Whole
    BY <1>3, <1>11
  <2> QED
    BY <1>11, <2>1 DEF Whole, Exists, Quarantined, Alike, Doubted
<1>12. ASSUME NEW i \in Items, NEW s \in Saves[i], NEW new \in SUBSET Fresh(s), RollBack(i, s, new)
       PROVE Whole'
  <2>1. faults' = faults
    BY <1>1, <1>12 DEF RollBack
  <2> QED
    BY <1>11, <1>12, <2>1 DEF RollBack, catalog
<1>13. ASSUME NEW found \in SUBSET Items, RunDiscovery(found) PROVE Whole'
  <2>1. Whole /\ UNCHANGED <<work, reviews>>
    BY <1>3, <1>13 DEF RunDiscovery, catalog
  <2>2. \A j \in found : item[j].status = "unknown" /\ item'[j].status = "queued"
    BY <1>13 DEF RunDiscovery, Undiscovered, TypeOK
  <2>3. \A j \in Items \ found : item'[j] = item[j]
    BY <1>13 DEF RunDiscovery
  <2>4. \A j \in Items : jobs'[j] = IF j \in found THEN jobs[j] + 1 ELSE jobs[j]
    BY <1>13 DEF RunDiscovery
  <2> QED
    BY <2>1, <2>2, <2>3, <2>4, QueueIsWhole
<1>14. CASE RequeueFailed
  <2>1. Whole
    BY <1>3, <1>14, RequeueChanges
  <2> QED
    BY <1>14, <2>1, RequeueChanges, QueueIsWhole
<1>15. ASSUME NEW w \in Works, AdminPublish(w) \/ AdminHide(w) PROVE Whole'
  BY <1>15 DEF AdminPublish, AdminHide
<1>16. ASSUME NEW r \in reviews, AdminResolveReview(r) PROVE Whole'
  BY <1>16 DEF AdminResolveReview
<1>17. CASE UNCHANGED vars
  BY <1>11, <1>17 DEF vars, catalog
<1> QED
  BY <1>4, <1>5, <1>6, <1>7, <1>8, <1>9, <1>10, <1>12, <1>13, <1>14, <1>15, <1>16, <1>17, <1>18
     DEF Next, RunIngestItem

\* As long as nothing raises, crashes or is decided by hand, drafts are in
\* quarantine with a review, no item is made twice or its own duplicate, and of
\* two public works alike one is up for review (NothingHalfMade).
THEOREM WorksAreWhole == Spec => []NothingHalfMade
<1>1. Init => WholeUnlessFaulty
  BY DEF Init, WholeUnlessFaulty, Whole, Exists, Alike
<1>2. TypeOK /\ WholeUnlessFaulty /\ [Next]_vars => WholeUnlessFaulty'
  BY WholeStep
<1>3. TypeOK /\ ItemsAreTrue /\ WholeUnlessFaulty => NothingHalfMade
  <2> SUFFICES ASSUME TypeOK, ItemsAreTrue, Whole
               PROVE  /\ \A w \in Works : work[w].status = "draft" => Quarantined(w)
                      /\ \A v, w \in Works : Exists(v) /\ work[v].origin = work[w].origin => v = w
                      /\ \A i \in Items : item[i].status = "duplicate" => work[item[i].work].origin # i
                      /\ \A p \in DuplicateTitleAuthor : Doubted(p[1], p[2])
    BY DEF NothingHalfMade, WholeUnlessFaulty, Quarantined, Doubted
  <2>1. ASSUME NEW i \in Items, item[i].status = "duplicate" PROVE work[item[i].work].origin # i
    <3>1. item[i].work \in Works /\ Exists(item[i].work)
      BY <2>1 DEF ItemsAreTrue, Exists, TypeOK
    <3>2. item[work[item[i].work].origin].status \in Ingested
      BY <3>1 DEF Whole
    <3> QED  BY <2>1, <3>2 DEF Ingested
  <2>2. \A p \in DuplicateTitleAuthor : Alike(p[1], p[2]) /\ p[1] \in Works /\ p[2] \in Works
    BY DEF DuplicateTitleAuthor, Alike, Exists
  <2> QED  BY <2>1, <2>2 DEF Whole
<1> QED
  BY <1>1, <1>2, <1>3, TypeCorrect, VerdictsAreTrue, PTL DEF Spec
=============================================================================
