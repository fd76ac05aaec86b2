----------------------------- MODULE UpkeepProofs ----------------------------
(***************************************************************************)
(* What the files and the upkeep of the catalog keep, for any works,       *)
(* readers, passes and sizes: replacing takes no file away, a work keeps   *)
(* its primary category, the version is true, ranges are exact, and an     *)
(* EPUB drops no line of its text.                                         *)
(***************************************************************************)
EXTENDS MCUpkeep, DataLemmas, TLAPS

-----------------------------------------------------------------------------
(***************************************************************************)
(* Rebuilding.  Objects are only added, so it is enough that each place a  *)
(* digest can come from names an object that is there already: the         *)
(* command's rows before they are committed, what it is about to flush,    *)
(* and what the worker is about to commit.                                 *)
(***************************************************************************)
\* What a reader may be given: an object that is stored, or that the disk, and
\* not the command, has lost.
Held == objects \union lost

RebuildInv ==
    /\ row \in [Books -> Held] /\ own \in [Books -> Held]
    /\ others \subseteq Held
    /\ \A r \in Readers : opening[r] \in Held \union {None}
    /\ DOMAIN opening = Readers
    /\ place = "flush" => built \in objects
    /\ writer = Worker => adding \in objects

LEMMA RebuildInit == R!Init => RebuildInv
<1> SUFFICES ASSUME R!Init PROVE RebuildInv
  OBVIOUS
<1>1. PICK gone \in {{}} \union {{First[w]} : w \in Books} :
        lost = gone /\ objects = {First[w] : w \in Books} \ gone
  BY DEF R!Init
<1>2. \A w \in Books : First[w] \in Held
  BY <1>1 DEF Held
<1>3. First \in [Books -> Held]
  BY <1>2, BooksAssumption
<1> QED  BY <1>3, ActorsAssumption DEF R!Init, RebuildInv

LEMMA RebuildStep == ASSUME RebuildInv, [R!Next]_rebuild PROVE RebuildInv'
<1> USE DEF RebuildInv, Held
<1>1. CASE R!Start
  BY <1>1 DEF R!Start
<1>2. CASE R!Inspect \/ R!Build \/ R!BuildFails \/ R!Check
  BY <1>2 DEF R!Inspect, R!Build, R!BuildFails, R!Check, R!Goto
<1>3. CASE R!Put
  <2>1. objects' \union lost' = (objects \union lost) \union {built}
    BY <1>3 DEF R!Put
  <2> QED  BY <1>3, <2>1 DEF R!Put
<1>4. CASE R!Flush
  <2>1. own' \in [Books -> objects \union lost]
    BY <1>4 DEF R!Flush
  <2> QED  BY <1>4, <2>1, ActorsAssumption DEF R!Flush
<1>5. CASE R!Count \/ R!Finish
  BY <1>5, ActorsAssumption DEF R!Count, R!Finish, R!Committed
<1>6. CASE R!FlushFails \/ R!Crash
  BY <1>6, ActorsAssumption DEF R!FlushFails, R!Crash, R!Quit
<1>7. CASE R!WorkerPuts
  <2>1. objects' \union lost' = (objects \union lost) \union {adding'}
    BY <1>7 DEF R!WorkerPuts
  <2> QED  BY <1>7, <2>1 DEF R!WorkerPuts, R!command
<1>8. CASE R!WorkerEnds
  BY <1>8, ActorsAssumption DEF R!WorkerEnds, R!command
<1>9. ASSUME NEW r \in Readers, R!LookUp(r) PROVE RebuildInv'
  <2>1. PICK w \in Books : opening' = [opening EXCEPT ![r] = row[w]]
    BY <1>9 DEF R!LookUp
  <2>2. row[w] \in objects \union lost
    OBVIOUS
  <2> QED  BY <1>9, <2>1, <2>2 DEF R!LookUp, R!command
<1>10. ASSUME NEW r \in Readers, R!Open(r) PROVE RebuildInv'
  BY <1>10 DEF R!Open, R!command
<1>11. CASE UNCHANGED rebuild
  BY <1>11 DEF rebuild
<1> QED
  BY <1>1, <1>2, <1>3, <1>4, <1>5, <1>6, <1>7, <1>8, <1>9, <1>10, <1>11 DEF R!Next

-----------------------------------------------------------------------------
(***************************************************************************)
(* Reclassification.  The pass that has deleted rows has the lock until it *)
(* commits or gives up, so that what it leaves is what it wrote, and the   *)
(* rows of the works it did not list as they were.                         *)
(***************************************************************************)
LEMMA SameSize == \A S : C!Cardinality(S) = Cardinality(S)
BY DEF C!Cardinality, Cardinality

Shape(S) == Cardinality({r \in S : r.primary}) = 1 /\ Cardinality(S) <= 2

CatalogTypes ==
    /\ DOMAIN status = Works /\ DOMAIN rows = Works /\ DOMAIN mine = Works
    /\ DOMAIN pc = Passes /\ listed \in [Passes -> SUBSET Works] /\ todo \in [Passes -> SUBSET Works]
    /\ missed \subseteq Works /\ completed \in BOOLEAN /\ swallowed \in BOOLEAN

\* The pass that assigns has the lock, and what it has written so far.
Assigning(p) ==
    /\ lock = p /\ todo[p] \subseteq listed[p]
    /\ \A w \in Works :
        mine[w] = IF w \in todo[p] THEN {} ELSE IF w \in listed[p] THEN New[w] ELSE rows[w]

Classified ==
    /\ ~swallowed => \A w \in Works : status[w] # None => Shape(rows[w])
    /\ \A w \in Works \ missed : status[w] # None => rows[w] = New[w]
    /\ version = Current => completed

CatalogInv == CatalogTypes /\ Classified /\ \A p \in Passes : pc[p] = "assign" => Assigning(p)

LEMMA CatalogInit == C!Init => CatalogInv
<1> SUFFICES ASSUME C!Init PROVE CatalogInv
  OBVIOUS
<1>1. CatalogTypes
  BY DEF C!Init, CatalogTypes, C!NoRows
<1>2. \A w \in Works : status[w] # None => rows[w] = Old[w] /\ w \in missed
  BY DEF C!Init
<1>3. Classified
  BY <1>2, RowsAssumption, VersionAssumption DEF C!Init, Classified, Shape
<1>4. \A p \in Passes : pc[p] # "assign"
  BY DEF C!Init
<1> QED  BY <1>1, <1>3, <1>4 DEF CatalogInv

\* A pass ends: what it leaves in the rows is what Classified asks of them.
LEMMA CatalogLeaves ==
    ASSUME CatalogInv, NEW p \in Passes, pc[p] \notin {"idle", "ended"}, C!Leave(p), Classified',
           missed' \subseteq Works, completed' \in BOOLEAN, swallowed' \in BOOLEAN,
           DOMAIN rows' = Works, rows' = rows \/ lock = p
    PROVE  CatalogInv'
<1>1. CatalogTypes'
  BY DEF CatalogInv, CatalogTypes, C!Leave, C!NoRows
<1>2. ASSUME NEW o \in Passes, pc'[o] = "assign" PROVE Assigning(o)'
  <2>1. o # p /\ pc[o] = "assign" /\ todo'[o] = todo[o] /\ listed'[o] = listed[o]
    BY <1>2 DEF CatalogInv, CatalogTypes, C!Leave
  <2>2. Assigning(o) /\ lock # p /\ rows' = rows /\ mine' = mine /\ lock' = lock
    BY <2>1 DEF CatalogInv, Assigning, C!Leave
  <2> QED  BY <2>1, <2>2 DEF Assigning
<1> QED  BY <1>1, <1>2 DEF CatalogInv

\* A step that leaves the rows alone and no pass at assigning.
LEMMA CatalogMoves ==
    ASSUME CatalogInv, NEW p \in Passes, NEW to, to # "assign", pc' = [pc EXCEPT ![p] = to],
           UNCHANGED <<status, rows, version, mine, missed, completed, swallowed, todo>>,
           \A o \in Passes \ {p} : listed'[o] = listed[o], listed' \in [Passes -> SUBSET Works],
           lock' = lock \/ lock \in {None, p}
    PROVE  CatalogInv'
<1>1. CatalogTypes' /\ Classified'
  BY DEF CatalogInv, CatalogTypes, Classified
<1>2. ASSUME NEW o \in Passes, pc'[o] = "assign" PROVE Assigning(o)'
  <2>1. o # p /\ pc[o] = "assign" /\ listed'[o] = listed[o]
    BY <1>2 DEF CatalogInv, CatalogTypes
  <2>2. Assigning(o) /\ lock' = lock
    BY <2>1, VersionAssumption DEF CatalogInv, Assigning
  <2> QED  BY <2>1, <2>2 DEF Assigning
<1> QED  BY <1>1, <1>2 DEF CatalogInv

LEMMA CatalogStep == ASSUME CatalogInv, [C!Next]_categories PROVE CatalogInv'
<1>1. CatalogTypes /\ Classified
  BY DEF CatalogInv
<1>2. ASSUME NEW p \in Passes,
             C!Begin(p) \/ C!Ensure(p) \/ C!ReadWorks(p) \/ C!MakeUnclassified(p) PROVE CatalogInv'
  <2>1. CASE C!Begin(p)
    <3> DEFINE to == IF p \in Boots /\ ~unclassified THEN "seed" ELSE "ensure"
    <3>1. to # "assign" /\ pc' = [pc EXCEPT ![p] = to]
      BY <2>1 DEF C!Begin, C!Goto
    <3>2. UNCHANGED <<status, rows, version, mine, missed, completed, swallowed, todo, listed, lock>>
      BY <2>1 DEF C!Begin, C!Goto, C!catalog
    <3> HIDE DEF to
    <3> QED  BY <1>1, <3>1, <3>2, CatalogMoves DEF CatalogTypes
  <2>2. CASE C!Ensure(p)
    <3> DEFINE to == IF unclassified \/ lock = p THEN "read" ELSE "make"
    <3>1. to # "assign" /\ pc' = [pc EXCEPT ![p] = to]
      BY <2>2 DEF C!Ensure, C!Goto
    <3>2. UNCHANGED <<status, rows, version, mine, missed, completed, swallowed, todo, listed, lock>>
      BY <2>2 DEF C!Ensure, C!Goto, C!catalog
    <3> HIDE DEF to
    <3> QED  BY <1>1, <3>1, <3>2, CatalogMoves DEF CatalogTypes
  <2>3. CASE C!ReadWorks(p)
    BY <1>1, <2>3, CatalogMoves DEF CatalogTypes, C!ReadWorks, C!catalog, C!Published
  <2>4. CASE C!MakeUnclassified(p)
    <3>1. PICK to \in {"ensure", "read"} : C!Goto(p, to)
      BY <2>4 DEF C!MakeUnclassified
    <3> QED  BY <1>1, <2>4, <3>1, CatalogMoves DEF CatalogTypes, C!MakeUnclassified, C!Goto, C!catalog, C!MayWrite
  <2> QED  BY <1>2, <2>1, <2>2, <2>3, <2>4
<1>3. ASSUME NEW p \in Passes, C!Skip(p) \/ C!RollBack(p) PROVE CatalogInv'
  <2>1. /\ C!Leave(p) /\ pc[p] \notin {"idle", "ended"}
        /\ UNCHANGED <<rows, version, missed, completed, swallowed>> /\ status' = status
    BY <1>3 DEF C!Skip, C!RollBack, C!Leave
  <2> QED  BY <1>1, <2>1, CatalogLeaves DEF CatalogTypes, Classified
<1>4. ASSUME NEW p \in Passes, C!DeleteRows(p) PROVE CatalogInv'
  <2>1. /\ lock' = p /\ mine' = C!Deleted(p) /\ todo' = [todo EXCEPT ![p] = listed[p]]
        /\ pc' = [pc EXCEPT ![p] = "assign"] /\ lock \in {None, p}
        /\ UNCHANGED <<status, rows, version, listed, missed, completed, swallowed>>
    BY <1>4 DEF C!DeleteRows, C!MayWrite, C!catalog
  <2>2. CatalogTypes' /\ Classified'
    BY <1>1, <2>1 DEF CatalogTypes, Classified, C!Deleted
  <2>3. ASSUME NEW o \in Passes \ {p} PROVE pc'[o] # "assign"
    BY <2>1, VersionAssumption DEF CatalogInv, CatalogTypes, Assigning
  <2>4. Assigning(p)'
    <3>1. todo'[p] = listed[p]
      BY <1>1, <2>1 DEF CatalogTypes
    <3>2. \A w \in Works : mine'[w] = IF w \in listed[p] THEN {} ELSE rows[w]
      BY <2>1 DEF C!Deleted
    <3> QED  BY <2>1, <3>1, <3>2 DEF Assigning
  <2> QED  BY <2>2, <2>3, <2>4 DEF CatalogInv
<1>5. ASSUME NEW p \in Passes, C!Assign(p) PROVE CatalogInv'
  <2>1. PICK w \in todo[p] : mine' = [mine EXCEPT ![w] = @ \union New[w]] /\ todo' = [todo EXCEPT ![p] = @ \ {w}]
    BY <1>5 DEF C!Assign
  <2>2. UNCHANGED <<status, rows, version, lock, pc, listed, missed, completed, swallowed>> /\ pc[p] = "assign"
    BY <1>5 DEF C!Assign, C!catalog
  <2>3. Assigning(p) /\ w \in Works
    BY <1>1, <2>1, <2>2 DEF CatalogInv, CatalogTypes
  <2>4. CatalogTypes' /\ Classified'
    BY <1>1, <2>1, <2>2 DEF CatalogTypes, Classified
  <2>5. \A o \in Passes : pc'[o] = "assign" => o = p
    BY <2>2, <2>3 DEF CatalogInv, Assigning
  <2>6. Assigning(p)'
    <3>1. todo'[p] = todo[p] \ {w} /\ mine'[w] = mine[w] \union New[w] /\ mine[w] = {} /\ w \in listed[p]
      BY <1>1, <2>1, <2>3 DEF CatalogTypes, Assigning
    <3>2. \A v \in Works \ {w} : mine'[v] = mine[v]
      BY <1>1, <2>1 DEF CatalogTypes
    <3> QED  BY <2>2, <2>3, <3>1, <3>2 DEF Assigning
  <2> QED  BY <2>4, <2>5, <2>6 DEF CatalogInv
<1>6. ASSUME NEW p \in Passes, C!Finish(p) PROVE CatalogInv'
  <2>1. /\ pc[p] = "assign" /\ todo[p] = {} /\ rows' = mine /\ version' = Current
        /\ missed' = missed \ listed[p] /\ completed' = TRUE /\ swallowed' = swallowed /\ status' = status /\ C!Leave(p)
    BY <1>6 DEF C!Finish, C!Leave
  <2>2. Assigning(p)
    BY <2>1 DEF CatalogInv
  <2>3. \A w \in Works : rows'[w] = IF w \in listed[p] THEN New[w] ELSE rows[w]
    BY <2>1, <2>2 DEF Assigning
  <2>4. Classified'
    BY <1>1, <2>1, <2>3, RowsAssumption DEF Classified, Shape
  <2> QED  BY <1>1, <2>1, <2>2, <2>4, CatalogLeaves DEF CatalogTypes, Assigning
<1>7. ASSUME NEW p \in Passes, C!Swallow(p) PROVE CatalogInv'
  <2>1. /\ pc[p] = "assign" /\ rows' = mine /\ version' = version /\ swallowed' = TRUE
        /\ missed' = missed \union listed[p] /\ completed' = completed /\ status' = status /\ C!Leave(p)
    BY <1>7 DEF C!Swallow, C!Leave, C!VersionAfterFailure
  <2>2. Assigning(p)
    BY <2>1 DEF CatalogInv
  <2>3. \A w \in Works \ listed[p] : rows'[w] = rows[w]
    BY <2>1, <2>2 DEF Assigning
  <2>4. Classified'
    BY <1>1, <2>1, <2>3 DEF Classified
  <2> QED  BY <1>1, <2>1, <2>2, <2>4, CatalogLeaves DEF CatalogTypes, Assigning
<1>8. ASSUME NEW w \in Works, C!AdminPublish(w) \/ C!AdminHide(w) \/ C!Ingest(w) PROVE CatalogInv'
  <2>1. lock = None /\ UNCHANGED <<version, lock, pc, listed, todo, mine, completed, swallowed>>
    BY <1>8 DEF C!AdminPublish, C!AdminHide, C!Ingest, C!Edit, C!pass
  <2>2. \A o \in Passes : pc[o] # "assign"
    BY <2>1, VersionAssumption DEF CatalogInv, Assigning
  <2>3. CASE C!AdminPublish(w) \/ C!AdminHide(w)
    <3>1. PICK s \in {"published", "hidden"} :
            status' = [status EXCEPT ![w] = s] /\ status[w] # None /\ UNCHANGED <<rows, missed>>
      BY <2>3, VersionAssumption DEF C!AdminPublish, C!AdminHide
    <3> QED  BY <1>1, <2>1, <2>2, <3>1 DEF CatalogInv, CatalogTypes, Classified
  <2>4. CASE C!Ingest(w)
    <3>1. PICK s \in {"draft", "published"} :
            /\ status' = [status EXCEPT ![w] = s] /\ rows' = [rows EXCEPT ![w] = Ingested[w]]
            /\ missed' = missed \union {w}
      BY <2>4 DEF C!Ingest
    <3> QED  BY <1>1, <2>1, <2>2, <3>1, RowsAssumption DEF CatalogInv, CatalogTypes, Classified, Shape
  <2> QED  BY <1>8, <2>3, <2>4
<1>9. CASE UNCHANGED categories
  BY <1>1, <1>9 DEF categories, CatalogInv, CatalogTypes, Classified, Assigning
<1> QED  BY <1>2, <1>3, <1>4, <1>5, <1>6, <1>7, <1>8, <1>9 DEF C!Next

LEMMA CatalogTrue == CatalogInv => OnePrimary /\ VersionIsTrue
BY SameSize DEF CatalogInv, Classified, Shape, OnePrimary, C!OnePrimary, VersionIsTrue, C!VersionIsTrue

-----------------------------------------------------------------------------
(***************************************************************************)
(* Ranges.  A response is the answer to its request; the rest is           *)
(* arithmetic.                                                             *)
(***************************************************************************)
Request == size \in Nat /\ header \in Headers \union {None, Garbage}

RangesInv == Request /\ (response = None \/ response = Answer)

\* Response r answers a request for the bytes named.
Answers(r, named) ==
    IF named = {} THEN r.status = 416
    ELSE r.status = 206 /\ r.body = named /\ r.body = r.start .. r.end /\ r.length = r.end - r.start + 1

Exact(r) ==
    IF header = None THEN r.status = 200 /\ r.body = 0 .. size - 1 ELSE Answers(r, Named)

\* The bytes of the file from start to end.
From(start, end) == {b \in 0 .. size - 1 : start <= b /\ b <= end}

\* A range from start to end is cut where the file ends, or refused when
\* nothing of it is in the file (Slice and Partial, serve.py:48-55).
LEMMA SliceIsExact ==
    ASSUME size \in Nat, NEW start \in Nat, NEW end \in Int
    PROVE  Answers(Slice(start, end), From(start, end))
<1> DEFINE r == Slice(start, end)
           named == From(start, end)
<1> SUFFICES Answers(r, named)
  OBVIOUS
<1>1. CASE start >= size \/ end < start
    <2>1. named = {}
      BY <1>1 DEF From
    <2>2. r.status = 416
      BY <1>1 DEF Slice, Unsatisfiable
    <2> HIDE DEF r, named
    <2> QED  BY <2>1, <2>2 DEF Answers
<1>2. CASE start < size /\ start <= end
    <2> DEFINE last == Clamped(end)
    <2>1. last \in Int /\ start <= last /\ last <= size - 1 /\ last <= end /\ (last = end \/ last = size - 1)
      BY <1>2 DEF Clamped
    <2>2. r = Partial(start, end)
      BY <1>2 DEF Slice
    <2>3. r.status = 206 /\ r.start = start /\ r.end = last /\ r.length = r.end - r.start + 1
      BY <2>2 DEF Partial
    <2>4. r.body = Read(start, last - start + 1)
      BY <2>2 DEF Partial
    <2> HIDE DEF last
    <2>5. r.body = start .. last
      BY <2>1, <2>4 DEF Read
    <2>6. named = start .. last
      BY <1>2, <2>1 DEF From
    <2>7. start \in named
      BY <2>1, <2>6
    <2> HIDE DEF r, named
    <2> QED  BY <2>3, <2>5, <2>6, <2>7 DEF Answers
<1> QED  BY <1>1, <1>2

\* Every request is answered exactly (file_response_with_range).
LEMMA AnswerIsExact ==
    ASSUME Request
    PROVE  Exact(Answer)
<1>1. CASE header = None
    <2>1. Answer = Whole
      BY <1>1 DEF Answer
    <2>2. Whole.status = 200 /\ Whole.body = 0 .. size - 1
      BY DEF Whole, Read, Request
    <2> QED  BY <1>1, <2>1, <2>2 DEF Exact
<1>2. CASE header = Garbage
    <2>1. Answer = Unsatisfiable /\ Named = {}
      BY <1>2, MarksAssumption DEF Answer, Named
    <2> QED  BY <1>2, <2>1, MarksAssumption DEF Exact, Answers, Unsatisfiable
<1>3. CASE header \in Headers
    <2>1. header # None /\ header # Garbage
      BY <1>3, HeadersAssumption
    <2>2. header.from \in Numbers \union {None} /\ header.to \in Numbers \union {None} /\ size \in Nat
      BY <1>3 DEF Headers, Request
    <2>3. Answer = Ranged(header.from, header.to) /\ (Exact(Answer) <=> Answers(Answer, Named))
      BY <2>1 DEF Answer, Exact
    <2>4. CASE header.from # None
        <3> DEFINE start == header.from
                   end == IF header.to = None THEN size - 1 ELSE header.to
        <3>1. start \in Nat /\ end \in Int
          <4>1. start \in Nat /\ (header.to # None => header.to \in Nat)
            BY <2>2, <2>4, NumbersAssumption
          <4>2. size - 1 \in Int
            BY <2>2
          <4> QED  BY <4>1, <4>2
        <3>2. Answer = Slice(start, end)
          BY <2>3, <2>4 DEF Ranged
        <3>3. Named = From(start, end)
          BY <2>1, <2>2, <2>4, NumbersAssumption DEF Named, From
        <3> HIDE DEF start, end
        <3> QED  BY <2>2, <2>3, <3>1, <3>2, <3>3, SliceIsExact
    <2>5. CASE header.from = None /\ header.to # None
        <3> DEFINE n == header.to
                   start == IF n < size THEN size - n ELSE 0
        <3>1. n \in Nat /\ n # None
          BY <2>2, <2>5, NumbersAssumption
        <3>2. Answer = Slice(start, size - 1)
          BY <2>3, <2>5 DEF Ranged
        <3>3. Named = {b \in 0 .. size - 1 : size - n <= b}
          BY <2>1, <2>5 DEF Named
        <3> HIDE DEF n
        <3>4. start \in Nat
          BY <2>2, <3>1
        <3>5. Named = From(start, size - 1)
          BY <2>2, <3>1, <3>3 DEF From
        <3> HIDE DEF start
        <3> QED  BY <2>2, <2>3, <3>2, <3>4, <3>5, SliceIsExact
    <2>6. CASE header.from = None /\ header.to = None
        <3>1. Answer = Unsatisfiable /\ Named = {}
          BY <2>1, <2>3, <2>6 DEF Ranged, Named
        <3> QED  BY <2>3, <3>1 DEF Answers, Unsatisfiable
    <2> QED  BY <2>4, <2>5, <2>6
<1> QED  BY <1>1, <1>2, <1>3 DEF Request

LEMMA RangesInvariance == Spec => []RangesInv
<1>1. Init => RangesInv
  BY NumbersAssumption DEF Init, RangesInv, Request
<1>2. RangesInv /\ [Next]_vars => RangesInv'
  <2> SUFFICES ASSUME RangesInv, [Next]_vars PROVE RangesInv'
    OBVIOUS
  <2>1. size' = size /\ header' = header
    BY DEF Next, FileResponseWithRange, vars
  <2>2. Answer' = Answer
    BY <2>1 DEF Answer, Ranged, Whole, Unsatisfiable, Slice, Partial, Clamped, Read
  <2>3. response' = response \/ response' = Answer
    BY DEF Next, FileResponseWithRange, vars
  <2> QED  BY <2>1, <2>2, <2>3 DEF RangesInv, Request
<1> QED  BY <1>1, <1>2, PTL DEF Spec

-----------------------------------------------------------------------------
(***************************************************************************)
(* EPUBs.  FlattenSeq solves the equation of a recursive function: such    *)
(* functions exist for every length, and what holds of nothing, and of a   *)
(* list with one more sequence if it holds of the list, holds of it all.   *)
(***************************************************************************)
\* The equation of FlattenSeq, for the first n sequences.
Flat(f, seqs, n) == f = [i \in 1 .. n |-> IF i = 1 THEN seqs[i] ELSE f[i - 1] \o seqs[i]]

LEMMA FlatExists == ASSUME NEW seqs, NEW n \in Nat PROVE \E f : Flat(f, seqs, n)
<1> DEFINE lengths == {k \in Nat : \E f : Flat(f, seqs, k)}
<1>1. 0 \in lengths
  <2> DEFINE g == [i \in 1 .. 0 |-> 0]
  <2>1. Flat(g, seqs, 0)
    BY DEF Flat
  <2> QED  BY <2>1
<1>2. ASSUME NEW k \in Nat, k \in lengths PROVE k + 1 \in lengths
  <2>1. PICK f : Flat(f, seqs, k)
    BY <1>2
  <2> DEFINE g == [i \in 1 .. k + 1 |-> IF i = k + 1 THEN IF i = 1 THEN seqs[i] ELSE f[i - 1] \o seqs[i]
                                        ELSE f[i]]
  <2>2. \A i \in 1 .. k : f[i] = IF i = 1 THEN seqs[i] ELSE f[i - 1] \o seqs[i]
    BY <2>1 DEF Flat
  <2>3. \A i \in 1 .. k : i \in 1 .. k + 1 /\ i # k + 1
    BY <1>2
  <2>4. \A i \in 1 .. k : g[i] = f[i]
    BY <2>3
  <2>5. \A i \in 1 .. k + 1 : g[i] = IF i = 1 THEN seqs[i] ELSE g[i - 1] \o seqs[i]
    <3> SUFFICES ASSUME NEW i \in 1 .. k + 1 PROVE g[i] = IF i = 1 THEN seqs[i] ELSE g[i - 1] \o seqs[i]
      OBVIOUS
    <3>1. i # 1 => i - 1 \in 1 .. k
      OBVIOUS
    <3>2. CASE i = k + 1
      BY <2>4, <3>1, <3>2
    <3>3. CASE i # k + 1
      <4>1. i \in 1 .. k
        BY <3>3
      <4> HIDE DEF g
      <4> QED  BY <2>2, <2>4, <3>1, <4>1
    <3> QED  BY <3>2, <3>3
  <2>6. g = [i \in 1 .. k + 1 |-> g[i]]
    OBVIOUS
  <2> HIDE DEF g
  <2>7. Flat(g, seqs, k + 1)
    BY <2>5, <2>6 DEF Flat
  <2> QED  BY <2>7
<1> HIDE DEF lengths
<1>3. Nat \subseteq lengths
  BY <1>1, <1>2, AllNaturals
<1> QED  BY <1>3 DEF lengths

LEMMA Flattened ==
    ASSUME NEW S, NEW seqs \in Seq(Seq(S)), NEW T, <<>> \in T[0],
           \A k \in 1 .. Len(seqs) : \A s \in Seq(S) \intersect T[k - 1] : s \o seqs[k] \in T[k]
    PROVE  E!FlattenSeq(seqs) \in Seq(S) /\ E!FlattenSeq(seqs) \in T[Len(seqs)]
<1> DEFINE n == Len(seqs)
           f == CHOOSE g : Flat(g, seqs, n)
<1>1. n \in Nat /\ (\A k \in 1 .. n : seqs[k] \in Seq(S)) /\ (n = 0 => seqs = <<>>)
  BY SeqParts
<1>2. CASE n = 0
  <2>1. E!FlattenSeq(seqs) = <<>>
    BY <1>1, <1>2 DEF E!FlattenSeq
  <2> QED  BY <1>2, <2>1
<1>3. CASE n # 0
  <2>1. E!FlattenSeq(seqs) = f[n]
    BY <1>3, Zenon DEF E!FlattenSeq, Flat
  <2>2. Flat(f, seqs, n)
    BY <1>1, FlatExists
  <2> HIDE DEF f
  <2>3. \A i \in 1 .. n : f[i] = IF i = 1 THEN seqs[i] ELSE f[i - 1] \o seqs[i]
    BY <2>2 DEF Flat
  <2> HIDE DEF n
  <2> DEFINE sound == {k \in Nat : k \in 1 .. n => f[k] \in Seq(S) \intersect T[k]}
  <2>4. ASSUME NEW k \in Nat, k \in sound PROVE k + 1 \in sound
    <3> SUFFICES ASSUME k + 1 \in 1 .. n PROVE f[k + 1] \in Seq(S) \intersect T[k + 1]
      OBVIOUS
    <3>1. seqs[k + 1] \in Seq(S)
      BY <1>1
    <3>2. CASE k = 0
      <4>1. f[1] = seqs[1] /\ <<>> \o seqs[1] = seqs[1] /\ <<>> \in Seq(S)
        BY <2>3, <3>1, <3>2, ConcatEmptySeq, EmptySeq
      <4>2. <<>> \in Seq(S) \intersect T[1 - 1] /\ 1 \in 1 .. n
        BY <1>1, <1>3, <4>1
      <4>3. <<>> \o seqs[1] \in T[1]
        BY <4>2 DEF n
      <4> QED  BY <3>1, <3>2, <4>1, <4>3
    <3>3. CASE k # 0
      <4>1. k \in 1 .. n /\ f[k] \in Seq(S) \intersect T[k]
        BY <2>4, <3>3, <1>1
      <4>2. f[k + 1] = f[k] \o seqs[k + 1]
        <5>1. k + 1 # 1 /\ (k + 1) - 1 = k
          BY <3>3
        <5> QED  BY <2>3, <5>1
      <4>3. f[k] \o seqs[k + 1] \in T[k + 1]
        <5>1. \A s \in Seq(S) \intersect T[(k + 1) - 1] : s \o seqs[k + 1] \in T[k + 1]
          BY DEF n
        <5> QED  BY <4>1, <5>1
      <4>4. f[k] \o seqs[k + 1] \in Seq(S)
        BY <3>1, <4>1, ConcatProperties
      <4> QED  BY <4>2, <4>3, <4>4
    <3> QED  BY <3>2, <3>3
  <2>5. 0 \in sound
    BY <1>1
  <2> HIDE DEF sound
  <2>6. n \in sound
    BY <1>1, <2>4, <2>5, AllNaturals
  <2>7. n \in 1 .. n
    BY <1>1, <1>3
  <2> QED  BY <2>1, <2>6, <2>7 DEF sound, n
<1> QED  BY <1>2, <1>3

\* What files show: headings and paragraphs.  A list of them is good if its lines
\* ascend and each stands under the heading that over gives it.
Element == [tag : {"h", "p"}, of : Nat]
IsLine(e) == e.tag = "p" /\ e.of # 0
Says(s) == {s[i].of : i \in {j \in 1 .. Len(s) : IsLine(s[j])}}
Under(s, n, i) == n \in 1 .. i - 1 /\ s[n].tag = "h" /\ \A j \in n + 1 .. i - 1 : s[j].tag = "p"
Good(s, over) ==
    /\ \A i, j \in 1 .. Len(s) : i < j /\ IsLine(s[i]) /\ IsLine(s[j]) => s[i].of < s[j].of
    /\ \A i \in 1 .. Len(s) : IsLine(s[i]) => \E n \in 1 .. Len(s) : Under(s, n, i) /\ s[n].of = over[s[i].of]

\* Numbers before others.
Below(X, Y) == \A x \in X, y \in Y : x < y

LEMMA GoodNothing == \A over : Good(<<>>, over) /\ Says(<<>>) = {}
<1> Len(<<>>) = 0
  BY EmptySeq
<1> QED  BY DEF Good, Says

LEMMA GoodTogether ==
    ASSUME NEW s \in Seq(Element), NEW t \in Seq(Element), NEW over,
           Good(s, over), Good(t, over), Below(Says(s), Says(t))
    PROVE  Good(s \o t, over) /\ Says(s \o t) = Says(s) \union Says(t)
<1> DEFINE st == s \o t
           m == Len(s)
           n == Len(t)
<1>1. /\ m \in Nat /\ n \in Nat /\ Len(st) = m + n
      /\ \A i \in 1 .. m : st[i] = s[i] /\ i \in 1 .. m + n
      /\ \A i \in 1 .. n : st[m + i] = t[i] /\ m + i \in 1 .. m + n
  BY ConcatProperties, SeqParts
<1>2. \A i \in 1 .. m + n : i \in 1 .. m \/ \E k \in 1 .. n : i = m + k
  <2> SUFFICES ASSUME NEW i \in 1 .. m + n, i \notin 1 .. m PROVE i - m \in 1 .. n /\ i = m + (i - m)
    OBVIOUS
  <2> HIDE DEF m, n
  <2> QED  BY <1>1
<1> HIDE DEF st, m, n
<1>3. Says(st) = Says(s) \union Says(t)
  <2>1. Says(s) \subseteq Says(st)
    BY <1>1 DEF Says, m
  <2>2. Says(t) \subseteq Says(st)
    <3> SUFFICES ASSUME NEW i \in 1 .. n, IsLine(t[i]) PROVE t[i].of \in Says(st)
      BY DEF Says, n
    <3>1. m + i \in 1 .. Len(st) /\ st[m + i] = t[i]
      BY <1>1
    <3> QED  BY <3>1 DEF Says
  <2>3. ASSUME NEW i \in 1 .. m + n, IsLine(st[i]) PROVE st[i].of \in Says(s) \union Says(t)
    <3>1. CASE i \in 1 .. m
      BY <1>1, <2>3, <3>1 DEF Says, m
    <3>2. CASE i \notin 1 .. m
      <4>1. PICK k \in 1 .. n : i = m + k
        BY <1>2, <3>2
      <4> QED  BY <1>1, <2>3, <4>1 DEF Says, n
    <3> QED  BY <3>1, <3>2
  <2>4. Says(st) \subseteq Says(s) \union Says(t)
    BY <1>1, <2>3 DEF Says
  <2> QED  BY <2>1, <2>2, <2>4
<1>4. ASSUME NEW i \in 1 .. m + n, NEW j \in 1 .. m + n, i < j, IsLine(st[i]), IsLine(st[j])
      PROVE  st[i].of < st[j].of
  <2>1. CASE j \in 1 .. m
    <3>1. i \in 1 .. m
      BY <1>1, <1>4, <2>1
    <3> QED  BY <1>1, <1>4, <2>1, <3>1 DEF Good, m
  <2>2. CASE j \notin 1 .. m
    <3>1. PICK l \in 1 .. n : j = m + l
      BY <1>2, <2>2
    <3>2. CASE i \in 1 .. m
      <4>1. st[i].of \in Says(s) /\ st[j].of \in Says(t)
        BY <1>1, <1>4, <3>1, <3>2 DEF Says, m, n
      <4> QED  BY <4>1 DEF Below
    <3>3. CASE i \notin 1 .. m
      <4>1. PICK k \in 1 .. n : i = m + k
        BY <1>2, <3>3
      <4>2. k < l /\ st[i] = t[k] /\ st[j] = t[l]
        BY <1>1, <1>4, <3>1, <4>1
      <4> QED  BY <1>4, <4>2 DEF Good, n
    <3> QED  BY <3>2, <3>3
  <2> QED  BY <2>1, <2>2
<1>5. ASSUME NEW i \in 1 .. m + n, IsLine(st[i])
      PROVE  \E k \in 1 .. m + n : Under(st, k, i) /\ st[k].of = over[st[i].of]
  <2>1. CASE i \in 1 .. m
    <3>1. PICK k \in 1 .. m : Under(s, k, i) /\ s[k].of = over[s[i].of]
      BY <1>1, <1>5, <2>1 DEF Good, m
    <3>2. \A j \in k + 1 .. i - 1 : j \in 1 .. m
      BY <1>1, <2>1
    <3>3. Under(st, k, i) /\ st[k].of = over[st[i].of]
      BY <1>1, <2>1, <3>1, <3>2 DEF Under
    <3> QED  BY <1>1, <3>3
  <2>2. CASE i \notin 1 .. m
    <3>1. PICK l \in 1 .. n : i = m + l
      BY <1>2, <2>2
    <3>2. st[i] = t[l]
      BY <1>1, <3>1
    <3>3. PICK k \in 1 .. n : Under(t, k, l) /\ t[k].of = over[t[l].of]
      BY <1>5, <3>2 DEF Good, n
    <3>4. m + k \in 1 .. m + n /\ m + k \in 1 .. i - 1 /\ st[m + k] = t[k]
      <4>1. k \in 1 .. l - 1
        BY <3>3 DEF Under
      <4>2. m \in Nat /\ n \in Nat /\ k \in Nat /\ l \in Nat
        BY <1>1
      <4>3. m + k \in 1 .. m + n /\ m + k \in 1 .. i - 1
        BY <3>1, <4>1, <4>2
      <4> QED  BY <1>1, <4>3
    <3>5. ASSUME NEW j \in m + k + 1 .. i - 1 PROVE st[j].tag = "p"
      <4>1. j - m \in k + 1 .. l - 1 /\ j - m \in 1 .. n /\ j = m + (j - m)
        BY <1>1, <3>1, <3>5
      <4>2. st[j] = t[j - m] /\ t[j - m].tag = "p"
        BY <1>1, <3>3, <4>1 DEF Under
      <4> QED  BY <4>2
    <3>6. Under(st, m + k, i) /\ st[m + k].of = over[st[i].of]
      BY <3>2, <3>3, <3>4, <3>5 DEF Under
    <3> QED  BY <3>4, <3>6
  <2> QED  BY <2>1, <2>2
<1>6. Good(st, over)
  BY <1>1, <1>4, <1>5 DEF Good
<1> QED  BY <1>3, <1>6 DEF st

\* A list of good lists whose lines ascend from each to the next.
Ordered(X, n) == \A j, k \in 1 .. n : j < k => Below(X[j], X[k])
Told(seqs) == [k \in 1 .. Len(seqs) |-> Says(seqs[k])]

LEMMA GoodFlat ==
    ASSUME NEW seqs \in Seq(Seq(Element)), NEW over,
           \A k \in 1 .. Len(seqs) : Good(seqs[k], over), Ordered(Told(seqs), Len(seqs))
    PROVE  /\ E!FlattenSeq(seqs) \in Seq(Element) /\ Good(E!FlattenSeq(seqs), over)
           /\ Says(E!FlattenSeq(seqs)) = UNION {Says(seqs[k]) : k \in 1 .. Len(seqs)}
<1> DEFINE n == Len(seqs)
           sofar(k) == UNION {Says(seqs[j]) : j \in 1 .. k}
           T == [k \in 0 .. n |-> {s \in Seq(Element) : Good(s, over) /\ Says(s) = sofar(k)}]
<1>1. n \in Nat /\ \A k \in 1 .. n : seqs[k] \in Seq(Element)
  BY SeqParts
<1>2. <<>> \in T[0]
  <2>1. sofar(0) = {} /\ 0 \in 0 .. n /\ <<>> \in Seq(Element)
    BY <1>1, EmptySeq
  <2> QED  BY <2>1, GoodNothing
<1>3. ASSUME NEW k \in 1 .. n, NEW s \in Seq(Element) \intersect T[k - 1] PROVE s \o seqs[k] \in T[k]
  <2>1. k - 1 \in 0 .. n /\ k \in 0 .. n /\ k - 1 < k /\ k \in Int
    BY <1>1
  <2>2. Good(s, over) /\ Says(s) = sofar(k - 1)
    BY <2>1
  <2>3. Below(sofar(k - 1), Says(seqs[k]))
    <3> SUFFICES ASSUME NEW j \in 1 .. k - 1 PROVE Below(Says(seqs[j]), Says(seqs[k]))
      BY DEF Below
    <3>1. j \in 1 .. n /\ j < k
      BY <1>1
    <3> QED  BY <3>1 DEF Ordered, Told
  <2>4. Good(s \o seqs[k], over) /\ Says(s \o seqs[k]) = sofar(k - 1) \union Says(seqs[k])
    <3> HIDE DEF sofar, T
    <3> QED  BY <1>1, <2>2, <2>3, GoodTogether
  <2>5. sofar(k) = sofar(k - 1) \union Says(seqs[k])
    <3>1. 1 .. k = 1 .. k - 1 \union {k}
      BY <2>1
    <3> QED  BY <3>1
  <2>6. s \o seqs[k] \in Seq(Element)
    BY <1>1, ConcatProperties
  <2> HIDE DEF sofar
  <2> QED  BY <2>1, <2>4, <2>5, <2>6
<1> HIDE DEF sofar
<1>4. E!FlattenSeq(seqs) \in Seq(Element) /\ E!FlattenSeq(seqs) \in T[n]
  <2> HIDE DEF T
  <2> QED  BY <1>2, <1>3, Flattened
<1>5. n \in 0 .. n
  BY <1>1
<1> QED  BY <1>4, <1>5 DEF sofar

\* Pieces: each entry of the sequence is at one place of one piece.
LEMMA Quotient ==
    ASSUME NEW a \in Nat, NEW b \in Nat \ {0}
    PROVE  a \div b \in Nat /\ b * (a \div b) <= a /\ a < b * (a \div b) + b
OBVIOUS

Places(index, pieces, s) ==
    /\ \A i \in 1 .. Len(pieces) : \A j \in 1 .. Len(pieces[i]) :
            index[<<i, j>>] \in 1 .. Len(s) /\ pieces[i][j] = s[index[<<i, j>>]]
    /\ \A p \in 1 .. Len(s) : \E i \in 1 .. Len(pieces) : \E j \in 1 .. Len(pieces[i]) : p = index[<<i, j>>]
    /\ \A i, k \in 1 .. Len(pieces) : \A j \in 1 .. Len(pieces[i]), l \in 1 .. Len(pieces[k]) :
            i < k \/ (i = k /\ j < l) => index[<<i, j>>] < index[<<k, l>>]

LEMMA PiecesIs ==
    ASSUME NEW S, NEW s \in Seq(S), NEW width \in Nat \ {0}
    PROVE  /\ E!Pieces(s, width) \in Seq(Seq(S)) /\ Len(E!Pieces(s, width)) = (Len(s) + width - 1) \div width
           /\ Len(s) # 0 => Len(E!Pieces(s, width)) # 0
           /\ \A i \in 1 .. Len(E!Pieces(s, width)) : Len(E!Pieces(s, width)[i]) \in Nat \ {0}
           /\ \E index : Places(index, E!Pieces(s, width), s)
<1> DEFINE pieces == E!Pieces(s, width)
           m == Len(s)
           n == (m + width - 1) \div width
           start == [i \in Nat |-> (i - 1) * width]
           end == [i \in Nat |-> IF start[i] + width < m THEN start[i] + width ELSE m]
<1>1. m \in Nat /\ \A p \in 1 .. m : s[p] \in S
  BY SeqParts
<1>2. /\ \A i \in Nat \ {0} : start[i] = (i - 1) * width /\ i * width = start[i] + width /\ start[i] \in Nat
      /\ \A i, k \in Nat \ {0} : i < k => start[i] + width <= start[k]
  <2>1. \A i \in Nat \ {0} : start[i] = (i - 1) * width /\ i - 1 \in Nat
    OBVIOUS
  <2>2. \A i \in Nat \ {0} : i * width = (i - 1) * width + width /\ (i - 1) * width \in Nat
    OBVIOUS
  <2>3. \A i, k \in Nat \ {0} : i < k => i * width <= (k - 1) * width
    <3> SUFFICES ASSUME NEW i \in Nat \ {0}, NEW k \in Nat \ {0}, i < k PROVE i * width <= (k - 1) * width
      OBVIOUS
    <3>1. (k - 1) * width = i * width + (k - 1 - i) * width /\ i * width \in Nat
      OBVIOUS
    <3>2. k - 1 - i \in Nat
      OBVIOUS
    <3>3. (k - 1 - i) * width \in Nat
      BY <3>2
    <3> HIDE DEF start
    <3> QED  BY <3>1, <3>3
  <2> HIDE DEF start
  <2> QED  BY <2>1, <2>2, <2>3
<1>3. n \in Nat /\ (n # 0 => start[n] < m /\ m <= start[n] + width) /\ (n = 0 <=> m = 0)
  <2>1. m + width - 1 \in Nat
    BY <1>1
  <2>2. n \in Nat /\ width * n <= m + width - 1 /\ m + width - 1 < width * n + width
    <3> HIDE DEF m
    <3> QED  BY <2>1, Quotient
  <2>3. n # 0 => width * n = start[n] + width
    <3> HIDE DEF n, start
    <3>1. n # 0 => n * width = start[n] + width
      BY <1>2, <2>2
    <3>2. width * n = n * width
      BY <2>2
    <3> QED  BY <3>1, <3>2
  <2>4. n = 0 => width * n = 0
    BY <2>2
  <2>5. n # 0 => start[n] \in Nat
    BY <1>2, <2>2
  <2> DEFINE total == width * n
  <2> HIDE DEF n, m, start, total
  <2> QED  BY <1>1, <2>2, <2>3, <2>4, <2>5 DEF total
<1> HIDE DEF n, m
<1>4. pieces = [i \in 1 .. n |-> SubSeq(s, start[i] + 1, end[i])]
  <2>1. \A i \in 1 .. n : i \in Nat \ {0}
    BY <1>3
  <2>2. pieces = [i \in 1 .. n |-> SubSeq(s, (i - 1) * width + 1, E!Upto(i * width, m))]
    BY DEF E!Pieces, n, m
  <2>3. \A i \in 1 .. n : end[i] = E!Upto(i * width, m) /\ start[i] = (i - 1) * width
    <3> SUFFICES ASSUME NEW i \in 1 .. n PROVE end[i] = E!Upto(i * width, m) /\ start[i] = (i - 1) * width
      OBVIOUS
    <3>1. end[i] = IF start[i] + width < m THEN start[i] + width ELSE m
      BY <2>1
    <3> HIDE DEF start, end
    <3> QED  BY <1>2, <2>1, <3>1 DEF E!Upto
  <2> HIDE DEF start, end, pieces
  <2> QED  BY <2>2, <2>3
<1>5. \A i \in 1 .. n : start[i] \in Nat /\ end[i] \in 1 .. m /\ end[i] - start[i] \in 1 .. width
                      /\ (i < n => end[i] = start[i] + width) /\ (i = n => end[i] = m)
  <2> SUFFICES ASSUME NEW i \in 1 .. n
               PROVE  /\ start[i] \in Nat /\ end[i] \in 1 .. m /\ end[i] - start[i] \in 1 .. width
                      /\ (i < n => end[i] = start[i] + width) /\ (i = n => end[i] = m)
    OBVIOUS
  <2>1. i \in Nat \ {0} /\ n \in Nat \ {0}
    BY <1>3
  <2>2. end[i] = IF start[i] + width < m THEN start[i] + width ELSE m
    BY <2>1
  <2> HIDE DEF start, end
  <2>3. start[i] \in Nat /\ start[n] \in Nat /\ (i < n => start[i] + width <= start[n])
    BY <1>2, <2>1
  <2> DEFINE a == start[i]
             b == end[i]
             z == start[n]
  <2>4. a \in Nat /\ z \in Nat /\ b = (IF a + width < m THEN a + width ELSE m)
    BY <2>2, <2>3
  <2>5. /\ i < n => a + width <= z
        /\ i = n => a = z
        /\ z < m /\ m <= z + width
    BY <1>3, <2>1, <2>3
  <2> HIDE DEF a, b, z
  <2>6. CASE i < n
    <3>1. b = a + width /\ b \in 1 .. m
      BY <1>1, <2>4, <2>5, <2>6
    <3>2. b - a \in 1 .. width
      BY <2>4, <3>1
    <3> QED  BY <2>1, <2>4, <2>6, <3>1, <3>2 DEF a, b
  <2>7. CASE i = n
    <3>1. b = m /\ m \in 1 .. m
      BY <1>1, <2>4, <2>5, <2>7
    <3>2. b - a \in 1 .. width
      BY <1>1, <2>4, <2>5, <2>7, <3>1
    <3> QED  BY <2>1, <2>4, <2>7, <3>1, <3>2 DEF a, b
  <2> QED  BY <2>1, <2>6, <2>7
<1> HIDE DEF start, end, pieces
<1>6. ASSUME NEW i \in 1 .. n
      PROVE  /\ pieces[i] \in Seq(S) /\ Len(pieces[i]) = end[i] - start[i]
             /\ \A j \in 1 .. Len(pieces[i]) : start[i] + j \in 1 .. m /\ pieces[i][j] = s[start[i] + j]
  <2> DEFINE a == start[i]
             b == end[i]
  <2>1. a \in Nat /\ b \in 1 .. m /\ b - a \in 1 .. width
    BY <1>5
  <2>2. pieces[i] = SubSeq(s, a + 1, b)
    BY <1>4
  <2> HIDE DEF a, b
  <2>3. \A p \in a + 1 .. b : s[p] \in S
    BY <1>1, <2>1
  <2>4. /\ SubSeq(s, a + 1, b) \in Seq(S)
        /\ Len(SubSeq(s, a + 1, b)) = IF a + 1 <= b THEN b - (a + 1) + 1 ELSE 0
        /\ \A j \in 1 .. b - (a + 1) + 1 : SubSeq(s, a + 1, b)[j] = s[a + 1 + j - 1]
    BY <1>1, <2>1, <2>3, SubSeqProperties
  <2>5. a + 1 <= b /\ b - (a + 1) + 1 = b - a
    BY <1>1, <2>1
  <2>6. \A j \in 1 .. b - a : a + 1 + j - 1 = a + j /\ a + j \in 1 .. m
    BY <1>1, <2>1
  <2> QED  BY <2>2, <2>4, <2>5, <2>6 DEF a, b
<1>7. pieces \in Seq(Seq(S)) /\ Len(pieces) = n
  <2>1. pieces \in [1 .. n -> Seq(S)]
    BY <1>4, <1>6
  <2> QED  BY <1>3, <2>1, ListIsSeq
<1> DEFINE index == [q \in Nat \X Nat |-> start[q[1]] + q[2]]
<1>8. /\ index \in [Nat \X Nat -> Int]
      /\ \A i \in 1 .. n : \A j \in 1 .. Len(pieces[i]) : index[<<i, j>>] = start[i] + j /\ j \in 1 .. end[i] - start[i]
  <2>1. \A i \in 1 .. n : i \in Nat /\ Len(pieces[i]) = end[i] - start[i]
    BY <1>3, <1>6
  <2>2. \A i \in 1 .. n : \A j \in 1 .. Len(pieces[i]) : j \in Nat /\ j \in 1 .. end[i] - start[i]
    BY <1>5, <2>1
  <2>3. \A i \in Nat : start[i] \in Int
    BY DEF start
  <2> QED  BY <2>1, <2>2, <2>3
<1> HIDE DEF index
<1>9. \A p \in 1 .. m : \E i \in 1 .. n : \E j \in 1 .. Len(pieces[i]) : p = index[<<i, j>>]
  <2> SUFFICES ASSUME NEW p \in 1 .. m PROVE \E i \in 1 .. n : \E j \in 1 .. Len(pieces[i]) : p = index[<<i, j>>]
    OBVIOUS
  <2>1. PICK i \in Nat \ {0} : start[i] < p /\ p <= start[i] + width
    <3> DEFINE q == (p - 1) \div width
    <3>1. p - 1 \in Nat
      BY <1>1
    <3>2. q \in Nat /\ width * q <= p - 1 /\ p - 1 < width * q + width
      BY <3>1, Quotient
    <3> HIDE DEF q
    <3>3. start[q + 1] = width * q
      <4>1. PICK k \in Nat \ {0} : k = q + 1
        BY <3>2
      <4>2. k - 1 = q
        BY <3>2, <4>1
      <4>3. start[k] = (k - 1) * width
        BY <1>2
      <4>4. start[k] = q * width
        BY <4>2, <4>3
      <4> QED  BY <3>2, <4>1, <4>4
    <3>4. q + 1 \in Nat \ {0} /\ start[q + 1] \in Nat
      <4>1. \A k \in Nat \ {0} : start[k] \in Nat
        BY <1>2
      <4>2. q + 1 \in Nat \ {0}
        BY <3>2
      <4> QED  BY <4>1, <4>2
    <3> DEFINE total == width * q
    <3> HIDE DEF total
    <3>5. total <= p - 1 /\ p - 1 < total + width /\ start[q + 1] = total
      BY <3>2, <3>3 DEF total
    <3> QED  BY <1>1, <3>4, <3>5
  <2>2. i <= n
    <3>1. n # 0
      BY <1>1, <1>3
    <3>2. n < i => start[n] + width <= start[i]
      BY <1>2, <1>3, <3>1
    <3>3. start[n] \in Nat /\ start[i] \in Nat
      BY <1>2, <1>3, <3>1
    <3> QED  BY <1>1, <1>3, <2>1, <3>1, <3>2, <3>3
  <2>3. i \in 1 .. n
    BY <1>3, <2>1, <2>2
  <2>4. p - start[i] \in 1 .. end[i] - start[i] /\ p = start[i] + (p - start[i])
    <3>1. start[i] \in Nat /\ end[i] \in 1 .. m /\ (end[i] = start[i] + width \/ end[i] = m)
      BY <1>3, <1>5, <2>3
    <3> QED  BY <1>1, <2>1, <3>1
  <2>5. p - start[i] \in 1 .. Len(pieces[i])
    BY <1>6, <2>3, <2>4
  <2>6. p = index[<<i, p - start[i]>>]
    BY <1>8, <2>3, <2>4, <2>5
  <2> QED  BY <2>3, <2>5, <2>6
<1>10. ASSUME NEW i \in 1 .. n, NEW k \in 1 .. n, NEW j \in 1 .. Len(pieces[i]), NEW l \in 1 .. Len(pieces[k]),
              i < k \/ (i = k /\ j < l)
       PROVE  index[<<i, j>>] < index[<<k, l>>]
  <2>1. index[<<i, j>>] = start[i] + j /\ j \in 1 .. end[i] - start[i]
    BY <1>8
  <2>2. index[<<k, l>>] = start[k] + l /\ l \in 1 .. end[k] - start[k]
    BY <1>8
  <2>3. /\ start[i] \in Nat /\ end[i] \in 1 .. m /\ end[i] - start[i] \in 1 .. width
        /\ start[k] \in Nat /\ end[k] \in 1 .. m
    BY <1>5
  <2>4. i < k => start[i] + width <= start[k]
    <3>1. i \in Nat \ {0} /\ k \in Nat \ {0}
      BY <1>3
    <3> QED  BY <1>2, <3>1
  <2> DEFINE a == start[i]
             z == start[k]
  <2>5. /\ a \in Nat /\ z \in Nat /\ (i < k => a + width <= z)
        /\ j \in Int /\ l \in Int /\ j <= width /\ 1 <= l
    <3>1. j <= end[i] - a /\ end[i] - a <= width /\ end[i] \in Int
      BY <1>1, <2>1, <2>3
    <3> QED  BY <2>1, <2>2, <2>3, <2>4, <3>1
  <2>6. index[<<i, j>>] = a + j /\ index[<<k, l>>] = z + l /\ (i = k => a = z)
    BY <2>1, <2>2
  <2> HIDE DEF a, z
  <2>7. CASE i < k
    <3>1. a + j < z + l
      BY <2>5, <2>7
    <3> QED  BY <2>6, <3>1
  <2>8. CASE i = k /\ j < l
    <3>1. a + j < z + l
      BY <2>5, <2>6, <2>8
    <3> QED  BY <2>6, <3>1
  <2> QED  BY <1>10, <2>7, <2>8
<1>11. \A i \in 1 .. n : /\ Len(pieces[i]) \in Nat \ {0}
                       /\ \A j \in 1 .. Len(pieces[i]) : index[<<i, j>>] \in 1 .. m /\ pieces[i][j] = s[index[<<i, j>>]]
  <2> SUFFICES ASSUME NEW i \in 1 .. n
               PROVE  /\ Len(pieces[i]) \in Nat \ {0}
                      /\ \A j \in 1 .. Len(pieces[i]) :
                            index[<<i, j>>] \in 1 .. m /\ pieces[i][j] = s[index[<<i, j>>]]
    OBVIOUS
  <2>1. Len(pieces[i]) = end[i] - start[i]
    BY <1>6
  <2>2. Len(pieces[i]) \in Nat \ {0}
    BY <1>5, <2>1
  <2>3. \A j \in 1 .. Len(pieces[i]) :
            index[<<i, j>>] = start[i] + j /\ start[i] + j \in 1 .. m /\ pieces[i][j] = s[start[i] + j]
    BY <1>6, <1>8
  <2> QED  BY <2>2, <2>3
<1>12. m # 0 => n # 0
  BY <1>3
<1>13. n = (Len(s) + width - 1) \div width /\ m = Len(s)
  BY DEF n, m
<1>14. Places(index, pieces, s)
  <2>1. \A i \in 1 .. n : \A j \in 1 .. Len(pieces[i]) : index[<<i, j>>] \in 1 .. m /\ pieces[i][j] = s[index[<<i, j>>]]
    BY <1>11
  <2>2. \A i, k \in 1 .. n : \A j \in 1 .. Len(pieces[i]), l \in 1 .. Len(pieces[k]) :
            i < k \/ (i = k /\ j < l) => index[<<i, j>>] < index[<<k, l>>]
    BY <1>10
  <2>3. Len(pieces) = n /\ Len(s) = m
    BY <1>7, <1>13
  <2> QED  BY <1>9, <2>1, <2>2, <2>3, Zenon DEF Places
<1> QED
  BY <1>7, <1>11, <1>12, <1>13, <1>14 DEF pieces

\* Parts of a book, each with its heading.  A list of them is fine if each is good
\* and their lines ascend from each to the next.
Part == [title : Nat, body : Seq(Element)]
Full(p) == <<E!H(p.title)>> \o p.body
Tells(ps) == [i \in 1 .. Len(ps) |-> Says(Full(ps[i]))]
Tell(ps) == UNION {Says(Full(ps[i])) : i \in 1 .. Len(ps)}
Fine(ps, over) == (\A i \in 1 .. Len(ps) : Good(Full(ps[i]), over)) /\ Ordered(Tells(ps), Len(ps))

LEMMA Headed ==
    ASSUME NEW e \in Element, NEW b \in Seq(Element)
    PROVE  /\ <<e>> \o b \in Seq(Element) /\ Len(<<e>> \o b) = Len(b) + 1 /\ (<<e>> \o b)[1] = e
           /\ \A i \in 2 .. Len(b) + 1 : i - 1 \in 1 .. Len(b) /\ (<<e>> \o b)[i] = b[i - 1]
           /\ \A i \in 1 .. Len(b) : i + 1 \in 2 .. Len(b) + 1 /\ (<<e>> \o b)[i + 1] = b[i]
<1> DEFINE h == <<e>>
<1>1. h \in Seq(Element) /\ Len(h) = 1 /\ h[1] = e
  OBVIOUS
<1>2. Len(b) \in Nat
  BY SeqParts
<1> HIDE DEF h
<1>3. h \o b \in Seq(Element) /\ Len(h \o b) = Len(h) + Len(b)
  BY <1>1, ConcatProperties
<1>4. \A i \in 1 .. Len(h) + Len(b) : (h \o b)[i] = IF i <= Len(h) THEN h[i] ELSE b[i - Len(h)]
  BY <1>1, ConcatProperties
<1> DEFINE full == h \o b
<1> HIDE DEF full
<1>5. \A i \in 1 .. Len(b) + 1 : full[i] = IF i <= 1 THEN h[i] ELSE b[i - 1]
  <2>1. \A i \in 1 .. Len(h) + Len(b) : full[i] = IF i <= Len(h) THEN h[i] ELSE b[i - Len(h)]
    BY <1>4 DEF full
  <2>2. Len(h) + Len(b) = Len(b) + 1 /\ Len(h) = 1
    BY <1>1, <1>2
  <2> QED  BY <2>1, <2>2
<1>6. full \in Seq(Element) /\ Len(full) = Len(b) + 1
  BY <1>1, <1>2, <1>3 DEF full
<1>7. full[1] = e
  BY <1>1, <1>2, <1>5
<1>8. \A i \in 2 .. Len(b) + 1 : i - 1 \in 1 .. Len(b) /\ full[i] = b[i - 1]
  BY <1>2, <1>5
<1>9. \A i \in 1 .. Len(b) : i + 1 \in 2 .. Len(b) + 1 /\ full[i + 1] = b[i]
  BY <1>2, <1>5
<1> QED  BY <1>6, <1>7, <1>8, <1>9 DEF full, h

LEMMA FullIs ==
    ASSUME NEW p \in Part
    PROVE  /\ Full(p) \in Seq(Element) /\ Says(Full(p)) = Says(p.body)
           /\ \A over : Good(p.body, over) => Good(Full(p), over)
<1> DEFINE e == E!H(p.title)
           b == p.body
           full == <<e>> \o b
<1>1. e \in Element /\ e.tag = "h" /\ b \in Seq(Element) /\ Full(p) = full
  BY DEF Part, Element, E!H, Full
<1>2. Len(b) \in Nat
  BY <1>1, SeqParts
<1> HIDE DEF e, b, full
<1>3. /\ full \in Seq(Element) /\ Len(full) = Len(b) + 1 /\ full[1] = e
      /\ \A i \in 2 .. Len(b) + 1 : i - 1 \in 1 .. Len(b) /\ full[i] = b[i - 1]
      /\ \A i \in 1 .. Len(b) : i + 1 \in 2 .. Len(b) + 1 /\ full[i + 1] = b[i]
  BY <1>1, Headed DEF full
<1>4. Says(full) = Says(b)
  <2>1. ~IsLine(full[1])
    BY <1>1, <1>3 DEF IsLine
  <2>2. \A i \in 1 .. Len(b) + 1 : i = 1 \/ i \in 2 .. Len(b) + 1
    BY <1>2
  <2>3. Says(full) \subseteq Says(b)
    <3> SUFFICES ASSUME NEW i \in 1 .. Len(b) + 1, IsLine(full[i]) PROVE full[i].of \in Says(b)
      BY <1>3 DEF Says
    <3>1. i \in 2 .. Len(b) + 1
      BY <2>1, <2>2
    <3> QED  BY <1>3, <3>1 DEF Says
  <2>4. Says(b) \subseteq Says(full)
    <3> SUFFICES ASSUME NEW i \in 1 .. Len(b), IsLine(b[i]) PROVE b[i].of \in Says(full)
      BY DEF Says
    <3>1. i + 1 \in 1 .. Len(full) /\ full[i + 1] = b[i]
      BY <1>2, <1>3
    <3> QED  BY <3>1 DEF Says
  <2> QED  BY <2>3, <2>4
<1>5. \A over : Good(b, over) => Good(full, over)
  <2> SUFFICES ASSUME NEW over, Good(b, over) PROVE Good(full, over)
    OBVIOUS
  <2> DEFINE h == <<e>>
  <2>1. h \in Seq(Element) /\ Len(h) = 1 /\ ~IsLine(h[1])
    BY <1>1 DEF IsLine
  <2> HIDE DEF h
  <2>2. Says(h) = {} /\ Good(h, over)
    BY <2>1 DEF Says, Good
  <2>3. Below(Says(h), Says(b))
    BY <2>2 DEF Below
  <2>4. Good(h \o b, over)
    BY <1>1, <2>1, <2>2, <2>3, GoodTogether
  <2> QED  BY <2>4 DEF full, h
<1> QED  BY <1>1, <1>3, <1>4, <1>5 DEF b

\* Packing keeps every line, and no more files than MaxFiles come of it.
LEMMA FewGroups ==
    ASSUME NEW length \in Nat, length > MaxFiles
    PROVE  LET width == (length + MaxFiles - 1) \div MaxFiles IN
           width \in Nat \ {0} /\ (length + width - 1) \div width \in 1 .. MaxFiles
<1> DEFINE width == (length + MaxFiles - 1) \div MaxFiles
           k == (length + width - 1) \div width
<1>1. MaxFiles \in Nat \ {0}
  BY TextsAssumption
<1>2. width \in Nat /\ MaxFiles * width <= length + MaxFiles - 1 /\ length + MaxFiles - 1 < MaxFiles * width + MaxFiles
  <2>1. length + MaxFiles - 1 \in Nat
    BY <1>1
  <2> QED  BY <1>1, <2>1, Quotient
<1>3. width # 0
  <2> HIDE DEF width
  <2>1. width = 0 => MaxFiles * width = 0
    BY <1>1
  <2> QED  BY <1>1, <1>2, <2>1
<1>4. k \in Nat /\ width * k <= length + width - 1 /\ length + width - 1 < width * k + width
  <2> HIDE DEF width
  <2>1. length + width - 1 \in Nat
    BY <1>2, <1>3
  <2> QED  BY <1>2, <1>3, <2>1, Quotient
<1> HIDE DEF k, width
<1>5. k # 0
  <2>1. k = 0 => width * k = 0
    BY <1>2
  <2> QED  BY <1>1, <1>2, <1>4, <2>1
<1>6. k <= MaxFiles
  <2> SUFFICES ASSUME MaxFiles < k PROVE FALSE
    BY <1>1, <1>4
  <2>1. k - MaxFiles - 1 \in Nat
    BY <1>1, <1>4
  <2>2. width * k = MaxFiles * width + width + width * (k - MaxFiles - 1)
    BY <1>1, <1>2, <1>4
  <2>3. width * (k - MaxFiles - 1) \in Nat /\ MaxFiles * width \in Nat /\ width * k \in Nat
    BY <1>1, <1>2, <1>4, <2>1
  <2> DEFINE x == width * k
             y == MaxFiles * width
             z == width * (k - MaxFiles - 1)
  <2>4. x = y + width + z /\ x \in Nat /\ y \in Nat /\ z \in Nat
    BY <2>2, <2>3
  <2>5. x <= length + width - 1 /\ length + MaxFiles - 1 < y + MaxFiles
    BY <1>2, <1>4
  <2> HIDE DEF x, y, z
  <2> QED  BY <1>1, <1>2, <2>4, <2>5
<1> QED  BY <1>1, <1>2, <1>3, <1>4, <1>5, <1>6 DEF k, width

LEMMA PackKeeps ==
    ASSUME NEW ps \in Seq(Part), ps # <<>>, NEW over, Fine(ps, over)
    PROVE  /\ E!Pack(ps) \in Seq(Part) /\ Len(E!Pack(ps)) \in 1 .. MaxFiles
           /\ Fine(E!Pack(ps), over) /\ Tell(E!Pack(ps)) = Tell(ps)
<1>1. Len(ps) \in Nat \ {0} /\ \A i \in 1 .. Len(ps) : ps[i] \in Part
  BY SeqParts
<1>2. MaxFiles \in Nat \ {0}
  BY TextsAssumption
<1>3. CASE Len(ps) <= MaxFiles
  BY <1>1, <1>2, <1>3 DEF E!Pack
<1>4. CASE Len(ps) > MaxFiles
  <2> DEFINE width == (Len(ps) + MaxFiles - 1) \div MaxFiles
             groups == E!Pieces(ps, width)
             group(i) == [j \in 1 .. Len(groups[i]) |-> Full(groups[i][j])]
             pack == E!Pack(ps)
             n == Len(groups)
  <2>1. width \in Nat \ {0} /\ (Len(ps) + width - 1) \div width \in 1 .. MaxFiles
    BY <1>1, <1>4, FewGroups
  <2>2. pack = [i \in DOMAIN groups |->
                    [title |-> groups[i][1].title,
                     body |-> E!FlattenSeq([j \in DOMAIN groups[i] |-> <<E!H(groups[i][j].title)>> \o groups[i][j].body])]]
    BY <1>1, <1>2, <1>4 DEF E!Pack
  <2> HIDE DEF width, pack
  <2>3. /\ groups \in Seq(Seq(Part)) /\ n \in 1 .. MaxFiles
        /\ \A i \in 1 .. n : Len(groups[i]) \in Nat \ {0}
        /\ \E index : Places(index, groups, ps)
    BY <2>1, PiecesIs
  <2>4. PICK index : Places(index, groups, ps)
    BY <2>3
  <2> HIDE DEF groups
  <2>5. n \in Nat \ {0} /\ DOMAIN groups = 1 .. n /\ \A i \in 1 .. n : groups[i] \in Seq(Part)
    BY <1>2, <2>3, SeqParts
  <2>6. \A i \in 1 .. n : DOMAIN groups[i] = 1 .. Len(groups[i]) /\ \A j \in 1 .. Len(groups[i]) : groups[i][j] \in Part
    BY <2>5, SeqParts
  <2>7. ASSUME NEW i \in 1 .. n
        PROVE  /\ pack[i] \in Part /\ Good(Full(pack[i]), over)
               /\ \A x : x \in Says(Full(pack[i])) <=> \E j \in 1 .. Len(groups[i]) : x \in Says(Full(groups[i][j]))
    <3>1. pack[i] = [title |-> groups[i][1].title, body |-> E!FlattenSeq(group(i))]
      BY <2>2, <2>5, <2>6 DEF Full
    <3>2. group(i) \in Seq(Seq(Element)) /\ Len(group(i)) = Len(groups[i])
      <4>1. group(i) \in [1 .. Len(groups[i]) -> Seq(Element)]
        BY <2>6, FullIs
      <4> HIDE DEF group
      <4> QED  BY <2>3, <4>1, ListIsSeq
    <3>3. \A j \in 1 .. Len(groups[i]) : /\ group(i)[j] = Full(groups[i][j])
                                         /\ index[<<i, j>>] \in 1 .. Len(ps) /\ groups[i][j] = ps[index[<<i, j>>]]
      BY <2>4 DEF Places
    <3>4. \A j \in 1 .. Len(groups[i]) : Good(group(i)[j], over)
      BY <3>3 DEF Fine
    <3> HIDE DEF group
    <3>5. Ordered(Told(group(i)), Len(groups[i]))
      <4> SUFFICES ASSUME NEW j \in 1 .. Len(groups[i]), NEW k \in 1 .. Len(groups[i]), j < k
                   PROVE  Below(Says(group(i)[j]), Says(group(i)[k]))
        BY <3>2 DEF Ordered, Told
      <4>1. index[<<i, j>>] < index[<<i, k>>]
        BY <2>4 DEF Places
      <4> QED  BY <3>3, <4>1 DEF Fine, Ordered, Tells
    <3>6. /\ E!FlattenSeq(group(i)) \in Seq(Element) /\ Good(E!FlattenSeq(group(i)), over)
          /\ Says(E!FlattenSeq(group(i))) = UNION {Says(group(i)[j]) : j \in 1 .. Len(groups[i])}
      BY <3>2, <3>4, <3>5, GoodFlat
    <3>7. groups[i][1].title \in Nat
      <4>1. 1 \in 1 .. Len(groups[i])
        BY <2>3
      <4> QED  BY <2>6, <4>1 DEF Part
    <3>8. pack[i] \in Part /\ pack[i].body = E!FlattenSeq(group(i))
      BY <3>1, <3>6, <3>7 DEF Part
    <3>9. Good(Full(pack[i]), over) /\ Says(Full(pack[i])) = UNION {Says(group(i)[j]) : j \in 1 .. Len(groups[i])}
      BY <3>6, <3>8, FullIs
    <3>10. \A x : x \in Says(Full(pack[i])) <=> \E j \in 1 .. Len(groups[i]) : x \in Says(group(i)[j])
      BY <3>9
    <3> QED  BY <3>3, <3>8, <3>9, <3>10
  <2>8. pack \in Seq(Part) /\ Len(pack) = n
    <3>1. pack \in [1 .. n -> Part]
      BY <2>2, <2>5, <2>7
    <3> HIDE DEF n
    <3> QED  BY <2>5, <3>1, ListIsSeq
  <2>9. Fine(pack, over)
    <3>1. ASSUME NEW i \in 1 .. n, NEW k \in 1 .. n, i < k PROVE Below(Says(Full(pack[i])), Says(Full(pack[k])))
      <4> SUFFICES ASSUME NEW j \in 1 .. Len(groups[i]), NEW l \in 1 .. Len(groups[k])
                   PROVE  Below(Says(Full(groups[i][j])), Says(Full(groups[k][l])))
        BY <2>7 DEF Below
      <4>1. /\ index[<<i, j>>] < index[<<k, l>>] /\ index[<<i, j>>] \in 1 .. Len(ps) /\ index[<<k, l>>] \in 1 .. Len(ps)
            /\ groups[i][j] = ps[index[<<i, j>>]] /\ groups[k][l] = ps[index[<<k, l>>]]
        BY <2>4, <3>1 DEF Places
      <4> QED  BY <4>1 DEF Fine, Ordered, Tells
    <3> QED  BY <2>7, <2>8, <3>1 DEF Fine, Ordered, Tells
  <2>10. Tell(pack) = Tell(ps)
    <3>1. \A i \in 1 .. n : Says(Full(pack[i])) \subseteq Tell(ps)
      <4> SUFFICES ASSUME NEW i \in 1 .. n, NEW j \in 1 .. Len(groups[i]) PROVE Says(Full(groups[i][j])) \subseteq Tell(ps)
        BY <2>7
      <4>1. index[<<i, j>>] \in 1 .. Len(ps) /\ groups[i][j] = ps[index[<<i, j>>]]
        BY <2>4 DEF Places
      <4> QED  BY <4>1 DEF Tell
    <3>2. \A p \in 1 .. Len(ps) : Says(Full(ps[p])) \subseteq Tell(pack)
      <4> SUFFICES ASSUME NEW p \in 1 .. Len(ps) PROVE Says(Full(ps[p])) \subseteq Tell(pack)
        OBVIOUS
      <4>1. PICK i \in 1 .. n : \E j \in 1 .. Len(groups[i]) : p = index[<<i, j>>]
        BY <2>4 DEF Places
      <4>2. PICK j \in 1 .. Len(groups[i]) : p = index[<<i, j>>]
        BY <4>1
      <4>3. groups[i][j] = ps[p]
        BY <2>4, <4>2 DEF Places
      <4>4. Says(Full(ps[p])) \subseteq Says(Full(pack[i]))
        BY <2>7, <4>3
      <4> QED  BY <2>8, <4>4 DEF Tell
    <3> QED  BY <2>8, <3>1, <3>2 DEF Tell
  <2> QED  BY <2>3, <2>8, <2>9, <2>10 DEF pack
<1> QED  BY <1>1, <1>2, <1>3, <1>4

\* Chapters, by the lines that they have.
Chapter == [title : Nat, paras : Seq(Nat)]
LineNumbers(c) == Entries(c.paras) \ {0}
Right(c, over) ==
    /\ \A p \in LineNumbers(c) : over[p] = c.title
    /\ \A i, j \in 1 .. Len(c.paras) : i < j /\ c.paras[i] # 0 /\ c.paras[j] # 0 => c.paras[i] < c.paras[j]
LinesBy(cs) == [i \in 1 .. Len(cs) |-> LineNumbers(cs[i])]
LinesOfAll(cs) == UNION {LineNumbers(cs[i]) : i \in 1 .. Len(cs)}
Fit(cs, over) ==
    (\A i \in 1 .. Len(cs) : cs[i].paras # <<>> /\ Right(cs[i], over)) /\ Ordered(LinesBy(cs), Len(cs))

\* The part made of some paragraphs of a chapter.
LEMMA PartIs ==
    ASSUME NEW c \in Chapter, NEW over, Right(c, over)
    PROVE  LET p == [title |-> c.title, body |-> E!Body(c.paras)] IN
           p \in Part /\ Good(Full(p), over) /\ Says(Full(p)) = LineNumbers(c)
<1> DEFINE e == E!H(c.title)
           b == E!Body(c.paras)
           p == [title |-> c.title, body |-> b]
           full == <<e>> \o b
           t == c.paras
           n == Len(t)
<1>1. n \in Nat /\ DOMAIN t = 1 .. n /\ t \in Seq(Nat) /\ c.title \in Nat /\ \A i \in 1 .. n : t[i] \in Nat
  BY SeqParts DEF Chapter
<1>2. b = [i \in 1 .. n |-> [tag |-> "p", of |-> t[i]]]
  BY <1>1 DEF E!Body, E!P
<1>3. b \in Seq(Element) /\ Len(b) = n
  <2>1. b \in [1 .. n -> Element]
    BY <1>1, <1>2 DEF Element
  <2> HIDE DEF b, n
  <2> QED  BY <1>1, <2>1, ListIsSeq
<1>4. \A i \in 1 .. n : b[i].tag = "p" /\ b[i].of = t[i] /\ (IsLine(b[i]) <=> t[i] # 0)
  BY <1>2 DEF IsLine
<1>5. p \in Part /\ p.body = b /\ Full(p) = full
  BY <1>1, <1>3 DEF Part, Full
<1>6. e \in Element /\ e.tag = "h" /\ e.of = c.title /\ ~IsLine(e)
  BY <1>1 DEF Element, E!H, IsLine
<1> HIDE DEF e, b, p, full
<1>7. Says(full) = LineNumbers(c)
  <2>1. Says(b) = LineNumbers(c)
    BY <1>3, <1>4 DEF Says, LineNumbers, Entries
  <2> QED  BY <1>5, <2>1, FullIs
<1> HIDE DEF n, t
<1>8. /\ full \in Seq(Element) /\ Len(full) = n + 1 /\ full[1] = e
      /\ \A i \in 2 .. n + 1 : i - 1 \in 1 .. n /\ full[i] = b[i - 1]
  BY <1>3, <1>6, Headed DEF full
<1>9. \A i \in 1 .. n + 1 : i = 1 \/ i \in 2 .. n + 1
  BY <1>1
<1>10. ASSUME NEW i \in 1 .. n + 1, IsLine(full[i])
       PROVE  i \in 2 .. n + 1 /\ i - 1 \in 1 .. n /\ full[i].of = t[i - 1] /\ t[i - 1] # 0
  <2>1. i \in 2 .. n + 1
    BY <1>6, <1>8, <1>9, <1>10
  <2>2. i - 1 \in 1 .. n /\ full[i] = b[i - 1]
    BY <1>8, <2>1
  <2> QED  BY <1>4, <1>10, <2>1, <2>2
<1>11. ASSUME NEW i \in 1 .. n + 1, NEW j \in 1 .. n + 1, i < j, IsLine(full[i]), IsLine(full[j])
       PROVE  full[i].of < full[j].of
  <2>1. /\ i - 1 \in 1 .. n /\ full[i].of = t[i - 1] /\ t[i - 1] # 0
        /\ j - 1 \in 1 .. n /\ full[j].of = t[j - 1] /\ t[j - 1] # 0
    BY <1>10, <1>11
  <2>2. i - 1 < j - 1
    BY <1>1, <1>11
  <2> QED  BY <2>1, <2>2 DEF Right, n, t
<1>12. ASSUME NEW i \in 1 .. n + 1, IsLine(full[i])
       PROVE  \E k \in 1 .. n + 1 : Under(full, k, i) /\ full[k].of = over[full[i].of]
  <2>1. i \in 2 .. n + 1 /\ i - 1 \in 1 .. n /\ full[i].of = t[i - 1] /\ t[i - 1] # 0
    BY <1>10, <1>12
  <2>2. t[i - 1] \in LineNumbers(c)
    BY <2>1 DEF LineNumbers, Entries, n, t
  <2>3. full[1].of = over[full[i].of] /\ full[1].tag = "h"
    BY <1>6, <1>8, <2>1, <2>2 DEF Right
  <2>4. ASSUME NEW j \in 1 + 1 .. i - 1 PROVE full[j].tag = "p"
    <3>1. j \in 2 .. n + 1
      BY <1>1, <2>1
    <3>2. j - 1 \in 1 .. n /\ full[j] = b[j - 1]
      BY <1>8, <3>1
    <3> QED  BY <1>4, <3>2
  <2>5. 1 \in 1 .. i - 1 /\ 1 \in 1 .. n + 1
    BY <1>1, <2>1
  <2>6. Under(full, 1, i)
    BY <2>3, <2>4, <2>5 DEF Under
  <2> QED  BY <2>3, <2>5, <2>6
<1>13. Good(full, over)
  BY <1>8, <1>11, <1>12 DEF Good
<1> QED  BY <1>5, <1>7, <1>13 DEF p, b

\* A chapter is split into parts that have its paragraphs.
LEMMA PartsOfIs ==
    ASSUME NEW c \in Chapter, c.paras # <<>>, NEW over, Right(c, over)
    PROVE  /\ E!PartsOf(c) \in Seq(Part) /\ E!PartsOf(c) # <<>>
           /\ Fine(E!PartsOf(c), over) /\ Tell(E!PartsOf(c)) = LineNumbers(c)
<1> DEFINE t == c.paras
           pieces == IF source = "openiti" THEN E!Pieces(t, Parasize) ELSE <<t>>
           n == Len(pieces)
           parts == E!PartsOf(c)
<1>1. t \in Seq(Nat) /\ Len(t) \in Nat \ {0} /\ c.title \in Nat
  BY SeqParts DEF Chapter
<1> DEFINE placed == pieces \in Seq(Seq(Nat)) /\ n # 0 /\ \E index : Places(index, pieces, t)
<1>2. placed
  <2>1. CASE source = "openiti"
    <3>1. Parasize \in Nat \ {0}
      BY TextsAssumption
    <3> HIDE DEF t
    <3>2. pieces = E!Pieces(t, Parasize)
      BY <2>1
    <3> HIDE DEF pieces
    <3> QED  BY <1>1, <3>1, <3>2, PiecesIs
  <2>2. CASE source # "openiti"
    <3> DEFINE index == [q \in Nat \X Nat |-> q[2]]
    <3>1. pieces = <<t>>
      BY <2>2
    <3> HIDE DEF pieces, t
    <3>2. pieces \in Seq(Seq(Nat)) /\ n = 1 /\ pieces[1] = t
      BY <1>1, <3>1
    <3>3. \A j \in 1 .. Len(t) : index[<<1, j>>] = j /\ j \in Int
      BY <1>1
    <3> HIDE DEF index, n
    <3>4. \A i \in 1 .. n : i = 1
      BY <3>2
    <3>5. \A i \in 1 .. n : \A j \in 1 .. Len(pieces[i]) : index[<<i, j>>] \in 1 .. Len(t) /\ pieces[i][j] = t[index[<<i, j>>]]
      BY <3>2, <3>3, <3>4
    <3>8. \A p \in 1 .. Len(t) : \E i \in 1 .. n : \E j \in 1 .. Len(pieces[i]) : p = index[<<i, j>>]
      <4> SUFFICES ASSUME NEW p \in 1 .. Len(t) PROVE \E i \in 1 .. n : \E j \in 1 .. Len(pieces[i]) : p = index[<<i, j>>]
        OBVIOUS
      <4>1. 1 \in 1 .. n /\ p \in 1 .. Len(pieces[1]) /\ p = index[<<1, p>>]
        BY <3>2, <3>3
      <4> QED  BY <4>1
    <3>6. \A i, k \in 1 .. n : \A j \in 1 .. Len(pieces[i]), l \in 1 .. Len(pieces[k]) :
            i < k \/ (i = k /\ j < l) => index[<<i, j>>] < index[<<k, l>>]
      BY <3>2, <3>3, <3>4
    <3>7. Places(index, pieces, t)
      BY <3>5, <3>6, <3>8 DEF Places, n
    <3> QED  BY <3>2, <3>7 DEF n
  <2> QED  BY <2>1, <2>2
<1>3. parts = [i \in DOMAIN pieces |-> [title |-> c.title, body |-> E!Body(pieces[i])]]
  BY DEF E!PartsOf
<1> HIDE DEF pieces, parts
<1>4. PICK index : Places(index, pieces, t)
  BY <1>2
<1>5. n \in Nat \ {0} /\ DOMAIN pieces = 1 .. n /\ \A i \in 1 .. n : pieces[i] \in Seq(Nat)
  BY <1>2, SeqParts
<1>6. ASSUME NEW i \in 1 .. n
      PROVE  /\ parts[i] \in Part /\ Good(Full(parts[i]), over)
             /\ Says(Full(parts[i])) = Entries(pieces[i]) \ {0}
  <2> DEFINE d == [title |-> c.title, paras |-> pieces[i]]
  <2>1. d \in Chapter /\ d.title = c.title /\ d.paras = pieces[i]
    BY <1>1, <1>5 DEF Chapter
  <2>2. \A j \in 1 .. Len(pieces[i]) : index[<<i, j>>] \in 1 .. Len(t) /\ pieces[i][j] = t[index[<<i, j>>]]
    BY <1>4 DEF Places
  <2>3. \A j, l \in 1 .. Len(pieces[i]) : j < l => index[<<i, j>>] < index[<<i, l>>]
    BY <1>4 DEF Places
  <2> HIDE DEF d
  <2>4. LineNumbers(d) \subseteq LineNumbers(c)
    BY <2>1, <2>2 DEF LineNumbers, Entries
  <2>5. Right(d, over)
    <3>1. \A p \in LineNumbers(d) : over[p] = d.title
      BY <2>1, <2>4 DEF Right
    <3>2. \A j, l \in 1 .. Len(pieces[i]) : j < l /\ pieces[i][j] # 0 /\ pieces[i][l] # 0 => pieces[i][j] < pieces[i][l]
      BY <2>2, <2>3 DEF Right
    <3> QED  BY <2>1, <3>1, <3>2 DEF Right
  <2>6. parts[i] = [title |-> d.title, body |-> E!Body(d.paras)]
    BY <1>3, <1>5, <2>1
  <2> QED  BY <2>1, <2>5, <2>6, PartIs DEF LineNumbers
<1>7. parts \in Seq(Part) /\ Len(parts) = n
  <2>1. parts \in [1 .. n -> Part]
    BY <1>3, <1>5, <1>6
  <2> HIDE DEF n
  <2> QED  BY <1>5, <2>1, ListIsSeq
<1>8. Fine(parts, over)
  <2>1. ASSUME NEW i \in 1 .. n, NEW k \in 1 .. n, i < k PROVE Below(Says(Full(parts[i])), Says(Full(parts[k])))
    <3> SUFFICES ASSUME NEW j \in 1 .. Len(pieces[i]), NEW l \in 1 .. Len(pieces[k]), pieces[i][j] # 0, pieces[k][l] # 0
                 PROVE  pieces[i][j] < pieces[k][l]
      <4>1. Says(Full(parts[i])) = Entries(pieces[i]) \ {0} /\ Says(Full(parts[k])) = Entries(pieces[k]) \ {0}
        BY <1>6
      <4> QED  BY <4>1 DEF Below, Entries
    <3>1. /\ index[<<i, j>>] < index[<<k, l>>] /\ index[<<i, j>>] \in 1 .. Len(t) /\ index[<<k, l>>] \in 1 .. Len(t)
          /\ pieces[i][j] = t[index[<<i, j>>]] /\ pieces[k][l] = t[index[<<k, l>>]]
      BY <1>4, <2>1 DEF Places
    <3> QED  BY <3>1 DEF Right
  <2> QED  BY <1>6, <1>7, <2>1 DEF Fine, Ordered, Tells
<1>9. Tell(parts) = LineNumbers(c)
  <2>1. \A i \in 1 .. n : Entries(pieces[i]) \subseteq Entries(t)
    <3> SUFFICES ASSUME NEW i \in 1 .. n, NEW j \in 1 .. Len(pieces[i]) PROVE pieces[i][j] \in Entries(t)
      BY DEF Entries
    <3>1. index[<<i, j>>] \in 1 .. Len(t) /\ pieces[i][j] = t[index[<<i, j>>]]
      BY <1>4 DEF Places
    <3> QED  BY <3>1 DEF Entries
  <2>2. \A x \in Entries(t) : \E i \in 1 .. n : x \in Entries(pieces[i])
    <3> SUFFICES ASSUME NEW p \in 1 .. Len(t) PROVE \E i \in 1 .. n : t[p] \in Entries(pieces[i])
      BY DEF Entries
    <3>1. PICK i \in 1 .. n : \E j \in 1 .. Len(pieces[i]) : p = index[<<i, j>>]
      BY <1>4 DEF Places
    <3>2. PICK j \in 1 .. Len(pieces[i]) : p = index[<<i, j>>]
      BY <3>1
    <3>3. pieces[i][j] = t[p]
      BY <1>4, <3>2 DEF Places
    <3> QED  BY <3>3 DEF Entries
  <2>3. \A x : x \in Tell(parts) <=> \E i \in 1 .. n : x \in Entries(pieces[i]) \ {0}
    <3>1. \A x : x \in Tell(parts) <=> \E i \in 1 .. n : x \in Says(Full(parts[i]))
      BY <1>7 DEF Tell
    <3>2. \A i \in 1 .. n : Says(Full(parts[i])) = Entries(pieces[i]) \ {0}
      BY <1>6
    <3> DEFINE says(i) == Says(Full(parts[i]))
               entries(i) == Entries(pieces[i]) \ {0}
    <3>3. \A i \in 1 .. n : says(i) = entries(i)
      BY <3>2
    <3>4. \A x : x \in Tell(parts) <=> \E i \in 1 .. n : x \in says(i)
      BY <3>1
    <3> HIDE DEF says, entries
    <3>5. \A x : x \in Tell(parts) <=> \E i \in 1 .. n : x \in entries(i)
      BY <3>3, <3>4
    <3> QED  BY <3>5 DEF entries
  <2>4. LineNumbers(c) = Entries(t) \ {0}
    BY DEF LineNumbers
  <2> HIDE DEF t, n
  <2> QED  BY <2>1, <2>2, <2>3, <2>4
<1>10. parts # <<>>
  BY <1>5, <1>7, SeqParts
<1> QED  BY <1>7, <1>8, <1>9, <1>10 DEF parts

\* Lists of parts joined.
LEMMA FineTogether ==
    ASSUME NEW s \in Seq(Part), NEW t \in Seq(Part), NEW over,
           Fine(s, over), Fine(t, over), Below(Tell(s), Tell(t))
    PROVE  Fine(s \o t, over) /\ Tell(s \o t) = Tell(s) \union Tell(t)
<1> DEFINE st == s \o t
           m == Len(s)
           n == Len(t)
<1>1. /\ m \in Nat /\ n \in Nat /\ Len(st) = m + n
      /\ \A i \in 1 .. m : st[i] = s[i] /\ i \in 1 .. m + n
      /\ \A i \in 1 .. n : st[m + i] = t[i] /\ m + i \in 1 .. m + n
  BY ConcatProperties, SeqParts
<1> HIDE DEF st, m, n
<1>2. \A i \in 1 .. m + n : i \in 1 .. m \/ \E k \in 1 .. n : i = m + k
  <2> SUFFICES ASSUME NEW i \in 1 .. m + n, i \notin 1 .. m PROVE i - m \in 1 .. n /\ i = m + (i - m)
    OBVIOUS
  <2> QED  BY <1>1
<1> DEFINE S(i) == Says(Full(st[i]))
<1>3. /\ \A i \in 1 .. m : S(i) = Says(Full(s[i])) /\ S(i) \subseteq Tell(s) /\ Good(Full(st[i]), over)
      /\ \A i \in 1 .. n : S(m + i) = Says(Full(t[i])) /\ S(m + i) \subseteq Tell(t) /\ Good(Full(st[m + i]), over)
  BY <1>1 DEF Fine, Tell, m, n
<1>4. \A i \in 1 .. m + n : Good(Full(st[i]), over)
  BY <1>2, <1>3
<1>5. ASSUME NEW i \in 1 .. m + n, NEW j \in 1 .. m + n, i < j PROVE Below(S(i), S(j))
  <2>1. CASE j \in 1 .. m
    <3>1. i \in 1 .. m
      BY <1>1, <1>5, <2>1
    <3> QED  BY <1>3, <1>5, <2>1, <3>1 DEF Fine, Ordered, Tells, m
  <2>2. CASE j \notin 1 .. m
    <3>1. PICK l \in 1 .. n : j = m + l
      BY <1>2, <2>2
    <3>2. CASE i \in 1 .. m
      BY <1>3, <3>1, <3>2 DEF Below
    <3>3. CASE i \notin 1 .. m
      <4>1. PICK k \in 1 .. n : i = m + k
        BY <1>2, <3>3
      <4>2. k < l
        BY <1>1, <1>5, <3>1, <4>1
      <4> QED  BY <1>3, <3>1, <4>1, <4>2 DEF Fine, Ordered, Tells, n
    <3> QED  BY <3>2, <3>3
  <2> QED  BY <2>1, <2>2
<1>6. Tell(st) = Tell(s) \union Tell(t)
  <2>1. Tell(s) \subseteq Tell(st)
    BY <1>1, <1>3 DEF Tell, m
  <2>2. Tell(t) \subseteq Tell(st)
    <3> SUFFICES ASSUME NEW i \in 1 .. n PROVE Says(Full(t[i])) \subseteq Tell(st)
      BY DEF Tell, n
    <3>1. m + i \in 1 .. Len(st) /\ S(m + i) = Says(Full(t[i]))
      BY <1>1, <1>3
    <3> QED  BY <3>1 DEF Tell
  <2>3. \A i \in 1 .. m + n : S(i) \subseteq Tell(s) \union Tell(t)
    BY <1>2, <1>3
  <2>4. Tell(st) \subseteq Tell(s) \union Tell(t)
    BY <1>1, <2>3 DEF Tell
  <2> QED  BY <2>1, <2>2, <2>4
<1>7. Fine(st, over)
  BY <1>1, <1>4, <1>5 DEF Fine, Ordered, Tells
<1> QED  BY <1>6, <1>7 DEF st

LEMMA FineFlat ==
    ASSUME NEW seqs \in Seq(Seq(Part)), NEW over, seqs # <<>>,
           \A k \in 1 .. Len(seqs) : seqs[k] # <<>> /\ Fine(seqs[k], over),
           Ordered([k \in 1 .. Len(seqs) |-> Tell(seqs[k])], Len(seqs))
    PROVE  /\ E!FlattenSeq(seqs) \in Seq(Part) /\ E!FlattenSeq(seqs) # <<>> /\ Fine(E!FlattenSeq(seqs), over)
           /\ Tell(E!FlattenSeq(seqs)) = UNION {Tell(seqs[k]) : k \in 1 .. Len(seqs)}
<1> DEFINE n == Len(seqs)
           sofar(k) == UNION {Tell(seqs[j]) : j \in 1 .. k}
           T == [k \in 0 .. n |-> {s \in Seq(Part) : (k # 0 => s # <<>>) /\ Fine(s, over) /\ Tell(s) = sofar(k)}]
<1>1. n \in Nat \ {0} /\ \A k \in 1 .. n : seqs[k] \in Seq(Part)
  BY SeqParts
<1>2. <<>> \in T[0]
  <2>1. sofar(0) = {} /\ 0 \in 0 .. n /\ <<>> \in Seq(Part)
    BY <1>1, EmptySeq
  <2>2. Fine(<<>>, over) /\ Tell(<<>>) = {}
    BY EmptySeq DEF Fine, Ordered, Tell
  <2> QED  BY <2>1, <2>2
<1>3. ASSUME NEW k \in 1 .. n, NEW s \in Seq(Part) \intersect T[k - 1] PROVE s \o seqs[k] \in T[k]
  <2>1. k - 1 \in 0 .. n /\ k \in 0 .. n /\ k - 1 < k /\ k \in Int
    BY <1>1
  <2>2. Fine(s, over) /\ Tell(s) = sofar(k - 1)
    BY <2>1
  <2>3. Below(sofar(k - 1), Tell(seqs[k]))
    <3> SUFFICES ASSUME NEW j \in 1 .. k - 1 PROVE Below(Tell(seqs[j]), Tell(seqs[k]))
      BY DEF Below
    <3>1. j \in 1 .. n /\ j < k
      BY <1>1
    <3> QED  BY <3>1 DEF Ordered
  <2>4. Fine(s \o seqs[k], over) /\ Tell(s \o seqs[k]) = sofar(k - 1) \union Tell(seqs[k])
    <3> HIDE DEF sofar, T
    <3> QED  BY <1>1, <2>2, <2>3, FineTogether
  <2>5. sofar(k) = sofar(k - 1) \union Tell(seqs[k])
    <3>1. 1 .. k = 1 .. k - 1 \union {k}
      BY <2>1
    <3> QED  BY <3>1
  <2>6. s \o seqs[k] \in Seq(Part) /\ s \o seqs[k] # <<>>
    <3> DEFINE t == seqs[k]
    <3>1. s \in Seq(Part) /\ t \in Seq(Part) /\ t # <<>>
      BY <1>1
    <3> HIDE DEF t
    <3>2. s \o t \in Seq(Part) /\ s \o t # <<>>
      BY <3>1, ConcatProperties, ConcatEqualIffEmpty
    <3> QED  BY <3>2 DEF t
  <2> HIDE DEF sofar
  <2> QED  BY <2>1, <2>4, <2>5, <2>6
<1> HIDE DEF sofar
<1>4. E!FlattenSeq(seqs) \in Seq(Part) /\ E!FlattenSeq(seqs) \in T[n]
  <2> HIDE DEF T
  <2> QED  BY <1>2, <1>3, Flattened
<1>5. n \in 0 .. n
  BY <1>1
<1> QED  BY <1>1, <1>4, <1>5 DEF sofar

\* The parts of fitting chapters are fine, and have all their lines.
LEMMA PartsKeep ==
    ASSUME NEW cs \in Seq(Chapter), cs # <<>>, NEW over, Fit(cs, over)
    PROVE  LET parts == E!FlattenSeq([i \in DOMAIN cs |-> E!PartsOf(cs[i])]) IN
           parts \in Seq(Part) /\ parts # <<>> /\ Fine(parts, over) /\ Tell(parts) = LinesOfAll(cs)
<1> DEFINE seqs == [i \in DOMAIN cs |-> E!PartsOf(cs[i])]
           n == Len(cs)
<1>1. n \in Nat \ {0} /\ DOMAIN cs = 1 .. n /\ \A i \in 1 .. n : cs[i] \in Chapter
  BY SeqParts
<1>2. \A i \in 1 .. n : /\ seqs[i] \in Seq(Part) /\ seqs[i] # <<>>
                        /\ Fine(seqs[i], over) /\ Tell(seqs[i]) = LineNumbers(cs[i])
  BY <1>1, PartsOfIs DEF Fit
<1>3. seqs \in Seq(Seq(Part)) /\ Len(seqs) = n
  <2>1. seqs \in [1 .. n -> Seq(Part)]
    BY <1>1, <1>2
  <2> HIDE DEF seqs, n
  <2> QED  BY <1>1, <2>1, ListIsSeq
<1> HIDE DEF seqs
<1>4. Ordered([k \in 1 .. n |-> Tell(seqs[k])], n)
  BY <1>2 DEF Fit, Ordered, LinesBy
<1>5. seqs # <<>>
  BY <1>1, <1>3, SeqParts
<1>6. /\ E!FlattenSeq(seqs) \in Seq(Part) /\ E!FlattenSeq(seqs) # <<>> /\ Fine(E!FlattenSeq(seqs), over)
      /\ Tell(E!FlattenSeq(seqs)) = UNION {Tell(seqs[k]) : k \in 1 .. n}
  BY <1>2, <1>3, <1>4, <1>5, FineFlat
<1>7. Tell(E!FlattenSeq(seqs)) = LinesOfAll(cs)
  BY <1>2, <1>6 DEF LinesOfAll
<1> QED  BY <1>6, <1>7 DEF seqs

\* The files that come of them show all their lines in order, under their headings.
LEMMA BuiltIs ==
    ASSUME NEW ps \in Seq(Part), ps # <<>>, NEW over, Fine(ps, over)
    PROVE  LET made == E!Built(ps) IN
           /\ made \in Seq(Seq(Element)) /\ Len(made) \in 1 .. MaxFiles
           /\ E!FlattenSeq(made) \in Seq(Element) /\ Good(E!FlattenSeq(made), over)
           /\ Says(E!FlattenSeq(made)) = Tell(ps)
<1> DEFINE list == E!Pack(ps)
           n == Len(list)
           made == E!Built(ps)
<1>1. list \in Seq(Part) /\ n \in 1 .. MaxFiles /\ Fine(list, over) /\ Tell(list) = Tell(ps)
  BY PackKeeps
<1>2. made = [i \in DOMAIN list |-> <<E!H(list[i].title)>> \o list[i].body]
  BY DEF E!Built
<1> HIDE DEF list
<1>3. n \in Nat /\ DOMAIN list = 1 .. n /\ \A i \in 1 .. n : list[i] \in Part
  BY <1>1, SeqParts
<1> HIDE DEF made
<1>4. \A i \in 1 .. n : made[i] = Full(list[i]) /\ made[i] \in Seq(Element)
  BY <1>2, <1>3, FullIs DEF Full
<1>5. made \in Seq(Seq(Element)) /\ Len(made) = n
  <2>1. made \in [1 .. n -> Seq(Element)]
    BY <1>2, <1>3, <1>4
  <2> HIDE DEF n
  <2> QED  BY <1>3, <2>1, ListIsSeq
<1>6. (\A i \in 1 .. n : Good(made[i], over)) /\ Ordered(Told(made), n)
  BY <1>1, <1>4, <1>5 DEF Fine, Ordered, Told, Tells
<1>7. /\ E!FlattenSeq(made) \in Seq(Element) /\ Good(E!FlattenSeq(made), over)
      /\ Says(E!FlattenSeq(made)) = UNION {Says(made[k]) : k \in 1 .. n}
  BY <1>5, <1>6, GoodFlat
<1>8. Says(E!FlattenSeq(made)) = Tell(ps)
  BY <1>1, <1>4, <1>7 DEF Tell
<1> QED  BY <1>1, <1>5, <1>7, <1>8 DEF made

\* There is one way to list numbers in ascending order.
LEMMA OnlyAscending ==
    ASSUME NEW X \in SUBSET Int, IsFiniteSet(X), NEW u \in Seq(X), X \subseteq Entries(u),
           \A i, j \in 1 .. Len(u) : i < j => u[i] < u[j]
    PROVE  u = Ascending(X)
<1> DEFINE t == Ascending(X)
           n == Cardinality(X)
           m == Len(u)
<1>1. /\ n \in Nat /\ t \in [1 .. n -> X]
      /\ \A x \in X : \E k \in 1 .. n : t[k] = x
      /\ \A j, k \in 1 .. n : t[j] < t[k] <=> j < k
  BY AscendingIs
<1>2. /\ m \in Nat /\ \A i \in 1 .. m : u[i] \in X
      /\ \A x \in X : \E i \in 1 .. m : u[i] = x
  BY SeqParts DEF Entries
<1>3. \A i, j \in 1 .. m : i < j => u[i] < u[j]
  OBVIOUS
<1> HIDE DEF t, n, m
<1> DEFINE bad == {i \in Nat : i \in 1 .. m /\ i \in 1 .. n /\ u[i] # t[i]}
<1>4. bad = {}
  <2> SUFFICES ASSUME bad # {} PROVE FALSE
    OBVIOUS
  <2>1. PICK k \in bad : \A i \in bad : k <= i
    <3> HIDE DEF bad
    <3>1. bad \in SUBSET Nat
      BY DEF bad
    <3> QED  BY <3>1, LeastNatural
  <2>2. \A i \in 1 .. k - 1 : u[i] = t[i] /\ i \in 1 .. m /\ i \in 1 .. n
    <3> SUFFICES ASSUME NEW i \in 1 .. k - 1, u[i] # t[i] PROVE FALSE
      BY <1>1, <1>2
    <3> QED  BY <1>1, <1>2, <2>1
  <2>3. k \in 1 .. m /\ k \in 1 .. n /\ u[k] # t[k] /\ u[k] \in X /\ t[k] \in X /\ u[k] \in Int /\ t[k] \in Int
    BY <1>1, <1>2
  <2>4. PICK a \in 1 .. n : t[a] = u[k]
    BY <1>1, <2>3
  <2>5. PICK b \in 1 .. m : u[b] = t[k]
    BY <1>2, <2>3
  <2>6. k < a
    <3>1. a < k => a \in 1 .. k - 1
      BY <1>1, <2>3
    <3>2. a < k => u[a] = u[k] /\ u[a] < u[k]
      BY <1>3, <2>2, <2>3, <2>4, <3>1
    <3>3. a # k
      BY <2>3, <2>4
    <3> QED  BY <1>1, <2>3, <3>2, <3>3
  <2>7. k < b
    <3>1. b < k => b \in 1 .. k - 1
      BY <1>2, <2>3
    <3>2. b < k => t[b] = t[k] /\ t[b] < t[k]
      BY <1>1, <2>2, <2>3, <2>5, <3>1
    <3>3. b # k
      BY <2>3, <2>5
    <3> QED  BY <1>2, <2>3, <3>2, <3>3
  <2>8. t[k] < u[k] /\ u[k] < t[k]
    BY <1>1, <1>3, <2>3, <2>4, <2>5, <2>6, <2>7
  <2> QED  BY <2>3, <2>8
<1>5. \A i \in 1 .. m : i \in 1 .. n => u[i] = t[i]
  BY <1>2, <1>4
<1> HIDE DEF bad
<1>6. m = n
  <2>1. ASSUME m < n PROVE FALSE
    <3>1. m + 1 \in 1 .. n /\ t[m + 1] \in X /\ t[m + 1] \in Int
      <4>1. m + 1 \in 1 .. n
        BY <1>1, <1>2, <2>1
      <4>2. t[m + 1] \in X
        BY <1>1, <4>1
      <4> QED  BY <4>1, <4>2
    <3>2. PICK b \in 1 .. m : u[b] = t[m + 1]
      BY <1>2, <3>1
    <3>3. b \in 1 .. n /\ b < m + 1
      BY <1>1, <1>2, <2>1
    <3>4. t[b] = t[m + 1] /\ t[b] < t[m + 1]
      BY <1>1, <1>5, <3>1, <3>2, <3>3
    <3> QED  BY <3>1, <3>4
  <2>2. ASSUME n < m PROVE FALSE
    <3>1. n + 1 \in 1 .. m /\ u[n + 1] \in X /\ u[n + 1] \in Int
      <4>1. n + 1 \in 1 .. m
        BY <1>1, <1>2, <2>2
      <4>2. u[n + 1] \in X
        BY <1>2, <4>1
      <4> QED  BY <4>1, <4>2
    <3>2. PICK a \in 1 .. n : t[a] = u[n + 1]
      BY <1>1, <3>1
    <3>3. a \in 1 .. m /\ a < n + 1
      BY <1>1, <1>2, <2>2
    <3>4. u[a] = u[n + 1] /\ u[a] < u[n + 1]
      BY <1>3, <1>5, <3>1, <3>2, <3>3
    <3> QED  BY <3>1, <3>4
  <2> QED  BY <1>1, <1>2, <2>1, <2>2
<1>7. t \in Seq(X) /\ Len(t) = n
  BY <1>1, ListIsSeq
<1>8. u = t
  BY <1>5, <1>6, <1>7, SeqEqual DEF m
<1> QED  BY <1>8 DEF t

LEMMA SameEntries ==
    /\ \A s, S : E!Among(s, S) = Among(s, S)
    /\ \A S : E!Ascending(S) = Ascending(S)
<1>1. \A S, before : E!InOrder(S, before) = InOrder(S, before)
  BY DEF E!InOrder, InOrder, E!Cardinality, Cardinality
<1>2. \A S : E!Ascending(S) = Ascending(S)
  BY <1>1 DEF E!Ascending, Ascending
<1> QED  BY <1>2 DEF E!Among, Among

\* What a good list shows is its lines in ascending order.
LEMMA ShownIs ==
    ASSUME NEW s \in Seq(Element), NEW over, Good(s, over), IsFiniteSet(Says(s))
    PROVE  E!Shown(s) = Ascending(Says(s))
<1> DEFINE T == {e \in E!ToSet(s) : e.tag = "p" /\ e.of # 0}
           few == Among(s, T)
           n == Len(few)
           u == E!Of(few)
<1>1. Len(s) \in Nat /\ DOMAIN s = 1 .. Len(s) /\ \A i \in 1 .. Len(s) : s[i] \in Element
  BY SeqParts
<1>2. \A i \in 1 .. Len(s) : s[i] \in T <=> IsLine(s[i])
  BY <1>1 DEF E!ToSet, IsLine
<1> HIDE DEF T
<1>3. few \in Seq(Element \intersect T) /\ \E from : Takes(from, few, s, T)
  BY AmongIs
<1>4. PICK from : Takes(from, few, s, T)
  BY <1>3
<1>5. E!Shown(s) = u
  BY SameEntries DEF E!Shown, T
<1> HIDE DEF few
<1>6. n \in Nat /\ DOMAIN few = 1 .. n
  BY <1>3, SeqParts
<1>7. /\ from \in [1 .. n -> 1 .. Len(s)]
      /\ \A k \in 1 .. n : few[k] = s[from[k]] /\ s[from[k]] \in T
      /\ \A j, k \in 1 .. n : from[j] < from[k] <=> j < k
      /\ \A i \in 1 .. Len(s) : s[i] \in T => \E k \in 1 .. n : from[k] = i
  BY <1>4 DEF Takes
<1>8. u = [k \in 1 .. n |-> few[k].of]
  BY <1>6 DEF E!Of
<1> HIDE DEF u, n
<1>9. \A k \in 1 .. n : u[k] = s[from[k]].of /\ from[k] \in 1 .. Len(s) /\ IsLine(s[from[k]])
  BY <1>2, <1>7, <1>8
<1>10. u \in Seq(Says(s)) /\ Len(u) = n
  <2>1. u \in [1 .. n -> Says(s)]
    BY <1>8, <1>9 DEF Says
  <2> QED  BY <1>6, <2>1, ListIsSeq
<1>11. Says(s) \subseteq Entries(u)
  <2> SUFFICES ASSUME NEW i \in 1 .. Len(s), IsLine(s[i]) PROVE s[i].of \in Entries(u)
    BY DEF Says
  <2>1. PICK k \in 1 .. n : from[k] = i
    BY <1>2, <1>7
  <2> QED  BY <1>9, <1>10, <2>1 DEF Entries
<1>12. \A j, k \in 1 .. n : j < k => u[j] < u[k]
  BY <1>7, <1>9 DEF Good
<1>13. Says(s) \in SUBSET Int
  BY <1>1 DEF Says, Element
<1>14. u = Ascending(Says(s))
  BY <1>10, <1>11, <1>12, <1>13, OnlyAscending
<1> QED  BY <1>5, <1>14

\* Reading: the chapters so far, and the one being read, have the lines of the
\* text so far, each under the last heading before it.
Headings == [n \in Nat |-> E!Latest(n)]
TextLines == {i \in 1 .. Len(lines) : lines[i] = "text"}
Unfinished == [title |-> heading, paras |-> buf]

Reading ==
    /\ source \in E!Sources /\ lines \in Seq(E!Kinds)
    /\ chapters \in Seq(Chapter) /\ Unfinished \in Chapter
    /\ Fit(chapters, Headings) /\ Right(Unfinished, Headings)
    /\ Below(LinesOfAll(chapters), LineNumbers(Unfinished))
    /\ LinesOfAll(chapters) \union LineNumbers(Unfinished) = TextLines
    /\ heading = E!Latest(Len(lines) + 1)
    /\ chapters # <<>> \/ buf # <<>> => \E i \in 1 .. Len(lines) : lines[i] \in {"text", "tildes"}

EpubInv == Reading /\ NothingIsDropped

LEMMA NoChapters == \A over : Fit(<<>>, over) /\ LinesOfAll(<<>>) = {}
<1> Len(<<>>) = 0
  BY EmptySeq
<1> QED  BY DEF Fit, Ordered, LinesOfAll

LEMMA NoParas ==
    ASSUME NEW title \in Nat
    PROVE  LET c == [title |-> title, paras |-> <<>>] IN
           c \in Chapter /\ LineNumbers(c) = {} /\ \A over : Right(c, over)
<1> DEFINE c == [title |-> title, paras |-> <<>>]
<1>1. c \in Chapter /\ c.paras = <<>> /\ Len(<<>>) = 0
  BY EmptySeq DEF Chapter
<1> HIDE DEF c
<1>2. LineNumbers(c) = {}
  BY <1>1 DEF LineNumbers, Entries
<1> QED  BY <1>1, <1>2 DEF Right, c

\* One more paragraph.
LEMMA ChapterGrows ==
    ASSUME NEW c \in Chapter, NEW over, Right(c, over), NEW k \in Nat,
           k # 0 => over[k] = c.title /\ \A p \in LineNumbers(c) : p < k
    PROVE  LET d == [title |-> c.title, paras |-> Append(c.paras, k)] IN
           /\ d \in Chapter /\ Right(d, over)
           /\ LineNumbers(d) = LineNumbers(c) \union ({k} \ {0})
<1> DEFINE t == c.paras
           n == Len(t)
           u == Append(t, k)
           d == [title |-> c.title, paras |-> u]
<1>1. c.title \in Nat /\ t \in Seq(Nat)
  BY DEF Chapter
<1>2. n \in Nat /\ \A i \in 1 .. n : t[i] \in Nat
  BY <1>1, SeqParts
<1> HIDE DEF t
<1>3. u \in Seq(Nat) /\ Len(u) = n + 1 /\ (\A i \in 1 .. n : u[i] = t[i]) /\ u[n + 1] = k
  BY <1>1, AppendProperties
<1> HIDE DEF u
<1>4. d \in Chapter /\ d.title = c.title /\ d.paras = u
  BY <1>1, <1>3 DEF Chapter
<1> HIDE DEF d, n
<1>5. \A i \in 1 .. n + 1 : i \in 1 .. n \/ i = n + 1
  BY <1>2
<1>6. \A i \in 1 .. n : i \in 1 .. n + 1 /\ i < n + 1
  BY <1>2
<1>7. LineNumbers(d) = LineNumbers(c) \union ({k} \ {0})
  <2>1. Entries(u) = Entries(t) \union {k}
    <3>1. \A x \in Entries(u) : x \in Entries(t) \union {k}
      BY <1>3, <1>5 DEF Entries, n
    <3>2. \A x \in Entries(t) : x \in Entries(u)
      BY <1>3, <1>6 DEF Entries, n
    <3>3. k \in Entries(u)
      <4>1. n + 1 \in 1 .. n + 1
        BY <1>2
      <4> QED  BY <1>3, <4>1 DEF Entries
    <3> QED  BY <3>1, <3>2, <3>3
  <2> QED  BY <1>4, <2>1 DEF LineNumbers, t
<1>8. \A p \in LineNumbers(d) : over[p] = d.title
  BY <1>4, <1>7 DEF Right
<1>9. ASSUME NEW i \in 1 .. n + 1, NEW j \in 1 .. n + 1, i < j, u[i] # 0, u[j] # 0 PROVE u[i] < u[j]
  <2>1. i \in 1 .. n
    BY <1>2, <1>5, <1>9
  <2>2. CASE j \in 1 .. n
    BY <1>3, <1>9, <2>1, <2>2 DEF Right, t, n
  <2>3. CASE j = n + 1
    <3>1. t[i] \in LineNumbers(c)
      BY <1>3, <1>9, <2>1 DEF LineNumbers, Entries, t, n
    <3> QED  BY <1>3, <1>9, <2>1, <2>3, <3>1
  <2> QED  BY <1>5, <2>2, <2>3
<1>10. Right(d, over)
  BY <1>3, <1>4, <1>8, <1>9 DEF Right
<1> QED  BY <1>4, <1>7, <1>10 DEF d, u, t

\* What has been read up to the end, or up to a heading.
LEMMA ChaptersIs ==
    ASSUME Reading
    PROVE  /\ E!Chapters \in Seq(Chapter) /\ Fit(E!Chapters, Headings) /\ LinesOfAll(E!Chapters) = TextLines
           /\ E!Chapters # <<>> => \E i \in 1 .. Len(lines) : lines[i] \in {"text", "tildes"}
<1>1. CASE buf = <<>>
  <2>1. E!Chapters = chapters
    BY <1>1 DEF E!Chapters
  <2>2. LineNumbers(Unfinished) = {}
    BY <1>1, EmptySeq DEF LineNumbers, Entries, Unfinished
  <2> QED  BY <2>1, <2>2 DEF Reading
<1>2. CASE buf # <<>>
  <2> DEFINE c == Unfinished
             cs == Append(chapters, c)
             n == Len(chapters)
  <2>1. E!Chapters = cs
    BY <1>2 DEF E!Chapters, Unfinished
  <2>2. chapters \in Seq(Chapter) /\ c \in Chapter /\ n \in Nat /\ c.paras # <<>>
    BY <1>2, SeqParts DEF Reading, Unfinished
  <2> HIDE DEF c
  <2>3. cs \in Seq(Chapter) /\ Len(cs) = n + 1 /\ (\A i \in 1 .. n : cs[i] = chapters[i]) /\ cs[n + 1] = c
    BY <2>2, AppendProperties
  <2> HIDE DEF cs, n
  <2>4. \A i \in 1 .. n + 1 : i \in 1 .. n \/ i = n + 1
    BY <2>2
  <2>5. \A i \in 1 .. n : i \in 1 .. n + 1 /\ i < n + 1
    BY <2>2
  <2>6. (\A i \in 1 .. n : chapters[i].paras # <<>> /\ Right(chapters[i], Headings)) /\ Right(c, Headings)
    BY DEF Reading, Fit, n, c
  <2>7. \A i \in 1 .. n + 1 : cs[i].paras # <<>> /\ Right(cs[i], Headings)
    BY <2>2, <2>3, <2>4, <2>6
  <2>8. ASSUME NEW i \in 1 .. n + 1, NEW j \in 1 .. n + 1, i < j PROVE Below(LineNumbers(cs[i]), LineNumbers(cs[j]))
    <3>1. i \in 1 .. n
      BY <2>2, <2>4, <2>8
    <3>2. CASE j \in 1 .. n
      BY <2>3, <2>8, <3>1, <3>2 DEF Reading, Fit, Ordered, LinesBy, n
    <3>3. CASE j = n + 1
      <4>1. LineNumbers(chapters[i]) \subseteq LinesOfAll(chapters)
        BY <3>1 DEF LinesOfAll, n
      <4> QED  BY <2>3, <3>1, <3>3, <4>1 DEF Reading, Below, c
    <3> QED  BY <2>4, <3>2, <3>3
  <2>9. Fit(cs, Headings)
    BY <2>3, <2>7, <2>8 DEF Fit, Ordered, LinesBy
  <2>10. LinesOfAll(cs) = LinesOfAll(chapters) \union LineNumbers(c)
    <3>1. \A x : x \in LinesOfAll(cs) <=> \E i \in 1 .. n + 1 : x \in LineNumbers(cs[i])
      BY <2>3 DEF LinesOfAll
    <3>2. \A x : x \in LinesOfAll(chapters) <=> \E i \in 1 .. n : x \in LineNumbers(chapters[i])
      BY DEF LinesOfAll, n
    <3>3. n + 1 \in 1 .. n + 1
      BY <2>2
    <3> QED  BY <2>3, <2>4, <2>5, <3>1, <3>2, <3>3
  <2> QED  BY <1>2, <2>1, <2>3, <2>9, <2>10 DEF Reading, c
<1> QED  BY <1>1, <1>2

\* Headings change for what is yet to come only.
LEMMA HeadingsMove ==
    ASSUME Reading, NEW kind, lines' = Append(lines, kind)
    PROVE  LET n == Len(lines) IN
           /\ n \in Nat /\ Len(lines') = n + 1
           /\ TextLines' = TextLines \union (IF kind = "text" THEN {n + 1} ELSE {})
           /\ \A p \in 1 .. n + 1 : Headings'[p] = Headings[p]
           /\ E!Latest(Len(lines) + 1)' = IF kind = "header" THEN n + 1 ELSE E!Latest(n + 1)
           /\ \A i \in 1 .. n : lines'[i] = lines[i]
<1> DEFINE n == Len(lines)
           S(p) == {i \in 1 .. p - 1 : lines[i] = "header"}
           T(p) == {i \in 1 .. p - 1 : lines'[i] = "header"}
<1>1. n \in Nat /\ lines \in Seq(E!Kinds \union {kind}) /\ kind \in E!Kinds \union {kind}
  BY SeqParts, SeqMonotonic DEF Reading
<1>2. Len(lines') = n + 1 /\ (\A i \in 1 .. n : lines'[i] = lines[i]) /\ lines'[n + 1] = kind
  BY <1>1, AppendProperties
<1>3. TextLines' = TextLines \union (IF kind = "text" THEN {n + 1} ELSE {})
  <2>1. \A i \in 1 .. n + 1 : i \in 1 .. n \/ i = n + 1
    BY <1>1
  <2>2. \A i \in 1 .. n : i \in 1 .. n + 1
    BY <1>1
  <2>3. n + 1 \in 1 .. n + 1
    BY <1>1
  <2>4. TextLines' = {i \in 1 .. n + 1 : lines'[i] = "text"}
    BY <1>2 DEF TextLines
  <2> QED  BY <1>2, <2>1, <2>2, <2>3, <2>4 DEF TextLines
<1>4. \A p \in 1 .. n + 1 : T(p) = S(p)
  <2> SUFFICES ASSUME NEW p \in 1 .. n + 1 PROVE \A i \in 1 .. p - 1 : lines'[i] = lines[i]
    OBVIOUS
  <2>1. \A i \in 1 .. p - 1 : i \in 1 .. n
    BY <1>1
  <2> QED  BY <1>2, <2>1
<1>5. \A p : /\ E!Latest(p) = (IF S(p) = {} THEN 0 ELSE E!Max(S(p)))
             /\ E!Latest(p)' = (IF T(p) = {} THEN 0 ELSE E!Max(T(p)))
  BY DEF E!Latest
<1> HIDE DEF S, T
<1>6. \A p \in 1 .. n + 1 : E!Latest(p)' = E!Latest(p)
  BY <1>4, <1>5
<1>7. \A p \in 1 .. n + 1 : Headings'[p] = Headings[p]
  BY <1>1, <1>6 DEF Headings
<1>8. E!Latest(Len(lines) + 1)' = (IF T(n + 2) = {} THEN 0 ELSE E!Max(T(n + 2)))
  <2>1. Len(lines') + 1 = n + 2 /\ Len(lines') + 1 - 1 = n + 2 - 1
    BY <1>1, <1>2
  <2> QED  BY <2>1 DEF E!Latest, T
<1>9. \A i \in 1 .. n + 2 - 1 : i \in 1 .. n \/ i = n + 1
  BY <1>1
<1>10. kind = "header" => E!Max(T(n + 2)) = n + 1 /\ T(n + 2) # {}
  <2> SUFFICES ASSUME kind = "header" PROVE E!Max(T(n + 2)) = n + 1 /\ T(n + 2) # {}
    OBVIOUS
  <2>1. n + 1 \in T(n + 2)
    BY <1>1, <1>2 DEF T
  <2>2. \A i \in T(n + 2) : n + 1 >= i /\ i \in Int
    BY <1>1 DEF T
  <2>3. \A x \in T(n + 2) : (\A i \in T(n + 2) : x >= i) => x = n + 1
    BY <1>1, <2>1, <2>2
  <2> QED  BY <2>1, <2>2, <2>3 DEF E!Max
<1>11. kind # "header" => T(n + 2) = S(n + 1)
  BY <1>1, <1>2, <1>9 DEF S, T
<1>12. E!Latest(Len(lines) + 1)' = IF kind = "header" THEN n + 1 ELSE E!Latest(n + 1)
  BY <1>5, <1>8, <1>10, <1>11
<1> QED  BY <1>1, <1>2, <1>3, <1>7, <1>12

\* What a new heading function agrees with fits as before.
LEMMA FitKept ==
    ASSUME NEW cs, NEW over, NEW other, Fit(cs, over), \A p \in LinesOfAll(cs) : other[p] = over[p]
    PROVE  Fit(cs, other)
<1>1. \A i \in 1 .. Len(cs) : LineNumbers(cs[i]) \subseteq LinesOfAll(cs)
  BY DEF LinesOfAll
<1>2. \A i \in 1 .. Len(cs) : Right(cs[i], other)
  BY <1>1 DEF Fit, Right
<1> QED  BY <1>2 DEF Fit

LEMMA ReadingStep == ASSUME Reading, [E!Next]_epub PROVE Reading'
<1> DEFINE n == Len(lines)
<1>1. /\ TextLines \subseteq 1 .. n /\ LinesOfAll(chapters) \subseteq TextLines
      /\ LineNumbers(Unfinished) \subseteq TextLines /\ n \in Nat
      /\ lines \in Seq(E!Kinds) /\ \A i \in 1 .. n : lines[i] \in E!Kinds
  BY SeqParts DEF Reading, TextLines
<1>2. ASSUME NEW kind \in E!Kinds, E!Line(kind)
      PROVE  /\ source' \in E!Sources /\ lines' \in Seq(E!Kinds) /\ Len(lines') = n + 1
             /\ TextLines' = TextLines \union (IF kind = "text" THEN {n + 1} ELSE {})
             /\ Fit(chapters, Headings') /\ Right(Unfinished, Headings') /\ Headings'[n + 1] = heading
             /\ E!Latest(Len(lines) + 1)' = IF kind = "header" THEN n + 1 ELSE heading
             /\ (\E i \in 1 .. n : lines[i] \in {"text", "tildes"})
                    => \E i \in 1 .. n + 1 : lines'[i] \in {"text", "tildes"}
             /\ lines'[n + 1] = kind
  <2>1. lines' = Append(lines, kind) /\ source' = source
    BY <1>2 DEF E!Line
  <2>2. /\ Len(lines') = n + 1
        /\ TextLines' = TextLines \union (IF kind = "text" THEN {n + 1} ELSE {})
        /\ \A p \in 1 .. n + 1 : Headings'[p] = Headings[p]
        /\ E!Latest(Len(lines) + 1)' = IF kind = "header" THEN n + 1 ELSE E!Latest(n + 1)
        /\ \A i \in 1 .. n : lines'[i] = lines[i]
    BY <2>1, HeadingsMove
  <2>3. lines' \in Seq(E!Kinds) /\ lines'[n + 1] = kind
    BY <1>1, <1>2, <2>1, AppendProperties
  <2>4. \A i \in 1 .. n : i \in 1 .. n + 1
    BY <1>1
  <2>5. \A p \in TextLines : Headings'[p] = Headings[p]
    BY <1>1, <2>2, <2>4
  <2>6. Fit(chapters, Headings')
    BY <1>1, <2>5, FitKept DEF Reading
  <2>7. Right(Unfinished, Headings')
    BY <1>1, <2>5 DEF Reading, Right
  <2>8. Headings'[n + 1] = heading
    <3>1. n + 1 \in 1 .. n + 1 /\ n + 1 \in Nat
      BY <1>1
    <3>2. Headings[n + 1] = heading
      BY <3>1 DEF Headings, Reading
    <3> QED  BY <2>2, <3>1, <3>2
  <2> QED  BY <2>1, <2>2, <2>3, <2>4, <2>6, <2>7, <2>8 DEF Reading
<1>3. ASSUME NEW kind \in E!Kinds, E!Line(kind), kind \notin {"header", "text"}, UNCHANGED <<chapters, heading, buf>>
      PROVE  Reading'
  <2>1. Unfinished' = Unfinished
    BY <1>3 DEF Unfinished
  <2>2. TextLines' = TextLines
    BY <1>2, <1>3
  <2> QED  BY <1>2, <1>3, <2>1, <2>2 DEF Reading
<1>4. ASSUME NEW kind \in E!Kinds, E!Line(kind), kind # "header", UNCHANGED <<chapters, heading>>, NEW k \in Nat,
             buf' = Append(buf, k), k = IF kind = "text" THEN n + 1 ELSE 0,
             kind \in {"text", "tildes"} \/ buf # <<>>
      PROVE  Reading'
  <2>1. Unfinished' = [title |-> Unfinished.title, paras |-> Append(Unfinished.paras, k)]
    BY <1>4 DEF Unfinished
  <2>2. k # 0 => Headings'[k] = Unfinished.title /\ \A p \in LineNumbers(Unfinished) : p < k
    <3> SUFFICES ASSUME k # 0 PROVE Headings'[k] = Unfinished.title /\ \A p \in LineNumbers(Unfinished) : p < k
      OBVIOUS
    <3>1. k = n + 1 /\ Unfinished.title = heading
      BY <1>4 DEF Unfinished
    <3>2. Headings'[n + 1] = heading
      BY <1>2, <1>4
    <3>3. \A p \in LineNumbers(Unfinished) : p \in 1 .. n
      BY <1>1
    <3> HIDE DEF n
    <3> QED  BY <1>1, <3>1, <3>2, <3>3
  <2>3. /\ Unfinished' \in Chapter /\ Right(Unfinished', Headings')
        /\ LineNumbers(Unfinished') = LineNumbers(Unfinished) \union ({k} \ {0})
    <3> DEFINE c == Unfinished
               over == Headings'
               d == [title |-> c.title, paras |-> Append(c.paras, k)]
    <3>1. c \in Chapter /\ Right(c, over)
      BY <1>2, <1>4 DEF Reading
    <3>2. k # 0 => over[k] = c.title /\ \A p \in LineNumbers(c) : p < k
      BY <2>2
    <3>3. Unfinished' = d
      BY <2>1
    <3> HIDE DEF c, over
    <3>4. d \in Chapter /\ Right(d, over) /\ LineNumbers(d) = LineNumbers(c) \union ({k} \ {0})
      BY <1>4, <3>1, <3>2, ChapterGrows
    <3> QED  BY <3>3, <3>4 DEF c, over
  <2>4. {k} \ {0} = IF kind = "text" THEN {n + 1} ELSE {}
    BY <1>1, <1>4
  <2>5. Below(LinesOfAll(chapters), LineNumbers(Unfinished'))
    <3> SUFFICES ASSUME NEW x \in LinesOfAll(chapters), NEW y \in LineNumbers(Unfinished) \union ({k} \ {0}) PROVE x < y
      BY <2>3 DEF Below
    <3>1. x \in 1 .. n
      BY <1>1
    <3>2. CASE y \in LineNumbers(Unfinished)
      BY <3>2 DEF Reading, Below
    <3>3. CASE y = n + 1
      BY <1>1, <3>1, <3>3
    <3> QED  BY <2>4, <3>2, <3>3
  <2>6. LinesOfAll(chapters) \union LineNumbers(Unfinished') = TextLines'
    BY <1>2, <1>4, <2>3, <2>4 DEF Reading
  <2>7. \E i \in 1 .. n + 1 : lines'[i] \in {"text", "tildes"}
    <3>1. CASE kind \in {"text", "tildes"}
      <4>1. n + 1 \in 1 .. n + 1
        BY <1>1
      <4> QED  BY <1>2, <1>4, <3>1, <4>1
    <3>2. CASE buf # <<>>
      BY <1>2, <1>4, <3>2 DEF Reading
    <3> QED  BY <1>4, <3>1, <3>2
  <2> QED  BY <1>2, <1>4, <2>3, <2>5, <2>6, <2>7 DEF Reading
<1>5. ASSUME NEW kind \in E!Kinds, E!Text(kind) PROVE Reading'
  <2>1. E!Line(kind) /\ kind \in {"text", "tildes"} /\ UNCHANGED <<chapters, heading>>
        /\ buf' = Append(buf, IF kind = "text" THEN Len(lines') ELSE 0)
    BY <1>5 DEF E!Text, E!Here
  <2>2. Len(lines') = n + 1
    BY <1>2, <2>1
  <2> DEFINE k == IF kind = "text" THEN n + 1 ELSE 0
  <2>3. k \in Nat /\ buf' = Append(buf, k)
    BY <1>1, <2>1, <2>2
  <2> HIDE DEF n
  <2>4. k = IF kind = "text" THEN n + 1 ELSE 0
    OBVIOUS
  <2> HIDE DEF k
  <2> QED  BY <1>4, <2>1, <2>3, <2>4
<1>6. ASSUME NEW kind \in E!Kinds, E!Blank(kind) PROVE Reading'
  <2>1. /\ E!Line(kind) /\ kind \in {"blank", "page", "meta"} /\ UNCHANGED <<chapters, heading>>
        /\ buf' = buf \/ (buf # <<>> /\ buf' = Append(buf, 0))
    BY <1>6 DEF E!Blank
  <2>2. CASE buf' = buf
    BY <1>3, <2>1, <2>2
  <2>3. CASE buf # <<>> /\ buf' = Append(buf, 0)
    BY <1>4, <2>1, <2>3
  <2> QED  BY <2>1, <2>2, <2>3
<1>7. ASSUME E!Magic PROVE Reading'
  <2>1. E!Line("openiti") /\ UNCHANGED <<chapters, heading, buf>> /\ "openiti" \in E!Kinds
    BY <1>7 DEF E!Magic, E!Kinds
  <2> QED  BY <1>3, <2>1
<1>8. ASSUME NEW kind \in E!Kinds, E!Header(kind) PROVE Reading'
  <2>1. /\ E!Line(kind) /\ kind \in {"header", "untitled"} /\ chapters' = E!Chapters /\ buf' = <<>>
        /\ heading' = IF kind = "header" THEN Len(lines') ELSE heading
    BY <1>8 DEF E!Header, E!Here
  <2>2. /\ E!Chapters \in Seq(Chapter) /\ Fit(E!Chapters, Headings) /\ LinesOfAll(E!Chapters) = TextLines
        /\ E!Chapters # <<>> => \E i \in 1 .. Len(lines) : lines[i] \in {"text", "tildes"}
    BY ChaptersIs
  <2>3. /\ source' \in E!Sources /\ lines' \in Seq(E!Kinds) /\ Len(lines') = n + 1
        /\ TextLines' = TextLines
        /\ E!Latest(Len(lines) + 1)' = IF kind = "header" THEN n + 1 ELSE heading
        /\ (\E i \in 1 .. n : lines[i] \in {"text", "tildes"}) => \E i \in 1 .. n + 1 : lines'[i] \in {"text", "tildes"}
    BY <1>2, <2>1
  <2>4. \A p \in TextLines : Headings'[p] = Headings[p]
    <3>1. \A p \in 1 .. n + 1 : Headings'[p] = Headings[p]
      BY <2>1, HeadingsMove DEF E!Line
    <3>2. \A p \in TextLines : p \in 1 .. n + 1
      BY <1>1
    <3> QED  BY <3>1, <3>2
  <2>5. Fit(chapters', Headings')
    BY <2>1, <2>2, <2>4, FitKept
  <2>6. heading' = E!Latest(Len(lines) + 1)' /\ heading' \in Nat
    <3>1. heading \in Nat
      BY DEF Reading, Unfinished, Chapter
    <3> QED  BY <1>1, <2>1, <2>3, <3>1
  <2>7. Unfinished' = [title |-> heading', paras |-> <<>>]
    BY <2>1 DEF Unfinished
  <2>8. Unfinished' \in Chapter /\ LineNumbers(Unfinished') = {} /\ Right(Unfinished', Headings')
    BY <2>6, <2>7, NoParas
  <2>9. Below(LinesOfAll(chapters'), LineNumbers(Unfinished'))
    BY <2>8 DEF Below
  <2> QED  BY <2>1, <2>2, <2>3, <2>5, <2>6, <2>8, <2>9 DEF Reading
<1>9. CASE UNCHANGED <<source, lines, chapters, heading, buf>>
  BY <1>9 DEF Reading, Headings, TextLines, Unfinished, E!Latest
<1> QED
  BY <1>5, <1>6, <1>7, <1>8, <1>9 DEF E!Next, E!Build, epub

\* A text in which no chapter was found, as one chapter.
RawLines == {i \in 1 .. Len(lines) : lines[i] \notin {"blank", "meta"}}

LEMMA RawIs ==
    ASSUME Reading
    PROVE  LET over == [n \in Nat |-> 0] IN
           <<E!Raw>> \in Seq(Chapter) /\ Fit(<<E!Raw>>, over) /\ LinesOfAll(<<E!Raw>>) = RawLines
<1> DEFINE over == [n \in Nat |-> 0]
           rest == Ascending(RawLines)
           n == Cardinality(RawLines)
           c == E!Raw
           t == IF rest = <<>> THEN <<0>> ELSE rest
<1>1. Len(lines) \in Nat /\ DOMAIN lines = 1 .. Len(lines) /\ \A i \in 1 .. Len(lines) : lines[i] \in E!Kinds
  BY SeqParts DEF Reading
<1>2. c = [title |-> 0, paras |-> t]
  <2>1. {i \in DOMAIN lines : lines[i] \in E!Kinds \ {"blank", "meta"}} = RawLines
    BY <1>1 DEF RawLines
  <2>2. E!LinesOf(E!Kinds \ {"blank", "meta"}) = rest
    BY <2>1, SameEntries DEF E!LinesOf
  <2> QED  BY <2>2 DEF E!Raw
<1>3. IsFiniteSet(RawLines) /\ RawLines \subseteq Nat \ {0} /\ RawLines \in SUBSET Int
  <2>1. RawLines \subseteq 1 .. Len(lines) /\ IsFiniteSet(1 .. Len(lines))
    BY <1>1, IntervalSize DEF RawLines
  <2>2. IsFiniteSet(RawLines)
    BY <2>1, FS_Subset
  <2>3. \A i \in RawLines : i \in Nat \ {0} /\ i \in Int
    BY <1>1, <2>1
  <2> QED  BY <2>2, <2>3
<1>4. /\ n \in Nat /\ rest \in [1 .. n -> RawLines]
      /\ \A x \in RawLines : \E k \in 1 .. n : rest[k] = x
      /\ \A j, k \in 1 .. n : rest[j] < rest[k] <=> j < k
  BY <1>3, AscendingIs
<1> HIDE DEF rest, c, n
<1>5. rest \in Seq(Nat) /\ Len(rest) = n /\ (rest = <<>> <=> n = 0)
  <2>1. rest \in [1 .. n -> Nat]
    BY <1>3, <1>4
  <2>2. rest \in Seq(Nat) /\ Len(rest) = n
    BY <1>4, <2>1, ListIsSeq
  <2> QED  BY <2>2, SeqParts
<1>6. c \in Chapter /\ c.paras # <<>> /\ LineNumbers(c) = RawLines /\ c.title = 0 /\ Right(c, over)
  <2>1. CASE rest = <<>>
    <3>1. c.paras = <<0>> /\ c.title = 0 /\ c \in Chapter
      BY <1>2, <2>1 DEF Chapter
    <3>2. Len(<<0>>) = 1 /\ <<0>>[1] = 0 /\ <<0>> # <<>>
      OBVIOUS
    <3>3. LineNumbers(c) = {}
      BY <3>1, <3>2 DEF LineNumbers, Entries
    <3>4. RawLines = {}
      BY <1>4, <1>5, <2>1
    <3> QED  BY <3>1, <3>2, <3>3, <3>4 DEF Right
  <2>2. CASE rest # <<>>
    <3>1. c.paras = rest /\ c.title = 0 /\ c \in Chapter
      BY <1>2, <1>5, <2>2 DEF Chapter
    <3>2. LineNumbers(c) = RawLines
      BY <1>3, <1>4, <1>5, <3>1 DEF LineNumbers, Entries
    <3>3. \A p \in LineNumbers(c) : over[p] = 0
      BY <1>3, <3>2
    <3> QED  BY <1>4, <1>5, <2>2, <3>1, <3>2, <3>3 DEF Right
  <2> QED  BY <2>1, <2>2
<1>7. <<c>> \in Seq(Chapter) /\ Len(<<c>>) = 1 /\ <<c>>[1] = c
  BY <1>6
<1> DEFINE cs == <<c>>
<1> HIDE DEF cs, over
<1>8. cs \in Seq(Chapter) /\ Len(cs) = 1 /\ cs[1] = c
  BY <1>7 DEF cs
<1>9. Fit(cs, over) /\ LinesOfAll(cs) = RawLines
  BY <1>6, <1>8 DEF Fit, Ordered, LinesOfAll
<1> QED  BY <1>8, <1>9 DEF cs, over, c

\* What an EPUB must be, for the text read.
Sound(fs) ==
    LET elements == E!FlattenSeq(fs)
        under(i, n) == /\ n < i /\ elements[n].tag = "h"
                       /\ \A j \in n + 1 .. i - 1 : elements[j].tag = "p"
    IN
    /\ Len(fs) \in 1 .. MaxFiles
    /\ E!LinesOf({"text"}) # <<>> =>
        /\ E!Shown(elements) = E!LinesOf({"text"})
        /\ \A i \in DOMAIN elements : elements[i].tag = "p" /\ elements[i].of # 0 =>
                \E n \in DOMAIN elements : under(i, n) /\ elements[n].of = E!Latest(elements[i].of)
    /\ E!LinesOf({"text", "tildes"}) = <<>> =>
            E!Shown(elements) = E!LinesOf({"page", "openiti", "header", "untitled"})

LEMMA SoundIs == NothingIsDropped <=> (files # None => Sound(files))
BY DEF NothingIsDropped, E!NothingIsDropped, Sound

LEMMA LinesAre ==
    ASSUME Reading, NEW kinds
    PROVE  LET S == {i \in 1 .. Len(lines) : lines[i] \in kinds} IN
           IsFiniteSet(S) /\ S \in SUBSET Int /\ E!LinesOf(kinds) = Ascending(S) /\ (E!LinesOf(kinds) = <<>> <=> S = {})
<1> DEFINE S == {i \in 1 .. Len(lines) : lines[i] \in kinds}
<1>1. Len(lines) \in Nat /\ DOMAIN lines = 1 .. Len(lines)
  BY SeqParts DEF Reading
<1>2. IsFiniteSet(S) /\ S \in SUBSET Int
  <2>1. S \subseteq 1 .. Len(lines) /\ IsFiniteSet(1 .. Len(lines))
    BY <1>1, IntervalSize
  <2> HIDE DEF S
  <2>2. IsFiniteSet(S)
    BY <2>1, FS_Subset
  <2>3. \A i \in S : i \in Int
    BY <1>1, <2>1
  <2> QED  BY <2>2, <2>3
<1>3. E!LinesOf(kinds) = Ascending(S)
  BY <1>1, SameEntries DEF E!LinesOf
<1> HIDE DEF S
<1>4. /\ Cardinality(S) \in Nat /\ Ascending(S) \in [1 .. Cardinality(S) -> S]
      /\ \A x \in S : \E k \in 1 .. Cardinality(S) : Ascending(S)[k] = x
  BY <1>2, AscendingIs
<1>5. Ascending(S) \in Seq(S) /\ Len(Ascending(S)) = Cardinality(S)
  BY <1>4, ListIsSeq
<1>6. Ascending(S) = <<>> <=> S = {}
  <2>1. Ascending(S) = <<>> <=> Cardinality(S) = 0
    BY <1>5, SeqParts
  <2>2. Cardinality(S) = 0 => S = {}
    BY <1>4
  <2>3. S = {} => Cardinality(S) = 0
    BY FS_EmptySet
  <2> QED  BY <2>1, <2>2, <2>3
<1> QED  BY <1>2, <1>3, <1>6 DEF S

LEMMA BuildIsSound == ASSUME Reading, E!Build PROVE Sound(files')
<1> DEFINE all == IF E!Chapters = <<>> THEN <<E!Raw>> ELSE E!Chapters
           over == IF E!Chapters = <<>> THEN [n \in Nat |-> 0] ELSE Headings
           X == IF E!Chapters = <<>> THEN RawLines ELSE TextLines
           parts == E!FlattenSeq([i \in DOMAIN all |-> E!PartsOf(all[i])])
           packed == IF source = "openiti" THEN E!Pack(parts) ELSE parts
           made == E!Built(packed)
           elements == E!FlattenSeq(made)
<1>1. files' = made
  BY DEF E!Build
<1>2. /\ E!Chapters \in Seq(Chapter) /\ Fit(E!Chapters, Headings) /\ LinesOfAll(E!Chapters) = TextLines
      /\ E!Chapters # <<>> => \E i \in 1 .. Len(lines) : lines[i] \in {"text", "tildes"}
  BY ChaptersIs
<1>3. all \in Seq(Chapter) /\ all # <<>> /\ Fit(all, over) /\ LinesOfAll(all) = X
  <2>1. CASE E!Chapters = <<>>
    BY <2>1, RawIs
  <2>2. CASE E!Chapters # <<>>
    BY <1>2, <2>2
  <2> QED  BY <2>1, <2>2
<1> HIDE DEF all, over
<1>4. parts \in Seq(Part) /\ parts # <<>> /\ Fine(parts, over) /\ Tell(parts) = X
  BY <1>3, PartsKeep
<1> HIDE DEF parts, X
<1>5. packed \in Seq(Part) /\ packed # <<>> /\ Fine(packed, over) /\ Tell(packed) = X
  <2>1. /\ E!Pack(parts) \in Seq(Part) /\ Len(E!Pack(parts)) \in 1 .. MaxFiles
        /\ Fine(E!Pack(parts), over) /\ Tell(E!Pack(parts)) = Tell(parts)
    BY <1>4, PackKeeps
  <2>2. E!Pack(parts) # <<>>
    BY <2>1, EmptySeq
  <2> QED  BY <1>4, <2>1, <2>2
<1> HIDE DEF packed
<1>6. /\ Len(made) \in 1 .. MaxFiles /\ elements \in Seq(Element) /\ Good(elements, over) /\ Says(elements) = X
  BY <1>5, BuiltIs
<1> HIDE DEF made, elements
<1>7. DOMAIN elements = 1 .. Len(elements) /\ \A i \in 1 .. Len(elements) : elements[i] \in Element
  BY <1>6, SeqParts
<1>8. ASSUME IsFiniteSet(X) PROVE E!Shown(elements) = Ascending(X)
  BY <1>6, <1>8, ShownIs
<1>9. ASSUME E!LinesOf({"text"}) # <<>>
      PROVE  /\ E!Shown(elements) = E!LinesOf({"text"})
             /\ \A i \in DOMAIN elements : elements[i].tag = "p" /\ elements[i].of # 0 =>
                    \E n \in DOMAIN elements :
                        /\ n < i /\ elements[n].tag = "h" /\ \A j \in n + 1 .. i - 1 : elements[j].tag = "p"
                        /\ elements[n].of = E!Latest(elements[i].of)
  <2>1. TextLines = {i \in 1 .. Len(lines) : lines[i] \in {"text"}}
    BY DEF TextLines
  <2>2. IsFiniteSet(TextLines) /\ E!LinesOf({"text"}) = Ascending(TextLines) /\ TextLines # {}
    BY <1>9, <2>1, LinesAre
  <2>3. E!Chapters # <<>>
    BY <1>2, <2>2, NoChapters
  <2>4. X = TextLines /\ over = Headings
    BY <2>3 DEF X, over
  <2>5. E!Shown(elements) = E!LinesOf({"text"})
    BY <1>8, <2>2, <2>4
  <2>6. ASSUME NEW i \in 1 .. Len(elements), elements[i].tag = "p", elements[i].of # 0
        PROVE  \E n \in 1 .. Len(elements) :
                    /\ n < i /\ elements[n].tag = "h" /\ \A j \in n + 1 .. i - 1 : elements[j].tag = "p"
                    /\ elements[n].of = E!Latest(elements[i].of)
    <3>1. PICK n \in 1 .. Len(elements) : Under(elements, n, i) /\ elements[n].of = Headings[elements[i].of]
      BY <1>6, <2>4, <2>6 DEF Good, IsLine
    <3>2. elements[i].of \in Nat
      BY <1>7 DEF Element
    <3>3. elements[n].of = E!Latest(elements[i].of)
      BY <3>1, <3>2 DEF Headings
    <3>4. n < i
      BY <3>1 DEF Under
    <3> QED  BY <3>1, <3>3, <3>4 DEF Under
  <2> QED  BY <1>7, <2>5, <2>6
<1>10. ASSUME E!LinesOf({"text", "tildes"}) = <<>>
       PROVE  E!Shown(elements) = E!LinesOf({"page", "openiti", "header", "untitled"})
  <2>1. \A i \in 1 .. Len(lines) : lines[i] \notin {"text", "tildes"} /\ lines[i] \in E!Kinds
    <3> DEFINE kinds == {"text", "tildes"}
               S == {i \in 1 .. Len(lines) : lines[i] \in kinds}
    <3>1. E!LinesOf(kinds) = <<>> <=> S = {}
      <4> HIDE DEF kinds
      <4> QED  BY LinesAre
    <3>2. S = {}
      BY <1>10, <3>1
    <3> QED  BY <3>2, SeqParts DEF Reading
  <2>2. E!Chapters = <<>>
    BY <1>2, <2>1
  <2>3. X = {i \in 1 .. Len(lines) : lines[i] \in {"page", "openiti", "header", "untitled"}}
    BY <2>1, <2>2 DEF X, RawLines, E!Kinds
  <2>4. IsFiniteSet(X) /\ E!LinesOf({"page", "openiti", "header", "untitled"}) = Ascending(X)
    BY <2>3, LinesAre
  <2> QED  BY <1>8, <2>4
<1>11. Sound(made)
  BY <1>6, <1>9, <1>10 DEF Sound, elements
<1> QED  BY <1>1, <1>11

LEMMA EpubStep == ASSUME EpubInv, [E!Next]_epub PROVE EpubInv'
<1>1. Reading'
  BY ReadingStep DEF EpubInv
<1>2. CASE UNCHANGED epub
  <2>1. files' = files /\ lines' = lines
    BY <1>2 DEF epub
  <2>2. \A kinds : E!LinesOf(kinds)' = E!LinesOf(kinds)
    BY <2>1 DEF E!LinesOf
  <2>3. \A n : E!Latest(n)' = E!Latest(n)
    BY <2>1 DEF E!Latest
  <2>4. files # None => Sound(files)
    BY SoundIs DEF EpubInv
  <2>5. NothingIsDropped'
    BY <2>1, <2>2, <2>3, <2>4 DEF NothingIsDropped, E!NothingIsDropped, Sound
  <2> QED  BY <1>1, <2>5 DEF EpubInv
<1>3. CASE files' = None
  BY <1>1, <1>3 DEF EpubInv, NothingIsDropped, E!NothingIsDropped
<1>4. CASE E!Build
  <2>1. Sound(files') /\ lines' = lines
    BY <1>4, BuildIsSound DEF EpubInv, E!Build
  <2>2. \A kinds : E!LinesOf(kinds)' = E!LinesOf(kinds)
    BY <2>1 DEF E!LinesOf
  <2>3. \A n : E!Latest(n)' = E!Latest(n)
    BY <2>1 DEF E!Latest
  <2>4. NothingIsDropped'
    BY <2>1, <2>2, <2>3 DEF NothingIsDropped, E!NothingIsDropped, Sound
  <2> QED  BY <1>1, <2>4 DEF EpubInv
<1> QED
  BY <1>1, <1>2, <1>3, <1>4 DEF EpubInv, E!Next, E!Text, E!Blank, E!Magic, E!Header, E!Line, epub

LEMMA EpubInit == E!Init => EpubInv
<1> SUFFICES ASSUME E!Init PROVE EpubInv
  OBVIOUS
<1>1. lines = <<>> /\ chapters = <<>> /\ heading = 0 /\ buf = <<>> /\ files = None /\ source \in E!Sources
  BY DEF E!Init
<1>2. Len(<<>>) = 0 /\ lines \in Seq(E!Kinds) /\ chapters \in Seq(Chapter)
  BY <1>1, EmptySeq
<1>3. Unfinished \in Chapter /\ LineNumbers(Unfinished) = {} /\ Right(Unfinished, Headings)
  BY <1>1, NoParas DEF Unfinished
<1>4. Fit(chapters, Headings) /\ LinesOfAll(chapters) = {}
  BY <1>1, NoChapters
<1>5. TextLines = {}
  BY <1>1, <1>2 DEF TextLines
<1>6. E!Latest(Len(lines) + 1) = 0
  BY <1>1, <1>2 DEF E!Latest
<1>7. Reading
  BY <1>1, <1>2, <1>3, <1>4, <1>5, <1>6 DEF Reading, Below
<1> QED  BY <1>1, <1>7 DEF EpubInv, NothingIsDropped, E!NothingIsDropped
-----------------------------------------------------------------------------
(***************************************************************************)
(* The theorems.                                                           *)
(***************************************************************************)
LEMMA StepOfAPart ==
    ASSUME [MCNext]_<<part, rebuild, categories, epub, vars>>
    PROVE  [R!Next]_rebuild /\ [C!Next]_categories
BY DEF MCNext

\* No replacement takes a file from the catalog or from under a reader, however
\* the command, its flushes and commits, the worker and the readers interleave
\* (rebuild_capped_epubs stores before it changes a row and deletes nothing).
THEOREM NoFileTaken == MCSpec => []FilesAreServed
<1>1. MCInit => RebuildInv
  BY RebuildInit DEF MCInit
<1>2. RebuildInv /\ [MCNext]_<<part, rebuild, categories, epub, vars>> => RebuildInv'
  BY RebuildStep, StepOfAPart
<1>3. RebuildInv => FilesAreServed
  BY DEF RebuildInv, Held, FilesAreServed, R!FilesAreServed, R!Taken
<1> QED  BY <1>1, <1>2, <1>3, PTL DEF MCSpec

LEMMA CatalogAlways == MCSpec => []CatalogInv
<1>1. MCInit => CatalogInv
  BY CatalogInit DEF MCInit
<1>2. CatalogInv /\ [MCNext]_<<part, rebuild, categories, epub, vars>> => CatalogInv'
  BY CatalogStep, StepOfAPart
<1> QED  BY <1>1, <1>2, PTL DEF MCSpec

\* However passes of reclassify.py, the admin and the worker interleave, and
\* whichever of them fail, a work has one primary category and at most one more,
\* unless a web process went on after a failed pass.
THEOREM OnePrimaryKept == MCSpec => []OnePrimary
BY CatalogAlways, CatalogTrue, PTL

\* Once classification_version is current, a pass has gone through all it listed
\* and every work has the rows of today's rules, but for those no such pass has
\* listed since other rules or a failed pass touched them.
THEOREM VersionTrue == MCSpec => []VersionIsTrue
BY CatalogAlways, CatalogTrue, PTL

\* Whatever a text of OpenITI or Wikisource is like and however long, its EPUB
\* shows every line of the book once, in order, under its heading, in no more
\* files than a reader bears: splitting and packing drop nothing.
THEOREM NothingDropped == MCSpec => []NothingIsDropped
<1>1. MCInit => EpubInv
  BY EpubInit DEF MCInit
<1>2. EpubInv /\ [MCNext]_<<part, rebuild, categories, epub, vars>> => EpubInv'
  <2>1. [MCNext]_<<part, rebuild, categories, epub, vars>> => [E!Next]_epub
    BY DEF MCNext
  <2> QED  BY <2>1, EpubStep
<1>3. EpubInv => NothingIsDropped
  BY DEF EpubInv
<1> QED  BY <1>1, <1>2, <1>3, PTL DEF MCSpec

\* Whatever is asked of a file of whatever size, the response carries exactly
\* the bytes named, says so, or refuses because there are none.
THEOREM ExactRanges == Spec => []RangesAreExact
<1>1. RangesInv => RangesAreExact
  BY AnswerIsExact DEF RangesInv, RangesAreExact, Exact, Answers
<1> QED  BY <1>1, RangesInvariance, PTL
=============================================================================
