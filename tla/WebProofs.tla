------------------------------ MODULE WebProofs -----------------------------
(***************************************************************************)
(* What the parts of the web process keep, for any number of threads,      *)
(* users, addresses, processes and tabs and however long they run: the     *)
(* tables answer what requests were told, the rate limit is exact for one  *)
(* caller and near for racing ones, the visitor counter is true, hidden    *)
(* works stay hidden, and forms are accepted.  A step of the process is a  *)
(* step of one part that leaves the others alone, so each part has an      *)
(* inductive invariant of its own.                                         *)
(***************************************************************************)
EXTENDS MCWeb, DataLemmas, TLAPS

-----------------------------------------------------------------------------
(***************************************************************************)
(* Writing requests.  What a request under way will write was decided by   *)
(* what its handler read: the inductive invariant adds to what is promised *)
(* that no handler has read more views than pages were served.             *)
(***************************************************************************)
Kinds == {"idle", "view", "add", "remove", "register", "hide", "publish"}
Requests == [kind : Kinds, who : Users \union Emails \union {None}, seen : Nat]

WebTypes ==
    /\ views \in Nat /\ viewed \in Nat
    /\ favorites \subseteq Users /\ accounts \subseteq Emails
    /\ toggled \in [Users -> Nat] /\ registered \in [Emails -> Nat]
    /\ thread \in [Threads -> Requests]

Addressed(r) ==
    /\ r.kind \in {"add", "remove"} => r.who \in Users
    /\ r.kind = "register" => r.who \in Emails

WebInv ==
    /\ WebTypes
    /\ \A t \in Threads : Addressed(thread[t]) /\ thread[t].seen <= viewed
    /\ W!AnswersAreKept

LEMMA WebInit == W!Init => WebInv
<1> SUFFICES ASSUME W!Init PROVE WebInv
  OBVIOUS
<1>1. W!Idle \in Requests /\ W!Idle.kind = "idle" /\ W!Idle.seen = 0
  BY DEF W!Idle, Requests, Kinds
<1>2. WebTypes /\ \A t \in Threads : thread[t] = W!Idle
  BY <1>1 DEF W!Init, WebTypes
<1>3. W!AnswersAreKept
  BY DEF W!Init, W!AnswersAreKept, W!FavoriteParity, W!OneAccountPerEmail, W!ViewsBounded
<1> QED  BY <1>1, <1>2, <1>3 DEF WebInv, Addressed, W!Init

\* A handler begins: the tables are as they were.
LEMMA WebHandle ==
    ASSUME WebInv, NEW t \in Threads, NEW r \in Requests, Addressed(r), r.seen <= viewed, W!Handle(t, r)
    PROVE  WebInv'
<1>1. /\ thread' = [thread EXCEPT ![t] = r]
      /\ UNCHANGED <<views, favorites, accounts, viewed, toggled, registered>>
  BY DEF W!Handle, W!tables, W!history
<1>2. WebTypes' /\ thread'[t] = r /\ \A u \in Threads : u # t => thread'[u] = thread[u]
  BY <1>1 DEF WebInv, WebTypes
<1>3. \A u \in Threads : Addressed(thread'[u]) /\ thread'[u].seen <= viewed'
  BY <1>1, <1>2 DEF WebInv
<1>4. W!AnswersAreKept'
  BY <1>1 DEF WebInv, W!AnswersAreKept, W!FavoriteParity, W!OneAccountPerEmail, W!ViewsBounded
<1> QED  BY <1>2, <1>3, <1>4 DEF WebInv

\* A handler ends without a write.
LEMMA WebEnds ==
    ASSUME WebInv, NEW t \in Threads, thread' = [thread EXCEPT ![t] = W!Idle],
           UNCHANGED <<views, favorites, accounts, viewed, toggled, registered>>
    PROVE  WebInv'
<1>1. W!Idle \in Requests /\ Addressed(W!Idle) /\ W!Idle.seen = 0 /\ 0 <= viewed
  BY DEF W!Idle, Requests, Kinds, Addressed, WebInv, WebTypes
<1>2. WebTypes' /\ thread'[t] = W!Idle /\ \A u \in Threads : u # t => thread'[u] = thread[u]
  BY <1>1 DEF WebInv, WebTypes
<1>3. \A u \in Threads : Addressed(thread'[u]) /\ thread'[u].seen <= viewed'
  BY <1>1, <1>2 DEF WebInv
<1>4. W!AnswersAreKept'
  BY DEF WebInv, W!AnswersAreKept, W!FavoriteParity, W!OneAccountPerEmail, W!ViewsBounded
<1> QED  BY <1>2, <1>3, <1>4 DEF WebInv

\* A request is answered: its row, its history and its count change together.
LEMMA WebCommit == ASSUME WebInv, NEW t \in Threads, W!Commit(t) PROVE WebInv'
<1> DEFINE r == thread[t]
<1>1. /\ r \in Requests /\ Addressed(r) /\ r.seen <= viewed /\ ~W!Violates(r) /\ r.kind \in Kinds /\ r.seen \in Nat
      /\ views' = (IF r.kind = "view" THEN r.seen + 1 ELSE views)
      /\ favorites' = CASE r.kind = "add" -> favorites \union {r.who}
                        [] r.kind = "remove" -> favorites \ {r.who}
                        [] OTHER -> favorites
      /\ accounts' = IF r.kind = "register" THEN accounts \union {r.who} ELSE accounts
      /\ viewed' = IF r.kind = "view" THEN viewed + 1 ELSE viewed
      /\ toggled' = IF r.kind \in {"add", "remove"} THEN [toggled EXCEPT ![r.who] = @ + 1] ELSE toggled
      /\ registered' = IF r.kind = "register" THEN [registered EXCEPT ![r.who] = @ + 1] ELSE registered
      /\ thread' = [thread EXCEPT ![t] = W!Idle]
  BY DEF WebInv, WebTypes, W!Commit, W!ViewsAfter, Requests
<1>2. WebTypes /\ W!FavoriteParity /\ W!OneAccountPerEmail /\ W!ViewsBounded
  BY DEF WebInv, W!AnswersAreKept
<1> HIDE DEF r
<1>3. W!Idle \in Requests /\ Addressed(W!Idle) /\ W!Idle.seen = 0
  BY DEF W!Idle, Requests, Kinds, Addressed
<1>4. views' \in Nat /\ viewed' \in Nat /\ viewed <= viewed' /\ W!ViewsBounded'
  BY <1>1, <1>2 DEF WebTypes, W!ViewsBounded
<1>5. favorites' \subseteq Users /\ toggled' \in [Users -> Nat] /\ W!FavoriteParity'
  <2>1. CASE r.kind \in {"add", "remove"}
    <3>1. /\ r.who \in Users /\ toggled' = [toggled EXCEPT ![r.who] = @ + 1]
          /\ r.who \in favorites' <=> r.who \notin favorites
          /\ \A u \in Users \ {r.who} : u \in favorites' <=> u \in favorites
          /\ favorites' \subseteq Users
      BY <2>1, <1>1, <1>2 DEF Addressed, W!Violates, WebTypes
    <3>2. /\ toggled' \in [Users -> Nat] /\ toggled'[r.who] = toggled[r.who] + 1 /\ toggled[r.who] \in Nat
          /\ \A u \in Users \ {r.who} : toggled'[u] = toggled[u]
      BY <3>1, <1>2 DEF WebTypes
    <3>3. \A a \in Nat : (a % 2 = 1) <=> ((a + 1) % 2 # 1)
      OBVIOUS
    <3>4. r.who \in favorites' <=> toggled'[r.who] % 2 = 1
      <4>1. (toggled[r.who] % 2 = 1) <=> ((toggled[r.who] + 1) % 2 # 1)
        BY <3>2, <3>3
      <4>2. r.who \in favorites <=> toggled[r.who] % 2 = 1
        BY <3>1, <1>2 DEF W!FavoriteParity
      <4> QED  BY <3>1, <3>2, <4>1, <4>2
    <3>5. \A u \in Users : u \in favorites' <=> toggled'[u] % 2 = 1
      BY <3>1, <3>2, <3>4, <1>2 DEF W!FavoriteParity
    <3> QED  BY <3>1, <3>2, <3>5 DEF W!FavoriteParity
  <2>2. CASE r.kind \notin {"add", "remove"}
    BY <2>2, <1>1, <1>2 DEF W!FavoriteParity, WebTypes
  <2> QED  BY <2>1, <2>2
<1>6. accounts' \subseteq Emails /\ registered' \in [Emails -> Nat] /\ W!OneAccountPerEmail'
  BY <1>1, <1>2 DEF W!OneAccountPerEmail, WebTypes, Addressed, W!Violates
<1>7. thread' \in [Threads -> Requests] /\ \A u \in Threads : Addressed(thread'[u]) /\ thread'[u].seen <= viewed'
  <2>1. thread'[t] = W!Idle /\ \A u \in Threads : u # t => thread'[u] = thread[u]
    BY <1>1, <1>2 DEF WebTypes
  <2>2. \A u \in Threads : thread[u].seen \in Nat /\ thread[u].seen <= viewed
    BY <1>2 DEF WebInv, WebTypes, Requests
  <2>3. \A u \in Threads : Addressed(thread'[u])
    BY <2>1, <1>3 DEF WebInv
  <2>4. \A u \in Threads : thread'[u].seen <= viewed'
    BY <2>1, <2>2, <1>2, <1>3, <1>4 DEF WebTypes
  <2> QED  BY <1>1, <1>2, <1>3, <2>3, <2>4 DEF WebTypes
<1> QED  BY <1>4, <1>5, <1>6, <1>7 DEF WebInv, WebTypes, W!AnswersAreKept

LEMMA WebStep == ASSUME WebInv, [W!Next]_web PROVE WebInv'
<1>1. ASSUME NEW t \in Threads, W!BookDetail(t) PROVE WebInv'
  <2>1. [kind |-> "view", who |-> None, seen |-> views] \in Requests /\ views <= viewed
    BY DEF WebInv, WebTypes, Requests, Kinds, W!AnswersAreKept, W!ViewsBounded
  <2> QED  BY <1>1, <2>1, WebHandle DEF W!BookDetail, Addressed
<1>2. ASSUME NEW t \in Threads, NEW u \in Users, W!ToggleFavorite(t, u) PROVE WebInv'
  <2> DEFINE r == [kind |-> IF u \in favorites THEN "remove" ELSE "add", who |-> u, seen |-> 0]
  <2>1. r \in Requests /\ Addressed(r) /\ r.seen <= viewed
    BY DEF WebInv, WebTypes, Requests, Kinds, Addressed
  <2>2. W!Handle(t, r)
    BY <1>2 DEF W!ToggleFavorite
  <2> HIDE DEF r
  <2> QED  BY <2>1, <2>2, WebHandle
<1>3. ASSUME NEW t \in Threads, NEW e \in Emails, W!Register(t, e) PROVE WebInv'
  <2>1. [kind |-> "register", who |-> e, seen |-> 0] \in Requests /\ 0 <= viewed
    BY DEF WebInv, WebTypes, Requests, Kinds
  <2> QED  BY <1>3, <2>1, WebHandle DEF W!Register, Addressed
<1>4. ASSUME NEW t \in Threads, W!AdminHide(t) \/ W!AdminPublish(t) PROVE WebInv'
  <2>1. 0 <= viewed /\ \A k \in {"hide", "publish"} : [kind |-> k, who |-> None, seen |-> 0] \in Requests
    BY DEF WebInv, WebTypes, Requests, Kinds
  <2> QED  BY <1>4, <2>1, WebHandle DEF W!AdminHide, W!AdminPublish, Addressed
<1>5. ASSUME NEW t \in Threads, W!Conflict(t) \/ W!BusyTimeout(t) PROVE WebInv'
  BY <1>5, WebEnds DEF W!Conflict, W!BusyTimeout, W!tables, W!history
<1>6. ASSUME W!WorkerClaims \/ W!WorkerCommits \/ UNCHANGED web PROVE WebInv'
  BY <1>6 DEF W!WorkerClaims, W!WorkerCommits, web, W!tables, W!history, WebInv, WebTypes,
              W!AnswersAreKept, W!FavoriteParity, W!OneAccountPerEmail, W!ViewsBounded
<1> QED  BY <1>1, <1>2, <1>3, <1>4, <1>5, <1>6, WebCommit DEF W!Next

-----------------------------------------------------------------------------
(***************************************************************************)
(* The rate limit.  A call that is alone finds the deque as the end of the *)
(* history: what it dropped had expired, so that the call MaxEvents before *)
(* a call that is let through has expired too.  Racing threads are counted *)
(* by those past the test.                                                 *)
(***************************************************************************)
Times == 0 .. MaxTime
Calling(t) == pc[t] # "idle"
Appending == {t \in Threads : pc[t] = "append"}
Dropped == 1 .. Len(admitted) - Len(q)
MayExpire(t) == q # <<>> /\ now[t] > q[1] + Window

RoomLeft == Len(q) + Cardinality(Appending) < MaxEvents + Cardinality(Threads)

\* The deque and the history when no two calls have met.
Remembered ==
    /\ Len(q) <= Len(admitted)
    /\ \A i \in 1 .. Len(q) : q[i] = admitted[Len(admitted) - Len(q) + i]
    /\ \A i, j \in 1 .. Len(admitted) : i <= j => admitted[i] <= admitted[j]
    /\ \A i \in 1 .. Len(admitted) : admitted[i] <= clock
    /\ \A i \in Dropped : admitted[i] + Window < clock
    /\ \A i \in 1 .. Len(admitted) : i > MaxEvents => admitted[i - MaxEvents] + Window < admitted[i]

\* What the call under way knows.
CallKnows(t) ==
    /\ now[t] <= clock
    /\ \A i \in 1 .. Len(admitted) : admitted[i] <= now[t]
    /\ \A i \in Dropped : admitted[i] + Window < now[t]
    /\ pc[t] = "pop" => MayExpire(t)
    /\ pc[t] = "full" => ~MayExpire(t)
    /\ pc[t] = "append" => Len(q) < MaxEvents

Alone ==
    /\ \A t, u \in Threads : Calling(t) /\ Calling(u) => t = u
    /\ \A t \in Threads : Calling(t) => CallKnows(t)
    /\ Remembered
    /\ \A r \in refusals : r.before >= MaxEvents

RateInv == R!TypeOK /\ RoomLeft /\ (~raced => Alone)

LEMMA SameCount == \A S : R!Cardinality(S) = Cardinality(S)
BY DEF R!Cardinality, Cardinality

LEMMA CountThreads ==
    \A T \in SUBSET Threads :
        /\ IsFiniteSet(T) /\ Cardinality(T) \in Nat
        /\ Cardinality(Threads) \in Nat /\ Cardinality(T) <= Cardinality(Threads)
BY ThreadsAssumption, FS_Subset, FS_CardinalityType

LEMMA RateInit == R!Init => RateInv
<1> SUFFICES ASSUME R!Init PROVE RateInv
  OBVIOUS
<1>1. R!TypeOK
  <2>1. 0 \in 0 .. MaxTime /\ 0 \in 0 .. MaxCalls /\ <<>> \in Seq(0 .. MaxTime)
    BY PartsBoundsAssumption
  <2> QED  BY <2>1 DEF R!Init, R!TypeOK
<1>2. Len(q) = 0 /\ Appending = {} /\ Cardinality({}) = 0
  BY FS_EmptySet DEF R!Init, Appending
<1>3. RoomLeft
  BY <1>2, CountThreads, LimitAssumption DEF RoomLeft
<1>4. Alone
  BY <1>2 DEF R!Init, Alone, Calling, Remembered, Dropped
<1> QED  BY <1>1, <1>3, <1>4 DEF RateInv

\* The types.
LEMMA RateTypes == ASSUME R!TypeOK, [R!Next]_bucket PROVE R!TypeOK'
<1> USE DEF R!TypeOK
<1>1. CASE R!Tick
  BY <1>1, PartsBoundsAssumption DEF R!Tick
<1>2. ASSUME NEW t \in Threads, R!Call(t) \/ R!Test(t) \/ R!PopFails(t) \/ R!Admit(t) PROVE R!TypeOK'
  <2>1. CASE R!Call(t)
    BY <2>1, PartsBoundsAssumption DEF R!Call, R!Goto
  <2>2. CASE R!Test(t)
    <3>1. (IF R!Expired(t) THEN "pop" ELSE "full") \in {"pop", "full"}
      OBVIOUS
    <3> QED  BY <2>2, <3>1 DEF R!Test, R!Goto
  <2>3. CASE R!PopFails(t) \/ R!Admit(t)
    BY <2>3 DEF R!PopFails, R!Admit, R!Goto
  <2> QED  BY <1>2, <2>1, <2>2, <2>3
<1>3. ASSUME NEW t \in Threads, R!PopLeft(t) PROVE R!TypeOK'
  <2>1. Tail(q) \in Seq(Times)
    BY <1>3, HeadTailProperties DEF R!PopLeft, Times
  <2> QED  BY <1>3, <2>1 DEF R!PopLeft, R!Goto, Times
<1>4. ASSUME NEW t \in Threads, R!Refuse(t) PROVE R!TypeOK'
  <2>1. IsFiniteSet(DOMAIN admitted)
    BY LenProperties, FS_Interval
  <2>2. Cardinality(R!Recent(t)) \in Nat
    BY <2>1, FS_Subset, FS_CardinalityType DEF R!Recent
  <2>3. [time |-> now[t], before |-> R!Cardinality(R!Recent(t))] \in [time : 0 .. MaxTime, before : Nat]
    BY <2>2, SameCount
  <2> QED  BY <1>4, <2>3 DEF R!Refuse, R!Goto
<1>5. ASSUME NEW t \in Threads, R!Record(t) PROVE R!TypeOK'
  <2>1. now[t] \in Times
    BY DEF Times
  <2>2. Append(q, now[t]) \in Seq(Times) /\ Append(admitted, now[t]) \in Seq(Times)
    BY <2>1, AppendProperties DEF Times
  <2> QED  BY <1>5, <2>2 DEF R!Record, R!Note, R!Goto, Times
<1>6. CASE UNCHANGED bucket
  BY <1>6 DEF bucket
<1> QED  BY <1>1, <1>2, <1>3, <1>4, <1>5, <1>6 DEF R!Next, R!Limit

\* A thread takes its place when it passes the test, and gives it to the entry it
\* appends.
LEMMA RateRoom == ASSUME R!TypeOK, RoomLeft, [R!Next]_bucket PROVE RoomLeft'
<1> DEFINE size == Cardinality(Appending)
<1>1. /\ Appending \subseteq Threads /\ Appending' \subseteq Threads
      /\ size \in Nat /\ size' \in Nat /\ Cardinality(Threads) \in Nat
      /\ size' <= Cardinality(Threads) /\ Len(q) \in Nat /\ MaxEvents \in Nat
  <2>1. Appending \subseteq Threads /\ Appending' \subseteq Threads /\ Len(q) \in Nat
    BY LenProperties DEF Appending, R!TypeOK
  <2> QED  BY <2>1, CountThreads, LimitAssumption
<1>2. ASSUME Appending' = Appending, Len(q') \in Nat, Len(q') <= Len(q) PROVE RoomLeft'
  BY <1>1, <1>2 DEF RoomLeft
<1>3. ASSUME NEW t \in Threads, NEW s \in {"idle", "test", "pop", "full"},
             pc[t] # "append", pc' = [pc EXCEPT ![t] = s], q' = q
      PROVE  RoomLeft'
  <2>1. Appending' = Appending
    BY <1>3 DEF Appending, R!TypeOK
  <2> QED  BY <1>1, <1>2, <1>3, <2>1
<1>4. ASSUME NEW t \in Threads, R!Admit(t) PROVE RoomLeft'
  BY <1>1, <1>4 DEF RoomLeft, R!Admit, R!Room
<1>5. ASSUME NEW t \in Threads, R!Record(t) PROVE RoomLeft'
  <2>1. t \in Appending /\ Appending' = Appending \ {t}
    BY <1>5 DEF R!Record, R!Goto, Appending, R!TypeOK
  <2>2. size' = size - 1
    BY <1>1, <2>1, CountThreads, OneLeaves
  <2>3. Len(q') = Len(q) + 1
    BY <1>5, AppendProperties DEF R!Record, R!Note, R!TypeOK
  <2> QED  BY <1>1, <2>2, <2>3 DEF RoomLeft
<1>6. ASSUME NEW t \in Threads, R!PopLeft(t) PROVE RoomLeft'
  <2>1. Appending' = Appending
    BY <1>6 DEF Appending, R!TypeOK, R!PopLeft, R!Goto
  <2>2. Len(q') \in Nat /\ Len(q') <= Len(q)
    BY <1>6, HeadTailProperties, LenProperties DEF R!PopLeft, R!TypeOK
  <2> QED  BY <1>2, <2>1, <2>2
<1>7. ASSUME NEW t \in Threads, R!Call(t) \/ R!Test(t) \/ R!PopFails(t) \/ R!Refuse(t) PROVE RoomLeft'
  <2>1. (IF R!Expired(t) THEN "pop" ELSE "full") \in {"pop", "full"}
    OBVIOUS
  <2> QED  BY <1>3, <1>7, <2>1 DEF R!Call, R!Test, R!PopFails, R!Refuse, R!Goto
<1>8. ASSUME R!Tick \/ UNCHANGED bucket PROVE RoomLeft'
  BY <1>8, <1>1, <1>2 DEF R!Tick, bucket, Appending
<1> QED  BY <1>4, <1>5, <1>6, <1>7, <1>8 DEF R!Next, R!Limit

\* What a call does that no other call has met.
LEMMA RateAlone == ASSUME RateInv, [R!Next]_bucket, ~raced' PROVE Alone'
<1> USE DEF Calling
<1> DEFINE L == Len(admitted)
<1>1. ~raced
  BY DEF R!Next, R!Limit, R!Tick, R!Call, R!Test, R!PopLeft, R!PopFails, R!Refuse, R!Admit, R!Record,
         RateInv, R!TypeOK, bucket
<1>2. R!TypeOK /\ Alone
  BY <1>1 DEF RateInv
<1>3. /\ L \in Nat /\ Len(q) \in Nat /\ clock \in Nat /\ Window \in Nat /\ MaxEvents \in Nat \ {0}
      /\ \A i \in 1 .. L : admitted[i] \in Nat
      /\ \A i \in 1 .. Len(q) : q[i] \in Nat
      /\ \A u \in Threads : now[u] \in Nat
      /\ DOMAIN admitted = 1 .. L
  <2>1. 0 .. MaxTime \subseteq Nat /\ q \in Seq(0 .. MaxTime) /\ admitted \in Seq(0 .. MaxTime)
        /\ clock \in 0 .. MaxTime /\ now \in [Threads -> 0 .. MaxTime]
    BY <1>2 DEF R!TypeOK
  <2> QED  BY <2>1, SeqParts, LimitAssumption
\* A step that lets the deque and the history be.
<1>4. ASSUME UNCHANGED <<clock, q, admitted>> PROVE Remembered'
  BY <1>2, <1>4 DEF Alone, Remembered, Dropped
<1>5. ASSUME R!Tick PROVE Alone'
  <2>1. Remembered'
    BY <1>2, <1>3, <1>5 DEF Alone, Remembered, Dropped, R!Tick
  <2>2. \A u \in Threads : Calling(u)' => CallKnows(u)'
    BY <1>2, <1>3, <1>5 DEF Alone, CallKnows, Dropped, R!Tick, MayExpire
  <2> QED  BY <1>2, <1>5, <2>1, <2>2 DEF Alone, R!Tick
<1>6. ASSUME NEW t \in Threads, R!Call(t) PROVE Alone'
  <2>1. /\ \A u \in Threads : pc[u] = "idle"
        /\ pc' = [pc EXCEPT ![t] = "test"] /\ now' = [now EXCEPT ![t] = clock]
        /\ UNCHANGED <<clock, q, admitted, refusals>>
    BY <1>6, <1>2 DEF R!Call, R!Goto, R!TypeOK
  <2>2. /\ pc'[t] = "test" /\ now'[t] = clock
        /\ \A u \in Threads : pc'[u] # "idle" => u = t
    BY <2>1, <1>2 DEF R!TypeOK
  <2>3. CallKnows(t)'
    BY <2>1, <2>2, <1>2, <1>3 DEF Alone, CallKnows, Remembered, Dropped
  <2> QED  BY <1>2, <1>4, <2>1, <2>2, <2>3 DEF Alone
\* The other steps are those of the only call under way.
<1>7. ASSUME NEW t \in Threads, Calling(t), NEW s, pc' = [pc EXCEPT ![t] = s], now' = now, clock' = clock,
             s # "idle" => CallKnows(t)', Remembered', \A r \in refusals' : r.before >= MaxEvents
      PROVE  Alone'
  <2>1. \A u \in Threads : u # t => pc'[u] = pc[u] /\ pc[u] = "idle"
    BY <1>7, <1>2 DEF Alone, R!TypeOK
  <2>2. pc'[t] = s
    BY <1>7, <1>2 DEF R!TypeOK
  <2> QED  BY <1>7, <2>1, <2>2 DEF Alone
<1>8. ASSUME NEW t \in Threads, R!Test(t) PROVE Alone'
  <2> DEFINE s == IF R!Expired(t) THEN "pop" ELSE "full"
  <2>1. /\ pc' = [pc EXCEPT ![t] = s] /\ Calling(t) /\ pc'[t] = s
        /\ UNCHANGED <<clock, q, now, admitted, refusals, raced, calls>>
    BY <1>8, <1>2 DEF R!Test, R!Goto, R!TypeOK
  <2>2. R!Expired(t) <=> MayExpire(t)
    BY DEF R!Expired, MayExpire
  <2>3. CallKnows(t)'
    <3>1. CallKnows(t) /\ (s = "pop" => MayExpire(t)) /\ (s = "full" => ~MayExpire(t)) /\ s # "append"
      BY <2>1, <2>2, <1>2 DEF Alone
    <3> HIDE DEF s
    <3> QED  BY <3>1, <2>1 DEF CallKnows, Dropped, MayExpire
  <2> HIDE DEF s
  <2> QED  BY <1>2, <1>4, <1>7, <2>1, <2>3 DEF Alone
<1>9. ASSUME NEW t \in Threads, R!PopLeft(t) PROVE Alone'
  <2>1. /\ pc[t] = "pop" /\ pc' = [pc EXCEPT ![t] = "test"] /\ Calling(t) /\ pc'[t] = "test"
        /\ q # <<>> /\ q' = Tail(q)
        /\ UNCHANGED <<clock, now, admitted, refusals, raced, calls>>
    BY <1>9, <1>2 DEF R!PopLeft, R!Goto, R!TypeOK
  <2>2. /\ Len(q) # 0 /\ Len(q') = Len(q) - 1
        /\ \A i \in 1 .. Len(q') : q'[i] = q[i + 1]
    BY <2>1, <1>2, HeadTailProperties, EmptySeq, ElementOfSeq, LenProperties DEF R!TypeOK
  <2>3. CallKnows(t) /\ Remembered /\ MayExpire(t)
    BY <2>1, <1>2 DEF Alone, CallKnows
  <2>4. \A i \in Dropped' : i \in Dropped \/ (i \in 1 .. L /\ admitted[i] = q[1])
    BY <2>1, <2>2, <2>3, <1>3 DEF Dropped, Remembered
  <2>5. \A i \in Dropped' : admitted[i] + Window < now[t]
    BY <2>3, <2>4, <1>3 DEF CallKnows, MayExpire
  <2>6. now[t] <= clock /\ Dropped' \subseteq 1 .. L /\ Dropped \subseteq 1 .. L
    BY <2>1, <2>2, <2>3, <1>3 DEF CallKnows, Dropped, Remembered
  <2>7. \A i \in Dropped' : admitted[i] + Window < clock
    BY <2>5, <2>6, <1>3
  <2>8. \A i \in 1 .. Len(q') : q'[i] = admitted[L - Len(q') + i]
    BY <2>2, <2>3, <1>3 DEF Remembered
  <2>9. Remembered'
    BY <2>1, <2>2, <2>3, <2>7, <2>8, <1>3 DEF Remembered
  <2>10. CallKnows(t)'
    BY <2>1, <2>3, <2>5 DEF CallKnows
  <2> QED  BY <1>2, <1>7, <2>1, <2>9, <2>10 DEF Alone
<1>10. ASSUME NEW t \in Threads, R!PopFails(t) PROVE FALSE
  BY <1>10, <1>2 DEF R!PopFails, Alone, CallKnows, MayExpire
<1>11. ASSUME NEW t \in Threads, R!Admit(t) PROVE Alone'
  <2>1. /\ pc[t] = "full" /\ pc' = [pc EXCEPT ![t] = "append"] /\ Calling(t) /\ pc'[t] = "append"
        /\ Len(q) < MaxEvents
        /\ UNCHANGED <<clock, q, now, admitted, refusals, raced, calls>>
    BY <1>11, <1>2 DEF R!Admit, R!Goto, R!TypeOK, R!Room
  <2>2. CallKnows(t)'
    BY <1>2, <2>1 DEF Alone, CallKnows, Dropped
  <2> QED  BY <1>2, <1>4, <1>7, <2>1, <2>2 DEF Alone
<1>12. ASSUME NEW t \in Threads, R!Refuse(t) PROVE Alone'
  <2>1. /\ pc[t] = "full" /\ pc' = [pc EXCEPT ![t] = "idle"] /\ Calling(t)
        /\ Len(q) >= MaxEvents
        /\ refusals' = refusals \union {[time |-> now[t], before |-> Cardinality(R!Recent(t))]}
        /\ UNCHANGED <<clock, q, now, admitted, raced, calls>>
    BY <1>12, <1>2, SameCount DEF R!Refuse, R!Goto, R!TypeOK
  <2>2. CallKnows(t) /\ Remembered /\ ~MayExpire(t) /\ q # <<>>
    BY <2>1, <1>2, <1>3, LenProperties, EmptySeq DEF Alone, CallKnows
  <2>3. now[t] <= q[1] + Window
    BY <2>1, <2>2, <1>3 DEF MayExpire
  <2>4. \A i \in (L - Len(q) + 1) .. L : i \in 1 .. L /\ admitted[i] + Window >= now[t]
    <3> TAKE i \in (L - Len(q) + 1) .. L
    <3>1. /\ L - Len(q) + 1 \in 1 .. L /\ i \in 1 .. L /\ L - Len(q) + 1 <= i
          /\ q[1] = admitted[L - Len(q) + 1]
      <4>1. Len(q) <= L /\ Len(q) >= 1 /\ 1 \in 1 .. Len(q)
        BY <2>1, <2>2, <1>3 DEF Remembered
      <4>2. q[1] = admitted[L - Len(q) + 1]
        BY <4>1, <2>2 DEF Remembered
      <4> QED  BY <4>1, <4>2, <1>3
    <3>2. admitted[L - Len(q) + 1] <= admitted[i]
      BY <3>1, <2>2 DEF Remembered
    <3> QED  BY <3>1, <3>2, <2>3, <1>3
  <2>5. (L - Len(q) + 1) .. L \subseteq R!Recent(t)
    BY <2>4, <1>3 DEF R!Recent
  <2>6. Cardinality(R!Recent(t)) >= MaxEvents
    <3>1. R!Recent(t) \subseteq 1 .. L
      BY <1>3 DEF R!Recent
    <3>2. IsFiniteSet(R!Recent(t)) /\ Cardinality(R!Recent(t)) \in Nat
      <4>1. IsFiniteSet(1 .. L)
        BY <1>3, FS_Interval
      <4> QED  BY <3>1, <4>1, FS_Subset, FS_CardinalityType
    <3>3. Len(q) <= L
      BY <2>2 DEF Remembered
    <3>4. L - Len(q) + 1 \in Int /\ L \in Int /\ L - Len(q) + 1 <= L + 1 /\ L - (L - Len(q) + 1) + 1 = Len(q)
      BY <3>3, <1>3
    <3>5. Cardinality((L - Len(q) + 1) .. L) = Len(q)
      BY <3>4, IntervalSize
    <3>6. Cardinality((L - Len(q) + 1) .. L) <= Cardinality(R!Recent(t))
      BY <3>2, <2>5, FS_Subset
    <3> QED  BY <3>2, <3>5, <3>6, <2>1, <1>3
  <2>7. \A r \in refusals' : r.before >= MaxEvents
    BY <2>1, <2>6, <1>2 DEF Alone
  <2> QED  BY <1>4, <1>7, <2>1, <2>7
<1>13. ASSUME NEW t \in Threads, R!Record(t) PROVE Alone'
  <2>1. /\ pc[t] = "append" /\ pc' = [pc EXCEPT ![t] = "idle"] /\ Calling(t)
        /\ q' = Append(q, now[t]) /\ admitted' = Append(admitted, now[t])
        /\ UNCHANGED <<clock, now, refusals, raced, calls>>
    BY <1>13, <1>2 DEF R!Record, R!Note, R!Goto, R!TypeOK
  <2>2. CallKnows(t) /\ Remembered /\ Len(q) < MaxEvents /\ Len(q) <= L
    BY <2>1, <1>2 DEF Alone, CallKnows, Remembered
  <2>3. /\ Len(q') = Len(q) + 1 /\ Len(admitted') = L + 1
        /\ q'[Len(q) + 1] = now[t] /\ admitted'[L + 1] = now[t]
        /\ \A i \in 1 .. Len(q) : q'[i] = q[i]
        /\ \A i \in 1 .. L : admitted'[i] = admitted[i]
    BY <2>1, <1>2, AppendProperties DEF R!TypeOK
  <2>4. \A i \in 1 .. Len(q') : q'[i] = admitted'[L + 1 - Len(q') + i]
    <3> TAKE i \in 1 .. Len(q')
    <3>1. CASE i = Len(q) + 1
      BY <3>1, <2>3, <1>3
    <3>2. CASE i \in 1 .. Len(q)
      <4>1. L - Len(q) + i \in 1 .. L
        BY <3>2, <2>2, <1>3
      <4>2. q[i] = admitted[L - Len(q) + i]
        BY <3>2, <2>2 DEF Remembered
      <4> QED  BY <3>2, <4>1, <4>2, <2>3, <1>3
    <3> QED  BY <3>1, <3>2, <2>3, <1>3
  <2>20. \A i \in 1 .. Len(admitted') : i \in 1 .. L \/ i = L + 1
    BY <2>3, <1>3
  <2>5. \A i, j \in 1 .. Len(admitted') : i <= j => admitted'[i] <= admitted'[j]
    <3> SUFFICES ASSUME NEW i \in 1 .. Len(admitted'), NEW j \in 1 .. Len(admitted'), i <= j
                 PROVE  admitted'[i] <= admitted'[j]
      OBVIOUS
    <3>1. CASE i = L + 1
      BY <3>1, <2>20, <2>3, <1>3
    <3>2. CASE i \in 1 .. L /\ j = L + 1
      BY <3>2, <2>2, <2>3 DEF CallKnows
    <3>3. CASE i \in 1 .. L /\ j \in 1 .. L
      BY <3>3, <2>2, <2>3 DEF Remembered
    <3> QED  BY <3>1, <3>2, <3>3, <2>20
  <2>6. \A i \in 1 .. Len(admitted') : admitted'[i] <= clock
    BY <2>20, <2>2, <2>3 DEF Remembered, CallKnows
  <2>7. Dropped' = Dropped /\ \A i \in Dropped : i \in 1 .. L /\ admitted'[i] + Window < clock
    BY <2>2, <2>3, <1>3 DEF Remembered, Dropped
  <2>8. \A i \in 1 .. Len(admitted') : i > MaxEvents => admitted'[i - MaxEvents] + Window < admitted'[i]
    <3> SUFFICES ASSUME NEW i \in 1 .. Len(admitted'), i > MaxEvents
                 PROVE  admitted'[i - MaxEvents] + Window < admitted'[i]
      OBVIOUS
    <3>1. i - MaxEvents \in 1 .. L
      BY <2>3, <1>3
    <3>2. CASE i \in 1 .. L
      BY <3>1, <3>2, <2>2, <2>3 DEF Remembered
    <3>3. CASE i = L + 1
      <4>1. i - MaxEvents \in Dropped
        BY <3>1, <3>3, <2>2, <1>3 DEF Dropped
      <4> QED  BY <3>1, <3>3, <4>1, <2>2, <2>3 DEF CallKnows
    <3> QED  BY <3>2, <3>3, <2>3, <1>3
  <2>9. Remembered'
    <3>1. Len(q') <= Len(admitted') /\ clock' = clock
      BY <2>1, <2>2, <2>3, <1>3
    <3>2. \A i \in Dropped' : admitted'[i] + Window < clock
      BY <2>7
    <3> QED  BY <3>1, <3>2, <2>3, <2>4, <2>5, <2>6, <2>8 DEF Remembered
  <2> QED  BY <1>2, <1>7, <2>1, <2>9 DEF Alone
<1>14. ASSUME UNCHANGED bucket PROVE Alone'
  BY <1>2, <1>4, <1>14 DEF bucket, Alone, CallKnows, Dropped, MayExpire
<1> QED  BY <1>5, <1>6, <1>8, <1>9, <1>10, <1>11, <1>12, <1>13, <1>14 DEF R!Next, R!Limit

LEMMA RateStep == ASSUME RateInv, [R!Next]_bucket PROVE RateInv'
BY RateTypes, RateRoom, RateAlone DEF RateInv

\* The bounds follow.
LEMMA RateBounds == RateInv => LimitKept
<1> SUFFICES ASSUME RateInv PROVE LimitKept
  OBVIOUS
<1> DEFINE L == Len(admitted)
<1>1. /\ L \in Nat /\ Len(q) \in Nat /\ Window \in Nat /\ MaxEvents \in Nat /\ DOMAIN admitted = 1 .. L
      /\ \A i \in 1 .. L : admitted[i] \in Nat
  <2>1. 0 .. MaxTime \subseteq Nat /\ q \in Seq(0 .. MaxTime) /\ admitted \in Seq(0 .. MaxTime)
    BY DEF RateInv, R!TypeOK
  <2> QED  BY <2>1, SeqParts, LimitAssumption
<1>2. R!WindowKept
  <2> SUFFICES ASSUME ~raced, NEW s \in 0 .. MaxTime
               PROVE  Cardinality({k \in DOMAIN admitted : admitted[k] \in s .. s + Window}) <= MaxEvents
    BY SameCount DEF R!WindowKept
  <2> DEFINE S == {k \in DOMAIN admitted : admitted[k] \in s .. s + Window}
  <2>1. S \in SUBSET Nat
    BY <1>1
  <2>2. \A i, j \in S : j < i + MaxEvents
    <3> SUFFICES ASSUME NEW i \in S, NEW j \in S, j >= i + MaxEvents PROVE FALSE
      BY <1>1
    <3>1. i \in 1 .. L /\ j \in 1 .. L /\ admitted[j] <= s + Window /\ s <= admitted[i] /\ s \in Nat
      BY <1>1
    <3>2. j - MaxEvents \in 1 .. L /\ i <= j - MaxEvents /\ j > MaxEvents
      BY <3>1, <1>1
    <3>3. admitted[j - MaxEvents] + Window < admitted[j] /\ admitted[i] <= admitted[j - MaxEvents]
      BY <3>1, <3>2 DEF RateInv, Alone, Remembered
    <3> QED  BY <3>1, <3>2, <3>3, <1>1
  <2> HIDE DEF S
  <2> QED  BY <2>1, <2>2, <1>1, CloseTogether DEF S
<1>3. R!RefusalsAreDue
  BY DEF RateInv, Alone, R!RefusalsAreDue
<1>4. R!BucketBounded
  <2>1. Appending \in SUBSET Threads
    BY DEF Appending
  <2> QED  BY <2>1, <1>1, CountThreads, SameCount DEF RateInv, RoomLeft, R!BucketBounded
<1> QED  BY <1>2, <1>3, <1>4 DEF LimitKept, R!LimitKept

-----------------------------------------------------------------------------
(***************************************************************************)
(* The visitor counter.  Every increment that has not read the file yet    *)
(* leaves room for one more in the count; and as long as nothing is        *)
(* disturbed the file and the holder of the lock account for every         *)
(* increment that returned.                                                *)
(***************************************************************************)
Steps == {"idle", "exists", "create", "fill", "lock", "read", "truncate", "dump", "unlock"}
Unread == {p \in Processes : step[p] \in {"exists", "create", "fill", "lock", "read"}}
Total == V!Parsed(first) + begun
Due == V!Parsed(first) + counted

CountTypes ==
    /\ file \in Nat \union {None, Empty} /\ first \in Firsts
    /\ flock \in Processes \union {None} /\ step \in [Processes -> Steps] /\ n \in [Processes -> Nat]
    /\ begun \in Nat /\ counted \in Nat /\ shown \in Nat /\ disturbed \in BOOLEAN

\* The count never runs ahead of the page views.
NotAhead ==
    /\ IsFiniteSet(Unread)
    /\ V!Parsed(file) + Cardinality(Unread) <= Total
    /\ \A p \in Processes : step[p] \in {"truncate", "dump"} => n[p] + Cardinality(Unread) <= Total
    /\ V!ShownIsReal

\* The process that has the lock is the one past it.
HolderKnown == \A p \in Processes : step[p] \in {"read", "truncate", "dump", "unlock"} <=> flock = p

Accounted ==
    /\ flock = None => V!Parsed(file) = Due
    /\ \A p \in Processes :
        /\ step[p] = "read" => V!Parsed(file) = Due
        /\ step[p] \in {"truncate", "dump"} => n[p] = Due + 1
        /\ step[p] = "unlock" => V!Parsed(file) = Due + 1
        /\ file = None => step[p] \in {"idle", "exists", "create"}
        /\ step[p] = "create" => file = None
        /\ step[p] = "fill" => file = Empty /\ \A other \in Processes \ {p} : step[other] = "idle"

CountInv == CountTypes /\ NotAhead /\ HolderKnown /\ (~disturbed => Accounted)

LEMMA ParsedNumbers ==
    /\ V!Parsed(None) = 0 /\ V!Parsed(Empty) = 0 /\ \A k \in Nat : V!Parsed(k) = k
    /\ \A c \in Nat \union {None, Empty} : V!Parsed(c) \in Nat
BY ContentsAssumption DEF V!Parsed

LEMMA CountNumbers ==
    ASSUME CountInv
    PROVE  /\ V!Parsed(first) \in Nat /\ V!Parsed(file) \in Nat /\ Cardinality(Unread) \in Nat
           /\ Total \in Nat /\ Due \in Nat /\ \A p \in Processes : n[p] \in Nat /\ step[p] \in Steps
<1>1. V!Parsed(first) \in Nat /\ V!Parsed(file) \in Nat
  BY ContentsAssumption, ParsedNumbers DEF CountInv, CountTypes
<1>2. Cardinality(Unread) \in Nat
  BY FS_CardinalityType DEF CountInv, NotAhead
<1> QED  BY <1>1, <1>2 DEF CountInv, CountTypes, Total, Due

LEMMA CountInit == V!Init => CountInv
<1> SUFFICES ASSUME V!Init PROVE CountInv
  OBVIOUS
<1>1. V!Parsed(first) \in Nat /\ file = first
  BY ContentsAssumption, ParsedNumbers DEF V!Init
<1>2. CountTypes
  BY <1>1, ContentsAssumption DEF V!Init, CountTypes, Steps
<1>3. Unread = {} /\ IsFiniteSet({}) /\ Cardinality({}) = 0
  BY FS_EmptySet DEF V!Init, Unread
<1>4. NotAhead
  BY <1>1, <1>3 DEF V!Init, NotAhead, V!ShownIsReal, Total
<1>5. HolderKnown /\ Accounted
  BY <1>1, ActorsAssumption DEF V!Init, HolderKnown, Accounted, Due
<1> QED  BY <1>2, <1>4, <1>5 DEF CountInv

\* The steps of an increment keep the types.
LEMMA CountTypesKept == ASSUME CountInv, [V!Next]_counter PROVE CountTypes'
<1> USE DEF CountTypes, Steps
<1>1. V!Parsed(file) \in Nat
  BY CountNumbers
<1>2. CountTypes
  BY DEF CountInv
<1>3. ASSUME NEW p \in Processes, V!Exists(p) PROVE CountTypes'
  <2>1. (IF file = None THEN "create" ELSE "lock") \in Steps
    OBVIOUS
  <2> QED  BY <1>2, <1>3, <2>1 DEF V!Exists, V!Goto
<1>4. ASSUME NEW p \in Processes, V!PageView(p) \/ V!Create(p) \/ V!Fill(p) PROVE CountTypes'
  <2>1. CASE V!PageView(p)
    BY <1>2, <2>1 DEF V!PageView, V!Goto
  <2>2. CASE V!Create(p)
    BY <1>2, <2>2 DEF V!Create, V!Goto
  <2>3. CASE V!Fill(p)
    BY <1>2, <2>3 DEF V!Fill, V!Goto
  <2> QED  BY <1>4, <2>1, <2>2, <2>3
<1>5. ASSUME NEW p \in Processes, V!Lock(p) \/ V!Read(p) \/ V!Truncate(p) PROVE CountTypes'
  BY <1>1, <1>2, <1>5 DEF V!Lock, V!Read, V!Truncate, V!Goto
<1>6. ASSUME NEW p \in Processes, V!Dump(p) \/ V!Unlock(p) \/ V!Kill(p) PROVE CountTypes'
  <2>1. CASE V!Dump(p)
    BY <1>2, <2>1 DEF V!Dump, V!Goto
  <2>2. CASE V!Unlock(p)
    BY <1>2, <2>2 DEF V!Unlock, V!Goto
  <2>3. CASE V!Kill(p)
    BY <1>2, <2>3 DEF V!Kill
  <2> QED  BY <1>6, <2>1, <2>2, <2>3
<1>7. CASE V!ReadCount \/ UNCHANGED counter
  BY <1>1, <1>2, <1>7 DEF V!ReadCount, counter
<1> QED  BY <1>3, <1>4, <1>5, <1>6, <1>7 DEF V!Next, V!Increment

\* Beginning takes a place among those that have not read, reading gives it up.
LEMMA CountNotAhead == ASSUME CountInv, [V!Next]_counter PROVE NotAhead'
<1> DEFINE size == Cardinality(Unread)
<1>1. CountTypes /\ NotAhead
  BY DEF CountInv
<1>2. /\ V!Parsed(file) \in Nat /\ size \in Nat /\ Total \in Nat /\ IsFiniteSet(Unread)
      /\ V!Parsed(first) \in Nat /\ begun \in Nat /\ shown \in Nat
      /\ \A p \in Processes : n[p] \in Nat
  BY <1>1, CountNumbers DEF NotAhead, CountTypes
\* The set and the bound stay; the file gets nothing, or what its holder counted.
<1>3. ASSUME NEW p \in Processes, Unread' = Unread, first' = first, begun' = begun, n' = n, shown' = shown,
             \A other \in Processes \ {p} : step'[other] = step[other],
             step'[p] \in {"truncate", "dump"} => step[p] \in {"truncate", "dump"},
             \/ V!Parsed(file') = V!Parsed(file) \/ V!Parsed(file') = 0
             \/ V!Parsed(file') = n[p] /\ step[p] = "dump"
      PROVE  NotAhead'
  BY <1>1, <1>2, <1>3 DEF NotAhead, Total, V!ShownIsReal
<1>4. ASSUME NEW p \in Processes, V!PageView(p) PROVE NotAhead'
  <2>1. p \notin Unread /\ Unread' = Unread \union {p}
    BY <1>1, <1>4 DEF V!PageView, V!Goto, Unread, CountTypes
  <2>2. IsFiniteSet(Unread') /\ size' = size + 1
    BY <1>2, <2>1, OneJoins
  <2>3. Total' = Total + 1
    BY <1>2, <1>4 DEF V!PageView, Total
  <2>4. step'[p] = "exists" /\ \A other \in Processes \ {p} : step'[other] = step[other]
    BY <1>1, <1>4 DEF V!PageView, V!Goto, CountTypes
  <2>5. UNCHANGED <<file, n, shown, first>> /\ begun' = begun + 1
    BY <1>4 DEF V!PageView
  <2>6. V!ShownIsReal'
    BY <1>1, <1>2, <2>5 DEF NotAhead, V!ShownIsReal
  <2> QED  BY <1>1, <1>2, <2>2, <2>3, <2>4, <2>5, <2>6 DEF NotAhead
<1>5. ASSUME NEW p \in Processes,
             V!Exists(p) \/ V!Create(p) \/ V!Fill(p) \/ V!Lock(p) \/ V!Truncate(p) \/ V!Dump(p) \/ V!Unlock(p)
      PROVE  NotAhead'
  <2>1. UNCHANGED <<first, begun, n, shown>>
    BY <1>5 DEF V!Exists, V!Create, V!Fill, V!Lock, V!Truncate, V!Dump, V!Unlock
  <2>2. /\ \A other \in Processes \ {p} : step'[other] = step[other]
        /\ step'[p] \in {"truncate", "dump"} => step[p] \in {"truncate", "dump"}
        /\ p \in Unread' <=> p \in Unread
    BY <1>1, <1>5 DEF V!Exists, V!Create, V!Fill, V!Lock, V!Truncate, V!Dump, V!Unlock, V!Goto, CountTypes, Unread
  <2>3. Unread' = Unread
    BY <2>2 DEF Unread
  <2>4. \/ V!Parsed(file') = V!Parsed(file) \/ V!Parsed(file') = 0
        \/ V!Parsed(file') = n[p] /\ step[p] = "dump"
    BY <1>2, <1>5, ParsedNumbers DEF V!Exists, V!Create, V!Fill, V!Lock, V!Truncate, V!Dump, V!Unlock, V!Goto
  <2> QED  BY <1>3, <2>1, <2>2, <2>3, <2>4
<1>6. ASSUME NEW p \in Processes, V!Read(p) PROVE NotAhead'
  <2>1. /\ step[p] = "read" /\ step' = [step EXCEPT ![p] = "truncate"]
        /\ n' = [n EXCEPT ![p] = V!Parsed(file) + 1]
        /\ UNCHANGED <<file, begun, shown, first>>
    BY <1>6 DEF V!Read, V!Goto
  <2>2. p \in Unread /\ Unread' = Unread \ {p}
    BY <1>1, <2>1 DEF Unread, CountTypes
  <2>3. IsFiniteSet(Unread') /\ size' = size - 1 /\ size' \in Nat
    BY <1>2, <2>2, OneLeaves
  <2>4. /\ n'[p] = V!Parsed(file) + 1
        /\ \A other \in Processes \ {p} : step'[other] = step[other] /\ n'[other] = n[other]
    BY <1>1, <2>1 DEF CountTypes
  <2>5. Total' = Total /\ V!ShownIsReal'
    BY <1>1, <2>1 DEF Total, NotAhead, V!ShownIsReal
  <2>6. \A other \in Processes : step'[other] \in {"truncate", "dump"} => n'[other] + size' <= Total'
    BY <1>1, <1>2, <2>3, <2>4, <2>5 DEF NotAhead
  <2> QED  BY <1>1, <1>2, <2>1, <2>3, <2>5, <2>6 DEF NotAhead
<1>7. ASSUME NEW p \in Processes, V!Kill(p) PROVE NotAhead'
  <2>1. step' = [step EXCEPT ![p] = "idle"] /\ UNCHANGED <<file, n, begun, shown, first>>
    BY <1>7 DEF V!Kill
  <2>2. Unread' \subseteq Unread /\ \A other \in Processes \ {p} : step'[other] = step[other]
    BY <1>1, <2>1 DEF Unread, CountTypes
  <2>3. step'[p] = "idle"
    BY <1>1, <2>1 DEF CountTypes
  <2>4. IsFiniteSet(Unread') /\ size' <= size /\ size' \in Nat
    BY <1>2, <2>2, FS_Subset, FS_CardinalityType
  <2>5. Total' = Total /\ V!ShownIsReal'
    BY <1>1, <2>1 DEF Total, NotAhead, V!ShownIsReal
  <2>6. \A other \in Processes : step'[other] \in {"truncate", "dump"} => n'[other] + size' <= Total'
    BY <1>1, <1>2, <2>1, <2>2, <2>3, <2>4, <2>5 DEF NotAhead
  <2> QED  BY <1>1, <1>2, <2>1, <2>4, <2>5, <2>6 DEF NotAhead
<1>8. CASE V!ReadCount
  <2>1. shown' = V!Parsed(file) /\ UNCHANGED <<file, step, n, begun, first>>
    BY <1>8 DEF V!ReadCount
  <2>2. Unread' = Unread /\ Total' = Total
    BY <2>1 DEF Unread, Total
  <2>3. V!ShownIsReal'
    BY <1>1, <1>2, <2>1 DEF NotAhead, V!ShownIsReal, Total
  <2> QED  BY <1>1, <2>1, <2>2, <2>3 DEF NotAhead
<1>9. CASE UNCHANGED counter
  BY <1>1, <1>9 DEF counter, NotAhead, Unread, Total, V!ShownIsReal
<1> QED  BY <1>4, <1>5, <1>6, <1>7, <1>8, <1>9 DEF V!Next, V!Increment

LEMMA CountHolder == ASSUME CountInv, [V!Next]_counter PROVE HolderKnown'
<1> USE DEF HolderKnown, CountTypes
<1>1. CountTypes /\ HolderKnown /\ None \notin Processes
  BY ActorsAssumption DEF CountInv
<1>2. ASSUME NEW p \in Processes, V!PageView(p) \/ V!Create(p) \/ V!Fill(p) \/ V!Exists(p) PROVE HolderKnown'
  BY <1>1, <1>2 DEF V!PageView, V!Create, V!Fill, V!Exists, V!Goto
<1>3. ASSUME NEW p \in Processes, V!Lock(p) PROVE HolderKnown'
  BY <1>1, <1>3 DEF V!Lock, V!Free, V!Goto
<1>4. ASSUME NEW p \in Processes, V!Read(p) \/ V!Truncate(p) \/ V!Dump(p) PROVE HolderKnown'
  BY <1>1, <1>4 DEF V!Read, V!Truncate, V!Dump, V!Goto
<1>5. ASSUME NEW p \in Processes, V!Unlock(p) PROVE HolderKnown'
  BY <1>1, <1>5 DEF V!Unlock, V!Goto
<1>6. ASSUME NEW p \in Processes, V!Kill(p) PROVE HolderKnown'
  BY <1>1, <1>6 DEF V!Kill
<1>7. CASE V!ReadCount \/ UNCHANGED counter
  BY <1>1, <1>7 DEF V!ReadCount, counter
<1> QED  BY <1>2, <1>3, <1>4, <1>5, <1>6, <1>7 DEF V!Next, V!Increment

LEMMA CountAccounted == ASSUME CountInv, [V!Next]_counter, ~disturbed' PROVE Accounted'
<1>1. ~disturbed
  BY DEF V!Next, V!Increment, V!PageView, V!Exists, V!Create, V!Fill, V!Lock, V!Read, V!Truncate, V!Dump,
         V!Unlock, V!Kill, V!ReadCount, counter, CountInv, CountTypes
<1>2. CountTypes /\ HolderKnown /\ Accounted /\ None \notin Processes /\ None # Empty
      /\ None \notin Nat /\ Empty \notin Nat
  BY <1>1, ActorsAssumption, ContentsAssumption DEF CountInv
<1>3. V!Parsed(file) \in Nat /\ Due \in Nat /\ V!Parsed(first) \in Nat /\ counted \in Nat
  BY CountNumbers DEF CountInv, CountTypes
<1> USE DEF HolderKnown, Accounted, CountTypes, Due
<1>4. ASSUME NEW p \in Processes, V!PageView(p) PROVE Accounted'
  <2>1. \A other \in Processes : step[other] \notin {"create", "fill"}
    BY <1>4 DEF V!PageView
  <2> QED  BY <1>2, <1>4, <2>1 DEF V!PageView, V!Goto
<1>5. ASSUME NEW p \in Processes, V!Exists(p) PROVE Accounted'
  BY <1>2, <1>5 DEF V!Exists, V!Goto
<1>6. ASSUME NEW p \in Processes, V!Create(p) PROVE Accounted'
  <2>1. \A other \in Processes \ {p} : step[other] = "idle"
    BY <1>6 DEF V!Create, V!Others
  <2>2. flock = None /\ V!Parsed(file) = 0
    BY <1>2, <1>6, <2>1, ParsedNumbers DEF V!Create, V!Goto
  <2> QED  BY <1>2, <1>3, <1>6, <2>1, <2>2, ParsedNumbers DEF V!Create, V!Goto
<1>7. ASSUME NEW p \in Processes, V!Fill(p) PROVE Accounted'
  <2>1. (\A other \in Processes \ {p} : step[other] = "idle") /\ file = Empty
    BY <1>2, <1>7 DEF V!Fill, V!Goto
  <2>2. flock = None /\ V!Parsed(file) = 0 /\ V!Parsed(0) = 0
    BY <1>2, <1>7, <2>1, ParsedNumbers DEF V!Fill, V!Goto
  <2> QED  BY <1>2, <1>3, <1>7, <2>1, <2>2 DEF V!Fill, V!Goto
<1>8. ASSUME NEW p \in Processes, V!Lock(p) PROVE Accounted'
  BY <1>2, <1>8 DEF V!Lock, V!Free, V!Goto
<1>9. ASSUME NEW p \in Processes, V!Read(p) PROVE Accounted'
  BY <1>2, <1>9 DEF V!Read, V!Goto
<1>10. ASSUME NEW p \in Processes, V!Truncate(p) PROVE Accounted'
  BY <1>2, <1>10 DEF V!Truncate, V!Goto
<1>11. ASSUME NEW p \in Processes, V!Dump(p) PROVE Accounted'
  <2>1. file' = n[p] /\ n[p] = Due + 1 /\ V!Parsed(n[p]) = n[p] /\ n[p] \in Nat
    BY <1>2, <1>11, ParsedNumbers DEF V!Dump, V!Goto
  <2> QED  BY <1>2, <1>11, <2>1 DEF V!Dump, V!Goto
<1>12. ASSUME NEW p \in Processes, V!Unlock(p) PROVE Accounted'
  BY <1>2, <1>3, <1>12 DEF V!Unlock, V!Goto
<1>13. ASSUME NEW p \in Processes, V!Kill(p) PROVE FALSE
  BY <1>13 DEF V!Kill
<1>14. CASE V!ReadCount \/ UNCHANGED counter
  BY <1>2, <1>14 DEF V!ReadCount, counter
<1> QED  BY <1>4, <1>5, <1>6, <1>7, <1>8, <1>9, <1>10, <1>11, <1>12, <1>13, <1>14 DEF V!Next, V!Increment

LEMMA CountStep == ASSUME CountInv, [V!Next]_counter PROVE CountInv'
BY CountTypesKept, CountNotAhead, CountHolder, CountAccounted DEF CountInv

LEMMA CountTrue == CountInv => CounterIsTrue
<1> SUFFICES ASSUME CountInv PROVE CounterIsTrue
  OBVIOUS
<1>1. V!VisitsCounted
  BY ActorsAssumption DEF CountInv, CountTypes, HolderKnown, Accounted, Due, V!VisitsCounted
<1> QED  BY <1>1 DEF CountInv, NotAhead, CounterIsTrue, V!CounterIsTrue

-----------------------------------------------------------------------------
(***************************************************************************)
(* Forms.  That the form of a sound tab agrees with the cookie lasts only  *)
(* because every response under way brings the same token, and a page      *)
(* under way makes its form from it.                                       *)
(***************************************************************************)
UnderWay == {t \in Tabs : tab[t] \in {"loading", "posting"}}

FormsTyped ==
    /\ minted \in Nat /\ cookie \in Nat \union {None}
    /\ tab \in [Tabs -> {"blank", "loading", "form", "posting"}]
    /\ form \in [Tabs -> Nat \union {None}] /\ pending \in [Tabs -> Nat \union {None}]
    /\ verdict \in [Tabs -> {"accepted", "refused", None}]
    /\ sound \subseteq Tabs

\* No response under way has a token that is yet to be made, nor the browser.
Made ==
    /\ cookie # None => cookie <= minted
    /\ \A u \in UnderWay : pending[u] \in Nat /\ pending[u] <= minted

\* All responses under way bring token.
Bring(token) == \A u \in UnderWay : pending[u] = token

Agreed(t) ==
    /\ tab[t] = "form" => cookie # None /\ form[t] = cookie /\ Bring(cookie)
    /\ tab[t] = "loading" => cookie \in {None, pending[t]} /\ Bring(pending[t])
    /\ verdict[t] # "refused"

FormsInv == FormsTyped /\ Made /\ \A t \in sound : Agreed(t)

LEMMA FormsInit == Init => FormsInv
BY NoneAssumption DEF Init, FormsInv, FormsTyped, Made, UnderWay, Agreed

\* A request leaves the sound tabs sound: with a cookie its response brings the
\* token that all have, and without one there are no others (Send).
LEMMA RequestAgrees ==
    ASSUME FormsInv, NEW t \in Tabs, NEW next \in {"loading", "posting"}, Send(t, next), cookie' = cookie,
           form' = form, \A u \in Tabs \ {t} : verdict'[u] = verdict[u],
           NEW s \in sound \ {t}, cookie = None => Others(t) = {}
    PROVE  Agreed(s)'
<1>1. s \in Tabs /\ tab'[s] = tab[s] /\ pending'[s] = pending[s] /\ form'[s] = form[s] /\ verdict'[s] = verdict[s]
  BY DEF FormsInv, FormsTyped, Send
<1>2. pending'[t] = TokenForRequest /\ tab'[t] = next
  BY DEF FormsInv, FormsTyped, Send
<1>3. UnderWay' \subseteq UnderWay \union {t} /\ \A u \in UnderWay' \ {t} : pending'[u] = pending[u]
  BY DEF FormsInv, FormsTyped, Send, UnderWay
<1>4. Agreed(s)
  BY DEF FormsInv
<1>5. CASE cookie # None
    <2>1. TokenForRequest = cookie
      BY <1>5 DEF TokenForRequest
    <2> QED  BY <1>1, <1>2, <1>3, <1>4, <1>5, <2>1 DEF Agreed, Bring
<1>6. CASE cookie = None
    <2>1. \A u \in UnderWay \ {t} : pending[u] # TokenForRequest
      BY <1>6 DEF TokenForRequest, Fresh, FormsInv, Made, FormsTyped
    <2>2. UnderWay \subseteq {t}
      BY <1>6, <2>1 DEF Others, UnderWay
    <2>3. tab[s] \notin {"form", "loading"}
      BY <1>1, <1>4, <1>6, <2>2 DEF Agreed, UnderWay
    <2> QED  BY <1>1, <1>4, <2>3 DEF Agreed
<1> QED  BY <1>5, <1>6

\* A request takes its token from the cookie or makes the next one (Send).
LEMMA RequestMade ==
    ASSUME FormsInv, NEW t \in Tabs, NEW next \in {"loading", "posting"}, Send(t, next), cookie' = cookie
    PROVE  /\ Made'
           /\ minted' \in Nat
           /\ tab' \in [Tabs -> {"blank", "loading", "form", "posting"}]
           /\ pending' \in [Tabs -> Nat \union {None}]
<1>1. TokenForRequest \in Nat /\ TokenForRequest <= minted' /\ minted' \in Nat /\ minted <= minted'
  BY DEF FormsInv, FormsTyped, Made, Send, TokenForRequest, Fresh
<1>2. pending'[t] = TokenForRequest /\ \A u \in Tabs \ {t} : pending'[u] = pending[u] /\ tab'[u] = tab[u]
  BY DEF FormsInv, FormsTyped, Send
<1>3. \A u \in UnderWay' : pending'[u] \in Nat /\ pending'[u] <= minted'
  <2> SUFFICES ASSUME NEW u \in UnderWay' PROVE pending'[u] \in Nat /\ pending'[u] <= minted'
    OBVIOUS
  <2>1. CASE u = t
    BY <1>1, <1>2, <2>1
  <2>2. CASE u # t
    <3>1. u \in UnderWay /\ pending'[u] = pending[u]
      BY <1>2, <2>2 DEF UnderWay
    <3>2. pending[u] \in Nat /\ pending[u] <= minted /\ minted \in Nat
      BY <3>1 DEF FormsInv, Made, FormsTyped
    <3> QED  BY <1>1, <3>1, <3>2
  <2> QED  BY <2>1, <2>2
<1>4. cookie' # None => cookie' <= minted'
  BY <1>1 DEF FormsInv, Made, FormsTyped
<1>5. tab' \in [Tabs -> {"blank", "loading", "form", "posting"}] /\ pending' \in [Tabs -> Nat \union {None}]
  BY <1>1 DEF FormsInv, FormsTyped, Send
<1> QED  BY <1>1, <1>3, <1>4, <1>5 DEF Made

LEMMA GetAgrees ==
    ASSUME FormsInv, NEW t \in Tabs, Get(t)
    PROVE  FormsInv'
<1>1. Send(t, "loading") /\ cookie' = cookie /\ form' = form /\ verdict' = [verdict EXCEPT ![t] = None]
  BY DEF Get
<1>2. Made' /\ FormsTyped'
  BY <1>1, RequestMade DEF FormsInv, FormsTyped, Get
<1>3. ASSUME NEW s \in sound' PROVE Agreed(s)'
  <2>1. cookie = None => Others(t) = {}
    BY <1>3 DEF Get, FormsInv, FormsTyped
  <2>2. CASE s # t
    <3>1. s \in sound \ {t} /\ \A u \in Tabs \ {t} : verdict'[u] = verdict[u]
      BY <1>1, <1>3, <2>2 DEF Get, FormsInv, FormsTyped
    <3> QED  BY <1>1, <2>1, <3>1, RequestAgrees
  <2>3. CASE s = t
    <3>1. Others(t) = {}
      <4>1. Others(t) # {} => t \notin sound'
        BY DEF Get
      <4> QED  BY <1>3, <2>3, <4>1
    <3>2. pending'[t] = TokenForRequest /\ tab'[t] = "loading" /\ verdict'[t] = None
      BY <1>1 DEF FormsInv, FormsTyped, Send
    <3>3. \A u \in UnderWay' \ {t} : pending'[u] = TokenForRequest
      BY <1>1, <3>1 DEF FormsInv, FormsTyped, Send, UnderWay, Others
    <3>4. cookie' \in {None, pending'[t]}
      BY <1>1, <3>2 DEF TokenForRequest
    <3> QED  BY <2>3, <3>2, <3>3, <3>4, NoneAssumption DEF Agreed, Bring
  <2> QED  BY <2>2, <2>3
<1> QED  BY <1>2, <1>3 DEF FormsInv

LEMMA PostAgrees ==
    ASSUME FormsInv, NEW t \in Tabs, Post(t)
    PROVE  FormsInv'
<1>1. /\ Send(t, "posting") /\ cookie' = cookie /\ form' = form
      /\ verdict' = [verdict EXCEPT ![t] = CsrfProtect(t)]
  BY DEF Post
<1>2. Made' /\ FormsTyped'
  BY <1>1, RequestMade DEF FormsInv, FormsTyped, Post, CsrfProtect
<1>3. ASSUME NEW s \in sound' PROVE Agreed(s)'
  <2>1. (cookie = None => Others(t) = {}) /\ s \in sound
    BY <1>3 DEF Post
  <2>2. CASE s # t
    <3>1. s \in sound \ {t} /\ \A u \in Tabs \ {t} : verdict'[u] = verdict[u]
      BY <1>1, <2>1, <2>2 DEF FormsInv, FormsTyped
    <3> QED  BY <1>1, <2>1, <3>1, RequestAgrees
  <2>3. CASE s = t
    <3>1. cookie # None /\ form[t] = cookie
      BY <2>1, <2>3 DEF FormsInv, Agreed, Post
    <3>2. verdict'[t] = "accepted" /\ tab'[t] = "posting"
      BY <1>1, <3>1 DEF CsrfProtect, TokenForRequest, Send, FormsInv, FormsTyped
    <3> QED  BY <2>3, <3>2 DEF Agreed
  <2> QED  BY <2>2, <2>3
<1> QED  BY <1>2, <1>3 DEF FormsInv

\* The response sets the token that all bring (Loaded, Answered).
LEMMA ResponseAgrees ==
    ASSUME FormsInv, NEW t \in Tabs, Loaded(t) \/ Answered(t)
    PROVE  FormsInv'
<1>1. /\ t \in UnderWay /\ cookie' = pending[t] /\ pending' = pending /\ minted' = minted
      /\ verdict' = verdict /\ sound' = sound
      /\ \A u \in Tabs \ {t} : tab'[u] = tab[u] /\ form'[u] = form[u]
  BY DEF Loaded, Answered, Arrive, UnderWay, FormsInv, FormsTyped
<1>2. UnderWay' = UnderWay \ {t} /\ tab'[t] \in {"form", "blank"}
  BY DEF Loaded, Answered, Arrive, UnderWay, FormsInv, FormsTyped
<1>3. pending[t] \in Nat /\ pending[t] <= minted
  BY <1>1 DEF FormsInv, Made
<1>4. FormsTyped'
  <2>1. tab' \in [Tabs -> {"blank", "loading", "form", "posting"}] /\ form' \in [Tabs -> Nat \union {None}]
    BY DEF Loaded, Answered, Arrive, FormsInv, FormsTyped
  <2> QED  BY <1>1, <1>3, <2>1 DEF FormsInv, FormsTyped
<1>5. Made'
  BY <1>1, <1>2, <1>3 DEF FormsInv, Made
<1>6. ASSUME NEW s \in sound PROVE Agreed(s)'
  <2>1. Agreed(s) /\ s \in Tabs
    BY DEF FormsInv, FormsTyped
  <2>2. CASE s # t
    BY <1>1, <1>2, <1>3, <2>1, <2>2, NoneAssumption DEF Agreed, Bring
  <2>3. CASE s = t
    <3>1. CASE tab[t] = "loading"
      <4>1. form'[t] = pending[t] /\ Bring(pending[t])
        BY <2>1, <2>3, <3>1 DEF Loaded, Answered, Agreed, FormsInv, FormsTyped
      <4> QED  BY <1>1, <1>2, <1>3, <2>1, <2>3, <4>1, NoneAssumption DEF Agreed, Bring
    <3>2. CASE tab[t] = "posting"
      <4>1. tab'[t] = "blank"
        BY <3>2 DEF Loaded, Answered, Arrive, FormsInv, FormsTyped
      <4> QED  BY <1>1, <2>1, <2>3, <4>1 DEF Agreed
    <3> QED  BY <1>1, <3>1, <3>2 DEF UnderWay
  <2> QED  BY <2>2, <2>3
<1> QED  BY <1>1, <1>4, <1>5, <1>6 DEF FormsInv

LEMMA FormsStep == ASSUME FormsInv, [Next]_vars PROVE FormsInv'
<1>1. ASSUME NEW t \in Tabs, Get(t) PROVE FormsInv'
  BY <1>1, GetAgrees
<1>2. ASSUME NEW t \in Tabs, Loaded(t) \/ Answered(t) PROVE FormsInv'
  BY <1>2, ResponseAgrees
<1>3. ASSUME NEW t \in Tabs, Post(t) PROVE FormsInv'
  BY <1>3, PostAgrees
<1>4. CASE Expire
  BY <1>4 DEF Expire, FormsInv, FormsTyped, Made, UnderWay
<1>5. CASE UNCHANGED vars
  BY <1>5 DEF vars, FormsInv, FormsTyped, Made, UnderWay, Agreed, Bring
<1> QED  BY <1>1, <1>2, <1>3, <1>4, <1>5 DEF Next

LEMMA FormsInvariance == Spec => []FormsInv
<1>1. FormsInv /\ [Next]_vars => FormsInv'
  BY FormsStep
<1> QED  BY <1>1, FormsInit, PTL DEF Spec

-----------------------------------------------------------------------------
(***************************************************************************)
(* Browsing.  Each list a statement answers with is of works, and one made *)
(* from the works themselves is of published ones; the page under way      *)
(* knows as open at least what is published.                               *)
(***************************************************************************)
LEMMA SameOrders ==
    /\ \A S, before : B!InOrder(S, before) = InOrder(S, before)
    /\ \A S : B!Ascending(S) = Ascending(S)
    /\ \A s, S : B!Among(s, S) = Among(s, S)
<1>1. \A S, before : B!InOrder(S, before) = InOrder(S, before)
  BY DEF B!InOrder, InOrder, B!Cardinality, Cardinality
<1>2. \A S : B!Ascending(S) = Ascending(S)
  BY <1>1 DEF B!Ascending, Ascending
<1> QED  BY <1>1, <1>2 DEF B!Among, Among

LEMMA ListsOfWorks ==
    /\ \A s \in Seq(Works) : \A S : Among(s, S) \in Seq(Works \intersect S)
    /\ \A s \in Seq(Works) : IsFiniteSet(B!ToSet(s)) /\ B!ToSet(s) \subseteq Works
    /\ \A S \in SUBSET Works : IsFiniteSet(S) => Ascending(S) \in Seq(S)
<1>1. \A s \in Seq(Works) : \A S : Among(s, S) \in Seq(Works \intersect S)
  BY AmongIs
<1>2. ASSUME NEW s \in Seq(Works) PROVE IsFiniteSet(B!ToSet(s)) /\ B!ToSet(s) \subseteq Works
  <2>1. Len(s) \in Nat /\ DOMAIN s = 1 .. Len(s) /\ \A i \in 1 .. Len(s) : s[i] \in Works
    BY SeqParts
  <2>2. B!ToSet(s) = {s[i] : i \in 1 .. Len(s)}
    BY <2>1 DEF B!ToSet
  <2> DEFINE f == [i \in 1 .. Len(s) |-> s[i]]
  <2>3. f \in Surjection(1 .. Len(s), B!ToSet(s))
    BY <2>2 DEF Surjection
  <2>4. IsFiniteSet(1 .. Len(s))
    BY <2>1, IntervalSize
  <2> HIDE DEF f
  <2>5. IsFiniteSet(B!ToSet(s))
    BY <2>3, <2>4, FS_Surjection
  <2> QED  BY <2>1, <2>2, <2>5
<1>3. ASSUME NEW S \in SUBSET Works, IsFiniteSet(S) PROVE Ascending(S) \in Seq(S)
  <2>1. S \in SUBSET Int
    BY ShelfAssumption
  <2>2. Cardinality(S) \in Nat /\ Ascending(S) \in [1 .. Cardinality(S) -> S]
    BY <1>3, <2>1, AscendingIs
  <2> QED  BY <2>2, ListIsSeq
<1> QED  BY <1>1, <1>2, <1>3

PublishedWorks == published \subseteq Works /\ IsFiniteSet(published) /\ popularity \in [Works -> Nat]

LEMMA MostViewedIs == ASSUME PublishedWorks PROVE B!MostViewed \in Seq(published)
<1> DEFINE before == {p \in published \X published : B!MoreViewed(p[1], p[2])}
<1>1. \A v, w \in published : <<v, w>> \in before <=> B!MoreViewed(v, w)
  OBVIOUS
<1>2. B!MostViewed = InOrder(published, before)
  BY SameOrders DEF B!MostViewed
<1>3. published \subseteq Nat /\ \A w \in published : popularity[w] \in Nat
  BY ShelfAssumption DEF PublishedWorks
<1> HIDE DEF before
<1>4. StrictlyOrders(before, published)
  <2>1. \A u, v, w \in published : B!MoreViewed(u, v) /\ B!MoreViewed(v, w) => B!MoreViewed(u, w)
    BY <1>3 DEF B!MoreViewed
  <2>2. \A w \in published : ~B!MoreViewed(w, w)
    BY <1>3 DEF B!MoreViewed
  <2>3. \A v, w \in published : v = w \/ B!MoreViewed(v, w) \/ B!MoreViewed(w, v)
    BY <1>3 DEF B!MoreViewed
  <2> QED  BY <1>1, <2>1, <2>2, <2>3 DEF StrictlyOrders
<1>5. Cardinality(published) \in Nat /\ InOrder(published, before) \in [1 .. Cardinality(published) -> published]
  BY <1>4, InOrderIs DEF PublishedWorks
<1> QED  BY <1>2, <1>5, ListIsSeq

\* A page of a list.
LEMMA SliceIs ==
    ASSUME NEW S, NEW s \in Seq(S), NEW p \in Nat \ {0}
    PROVE  B!Slice(s, p) \in Seq(S)
<1> DEFINE a == (p - 1) * Per
           z == p * Per
           last == IF z < Len(s) THEN z ELSE Len(s)
<1>1. Len(s) \in Nat /\ \A i \in 1 .. Len(s) : s[i] \in S
  BY SeqParts
<1>2. a \in Nat /\ z \in Nat
  BY ShelfAssumption
<1>3. B!Slice(s, p) = SubSeq(s, a + 1, last)
  BY DEF B!Slice
<1> HIDE DEF a, z
<1>4. a + 1 \in Int /\ last \in Int /\ \A i \in a + 1 .. last : s[i] \in S
  BY <1>1, <1>2
<1> HIDE DEF last
<1> QED  BY <1>3, <1>4, SubSeqProperties

LEMMA ListingsAre ==
    ASSUME B!TypeOK
    PROVE  /\ PublishedWorks
           /\ \A s \in Seq(Works) : B!Public(s) \in Seq(Works \intersect published)
           /\ \A l \in Listings : B!Contents(l) \in Seq(Works) /\ B!Selected(l) \in Seq(Works)
           /\ B!Newest \in Seq(Works) /\ B!Matches \in Seq(Works) /\ B!Sitemap \in Seq(published)
           /\ \A s \in Seq(Works) : B!Filtered(s) \in Seq(Works)
<1>1. PublishedWorks
  <2>1. shelf \in Seq(Works) /\ published \subseteq B!ToSet(shelf) /\ popularity \in [Works -> Nat]
    BY DEF B!TypeOK
  <2>2. IsFiniteSet(B!ToSet(shelf)) /\ B!ToSet(shelf) \subseteq Works
    BY <2>1, ListsOfWorks
  <2>3. IsFiniteSet(published)
    BY <2>1, <2>2, FS_Subset
  <2> QED  BY <2>1, <2>2, <2>3 DEF PublishedWorks
<1>2. \A S, T : S \subseteq T => Seq(S) \subseteq Seq(T)
  OBVIOUS
<1>3. \A s \in Seq(Works) : \A S : B!Among(s, S) \in Seq(Works \intersect S)
  BY SameOrders, ListsOfWorks
<1>4. \A s \in Seq(Works) : \A S : B!Among(s, S) \in Seq(Works)
  <2>1. \A S : Works \intersect S \subseteq Works
    OBVIOUS
  <2> QED  BY <1>2, <1>3, <2>1
<1>5. shelf \in Seq(Works) /\ members \in Seq(Works) /\ Rank \in Seq(Works) /\ Bibliography \in Seq(Works)
  BY ShelfAssumption DEF B!TypeOK
<1>6. \A s \in Seq(Works) : B!Public(s) \in Seq(Works \intersect published) /\ B!Public(s) \in Seq(Works)
                            /\ B!Filtered(s) \in Seq(Works)
  BY <1>3, <1>4 DEF B!Public, B!Filtered
<1>7. B!Newest \in Seq(Works) /\ B!Matches \in Seq(Works) /\ B!Category \in Seq(Works)
  BY <1>4, <1>5, <1>6 DEF B!Newest, B!Matches, B!Category
<1>8. B!Sitemap \in Seq(published) /\ B!MostViewed \in Seq(published)
  BY <1>1, SameOrders, ListsOfWorks, MostViewedIs DEF B!Sitemap, PublishedWorks
<1>9. B!Sitemap \in Seq(Works) /\ B!MostViewed \in Seq(Works)
  BY <1>1, <1>2, <1>8 DEF PublishedWorks
<1>10. \A l \in Listings : B!Contents(l) \in Seq(Works)
  <2>1. B!Found \in Seq(Works) /\ B!Public(B!Found) \in Seq(Works)
    BY <1>6, <1>7 DEF B!Found
  <2>2. B!Public(Bibliography) \in Seq(Works) /\ B!Public(members) \in Seq(Works)
    BY <1>5, <1>6
  <2> QED  BY <1>7, <1>9, <2>1, <2>2, ListingsAssumption DEF B!Contents
<1>11. \A l \in Listings : B!Selected(l) \in Seq(Works)
  BY <1>5, <1>10 DEF B!Selected
<1> QED  BY <1>1, <1>6, <1>7, <1>8, <1>10, <1>11

LEMMA ToSetIs == \A T : \A s \in Seq(T) : \A x : x \in B!ToSet(s) <=> \E i \in 1 .. Len(s) : s[i] = x
<1> SUFFICES ASSUME NEW T, NEW s \in Seq(T) PROVE \A x : x \in B!ToSet(s) <=> \E i \in 1 .. Len(s) : s[i] = x
  OBVIOUS
<1> QED  BY SeqParts DEF B!ToSet

LEMMA AmongSet == ASSUME NEW s \in Seq(Works), NEW S PROVE B!ToSet(B!Among(s, S)) = B!ToSet(s) \intersect S
<1> DEFINE few == Among(s, S)
<1>1. few \in Seq(Works \intersect S) /\ \E from : Takes(from, few, s, S)
  BY AmongIs
<1>2. PICK from : Takes(from, few, s, S)
  BY <1>1
<1> HIDE DEF few
<1>3. \A x : x \in B!ToSet(few) <=> \E k \in 1 .. Len(few) : few[k] = x
  BY <1>1, ToSetIs
<1>4. \A x : x \in B!ToSet(s) <=> \E i \in 1 .. Len(s) : s[i] = x
  BY ToSetIs
<1>5. ASSUME NEW x, x \in B!ToSet(few) PROVE x \in B!ToSet(s) /\ x \in S
  BY <1>2, <1>3, <1>4, <1>5 DEF Takes
<1>6. ASSUME NEW x, x \in B!ToSet(s), x \in S PROVE x \in B!ToSet(few)
  <2>1. PICK i \in 1 .. Len(s) : s[i] = x
    BY <1>4, <1>6
  <2>2. PICK k \in 1 .. Len(few) : from[k] = i
    BY <1>2, <1>6, <2>1 DEF Takes
  <2> QED  BY <1>2, <1>3, <2>1, <2>2 DEF Takes
<1> QED  BY <1>5, <1>6, SameOrders DEF few

LEMMA ConsSet ==
    ASSUME NEW w \in Works, NEW s \in Seq(Works)
    PROVE  <<w>> \o s \in Seq(Works) /\ B!ToSet(<<w>> \o s) = {w} \union B!ToSet(s)
<1> DEFINE longer == <<w>> \o s
           l == Len(s)
<1>1. l \in Nat /\ longer \in Seq(Works) /\ Len(longer) = 1 + l
      /\ \A i \in 1 .. 1 + l : longer[i] = IF i <= 1 THEN w ELSE s[i - 1]
  <2>1. <<w>> \in Seq(Works) /\ Len(<<w>>) = 1 /\ <<w>>[1] = w
    OBVIOUS
  <2>2. \A i \in 1 .. 1 + l : i <= 1 => i = 1
    OBVIOUS
  <2> QED  BY <2>1, <2>2, ConcatProperties, LenProperties
<1> HIDE DEF longer, l
<1>2. \A x : x \in B!ToSet(longer) <=> \E i \in 1 .. 1 + l : longer[i] = x
  BY <1>1, ToSetIs
<1>3. \A x : x \in B!ToSet(s) <=> \E i \in 1 .. l : s[i] = x
  BY ToSetIs DEF l
<1>4. 1 \in 1 .. 1 + l /\ longer[1] = w
  BY <1>1
<1>5. \A i \in 1 .. l : i + 1 \in 1 .. 1 + l /\ longer[i + 1] = s[i]
  BY <1>1
<1>6. \A i \in 1 .. 1 + l : i # 1 => i - 1 \in 1 .. l /\ longer[i] = s[i - 1]
  BY <1>1
<1>7. \A x : x \in B!ToSet(longer) <=> x = w \/ x \in B!ToSet(s)
  BY <1>2, <1>3, <1>4, <1>5, <1>6
<1> QED  BY <1>1, <1>7 DEF longer

LEMMA PagesAre == \A total \in Nat : B!PageCount(total) \in Nat \ {0}
<1> SUFFICES ASSUME NEW total \in Nat, total # 0 PROVE (total + Per - 1) \div Per \in Nat \ {0}
  BY DEF B!PageCount
<1>1. Per \in Nat \ {0} /\ total + Per - 1 \in Nat /\ total + Per - 1 >= Per
  BY ShelfAssumption
<1> DEFINE a == total + Per - 1
<1> HIDE DEF a
<1>2. ASSUME NEW b \in Nat \ {0}, NEW c \in Nat, c >= b PROVE c \div b \in Nat \ {0}
  BY <1>2
<1> QED  BY <1>1, <1>2

BrowseInv == B!TypeOK /\ (at \notin {"home", "end"} => published \subseteq open)

LEMMA BrowseInit == B!Init => BrowseInv
<1> SUFFICES ASSUME B!Init PROVE BrowseInv
  OBVIOUS
<1>1. Shelf \in Seq(Works) /\ 1 \in Nat \ {0} /\ <<>> \in Seq(Works)
  BY ShelfAssumption
<1>2. B!Slice(Shelf, 1) \in Seq(Works)
  BY <1>1, SliceIs
<1>3. changes \in 0 .. MaxChanges /\ popularity \in [Works -> Nat]
  BY PartsBoundsAssumption DEF B!Init
<1> QED  BY <1>1, <1>2, <1>3 DEF B!Init, B!TypeOK, B!Places, BrowseInv

\* What a page shows was open: it is published, or the sitemap lists it.
LEMMA PageShown ==
    ASSUME BrowseInv, at \notin {"home", "end"}, NEW works \in Seq(published), B!Shown(works)
    PROVE  BrowseInv' /\ B!ToSet(SubSeq(seen', Len(seen) + 1, Len(seen'))) \subseteq open
<1>1. B!TypeOK /\ published \subseteq open /\ open \subseteq Works /\ seen \in Seq(Works) /\ listing \in Listings
  BY DEF BrowseInv, B!TypeOK
<1>2. works \in Seq(Works)
  BY <1>1
<1>3. /\ seen' \in Seq(Works) /\ Len(seen') = Len(seen) + Len(works)
      /\ Len(seen) \in Nat /\ Len(works) \in Nat
      /\ \A i \in 1 .. Len(works) : seen'[Len(seen) + i] = works[i] /\ works[i] \in published
  <2>1. seen' = seen \o works
    BY DEF B!Shown
  <2>2. /\ seen \o works \in Seq(Works) /\ Len(seen \o works) = Len(seen) + Len(works)
        /\ \A i \in 1 .. Len(seen) + Len(works) :
               (seen \o works)[i] = IF i <= Len(seen) THEN seen[i] ELSE works[i - Len(seen)]
    BY <1>1, <1>2, ConcatProperties
  <2>3. Len(seen) \in Nat /\ Len(works) \in Nat /\ \A i \in 1 .. Len(works) : works[i] \in published
    BY <1>1, <1>2, SeqParts
  <2> QED  BY <2>1, <2>2, <2>3
<1>4. B!ToSet(SubSeq(seen', Len(seen) + 1, Len(seen'))) \subseteq open
  <2> DEFINE new == SubSeq(seen', Len(seen) + 1, Len(seen'))
             l == Len(seen)
             k == Len(works)
  <2>1. \A i \in l + 1 .. l + k : seen'[i] \in published
    <3> SUFFICES ASSUME NEW i \in l + 1 .. l + k PROVE seen'[i] \in published
      OBVIOUS
    <3>1. i - l \in 1 .. k /\ l + (i - l) = i
      BY <1>3
    <3> QED  BY <1>3, <3>1
  <2>2. l + 1 \in Int /\ Len(seen') \in Int /\ Len(seen') = l + k
    BY <1>3
  <2> HIDE DEF l, k
  <2>3. new \in Seq(published)
    BY <2>1, <2>2, SubSeqProperties DEF l
  <2> HIDE DEF new
  <2>4. \A x \in B!ToSet(new) : x \in published
    BY <2>3, SeqParts, ToSetIs
  <2> QED  BY <1>1, <2>4 DEF new
<1>5. /\ at' \in B!Places /\ page' \in Nat \ {0} /\ open' \subseteq Works
      /\ at' \notin {"home", "end"} => published \subseteq open'
  <2>1. page \in Nat \ {0}
    BY DEF BrowseInv, B!TypeOK
  <2>2. CASE page < pages
    <3>1. page' = page + 1 /\ at' \in {"match", "count"} /\ open' = published
      BY <2>2 DEF B!Shown, B!First
    <3> QED  BY <1>1, <2>1, <3>1 DEF B!Places
  <2>3. CASE ~(page < pages)
    BY <1>1, <2>1, <2>3 DEF B!Shown, B!Places
  <2> QED  BY <2>2, <2>3
<1>6. UNCHANGED <<shelf, published, indexed, popularity, members, gathered, changes, listing, pages, ids, start, moved, gaps>>
  BY DEF B!Shown, B!catalog
<1> HIDE DEF B!Places
<1>7. B!TypeOK'
  BY <1>1, <1>3, <1>5, <1>6 DEF B!TypeOK
<1> QED  BY <1>4, <1>5, <1>6, <1>7 DEF BrowseInv

\* Publishing moves a work to the front of the shelf.
LEMMA ShelfGrows ==
    ASSUME B!TypeOK, NEW w \in Works, shelf' = <<w>> \o B!Among(shelf, Works \ {w})
    PROVE  shelf' \in Seq(Works) /\ B!ToSet(shelf') = B!ToSet(shelf) \union {w}
<1> DEFINE rest == B!Among(shelf, Works \ {w})
<1>1. shelf \in Seq(Works) /\ B!ToSet(shelf) \subseteq Works
  BY ListsOfWorks DEF B!TypeOK
<1>2. rest \in Seq(Works) /\ B!ToSet(rest) = B!ToSet(shelf) \intersect (Works \ {w})
  <2>1. rest \in Seq(Works \intersect (Works \ {w}))
    BY <1>1, SameOrders, ListsOfWorks
  <2>2. B!ToSet(rest) = B!ToSet(shelf) \intersect (Works \ {w})
    BY <1>1, AmongSet
  <2>3. Works \intersect (Works \ {w}) \subseteq Works
    OBVIOUS
  <2> HIDE DEF rest
  <2> QED  BY <2>1, <2>2, <2>3
<1>3. shelf' = <<w>> \o rest
  OBVIOUS
<1> HIDE DEF rest
<1>4. shelf' \in Seq(Works) /\ B!ToSet(shelf') = {w} \union B!ToSet(rest)
  BY <1>2, <1>3, ConsSet
<1> QED  BY <1>1, <1>2, <1>4

LEMMA BrowseStep ==
    ASSUME BrowseInv, [B!Next]_browse
    PROVE  /\ BrowseInv'
           /\ seen' # seen => B!ToSet(SubSeq(seen', Len(seen) + 1, Len(seen'))) \subseteq open
<1> DEFINE Goal == /\ BrowseInv'
                   /\ seen' # seen => B!ToSet(SubSeq(seen', Len(seen) + 1, Len(seen'))) \subseteq open
<1>1. B!TypeOK /\ (at \notin {"home", "end"} => published \subseteq open)
  BY DEF BrowseInv
<1>2. /\ PublishedWorks
      /\ \A s \in Seq(Works) : B!Public(s) \in Seq(Works \intersect published)
      /\ \A l \in Listings : B!Contents(l) \in Seq(Works) /\ B!Selected(l) \in Seq(Works)
      /\ B!Newest \in Seq(Works) /\ B!Matches \in Seq(Works) /\ B!Sitemap \in Seq(published)
      /\ \A s \in Seq(Works) : B!Filtered(s) \in Seq(Works)
  BY <1>1, ListingsAre
<1>3. \A s \in Seq(Works) : B!PageCount(Len(s)) \in Nat \ {0}
  BY LenProperties, PagesAre
<1>4. \A s \in Seq(Works) : \A p \in Nat \ {0} : B!Slice(s, p) \in Seq(Works)
  BY SliceIs
<1>5. \A s \in Seq(Works) : B!Public(s) \in Seq(Works)
  <2>1. Seq(Works \intersect published) \subseteq Seq(Works)
    OBVIOUS
  <2> QED  BY <1>2, <2>1
<1>6. Seq(published) \subseteq Seq(Works)
  BY <1>2 DEF PublishedWorks
<1>7. /\ shelf \in Seq(Works) /\ published \subseteq B!ToSet(shelf) /\ indexed = B!ToSet(shelf)
      /\ popularity \in [Works -> Nat] /\ members \in Seq(Works) /\ gathered \in Seq(Works)
      /\ changes \in 0 .. MaxChanges /\ at \in B!Places /\ listing \in Listings
      /\ page \in Nat \ {0} /\ pages \in Nat
      /\ ids \in Seq(Works) /\ seen \in Seq(Works) /\ start \in Seq(Works)
      /\ open \subseteq Works /\ moved \subseteq Works /\ gaps \in BOOLEAN
  BY <1>1 DEF B!TypeOK
<1>8. /\ "end" \in B!Places /\ "ids" \in B!Places /\ "load" \in B!Places /\ "allow" \in B!Places
      /\ B!First(listing) \in B!Places
  BY DEF B!Places, B!First
<1>9. published \subseteq Works
  BY <1>2 DEF PublishedWorks
<1>10. ASSUME B!Enter PROVE Goal
  <2>1. start' \in Seq(Works) /\ pages' \in Nat
    BY <1>2, <1>3, <1>6, <1>7, <1>10 DEF B!Enter
  <2> QED  BY <1>7, <1>8, <1>9, <1>10, <2>1 DEF B!Enter, B!catalog, BrowseInv, B!TypeOK
<1>11. ASSUME B!Count PROVE Goal
  <2>1. pages' \in Nat \ {0} /\ page' \in Nat \ {0}
    BY <1>2, <1>3, <1>7, <1>11 DEF B!Count
  <2> QED  BY <1>1, <1>7, <1>8, <1>11, <2>1 DEF B!Count, B!catalog, BrowseInv, B!TypeOK
<1>12. ASSUME B!CountSitemap PROVE Goal
  BY <1>1, <1>7, <1>8, <1>12 DEF B!CountSitemap, B!catalog, BrowseInv, B!TypeOK
<1>13. ASSUME B!Ids PROVE Goal
  <2>1. ids' \in Seq(Works)
    BY <1>2, <1>4, <1>7, <1>13 DEF B!Ids
  <2> QED  BY <1>1, <1>7, <1>8, <1>13, <2>1 DEF B!Ids, B!catalog, BrowseInv, B!TypeOK
<1>14. ASSUME B!Match PROVE Goal
  BY <1>1, <1>2, <1>7, <1>8, <1>14 DEF B!Match, B!catalog, BrowseInv, B!TypeOK
<1>15. ASSUME B!Allow PROVE Goal
  <2> DEFINE allowed == B!Filtered(B!Public(ids))
  <2>1. allowed \in Seq(Works)
    BY <1>2, <1>5, <1>7
  <2>2. pages' = B!PageCount(Len(allowed)) /\ ids' = B!Slice(allowed, page)
    BY <1>15 DEF B!Allow
  <2> HIDE DEF allowed
  <2>3. pages' \in Nat /\ ids' \in Seq(Works)
    BY <1>3, <1>4, <1>7, <2>1, <2>2
  <2> QED  BY <1>1, <1>7, <1>8, <1>15, <2>3 DEF B!Allow, B!catalog, BrowseInv, B!TypeOK
<1>16. ASSUME B!Load PROVE Goal
  <2>1. B!Loaded \in Seq(published) /\ B!Shown(B!Loaded) /\ at = "load"
    <3>1. B!Public(ids) \in Seq(Works \intersect published) /\ Works \intersect published = published
      BY <1>2, <1>7, <1>9
    <3> QED  BY <1>16, <3>1 DEF B!Load, B!Loaded
  <2> QED  BY <2>1, PageShown
<1>17. ASSUME B!ShowSitemap PROVE Goal
  <2>1. B!Slice(B!Sitemap, page) \in Seq(published) /\ B!Shown(B!Slice(B!Sitemap, page)) /\ at = "ids"
    BY <1>2, <1>7, <1>17, SliceIs DEF B!ShowSitemap
  <2> QED  BY <2>1, PageShown
<1>18. ASSUME B!Change PROVE changes' \in 0 .. MaxChanges
  BY <1>7, <1>18, PartsBoundsAssumption DEF B!Change
<1>19. ASSUME NEW w \in Works, B!Publish(w) PROVE Goal
  <2>1. shelf' \in Seq(Works) /\ B!ToSet(shelf') = B!ToSet(shelf) \union {w}
    BY <1>1, <1>19, ShelfGrows DEF B!Publish
  <2>2. changes' \in 0 .. MaxChanges
    BY <1>18, <1>19 DEF B!Publish
  <2>3. gaps' \in BOOLEAN
    BY <1>7, <1>19 DEF B!Publish, B!TooLate, B!Walking
  <2> QED  BY <1>1, <1>7, <1>9, <1>19, <2>1, <2>2, <2>3 DEF B!Publish, B!walk, BrowseInv, B!TypeOK
<1>20. ASSUME NEW w \in Works, B!Hide(w) PROVE Goal
  <2>1. changes' \in 0 .. MaxChanges
    BY <1>18, <1>20 DEF B!Hide
  <2>2. gaps' \in BOOLEAN
    BY <1>7, <1>20 DEF B!Hide, B!Walking
  <2> QED  BY <1>1, <1>7, <1>20, <2>1, <2>2 DEF B!Hide, B!walk, BrowseInv, B!TypeOK
<1>21. ASSUME NEW w \in Works, B!View(w) PROVE Goal
  <2>1. changes' \in 0 .. MaxChanges
    BY <1>18, <1>21 DEF B!View
  <2>2. popularity' \in [Works -> Nat]
    BY <1>7, <1>21 DEF B!View
  <2> QED  BY <1>1, <1>7, <1>21, <2>1, <2>2 DEF B!View, B!walk, BrowseInv, B!TypeOK
<1>22. ASSUME B!Gather PROVE Goal
  <2>1. changes' \in 0 .. MaxChanges
    BY <1>18, <1>22 DEF B!Gather
  <2>2. gathered' \in Seq(Works)
    BY <1>2, <1>4, <1>22 DEF B!Gather
  <2> QED  BY <1>1, <1>7, <1>22, <2>1, <2>2 DEF B!Gather, B!walk, BrowseInv, B!TypeOK
<1>23. ASSUME B!Refresh PROVE Goal
  <2>1. gaps' \in BOOLEAN /\ <<>> \in Seq(Works)
    BY <1>7, <1>23 DEF B!Refresh, B!Walking
  <2> QED  BY <1>1, <1>7, <1>23, <2>1 DEF B!Refresh, B!walk, BrowseInv, B!TypeOK
<1>24. CASE UNCHANGED browse
  BY <1>1, <1>7, <1>24 DEF browse, BrowseInv, B!TypeOK
<1> QED
  BY <1>10, <1>11, <1>12, <1>13, <1>14, <1>15, <1>16, <1>17, <1>19, <1>20, <1>21, <1>22, <1>23, <1>24 DEF B!Next

-----------------------------------------------------------------------------
(***************************************************************************)
(* Walking through a listing.  Each listing keeps the order of one list of *)
(* works; Scope is what it lists, public or not.  A change brings none but *)
(* the moved works forward (a list's first k entries, before and after, are*)
(* compared by what is ahead of what), so what lies on the pages before    *)
(* the one asked for has passed the visitor; and the last page takes in    *)
(* all there is as long as its count is not overtaken.                     *)
(***************************************************************************)
\* s has the entries of b that are in S, in the order of b.
Picks(s, b, S) ==
    /\ s \in Seq(Works) /\ Distinct(s) /\ Entries(s) = Entries(b) \intersect S
    /\ \A x, y : Ahead(s, x, y) <=> x \in S /\ y \in S /\ Ahead(b, x, y)

LEMMA PicksAmong ==
    ASSUME NEW b \in Seq(Works), Distinct(b), NEW S
    PROVE  Picks(B!Among(b, S), b, S)
BY AmongOrder, SameOrders DEF Picks

LEMMA PicksTwice ==
    ASSUME NEW b \in Seq(Works), NEW s, NEW S, NEW Q, Picks(s, b, S)
    PROVE  Picks(B!Among(s, Q), b, S \intersect Q)
<1>1. /\ s \in Seq(Works) /\ Distinct(s) /\ Entries(s) = Entries(b) \intersect S
      /\ \A x, y : Ahead(s, x, y) <=> x \in S /\ y \in S /\ Ahead(b, x, y)
  BY DEF Picks
<1>2. /\ B!Among(s, Q) \in Seq(Works) /\ Distinct(B!Among(s, Q)) /\ Entries(B!Among(s, Q)) = Entries(s) \intersect Q
      /\ \A x, y : Ahead(B!Among(s, Q), x, y) <=> x \in Q /\ y \in Q /\ Ahead(s, x, y)
  BY <1>1, AmongOrder, SameOrders
<1> QED  BY <1>1, <1>2 DEF Picks

LEMMA PicksAll == ASSUME NEW b \in Seq(Works), Distinct(b) PROVE Picks(b, b, Works)
<1>1. Entries(b) \subseteq Works
  BY SeqParts DEF Entries
<1>2. \A x, y : Ahead(b, x, y) => x \in Works /\ y \in Works
  BY SeqParts DEF Ahead
<1> QED  BY <1>1, <1>2 DEF Picks

\* What comes ahead in a new list when nothing that was ahead is lost.
LEMMA PicksForward ==
    ASSUME NEW b \in Seq(Works), NEW c \in Seq(Works), NEW s, NEW t, NEW S, NEW U, NEW M, NEW k \in Nat,
           Picks(s, b, S), Picks(t, c, U),
           (Entries(c) \intersect U) \ M \subseteq Entries(b) \intersect S,
           Within(s, k) \intersect S \subseteq U,
           \A x \in Entries(b) \ M : \A y : Ahead(b, y, x) => Ahead(c, y, x)
    PROVE  Within(t, k) \subseteq M \union Within(s, k)
<1>1. /\ s \in Seq(Works) /\ Distinct(s) /\ Entries(s) = Entries(b) \intersect S
      /\ \A x, y : Ahead(s, x, y) <=> x \in S /\ y \in S /\ Ahead(b, x, y)
      /\ t \in Seq(Works) /\ Distinct(t) /\ Entries(t) = Entries(c) \intersect U
      /\ \A x, y : Ahead(t, x, y) <=> x \in U /\ y \in U /\ Ahead(c, x, y)
  BY DEF Picks
<1>2. \A x \in Entries(t) \ M : x \in Entries(s)
  BY <1>1
<1>3. ASSUME NEW x \in Entries(t) \ M, NEW y \in Within(s, k), Ahead(s, y, x) PROVE Ahead(t, y, x)
  BY <1>1, <1>2, <1>3
<1> QED  BY <1>1, <1>2, <1>3, Forward

LEMMA ConsParts ==
    ASSUME NEW w \in Works, NEW s \in Seq(Works), NEW l \in Nat, l = Len(s)
    PROVE  /\ <<w>> \o s \in Seq(Works) /\ Len(<<w>> \o s) = 1 + l /\ (<<w>> \o s)[1] = w
           /\ \A i \in 1 .. l : i + 1 \in 1 .. 1 + l /\ (<<w>> \o s)[i + 1] = s[i]
           /\ \A i \in 1 .. 1 + l : i # 1 => i - 1 \in 1 .. l /\ (<<w>> \o s)[i] = s[i - 1]
<1>1. <<w>> \in Seq(Works) /\ Len(<<w>>) = 1 /\ <<w>>[1] = w
  OBVIOUS
<1>2. /\ <<w>> \o s \in Seq(Works) /\ Len(<<w>> \o s) = 1 + l
      /\ \A i \in 1 .. 1 + l : (<<w>> \o s)[i] = IF i <= 1 THEN <<w>>[i] ELSE s[i - 1]
  BY <1>1, ConcatProperties
<1> DEFINE t == <<w>> \o s
<1>3. \A i \in 1 .. 1 + l : t[i] = IF i <= 1 THEN <<w>>[i] ELSE s[i - 1]
  BY <1>2
<1> HIDE DEF t
<1>4. t[1] = w
  BY <1>1, <1>3
<1>5. \A i \in 1 .. l : i + 1 \in 1 .. 1 + l /\ t[i + 1] = s[i]
  BY <1>3
<1>6. \A i \in 1 .. 1 + l : i # 1 => i - 1 \in 1 .. l /\ t[i] = s[i - 1]
  BY <1>3
<1> QED  BY <1>2, <1>4, <1>5, <1>6 DEF t

\* Publishing puts a work at the front of the shelf and leaves the others.
LEMMA ShelfOrder ==
    ASSUME NEW s \in Seq(Works), Distinct(s), NEW w \in Works, NEW t, t = <<w>> \o B!Among(s, Works \ {w})
    PROVE  /\ t \in Seq(Works) /\ Distinct(t) /\ Entries(t) = Entries(s) \union {w}
           /\ \A x \in Entries(s) \ {w} : \A y : Ahead(s, y, x) => Ahead(t, y, x)
<1> DEFINE rest == B!Among(s, Works \ {w})
<1>1. Picks(rest, s, Works \ {w})
  BY PicksAmong
<1>2. /\ rest \in Seq(Works) /\ Distinct(rest) /\ Entries(rest) = Entries(s) \intersect (Works \ {w})
      /\ \A x, y : Ahead(rest, x, y) <=> x \in Works \ {w} /\ y \in Works \ {w} /\ Ahead(s, x, y)
  BY <1>1 DEF Picks
<1>3. t = <<w>> \o rest
  OBVIOUS
<1> HIDE DEF rest
<1>4. PICK l \in Nat : l = Len(rest)
  BY <1>2, SeqParts
<1>5. /\ t \in Seq(Works) /\ Len(t) = 1 + l /\ t[1] = w
      /\ \A i \in 1 .. l : i + 1 \in 1 .. 1 + l /\ t[i + 1] = rest[i]
      /\ \A i \in 1 .. 1 + l : i # 1 => i - 1 \in 1 .. l /\ t[i] = rest[i - 1]
  <2> DEFINE longer == <<w>> \o rest
  <2>1. /\ longer \in Seq(Works) /\ Len(longer) = 1 + l /\ longer[1] = w
        /\ \A i \in 1 .. l : i + 1 \in 1 .. 1 + l /\ longer[i + 1] = rest[i]
        /\ \A i \in 1 .. 1 + l : i # 1 => i - 1 \in 1 .. l /\ longer[i] = rest[i - 1]
    BY <1>2, <1>4, ConsParts
  <2>2. t = longer
    BY <1>3
  <2> HIDE DEF longer
  <2> QED  BY <2>1, <2>2
<1>6. \A i \in 1 .. l : rest[i] \in Entries(rest)
  BY <1>4 DEF Entries
<1>7. 1 \in 1 .. 1 + l
  BY <1>4
<1>8. Entries(t) = Entries(s) \union {w}
  <2>1. Entries(t) = {w} \union Entries(rest)
    <3>1. ASSUME NEW x \in Entries(t) PROVE x \in {w} \union Entries(rest)
      <4>1. PICK i \in 1 .. 1 + l : t[i] = x
        BY <1>5, <3>1 DEF Entries
      <4>2. i # 1 => i - 1 \in 1 .. l /\ t[i] = rest[i - 1]
        BY <1>5
      <4> QED  BY <1>5, <1>6, <4>1, <4>2
    <3>2. ASSUME NEW x \in Entries(rest) PROVE x \in Entries(t)
      BY <1>4, <1>5 DEF Entries
    <3>3. w \in Entries(t)
      BY <1>5, <1>7 DEF Entries
    <3> QED  BY <3>1, <3>2, <3>3
  <2>2. Entries(s) \subseteq Works
    BY SeqParts DEF Entries
  <2> QED  BY <1>2, <2>1, <2>2
<1>9. Distinct(t)
  <2> SUFFICES ASSUME NEW i \in 1 .. 1 + l, NEW j \in 1 .. 1 + l, t[i] = t[j], i # j PROVE FALSE
    BY <1>5 DEF Distinct
  <2>1. ASSUME NEW a \in 1 .. 1 + l, a # 1 PROVE t[a] # w
    BY <1>2, <1>5, <1>6, <2>1
  <2>2. i # 1 /\ j # 1
    BY <1>5, <2>1
  <2>3. i - 1 \in 1 .. l /\ j - 1 \in 1 .. l /\ rest[i - 1] = rest[j - 1]
    BY <1>5, <2>2
  <2>4. i - 1 = j - 1
    BY <1>2, <1>4, <2>3 DEF Distinct
  <2> QED  BY <2>4
<1>10. ASSUME NEW x \in Entries(s) \ {w}, NEW y, Ahead(s, y, x) PROVE Ahead(t, y, x)
  <2>1. x \in Works
    BY SeqParts DEF Entries
  <2>2. CASE y = w
    <3>1. x \in Entries(rest)
      BY <1>2, <1>10, <2>1
    <3>2. PICK i \in 1 .. l : rest[i] = x
      BY <1>4, <3>1 DEF Entries
    <3>3. i + 1 \in 1 .. 1 + l /\ 1 \in 1 .. 1 + l /\ 1 < i + 1
      BY <1>4, <1>5, <1>7, <3>2
    <3>4. t[i + 1] = x
      BY <1>5, <3>2
    <3> QED  BY <1>5, <2>2, <3>3, <3>4 DEF Ahead
  <2>3. CASE y # w
    <3>1. y \in Works
      BY <1>10, SeqParts DEF Ahead
    <3>2. Ahead(rest, y, x)
      BY <1>2, <1>10, <2>1, <2>3, <3>1
    <3>3. PICK i, j \in 1 .. l : i < j /\ rest[i] = y /\ rest[j] = x
      BY <1>4, <3>2 DEF Ahead
    <3>4. i + 1 \in 1 .. 1 + l /\ j + 1 \in 1 .. 1 + l /\ t[i + 1] = y /\ t[j + 1] = x
      BY <1>5, <3>3
    <3>5. i + 1 < j + 1
      BY <3>3
    <3> QED  BY <1>5, <3>4, <3>5 DEF Ahead
  <2> QED  BY <2>2, <2>3
<1> QED  BY <1>5, <1>8, <1>9, <1>10

LEMMA ToSetEntries == \A s \in Seq(Works) : B!ToSet(s) = Entries(s)
<1> SUFFICES ASSUME NEW s \in Seq(Works) PROVE B!ToSet(s) = Entries(s)
  OBVIOUS
<1>1. \A x : x \in B!ToSet(s) <=> \E i \in 1 .. Len(s) : s[i] = x
  BY ToSetIs
<1>2. \A x : x \in Entries(s) <=> \E i \in 1 .. Len(s) : s[i] = x
  BY DEF Entries
<1> QED  BY <1>1, <1>2

OrderInv == BrowseInv /\ Distinct(shelf) /\ Distinct(members) /\ Distinct(gathered)

\* A list of a set, and the lists in an order of the works themselves.
Lists(s, S) == s \in Seq(Works) /\ Distinct(s) /\ Entries(s) = S

SortedLists ==
    /\ Lists(B!MostViewed, published) /\ Lists(B!Sitemap, published)
    /\ \A x, y : Ahead(B!MostViewed, x, y) <=> x \in published /\ y \in published /\ B!MoreViewed(x, y)
    /\ \A x, y : Ahead(B!Sitemap, x, y) <=> x \in published /\ y \in published /\ x < y

LEMMA SortedListsAre == PublishedWorks => SortedLists
<1> SUFFICES ASSUME PublishedWorks
             PROVE  SortedLists
  OBVIOUS
<1> DEFINE viewed_more == {p \in published \X published : B!MoreViewed(p[1], p[2])}
           smaller == {p \in published \X published : p[1] < p[2]}
<1>1. \A v, w \in published : <<v, w>> \in viewed_more <=> B!MoreViewed(v, w)
  OBVIOUS
<1>2. \A v, w \in published : <<v, w>> \in smaller <=> v < w
  OBVIOUS
<1>3. B!MostViewed = InOrder(published, viewed_more) /\ B!Sitemap = InOrder(published, smaller)
  BY SameOrders DEF B!MostViewed, B!Sitemap, Ascending
<1>4. /\ published \subseteq Nat /\ published \subseteq Works /\ IsFiniteSet(published)
      /\ \A w \in published : popularity[w] \in Nat
  BY ShelfAssumption DEF PublishedWorks
<1>5. Seq(published) \subseteq Seq(Works)
  <2>1. \A S, T : S \subseteq T => Seq(S) \subseteq Seq(T)
    OBVIOUS
  <2> QED  BY <1>4, <2>1
<1> HIDE DEF viewed_more, smaller
<1>6. StrictlyOrders(viewed_more, published)
  <2>1. \A u, v, w \in published : B!MoreViewed(u, v) /\ B!MoreViewed(v, w) => B!MoreViewed(u, w)
    BY <1>4 DEF B!MoreViewed
  <2>2. \A w \in published : ~B!MoreViewed(w, w)
    BY <1>4 DEF B!MoreViewed
  <2>3. \A v, w \in published : v = w \/ B!MoreViewed(v, w) \/ B!MoreViewed(w, v)
    BY <1>4 DEF B!MoreViewed
  <2> QED  BY <1>1, <2>1, <2>2, <2>3 DEF StrictlyOrders
<1>7. StrictlyOrders(smaller, published)
  BY <1>2, <1>4 DEF StrictlyOrders
<1>8. /\ Lists(B!MostViewed, published)
      /\ \A x, y : Ahead(B!MostViewed, x, y) <=> x \in published /\ y \in published /\ B!MoreViewed(x, y)
  <2> DEFINE s == InOrder(published, viewed_more)
  <2>1. /\ s \in Seq(published) /\ Entries(s) = published /\ Distinct(s)
        /\ \A x, y : Ahead(s, x, y) <=> x \in published /\ y \in published /\ <<x, y>> \in viewed_more
    BY <1>4, <1>6, InOrderAhead
  <2> HIDE DEF s
  <2>2. /\ Lists(s, published)
        /\ \A x, y : Ahead(s, x, y) <=> x \in published /\ y \in published /\ B!MoreViewed(x, y)
    BY <1>1, <1>5, <2>1 DEF Lists
  <2> QED  BY <1>3, <2>2 DEF s
<1>9. /\ Lists(B!Sitemap, published)
      /\ \A x, y : Ahead(B!Sitemap, x, y) <=> x \in published /\ y \in published /\ x < y
  <2> DEFINE s == InOrder(published, smaller)
  <2>1. /\ s \in Seq(published) /\ Entries(s) = published /\ Distinct(s)
        /\ \A x, y : Ahead(s, x, y) <=> x \in published /\ y \in published /\ <<x, y>> \in smaller
    BY <1>4, <1>7, InOrderAhead
  <2> HIDE DEF s
  <2>2. /\ Lists(s, published)
        /\ \A x, y : Ahead(s, x, y) <=> x \in published /\ y \in published /\ x < y
    BY <1>2, <1>5, <2>1 DEF Lists
  <2> QED  BY <1>3, <2>2 DEF s
<1> QED  BY <1>8, <1>9 DEF SortedLists

\* The other lists keep the order of one.
PickedLists ==
    /\ Picks(B!Newest, shelf, published)
    /\ Picks(B!Category, shelf, published \intersect Shelved)
    /\ Picks(B!Public(Bibliography), Bibliography, published)
    /\ Picks(B!Public(B!Found), Rank, indexed \intersect Fits \intersect published)
    /\ Picks(B!Public(members), members, published)
    /\ Picks(members, members, Works)

LEMMA PickedListsAre == OrderInv => PickedLists
<1> SUFFICES ASSUME OrderInv PROVE PickedLists
  OBVIOUS
<1>1. /\ shelf \in Seq(Works) /\ members \in Seq(Works) /\ Distinct(shelf) /\ Distinct(members)
      /\ Rank \in Seq(Works) /\ Bibliography \in Seq(Works)
  BY ShelfAssumption DEF OrderInv, BrowseInv, B!TypeOK
<1>2. Distinct(Rank) /\ Distinct(Bibliography)
  <2>1. DOMAIN Rank = 1 .. Len(Rank) /\ DOMAIN Bibliography = 1 .. Len(Bibliography)
    BY <1>1, SeqParts
  <2> QED  BY <2>1, ShelfAssumption DEF Distinct
<1>3. Picks(B!Newest, shelf, published)
  BY <1>1, PicksAmong DEF B!Newest, B!Public
<1>4. Picks(B!Category, shelf, published \intersect Shelved)
  BY <1>1, <1>3, PicksTwice DEF B!Category
<1>5. Picks(B!Public(Bibliography), Bibliography, published) /\ Picks(B!Public(members), members, published)
  BY <1>1, <1>2, PicksAmong DEF B!Public
<1>6. Picks(B!Public(B!Found), Rank, indexed \intersect Fits \intersect published)
  <2>1. Picks(B!Matches, Rank, indexed)
    BY <1>1, <1>2, PicksAmong DEF B!Matches
  <2>2. Picks(B!Found, Rank, indexed \intersect Fits)
    BY <1>1, <2>1, PicksTwice DEF B!Found, B!Filtered
  <2> QED  BY <1>1, <2>2, PicksTwice DEF B!Public
<1>7. Picks(members, members, Works)
  BY <1>1, PicksAll
<1> QED  BY <1>3, <1>4, <1>5, <1>6, <1>7 DEF PickedLists

LEMMA ListsNext == (OrderInv => PickedLists /\ SortedLists)'
<1>1. OrderInv => PickedLists /\ SortedLists
  BY PickedListsAre, SortedListsAre, ListingsAre DEF OrderInv, BrowseInv
<1> QED  BY <1>1, PTL

\* The works a listing is of, public or not.
Scope ==
    CASE listing = "newest" -> Entries(shelf)
      [] listing = "views" -> Works
      [] listing = "category" -> Entries(shelf) \intersect Shelved
      [] listing = "author" -> Entries(Bibliography)
      [] listing = "sitemap" -> Works
      [] listing = "search" -> Entries(Rank) \intersect indexed \intersect Fits
      [] listing = "collection" -> Entries(members)

Listed == B!Selected(listing)

ListedFacts ==
    /\ Listed \in Seq(Works) /\ Distinct(Listed)
    /\ Entries(Listed) \intersect published = Scope \intersect published
    /\ listing # "collection" => Entries(Listed) = Scope \intersect published /\ B!Contents(listing) = Listed
    /\ listing = "collection" => Listed = members
    /\ B!Contents(listing) \in Seq(Works) /\ Entries(B!Contents(listing)) = Scope \intersect published

LEMMA ListedAre == OrderInv => ListedFacts
<1> SUFFICES ASSUME OrderInv PROVE ListedFacts
  OBVIOUS
<1>1. PickedLists /\ SortedLists /\ PublishedWorks
  BY PickedListsAre, SortedListsAre, ListingsAre DEF OrderInv, BrowseInv
<1>2. published \subseteq Works /\ listing \in Listings
  BY <1>1 DEF PublishedWorks, OrderInv, BrowseInv, B!TypeOK
<1>3. B!Contents(listing) \in Seq(Works) /\ Distinct(B!Contents(listing))
      /\ Entries(B!Contents(listing)) = Scope \intersect published
  <2>1. CASE listing = "newest"
    BY <1>1, <2>1 DEF B!Contents, PickedLists, Picks, Scope
  <2>2. CASE listing = "views"
    BY <1>1, <1>2, <2>2 DEF B!Contents, SortedLists, Lists, Scope
  <2>3. CASE listing = "category"
    BY <1>1, <2>3 DEF B!Contents, PickedLists, Picks, Scope
  <2>4. CASE listing = "author"
    BY <1>1, <2>4 DEF B!Contents, PickedLists, Picks, Scope
  <2>5. CASE listing = "sitemap"
    BY <1>1, <1>2, <2>5 DEF B!Contents, SortedLists, Lists, Scope
  <2>6. CASE listing = "search"
    BY <1>1, <2>6 DEF B!Contents, PickedLists, Picks, Scope
  <2>7. CASE listing = "collection"
    BY <1>1, <2>7 DEF B!Contents, PickedLists, Picks, Scope
  <2> QED  BY <1>2, <2>1, <2>2, <2>3, <2>4, <2>5, <2>6, <2>7, ListingsAssumption
<1>4. CASE listing # "collection"
  BY <1>3, <1>4 DEF Listed, B!Selected, ListedFacts
<1>5. CASE listing = "collection"
  <2>1. Listed = members /\ members \in Seq(Works) /\ Distinct(members)
    BY <1>1, <1>5 DEF Listed, B!Selected, PickedLists, Picks
  <2> QED  BY <1>3, <1>5, <2>1 DEF Scope, ListedFacts
<1> QED  BY <1>3, <1>4, <1>5 DEF ListedFacts

LEMMA ListedNext == (OrderInv => ListedFacts)'
BY ListedAre, PTL

\* When a work is published, what was within the first k of a listing is, save
\* that work, all that is within the first k now: others only fall back.
LEMMA PublishForward ==
    ASSUME OrderInv, OrderInv', NEW w \in Works, B!Publish(w), listing # "sitemap", NEW k \in Nat
    PROVE  /\ Within(Listed', k) \subseteq {w} \union Within(Listed, k)
           /\ Scope \subseteq Scope' /\ Scope' \subseteq Scope \union {w}
<1>1. PickedLists /\ PickedLists' /\ SortedLists /\ SortedLists' /\ PublishedWorks
  BY PickedListsAre, SortedListsAre, ListsNext, ListingsAre DEF OrderInv, BrowseInv
<1>2. /\ listing' = listing /\ listing \in Listings /\ published \subseteq Works /\ members' = members
      /\ published' = published \union {w} /\ indexed' = indexed \union {w}
      /\ popularity' = popularity
      /\ shelf \in Seq(Works) /\ Distinct(shelf) /\ published \subseteq Entries(shelf)
  BY <1>1, ToSetEntries DEF B!Publish, B!walk, OrderInv, BrowseInv, B!TypeOK, PublishedWorks
<1>3. /\ shelf' \in Seq(Works) /\ Distinct(shelf') /\ Entries(shelf') = Entries(shelf) \union {w}
      /\ \A x \in Entries(shelf) \ {w} : \A y : Ahead(shelf, y, x) => Ahead(shelf', y, x)
  BY <1>2, ShelfOrder DEF B!Publish
<1>4. Bibliography \in Seq(Works) /\ Rank \in Seq(Works)
  BY ShelfAssumption
<1>5. CASE listing = "newest"
  <2>1. Listed = B!Newest /\ Listed' = B!Newest' /\ Scope \subseteq Scope' /\ Scope' \subseteq Scope \union {w}
    BY <1>2, <1>3, <1>5 DEF Listed, B!Selected, B!Contents, Scope
  <2>2. Picks(B!Newest, shelf, published) /\ Picks(B!Newest', shelf', published')
    BY <1>1 DEF PickedLists
  <2>3. Within(B!Newest', k) \subseteq {w} \union Within(B!Newest, k)
    BY <1>2, <1>3, <2>2, PicksForward
  <2> QED  BY <2>1, <2>3
<1>6. CASE listing = "category"
  <2>1. Listed = B!Category /\ Listed' = B!Category' /\ Scope \subseteq Scope' /\ Scope' \subseteq Scope \union {w}
    BY <1>2, <1>3, <1>6 DEF Listed, B!Selected, B!Contents, Scope
  <2>2. Picks(B!Category, shelf, published \intersect Shelved) /\ Picks(B!Category', shelf', published' \intersect Shelved)
    BY <1>1 DEF PickedLists
  <2>3. Within(B!Category', k) \subseteq {w} \union Within(B!Category, k)
    BY <1>2, <1>3, <2>2, PicksForward
  <2> QED  BY <2>1, <2>3
<1>7. CASE listing = "author"
  <2> DEFINE s == B!Public(Bibliography)
  <2>1. Listed = s /\ Listed' = s' /\ Scope \subseteq Scope' /\ Scope' \subseteq Scope \union {w}
    BY <1>2, <1>3, <1>7 DEF Listed, B!Selected, B!Contents, Scope
  <2>2. Picks(s, Bibliography, published) /\ Picks(s', Bibliography, published')
    BY <1>1 DEF PickedLists
  <2> HIDE DEF s
  <2>3. Within(s', k) \subseteq {w} \union Within(s, k)
    BY <1>2, <1>4, <2>2, PicksForward
  <2> QED  BY <2>1, <2>3
<1>8. CASE listing = "search"
  <2> DEFINE s == B!Public(B!Found)
  <2>1. Listed = s /\ Listed' = s' /\ Scope \subseteq Scope' /\ Scope' \subseteq Scope \union {w}
    BY <1>2, <1>3, <1>8 DEF Listed, B!Selected, B!Contents, Scope
  <2>2. Picks(s, Rank, indexed \intersect Fits \intersect published) /\ Picks(s', Rank, indexed' \intersect Fits \intersect published')
    BY <1>1 DEF PickedLists
  <2> HIDE DEF s
  <2>3. Within(s', k) \subseteq {w} \union Within(s, k)
    BY <1>2, <1>4, <2>2, PicksForward
  <2> QED  BY <2>1, <2>3
<1>9. CASE listing = "collection"
  BY <1>2, <1>9 DEF Listed, B!Selected, Scope
<1>10. CASE listing = "views"
  <2> DEFINE s == B!MostViewed
  <2>1. Listed = s /\ Listed' = s' /\ Scope \subseteq Scope' /\ Scope' \subseteq Scope \union {w}
    BY <1>2, <1>10 DEF Listed, B!Selected, B!Contents, Scope
  <2>2. /\ s \in Seq(Works) /\ Distinct(s) /\ Entries(s) = published
        /\ \A x, y : Ahead(s, x, y) <=> x \in published /\ y \in published /\ B!MoreViewed(x, y)
        /\ s' \in Seq(Works) /\ Distinct(s') /\ Entries(s') = published'
        /\ \A x, y : Ahead(s', x, y) <=> x \in published' /\ y \in published' /\ B!MoreViewed(x, y)'
    BY <1>1 DEF SortedLists, Lists
  <2>3. \A x, y : B!MoreViewed(x, y)' <=> B!MoreViewed(x, y)
    BY <1>2 DEF B!MoreViewed
  <2> HIDE DEF s
  <2>4. \A x \in Entries(s') \ {w} : x \in Entries(s) /\ \A y : Ahead(s, y, x) => Ahead(s', y, x)
    BY <1>2, <2>2, <2>3
  <2>5. Within(s', k) \subseteq {w} \union Within(s, k)
    BY <2>2, <2>4, Forward
  <2> QED  BY <2>1, <2>5
<1> QED  BY <1>2, <1>5, <1>6, <1>7, <1>8, <1>9, <1>10, ListingsAssumption

\* A view moves a work forward in one listing, and others back.
LEMMA ViewForward ==
    ASSUME OrderInv, OrderInv', NEW w \in Works, B!View(w), NEW k \in Nat
    PROVE  Within(Listed', k) \subseteq {w} \union Within(Listed, k) /\ Scope' = Scope
<1>1. SortedLists /\ SortedLists'
  BY SortedListsAre, ListsNext, ListingsAre DEF OrderInv, BrowseInv
<1>2. /\ popularity' = [popularity EXCEPT ![w] = @ + 1] /\ popularity \in [Works -> Nat]
      /\ UNCHANGED <<shelf, published, indexed, members, listing>> /\ listing \in Listings
  BY DEF B!View, B!walk, OrderInv, BrowseInv, B!TypeOK
<1>3. Scope' = Scope
  BY <1>2 DEF Scope
<1>4. CASE listing # "views"
  <2>1. Listed' = Listed
    BY <1>2, <1>4 DEF Listed, B!Selected, B!Contents, B!Newest, B!Category, B!Public, B!Sitemap, B!Found,
                      B!Filtered, B!Matches
  <2> QED  BY <1>3, <2>1
<1>5. CASE listing = "views"
  <2> DEFINE s == B!MostViewed
  <2>1. Listed = s /\ Listed' = s'
    BY <1>2, <1>5 DEF Listed, B!Selected, B!Contents
  <2>2. /\ s \in Seq(Works) /\ Distinct(s) /\ Entries(s) = published
        /\ \A x, y : Ahead(s, x, y) <=> x \in published /\ y \in published /\ B!MoreViewed(x, y)
        /\ s' \in Seq(Works) /\ Distinct(s') /\ Entries(s') = published'
        /\ \A x, y : Ahead(s', x, y) <=> x \in published' /\ y \in published' /\ B!MoreViewed(x, y)'
    BY <1>1 DEF SortedLists, Lists
  <2>3. published \subseteq Works /\ \A x \in Works : popularity[x] \in Nat
    BY <1>2, ListingsAre DEF OrderInv, BrowseInv, PublishedWorks
  <2>4. \A x, y \in Works : x # w /\ B!MoreViewed(y, x) => B!MoreViewed(y, x)'
    <3> SUFFICES ASSUME NEW x \in Works, NEW y \in Works, x # w, B!MoreViewed(y, x) PROVE B!MoreViewed(y, x)'
      OBVIOUS
    <3>1. popularity'[x] = popularity[x] /\ popularity'[y] \in {popularity[y], popularity[y] + 1}
          /\ (popularity'[y] = popularity[y] \/ y = w)
      BY <1>2
    <3>2. popularity[x] \in Nat /\ popularity[y] \in Nat
      BY <2>3
    <3> QED  BY <3>1, <3>2 DEF B!MoreViewed
  <2> HIDE DEF s
  <2>5. \A x \in Entries(s') \ {w} : x \in Entries(s) /\ \A y : Ahead(s, y, x) => Ahead(s', y, x)
    BY <1>2, <2>2, <2>3, <2>4
  <2>6. Within(s', k) \subseteq {w} \union Within(s, k)
    BY <2>2, <2>5, Forward
  <2> QED  BY <1>3, <2>1, <2>6
<1> QED  BY <1>4, <1>5

\* Hiding a work behind the first k leaves these.
LEMMA HideForward ==
    ASSUME OrderInv, OrderInv', NEW w \in Works, B!Hide(w), NEW k \in Nat,
           listing # "collection" => w \notin Within(Listed, k)
    PROVE  Within(Listed', k) \subseteq Within(Listed, k) /\ Scope' = Scope
<1>1. PickedLists /\ PickedLists' /\ SortedLists /\ SortedLists' /\ PublishedWorks
  BY PickedListsAre, SortedListsAre, ListsNext, ListingsAre DEF OrderInv, BrowseInv
<1>2. /\ published' = published \ {w}
      /\ UNCHANGED <<shelf, indexed, members, listing, popularity>> /\ listing \in Listings
      /\ shelf \in Seq(Works) /\ Bibliography \in Seq(Works) /\ Rank \in Seq(Works)
  BY ShelfAssumption DEF B!Hide, B!walk, OrderInv, BrowseInv, B!TypeOK
<1>3. Scope' = Scope
  BY <1>2 DEF Scope
<1>4. ASSUME NEW b \in Seq(Works), NEW s, NEW t, NEW S, Picks(s, b, S \intersect published),
             Picks(t, b, S \intersect published'), w \notin Within(s, k)
      PROVE  Within(t, k) \subseteq Within(s, k)
  <2>1. (Entries(b) \intersect (S \intersect published')) \ {} \subseteq Entries(b) \intersect (S \intersect published)
    BY <1>2
  <2>2. Within(s, k) \intersect (S \intersect published) \subseteq S \intersect published'
    BY <1>2, <1>4
  <2>3. Within(t, k) \subseteq {} \union Within(s, k)
    BY <1>4, <2>1, <2>2, PicksForward
  <2> QED  BY <2>3
<1>5. ASSUME NEW s, NEW t, Lists(s, published), Lists(t, published'), w \notin Within(s, k),
             \A x, y : x \in published' /\ y \in published' => (Ahead(s, x, y) => Ahead(t, x, y))
      PROVE  Within(t, k) \subseteq Within(s, k)
  <2>1. Within(s, k) \subseteq published
    BY <1>5 DEF Lists, Entries, Within
  <2>2. \A x \in Entries(t) \ {} : x \in Entries(s) /\ \A y \in Within(s, k) : Ahead(s, y, x) => Ahead(t, y, x)
    BY <1>2, <1>5, <2>1 DEF Lists
  <2>3. Within(t, k) \subseteq {} \union Within(s, k)
    BY <1>5, <2>2, Forward DEF Lists
  <2> QED  BY <2>3
<1>6. CASE listing = "newest"
  <2>1. Listed = B!Newest /\ Listed' = B!Newest'
    BY <1>2, <1>6 DEF Listed, B!Selected, B!Contents
  <2>2. Picks(B!Newest, shelf, Works \intersect published) /\ Picks(B!Newest', shelf, Works \intersect published')
    <3>1. Works \intersect published = published /\ Works \intersect published' = published'
      BY <1>1, <1>2 DEF PublishedWorks
    <3> QED  BY <1>1, <1>2, <3>1 DEF PickedLists
  <2> QED  BY <1>2, <1>3, <1>4, <1>6, <2>1, <2>2
<1>7. CASE listing = "category"
  <2>1. Listed = B!Category /\ Listed' = B!Category'
    BY <1>2, <1>7 DEF Listed, B!Selected, B!Contents
  <2>2. Picks(B!Category, shelf, Shelved \intersect published) /\ Picks(B!Category', shelf, Shelved \intersect published')
    <3>1. Shelved \intersect published = published \intersect Shelved /\ Shelved \intersect published' = published' \intersect Shelved
      OBVIOUS
    <3> QED  BY <1>1, <1>2, <3>1 DEF PickedLists
  <2> QED  BY <1>2, <1>3, <1>4, <1>7, <2>1, <2>2
<1>8. CASE listing = "author"
  <2> DEFINE s == B!Public(Bibliography)
  <2>1. Listed = s /\ Listed' = s'
    BY <1>2, <1>8 DEF Listed, B!Selected, B!Contents
  <2>2. Picks(s, Bibliography, Works \intersect published) /\ Picks(s', Bibliography, Works \intersect published')
    <3>1. Works \intersect published = published /\ Works \intersect published' = published'
      BY <1>1, <1>2 DEF PublishedWorks
    <3> QED  BY <1>1, <3>1 DEF PickedLists
  <2> HIDE DEF s
  <2> QED  BY <1>2, <1>3, <1>4, <1>8, <2>1, <2>2
<1>9. CASE listing = "search"
  <2> DEFINE s == B!Public(B!Found)
             S == indexed \intersect Fits
  <2>1. Listed = s /\ Listed' = s'
    BY <1>2, <1>9 DEF Listed, B!Selected, B!Contents
  <2>2. Picks(s, Rank, S \intersect published) /\ Picks(s', Rank, S \intersect published')
    BY <1>1, <1>2 DEF PickedLists
  <2> HIDE DEF s, S
  <2> QED  BY <1>2, <1>3, <1>4, <1>9, <2>1, <2>2
<1>10. CASE listing = "collection"
  BY <1>2, <1>3, <1>10 DEF Listed, B!Selected
<1>11. CASE listing = "views"
  <2>1. Listed = B!MostViewed /\ Listed' = B!MostViewed'
    BY <1>2, <1>11 DEF Listed, B!Selected, B!Contents
  <2>2. \A x, y : B!MoreViewed(x, y)' <=> B!MoreViewed(x, y)
    BY <1>2 DEF B!MoreViewed
  <2>3. \A x, y : x \in published' /\ y \in published' => (Ahead(B!MostViewed, x, y) => Ahead(B!MostViewed', x, y))
    BY <1>1, <2>2 DEF SortedLists
  <2>4. Lists(B!MostViewed, published) /\ Lists(B!MostViewed', published')
    BY <1>1 DEF SortedLists
  <2> QED  BY <1>3, <1>5, <1>11, <2>1, <2>3, <2>4
<1>12. CASE listing = "sitemap"
  <2>1. Listed = B!Sitemap /\ Listed' = B!Sitemap'
    BY <1>2, <1>12 DEF Listed, B!Selected, B!Contents
  <2>3. \A x, y : x \in published' /\ y \in published' => (Ahead(B!Sitemap, x, y) => Ahead(B!Sitemap', x, y))
    BY <1>1 DEF SortedLists
  <2>4. Lists(B!Sitemap, published) /\ Lists(B!Sitemap', published')
    BY <1>1 DEF SortedLists
  <2> QED  BY <1>3, <1>5, <1>12, <2>1, <2>3, <2>4
<1> QED  BY <1>2, <1>6, <1>7, <1>8, <1>9, <1>10, <1>11, <1>12, ListingsAssumption

LEMMA SliceParts ==
    ASSUME NEW s \in Seq(Works), NEW p \in Nat \ {0}, NEW a \in Nat, a = (p - 1) * Per, NEW z \in Nat, z = p * Per
    PROVE  /\ a <= z /\ B!Slice(s, p) \in Seq(Works)
           /\ Len(B!Slice(s, p)) = IF z < Len(s) THEN z - a ELSE IF a < Len(s) THEN Len(s) - a ELSE 0
           /\ \A i \in 1 .. Len(B!Slice(s, p)) : a + i \in 1 .. Len(s) /\ a + i <= z /\ B!Slice(s, p)[i] = s[a + i]
           /\ Within(s, z) = Within(s, a) \union Entries(B!Slice(s, p))
           /\ Distinct(s) => Distinct(B!Slice(s, p))
<1> DEFINE last == IF z < Len(s) THEN z ELSE Len(s)
           t == B!Slice(s, p)
<1>1. a <= z /\ Len(s) \in Nat /\ \A i \in 1 .. Len(s) : s[i] \in Works
  <2>1. z = a + Per /\ Per \in Nat
    BY ShelfAssumption
  <2> QED  BY <2>1, SeqParts
<1>2. t = SubSeq(s, a + 1, last)
  BY DEF B!Slice
<1> HIDE DEF t
<1>3. a + 1 \in Int /\ last \in Int /\ \A i \in a + 1 .. last : s[i] \in Works
  BY <1>1
<1>4. /\ t \in Seq(Works) /\ Len(t) = IF a + 1 <= last THEN last - (a + 1) + 1 ELSE 0
      /\ \A i \in 1 .. last - (a + 1) + 1 : t[i] = s[a + 1 + i - 1]
  <2> HIDE DEF last
  <2> QED  BY <1>2, <1>3, SubSeqProperties
<1>5. Len(t) = IF z < Len(s) THEN z - a ELSE IF a < Len(s) THEN Len(s) - a ELSE 0
  BY <1>1, <1>4
<1>6. \A i \in 1 .. Len(t) : a + i \in 1 .. Len(s) /\ a + i <= z /\ t[i] = s[a + i]
  <2> TAKE i \in 1 .. Len(t)
  <2>1. i \in 1 .. last - (a + 1) + 1 /\ a + 1 + i - 1 = a + i
    BY <1>1, <1>4
  <2>2. t[i] = s[a + i]
    BY <1>4, <2>1
  <2> QED  BY <1>1, <1>5, <2>2
<1>7. Within(s, z) = Within(s, a) \union Entries(t)
  <2>1. ASSUME NEW x \in Within(s, z), x \notin Within(s, a) PROVE x \in Entries(t)
    <3>1. PICK j \in 1 .. Len(s) : j <= z /\ s[j] = x
      BY DEF Within
    <3>2. a < j
      BY <1>1, <2>1, <3>1 DEF Within
    <3>3. j - a \in 1 .. Len(t) /\ a + (j - a) = j
      BY <1>1, <1>5, <3>1, <3>2
    <3>4. t[j - a] = s[j]
      BY <1>6, <3>3
    <3> QED  BY <3>1, <3>3, <3>4 DEF Entries
  <2>2. ASSUME NEW x \in Entries(t) PROVE x \in Within(s, z)
    <3>1. PICK i \in 1 .. Len(t) : t[i] = x
      BY DEF Entries
    <3> QED  BY <1>6, <3>1 DEF Within
  <2>3. Within(s, a) \subseteq Within(s, z)
    BY <1>1 DEF Within
  <2> QED  BY <2>1, <2>2, <2>3
<1>8. ASSUME Distinct(s) PROVE Distinct(t)
  <2> SUFFICES ASSUME NEW i \in 1 .. Len(t), NEW j \in 1 .. Len(t), t[i] = t[j] PROVE i = j
    BY DEF Distinct
  <2>1. a + i \in 1 .. Len(s) /\ a + j \in 1 .. Len(s) /\ s[a + i] = s[a + j]
    BY <1>6
  <2>2. a + i = a + j
    BY <1>8, <2>1 DEF Distinct
  <2> QED  BY <2>2
<1> QED  BY <1>1, <1>4, <1>5, <1>6, <1>7, <1>8 DEF t

\* The places of pages, and that the last page takes in all there is.
LEMMA PageBounds ==
    /\ \A p \in Nat \ {0} : (p - 1) * Per \in Nat /\ p * Per \in Nat /\ p * Per = (p - 1) * Per + Per
    /\ \A p, r \in Nat : p <= r => p * Per <= r * Per
    /\ \A total \in Nat : B!PageCount(total) \in Nat \ {0} /\ total <= B!PageCount(total) * Per
                          /\ (B!PageCount(total) - 1) * Per <= total
<1>1. Per \in Nat \ {0}
  BY ShelfAssumption
<1>2. \A p \in Nat \ {0} : (p - 1) * Per \in Nat /\ p * Per \in Nat /\ p * Per = (p - 1) * Per + Per
  BY <1>1
<1>3. \A p, r \in Nat : p <= r => p * Per <= r * Per
  <2> TAKE p, r \in Nat
  <2>1. \A d \in Nat : (p + d) * Per = p * Per + d * Per /\ d * Per \in Nat /\ p * Per \in Nat
    BY <1>1
  <2> SUFFICES ASSUME p <= r PROVE p * Per <= r * Per
    OBVIOUS
  <2>2. r - p \in Nat /\ p + (r - p) = r
    OBVIOUS
  <2>3. r * Per = p * Per + (r - p) * Per /\ (r - p) * Per \in Nat /\ p * Per \in Nat
    BY <2>1, <2>2
  <2> QED  BY <2>3
<1>4. ASSUME NEW total \in Nat
      PROVE  B!PageCount(total) \in Nat \ {0} /\ total <= B!PageCount(total) * Per
             /\ (B!PageCount(total) - 1) * Per <= total
  <2>1. B!PageCount(total) \in Nat \ {0}
    BY PagesAre
  <2>2. CASE total = 0
    BY <1>1, <2>2 DEF B!PageCount
  <2>3. CASE total # 0
    <3> DEFINE a == total + Per - 1
               d == a \div Per
    <3>1. a \in Nat /\ d = B!PageCount(total)
      BY <1>1, <2>3 DEF B!PageCount
    <3>2. \A m \in Nat : \A b \in Nat \ {0} : (m \div b) * b <= m /\ m < (m \div b) * b + b
      OBVIOUS
    <3>3. d * Per <= a /\ a < d * Per + Per
      BY <1>1, <3>1, <3>2
    <3>4. d \in Nat \ {0} /\ d * Per \in Nat /\ d * Per = (d - 1) * Per + Per
      BY <1>2, <2>1, <3>1
    <3> HIDE DEF d
    <3>5. total <= d * Per /\ (d - 1) * Per <= total
      BY <1>1, <3>3, <3>4
    <3> QED  BY <2>1, <3>1, <3>5
  <2> QED  BY <2>2, <2>3
<1> QED  BY <1>2, <1>3, <1>4

\* A list without doubles is no longer than one that has its entries.
LEMMA NoLonger ==
    ASSUME NEW s \in Seq(Works), NEW t \in Seq(Works), Distinct(t), Entries(t) \subseteq Entries(s)
    PROVE  Len(t) <= Len(s)
<1>1. Len(s) \in Nat /\ Len(t) \in Nat
  BY SeqParts
<1> DEFINE place == [i \in 1 .. Len(t) |-> CHOOSE j \in 1 .. Len(s) : s[j] = t[i]]
<1>2. \A i \in 1 .. Len(t) : \E j \in 1 .. Len(s) : s[j] = t[i]
  BY DEF Entries
<1>3. place \in [1 .. Len(t) -> 1 .. Len(s)] /\ \A i \in 1 .. Len(t) : s[place[i]] = t[i]
  BY <1>2
<1> HIDE DEF place
<1>4. \A i, j \in 1 .. Len(t) : place[i] = place[j] => i = j
  <2> SUFFICES ASSUME NEW i \in 1 .. Len(t), NEW j \in 1 .. Len(t), place[i] = place[j] PROVE i = j
    OBVIOUS
  <2>1. s[place[i]] = t[i] /\ s[place[j]] = t[j]
    BY <1>3
  <2>2. t[i] = t[j]
    BY <2>1
  <2> QED  BY <2>2 DEF Distinct
<1>5. place \in Injection(1 .. Len(t), 1 .. Len(s))
  BY <1>3, <1>4 DEF Injection, IsInjective
<1>6. IsFiniteSet(1 .. Len(s)) /\ Cardinality(1 .. Len(s)) = Len(s) /\ Cardinality(1 .. Len(t)) = Len(t)
  <2>1. \A l \in Nat : IsFiniteSet(1 .. l) /\ Cardinality(1 .. l) = l
    BY IntervalSize
  <2> QED  BY <1>1, <2>1
<1> QED  BY <1>5, <1>6, FS_Injection

LEMMA AllWithin == ASSUME NEW s \in Seq(Works), NEW k \in Nat, Len(s) <= k PROVE Within(s, k) = Entries(s)
BY SeqParts DEF Within, Entries

LEMMA WithinMore ==
    ASSUME NEW s \in Seq(Works), NEW j \in Nat, NEW k \in Nat, j <= k
    PROVE  Within(s, j) \subseteq Within(s, k) /\ Within(s, k) \subseteq Entries(s) /\ Within(s, 0) = {}
BY SeqParts DEF Within, Entries

\* The lists stay without doubles.
LEMMA OrderInit == B!Init => OrderInv
<1> SUFFICES ASSUME B!Init PROVE OrderInv
  OBVIOUS
<1>1. Shelf \in Seq(Works) /\ Distinct(Shelf)
  <2>1. Shelf \in Seq(Works) /\ DOMAIN Shelf = 1 .. Len(Shelf)
    BY ShelfAssumption, SeqParts
  <2> QED  BY <2>1, ShelfAssumption DEF Distinct
<1>2. 1 \in Nat \ {0} /\ (1 - 1) * Per \in Nat /\ 1 * Per \in Nat
  BY PageBounds
<1>3. Distinct(B!Slice(Shelf, 1))
  BY <1>1, <1>2, SliceParts
<1>4. Distinct(<<>>)
  BY DEF Distinct
<1> QED  BY <1>1, <1>3, <1>4, BrowseInit DEF B!Init, OrderInv

LEMMA OrderStep == ASSUME OrderInv, [B!Next]_browse PROVE OrderInv'
<1>1. BrowseInv' /\ BrowseInv
  BY BrowseStep DEF OrderInv
<1>2. Distinct(shelf) /\ Distinct(members) /\ Distinct(gathered)
  BY DEF OrderInv
<1>3. ASSUME UNCHANGED <<shelf, members, gathered>> PROVE OrderInv'
  BY <1>1, <1>2, <1>3 DEF OrderInv
<1>4. ASSUME B!Enter \/ B!Count \/ B!CountSitemap \/ B!Ids \/ B!Match \/ B!Allow PROVE OrderInv'
  BY <1>3, <1>4 DEF B!Enter, B!Count, B!CountSitemap, B!Ids, B!Match, B!Allow, B!catalog
<1>5. ASSUME B!Load \/ B!ShowSitemap PROVE OrderInv'
  BY <1>3, <1>5 DEF B!Load, B!ShowSitemap, B!Shown, B!catalog
<1>6. ASSUME NEW w \in Works, B!Publish(w) PROVE OrderInv'
  <2>1. shelf \in Seq(Works)
    BY <1>1 DEF BrowseInv, B!TypeOK
  <2>2. Distinct(shelf') /\ UNCHANGED <<members, gathered>>
    BY <1>2, <1>6, <2>1, ShelfOrder DEF B!Publish
  <2> QED  BY <1>1, <1>2, <2>2 DEF OrderInv
<1>7. ASSUME NEW w \in Works, B!Hide(w) \/ B!View(w) PROVE OrderInv'
  BY <1>3, <1>7 DEF B!Hide, B!View
<1>8. ASSUME B!Gather PROVE OrderInv'
  <2>1. B!Newest \in Seq(Works) /\ Distinct(B!Newest)
    BY PickedListsAre DEF PickedLists, Picks
  <2>2. 1 \in Nat \ {0} /\ (1 - 1) * Per \in Nat /\ 1 * Per \in Nat
    BY PageBounds
  <2>3. Distinct(B!Slice(B!Newest, 1))
    BY <2>1, <2>2, SliceParts
  <2> QED  BY <1>1, <1>2, <1>8, <2>3 DEF OrderInv, B!Gather
<1>9. ASSUME B!Refresh PROVE OrderInv'
  <2>1. Distinct(<<>>)
    BY DEF Distinct
  <2> QED  BY <1>1, <1>2, <1>9, <2>1 DEF OrderInv, B!Refresh
<1>10. CASE UNCHANGED browse
  BY <1>3, <1>10 DEF browse
<1> QED  BY <1>4, <1>5, <1>6, <1>7, <1>8, <1>9, <1>10 DEF B!Next

\* Pages before the one asked for, and what the visitor is done with: shown, or
\* moved to the front.
Done == (page - 1) * Per
Passed == Entries(seen) \union moved
Allowed == B!Filtered(B!Public(ids))

WalkPlaces ==
    /\ at \in {"match", "allow"} => listing = "search"
    /\ at \in {"count", "ids"} => listing # "search"
    /\ at = "load" => listing # "sitemap"
    /\ at = "home" => page = 1 /\ seen = <<>>

\* As long as there are no gaps: the pages before the one asked for have passed,
\* the one asked for included once its ids are known.
Covered ==
    /\ at \notin {"home", "end"} => Entries(start) \subseteq Scope
    /\ at \in {"count", "match", "ids", "allow"} => Within(Listed, Done) \intersect published \subseteq Passed
    /\ at = "ids" => page <= pages /\ (page = pages => Len(Listed) <= pages * Per)
    /\ at \notin {"home", "end"} /\ listing = "sitemap" => page <= pages /\ Len(Listed) <= pages * Per
    /\ at = "allow" => /\ \E S \in SUBSET indexed : ids = B!Among(Rank, S) /\ indexed \ S \subseteq moved
                       /\ Within(Allowed, Done) \subseteq Passed
    /\ at = "load" => /\ Within(Listed, page * Per) \intersect published \subseteq Passed \union Entries(ids)
                      /\ page >= pages => Scope \intersect published \subseteq Passed \union Entries(ids)
    /\ at = "end" => (Entries(start) \intersect published) \ moved \subseteq Entries(seen)

WalkInv == OrderInv /\ WalkPlaces /\ (~gaps => Covered)

LEMMA PlacesStep == ASSUME OrderInv, WalkPlaces, [B!Next]_browse PROVE WalkPlaces'
<1>1. /\ at \in {"match", "allow"} => listing = "search"
      /\ at \in {"count", "ids"} => listing # "search"
      /\ at = "load" => listing # "sitemap"
      /\ at = "home" => page = 1 /\ seen = <<>>
  BY DEF WalkPlaces
<1>2. B!First(listing) = (IF listing = "search" THEN "match" ELSE "count")
  BY DEF B!First
<1>3. ASSUME B!Enter \/ B!Count \/ B!CountSitemap \/ B!Ids \/ B!Match \/ B!Allow PROVE WalkPlaces'
  BY <1>1, <1>2, <1>3 DEF B!Enter, B!Count, B!CountSitemap, B!Ids, B!Match, B!Allow, WalkPlaces
<1>4. ASSUME B!Load \/ B!ShowSitemap PROVE WalkPlaces'
  BY <1>1, <1>2, <1>4 DEF B!Load, B!ShowSitemap, B!Shown, WalkPlaces
<1>5. ASSUME UNCHANGED B!walk PROVE WalkPlaces'
  BY <1>1, <1>5 DEF B!walk, WalkPlaces
<1>6. ASSUME NEW w \in Works, B!Publish(w) \/ B!Hide(w) \/ B!View(w) PROVE WalkPlaces'
  BY <1>5, <1>6 DEF B!Publish, B!Hide, B!View
<1>7. ASSUME B!Gather \/ B!Refresh \/ UNCHANGED browse PROVE WalkPlaces'
  BY <1>5, <1>7 DEF B!Gather, B!Refresh, browse, B!walk
<1> QED  BY <1>3, <1>4, <1>6, <1>7 DEF B!Next

LEMMA SameListed ==
    ASSUME UNCHANGED <<shelf, published, indexed, popularity, members, listing>>
    PROVE  Listed' = Listed /\ Scope' = Scope
BY DEF Listed, B!Selected, B!Contents, B!Newest, B!Category, B!Public, B!Sitemap, B!MostViewed, B!MoreViewed,
       B!Found, B!Filtered, B!Matches, Scope

LEMMA JoinedEntries ==
    ASSUME NEW s \in Seq(Works), NEW t \in Seq(Works)
    PROVE  s \o t \in Seq(Works) /\ Entries(s \o t) = Entries(s) \union Entries(t)
<1>1. PICK m \in Nat, l \in Nat : m = Len(s) /\ l = Len(t)
  BY SeqParts
<1> DEFINE u == s \o t
<1>2. u \in Seq(Works) /\ Len(u) = m + l /\ \A i \in 1 .. m + l : u[i] = IF i <= m THEN s[i] ELSE t[i - m]
  BY <1>1, ConcatProperties
<1> HIDE DEF u
<1>3. ASSUME NEW x \in Entries(u) PROVE x \in Entries(s) \union Entries(t)
  <2>1. PICK i \in 1 .. m + l : u[i] = x
    BY <1>2 DEF Entries
  <2>2. i <= m => i \in 1 .. m
    OBVIOUS
  <2>3. ~(i <= m) => i - m \in 1 .. l
    OBVIOUS
  <2> QED  BY <1>1, <1>2, <2>1, <2>2, <2>3 DEF Entries
<1>4. ASSUME NEW x \in Entries(s) PROVE x \in Entries(u)
  <2>1. PICK i \in 1 .. m : s[i] = x
    BY <1>1 DEF Entries
  <2>2. i \in 1 .. m + l /\ u[i] = x
    BY <1>2, <2>1
  <2> QED  BY <1>2, <2>2 DEF Entries
<1>5. ASSUME NEW x \in Entries(t) PROVE x \in Entries(u)
  <2>1. PICK i \in 1 .. l : t[i] = x
    BY <1>1 DEF Entries
  <2>2. m + i \in 1 .. m + l /\ ~(m + i <= m) /\ m + i - m = i
    OBVIOUS
  <2>3. u[m + i] = x
    BY <1>2, <2>1, <2>2
  <2> QED  BY <1>2, <2>2, <2>3 DEF Entries
<1> QED  BY <1>2, <1>3, <1>4, <1>5 DEF u

WalkFacts ==
    /\ shelf \in Seq(Works) /\ published \subseteq Works /\ members \in Seq(Works) /\ gathered \in Seq(Works)
    /\ page \in Nat \ {0} /\ pages \in Nat /\ Done \in Nat /\ page * Per \in Nat /\ page * Per = Done + Per
    /\ ids \in Seq(Works) /\ seen \in Seq(Works) /\ start \in Seq(Works)
    /\ B!ToSet(ids) = Entries(ids) /\ B!ToSet(seen) = Entries(seen) /\ B!ToSet(start) = Entries(start)
    /\ moved \subseteq Works /\ published \subseteq indexed

LEMMA WalkFactsAre == OrderInv => WalkFacts
<1> SUFFICES ASSUME OrderInv PROVE WalkFacts
  OBVIOUS
<1>1. /\ shelf \in Seq(Works) /\ published \subseteq B!ToSet(shelf) /\ indexed = B!ToSet(shelf)
      /\ members \in Seq(Works) /\ gathered \in Seq(Works) /\ page \in Nat \ {0} /\ pages \in Nat
      /\ ids \in Seq(Works) /\ seen \in Seq(Works) /\ start \in Seq(Works) /\ moved \subseteq Works
  BY DEF OrderInv, BrowseInv, B!TypeOK
<1>2. published \subseteq Works
  BY ListingsAre DEF OrderInv, BrowseInv, PublishedWorks
<1>3. Done \in Nat /\ page * Per \in Nat /\ page * Per = Done + Per
  BY <1>1, PageBounds DEF Done
<1> QED  BY <1>1, <1>2, <1>3, ToSetEntries DEF WalkFacts

LEMMA WalkFactsNext == (OrderInv => WalkFacts)'
BY WalkFactsAre, PTL

\* The visitor enters, and takes the numbers of the pages.
LEMMA EnterCovers == ASSUME OrderInv, OrderInv', WalkPlaces, B!Enter PROVE Covered'
<1>1. ListedFacts /\ WalkFacts /\ listing \in Listings
  BY ListedAre, WalkFactsAre DEF OrderInv, BrowseInv, B!TypeOK
<1>2. /\ at' = (IF listing = "search" THEN "match" ELSE "count") /\ start' = B!Contents(listing) /\ page' = page
      /\ page = 1 /\ at = "home" /\ seen' = seen /\ moved' = {} /\ ids' = ids
      /\ listing = "sitemap" => pages' = B!PageCount(Len(B!Sitemap))
      /\ UNCHANGED <<shelf, published, indexed, popularity, members, listing>>
  BY DEF B!Enter, B!catalog, B!First, WalkPlaces
<1>3. Listed' = Listed /\ Scope' = Scope
  BY <1>2, SameListed
<1>4. Done' = 0 /\ Within(Listed', 0) = {}
  <2>1. (1 - 1) * Per = 0
    BY ShelfAssumption
  <2> QED  BY <1>1, <1>2, <1>3, <2>1, WithinMore DEF Done, ListedFacts
<1>5. Entries(start') \subseteq Scope'
  BY <1>1, <1>2, <1>3 DEF ListedFacts
<1>6. listing = "sitemap" => page' <= pages' /\ Len(Listed') <= pages' * Per
  <2> SUFFICES ASSUME listing = "sitemap" PROVE page' <= pages' /\ Len(Listed') <= pages' * Per
    OBVIOUS
  <2>1. Listed' = B!Sitemap /\ Listed \in Seq(Works)
    BY <1>1, <1>3 DEF Listed, B!Selected, B!Contents, ListedFacts
  <2>2. Len(B!Sitemap) \in Nat
    BY <1>3, <2>1, SeqParts
  <2>3. B!PageCount(Len(B!Sitemap)) \in Nat \ {0} /\ Len(B!Sitemap) <= B!PageCount(Len(B!Sitemap)) * Per
    BY <2>2, PageBounds
  <2> QED  BY <1>2, <2>1, <2>3
<1> QED  BY <1>2, <1>4, <1>5, <1>6 DEF Covered

LEMMA CountCovers == ASSUME OrderInv, OrderInv', WalkPlaces, Covered, B!Count PROVE Covered'
<1>1. ListedFacts /\ WalkFacts
  BY ListedAre, WalkFactsAre
<1>2. /\ at = "count" /\ at' = "ids" /\ listing # "sitemap" /\ start' = start /\ seen' = seen /\ moved' = moved
      /\ pages' = B!PageCount(Len(Listed)) /\ page' = (IF page > pages' THEN pages' ELSE page)
      /\ UNCHANGED <<shelf, published, indexed, popularity, members, listing>>
  BY DEF B!Count, B!catalog, Listed
<1>3. Listed' = Listed /\ Scope' = Scope
  BY <1>2, SameListed
<1>4. Len(Listed) \in Nat
  BY <1>1, SeqParts DEF ListedFacts
<1>5. pages' \in Nat \ {0} /\ Len(Listed) <= pages' * Per
  BY <1>2, <1>4, PageBounds
<1>6. page' \in Nat \ {0} /\ page' <= pages' /\ page' <= page
  BY <1>1, <1>2, <1>5 DEF WalkFacts
<1>7. PICK p, r \in Nat \ {0} : p = page' /\ r = page /\ p <= r
  BY <1>1, <1>6 DEF WalkFacts
<1>8. Done' \in Nat /\ Done' <= Done
  <2>1. p - 1 \in Nat /\ r - 1 \in Nat /\ p - 1 <= r - 1
    <3>1. p <= r
      BY <1>7
    <3> QED  BY <3>1
  <2>2. (p - 1) * Per <= (r - 1) * Per /\ (p - 1) * Per \in Nat
    BY <2>1, PageBounds
  <2> QED  BY <1>7, <2>2 DEF Done
<1>9. Within(Listed, Done') \subseteq Within(Listed, Done)
  BY <1>1, <1>8, WithinMore DEF WalkFacts, ListedFacts
<1>10. Within(Listed, Done) \intersect published \subseteq Passed /\ Entries(start) \subseteq Scope
  BY <1>2 DEF Covered
<1>11. Passed' = Passed
  BY <1>2 DEF Passed
<1>12. Within(Listed', Done') \intersect published' \subseteq Passed'
  BY <1>2, <1>3, <1>9, <1>10, <1>11
<1>13. page' = pages' => Len(Listed') <= pages' * Per
  BY <1>3, <1>5
<1> QED  BY <1>2, <1>3, <1>6, <1>10, <1>12, <1>13 DEF Covered

LEMMA CountSitemapCovers == ASSUME OrderInv, OrderInv', WalkPlaces, Covered, B!CountSitemap PROVE Covered'
<1>1. ListedFacts /\ WalkFacts
  BY ListedAre, WalkFactsAre
<1>2. /\ at = "count" /\ listing = "sitemap" /\ at' = (IF page > B!PageCount(Len(B!Sitemap)) THEN "end" ELSE "ids")
      /\ UNCHANGED <<page, pages, start, seen, moved, shelf, published, indexed, popularity, members, listing>>
  BY DEF B!CountSitemap, B!catalog
<1>3. Listed' = Listed /\ Scope' = Scope /\ Passed' = Passed /\ Done' = Done
  BY <1>2, SameListed DEF Passed, Done
<1>4. /\ Within(Listed, Done) \intersect published \subseteq Passed /\ Entries(start) \subseteq Scope
      /\ page <= pages /\ Len(Listed) <= pages * Per
  BY <1>2 DEF Covered
<1>5. CASE at' = "ids"
  BY <1>2, <1>3, <1>4, <1>5 DEF Covered
<1>6. CASE at' = "end"
  <2>1. Listed = B!Sitemap /\ page > B!PageCount(Len(B!Sitemap))
    BY <1>2, <1>6 DEF Listed, B!Selected, B!Contents
  <2>2. PICK l \in Nat : l = Len(Listed)
    BY <1>1, SeqParts DEF ListedFacts
  <2>3. PICK c \in Nat : c = B!PageCount(l) /\ l <= c * Per /\ c < page
    <3>1. B!PageCount(l) \in Nat /\ l <= B!PageCount(l) * Per
      BY PageBounds
    <3>2. B!PageCount(l) < page
      BY <1>1, <2>1, <2>2, <3>1 DEF WalkFacts
    <3> QED  BY <3>1, <3>2
  <2>4. PICK r \in Nat : r = page - 1 /\ c <= r
    BY <1>1, <2>3 DEF WalkFacts
  <2>5. c * Per <= Done /\ c * Per \in Nat
    <3>1. c * Per <= r * Per
      BY <2>4, PageBounds
    <3>2. c * Per \in Nat
      BY ShelfAssumption
    <3> QED  BY <2>4, <3>1, <3>2 DEF Done
  <2>6. Len(Listed) <= Done
    BY <1>1, <2>2, <2>3, <2>5 DEF WalkFacts
  <2>7. Within(Listed, Done) = Scope \intersect published
    BY <1>1, <1>2, <2>6, AllWithin DEF WalkFacts, ListedFacts
  <2>8. (Entries(start') \intersect published') \ moved' \subseteq Entries(seen')
    BY <1>2, <1>4, <2>7 DEF Passed
  <2> QED  BY <1>6, <2>8 DEF Covered
<1> QED  BY <1>2, <1>5, <1>6

LEMMA PageTaken ==
    ASSUME WalkFacts, NEW s \in Seq(Works)
    PROVE  /\ B!Slice(s, page) \in Seq(Works)
           /\ Within(s, page * Per) = Within(s, Done) \union Entries(B!Slice(s, page))
<1>1. PICK p \in Nat \ {0}, a \in Nat, z \in Nat : p = page /\ a = (p - 1) * Per /\ z = p * Per
  BY DEF WalkFacts, Done
<1>2. B!Slice(s, p) \in Seq(Works) /\ Within(s, z) = Within(s, a) \union Entries(B!Slice(s, p))
  BY <1>1, SliceParts
<1>3. a = Done /\ z = page * Per
  BY <1>1 DEF Done
<1> QED  BY <1>1, <1>2, <1>3

LEMMA IdsCovers == ASSUME OrderInv, OrderInv', WalkPlaces, Covered, B!Ids PROVE Covered'
<1>1. ListedFacts /\ WalkFacts
  BY ListedAre, WalkFactsAre
<1>2. /\ at = "ids" /\ listing # "sitemap" /\ ids' = B!Slice(Listed, page) /\ at' = "load"
      /\ UNCHANGED <<page, pages, start, seen, moved, shelf, published, indexed, popularity, members, listing>>
  BY DEF B!Ids, B!catalog, Listed
<1>3. Listed' = Listed /\ Scope' = Scope /\ Passed' = Passed
  BY <1>2, SameListed DEF Passed
<1>4. /\ Within(Listed, Done) \intersect published \subseteq Passed /\ Entries(start) \subseteq Scope
      /\ page <= pages /\ (page = pages => Len(Listed) <= pages * Per)
  BY <1>2 DEF Covered
<1>5. Within(Listed, page * Per) = Within(Listed, Done) \union Entries(ids')
  BY <1>1, <1>2, PageTaken DEF ListedFacts
<1>6. Within(Listed', page' * Per) \intersect published' \subseteq Passed' \union Entries(ids')
  BY <1>2, <1>3, <1>4, <1>5
<1>7. page' >= pages' => Scope' \intersect published' \subseteq Passed' \union Entries(ids')
  <2> SUFFICES ASSUME page >= pages PROVE Scope' \intersect published' \subseteq Passed' \union Entries(ids')
    BY <1>2
  <2>1. page = pages
    BY <1>1, <1>4 DEF WalkFacts
  <2>2. Len(Listed) <= page * Per
    BY <1>4, <2>1
  <2>3. Within(Listed, page * Per) = Entries(Listed)
    BY <1>1, <2>2, AllWithin DEF WalkFacts, ListedFacts
  <2> QED  BY <1>1, <1>2, <1>3, <1>6, <2>3 DEF ListedFacts
<1> QED  BY <1>2, <1>3, <1>4, <1>6, <1>7 DEF Covered

\* What the search lets through of the rows that its first statement found.
LEMMA AllowedPicks ==
    ASSUME NEW S, NEW P
    PROVE  Picks(B!Among(B!Among(B!Among(Rank, S), P), Fits), Rank, S \intersect P \intersect Fits)
<1>1. Rank \in Seq(Works) /\ Distinct(Rank)
  <2>1. DOMAIN Rank = 1 .. Len(Rank) /\ Rank \in Seq(Works)
    BY ShelfAssumption, SeqParts
  <2> QED  BY <2>1, ShelfAssumption DEF Distinct
<1>2. Picks(B!Among(Rank, S), Rank, S)
  BY <1>1, PicksAmong
<1>3. Picks(B!Among(B!Among(Rank, S), P), Rank, S \intersect P)
  BY <1>1, <1>2, PicksTwice
<1> QED  BY <1>1, <1>3, PicksTwice

LEMMA MatchCovers == ASSUME OrderInv, OrderInv', WalkPlaces, Covered, B!Match PROVE Covered'
<1>1. /\ at = "match" /\ listing = "search" /\ ids' = B!Among(Rank, indexed) /\ at' = "allow"
      /\ UNCHANGED <<page, pages, start, seen, moved, shelf, published, indexed, popularity, members, listing>>
  BY DEF B!Match, B!catalog, B!Matches, WalkPlaces
<1>2. Listed' = Listed /\ Scope' = Scope /\ Passed' = Passed /\ Done' = Done
  BY <1>1, SameListed DEF Passed, Done
<1>3. Within(Listed, Done) \intersect published \subseteq Passed /\ Entries(start) \subseteq Scope
  BY <1>1 DEF Covered
<1>4. Picks(Allowed', Rank, indexed \intersect published \intersect Fits)
  BY <1>1, AllowedPicks DEF Allowed, B!Filtered, B!Public
<1>5. Picks(Listed, Rank, indexed \intersect Fits \intersect published)
  BY <1>1, PickedListsAre DEF PickedLists, Listed, B!Selected, B!Contents
<1>6. Within(Allowed', Done) \subseteq {} \union Within(Listed, Done)
  <2>1. Rank \in Seq(Works) /\ Done \in Nat
    BY ShelfAssumption, WalkFactsAre DEF WalkFacts
  <2>2. indexed \intersect published \intersect Fits = indexed \intersect Fits \intersect published
    OBVIOUS
  <2> HIDE DEF Allowed, Listed, Done
  <2>3. Within(Listed, Done) \intersect (indexed \intersect Fits \intersect published) \subseteq indexed \intersect Fits \intersect published
    OBVIOUS
  <2> QED  BY <1>4, <1>5, <2>1, <2>2, <2>3, PicksForward
<1>7. Within(Allowed', Done) \subseteq published
  BY <1>4 DEF Picks, Within, Entries
<1>8. Within(Allowed', Done') \subseteq Passed'
  BY <1>2, <1>3, <1>6, <1>7
<1>9. \E S \in SUBSET indexed' : ids' = B!Among(Rank, S) /\ indexed' \ S \subseteq moved'
  BY <1>1
<1> QED  BY <1>1, <1>2, <1>3, <1>8, <1>9 DEF Covered

LEMMA AllowCovers == ASSUME OrderInv, OrderInv', WalkPlaces, Covered, B!Allow PROVE Covered'
<1>1. ListedFacts /\ WalkFacts
  BY ListedAre, WalkFactsAre
<1>2. /\ at = "allow" /\ listing = "search" /\ pages' = B!PageCount(Len(Allowed))
      /\ ids' = B!Slice(Allowed, page) /\ at' = "load"
      /\ UNCHANGED <<page, start, seen, moved, shelf, published, indexed, popularity, members, listing>>
  BY DEF B!Allow, B!catalog, Allowed, WalkPlaces
<1>3. Listed' = Listed /\ Scope' = Scope /\ Passed' = Passed
  BY <1>2, SameListed DEF Passed
<1>4. Within(Allowed, Done) \subseteq Passed /\ Entries(start) \subseteq Scope
  BY <1>2 DEF Covered
<1>5. PICK S \in SUBSET indexed : ids = B!Among(Rank, S) /\ indexed \ S \subseteq moved
  BY <1>2 DEF Covered
<1>6. Picks(Allowed, Rank, S \intersect published \intersect Fits)
  BY <1>5, AllowedPicks DEF Allowed, B!Filtered, B!Public
<1>7. Picks(Listed, Rank, indexed \intersect Fits \intersect published)
  BY <1>2, PickedListsAre DEF PickedLists, Listed, B!Selected, B!Contents
<1>8. /\ Rank \in Seq(Works) /\ page * Per \in Nat /\ Allowed \in Seq(Works)
      /\ Entries(Allowed) = Entries(Rank) \intersect (S \intersect published \intersect Fits)
  BY <1>1, <1>6, ShelfAssumption DEF WalkFacts, Picks
<1>9. (Entries(Rank) \intersect (indexed \intersect Fits \intersect published)) \ moved
          \subseteq Entries(Rank) \intersect (S \intersect published \intersect Fits)
  BY <1>5
<1>10. Within(Listed, page * Per) \subseteq moved \union Within(Allowed, page * Per)
  <2>1. Within(Allowed, page * Per) \intersect (S \intersect published \intersect Fits)
            \subseteq indexed \intersect Fits \intersect published
    BY <1>5
  <2> HIDE DEF Allowed, Listed
  <2>2. \A x \in Entries(Rank) \ moved : \A y : Ahead(Rank, y, x) => Ahead(Rank, y, x)
    OBVIOUS
  <2> QED  BY <1>6, <1>7, <1>8, <1>9, <2>1, <2>2, PicksForward
<1>11. Within(Allowed, page * Per) = Within(Allowed, Done) \union Entries(ids')
  BY <1>1, <1>2, <1>8, PageTaken
<1>12. Within(Listed', page' * Per) \intersect published' \subseteq Passed' \union Entries(ids')
  BY <1>2, <1>3, <1>4, <1>10, <1>11 DEF Passed
<1>13. page' >= pages' => Scope' \intersect published' \subseteq Passed' \union Entries(ids')
  <2> SUFFICES ASSUME page >= pages' PROVE Scope' \intersect published' \subseteq Passed' \union Entries(ids')
    BY <1>2
  <2>1. PICK l \in Nat : l = Len(Allowed)
    BY <1>8, SeqParts
  <2>2. PICK p, r \in Nat : p = B!PageCount(l) /\ r = page /\ p <= r
    BY <1>1, <1>2, <2>1, PageBounds DEF WalkFacts
  <2>3. l <= p * Per /\ p * Per <= r * Per /\ p * Per \in Nat
    BY <2>2, PageBounds, ShelfAssumption
  <2>4. Len(Allowed) <= page * Per
    BY <1>8, <2>1, <2>2, <2>3
  <2>5. Within(Allowed, page * Per) = Entries(Allowed)
    BY <1>8, <2>4, AllWithin
  <2>6. Scope = Entries(Rank) \intersect indexed \intersect Fits
    BY <1>2 DEF Scope
  <2>7. Scope \intersect published \subseteq moved \union Entries(Allowed)
    BY <1>8, <1>9, <2>6
  <2> QED  BY <1>2, <1>3, <1>4, <1>11, <2>5, <2>7 DEF Passed
<1> QED  BY <1>2, <1>3, <1>4, <1>12, <1>13 DEF Covered

\* The page is shown, and the next one asked for.
LEMMA LoadCovers == ASSUME OrderInv, OrderInv', WalkPlaces, Covered, B!Load PROVE Covered'
<1>1. ListedFacts /\ WalkFacts
  BY ListedAre, WalkFactsAre
<1>2. /\ at = "load" /\ listing # "sitemap" /\ seen' = seen \o B!Public(ids)
      /\ IF page < pages THEN page' = page + 1 /\ at' = (IF listing = "search" THEN "match" ELSE "count")
                         ELSE at' = "end"
      /\ UNCHANGED <<start, moved, shelf, published, indexed, popularity, members, listing>>
  BY DEF B!Load, B!Shown, B!Loaded, B!catalog, B!First, WalkPlaces
<1>3. Listed' = Listed /\ Scope' = Scope
  BY <1>2, SameListed
<1>4. /\ Within(Listed, page * Per) \intersect published \subseteq Passed \union Entries(ids)
      /\ page >= pages => Scope \intersect published \subseteq Passed \union Entries(ids)
      /\ Entries(start) \subseteq Scope
  BY <1>2 DEF Covered
<1>5. B!Public(ids) \in Seq(Works) /\ Entries(B!Public(ids)) = Entries(ids) \intersect published
  BY <1>1, AmongOrder, SameOrders DEF WalkFacts, B!Public
<1>6. Entries(seen') = Entries(seen) \union (Entries(ids) \intersect published)
  BY <1>1, <1>2, <1>5, JoinedEntries DEF WalkFacts
<1>7. (Passed \union Entries(ids)) \intersect published \subseteq Passed'
  BY <1>2, <1>6 DEF Passed
<1>8. CASE page < pages
  <2>1. Done' = page * Per
    <3>1. PICK p \in Nat : p = page
      BY <1>1 DEF WalkFacts
    <3>2. page' = p + 1 /\ p + 1 - 1 = p
      BY <1>2, <1>8, <3>1
    <3> QED  BY <3>1, <3>2 DEF Done
  <2>2. Within(Listed', Done') \intersect published' \subseteq Passed'
    BY <1>2, <1>3, <1>4, <1>7, <2>1
  <2>3. Entries(start') \subseteq Scope'
    BY <1>2, <1>3, <1>4
  <2> QED  BY <1>2, <1>8, <2>2, <2>3 DEF Covered
<1>9. CASE ~(page < pages)
  <2>1. page >= pages
    BY <1>1, <1>9 DEF WalkFacts
  <2>2. (Entries(start') \intersect published') \ moved' \subseteq Entries(seen')
    BY <1>2, <1>4, <1>7, <2>1 DEF Passed
  <2> QED  BY <1>2, <1>9, <2>2 DEF Covered
<1> QED  BY <1>8, <1>9

LEMMA ShowSitemapCovers == ASSUME OrderInv, OrderInv', WalkPlaces, Covered, B!ShowSitemap PROVE Covered'
<1>1. ListedFacts /\ WalkFacts
  BY ListedAre, WalkFactsAre
<1> DEFINE sub == B!Slice(Listed, page)
<1>2. /\ at = "ids" /\ listing = "sitemap" /\ seen' = seen \o sub
      /\ IF page < pages THEN page' = page + 1 /\ at' = "count" ELSE at' = "end"
      /\ UNCHANGED <<pages, start, moved, shelf, published, indexed, popularity, members, listing>>
  BY DEF B!ShowSitemap, B!Shown, B!catalog, B!First, Listed, B!Selected, B!Contents
<1>3. Listed' = Listed /\ Scope' = Scope
  BY <1>2, SameListed
<1>4. /\ Within(Listed, Done) \intersect published \subseteq Passed
      /\ page <= pages /\ Len(Listed) <= pages * Per /\ Entries(start) \subseteq Scope
  BY <1>2 DEF Covered
<1>5. sub \in Seq(Works) /\ Within(Listed, page * Per) = Within(Listed, Done) \union Entries(sub)
  BY <1>1, PageTaken DEF ListedFacts
<1> HIDE DEF sub
<1>6. Entries(seen') = Entries(seen) \union Entries(sub)
  BY <1>1, <1>2, <1>5, JoinedEntries DEF WalkFacts
<1>7. Within(Listed, page * Per) \intersect published \subseteq Passed'
  BY <1>2, <1>4, <1>5, <1>6 DEF Passed
<1>8. CASE page < pages
  <2>1. page' <= pages' /\ Done' = page * Per
    <3>1. PICK p, r \in Nat : p = page /\ r = pages /\ p < r
      BY <1>1, <1>8 DEF WalkFacts
    <3>2. page' = p + 1 /\ p + 1 - 1 = p /\ pages' = r
      BY <1>2, <1>8, <3>1
    <3>3. p + 1 <= r
      BY <3>1
    <3> QED  BY <3>1, <3>2, <3>3 DEF Done
  <2>2. Within(Listed', Done') \intersect published' \subseteq Passed'
    BY <1>2, <1>3, <1>7, <2>1
  <2>3. Entries(start') \subseteq Scope' /\ Len(Listed') <= pages' * Per
    BY <1>2, <1>3, <1>4
  <2> QED  BY <1>2, <1>8, <2>1, <2>2, <2>3 DEF Covered
<1>9. CASE ~(page < pages)
  <2>1. page = pages
    BY <1>1, <1>4, <1>9 DEF WalkFacts
  <2>2. Within(Listed, page * Per) = Entries(Listed)
    BY <1>1, <1>4, <2>1, AllWithin DEF WalkFacts, ListedFacts
  <2>3. (Entries(start') \intersect published') \ moved' \subseteq Entries(seen')
    BY <1>1, <1>2, <1>4, <1>7, <2>2 DEF Passed, ListedFacts
  <2> QED  BY <1>2, <1>9, <2>3 DEF Covered
<1> QED  BY <1>8, <1>9

\* What was published is at the front, and the rest behind it.
LEMMA PublishCovers ==
    ASSUME OrderInv, OrderInv', WalkPlaces, Covered, NEW w \in Works, B!Publish(w), ~gaps'
    PROVE  Covered'
<1>1. ListedFacts /\ ListedFacts' /\ WalkFacts /\ WalkFacts'
  BY ListedAre, ListedNext, WalkFactsAre, WalkFactsNext
<1>2. /\ published' = published \union {w} /\ indexed' = indexed \union {w} /\ moved' = moved \union {w} /\ ~B!TooLate
      /\ UNCHANGED <<at, listing, page, pages, ids, seen, start>>
  BY DEF B!Publish, B!walk
<1>3. at \notin {"home", "end"} => listing # "sitemap" /\ ~(at = "ids" /\ page = pages)
  BY <1>2 DEF B!TooLate, B!Walking
<1>4. Done' = Done /\ Passed' = Passed \union {w} /\ page' * Per = page * Per
  BY <1>2 DEF Done, Passed
<1>5. CASE at = "home"
  BY <1>2, <1>5 DEF Covered
<1>6. CASE at = "end"
  <2>1. (Entries(start) \intersect published) \ moved \subseteq Entries(seen)
    BY <1>6 DEF Covered
  <2>2. (Entries(start') \intersect published') \ moved' \subseteq Entries(seen')
    BY <1>2, <2>1
  <2> QED  BY <1>2, <1>6, <2>2 DEF Covered
<1>7. CASE at \notin {"home", "end"}
  <2>1. /\ Entries(start) \subseteq Scope
        /\ at \in {"count", "match", "ids", "allow"} => Within(Listed, Done) \intersect published \subseteq Passed
        /\ at = "ids" => page <= pages
        /\ at = "load" => /\ Within(Listed, page * Per) \intersect published \subseteq Passed \union Entries(ids)
                          /\ page >= pages => Scope \intersect published \subseteq Passed \union Entries(ids)
    BY <1>7 DEF Covered
  <2>2. \A k \in Nat : Within(Listed', k) \subseteq {w} \union Within(Listed, k)
    BY <1>3, <1>7, PublishForward
  <2>3. Scope \subseteq Scope' /\ Scope' \subseteq Scope \union {w}
    BY <1>3, <1>7, PublishForward, 0 \in Nat
  <2>4. Entries(start') \subseteq Scope'
    BY <1>2, <2>1, <2>3
  <2>5. at \in {"count", "match", "ids", "allow"} => Within(Listed', Done') \intersect published' \subseteq Passed'
    BY <1>1, <1>2, <1>4, <2>1, <2>2 DEF WalkFacts
  <2>6. at = "load" => /\ Within(Listed', page' * Per) \intersect published' \subseteq Passed' \union Entries(ids')
                       /\ page' >= pages' => Scope' \intersect published' \subseteq Passed' \union Entries(ids')
    <3> SUFFICES ASSUME at = "load"
                 PROVE  /\ Within(Listed', page' * Per) \intersect published' \subseteq Passed' \union Entries(ids')
                        /\ page' >= pages' => Scope' \intersect published' \subseteq Passed' \union Entries(ids')
      OBVIOUS
    <3>1. Within(Listed', page * Per) \subseteq {w} \union Within(Listed, page * Per)
      BY <1>1, <2>2 DEF WalkFacts
    <3>2. Within(Listed', page' * Per) \intersect published' \subseteq Passed' \union Entries(ids')
      BY <1>2, <1>4, <2>1, <3>1
    <3>3. page' >= pages' => Scope' \intersect published' \subseteq Passed' \union Entries(ids')
      BY <1>2, <1>4, <2>1, <2>3
    <3> QED  BY <3>2, <3>3
  <2>7. at = "allow" => /\ \E S \in SUBSET indexed' : ids' = B!Among(Rank, S) /\ indexed' \ S \subseteq moved'
                        /\ Within(Allowed', Done') \subseteq Passed'
    <3> SUFFICES ASSUME at = "allow"
                 PROVE  /\ \E S \in SUBSET indexed' : ids' = B!Among(Rank, S) /\ indexed' \ S \subseteq moved'
                        /\ Within(Allowed', Done') \subseteq Passed'
      OBVIOUS
    <3>1. /\ \E S \in SUBSET indexed : ids = B!Among(Rank, S) /\ indexed \ S \subseteq moved
          /\ Within(Allowed, Done) \subseteq Passed
      BY <1>7 DEF Covered
    <3>2. PICK S \in SUBSET indexed : ids = B!Among(Rank, S) /\ indexed \ S \subseteq moved
      BY <3>1
    <3>3. \E U \in SUBSET indexed' : ids' = B!Among(Rank, U) /\ indexed' \ U \subseteq moved'
      <4>1. S \in SUBSET indexed' /\ ids' = B!Among(Rank, S) /\ indexed' \ S \subseteq moved'
        BY <1>2, <3>2
      <4> QED  BY <4>1
    <3>4. Picks(Allowed, Rank, S \intersect published \intersect Fits)
          /\ Picks(Allowed', Rank, S \intersect published' \intersect Fits)
      BY <1>2, <3>2, AllowedPicks DEF Allowed, B!Filtered, B!Public
    <3>5. Within(Allowed', Done) \subseteq {w} \union Within(Allowed, Done)
      <4>1. Rank \in Seq(Works) /\ Done \in Nat
        BY <1>1, ShelfAssumption DEF WalkFacts
      <4>2. (Entries(Rank) \intersect (S \intersect published' \intersect Fits)) \ {w}
                \subseteq Entries(Rank) \intersect (S \intersect published \intersect Fits)
        BY <1>2
      <4>3. Within(Allowed, Done) \intersect (S \intersect published \intersect Fits) \subseteq S \intersect published' \intersect Fits
        BY <1>2
      <4> HIDE DEF Allowed, Done
      <4>4. \A x \in Entries(Rank) \ {w} : \A y : Ahead(Rank, y, x) => Ahead(Rank, y, x)
        OBVIOUS
      <4> QED  BY <3>4, <4>1, <4>2, <4>3, <4>4, PicksForward
    <3> QED  BY <1>4, <3>1, <3>3, <3>5
  <2> QED  BY <1>2, <1>3, <1>7, <2>1, <2>4, <2>5, <2>6, <2>7 DEF Covered
<1> QED  BY <1>5, <1>6, <1>7

\* What the visitor has not seen yet may go: the rest of that comes forward.
LEMMA HideCovers ==
    ASSUME OrderInv, OrderInv', WalkPlaces, Covered, NEW w \in Works, B!Hide(w), ~gaps'
    PROVE  Covered'
<1>1. ListedFacts /\ ListedFacts' /\ WalkFacts /\ WalkFacts'
  BY ListedAre, ListedNext, WalkFactsAre, WalkFactsNext
<1>2. /\ w \in published /\ published' = published \ {w} /\ indexed' = indexed /\ moved' = moved
      /\ UNCHANGED <<at, listing, page, pages, ids, seen, start, members>>
      /\ B!Walking => w \notin B!Behind
  BY DEF B!Hide, B!walk
<1>3. at \notin {"home", "end"} => w \notin Passed /\ (at = "load" => w \notin Entries(ids))
  <2>1. B!Behind = Passed \union (IF at = "load" THEN Entries(ids) ELSE {})
    BY <1>1 DEF WalkFacts, B!Behind, Passed
  <2> QED  BY <1>2, <2>1 DEF B!Walking
<1>4. Done' = Done /\ Passed' = Passed /\ page' * Per = page * Per /\ Done \in Nat /\ page * Per \in Nat
  BY <1>1, <1>2 DEF Done, Passed, WalkFacts
<1>5. Scope' = Scope /\ Len(Listed') <= Len(Listed)
  <2>1. Within(Listed, 0) = {}
    BY <1>1, WithinMore, 0 \in Nat DEF ListedFacts
  <2>2. Scope' = Scope
    BY <2>1, HideForward, 0 \in Nat
  <2>3. CASE listing = "collection"
    <3>1. Listed' = Listed /\ Listed \in Seq(Works)
      BY <1>1, <1>2, <2>3 DEF ListedFacts
    <3>2. Len(Listed) <= Len(Listed)
      BY <3>1, SeqParts
    <3> QED  BY <2>2, <3>1, <3>2
  <2>4. CASE listing # "collection"
    <3>1. Listed \in Seq(Works) /\ Listed' \in Seq(Works) /\ Distinct(Listed') /\ Entries(Listed') \subseteq Entries(Listed)
      BY <1>1, <1>2, <2>2, <2>4 DEF ListedFacts
    <3> HIDE DEF Listed
    <3> QED  BY <2>2, <3>1, NoLonger
  <2> QED  BY <2>3, <2>4
<1>6. CASE at = "home"
  BY <1>2, <1>6 DEF Covered
<1>7. CASE at = "end"
  <2>1. (Entries(start) \intersect published) \ moved \subseteq Entries(seen)
    BY <1>7 DEF Covered
  <2>2. (Entries(start') \intersect published') \ moved' \subseteq Entries(seen')
    BY <1>2, <2>1
  <2> QED  BY <1>2, <1>7, <2>2 DEF Covered
<1>8. CASE at \notin {"home", "end"}
  <2>1. /\ Entries(start) \subseteq Scope
        /\ at \in {"count", "match", "ids", "allow"} => Within(Listed, Done) \intersect published \subseteq Passed
        /\ at = "ids" => page <= pages /\ (page = pages => Len(Listed) <= pages * Per)
        /\ listing = "sitemap" => page <= pages /\ Len(Listed) <= pages * Per
        /\ at = "load" => /\ Within(Listed, page * Per) \intersect published \subseteq Passed \union Entries(ids)
                          /\ page >= pages => Scope \intersect published \subseteq Passed \union Entries(ids)
    BY <1>8 DEF Covered
  <2>2. ASSUME NEW k \in Nat, w \notin Within(Listed, k) PROVE Within(Listed', k) \subseteq Within(Listed, k)
    BY <2>2, HideForward
  <2>3. at \in {"count", "match", "ids", "allow"} => Within(Listed', Done') \intersect published' \subseteq Passed'
    <3> SUFFICES ASSUME at \in {"count", "match", "ids", "allow"}
                 PROVE  Within(Listed', Done') \intersect published' \subseteq Passed'
      OBVIOUS
    <3>1. w \notin Within(Listed, Done)
      BY <1>2, <1>3, <1>8, <2>1
    <3>2. Within(Listed', Done) \subseteq Within(Listed, Done)
      BY <1>4, <2>2, <3>1
    <3> QED  BY <1>2, <1>4, <2>1, <3>2
  <2>4. at = "load" => /\ Within(Listed', page' * Per) \intersect published' \subseteq Passed' \union Entries(ids')
                       /\ page' >= pages' => Scope' \intersect published' \subseteq Passed' \union Entries(ids')
    <3> SUFFICES ASSUME at = "load"
                 PROVE  /\ Within(Listed', page' * Per) \intersect published' \subseteq Passed' \union Entries(ids')
                        /\ page' >= pages' => Scope' \intersect published' \subseteq Passed' \union Entries(ids')
      OBVIOUS
    <3>1. w \notin Within(Listed, page * Per)
      BY <1>2, <1>3, <1>8, <2>1
    <3>2. Within(Listed', page * Per) \subseteq Within(Listed, page * Per)
      BY <1>4, <2>2, <3>1
    <3>3. Within(Listed', page' * Per) \intersect published' \subseteq Passed' \union Entries(ids')
      BY <1>2, <1>4, <2>1, <3>2
    <3>4. page' >= pages' => Scope' \intersect published' \subseteq Passed' \union Entries(ids')
      BY <1>2, <1>4, <1>5, <2>1
    <3> QED  BY <3>3, <3>4
  <2>5. \A most \in Nat : Len(Listed) <= most => Len(Listed') <= most
    <3>1. PICK l, m \in Nat : l = Len(Listed) /\ m = Len(Listed') /\ m <= l
      BY <1>1, <1>5, SeqParts DEF ListedFacts
    <3> QED  BY <3>1
  <2>6. pages * Per \in Nat /\ pages' * Per = pages * Per
    BY <1>1, <1>2, ShelfAssumption DEF WalkFacts
  <2>7. /\ at = "ids" => page' <= pages' /\ (page' = pages' => Len(Listed') <= pages' * Per)
        /\ listing = "sitemap" => page' <= pages' /\ Len(Listed') <= pages' * Per
    BY <1>2, <2>1, <2>5, <2>6
  <2>8. at = "allow" => /\ \E S \in SUBSET indexed' : ids' = B!Among(Rank, S) /\ indexed' \ S \subseteq moved'
                        /\ Within(Allowed', Done') \subseteq Passed'
    <3> SUFFICES ASSUME at = "allow"
                 PROVE  /\ \E S \in SUBSET indexed' : ids' = B!Among(Rank, S) /\ indexed' \ S \subseteq moved'
                        /\ Within(Allowed', Done') \subseteq Passed'
      OBVIOUS
    <3>1. /\ \E S \in SUBSET indexed : ids = B!Among(Rank, S) /\ indexed \ S \subseteq moved
          /\ Within(Allowed, Done) \subseteq Passed
      BY <1>8 DEF Covered
    <3>2. PICK S \in SUBSET indexed : ids = B!Among(Rank, S) /\ indexed \ S \subseteq moved
      BY <3>1
    <3>3. Picks(Allowed, Rank, S \intersect published \intersect Fits)
          /\ Picks(Allowed', Rank, S \intersect published' \intersect Fits)
      BY <1>2, <3>2, AllowedPicks DEF Allowed, B!Filtered, B!Public
    <3>4. w \notin Within(Allowed, Done)
      BY <1>3, <1>8, <3>1
    <3>5. Within(Allowed', Done) \subseteq {} \union Within(Allowed, Done)
      <4>1. Rank \in Seq(Works) /\ Done \in Nat
        BY <1>4, ShelfAssumption
      <4>2. (Entries(Rank) \intersect (S \intersect published' \intersect Fits)) \ {}
                \subseteq Entries(Rank) \intersect (S \intersect published \intersect Fits)
        BY <1>2
      <4>3. Within(Allowed, Done) \intersect (S \intersect published \intersect Fits) \subseteq S \intersect published' \intersect Fits
        BY <1>2, <3>4
      <4> HIDE DEF Allowed, Done
      <4>4. \A x \in Entries(Rank) \ {} : \A y : Ahead(Rank, y, x) => Ahead(Rank, y, x)
        OBVIOUS
      <4> QED  BY <3>3, <4>1, <4>2, <4>3, <4>4, PicksForward
    <3> QED  BY <1>2, <1>4, <3>1, <3>5
  <2>9. Entries(start') \subseteq Scope'
    BY <1>2, <1>5, <2>1
  <2> QED  BY <1>2, <1>8, <2>3, <2>4, <2>7, <2>8, <2>9 DEF Covered
<1> QED  BY <1>6, <1>7, <1>8

\* A view counts a work forward among the most viewed, where it is no entry that
\* the visitor is owed.
LEMMA ViewCovers ==
    ASSUME OrderInv, OrderInv', WalkPlaces, Covered, NEW w \in Works, B!View(w)
    PROVE  Covered'
<1>1. ListedFacts /\ ListedFacts' /\ WalkFacts /\ WalkFacts'
  BY ListedAre, ListedNext, WalkFactsAre, WalkFactsNext
<1>2. /\ moved' = moved \union {w}
      /\ UNCHANGED <<published, indexed, at, listing, page, pages, ids, seen, start, members>>
  BY DEF B!View, B!walk
<1>3. /\ Done' = Done /\ Passed' = Passed \union {w} /\ page' * Per = page * Per /\ Done \in Nat /\ page * Per \in Nat
      /\ Allowed' = Allowed
  BY <1>1, <1>2 DEF Done, Passed, WalkFacts, Allowed, B!Filtered, B!Public
<1>4. \A k \in Nat : Within(Listed', k) \subseteq {w} \union Within(Listed, k)
  BY ViewForward
<1>5. Scope' = Scope /\ Len(Listed') <= Len(Listed)
  <2>1. Scope' = Scope
    BY ViewForward, 0 \in Nat
  <2>2. CASE listing = "collection"
    <3>1. Listed' = Listed /\ Listed \in Seq(Works)
      BY <1>1, <1>2, <2>2 DEF ListedFacts
    <3>2. Len(Listed) <= Len(Listed)
      BY <3>1, SeqParts
    <3> QED  BY <2>1, <3>1, <3>2
  <2>3. CASE listing # "collection"
    <3>1. Listed \in Seq(Works) /\ Listed' \in Seq(Works) /\ Distinct(Listed') /\ Entries(Listed') \subseteq Entries(Listed)
      BY <1>1, <1>2, <2>1, <2>3 DEF ListedFacts
    <3> HIDE DEF Listed
    <3> QED  BY <2>1, <3>1, NoLonger
  <2> QED  BY <2>2, <2>3
<1>6. CASE at = "home"
  BY <1>2, <1>6 DEF Covered
<1>7. CASE at = "end"
  <2>1. (Entries(start) \intersect published) \ moved \subseteq Entries(seen)
    BY <1>7 DEF Covered
  <2>2. (Entries(start') \intersect published') \ moved' \subseteq Entries(seen')
    BY <1>2, <2>1
  <2> QED  BY <1>2, <1>7, <2>2 DEF Covered
<1>8. CASE at \notin {"home", "end"}
  <2>1. /\ Entries(start) \subseteq Scope
        /\ at \in {"count", "match", "ids", "allow"} => Within(Listed, Done) \intersect published \subseteq Passed
        /\ at = "ids" => page <= pages /\ (page = pages => Len(Listed) <= pages * Per)
        /\ listing = "sitemap" => page <= pages /\ Len(Listed) <= pages * Per
        /\ at = "allow" => /\ \E S \in SUBSET indexed : ids = B!Among(Rank, S) /\ indexed \ S \subseteq moved
                           /\ Within(Allowed, Done) \subseteq Passed
        /\ at = "load" => /\ Within(Listed, page * Per) \intersect published \subseteq Passed \union Entries(ids)
                          /\ page >= pages => Scope \intersect published \subseteq Passed \union Entries(ids)
    BY <1>8 DEF Covered
  <2>2. \A most \in Nat : Len(Listed) <= most => Len(Listed') <= most
    <3>1. PICK l, m \in Nat : l = Len(Listed) /\ m = Len(Listed') /\ m <= l
      BY <1>1, <1>5, SeqParts DEF ListedFacts
    <3> QED  BY <3>1
  <2>3. pages * Per \in Nat /\ pages' * Per = pages * Per
    BY <1>1, <1>2, ShelfAssumption DEF WalkFacts
  <2>4. /\ at = "ids" => page' <= pages' /\ (page' = pages' => Len(Listed') <= pages' * Per)
        /\ listing = "sitemap" => page' <= pages' /\ Len(Listed') <= pages' * Per
    BY <1>2, <2>1, <2>2, <2>3
  <2>5. at \in {"count", "match", "ids", "allow"} => Within(Listed', Done') \intersect published' \subseteq Passed'
    BY <1>2, <1>3, <1>4, <2>1
  <2>6. at = "allow" => /\ \E S \in SUBSET indexed' : ids' = B!Among(Rank, S) /\ indexed' \ S \subseteq moved'
                        /\ Within(Allowed', Done') \subseteq Passed'
    <3> HIDE DEF Allowed, Passed, Done
    <3>1. \A S : indexed \ S \subseteq moved => indexed' \ S \subseteq moved'
      BY <1>2
    <3> QED  BY <1>2, <1>3, <2>1, <3>1
  <2>7. at = "load" => /\ Within(Listed', page' * Per) \intersect published' \subseteq Passed' \union Entries(ids')
                       /\ page' >= pages' => Scope' \intersect published' \subseteq Passed' \union Entries(ids')
    <3> SUFFICES ASSUME at = "load"
                 PROVE  /\ Within(Listed', page' * Per) \intersect published' \subseteq Passed' \union Entries(ids')
                        /\ page' >= pages' => Scope' \intersect published' \subseteq Passed' \union Entries(ids')
      OBVIOUS
    <3>1. Within(Listed', page * Per) \subseteq {w} \union Within(Listed, page * Per)
      BY <1>3, <1>4
    <3>2. Within(Listed', page' * Per) \intersect published' \subseteq Passed' \union Entries(ids')
      BY <1>2, <1>3, <2>1, <3>1
    <3>3. page' >= pages' => Scope' \intersect published' \subseteq Passed' \union Entries(ids')
      BY <1>2, <1>3, <1>5, <2>1
    <3> QED  BY <3>2, <3>3
  <2>8. Entries(start') \subseteq Scope'
    BY <1>2, <1>5, <2>1
  <2> QED  BY <1>2, <1>8, <2>4, <2>5, <2>6, <2>7, <2>8 DEF Covered
<1> QED  BY <1>6, <1>7, <1>8

\* The selection of a refresh changes no listing, and the refresh one of them.
LEMMA RefreshKeeps ==
    ASSUME OrderInv, B!Gather \/ B!Refresh \/ UNCHANGED browse, ~gaps', at \notin {"home", "end"}
    PROVE  Listed' = Listed /\ Scope' = Scope
<1>1. /\ UNCHANGED <<shelf, published, indexed, popularity, listing>> /\ listing \in Listings
      /\ listing = "collection" => members' = members
  BY DEF B!Gather, B!Refresh, B!walk, B!Walking, browse, OrderInv, BrowseInv, B!TypeOK
<1>2. CASE listing = "collection"
  BY <1>1, <1>2, SameListed
<1>3. CASE listing # "collection"
  <2>1. /\ B!Newest' = B!Newest /\ B!Category' = B!Category /\ B!Public(Bibliography)' = B!Public(Bibliography)
        /\ B!Sitemap' = B!Sitemap /\ B!MostViewed' = B!MostViewed /\ B!Public(B!Found)' = B!Public(B!Found)
    BY <1>1 DEF B!Newest, B!Category, B!Public, B!Sitemap, B!MostViewed, B!MoreViewed, B!Found, B!Filtered, B!Matches
  <2>2. Listed' = Listed
    BY <1>1, <1>3, <2>1, ListingsAssumption DEF Listed, B!Selected, B!Contents
  <2>3. Scope' = Scope
    BY <1>1, <1>3, ListingsAssumption DEF Scope
  <2> QED  BY <2>2, <2>3
<1> QED  BY <1>2, <1>3

LEMMA RefreshCovers ==
    ASSUME OrderInv, Covered, B!Gather \/ B!Refresh \/ UNCHANGED browse, ~gaps'
    PROVE  Covered'
<1>1. UNCHANGED <<shelf, published, indexed, popularity, at, listing, page, pages, ids, seen, start, moved>>
  BY DEF B!Gather, B!Refresh, B!walk, browse
<1>2. Done' = Done /\ Passed' = Passed /\ Allowed' = Allowed
  BY <1>1 DEF Done, Passed, Allowed, B!Filtered, B!Public
<1>3. CASE at \notin {"home", "end"}
  <2>1. Listed' = Listed /\ Scope' = Scope
    BY <1>3, RefreshKeeps
  <2> QED  BY <1>1, <1>2, <1>3, <2>1 DEF Covered
<1>4. CASE at \in {"home", "end"}
  BY <1>1, <1>4 DEF Covered
<1> QED  BY <1>3, <1>4

LEMMA WalkInit == B!Init => WalkInv
<1> SUFFICES ASSUME B!Init PROVE WalkInv
  OBVIOUS
<1>1. at = "home" /\ page = 1 /\ seen = <<>>
  BY DEF B!Init
<1>2. WalkPlaces /\ Covered
  BY <1>1 DEF WalkPlaces, Covered
<1> QED  BY <1>2, OrderInit DEF WalkInv

LEMMA WalkStep == ASSUME WalkInv, [B!Next]_browse PROVE WalkInv'
<1>1. OrderInv /\ WalkPlaces /\ OrderInv' /\ WalkPlaces'
  BY OrderStep, PlacesStep DEF WalkInv
<1>2. ASSUME ~gaps' PROVE Covered'
  <2>1. ~gaps
    <3>1. gaps' = gaps \/ \E b : gaps' = (gaps \/ b)
      BY DEF B!Next, B!Enter, B!Count, B!CountSitemap, B!Ids, B!Match, B!Allow, B!Load, B!ShowSitemap, B!Shown,
             B!Publish, B!Hide, B!View, B!Gather, B!Refresh, browse
    <3> QED  BY <1>2, <3>1
  <2>2. Covered
    BY <2>1 DEF WalkInv
  <2>3. ASSUME B!Enter \/ B!Count \/ B!CountSitemap \/ B!Ids PROVE Covered'
    BY <1>1, <2>2, <2>3, EnterCovers, CountCovers, CountSitemapCovers, IdsCovers
  <2>4. ASSUME B!Match \/ B!Allow \/ B!Load \/ B!ShowSitemap PROVE Covered'
    BY <1>1, <2>2, <2>4, MatchCovers, AllowCovers, LoadCovers, ShowSitemapCovers
  <2>5. ASSUME NEW w \in Works, B!Publish(w) \/ B!Hide(w) \/ B!View(w) PROVE Covered'
    BY <1>1, <1>2, <2>2, <2>5, PublishCovers, HideCovers, ViewCovers
  <2>6. ASSUME B!Gather \/ B!Refresh \/ UNCHANGED browse PROVE Covered'
    BY <1>1, <1>2, <2>2, <2>6, RefreshCovers
  <2> QED  BY <2>3, <2>4, <2>5, <2>6 DEF B!Next
<1> QED  BY <1>1, <1>2 DEF WalkInv

\* Lists of the same entries are the same when none has come forward.
LEMMA SameList ==
    ASSUME NEW s \in Seq(Works), NEW t \in Seq(Works), Distinct(s), Distinct(t), Entries(s) = Entries(t),
           \A k \in Nat : Within(t, k) \subseteq Within(s, k)
    PROVE  s = t
<1>1. PICK l \in Nat : l = Len(s)
  BY SeqParts
<1>2. l = Len(t)
  <2>1. Len(s) <= Len(t) /\ Len(t) <= Len(s)
    BY NoLonger
  <2> QED  BY <1>1, <2>1, SeqParts
<1>3. \A i \in 1 .. l : s[i] = t[i]
  <2> DEFINE wrong == {i \in 1 .. l : s[i] # t[i]}
  <2> SUFFICES ASSUME wrong # {} PROVE FALSE
    OBVIOUS
  <2>1. wrong \in SUBSET Nat
    BY <1>1
  <2>2. PICK k \in wrong : \A i \in wrong : k <= i
    <3> HIDE DEF wrong
    <3> QED  BY <2>1, LeastNatural
  <2>3. k \in 1 .. l /\ s[k] # t[k] /\ \A i \in 1 .. l : i < k => s[i] = t[i]
    BY <1>1, <2>2
  <2>4. t[k] \in Within(t, k)
    BY <1>1, <1>2, <2>3 DEF Within
  <2>5. PICK j \in 1 .. l : j <= k /\ s[j] = t[k]
    <3>1. t[k] \in Within(s, k)
      BY <1>1, <2>3, <2>4
    <3> QED  BY <1>1, <3>1 DEF Within
  <2>6. j < k /\ t[j] = t[k]
    BY <1>1, <2>3, <2>5
  <2> QED  BY <1>1, <1>2, <2>3, <2>6 DEF Distinct
<1> QED  BY <1>1, <1>2, <1>3, SeqEqual

\* Of what a list has only the entries that it is taken from matter.
LEMMA PicksOther ==
    ASSUME NEW b \in Seq(Works), NEW s, NEW S, NEW U, Picks(s, b, S),
           Entries(b) \intersect S = Entries(b) \intersect U
    PROVE  Picks(s, b, U)
<1>1. \A x, y : Ahead(b, x, y) => x \in Entries(b) /\ y \in Entries(b)
  BY DEF Ahead, Entries
<1> QED  BY <1>1 DEF Picks

LEMMA PicksSame ==
    ASSUME NEW b \in Seq(Works), NEW s, NEW t, NEW S, Picks(s, b, S), Picks(t, b, S)
    PROVE  s = t
<1>1. /\ s \in Seq(Works) /\ Distinct(s) /\ t \in Seq(Works) /\ Distinct(t) /\ Entries(s) = Entries(t)
      /\ (Entries(b) \intersect S) \ {} \subseteq Entries(b) \intersect S
  BY DEF Picks
<1>2. ASSUME NEW k \in Nat PROVE Within(t, k) \subseteq Within(s, k)
  <2>1. Within(s, k) \intersect S \subseteq S
    OBVIOUS
  <2>2. \A x \in Entries(b) \ {} : \A y : Ahead(b, y, x) => Ahead(b, y, x)
    OBVIOUS
  <2>3. Within(t, k) \subseteq {} \union Within(s, k)
    BY <1>1, <2>1, <2>2, PicksForward
  <2> QED  BY <2>3
<1> QED  BY <1>1, <1>2, SameList

\* A part of a list that is in its order.
LEMMA PicksPart ==
    ASSUME NEW b \in Seq(Works), NEW s, NEW t, NEW S, NEW Q, Picks(s, b, S), Picks(t, s, Q)
    PROVE  Picks(t, b, S \intersect Q)
BY DEF Picks

LEMMA JoinedAhead ==
    ASSUME NEW s \in Seq(Works), NEW t \in Seq(Works)
    PROVE  /\ \A x, y : Ahead(s \o t, x, y) <=>
                  Ahead(s, x, y) \/ Ahead(t, x, y) \/ (x \in Entries(s) /\ y \in Entries(t))
           /\ Distinct(s) /\ Distinct(t) /\ Entries(s) \intersect Entries(t) = {} => Distinct(s \o t)
<1>1. PICK m \in Nat, l \in Nat : m = Len(s) /\ l = Len(t)
  BY SeqParts
<1> DEFINE u == s \o t
<1>2. Len(u) = m + l /\ \A i \in 1 .. m + l : u[i] = IF i <= m THEN s[i] ELSE t[i - m]
  BY <1>1, ConcatProperties
<1> HIDE DEF u
<1>3. \A i \in 1 .. m : i \in 1 .. m + l /\ u[i] = s[i]
  BY <1>2
<1>4. \A i \in 1 .. l : m + i \in 1 .. m + l /\ u[m + i] = t[i]
  <2> TAKE i \in 1 .. l
  <2>1. m + i \in 1 .. m + l /\ ~(m + i <= m) /\ m + i - m = i
    OBVIOUS
  <2> QED  BY <1>2, <2>1
<1>5. \A i \in 1 .. m + l : i \in 1 .. m \/ \E j \in 1 .. l : i = m + j
  <2> TAKE i \in 1 .. m + l
  <2>1. CASE i <= m
    BY <2>1
  <2>2. CASE m < i
    <3>1. i - m \in 1 .. l /\ i = m + (i - m)
      BY <2>2
    <3> QED  BY <3>1
  <2> QED  BY <2>1, <2>2
<1>6. ASSUME NEW x, NEW y, Ahead(u, x, y)
      PROVE  Ahead(s, x, y) \/ Ahead(t, x, y) \/ (x \in Entries(s) /\ y \in Entries(t))
  <2>1. PICK i, j \in 1 .. m + l : i < j /\ u[i] = x /\ u[j] = y
    BY <1>2, <1>6 DEF Ahead
  <2>2. CASE j \in 1 .. m
    <3>1. i \in 1 .. m
      BY <2>1, <2>2
    <3> QED  BY <1>1, <1>3, <2>1, <2>2, <3>1 DEF Ahead
  <2>3. CASE i \in 1 .. m /\ \E k \in 1 .. l : j = m + k
    <3>1. PICK k \in 1 .. l : j = m + k
      BY <2>3
    <3>2. s[i] = x /\ t[k] = y
      BY <1>3, <1>4, <2>1, <2>3, <3>1
    <3> QED  BY <1>1, <2>3, <3>2 DEF Entries
  <2>4. CASE (\E k \in 1 .. l : i = m + k) /\ (\E k \in 1 .. l : j = m + k)
    <3>1. PICK a, b \in 1 .. l : i = m + a /\ j = m + b
      BY <2>4
    <3>2. t[a] = x /\ t[b] = y /\ a < b
      BY <1>4, <2>1, <3>1
    <3> QED  BY <1>1, <3>2 DEF Ahead
  <2> QED  BY <1>5, <2>1, <2>2, <2>3, <2>4
<1>7. ASSUME NEW x, NEW y, Ahead(s, x, y) PROVE Ahead(u, x, y)
  <2>1. PICK i, j \in 1 .. m : i < j /\ s[i] = x /\ s[j] = y
    BY <1>1, <1>7 DEF Ahead
  <2> QED  BY <1>2, <1>3, <2>1 DEF Ahead
<1>8. ASSUME NEW x, NEW y, Ahead(t, x, y) PROVE Ahead(u, x, y)
  <2>1. PICK i, j \in 1 .. l : i < j /\ t[i] = x /\ t[j] = y
    BY <1>1, <1>8 DEF Ahead
  <2>2. m + i < m + j /\ u[m + i] = x /\ u[m + j] = y /\ m + i \in 1 .. m + l /\ m + j \in 1 .. m + l
    BY <1>4, <2>1
  <2> QED  BY <1>2, <2>2 DEF Ahead
<1>9. ASSUME NEW x \in Entries(s), NEW y \in Entries(t) PROVE Ahead(u, x, y)
  <2>1. PICK i \in 1 .. m : s[i] = x
    BY <1>1 DEF Entries
  <2>2. PICK j \in 1 .. l : t[j] = y
    BY <1>1 DEF Entries
  <2>3. i < m + j /\ u[i] = x /\ u[m + j] = y /\ i \in 1 .. m + l /\ m + j \in 1 .. m + l
    BY <1>3, <1>4, <2>1, <2>2
  <2> QED  BY <1>2, <2>3 DEF Ahead
<1>10. ASSUME Distinct(s), Distinct(t), Entries(s) \intersect Entries(t) = {} PROVE Distinct(u)
  <2> SUFFICES ASSUME NEW i \in 1 .. m + l, NEW j \in 1 .. m + l, u[i] = u[j] PROVE i = j
    BY <1>2 DEF Distinct
  <2>1. ASSUME NEW a \in 1 .. m, NEW b \in 1 .. l PROVE u[a] # u[m + b]
    <3>1. s[a] \in Entries(s) /\ t[b] \in Entries(t)
      BY <1>1 DEF Entries
    <3> QED  BY <1>3, <1>4, <1>10, <3>1
  <2>2. CASE i \in 1 .. m /\ j \in 1 .. m
    BY <1>1, <1>3, <1>10, <2>2 DEF Distinct
  <2>3. CASE (\E k \in 1 .. l : i = m + k) /\ (\E k \in 1 .. l : j = m + k)
    <3>1. PICK a, b \in 1 .. l : i = m + a /\ j = m + b
      BY <2>3
    <3>2. t[a] = t[b]
      BY <1>4, <3>1
    <3>3. a = b
      BY <1>1, <1>10, <3>2 DEF Distinct
    <3> QED  BY <3>1, <3>3
  <2> QED  BY <1>5, <2>1, <2>2, <2>3
<1> QED  BY <1>6, <1>7, <1>8, <1>9, <1>10 DEF u

\* A page of a list: it has the order of the list, all that is on the pages
\* before it is ahead of what it has, and nothing is on both.
LEMMA PagePicks ==
    ASSUME WalkFacts, NEW s \in Seq(Works), Distinct(s)
    PROVE  /\ Picks(B!Slice(s, page), s, Entries(B!Slice(s, page)))
           /\ Within(s, Done) \intersect Entries(B!Slice(s, page)) = {}
           /\ \A x \in Within(s, Done), y \in Entries(B!Slice(s, page)) : Ahead(s, x, y) /\ ~Ahead(s, y, x)
<1> DEFINE t == B!Slice(s, page)
<1>1. PICK a \in Nat : a = Done
  BY DEF WalkFacts
<1>2. /\ t \in Seq(Works) /\ Distinct(t)
      /\ \A i \in 1 .. Len(t) : a + i \in 1 .. Len(s) /\ t[i] = s[a + i]
      /\ Len(t) \in Nat /\ Len(s) \in Nat
  <2>1. PICK p \in Nat \ {0}, z \in Nat : p = page /\ a = (p - 1) * Per /\ z = p * Per
    BY <1>1 DEF WalkFacts, Done
  <2>2. /\ B!Slice(s, p) \in Seq(Works) /\ Distinct(B!Slice(s, p))
        /\ \A i \in 1 .. Len(B!Slice(s, p)) : a + i \in 1 .. Len(s) /\ B!Slice(s, p)[i] = s[a + i]
    BY <2>1, SliceParts
  <2> QED  BY <2>1, <2>2, SeqParts
<1> HIDE DEF t
<1>3. Entries(t) \subseteq Entries(s)
  BY <1>2 DEF Entries
<1>4. ASSUME NEW i \in 1 .. Len(t), NEW k \in 1 .. Len(s), s[k] = t[i] PROVE k = a + i
  <2>1. s[k] = s[a + i] /\ a + i \in 1 .. Len(s)
    BY <1>2, <1>4
  <2> QED  BY <2>1 DEF Distinct
<1>5. ASSUME NEW x \in Entries(t), NEW y \in Entries(t) PROVE Ahead(t, x, y) <=> Ahead(s, x, y)
  <2>1. ASSUME Ahead(t, x, y) PROVE Ahead(s, x, y)
    <3>1. PICK i, j \in 1 .. Len(t) : i < j /\ t[i] = x /\ t[j] = y
      BY <2>1 DEF Ahead
    <3>2. a + i < a + j /\ s[a + i] = x /\ s[a + j] = y /\ a + i \in 1 .. Len(s) /\ a + j \in 1 .. Len(s)
      BY <1>1, <1>2, <3>1
    <3> QED  BY <3>2 DEF Ahead
  <2>2. ASSUME Ahead(s, x, y) PROVE Ahead(t, x, y)
    <3>1. PICK k, l \in 1 .. Len(s) : k < l /\ s[k] = x /\ s[l] = y
      BY <2>2 DEF Ahead
    <3>2. PICK i, j \in 1 .. Len(t) : t[i] = x /\ t[j] = y
      BY DEF Entries
    <3>3. k = a + i /\ l = a + j
      BY <1>4, <3>1, <3>2
    <3>4. i < j
      BY <1>1, <1>2, <3>1, <3>3
    <3> QED  BY <3>2, <3>4 DEF Ahead
  <2> QED  BY <2>1, <2>2
<1>6. \A x, y : Ahead(t, x, y) => x \in Entries(t) /\ y \in Entries(t)
  BY DEF Ahead, Entries
<1>7. Picks(t, s, Entries(t))
  <2>1. Entries(t) = Entries(s) \intersect Entries(t)
    BY <1>3
  <2>2. \A x, y : Ahead(t, x, y) <=> x \in Entries(t) /\ y \in Entries(t) /\ Ahead(s, x, y)
    BY <1>5, <1>6
  <2> QED  BY <1>2, <2>1, <2>2 DEF Picks
<1>8. ASSUME NEW x \in Within(s, a), NEW y \in Entries(t) PROVE x # y /\ Ahead(s, x, y) /\ ~Ahead(s, y, x)
  <2>1. PICK k \in 1 .. Len(s) : k <= a /\ s[k] = x
    BY DEF Within
  <2>2. PICK i \in 1 .. Len(t) : t[i] = y
    BY DEF Entries
  <2>3. a + i \in 1 .. Len(s) /\ s[a + i] = y /\ k < a + i
    BY <1>1, <1>2, <2>1, <2>2
  <2>4. x # y
    BY <1>2, <1>4, <2>1, <2>2, <2>3
  <2>5. Ahead(s, x, y)
    BY <2>1, <2>3 DEF Ahead
  <2>6. ASSUME NEW l \in 1 .. Len(s), NEW m \in 1 .. Len(s), s[l] = y, s[m] = x, l < m PROVE FALSE
    <3>1. l = a + i
      BY <1>4, <2>2, <2>6
    <3>2. m = k
      BY <2>1, <2>6 DEF Distinct
    <3> QED  BY <1>2, <2>3, <2>6, <3>1, <3>2
  <2>7. ~Ahead(s, y, x)
    BY <2>6 DEF Ahead
  <2> QED  BY <2>4, <2>5, <2>7
<1> QED  BY <1>1, <1>7, <1>8 DEF t

\* What has been shown, and a page of what is public, are the list so far.
LEMMA PageJoins ==
    ASSUME WalkFacts, NEW s \in Seq(Works), Distinct(s), NEW P, NEW t,
           Picks(seen, s, Within(s, Done) \intersect P), Picks(t, B!Slice(s, page), P)
    PROVE  Picks(seen \o t, s, Within(s, page * Per) \intersect P)
<1> DEFINE sub == B!Slice(s, page)
           old == Within(s, Done) \intersect P
           new == Entries(sub) \intersect P
<1>1. /\ Picks(sub, s, Entries(sub)) /\ Within(s, Done) \intersect Entries(sub) = {}
      /\ \A x \in Within(s, Done), y \in Entries(sub) : Ahead(s, x, y) /\ ~Ahead(s, y, x)
      /\ Within(s, page * Per) = Within(s, Done) \union Entries(sub)
  BY PagePicks, PageTaken
<1>2. Picks(t, s, new)
  BY <1>1, PicksPart
<1>3. Within(s, Done) \subseteq Entries(s) /\ Entries(sub) \subseteq Entries(s)
  <2>1. Done \in Nat
    BY DEF WalkFacts
  <2> HIDE DEF sub
  <2>2. Entries(sub) \subseteq Entries(s)
    BY <1>1 DEF Picks
  <2> QED  BY <2>1, <2>2, WithinMore
<1> HIDE DEF sub
<1>4. /\ seen \in Seq(Works) /\ Distinct(seen) /\ Entries(seen) = old
      /\ \A x, y : Ahead(seen, x, y) <=> x \in old /\ y \in old /\ Ahead(s, x, y)
  BY <1>3 DEF Picks
<1>5. /\ t \in Seq(Works) /\ Distinct(t) /\ Entries(t) = new
      /\ \A x, y : Ahead(t, x, y) <=> x \in new /\ y \in new /\ Ahead(s, x, y)
  BY <1>2, <1>3 DEF Picks
<1>6. old \intersect new = {} /\ Within(s, page * Per) \intersect P = old \union new
      /\ \A x \in old, y \in new : Ahead(s, x, y) /\ ~Ahead(s, y, x)
  BY <1>1
<1>7. old \union new \subseteq Entries(s)
  BY <1>3
<1> HIDE DEF old, new
<1>8. seen \o t \in Seq(Works) /\ Entries(seen \o t) = old \union new /\ Distinct(seen \o t)
      /\ \A x, y : Ahead(seen \o t, x, y) <=> Ahead(seen, x, y) \/ Ahead(t, x, y) \/ (x \in old /\ y \in new)
  BY <1>4, <1>5, <1>6, JoinedEntries, JoinedAhead
<1>9. \A x, y : Ahead(seen \o t, x, y) <=> x \in old \union new /\ y \in old \union new /\ Ahead(s, x, y)
  BY <1>4, <1>5, <1>6, <1>8
<1>10. Entries(seen \o t) = Entries(s) \intersect (old \union new)
  BY <1>7, <1>8
<1>11. Picks(seen \o t, s, old \union new)
  BY <1>8, <1>9, <1>10 DEF Picks
<1> QED  BY <1>6, <1>11

\* As long as nothing moves, nothing that was listed goes, and there are no
\* gaps, the visitor sees the list as it was.
Still == moved = {} /\ Entries(start) \subseteq published

Exact ==
    /\ at \notin {"home", "end"} =>
           /\ Picks(start, Listed, published)
           /\ Picks(seen, Listed, Within(Listed, Done) \intersect published)
           /\ page <= B!PageCount(Len(Listed))
    /\ at \in {"ids", "load"} \/ (at = "count" /\ listing = "sitemap") => pages = B!PageCount(Len(Listed))
    /\ at = "load" => ids = B!Slice(Listed, page)
    /\ at = "end" => seen = start

ExactInv == ~gaps /\ Still => Exact

LEMMA CountOfListed ==
    OrderInv => /\ Len(Listed) \in Nat /\ B!PageCount(Len(Listed)) \in Nat \ {0}
                /\ Len(Listed) <= B!PageCount(Len(Listed)) * Per
<1> SUFFICES ASSUME OrderInv PROVE /\ Len(Listed) \in Nat /\ B!PageCount(Len(Listed)) \in Nat \ {0}
                                   /\ Len(Listed) <= B!PageCount(Len(Listed)) * Per
  OBVIOUS
<1>1. Len(Listed) \in Nat
  BY ListedAre, SeqParts DEF ListedFacts
<1> HIDE DEF Listed
<1> QED  BY <1>1, PageBounds

LEMMA EnterExact == ASSUME OrderInv, WalkPlaces, B!Enter PROVE Exact'
<1>1. ListedFacts /\ WalkFacts /\ listing \in Listings
  BY ListedAre, WalkFactsAre DEF OrderInv, BrowseInv, B!TypeOK
<1>2. /\ at' \in {"count", "match"} /\ start' = B!Contents(listing) /\ page' = 1 /\ seen' = <<>>
      /\ listing = "sitemap" => pages' = B!PageCount(Len(B!Sitemap))
      /\ UNCHANGED <<shelf, published, indexed, popularity, members, listing>>
  BY DEF B!Enter, B!catalog, B!First, WalkPlaces
<1>3. Listed' = Listed
  BY <1>2, SameListed
<1>4. Done' = 0 /\ Within(Listed, 0) = {}
  <2>1. (1 - 1) * Per = 0
    BY ShelfAssumption
  <2> QED  BY <1>1, <1>2, <2>1, WithinMore DEF Done, ListedFacts
<1>5. Picks(start', Listed, published)
  <2>1. CASE listing = "collection"
    BY <1>2, <2>1, PickedListsAre DEF PickedLists, Listed, B!Selected, B!Contents
  <2>2. CASE listing # "collection"
    <3>1. Listed \in Seq(Works) /\ Distinct(Listed) /\ Entries(Listed) \subseteq published /\ start' = Listed
      BY <1>1, <1>2, <2>2 DEF ListedFacts
    <3>2. published \subseteq Works
      BY <1>1 DEF WalkFacts
    <3> HIDE DEF Listed
    <3>3. Picks(Listed, Listed, Works)
      BY <3>1, PicksAll
    <3>4. Entries(Listed) \intersect Works = Entries(Listed) \intersect published
      BY <3>1, <3>2
    <3>5. Picks(Listed, Listed, published)
      BY <3>1, <3>3, <3>4, PicksOther
    <3> QED  BY <3>1, <3>5
  <2> QED  BY <2>1, <2>2
<1>6. Picks(<<>>, Listed, {})
  BY DEF Picks, Distinct, Entries, Ahead
<1>7. page' <= B!PageCount(Len(Listed))
  BY <1>2, CountOfListed
<1>8. listing = "sitemap" => pages' = B!PageCount(Len(Listed))
  BY <1>2 DEF Listed, B!Selected, B!Contents
<1>9. Within(Listed', Done') \intersect published' = {}
  BY <1>3, <1>4
<1> HIDE DEF Listed
<1> QED  BY <1>2, <1>3, <1>5, <1>6, <1>7, <1>8, <1>9 DEF Exact

LEMMA RequestExact ==
    ASSUME OrderInv, WalkPlaces, Exact, B!Count \/ B!CountSitemap \/ B!Ids \/ B!Match
    PROVE  Exact'
<1>1. /\ UNCHANGED <<shelf, published, indexed, popularity, members, listing, start, seen>>
      /\ at \in {"count", "ids", "match"}
  BY DEF B!Count, B!CountSitemap, B!Ids, B!Match, B!catalog
<1>2. Listed' = Listed
  BY <1>1, SameListed
<1>3. /\ Picks(start, Listed, published) /\ Picks(seen, Listed, Within(Listed, Done) \intersect published)
      /\ page <= B!PageCount(Len(Listed))
  BY <1>1 DEF Exact
<1>4. PICK c \in Nat, p \in Nat : c = B!PageCount(Len(Listed)) /\ p = page /\ p <= c
  BY <1>3, CountOfListed, WalkFactsAre DEF WalkFacts
<1>5. CASE B!Count
  <2>1. /\ at' = "ids" /\ listing # "sitemap" /\ pages' = c /\ page' = (IF page > pages' THEN pages' ELSE page)
    BY <1>4, <1>5 DEF B!Count, Listed
  <2>2. page' = page
    BY <1>4, <2>1
  <2>3. Done' = Done
    BY <2>2 DEF Done
  <2> HIDE DEF Listed
  <2> QED  BY <1>1, <1>2, <1>3, <1>4, <2>1, <2>2, <2>3 DEF Exact
<1>6. CASE B!CountSitemap
  <2>1. /\ listing = "sitemap" /\ at = "count" /\ UNCHANGED <<page, pages>>
        /\ at' = IF page > B!PageCount(Len(Listed)) THEN "end" ELSE "ids"
    BY <1>6 DEF B!CountSitemap, Listed, B!Selected, B!Contents
  <2>2. at' = "ids" /\ pages = c /\ Done' = Done
    BY <1>4, <2>1 DEF Exact, Done
  <2> HIDE DEF Listed
  <2> QED  BY <1>1, <1>2, <1>3, <1>4, <2>1, <2>2 DEF Exact
<1>7. CASE B!Ids
  <2>1. /\ at = "ids" /\ at' = "load" /\ ids' = B!Slice(Listed, page) /\ UNCHANGED <<page, pages>>
    BY <1>7 DEF B!Ids, Listed
  <2>2. pages = c /\ Done' = Done
    BY <1>4, <2>1 DEF Exact, Done
  <2>3. B!Slice(Listed, page)' = B!Slice(Listed, page)
    BY <1>2, <2>1 DEF B!Slice
  <2> HIDE DEF Listed
  <2> QED  BY <1>1, <1>2, <1>3, <1>4, <2>1, <2>2, <2>3 DEF Exact
<1>8. CASE B!Match
  <2>1. at' = "allow" /\ UNCHANGED <<page, pages>>
    BY <1>8 DEF B!Match
  <2>2. Done' = Done
    BY <2>1 DEF Done
  <2> HIDE DEF Listed
  <2> QED  BY <1>1, <1>2, <1>3, <1>4, <2>1, <2>2 DEF Exact
<1> QED  BY <1>5, <1>6, <1>7, <1>8

\* Nothing was indexed since the search's first statement, so its second one
\* leaves the list as it is.
LEMMA AllowExact == ASSUME OrderInv, WalkPlaces, Covered, moved = {}, Exact, B!Allow PROVE Exact'
<1>1. /\ UNCHANGED <<shelf, published, indexed, popularity, members, listing, start, seen, page>>
      /\ at = "allow" /\ at' = "load" /\ listing = "search"
      /\ pages' = B!PageCount(Len(Allowed)) /\ ids' = B!Slice(Allowed, page)
  BY DEF B!Allow, B!catalog, Allowed, WalkPlaces
<1>2. Listed' = Listed /\ Done' = Done
  BY <1>1, SameListed DEF Done
<1>3. /\ Picks(start, Listed, published) /\ Picks(seen, Listed, Within(Listed, Done) \intersect published)
      /\ page <= B!PageCount(Len(Listed))
  BY <1>1 DEF Exact
<1>4. PICK S \in SUBSET indexed : ids = B!Among(Rank, S) /\ indexed \ S \subseteq moved
  BY <1>1 DEF Covered
<1>5. Picks(Allowed, Rank, S \intersect published \intersect Fits)
  BY <1>4, AllowedPicks DEF Allowed, B!Filtered, B!Public
<1>6. Picks(Listed, Rank, indexed \intersect Fits \intersect published)
  BY <1>1, PickedListsAre DEF PickedLists, Listed, B!Selected, B!Contents
<1>7. S \intersect published \intersect Fits = indexed \intersect Fits \intersect published
  BY <1>4
<1>8. Allowed = Listed
  <2> HIDE DEF Allowed, Listed
  <2> QED  BY <1>5, <1>6, <1>7, PicksSame, ShelfAssumption
<1>9. B!Slice(Listed, page)' = B!Slice(Listed, page)
  BY <1>1, <1>2 DEF B!Slice
<1> HIDE DEF Listed, Allowed
<1> QED  BY <1>1, <1>2, <1>3, <1>8, <1>9 DEF Exact

\* A page goes behind those before it.
LEMMA ShownExact ==
    ASSUME OrderInv, WalkPlaces, Exact, NEW t, Picks(t, B!Slice(Listed, page), published),
           at = "load" \/ (at = "ids" /\ listing = "sitemap"), B!Shown(t)
    PROVE  Exact'
<1>1. ListedFacts /\ WalkFacts
  BY ListedAre, WalkFactsAre
<1>2. /\ seen' = seen \o t
      /\ IF page < pages THEN page' = page + 1 /\ at' = (IF listing = "search" THEN "match" ELSE "count")
                         ELSE at' = "end"
      /\ UNCHANGED <<pages, start, shelf, published, indexed, popularity, members, listing>>
  BY DEF B!Shown, B!catalog, B!First
<1>3. Listed' = Listed
  BY <1>2, SameListed
<1>4. /\ Picks(start, Listed, published) /\ Picks(seen, Listed, Within(Listed, Done) \intersect published)
      /\ page <= B!PageCount(Len(Listed)) /\ pages = B!PageCount(Len(Listed))
  BY DEF Exact
<1>5. Listed \in Seq(Works) /\ Distinct(Listed) /\ Len(Listed) <= B!PageCount(Len(Listed)) * Per
  BY <1>1, CountOfListed DEF ListedFacts
<1>6. PICK p \in Nat, c \in Nat : p = page /\ c = pages /\ p <= c
  BY <1>1, <1>4 DEF WalkFacts
<1> HIDE DEF Listed
<1>7. Picks(seen', Listed, Within(Listed, page * Per) \intersect published)
  BY <1>1, <1>2, <1>4, <1>5, PageJoins
<1>8. CASE page < pages
  <2>1. page' = p + 1 /\ p + 1 - 1 = p /\ p + 1 <= c
    BY <1>2, <1>6, <1>8
  <2>2. Done' = page * Per /\ page' <= pages
    BY <1>6, <2>1 DEF Done
  <2> QED  BY <1>2, <1>3, <1>4, <1>7, <1>8, <2>2 DEF Exact
<1>9. CASE ~(page < pages)
  <2>1. page = pages
    BY <1>6, <1>9
  <2>2. Within(Listed, page * Per) = Entries(Listed)
    BY <1>1, <1>4, <1>5, <2>1, AllWithin DEF WalkFacts
  <2>3. Picks(seen', Listed, published)
    <3>1. Entries(Listed) \intersect (Within(Listed, page * Per) \intersect published) = Entries(Listed) \intersect published
      BY <2>2
    <3> QED  BY <1>5, <1>7, <3>1, PicksOther
  <2>4. seen' = start
    BY <1>4, <1>5, <2>3, PicksSame
  <2> QED  BY <1>2, <1>9, <2>4 DEF Exact
<1> QED  BY <1>8, <1>9

LEMMA LoadExact == ASSUME OrderInv, WalkPlaces, Exact, B!Load \/ B!ShowSitemap PROVE Exact'
<1>1. ListedFacts /\ WalkFacts
  BY ListedAre, WalkFactsAre
<1> DEFINE sub == B!Slice(Listed, page)
<1>2. sub \in Seq(Works) /\ Distinct(sub) /\ Picks(sub, Listed, Entries(sub))
  BY <1>1, PagePicks, PageTaken DEF ListedFacts, Picks
<1>3. CASE B!Load
  <2>1. at = "load" /\ ids = sub /\ B!Shown(B!Public(ids))
    BY <1>3 DEF B!Load, B!Loaded, Exact
  <2>2. Picks(B!Public(sub), sub, published)
    BY <1>2, PicksAmong DEF B!Public
  <2> QED  BY <2>1, <2>2, ShownExact
<1>4. CASE B!ShowSitemap
  <2>1. at = "ids" /\ listing = "sitemap" /\ B!Shown(sub)
    BY <1>4 DEF B!ShowSitemap, Listed, B!Selected, B!Contents
  <2>2. Entries(sub) \subseteq published
    BY <1>1, <1>2, <2>1 DEF ListedFacts, Picks
  <2>3. Picks(sub, sub, published)
    <3> HIDE DEF sub
    <3>1. Picks(sub, sub, Works)
      BY <1>2, PicksAll
    <3>2. Entries(sub) \intersect Works = Entries(sub) \intersect published
      BY <1>1, <2>2 DEF WalkFacts
    <3> QED  BY <1>2, <3>1, <3>2, PicksOther
  <2> QED  BY <2>1, <2>3, ShownExact
<1> QED  BY <1>3, <1>4

\* What is hidden was not listed.
LEMMA HideExact ==
    ASSUME OrderInv, OrderInv', WalkPlaces, Exact, Still, Still', NEW w \in Works, B!Hide(w)
    PROVE  Exact'
<1>1. ListedFacts /\ ListedFacts' /\ WalkFacts
  BY ListedAre, ListedNext, WalkFactsAre
<1>2. /\ w \in published /\ published' = published \ {w}
      /\ UNCHANGED <<at, listing, page, pages, ids, seen, start, members>>
  BY DEF B!Hide, B!walk
<1>3. w \notin Entries(start)
  BY <1>2 DEF Still
<1>4. CASE at \in {"home", "end"}
  BY <1>2, <1>4 DEF Exact
<1>5. CASE at \notin {"home", "end"}
  <2>1. /\ Picks(start, Listed, published) /\ Picks(seen, Listed, Within(Listed, Done) \intersect published)
        /\ page <= B!PageCount(Len(Listed))
        /\ at \in {"ids", "load"} \/ (at = "count" /\ listing = "sitemap") => pages = B!PageCount(Len(Listed))
        /\ at = "load" => ids = B!Slice(Listed, page)
    BY <1>5 DEF Exact
  <2>2. w \notin Entries(Listed) /\ Listed \in Seq(Works) /\ Distinct(Listed)
    BY <1>1, <1>2, <1>3, <2>1 DEF Picks, ListedFacts
  <2>3. Listed' = Listed
    <3>1. CASE listing = "collection"
      BY <1>1, <1>2, <3>1 DEF ListedFacts
    <3>2. CASE listing # "collection"
      <4>1. \A k \in Nat : w \notin Within(Listed, k)
        BY <2>2 DEF Within, Entries
      <4>2. \A k \in Nat : Within(Listed', k) \subseteq Within(Listed, k)
        BY <4>1, HideForward
      <4>3. Scope' = Scope
        BY <4>1, HideForward, 0 \in Nat
      <4>4. Entries(Listed') = Entries(Listed) /\ Listed' \in Seq(Works) /\ Distinct(Listed')
        BY <1>1, <1>2, <2>2, <3>2, <4>3 DEF ListedFacts
      <4> HIDE DEF Listed
      <4> QED  BY <2>2, <4>2, <4>4, SameList
    <3> QED  BY <3>1, <3>2
  <2>4. Done' = Done /\ B!Slice(Listed, page)' = B!Slice(Listed, page)
    BY <1>2, <2>3 DEF Done, B!Slice
  <2> HIDE DEF Listed
  <2>5. Picks(start', Listed, published') /\ Picks(seen', Listed, Within(Listed, Done) \intersect published')
    <3>1. Entries(Listed) \intersect published = Entries(Listed) \intersect published'
          /\ Entries(Listed) \intersect (Within(Listed, Done) \intersect published)
                 = Entries(Listed) \intersect (Within(Listed, Done) \intersect published')
      BY <1>2, <2>2
    <3> QED  BY <1>2, <2>1, <2>2, <3>1, PicksOther
  <2> QED  BY <1>2, <1>5, <2>1, <2>3, <2>4, <2>5 DEF Exact
<1> QED  BY <1>4, <1>5

LEMMA RefreshExact ==
    ASSUME OrderInv, Exact, B!Gather \/ B!Refresh \/ UNCHANGED browse, ~gaps'
    PROVE  Exact'
<1>1. UNCHANGED <<shelf, published, indexed, popularity, at, listing, page, pages, ids, seen, start, moved>>
  BY DEF B!Gather, B!Refresh, B!walk, browse
<1>2. CASE at \notin {"home", "end"}
  <2>1. Listed' = Listed
    BY <1>2, RefreshKeeps
  <2>2. Done' = Done /\ B!Slice(Listed, page)' = B!Slice(Listed, page)
    BY <1>1, <2>1 DEF Done, B!Slice
  <2> HIDE DEF Listed
  <2> QED  BY <1>1, <1>2, <2>1, <2>2 DEF Exact
<1>3. CASE at \in {"home", "end"}
  BY <1>1, <1>3 DEF Exact
<1> QED  BY <1>2, <1>3

LEMMA ExactInit == B!Init => ExactInv
BY DEF B!Init, ExactInv, Exact

LEMMA ExactStep == ASSUME WalkInv, WalkInv', ExactInv, [B!Next]_browse PROVE ExactInv'
<1> SUFFICES ASSUME ~gaps', Still' PROVE Exact'
  BY DEF ExactInv
<1>1. OrderInv /\ OrderInv' /\ WalkPlaces /\ (~gaps => Covered)
  BY DEF WalkInv
<1>2. ASSUME B!Enter PROVE Exact'
  BY <1>1, <1>2, EnterExact
<1>3. ASSUME ~gaps, Still PROVE Exact /\ Covered /\ moved = {}
  BY <1>1, <1>3 DEF ExactInv, Still
<1>4. ASSUME B!Count \/ B!CountSitemap \/ B!Ids \/ B!Match PROVE Exact'
  <2>1. ~gaps /\ Still
    BY <1>4 DEF B!Count, B!CountSitemap, B!Ids, B!Match, B!catalog, Still
  <2> QED  BY <1>1, <1>3, <1>4, <2>1, RequestExact
<1>5. ASSUME B!Allow PROVE Exact'
  <2>1. ~gaps /\ Still
    BY <1>5 DEF B!Allow, B!catalog, Still
  <2> QED  BY <1>1, <1>3, <1>5, <2>1, AllowExact
<1>6. ASSUME B!Load \/ B!ShowSitemap PROVE Exact'
  <2>1. ~gaps /\ Still
    BY <1>6 DEF B!Load, B!ShowSitemap, B!Shown, B!catalog, Still
  <2> QED  BY <1>1, <1>3, <1>6, <2>1, LoadExact
<1>7. ASSUME NEW w \in Works, B!Publish(w) \/ B!View(w) PROVE Exact'
  BY <1>7 DEF B!Publish, B!View, Still
<1>8. ASSUME NEW w \in Works, B!Hide(w) PROVE Exact'
  <2>1. ~gaps /\ Still
    BY <1>8 DEF B!Hide, B!walk, Still
  <2> QED  BY <1>1, <1>3, <1>8, <2>1, HideExact
<1>9. ASSUME B!Gather \/ B!Refresh \/ UNCHANGED browse PROVE Exact'
  <2>1. ~gaps /\ Still
    <3>1. UNCHANGED <<start, moved, published>> /\ (gaps' = gaps \/ \E b : gaps' = (gaps \/ b))
      BY <1>9 DEF B!Gather, B!Refresh, B!walk, browse
    <3>2. ~gaps
      BY <3>1
    <3>3. Still
      BY <3>1 DEF Still
    <3> QED  BY <3>2, <3>3
  <2> QED  BY <1>1, <1>3, <1>9, <2>1, RefreshExact
<1> QED  BY <1>2, <1>4, <1>5, <1>6, <1>7, <1>8, <1>9 DEF B!Next

LEMMA NothingSkippedYet == WalkInv /\ ExactInv => B!NothingIsSkipped
<1> SUFFICES ASSUME WalkInv, ExactInv, at = "end", ~gaps
             PROVE  /\ (B!ToSet(start) \intersect published) \ moved \subseteq B!ToSet(seen)
                    /\ moved = {} /\ B!ToSet(start) \subseteq published => seen = start
  BY DEF B!NothingIsSkipped
<1>1. B!ToSet(start) = Entries(start) /\ B!ToSet(seen) = Entries(seen)
  BY WalkFactsAre DEF WalkInv, WalkFacts
<1>2. (Entries(start) \intersect published) \ moved \subseteq Entries(seen)
  BY DEF WalkInv, Covered
<1>3. moved = {} /\ Entries(start) \subseteq published => seen = start
  BY DEF ExactInv, Exact, Still
<1> QED  BY <1>1, <1>2, <1>3

-----------------------------------------------------------------------------
(***************************************************************************)
(* The types of the parts.  The bounds of their counters hold because each *)
(* request and each increment under way is one that began and has not been *)
(* counted yet, and each token one that a request made.                    *)
(***************************************************************************)
FormBounds == TypeOK /\ minted <= sent

LEMMA FormBoundsInit == Init => FormBounds
BY NoneAssumption, BoundsAssumption DEF Init, FormBounds, TypeOK, Tokens

LEMMA FormBoundsStep == ASSUME FormsInv, FormBounds, [Next]_vars PROVE FormBounds'
<1>1. /\ cookie \in Tokens \union {None} /\ minted \in 0 .. MaxSent
      /\ tab \in [Tabs -> {"blank", "loading", "form", "posting"}]
      /\ form \in [Tabs -> Tokens \union {None}] /\ pending \in [Tabs -> Tokens \union {None}]
      /\ verdict \in [Tabs -> {"accepted", "refused", None}]
      /\ sent \in 0 .. MaxSent /\ expired \in 0 .. MaxExpired
      /\ sound \subseteq Tabs /\ minted <= sent /\ MaxSent \in Nat /\ MaxExpired \in Nat
  BY BoundsAssumption DEF FormBounds, TypeOK
<1>2. ASSUME NEW t \in Tabs, NEW next \in {"loading", "posting"}, Send(t, next)
      PROVE  /\ tab' \in [Tabs -> {"blank", "loading", "form", "posting"}]
             /\ pending' \in [Tabs -> Tokens \union {None}]
             /\ minted' \in 0 .. MaxSent /\ sent' \in 0 .. MaxSent /\ minted' <= sent'
  <2>1. sent' = sent + 1 /\ sent < MaxSent /\ minted' \in {minted, minted + 1}
    BY <1>2 DEF Send, Fresh
  <2>2. minted + 1 \in Tokens
    BY <1>1, <2>1 DEF Tokens
  <2>3. TokenForRequest \in Tokens
    BY <1>1, <2>2 DEF TokenForRequest, Fresh
  <2>4. minted' \in 0 .. MaxSent /\ sent' \in 0 .. MaxSent /\ minted' <= sent'
    BY <1>1, <2>1
  <2>5. tab' \in [Tabs -> {"blank", "loading", "form", "posting"}] /\ pending' \in [Tabs -> Tokens \union {None}]
    BY <1>1, <1>2, <2>3 DEF Send
  <2> QED  BY <2>4, <2>5
<1>3. ASSUME NEW t \in Tabs, Get(t) PROVE FormBounds'
  <2>1. sound' \subseteq Tabs /\ verdict' \in [Tabs -> {"accepted", "refused", None}]
    BY <1>1, <1>3 DEF Get
  <2> QED  BY <1>1, <1>2, <1>3, <2>1 DEF Get, FormBounds, TypeOK
<1>4. ASSUME NEW t \in Tabs, Post(t) PROVE FormBounds'
  <2>1. sound' \subseteq Tabs /\ verdict' \in [Tabs -> {"accepted", "refused", None}]
    BY <1>1, <1>4 DEF Post, CsrfProtect
  <2> QED  BY <1>1, <1>2, <1>4, <2>1 DEF Post, FormBounds, TypeOK
<1>5. ASSUME NEW t \in Tabs, Loaded(t) \/ Answered(t) PROVE FormBounds'
  <2>1. /\ cookie' = pending[t] /\ tab' \in [Tabs -> {"blank", "loading", "form", "posting"}]
        /\ UNCHANGED <<minted, pending, verdict, sent, expired, sound>>
    BY <1>1, <1>5 DEF Loaded, Answered, Arrive
  <2>2. form' \in [Tabs -> Tokens \union {None}]
    BY <1>1, <1>5 DEF Loaded, Answered
  <2> QED  BY <1>1, <2>1, <2>2 DEF FormBounds, TypeOK, Tokens
<1>6. CASE Expire
  <2>1. expired' \in 0 .. MaxExpired /\ cookie' = None /\ sound' = {}
        /\ UNCHANGED <<minted, tab, form, pending, verdict, sent>>
    BY <1>1, <1>6 DEF Expire
  <2> QED  BY <1>1, <2>1 DEF FormBounds, TypeOK, Tokens
<1>7. CASE UNCHANGED vars
  BY <1>1, <1>7 DEF vars, FormBounds, TypeOK, Tokens
<1> QED  BY <1>3, <1>4, <1>5, <1>6, <1>7 DEF Next

Handling == {t \in Threads : thread[t] # W!Idle}
Busy == Cardinality(Handling)

WebBounds ==
    /\ hidden \in BOOLEAN /\ lock \in BOOLEAN
    /\ refused \in Nat /\ requests \in 0 .. MaxRequests
    /\ viewed + Busy <= requests /\ refused + Busy <= requests
    /\ \A u \in Users : toggled[u] + Busy <= requests
    /\ \A e \in Emails : registered[e] + Busy <= requests

LEMMA WebBoundsInit == W!Init => WebBounds
<1> SUFFICES ASSUME W!Init PROVE WebBounds
  OBVIOUS
<1>1. Handling = {}
  BY DEF W!Init, Handling
<1>2. Busy = 0
  BY <1>1, FS_EmptySet DEF Busy
<1>3. /\ hidden = FALSE /\ lock = FALSE /\ refused = 0 /\ requests = 0 /\ viewed = 0 /\ MaxRequests \in Nat
      /\ (\A u \in Users : toggled[u] = 0) /\ (\A e \in Emails : registered[e] = 0)
  BY PartsBoundsAssumption DEF W!Init
<1>4. requests \in 0 .. MaxRequests /\ viewed + Busy <= requests /\ refused + Busy <= requests
  BY <1>2, <1>3
<1>5. (\A u \in Users : toggled[u] + Busy <= requests) /\ \A e \in Emails : registered[e] + Busy <= requests
  BY <1>2, <1>3
<1> QED  BY <1>3, <1>4, <1>5 DEF WebBounds

\* One request less under way makes room for one answer more.
LEMMA RoomForOne ==
    \A total, busy, before, after, still, d \in Nat :
        before + busy <= total /\ still + d = busy /\ after <= before + d => after + still <= total
OBVIOUS

\* A step in which at most one request is answered, and then no longer under way.
LEMMA WebCounts ==
    ASSUME WebInv, WebBounds, WebTypes', hidden' \in BOOLEAN, lock' \in BOOLEAN, refused' \in Nat,
           NEW d \in {0, 1}, Busy' \in Nat, Busy' + d = Busy, requests' = requests,
           viewed' <= viewed + d, refused' <= refused + d,
           \A u \in Users : toggled'[u] <= toggled[u] + d,
           \A e \in Emails : registered'[e] <= registered[e] + d
    PROVE  WebBounds'
<1>1. /\ viewed \in Nat /\ viewed' \in Nat /\ refused \in Nat /\ Busy \in Nat
      /\ requests \in 0 .. MaxRequests /\ MaxRequests \in Nat /\ requests \in Nat
      /\ (\A u \in Users : toggled[u] \in Nat /\ toggled'[u] \in Nat)
      /\ \A e \in Emails : registered[e] \in Nat /\ registered'[e] \in Nat
  BY PartsBoundsAssumption DEF WebInv, WebTypes, WebBounds
<1>2. viewed' + Busy' <= requests' /\ refused' + Busy' <= requests'
  BY <1>1 DEF WebBounds
<1>3. ASSUME NEW u \in Users PROVE toggled'[u] + Busy' <= requests'
  <2>1. toggled[u] \in Nat /\ toggled'[u] \in Nat /\ toggled'[u] <= toggled[u] + d /\ toggled[u] + Busy <= requests
    BY <1>1 DEF WebBounds
  <2> QED  BY <1>1, <2>1, RoomForOne
<1>4. ASSUME NEW e \in Emails PROVE registered'[e] + Busy' <= requests'
  <2>1. registered[e] \in Nat /\ registered'[e] \in Nat /\ registered'[e] <= registered[e] + d
        /\ registered[e] + Busy <= requests
    BY <1>1 DEF WebBounds
  <2> QED  BY <1>1, <2>1, RoomForOne
<1> QED  BY <1>1, <1>2, <1>3, <1>4 DEF WebBounds

LEMMA WebBoundsStep == ASSUME WebInv, WebBounds, [W!Next]_web PROVE WebBounds'
<1>1. Handling \subseteq Threads /\ Handling' \subseteq Threads
  BY DEF Handling
<1>2. IsFiniteSet(Handling) /\ Busy \in Nat /\ Busy' \in Nat
  BY <1>1, CountThreads DEF Busy
<1>3. WebInv' /\ WebTypes' /\ WebTypes
  BY WebStep DEF WebInv
<1>4. ASSUME NEW t \in Threads, NEW r, r # W!Idle, hidden' = hidden, W!Handle(t, r) PROVE WebBounds'
  <2>1. /\ t \notin Handling /\ Handling' = Handling \union {t}
        /\ requests < MaxRequests /\ requests' = requests + 1
        /\ UNCHANGED <<lock, viewed, toggled, registered, refused>>
    BY <1>3, <1>4 DEF W!Handle, W!history, Handling, WebTypes
  <2>2. Busy' = Busy + 1
    BY <1>2, <2>1, FS_AddElement DEF Busy
  <2> HIDE DEF Handling, Busy
  <2>3. /\ viewed \in Nat /\ refused \in Nat /\ requests \in Nat /\ MaxRequests \in Nat
        /\ (\A u \in Users : toggled[u] \in Nat) /\ \A e \in Emails : registered[e] \in Nat
    BY <1>3, PartsBoundsAssumption DEF WebTypes, WebBounds
  <2>4. (\A u \in Users : toggled[u] + Busy' <= requests') /\ \A e \in Emails : registered[e] + Busy' <= requests'
    BY <1>2, <2>1, <2>2, <2>3 DEF WebBounds
  <2>5. viewed' + Busy' <= requests' /\ refused' + Busy' <= requests' /\ requests' \in 0 .. MaxRequests
    BY <1>2, <2>1, <2>2, <2>3 DEF WebBounds
  <2> QED  BY <1>4, <2>1, <2>3, <2>4, <2>5 DEF WebBounds
<1>5. ASSUME NEW t \in Threads, W!BookDetail(t) PROVE WebBounds'
  <2>1. [kind |-> "view", who |-> None, seen |-> views] # W!Idle
    BY DEF W!Idle
  <2> QED  BY <1>4, <1>5, <2>1 DEF W!BookDetail, W!Handle, W!tables
<1>6. ASSUME NEW t \in Threads, NEW u \in Users, W!ToggleFavorite(t, u) PROVE WebBounds'
  <2>1. [kind |-> IF u \in favorites THEN "remove" ELSE "add", who |-> u, seen |-> 0] # W!Idle
    BY DEF W!Idle
  <2> QED  BY <1>4, <1>6, <2>1 DEF W!ToggleFavorite, W!Handle, W!tables
<1>7. ASSUME NEW t \in Threads, NEW e \in Emails, W!Register(t, e) PROVE WebBounds'
  <2>1. [kind |-> "register", who |-> e, seen |-> 0] # W!Idle
    BY DEF W!Idle
  <2> QED  BY <1>4, <1>7, <2>1 DEF W!Register, W!Handle, W!tables
<1>8. ASSUME NEW t \in Threads, W!AdminHide(t) \/ W!AdminPublish(t) PROVE WebBounds'
  <2>1. \A k \in {"hide", "publish"} : [kind |-> k, who |-> None, seen |-> 0] # W!Idle
    BY DEF W!Idle
  <2> QED  BY <1>4, <1>8, <2>1 DEF W!AdminHide, W!AdminPublish, W!Handle, W!tables
<1>9. ASSUME NEW t \in Threads, W!Commit(t) \/ W!Conflict(t) \/ W!BusyTimeout(t) PROVE WebBounds'
  <2>1. /\ thread[t] # W!Idle /\ thread' = [thread EXCEPT ![t] = W!Idle] /\ requests' = requests
        /\ lock' = lock /\ hidden' \in BOOLEAN
    BY <1>9 DEF W!Commit, W!Conflict, W!BusyTimeout, W!tables, W!history, WebBounds
  <2>2. t \in Handling /\ Handling' = Handling \ {t}
    BY <1>3, <2>1 DEF Handling, WebTypes
  <2>3. Busy' = Busy - 1
    BY <1>1, <1>2, <2>2, FS_RemoveElement DEF Busy
  <2> HIDE DEF Handling, Busy
  <2>4. refused' \in Nat /\ viewed' <= viewed + 1 /\ refused' <= refused + 1
    <3>1. /\ viewed' \in {viewed, viewed + 1} /\ refused' \in {refused, refused + 1}
      BY <1>9 DEF W!Commit, W!Conflict, W!BusyTimeout, W!history
    <3> QED  BY <1>3, <3>1 DEF WebBounds, WebTypes
  <2>5. /\ \A u \in Users : toggled'[u] <= toggled[u] + 1
        /\ \A e \in Emails : registered'[e] <= registered[e] + 1
    <3>1. \/ toggled' = toggled
          \/ toggled' = [toggled EXCEPT ![thread[t].who] = @ + 1]
      BY <1>9 DEF W!Commit, W!Conflict, W!BusyTimeout, W!history
    <3>2. \/ registered' = registered
          \/ registered' = [registered EXCEPT ![thread[t].who] = @ + 1]
      BY <1>9 DEF W!Commit, W!Conflict, W!BusyTimeout, W!history
    <3>3. \A u \in Users : toggled'[u] <= toggled[u] + 1
      BY <1>3, <3>1 DEF WebTypes
    <3>4. \A e \in Emails : registered'[e] <= registered[e] + 1
      BY <1>3, <3>2 DEF WebTypes
    <3> QED  BY <3>3, <3>4
  <2>6. Busy' + 1 = Busy /\ lock' \in BOOLEAN
    BY <1>2, <2>1, <2>3 DEF WebBounds
  <2> QED  BY <1>2, <1>3, <2>1, <2>4, <2>5, <2>6, WebCounts
<1>10. ASSUME W!WorkerClaims \/ W!WorkerCommits \/ UNCHANGED web PROVE WebBounds'
  <2>1. UNCHANGED <<hidden, thread, viewed, toggled, registered, refused, requests>> /\ lock' \in BOOLEAN
    BY <1>10 DEF W!WorkerClaims, W!WorkerCommits, web, W!tables, W!history, WebBounds
  <2> QED  BY <2>1 DEF WebBounds, Busy, Handling
<1> QED  BY <1>5, <1>6, <1>7, <1>8, <1>9, <1>10 DEF W!Next

LEMMA WebTypesTrue == WebInv /\ WebBounds => W!TypeOK
<1> SUFFICES ASSUME WebInv, WebBounds PROVE W!TypeOK
  OBVIOUS
<1>1. Handling \subseteq Threads
  BY DEF Handling
<1>2. Busy \in Nat
  BY <1>1, CountThreads DEF Busy
<1> HIDE DEF Busy
<1>3. /\ views \in Nat /\ viewed \in Nat /\ views <= viewed /\ refused \in Nat /\ MaxRequests \in Nat
      /\ requests \in 0 .. MaxRequests /\ viewed + Busy <= requests /\ refused + Busy <= requests
      /\ toggled \in [Users -> Nat] /\ registered \in [Emails -> Nat]
      /\ favorites \subseteq Users /\ accounts \subseteq Emails /\ hidden \in BOOLEAN /\ lock \in BOOLEAN
  BY PartsBoundsAssumption DEF WebInv, WebTypes, WebBounds, W!AnswersAreKept, W!ViewsBounded
<1>4. views \in 0 .. MaxRequests /\ viewed \in 0 .. MaxRequests /\ refused \in 0 .. MaxRequests
  BY <1>2, <1>3
<1>5. toggled \in [Users -> 0 .. MaxRequests] /\ registered \in [Emails -> 0 .. MaxRequests]
  <2>1. ASSUME NEW u \in Users PROVE toggled[u] \in 0 .. MaxRequests
    <3>1. toggled[u] \in Nat /\ toggled[u] + Busy <= requests
      BY <1>3 DEF WebBounds
    <3> QED  BY <1>2, <1>3, <3>1
  <2>2. ASSUME NEW e \in Emails PROVE registered[e] \in 0 .. MaxRequests
    <3>1. registered[e] \in Nat /\ registered[e] + Busy <= requests
      BY <1>3 DEF WebBounds
    <3> QED  BY <1>2, <1>3, <3>1
  <2> QED  BY <1>3, <2>1, <2>2
<1>6. ASSUME NEW t \in Threads
      PROVE  thread[t] \in [kind : Kinds, who : Users \union Emails \union {None}, seen : 0 .. MaxRequests]
  <2>1. thread[t] \in Requests /\ thread[t].seen \in Nat /\ thread[t].seen <= viewed
    BY DEF WebInv, WebTypes, Requests
  <2>2. thread[t].seen \in 0 .. MaxRequests
    BY <1>3, <1>4, <2>1
  <2> QED  BY <2>1, <2>2 DEF Requests
<1>7. thread \in [Threads -> [kind : Kinds, who : Users \union Emails \union {None}, seen : 0 .. MaxRequests]]
  BY <1>6 DEF WebInv, WebTypes
<1> QED  BY <1>3, <1>4, <1>5, <1>7 DEF W!TypeOK, Kinds

\* An increment under way began, and has not been counted.
Counting == {p \in Processes : step[p] # "idle"}

VisitBounds ==
    /\ IsFiniteSet(Counting) /\ counted + Cardinality(Counting) <= begun
    /\ begun \in 0 .. MaxVisits /\ kills \in 0 .. MaxKills
    /\ file \in 0 .. V!Parsed(first) + MaxVisits \union {None, Empty}
    /\ \A p \in Processes : n[p] <= V!Parsed(first) + MaxVisits

LEMMA VisitBoundsInit == V!Init => VisitBounds
<1> SUFFICES ASSUME V!Init PROVE VisitBounds
  OBVIOUS
<1>1. Counting = {}
  BY DEF V!Init, Counting
<1>2. IsFiniteSet(Counting) /\ Cardinality(Counting) = 0
  BY <1>1, FS_EmptySet
<1>3. V!Parsed(first) \in Nat /\ first \in Nat \union {None, Empty} /\ (first \in Nat => V!Parsed(first) = first)
  BY ContentsAssumption, ParsedNumbers DEF V!Init
<1>4. MaxVisits \in Nat /\ MaxKills \in Nat /\ counted = 0 /\ begun = 0 /\ kills = 0 /\ file = first
      /\ \A p \in Processes : n[p] = 0
  BY PartsBoundsAssumption DEF V!Init
<1>5. file \in 0 .. V!Parsed(first) + MaxVisits \union {None, Empty}
  BY <1>3, <1>4
<1>6. \A p \in Processes : n[p] <= V!Parsed(first) + MaxVisits
  BY <1>3, <1>4
<1> QED  BY <1>2, <1>4, <1>5, <1>6 DEF VisitBounds

LEMMA VisitBoundsStep == ASSUME CountInv, VisitBounds, [V!Next]_counter PROVE VisitBounds'
<1> DEFINE busy == Cardinality(Counting)
           most == V!Parsed(first) + MaxVisits
<1>1. /\ V!Parsed(first) \in Nat /\ V!Parsed(file) \in Nat /\ Cardinality(Unread) \in Nat
      /\ MaxVisits \in Nat /\ MaxKills \in Nat /\ begun \in Nat /\ begun <= MaxVisits /\ counted \in Nat
      /\ step \in [Processes -> Steps] /\ n \in [Processes -> Nat]
      /\ kills \in 0 .. MaxKills
      /\ V!Parsed(file) + Cardinality(Unread) <= V!Parsed(first) + begun /\ IsFiniteSet(Unread)
  BY CountNumbers, PartsBoundsAssumption DEF CountInv, CountTypes, NotAhead, Total, VisitBounds
<1>2. /\ IsFiniteSet(Counting) /\ busy \in Nat /\ counted + busy <= begun /\ begun \in 0 .. MaxVisits
      /\ file \in 0 .. most \union {None, Empty}
      /\ (\A p \in Processes : n[p] <= most) /\ most \in Nat
  BY <1>1, FS_CardinalityType DEF VisitBounds
\* The increments under way stay, and so does the bound.
<1>3. ASSUME Counting' = Counting, UNCHANGED <<begun, counted, kills, first>>,
             file' \in 0 .. most \union {None, Empty}, \A p \in Processes : n'[p] <= most
      PROVE  VisitBounds'
  <2>1. most' = most /\ busy' = busy
    BY <1>3
  <2> QED  BY <1>1, <1>2, <1>3, <2>1 DEF VisitBounds
<1>4. ASSUME NEW p \in Processes, V!PageView(p) PROVE VisitBounds'
  <2>1. p \notin Counting /\ Counting' = Counting \union {p}
    BY <1>1, <1>4 DEF V!PageView, V!Goto, Counting
  <2>2. IsFiniteSet(Counting') /\ busy' = busy + 1
    BY <1>2, <2>1, OneJoins
  <2>3. begun < MaxVisits /\ begun' = begun + 1 /\ UNCHANGED <<file, n, counted, first, kills>>
    BY <1>4 DEF V!PageView
  <2>4. counted' + busy' <= begun' /\ begun' \in 0 .. MaxVisits
    BY <1>1, <1>2, <2>2, <2>3
  <2> QED  BY <1>1, <1>2, <2>2, <2>3, <2>4 DEF VisitBounds
<1>5. ASSUME NEW p \in Processes, NEW from \in Steps \ {"idle"}, NEW to \in Steps \ {"idle"}, V!Goto(p, from, to)
      PROVE  Counting' = Counting
  BY <1>1, <1>5 DEF V!Goto, Counting
<1>6. ASSUME NEW p \in Processes, V!Exists(p) \/ V!Create(p) \/ V!Fill(p) \/ V!Lock(p) \/ V!Truncate(p) \/ V!Dump(p)
      PROVE  VisitBounds'
  <2>1. UNCHANGED <<begun, counted, kills, first, n>>
    BY <1>6 DEF V!Exists, V!Create, V!Fill, V!Lock, V!Truncate, V!Dump
  <2>2. PICK from \in Steps \ {"idle"}, to \in Steps \ {"idle"} : V!Goto(p, from, to)
    <3>1. (IF file = None THEN "create" ELSE "lock") \in Steps \ {"idle"}
      BY DEF Steps
    <3> QED  BY <1>6, <3>1 DEF V!Exists, V!Create, V!Fill, V!Lock, V!Truncate, V!Dump, Steps
  <2>3. file' \in {file, Empty, 0, n[p]} /\ n[p] \in Nat /\ n[p] <= most
    BY <1>1, <1>2, <1>6 DEF V!Exists, V!Create, V!Fill, V!Lock, V!Truncate, V!Dump
  <2>4. file' \in 0 .. most \union {None, Empty}
    BY <1>2, <2>3
  <2>5. Counting' = Counting
    BY <1>5, <2>2
  <2> QED  BY <1>2, <1>3, <2>1, <2>4, <2>5
<1>7. ASSUME NEW p \in Processes, V!Read(p) PROVE VisitBounds'
  <2>1. step[p] = "read" /\ n' = [n EXCEPT ![p] = V!Parsed(file) + 1]
        /\ UNCHANGED <<begun, counted, kills, first, file>>
    BY <1>7 DEF V!Read, V!Goto
  <2>2. p \in Unread
    BY <2>1 DEF Unread
  <2>3. Cardinality(Unread) # 0
    BY <1>1, <2>2, FS_EmptySet
  <2>4. V!Parsed(file) + 1 <= most
    BY <1>1, <2>3
  <2>5. \A other \in Processes : n'[other] <= most
    BY <1>1, <1>2, <2>1, <2>4
  <2>6. Counting' = Counting
    BY <1>5, <1>7 DEF V!Read, Steps
  <2> QED  BY <1>2, <1>3, <2>1, <2>5, <2>6
<1>8. ASSUME NEW p \in Processes, V!Unlock(p) \/ V!Kill(p) PROVE VisitBounds'
  <2>1. /\ step[p] # "idle" /\ step' = [step EXCEPT ![p] = "idle"]
        /\ counted' \in {counted, counted + 1} /\ UNCHANGED <<file, n, begun, first>>
        /\ (kills' = kills \/ (kills < MaxKills /\ kills' = kills + 1))
    BY <1>8 DEF V!Unlock, V!Kill, V!Goto
  <2>2. p \in Counting /\ Counting' = Counting \ {p}
    BY <1>1, <2>1 DEF Counting
  <2>3. IsFiniteSet(Counting') /\ busy' = busy - 1
    BY <1>2, <2>2, OneLeaves
  <2>4. counted' + busy' <= begun'
    BY <1>1, <1>2, <2>1, <2>3
  <2>5. kills' \in 0 .. MaxKills
    BY <1>1, <2>1
  <2> QED  BY <1>1, <1>2, <2>1, <2>3, <2>4, <2>5 DEF VisitBounds
<1>9. ASSUME V!ReadCount \/ UNCHANGED counter PROVE VisitBounds'
  <2>1. UNCHANGED <<file, step, n, begun, counted, first, kills>>
    BY <1>9 DEF V!ReadCount, counter
  <2>2. Counting' = Counting
    BY <2>1 DEF Counting
  <2> QED  BY <1>2, <1>3, <2>1, <2>2
<1> QED  BY <1>4, <1>6, <1>7, <1>8, <1>9 DEF V!Next, V!Increment

LEMMA VisitTypesTrue == CountInv /\ VisitBounds => V!TypeOK
<1> SUFFICES ASSUME CountInv, VisitBounds PROVE V!TypeOK
  OBVIOUS
<1>1. /\ V!Parsed(first) \in Nat /\ MaxVisits \in Nat /\ begun \in Nat /\ begun <= MaxVisits /\ counted \in Nat
      /\ shown \in Nat /\ shown <= V!Parsed(first) + begun /\ n \in [Processes -> Nat]
  BY CountNumbers, PartsBoundsAssumption DEF CountInv, CountTypes, NotAhead, V!ShownIsReal, VisitBounds
<1>2. Cardinality(Counting) \in Nat /\ counted + Cardinality(Counting) <= begun
  BY FS_CardinalityType DEF VisitBounds
<1>3. shown \in 0 .. V!Parsed(first) + MaxVisits /\ counted \in 0 .. MaxVisits
  BY <1>1, <1>2
<1>4. n \in [Processes -> 0 .. V!Parsed(first) + MaxVisits]
  BY <1>1 DEF VisitBounds
<1> QED  BY <1>3, <1>4 DEF V!TypeOK, CountInv, CountTypes, VisitBounds, Steps

-----------------------------------------------------------------------------
(***************************************************************************)
(* The theorems.                                                           *)
(***************************************************************************)
LEMMA StepOfAPart ==
    ASSUME [MCNext]_<<part, vars, web, browse, bucket, counter>>
    PROVE  [W!Next]_web /\ [B!Next]_browse /\ [R!Next]_bucket /\ [V!Next]_counter /\ [Next]_vars
BY DEF MCNext

\* Toggles of a favorite act as if one came after the other, an address gets one
\* account and a view is never made up, however the requests of app.py
\* interleave with each other and with the worker.
THEOREM AnswersKept == MCSpec => []AnswersAreKept
<1>1. MCInit => WebInv
  BY WebInit DEF MCInit
<1>2. WebInv /\ [MCNext]_<<part, vars, web, browse, bucket, counter>> => WebInv'
  BY WebStep, StepOfAPart
<1>3. WebInv => AnswersAreKept
  BY DEF WebInv, AnswersAreKept
<1> QED  BY <1>1, <1>2, <1>3, PTL DEF MCSpec

\* limit of rate_limit.py admits at most max_events calls in any window and
\* refuses none without need as long as calls do not meet; however many threads
\* race, each overruns the bucket by one at most.
THEOREM LimitExact == MCSpec => []LimitKept
<1>1. MCInit => RateInv
  BY RateInit DEF MCInit
<1>2. RateInv /\ [MCNext]_<<part, vars, web, browse, bucket, counter>> => RateInv'
  BY RateStep, StepOfAPart
<1> QED  BY <1>1, <1>2, RateBounds, PTL DEF MCSpec

\* The file of visits.py counts every increment that returned, unless a process
\* was killed or two met while the file was created, and never shows more
\* visits than there were.
THEOREM CounterTrue == MCSpec => []CounterIsTrue
<1>1. MCInit => CountInv
  BY CountInit DEF MCInit
<1>2. CountInv /\ [MCNext]_<<part, vars, web, browse, bucket, counter>> => CountInv'
  BY CountStep, StepOfAPart
<1> QED  BY <1>1, <1>2, CountTrue, PTL DEF MCSpec

\* A page of a listing shows only works that were public at some moment since it
\* was asked for, though the index and the collections keep hidden works and
\* each statement of a request may see another catalog, whatever is listed and
\* in however many pages.
THEOREM HiddenKept == MCSpec => HiddenStaysHidden
<1>1. MCInit => BrowseInv
  BY BrowseInit DEF MCInit
<1>2. BrowseInv /\ [MCNext]_<<part, vars, web, browse, bucket, counter>> => BrowseInv'
  BY BrowseStep, StepOfAPart
<1>3. BrowseInv /\ [MCNext]_<<part, vars, web, browse, bucket, counter>>
      => [seen' # seen => B!ToSet(SubSeq(seen', Len(seen) + 1, Len(seen'))) \subseteq open]_B!vars
  BY BrowseStep, StepOfAPart
<1> QED  BY <1>1, <1>2, <1>3, PTL DEF MCSpec, HiddenStaysHidden, B!HiddenStaysHidden

\* A walk over the pages of a listing to its end shows every work that was
\* listed throughout, as long as nothing behind the visitor was hidden and the
\* page counts were not overtaken, however the requests of the walk interleave
\* with publishing, hiding, views and refreshes, for every catalog, order and
\* page size; and if nothing moved it shows the listing in its order.
THEOREM NothingSkipped == MCSpec => []NothingIsSkipped
<1> DEFINE Inv == WalkInv /\ ExactInv
<1>1. MCInit => Inv
  BY WalkInit, ExactInit DEF MCInit
<1>2. Inv /\ [MCNext]_<<part, vars, web, browse, bucket, counter>> => Inv'
  BY StepOfAPart, WalkStep, ExactStep
<1>3. Inv => NothingIsSkipped
  BY NothingSkippedYet DEF NothingIsSkipped
<1> QED  BY <1>1, <1>2, <1>3, PTL DEF MCSpec

\* Rows, cookies, deque and counter file keep their types: no count runs past
\* the requests, the page views and the tokens there were.
THEOREM TypesTrue == MCSpec => []TypesOK
<1> DEFINE Inv == /\ WebInv /\ WebBounds /\ BrowseInv /\ RateInv /\ CountInv /\ VisitBounds
                  /\ FormsInv /\ FormBounds
<1>1. MCInit => Inv
  BY WebInit, WebBoundsInit, BrowseInit, RateInit, CountInit, VisitBoundsInit, FormsInit, FormBoundsInit DEF MCInit
<1>2. Inv /\ [MCNext]_<<part, vars, web, browse, bucket, counter>> => Inv'
  BY StepOfAPart, WebStep, WebBoundsStep, BrowseStep, RateStep, CountStep, VisitBoundsStep, FormsStep, FormBoundsStep
<1>3. Inv => TypesOK
  BY WebTypesTrue, VisitTypesTrue DEF TypesOK, BrowseInv, RateInv, FormBounds
<1> QED  BY <1>1, <1>2, <1>3, PTL DEF MCSpec

\* A form is refused only when the cookie was lost or its page's request met a
\* response with another token, however many tabs there are.
THEOREM FormsAccepted == Spec => []FormsAreAccepted
<1>1. FormsInv => FormsAreAccepted
  BY DEF FormsInv, Agreed, FormsAreAccepted
<1> QED  BY <1>1, FormsInvariance, PTL
=============================================================================
