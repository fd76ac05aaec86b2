-------------------------------- MODULE Ranges ------------------------------
(***************************************************************************)
(* Serving a file or a part of it (storage/serve.py), as readers of PDFs   *)
(* ask for it piece by piece.  Bytes are numbered from 0.  Of a Range      *)
(* header the code reads the first range, whose numbers are None where     *)
(* there are no digits.  Objects are never rewritten, so the size read     *)
(* first is that of the file sent.                                         *)
(***************************************************************************)
EXTENDS Integers

CONSTANTS
    Sizes,          \* of files
    Numbers,        \* in headers
    None,           \* no digits, no header, no response
    Garbage         \* a header without a range

ASSUME NumbersAssumption == Sizes \subseteq Nat /\ Numbers \subseteq Nat
ASSUME MarksAssumption == None \notin Numbers /\ None # Garbage

VARIABLES
    size,           \* of the file
    header,         \* the Range header
    response        \* its status, what Content-Range and Content-Length tell, the bytes of its body

vars == <<size, header, response>>

Headers == [from : Numbers \union {None}, to : Numbers \union {None}]
ASSUME HeadersAssumption == {None, Garbage} \intersect Headers = {}

TypeOK ==
    /\ size \in Sizes /\ header \in Headers \union {None, Garbage}
    /\ response = None \/ response.status \in {200, 206, 416}

Init ==
    /\ size \in Sizes
    /\ header \in Headers \union {None, Garbage}
    /\ response = None
-----------------------------------------------------------------------------
\* Seeking and reading, which ends with the file.
Read(start, length) == {b \in 0 .. size - 1 : start <= b /\ b < start + length}

Whole == [status |-> 200, start |-> 0, end |-> size - 1, length |-> size, body |-> Read(0, size)]

Unsatisfiable == [status |-> 416, start |-> 0, end |-> size, length |-> 0, body |-> {}]

\* Mutant of Clamped: Content-Length promises what was asked for.
AsAsked(end) == end

\* An end beyond the file is its last byte.
Clamped(end) == IF end < size - 1 THEN end ELSE size - 1

Partial(start, end) ==
    LET length == Clamped(end) - start + 1 IN
    [status |-> 206, start |-> start, end |-> Clamped(end), length |-> length, body |-> Read(start, length)]

\* The range from start to end, if it is one.
Slice(start, end) == IF start >= size \/ end < start THEN Unsatisfiable ELSE Partial(start, end)

Ranged(from, to) ==
    IF from # None THEN Slice(from, IF to = None THEN size - 1 ELSE to)
    ELSE IF to # None THEN Slice(IF to < size THEN size - to ELSE 0, size - 1)      \* the last bytes
    ELSE Unsatisfiable

Answer ==
    IF header = None THEN Whole
    ELSE IF header = Garbage THEN Unsatisfiable
    ELSE Ranged(header.from, header.to)

FileResponseWithRange ==
    /\ response = None
    /\ response' = Answer
    /\ UNCHANGED <<size, header>>

Next == FileResponseWithRange

Spec == Init /\ [][Next]_vars
-----------------------------------------------------------------------------
\* The bytes of the file that a header names: no more than there are, and none
\* for a suffix of length zero, a start behind the end, or an empty file.
Named ==
    IF header = Garbage THEN {}
    ELSE IF header.from = None THEN {b \in 0 .. size - 1 : header.to # None /\ size - header.to <= b}
    ELSE {b \in 0 .. size - 1 : header.from <= b /\ (header.to # None => b <= header.to)}

\* A request for a range gets exactly the bytes it names, and is told so by the
\* headers, or is refused when it names none; without a range it gets the file.
RangesAreExact ==
    response # None =>
        IF header = None THEN response.status = 200 /\ response.body = 0 .. size - 1
        ELSE IF Named = {} THEN response.status = 416
        ELSE /\ response.status = 206
             /\ response.body = Named
             /\ response.body = response.start .. response.end
             /\ response.length = response.end - response.start + 1
=============================================================================
