----------------------------- MODULE MCIngestion ----------------------------
(***************************************************************************)
(* Instances of Ingestion for TLC.                                         *)
(***************************************************************************)
EXTENDS Ingestion

CONSTANTS a, b, c

MCFormat == [d \in Digests |-> IF d = b THEN "pdf" ELSE "epub"]

\* Items 1 and 2 are the same book from two sources, of which the second has
\* uncertain rights and an EPUB that may change between tries; item 3 is
\* another, prohibited book.
MCOffers == [i \in Items |-> IF i = 1 THEN <<{a}, {b}>> ELSE IF i = 2 THEN <<{a, c}>> ELSE <<{c}>>]
MCTitle == [i \in Items |-> IF i = 3 THEN "other" ELSE "same"]
MCYear == [i \in Items |-> 0]
MCSameYear == [i \in Items |-> 1900]
MCRights == [i \in Items |-> IF i = 1 THEN "auto" ELSE IF i = 2 THEN "uncertain" ELSE "prohibited"]
\* The uncertain item brings the EPUB to the auto item's PDF.
MCComplement == [i \in Items |-> IF i = 1 THEN <<{b}>> ELSE <<{a}>>]
\* The second item's URLs may serve the same bytes.
MCRepeated == [i \in Items |-> IF i = 1 THEN <<{a}, {b}>> ELSE <<{a, c}, {c}>>]
=============================================================================
