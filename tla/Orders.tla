-------------------------------- MODULE Orders ------------------------------
(***************************************************************************)
(* What the statements of a database do to rows: ORDER BY lists a set in   *)
(* an order, WHERE keeps of a list what is in a set.  SetToSortSeq and     *)
(* SelectSeq compute the same; here each entry is determined by the number *)
(* of those before it, so that lemmas about lists need no induction.       *)
(***************************************************************************)
EXTENDS Naturals, Sequences, FiniteSets

\* The members of a finite set in a strict order, a set of pairs.
InOrder(S, before) ==
    [k \in 1 .. Cardinality(S) |-> CHOOSE x \in S : Cardinality({y \in S : <<y, x>> \in before}) = k - 1]

Ascending(S) == InOrder(S, {p \in S \X S : p[1] < p[2]})

\* The entries of a sequence that are in a set, in the order they have.
Among(s, S) ==
    LET kept == Ascending({k \in DOMAIN s : s[k] \in S})
    IN  [k \in DOMAIN kept |-> s[kept[k]]]
=============================================================================
