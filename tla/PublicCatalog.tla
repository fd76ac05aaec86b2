---------------------------- MODULE PublicCatalog ---------------------------
(***************************************************************************)
(* What the library promises of its catalog, whatever ingestion, retries,  *)
(* crashes and librarians do to it: works are never lost, only a work made *)
(* from a cleared item and holding a file becomes public by itself, and a  *)
(* file once held stays with its work, its provenance and its bytes.       *)
(* Ingestion implements this.                                              *)
(***************************************************************************)
CONSTANTS
    Works,          \* what a title can be catalogued under
    Items,          \* where files come from
    Cleared,        \* the items whose rights allow publication
    Digests,        \* contents
    NoFile          \* a content the library does not hold

VARIABLES
    status,         \* of each work, as a reader may see it
    holds           \* of each content: the work and item it belongs to, its bytes

vars == <<status, holds>>

Files == [work : Works, item : Items, bytes : Digests]

Init ==
    /\ status = [w \in Works |-> "absent"]
    /\ holds = [d \in Digests |-> NoFile]

\* The contents of new, none of them held yet, come to w from i.
Receive(w, i, new) ==
    /\ \A d \in new : holds[d] = NoFile /\ holds'[d] \in Files
                      /\ holds'[d].work = w /\ holds'[d].item = i
    /\ holds' = [d \in Digests |-> IF d \in new THEN holds'[d] ELSE holds[d]]

\* A work in the catalog gets further files; nothing else about it changes.
Acquire(w, i, new) ==
    /\ status[w] # "absent"
    /\ Receive(w, i, new)
    /\ UNCHANGED status

\* A new work, with the files that could be had: public at once only when its
\* item is cleared and there is something to read.
Accession(w, i, new) ==
    /\ status[w] = "absent"
    /\ Receive(w, i, new)
    /\ \/ status' = [status EXCEPT ![w] = "draft"]
       \/ i \in Cleared /\ new # {} /\ status' = [status EXCEPT ![w] = "published"]

Publish(w) ==
    /\ status[w] # "absent"
    /\ status' = [status EXCEPT ![w] = "published"]
    /\ UNCHANGED holds

Hide(w) ==
    /\ status[w] # "absent"
    /\ status' = [status EXCEPT ![w] = "hidden"]
    /\ UNCHANGED holds

Next ==
    \E w \in Works :
        \/ \E i \in Items, new \in SUBSET Digests : Acquire(w, i, new) \/ Accession(w, i, new)
        \/ Publish(w)
        \/ Hide(w)

Spec == Init /\ [][Next]_vars
=============================================================================
