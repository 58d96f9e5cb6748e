------------------------------- MODULE Lists --------------------------------
(***************************************************************************)
(* The kernel's intrusive doubly linked lists (lib/kernel/list.c), seen as *)
(* sequences, front first.  list_push_back is Append; list_pop_front       *)
(* returns Head and leaves Tail.                                           *)
(***************************************************************************)
EXTENDS Integers, Sequences

\* The elements linked on list q.
Elems(q) == {q[i] : i \in DOMAIN q}

\* No element is linked twice, and so none has two successors.
Distinct(q) == \A i, j \in DOMAIN q : q[i] = q[j] => i = j

\* list_remove: those behind e move up.
list_remove(q, e) ==
    LET k == CHOOSE j \in DOMAIN q : q[j] = e
    IN  [i \in 1 .. Len(q) - 1 |-> q[IF i < k THEN i ELSE i + 1]]
=============================================================================
