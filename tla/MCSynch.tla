------------------------------- MODULE MCSynch -------------------------------
(* Instances of Synch for TLC. *)
EXTENDS Synch, TLC

CONSTANT L

MC_lock_of == [c \in Conds |-> L]

\* Nothing tells the pages apart that are neither main's nor idle()'s.
Symmetry == Permutations(Threads \ {initial_thread, Idle})
=============================================================================
