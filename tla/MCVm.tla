--------------------------------- MODULE MCVm ---------------------------------
(***************************************************************************)
(* Vm for TLC: one page of the executable, two of the stack.               *)
(***************************************************************************)
EXTENDS Vm

CONSTANTS c, s1, s0

\* A buffer that ends in the first stack page and may need the second one.
MCBuffer == <<c, s1, s0>>

\* Nothing tells two processes, or two addresses of struct frames, apart.
Symmetry == Permutations(Proc) \cup Permutations(Addr)
===============================================================================
