------------------------------- MODULE MCVmm -------------------------------
(***************************************************************************)
(* Instances of Vmm for model checking.                                    *)
(***************************************************************************)
EXTENDS Vmm

\* Regions below the kernel that overlap, one that the end of the heap is in the way
\* of, and others from the start of the search on, within one page table and across
\* two.
SomeRequests == {<<0, 2>>, <<1, 1>>, <<21, 2>>, <<22, 1>>, <<23, 2>>, <<25, 1>>}

\* One region below the kernel and one above it.
FewRequests == {<<0, 2>>, <<22, 1>>}

\* The kernel's space alone; several spaces.
SomeCalls == {{"map", "unmap", "heap"}, {"map", "heap", "create", "destroy", "switch"}}
GrowingHeap == {{"map", "heap"}}
=============================================================================
