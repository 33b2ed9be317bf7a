------------------------------- MODULE MCBoot -------------------------------
(***************************************************************************)
(* Machines for checking Boot.  Memory is counted in units of 1 MB, the    *)
(* clusters of the kernel's file are 3, 2 and 5, and FAT entries end a     *)
(* chain from 7 on.                                                        *)
(***************************************************************************)
EXTENDS Boot

Answer(n, b, l, u) == [ok |-> TRUE, bytes |-> n, base |-> b, length |-> l, usable |-> u]
Failure == [ok |-> FALSE, bytes |-> 0, base |-> 0, length |-> 0, usable |-> FALSE]
E801(x, a, b, c, d) == [ok |-> x, ax |-> a, bx |-> b, cx |-> c, dx |-> d]
Dir(k, c) == [kind |-> k, cluster |-> c]

Headers ==
  <<[load |-> TRUE,  offset |-> 0, filesz |-> 1, memsz |-> 1, paddr |-> 0],
    [load |-> FALSE, offset |-> 1, filesz |-> 1, memsz |-> 1, paddr |-> 0],
    [load |-> TRUE,  offset |-> 1, filesz |-> 2, memsz |-> 4, paddr |-> 1]>>

\* Whole lists, lists that stop with an error, runts whose fields mean nothing,
\* empty entries, and no E820 at all.
Lists ==
  {<<Answer(20, 0, 1, TRUE), Answer(24, 1, 9, FALSE), Answer(8, 3, 5, TRUE), Answer(24, 10, 4, TRUE)>>,
   <<Answer(24, 0, 0, TRUE), Answer(20, 0, 1, TRUE), Failure>>,
   <<Answer(20, 9, 0, TRUE), Failure>>}

\* The kernel's entry behind a deleted one of the same name, in the second
\* sector, absent, behind the end of the directory, or of an empty file.
Roots ==
  {<<<<Dir("deleted", 6), Dir("long", 0), Dir("kernel", 3), Dir("end", 0)>>>>,
   <<<<Dir("other", 4), Dir("deleted", 2)>>, <<Dir("other", 6), Dir("kernel", 3)>>>>,
   <<<<Dir("other", 4), Dir("end", 0)>>, <<Dir("kernel", 3)>>>>,
   <<<<Dir("kernel", 0)>>>>,
   <<<<Dir("other", 4)>>>>}

E801s ==
  {E801(FALSE, 0, 0, 0, 0), E801(TRUE, 6, 2, 0, 0), E801(TRUE, 9, 9, 6, 1), E801(TRUE, 3, 0, 0, 0)}

Plain ==
  [a20 |-> FALSE, bios |-> "lies", kbd |-> TRUE, fast |-> FALSE,
   e820 |-> <<Answer(20, 0, 1, TRUE), Answer(24, 2, 9, TRUE)>>, e801 |-> E801(FALSE, 0, 0, 0, 0),
   root |-> <<<<Dir("deleted", 6), Dir("long", 0), Dir("kernel", 3), Dir("end", 0)>>>>,
   chain |-> <<3, 2, 5>>, mark |-> 7]

\* A plain machine and those that differ from it in A20, in what the BIOS says
\* of memory, or in the disk.
SomeMachines ==
  {[Plain EXCEPT !.a20 = a, !.bios = b, !.kbd = k, !.fast = f] :
     a \in BOOLEAN, b \in {"opens", "lies", "refuses"}, k \in BOOLEAN, f \in BOOLEAN}
  \cup {[Plain EXCEPT !.e820 = l, !.e801 = e] : l \in Lists, e \in E801s}
  \cup {[Plain EXCEPT !.root = r, !.mark = m] : r \in Roots, m \in {7, 8}}
=============================================================================
