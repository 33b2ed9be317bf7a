------------------------------- MODULE MCPmm -------------------------------
(***************************************************************************)
(* Memory maps for checking Pmm.  A page is 2 units, a word 64 units (32   *)
(* frames); 1MB is at 4 (frame 2) and the kernel ends at 6 (frame 3).      *)
(***************************************************************************)
EXTENDS Pmm

Entry(a, b, n) == [available |-> a, base |-> b, length |-> n]

\* Low memory, then a reserved hole or none, then extended memory with and
\* without whole frames at its ends; memory that ends before the frames without
\* a bit, between them and past MAX_FRAMES, with a hole over some of them; no map
\* at all and a map with nothing available.
PlainMaps ==
  {<<>>, <<Entry(FALSE, 0, 40)>>} \cup
  {<<Entry(TRUE, 0, 3), Entry(FALSE, 3, b - 3), Entry(TRUE, b, n)>> :
     b \in {4, 7, 10}, n \in {20, 29, 30}} \cup
  {<<Entry(TRUE, 4, n), Entry(FALSE, 4 + n, 5), Entry(TRUE, 9 + n, 40 - 9 - n)>> :
     n \in {7, 10, 12, 19}} \cup
  {<<Entry(TRUE, 0, 3), Entry(TRUE, 4, n)>> : n \in {36, 38, 39, 46}} \cup
  {<<Entry(TRUE, 4, 30), Entry(FALSE, 34, 8), Entry(TRUE, 42, 10)>>}
=============================================================================
