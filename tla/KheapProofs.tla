---------------------------- MODULE KheapProofs ----------------------------
(***************************************************************************)
(* Proofs about Kheap for every heap size, header size, page size and      *)
(* sequence of calls whose sizes can be rounded to pages in a machine      *)
(* word.                                                                   *)
(***************************************************************************)
EXTENDS Kheap, TLAPS

\* What heap_expand is asked for when n bytes are wanted.
Demand(n) == RoundUp(RoundUp(n, AlignTo) + HeaderSize, PageSize)

\* No size is so near 2^32 that rounding it wraps.
RequestsFit ==
  /\ \A n \in Requests : Demand(n) < Word
  /\ \A p \in CallocRequests : Demand(U32(p[1] * p[2])) < Word
  /\ \A n \in AlignedRequests : Demand(n + PageSize) < Word

\* The caller's part of block b.
Inside(o, b) == b + HeaderSize <= o.ptr /\ o.ptr + o.len <= EndOf(b)

\* The call in progress: its size is rounded without a wrap and suffices for what
\* was asked; the block it has found is free and large enough; after an extension
\* a block that fits lies ahead.
CallInv ==
  /\ pc = "boot" => blocks = {} /\ owned = {}
  /\ pc \in {"find", "take"} =>
       /\ asked + (IF aligned THEN PageSize ELSE 0) <= want
       /\ RoundUp(want + HeaderSize, PageSize) < Word
  /\ pc = "take" => cursor \in blocks /\ free[cursor] /\ size[cursor] >= want
  /\ pc = "find" /\ expanded =>
       cursor # Null /\ \E b \in blocks : cursor <= b /\ free[b] /\ size[b] >= want

\* Every caller has an allocated block of its own, and an allocated block has a
\* caller unless its moved pointer was released.
OwnerInv ==
  /\ \A o \in owned : \E b \in blocks \ lost : Inside(o, b) /\ ~free[b]
  /\ \A b \in blocks, o, p \in owned : Inside(o, b) /\ Inside(p, b) => o = p
  /\ \A b \in lost : b \in blocks /\ ~free[b]
  /\ \A b \in blocks \ lost : ~free[b] => \E o \in owned : Inside(o, b)

\* No two free neighbours, as far as merge_free_blocks has come.
MergeInv ==
  /\ pc = "merge" => cursor \in blocks
  /\ \A b \in blocks :
       free[b] /\ next[b] # Null /\ (pc = "merge" => b < cursor) => ~free[next[b]]

HeapInv == Tiled /\ CallInv /\ OwnerInv /\ MergeInv

\* What is left once the list's last header was taken for another: the pointer at
\* the end of the list leads nowhere, but the blocks and their callers are as before.
Wild == pc = "wild" /\ ClientsDisjoint /\ OnlyMovedLeaks

-----------------------------------------------------------------------------
(* Arithmetic, and what the tiling says about the list.                    *)

\* Rounding up to a multiple of k adds less than k.
LEMMA RoundUpFacts ==
  ASSUME NEW n \in Nat, NEW k \in Nat \ {0}
  PROVE  RoundUp(n, k) \in Nat /\ n <= RoundUp(n, k) /\ RoundUp(n, k) < n + k
<1> DEFINE q == (n + k - 1) \div k
<1>1. q \in Nat /\ q * k <= n + k - 1 /\ n + k - 1 < q * k + k
  OBVIOUS
<1>2. q * k \in Nat
  BY <1>1
<1> QED
  BY <1>1, <1>2 DEF RoundUp

\* A number that fits a machine word is its own value.
LEMMA U32Facts ==
  ASSUME NEW n \in Nat
  PROVE  U32(n) \in Nat /\ (n < Word => U32(n) = n)
<1>1. Word \in Nat \ {0}
  BY HeapAssumption
<1> QED
  BY <1>1 DEF U32

\* Blocks that have a byte of a caller's part in common are the same.
LEMMA OneBlock ==
  ASSUME Tiled, NEW o \in owned, NEW b \in blocks, NEW c \in blocks,
         Inside(o, b), Inside(o, c)
  PROVE  b = c
<1>1. HeaderSize \in Nat \ {0} /\ b \in Nat /\ c \in Nat /\ o.ptr \in Nat /\ o.len \in Nat
  BY HeapAssumption DEF Tiled, TypeOK
<1>2. size[b] \in Nat /\ size[c] \in Nat
  BY DEF Tiled, TypeOK
<1>3. (b < c => EndOf(b) <= c) /\ (c < b => EndOf(c) <= b)
  BY DEF Tiled
<1> QED
  BY <1>1, <1>2, <1>3 DEF Inside, EndOf

\* The last block has nobody behind it, and the others have their successor there.
LEMMA NextIsBehind ==
  ASSUME Tiled, NEW b \in blocks
  PROVE  /\ next[b] = Null => \A c \in blocks : c <= b
         /\ next[b] # Null => next[b] \in blocks /\ next[b] = EndOf(b) /\ b < next[b]
         /\ \A c \in blocks : b < c => next[b] # Null /\ next[b] <= c
<1>1. HeaderSize \in Nat \ {0} /\ blocks \subseteq Nat /\ heapEnd \in Nat
  BY HeapAssumption DEF Tiled, TypeOK
<1>2. \A c \in blocks : size[c] \in Nat
  BY DEF Tiled, TypeOK
<1>3. \A c \in blocks : c < EndOf(c) /\ EndOf(c) <= heapEnd /\ EndOf(c) \in Nat
  BY <1>1, <1>2 DEF Tiled, EndOf
<1>4. next[b] = IF EndOf(b) = heapEnd THEN Null ELSE EndOf(b)
  BY DEF Tiled
<1>5. next[b] \in blocks \cup {Null}
  BY DEF Tiled, TypeOK
<1>6. \A c \in blocks : b < c => EndOf(b) <= c
  BY DEF Tiled
<1>7. Null \notin Nat
  BY DEF Null
<1> QED
  BY <1>1, <1>3, <1>4, <1>5, <1>6, <1>7

-----------------------------------------------------------------------------
(* The steps.                                                              *)

\* Before kheap_init there is no heap.
LEMMA HeapInit == Init => HeapInv
<1> SUFFICES ASSUME Init PROVE HeapInv
  OBVIOUS
<1>1. Tiled
  <2>1. TypeOK
    <3>1. size \in [blocks -> Nat] /\ free \in [blocks -> BOOLEAN]
      BY DEF Init
    <3>2. next \in [blocks -> blocks \cup {Null}]
      BY DEF Init
    <3>3. frames \in Nat
      BY HeapAssumption DEF Init
    <3>4. /\ blocks \subseteq Nat /\ first \in blocks \cup {Null} /\ cursor \in blocks \cup {Null}
          /\ owned \subseteq [ptr : Nat, len : Nat, aligned : BOOLEAN] /\ lost \subseteq blocks
      BY DEF Init
    <3>5. heapEnd \in Nat /\ total \in Int /\ pc = "boot" /\ want \in Nat /\ asked \in Nat
      BY DEF Init
    <3>6. aligned \in BOOLEAN /\ expanded \in BOOLEAN
      BY Zenon DEF Init
    <3> QED
      BY <3>1, <3>2, <3>3, <3>4, <3>5, <3>6 DEF TypeOK
  <2> QED
    BY <2>1 DEF Init, Tiled
<1>2. CallInv
  BY DEF Init, CallInv
<1>3. OwnerInv /\ MergeInv
  BY DEF Init, OwnerInv, MergeInv
<1> QED
  BY <1>1, <1>2, <1>3 DEF HeapInv

\* kheap_init makes one free block of the initial heap, or nothing.
LEMMA KheapInitStep ==
  ASSUME HeapInv, KheapInit PROVE HeapInv'
<1> USE DEF HeapInv
<1>1. pc = "boot" /\ pc' = "idle" /\ blocks = {} /\ owned = {} /\ lost = {}
  BY DEF KheapInit, CallInv, OwnerInv
<1>2. UNCHANGED <<total, cursor, want, asked, aligned, expanded, owned, lost>>
  BY DEF KheapInit, callVars
<1>3. RoundUp(InitialSize, PageSize) \div PageSize \in Nat
  <2>1. RoundUp(InitialSize, PageSize) \in Nat /\ PageSize \in Nat \ {0}
    BY HeapAssumption, RoundUpFacts
  <2> QED
    BY <2>1
<1>4. CASE UNCHANGED listVars /\ frames' = 0
  <2>1. Tiled'
    BY <1>1, <1>2, <1>4 DEF listVars, Tiled, TypeOK, EndOf
  <2>2. CallInv'
    BY <1>1 DEF CallInv
  <2>3. OwnerInv' /\ MergeInv'
    BY <1>1, <1>2, <1>4 DEF listVars, OwnerInv, MergeInv
  <2> QED
    BY <2>1, <2>2, <2>3
<1>5. CASE ~(UNCHANGED listVars /\ frames' = 0)
  <2>1. /\ frames' = frames - RoundUp(InitialSize, PageSize) \div PageSize
        /\ frames >= RoundUp(InitialSize, PageSize) \div PageSize
        /\ heapEnd' = InitialSize /\ blocks' = {0} /\ first' = 0
        /\ size' = [b \in {0} |-> InitialSize - HeaderSize]
        /\ free' = [b \in {0} |-> TRUE] /\ next' = [b \in {0} |-> Null]
    BY <1>5 DEF KheapInit
  <2>2. TypeOK'
    <3>1. frames' \in Nat
      BY <1>3, <2>1 DEF Tiled, TypeOK
    <3>2. InitialSize - HeaderSize \in Nat
      BY HeapAssumption
    <3>3. cursor = Null
      BY <1>1 DEF Tiled, TypeOK
    <3> QED
      BY <1>1, <1>2, <2>1, <3>1, <3>2, <3>3, HeapAssumption DEF Tiled, TypeOK
  <2>3. Tiled'
    <3>1. EndOf(0)' = heapEnd'
      BY <2>1, HeapAssumption DEF EndOf
    <3> QED
      BY <2>1, <2>2, <3>1, HeapAssumption DEF Tiled, Null
  <2>4. CallInv' /\ OwnerInv' /\ MergeInv'
    BY <1>1, <1>2, <2>1 DEF CallInv, OwnerInv, MergeInv
  <2> QED
    BY <2>3, <2>4
<1> QED
  BY <1>4, <1>5

\* A call starts its search at the first block.
LEMMA StartStep ==
  ASSUME HeapInv, pc = "idle", UNCHANGED <<listVars, total, frames, owned, lost>>,
         pc' = "find", cursor' = first, expanded' = FALSE, aligned' \in BOOLEAN,
         asked' \in Nat, want' \in Nat,
         asked' + (IF aligned' THEN PageSize ELSE 0) <= want',
         RoundUp(want' + HeaderSize, PageSize) < Word
  PROVE  HeapInv'
<1> USE DEF HeapInv, listVars
<1>1. Tiled'
  BY DEF Tiled, TypeOK, EndOf
<1>2. CallInv'
  BY DEF CallInv, RoundUp
<1>3. OwnerInv' /\ MergeInv'
  BY DEF OwnerInv, MergeInv, Inside, EndOf
<1> QED
  BY <1>1, <1>2, <1>3

\* kmalloc, kcalloc and kmalloc_aligned start with a size that did not wrap.
LEMMA KmallocStarts ==
  ASSUME HeapInv, NEW n \in Nat, Demand(n) < Word, Kmalloc(n)
  PROVE  HeapInv'
<1>1. AlignTo \in Nat \ {0} /\ PageSize \in Nat \ {0} /\ HeaderSize \in Nat
  BY HeapAssumption
<1>2. RoundUp(n, AlignTo) \in Nat /\ n <= RoundUp(n, AlignTo)
  BY <1>1, RoundUpFacts
<1>3. RoundUp(n, AlignTo) + HeaderSize <= Demand(n) /\ Demand(n) \in Nat
  BY <1>1, <1>2, RoundUpFacts DEF Demand
<1>4. RoundUp(n, AlignTo) < Word
  BY <1>1, <1>2, <1>3, HeapAssumption
<1>5. want' = RoundUp(n, AlignTo)
  BY <1>2, <1>4, U32Facts DEF Kmalloc
<1>6. asked' = n /\ aligned' = FALSE /\ asked' + (IF aligned' THEN PageSize ELSE 0) <= want'
  BY <1>2, <1>5 DEF Kmalloc
<1>7. RoundUp(want' + HeaderSize, PageSize) < Word
  BY <1>5 DEF Demand
<1> QED
  BY <1>2, <1>5, <1>6, <1>7, StartStep DEF Kmalloc

\* kmalloc_aligned starts its search with a page more than was asked.
LEMMA KmallocAlignedStarts ==
  ASSUME HeapInv, NEW n \in Nat, Demand(n + PageSize) < Word, KmallocAligned(n)
  PROVE  HeapInv'
<1>1. AlignTo \in Nat \ {0} /\ PageSize \in Nat \ {0} /\ HeaderSize \in Nat
  BY HeapAssumption
<1> DEFINE m == n + PageSize
<1>2. m \in Nat /\ RoundUp(m, AlignTo) \in Nat /\ m <= RoundUp(m, AlignTo)
  <2>1. m \in Nat
    BY <1>1
  <2> QED
    BY <1>1, <2>1, RoundUpFacts
<1>3. RoundUp(m, AlignTo) + HeaderSize <= Demand(m) /\ Demand(m) \in Nat
  BY <1>1, <1>2, RoundUpFacts DEF Demand
<1>4. RoundUp(m, AlignTo) < Word /\ m < Word
  BY <1>1, <1>2, <1>3, HeapAssumption
<1>5. want' = RoundUp(m, AlignTo)
  BY <1>2, <1>4, U32Facts DEF KmallocAligned
<1>6. asked' = n /\ aligned' = TRUE /\ asked' + (IF aligned' THEN PageSize ELSE 0) <= want'
  BY <1>2, <1>5 DEF KmallocAligned
<1>7. RoundUp(want' + HeaderSize, PageSize) < Word
  BY <1>5 DEF Demand
<1> QED
  BY <1>2, <1>5, <1>6, <1>7, StartStep DEF KmallocAligned

\* find_free_block stops at a block that fits, or goes on to the next; it does not
\* pass the block that an extension has made.
LEMMA FindStepKeeps ==
  ASSUME HeapInv, FindStep PROVE HeapInv'
<1> USE DEF HeapInv
<1>1. /\ pc = "find" /\ cursor \in blocks
      /\ UNCHANGED <<blocks, size, free, next, first, heapEnd, total, frames, want, asked,
                     aligned, expanded, owned, lost>>
  BY DEF FindStep, listVars, callVars, Tiled, TypeOK
<1>2. OwnerInv'
  BY <1>1 DEF OwnerInv, Inside, EndOf
<1>3. CASE Fits(cursor)
  <2>1. pc' = "take" /\ cursor' = cursor
    BY <1>3 DEF FindStep
  <2>2. Tiled'
    BY <1>1, <2>1 DEF Tiled, TypeOK, EndOf
  <2>3. CallInv' /\ MergeInv'
    BY <1>1, <1>3, <2>1 DEF CallInv, MergeInv, Fits, RoundUp
  <2> QED
    BY <1>2, <2>2, <2>3
<1>4. CASE ~Fits(cursor)
  <2>1. pc' = "find" /\ cursor' = next[cursor]
    BY <1>1, <1>4 DEF FindStep
  <2>2. next[cursor] \in blocks \cup {Null}
    BY <1>1 DEF Tiled, TypeOK
  <2>3. Tiled'
    BY <1>1, <2>1, <2>2 DEF Tiled, TypeOK, EndOf
  <2>4. expanded => cursor' # Null /\ \E b \in blocks : cursor' <= b /\ free[b] /\ size[b] >= want
    <3> SUFFICES ASSUME expanded
                 PROVE  next[cursor] # Null
                        /\ \E b \in blocks : next[cursor] <= b /\ free[b] /\ size[b] >= want
      BY <2>1
    <3>1. PICK b \in blocks : cursor <= b /\ free[b] /\ size[b] >= want
      BY <1>1 DEF CallInv
    <3>2. cursor # b
      BY <1>4, <3>1 DEF Fits
    <3>3. cursor < b
      BY <1>1, <3>1, <3>2 DEF Tiled, TypeOK
    <3>4. next[cursor] # Null /\ next[cursor] <= b
      BY <1>1, <3>3, NextIsBehind
    <3> QED
      BY <3>1, <3>4
  <2>5. CallInv'
    BY <1>1, <2>1, <2>4 DEF CallInv, RoundUp
  <2>6. MergeInv'
    BY <1>1, <2>1 DEF MergeInv
  <2> QED
    BY <1>2, <2>3, <2>5, <2>6
<1> QED
  BY <1>3, <1>4

\* A call that fails, or that merged up to the end, leaves no trace in the list.
LEMMA ReturnStep ==
  ASSUME HeapInv, Return, UNCHANGED <<listVars, owned, lost>>, pc # "boot",
         total' \in Int, frames' \in Nat,
         \A b \in blocks : free[b] /\ next[b] # Null => ~free[next[b]]
  PROVE  HeapInv'
<1> USE DEF HeapInv, Return, listVars
<1>1. Tiled'
  BY DEF Tiled, TypeOK, EndOf
<1>2. CallInv'
  BY DEF CallInv
<1>3. OwnerInv'
  BY DEF OwnerInv, Inside, EndOf
<1>4. MergeInv'
  BY DEF MergeInv
<1> QED
  BY <1>1, <1>2, <1>3, <1>4

\* A search that ends without memory leaves the heap as it was.
LEMMA OutOfMemoryKeeps ==
  ASSUME HeapInv, OutOfMemory PROVE HeapInv'
<1>1. pc = "find" /\ frames' \in Nat /\ total' \in Int
  BY DEF OutOfMemory, HeapInv, Tiled, TypeOK
<1>2. \A b \in blocks : free[b] /\ next[b] # Null => ~free[next[b]]
  BY <1>1 DEF HeapInv, MergeInv
<1> QED
  BY <1>1, <1>2, ReturnStep DEF OutOfMemory

\* heap_expand makes the last block larger or appends one behind it; either fits
\* the call, and the search that starts again has it ahead.
LEMMA HeapExpandKeeps ==
  ASSUME HeapInv, HeapExpand PROVE HeapInv'
<1> USE DEF HeapInv
<1>1. /\ pc = "find" /\ pc' = "find" /\ expanded' = TRUE /\ cursor' = first
      /\ heapEnd' = heapEnd + ExpandSize
      /\ frames >= ExpandSize \div PageSize /\ frames' = frames - ExpandSize \div PageSize
      /\ UNCHANGED <<first, total, want, asked, aligned, owned, lost>>
  BY DEF HeapExpand
<1>2. /\ HeaderSize \in Nat \ {0} /\ PageSize \in Nat \ {0} /\ want \in Nat
      /\ heapEnd \in Nat /\ blocks \subseteq Nat /\ Null \notin Nat
  BY HeapAssumption DEF Tiled, TypeOK, Null
<1>3. ExpandSize \in Nat /\ ExpandSize >= want + HeaderSize
  <2>1. RoundUp(want + HeaderSize, PageSize) < Word
    BY <1>1 DEF CallInv
  <2>2. /\ want + HeaderSize \in Nat /\ RoundUp(want + HeaderSize, PageSize) \in Nat
        /\ want + HeaderSize <= RoundUp(want + HeaderSize, PageSize)
    <3>1. want + HeaderSize \in Nat
      BY <1>2
    <3> QED
      BY <1>2, <3>1, RoundUpFacts
  <2>3. U32(want + HeaderSize) = want + HeaderSize
    BY <2>1, <2>2, U32Facts, HeapAssumption
  <2>4. ExpandSize = RoundUp(want + HeaderSize, PageSize)
    BY <2>1, <2>2, <2>3, U32Facts DEF ExpandSize
  <2> QED
    BY <2>2, <2>4
<1>4. frames' \in Nat
  <2>1. ExpandSize \div PageSize \in Nat
    BY <1>2, <1>3
  <2> QED
    BY <1>1, <2>1 DEF Tiled, TypeOK
<1>5. PICK last \in blocks :
        /\ next[last] = Null
        /\ IF free[last]
           THEN /\ size' = [size EXCEPT ![last] = @ + ExpandSize]
                /\ UNCHANGED <<blocks, free, next>>
           ELSE /\ blocks' = blocks \cup {heapEnd}
                /\ size' = [b \in blocks' |-> IF b = heapEnd THEN NewBlockSize(ExpandSize)
                                              ELSE size[b]]
                /\ free' = [b \in blocks' |-> IF b = heapEnd THEN TRUE ELSE free[b]]
                /\ next' = [b \in blocks' |-> IF b = heapEnd THEN NewBlockNext
                                              ELSE IF b = last THEN heapEnd ELSE next[b]]
  BY DEF HeapExpand
<1>6. \A c \in blocks : c <= last
  BY <1>5, NextIsBehind
<1>7. /\ \A b \in blocks : size[b] \in Nat /\ EndOf(b) \in Nat /\ EndOf(b) <= heapEnd
      /\ \A b \in blocks : next[b] \in blocks \cup {Null}
      /\ \A b \in blocks : next[b] = IF EndOf(b) = heapEnd THEN Null ELSE EndOf(b)
      /\ \A b, c \in blocks : b < c => EndOf(b) <= c
  BY <1>2 DEF Tiled, TypeOK, EndOf
<1>8. EndOf(last) = heapEnd /\ last < heapEnd
  <2>1. EndOf(last) = heapEnd
    BY <1>2, <1>5, <1>7
  <2> QED
    BY <1>2, <1>7, <2>1 DEF EndOf
<1>9. \A b \in blocks : b # last => EndOf(b) # heapEnd /\ b < last /\ EndOf(b) <= last
  BY <1>2, <1>6, <1>7, <1>8
<1>10. first = 0 /\ 0 \in blocks
  BY DEF Tiled
<1>11. CASE free[last]
  <2>1. /\ blocks' = blocks /\ free' = free /\ next' = next /\ size' \in [blocks -> Nat]
        /\ \A b \in blocks : size'[b] = IF b = last THEN size[b] + ExpandSize ELSE size[b]
    <3>1. size \in [blocks -> Nat]
      BY DEF Tiled, TypeOK
    <3> QED
      BY <1>3, <1>5, <1>11, <3>1
  <2>2. \A b \in blocks : EndOf(b)' = IF b = last THEN heapEnd' ELSE EndOf(b)
    BY <1>1, <1>2, <1>3, <1>7, <1>8, <2>1 DEF EndOf
  <2>3. TypeOK'
    BY <1>1, <1>3, <1>4, <1>10, <2>1 DEF Tiled, TypeOK
  <2>4. Tiled'
    <3>1. \A b \in blocks :
            /\ EndOf(b)' <= heapEnd'
            /\ next[b] = IF EndOf(b)' = heapEnd' THEN Null ELSE EndOf(b)'
            /\ \A c \in blocks : b < c => EndOf(b)' <= c
      BY <1>1, <1>2, <1>3, <1>5, <1>6, <1>7, <1>9, <2>2
    <3> QED
      BY <1>1, <1>10, <2>1, <2>3, <3>1 DEF Tiled
  <2>5. CallInv'
    <3>1. 0 <= last /\ size'[last] >= want
      BY <1>2, <1>3, <1>7, <2>1
    <3> QED
      BY <1>1, <1>2, <1>10, <1>11, <2>1, <3>1 DEF CallInv, RoundUp
  <2>6. OwnerInv'
    <3>1. \A o \in owned, b \in blocks : Inside(o, b) => b # last
      BY <1>11, OneBlock DEF OwnerInv
    <3>2. \A o \in owned, b \in blocks : b # last => (Inside(o, b)' <=> Inside(o, b))
      BY <1>1, <2>2 DEF Inside
    <3>3. \A o \in owned : ~Inside(o, last)'
      <4> SUFFICES ASSUME NEW o \in owned, Inside(o, last)' PROVE FALSE
        OBVIOUS
      <4>1. PICK b \in blocks : Inside(o, b) /\ ~free[b]
        BY DEF OwnerInv
      <4>2. b # last
        BY <3>1, <4>1
      <4>3. o.ptr + o.len <= last /\ last + HeaderSize <= o.ptr
        <5>1. EndOf(b) <= last /\ o.ptr + o.len <= EndOf(b)
          BY <1>9, <4>1, <4>2 DEF Inside
        <5>2. o.ptr \in Nat /\ o.len \in Nat
          BY DEF Tiled, TypeOK
        <5> QED
          BY <1>2, <1>7, <5>1, <5>2 DEF Inside
      <4>4. o.ptr \in Nat /\ o.len \in Nat
        BY DEF Tiled, TypeOK
      <4> QED
        BY <1>2, <4>3, <4>4
    <3> QED
      BY <1>1, <1>11, <2>1, <3>1, <3>2, <3>3 DEF OwnerInv
  <2>7. MergeInv'
    BY <1>1, <2>1 DEF MergeInv
  <2> QED
    BY <2>4, <2>5, <2>6, <2>7
<1>12. CASE ~free[last]
  <2>0. PICK at \in Nat : at = heapEnd
    BY <1>2
  <2>1. /\ blocks' = blocks \cup {at} /\ at \notin blocks
        /\ size' = [b \in blocks' |-> IF b = at THEN ExpandSize - HeaderSize ELSE size[b]]
        /\ free' = [b \in blocks' |-> IF b = at THEN TRUE ELSE free[b]]
        /\ next' = [b \in blocks' |-> IF b = at THEN Null
                                      ELSE IF b = last THEN at ELSE next[b]]
    <3>1. at \notin blocks
      BY <1>2, <1>6, <1>8, <2>0
    <3> QED
      BY <1>5, <1>12, <2>0, <3>1 DEF NewBlockSize, NewBlockNext
  <2>2. /\ size' \in [blocks' -> Nat] /\ free' \in [blocks' -> BOOLEAN]
        /\ next' \in [blocks' -> blocks' \cup {Null}]
    <3>1. ExpandSize - HeaderSize \in Nat
      BY <1>2, <1>3
    <3>2. \A b \in blocks : free[b] \in BOOLEAN
      BY DEF Tiled, TypeOK
    <3> QED
      BY <1>7, <2>1, <3>1, <3>2
  <2>3. /\ EndOf(at)' = heapEnd'
        /\ \A b \in blocks : EndOf(b)' = EndOf(b)
    <3>1. size'[at] = ExpandSize - HeaderSize /\ \A b \in blocks : size'[b] = size[b]
      BY <2>1
    <3> QED
      BY <1>1, <1>2, <1>3, <2>0, <3>1 DEF EndOf
  <2>4. TypeOK'
    <3>1. blocks' \subseteq Nat /\ first' \in blocks' \cup {Null} /\ cursor' \in blocks' \cup {Null}
      BY <1>1, <1>2, <1>10, <2>1
    <3>2. heapEnd' \in Nat
      BY <1>1, <1>2, <1>3
    <3>3. expanded' \in BOOLEAN /\ lost' \subseteq blocks'
      BY <1>1, <2>1, Zenon DEF Tiled, TypeOK
    <3> QED
      BY <1>1, <1>4, <2>2, <3>1, <3>2, <3>3 DEF Tiled, TypeOK
  <2>5. Tiled'
    <3>1. \A b \in blocks' :
            /\ EndOf(b)' <= heapEnd'
            /\ next'[b] = IF EndOf(b)' = heapEnd' THEN Null ELSE EndOf(b)'
      <4>1. \A b \in blocks : EndOf(b) < heapEnd'
        BY <1>1, <1>2, <1>3, <1>7
      <4> QED
        BY <1>1, <1>2, <1>3, <1>7, <1>8, <1>9, <2>0, <2>1, <2>3, <4>1
    <3>2. \A b, c \in blocks' : b < c => EndOf(b)' <= c
      <4>1. \A b \in blocks : b < heapEnd
        BY <1>2, <1>6, <1>8
      <4> QED
        BY <1>2, <1>7, <2>0, <2>1, <2>3, <4>1
    <3> QED
      BY <1>1, <1>10, <2>1, <2>4, <3>1, <3>2 DEF Tiled
  <2>6. CallInv'
    <3>1. size'[at] >= want /\ free'[at] /\ at \in blocks' /\ 0 <= at
      BY <1>2, <1>3, <2>1
    <3> QED
      BY <1>1, <1>2, <1>10, <3>1 DEF CallInv, RoundUp
  <2>7. OwnerInv'
    <3>1. \A o \in owned, b \in blocks : Inside(o, b)' <=> Inside(o, b)
      BY <1>1, <2>3 DEF Inside
    <3>2. \A o \in owned : ~Inside(o, at)'
      <4> SUFFICES ASSUME NEW o \in owned, at + HeaderSize <= o.ptr PROVE FALSE
        BY DEF Inside
      <4>1. PICK b \in blocks : o.ptr + o.len <= EndOf(b)
        BY DEF OwnerInv, Inside
      <4>2. o.ptr \in Nat /\ o.len \in Nat
        BY DEF Tiled, TypeOK
      <4> QED
        BY <1>2, <1>7, <2>0, <4>1, <4>2
    <3>3. \A b \in blocks : free'[b] = free[b]
      BY <2>1
    <3>4. free'[at] /\ at \notin lost
      BY <2>1 DEF OwnerInv
    <3>5. (\A o \in owned : \E b \in blocks \ lost : Inside(o, b) /\ ~free[b])'
      BY <1>1, <2>1, <3>1, <3>3 DEF OwnerInv
    <3>6. (\A b \in blocks, o, p \in owned : Inside(o, b) /\ Inside(p, b) => o = p)'
      BY <1>1, <2>1, <3>1, <3>2 DEF OwnerInv
    <3>7. (\A b \in lost : b \in blocks /\ ~free[b])'
      BY <1>1, <2>1, <3>3 DEF OwnerInv
    <3>8. (\A b \in blocks \ lost : ~free[b] => \E o \in owned : Inside(o, b))'
      BY <1>1, <2>1, <3>1, <3>3, <3>4 DEF OwnerInv
    <3> QED
      BY <3>5, <3>6, <3>7, <3>8 DEF OwnerInv
  <2>8. MergeInv'
    <3>1. \A b \in blocks : b # last => next'[b] = next[b] /\ free'[b] = free[b]
      BY <2>1
    <3>2. free'[last] = FALSE /\ next'[at] = Null
      BY <1>8, <1>12, <2>0, <2>1 DEF Tiled, TypeOK
    <3>3. \A b \in blocks : b # last /\ next[b] # Null => free'[next[b]] = free[next[b]]
      BY <1>7, <2>1
    <3> QED
      BY <1>1, <2>1, <3>1, <3>2, <3>3 DEF MergeInv
  <2> QED
    BY <2>5, <2>6, <2>7, <2>8
<1> QED
  BY <1>11, <1>12

\* kmalloc has its block: the rest, if it is split off, is a free block without
\* anybody inside, and the new caller is the only one in the block.
LEMMA TakeKeeps ==
  ASSUME HeapInv, Take PROVE HeapInv'
<1> USE DEF HeapInv
<1>1. PICK c \in blocks : c = cursor
  BY DEF Take, CallInv
<1>2. /\ pc = "take" /\ free[c] /\ size[c] >= want /\ c \in Nat
      /\ asked + (IF aligned THEN PageSize ELSE 0) <= want
  BY <1>1 DEF Take, CallInv, Tiled, TypeOK
<1>3. Return /\ UNCHANGED <<first, heapEnd, frames, lost>>
  BY DEF Take
<1>4. /\ HeaderSize \in Nat \ {0} /\ PageSize \in Nat \ {0} /\ MinRest \in Nat
      /\ want \in Nat /\ asked \in Nat /\ aligned \in BOOLEAN
      /\ heapEnd \in Nat /\ blocks \subseteq Nat /\ Null \notin Nat
  BY HeapAssumption DEF Tiled, TypeOK, Null
<1>5. /\ \A b \in blocks : size[b] \in Nat /\ EndOf(b) \in Nat /\ EndOf(b) <= heapEnd
      /\ \A b \in blocks : free[b] \in BOOLEAN /\ next[b] \in blocks \cup {Null}
      /\ \A b \in blocks : next[b] = IF EndOf(b) = heapEnd THEN Null ELSE EndOf(b)
      /\ \A b, d \in blocks : b < d => EndOf(b) <= d
  BY <1>4 DEF Tiled, TypeOK, EndOf
<1>6. \A o \in owned : ~Inside(o, c)
  BY <1>2, OneBlock DEF OwnerInv
<1>7. \A o \in owned : o.ptr \in Nat /\ o.len \in Nat
  BY DEF Tiled, TypeOK
<1>8. \A b \in blocks : free[b] /\ next[b] # Null => ~free[next[b]]
  BY <1>2 DEF MergeInv
<1>9. PICK new \in [ptr : Nat, len : Nat, aligned : BOOLEAN] :
        /\ owned' = owned \cup {new}
        /\ c + HeaderSize <= new.ptr /\ new.ptr + new.len <= c + HeaderSize + want
  <2> DEFINE p == IF aligned THEN RoundUp(c + HeaderSize, PageSize) ELSE c + HeaderSize
             o == [ptr |-> p, len |-> asked, aligned |-> aligned]
  <2>1. c + HeaderSize \in Nat
    BY <1>2, <1>4
  <2>2. /\ RoundUp(c + HeaderSize, PageSize) \in Nat
        /\ c + HeaderSize <= RoundUp(c + HeaderSize, PageSize)
        /\ RoundUp(c + HeaderSize, PageSize) < c + HeaderSize + PageSize
    BY <1>4, <2>1, RoundUpFacts
  <2>3. p \in Nat /\ c + HeaderSize <= p /\ p + asked <= c + HeaderSize + want
    <3>1. CASE aligned
      BY <1>2, <1>4, <2>1, <2>2, <3>1
    <3>2. CASE ~aligned
      BY <1>2, <1>4, <2>1, <3>2
    <3> QED
      BY <3>1, <3>2
  <2>4. o \in [ptr : Nat, len : Nat, aligned : BOOLEAN] /\ o.ptr = p /\ o.len = asked
    BY <1>4, <2>3
  <2>5. owned' = owned \cup {o}
    BY <1>1 DEF Take
  <2> HIDE DEF p, o
  <2> QED
    BY <2>3, <2>4, <2>5
<1>10. new.ptr \in Nat /\ new.len \in Nat
  OBVIOUS
<1>11. CASE ~Splits(c)
  <2>1. UNCHANGED <<blocks, size, next>> /\ free' = [free EXCEPT ![c] = FALSE]
    BY <1>1, <1>11 DEF Take
  <2>2. \A b \in blocks : free'[b] = IF b = c THEN FALSE ELSE free[b]
    BY <2>1 DEF Tiled, TypeOK
  <2>3. \A b \in blocks : EndOf(b)' = EndOf(b)
    BY <2>1 DEF EndOf
  <2>4. total' \in Int
    BY <1>1, <1>5, <2>1 DEF Take, Counted, Tiled, TypeOK
  <2>5. TypeOK'
    BY <1>3, <1>9, <2>1, <2>4 DEF Tiled, TypeOK, Return
  <2>6. Tiled'
    BY <1>3, <2>1, <2>3, <2>5 DEF Tiled
  <2>7. Inside(new, c)' /\ \A o \in owned, b \in blocks : Inside(o, b)' <=> Inside(o, b)
    BY <1>2, <1>4, <1>5, <1>9, <1>10, <2>1 DEF Inside, EndOf
  <2>8. \A b \in blocks : Inside(new, b)' => b = c
    <3> SUFFICES ASSUME NEW b \in blocks, Inside(new, b)', b # c PROVE FALSE
      OBVIOUS
    <3>1. b + HeaderSize <= new.ptr /\ new.ptr + new.len <= EndOf(b)
      BY <2>3 DEF Inside
    <3>2. new.ptr + new.len <= EndOf(c)
      BY <1>2, <1>4, <1>5, <1>9, <1>10 DEF EndOf
    <3> QED
      BY <1>2, <1>4, <1>5, <1>9, <1>10, <3>1, <3>2
  <2>9. OwnerInv'
    <3>1. c \notin lost
      BY <1>2 DEF OwnerInv
    <3>2. (\A o \in owned : \E b \in blocks \ lost : Inside(o, b) /\ ~free[b])'
      BY <1>3, <1>9, <2>1, <2>2, <2>7, <3>1 DEF OwnerInv
    <3>3. (\A b \in blocks, o, q \in owned : Inside(o, b) /\ Inside(q, b) => o = q)'
      BY <1>6, <1>9, <2>1, <2>7, <2>8 DEF OwnerInv
    <3>4. (\A b \in lost : b \in blocks /\ ~free[b])'
      BY <1>3, <2>1, <2>2 DEF OwnerInv
    <3>5. (\A b \in blocks \ lost : ~free[b] => \E o \in owned : Inside(o, b))'
      BY <1>3, <1>9, <2>1, <2>2, <2>7 DEF OwnerInv
    <3> QED
      BY <3>2, <3>3, <3>4, <3>5 DEF OwnerInv
  <2>10. MergeInv' /\ CallInv'
    BY <1>3, <1>5, <1>8, <2>1, <2>2 DEF MergeInv, CallInv, Return
  <2> QED
    BY <2>6, <2>9, <2>10
<1>12. CASE Splits(c)
  <2>1. PICK rest \in Nat : rest = c + HeaderSize + want
    BY <1>2, <1>4
  <2>2. size[c] >= want + HeaderSize + MinRest /\ rest + HeaderSize <= EndOf(c) /\ c < rest
    BY <1>4, <1>5, <1>12, <2>1 DEF Splits, EndOf
  <2>3. rest \notin blocks
    BY <1>4, <1>5, <2>2
  <2>4. /\ blocks' = blocks \cup {rest}
        /\ size' = [b \in blocks' |-> CASE b = c -> want
                                        [] b = rest -> size[c] - want - HeaderSize
                                        [] OTHER -> size[b]]
        /\ free' = [b \in blocks' |-> CASE b = c -> FALSE
                                        [] b = rest -> TRUE
                                        [] OTHER -> free[b]]
        /\ next' = [b \in blocks' |-> CASE b = c -> rest
                                        [] b = rest -> next[c]
                                        [] OTHER -> next[b]]
    BY ZenonT(60), <1>1, <1>12, <2>1 DEF Take, RestFree
  <2>5. /\ size'[c] = want /\ size'[rest] = size[c] - want - HeaderSize
        /\ free'[c] = FALSE /\ free'[rest] = TRUE
        /\ next'[c] = rest /\ next'[rest] = next[c]
    BY <2>2, <2>3, <2>4
  <2>6. \A b \in blocks : b # c =>
          size'[b] = size[b] /\ free'[b] = free[b] /\ next'[b] = next[b]
    BY <2>3, <2>4
  <2>7. /\ EndOf(c)' = rest /\ EndOf(rest)' = EndOf(c)
        /\ \A b \in blocks : b # c => EndOf(b)' = EndOf(b)
    BY <1>2, <1>4, <1>5, <2>1, <2>5, <2>6 DEF EndOf
  <2>8. TypeOK'
    <3>1. size' \in [blocks' -> Nat]
      <4>1. size[c] - want - HeaderSize \in Nat
        BY <1>4, <1>5, <2>2
      <4> QED
        BY <1>4, <1>5, <2>4, <4>1
    <3>2. free' \in [blocks' -> BOOLEAN]
      BY <1>5, <2>4
    <3>3. next' \in [blocks' -> blocks' \cup {Null}]
      BY <1>5, <2>4
    <3>4. total' \in Int
      BY <1>1, <1>4, <2>5 DEF Take, Counted, Tiled, TypeOK
    <3>5. blocks' \subseteq Nat /\ lost' \subseteq blocks' /\ first' \in blocks' \cup {Null}
      BY <1>3, <1>4, <2>4 DEF Tiled, TypeOK
    <3> QED
      BY <1>3, <1>9, <3>1, <3>2, <3>3, <3>4, <3>5 DEF Tiled, TypeOK, Return
  <2>9. Tiled'
    <3>1. \A b \in blocks' : EndOf(b)' <= heapEnd'
      BY <1>3, <1>4, <1>5, <2>1, <2>2, <2>4, <2>7
    <3>2. \A b \in blocks' : next'[b] = IF EndOf(b)' = heapEnd' THEN Null ELSE EndOf(b)'
      <4>1. rest # heapEnd
        BY <1>4, <1>5, <2>1, <2>2
      <4> QED
        BY <1>3, <1>5, <2>4, <2>5, <2>6, <2>7, <4>1
    <3>3. \A b, d \in blocks' : b < d => EndOf(b)' <= d
      <4> SUFFICES ASSUME NEW b \in blocks', NEW d \in blocks', b < d PROVE EndOf(b)' <= d
        OBVIOUS
      <4>1. CASE b = c
        BY <1>4, <1>5, <2>1, <2>2, <2>4, <2>7, <4>1
      <4>2. CASE b = rest
        BY <1>4, <1>5, <2>1, <2>2, <2>4, <2>7, <4>2
      <4>3. CASE b # c /\ b # rest
        BY <1>4, <1>5, <2>1, <2>2, <2>4, <2>7, <4>3
      <4> QED
        BY <4>1, <4>2, <4>3
    <3> QED
      BY <1>3, <2>4, <2>8, <3>1, <3>2, <3>3 DEF Tiled
  <2>10. \A o \in owned, b \in blocks : b # c => (Inside(o, b)' <=> Inside(o, b))
    BY <2>7 DEF Inside
  <2>11. \A o \in owned : ~Inside(o, c)' /\ ~Inside(o, rest)'
    <3> SUFFICES ASSUME NEW o \in owned, Inside(o, c)' \/ Inside(o, rest)'
                 PROVE  Inside(o, c)
      BY <1>6
    <3> QED
      BY <1>2, <1>4, <1>5, <1>7, <2>1, <2>2, <2>7 DEF Inside
  <2>12. Inside(new, c)' /\ ~Inside(new, rest)'
    BY <1>2, <1>4, <1>9, <1>10, <2>1, <2>7 DEF Inside
  <2>13. \A b \in blocks : Inside(new, b)' => b = c
    <3> SUFFICES ASSUME NEW b \in blocks, Inside(new, b)', b # c PROVE FALSE
      OBVIOUS
    <3>1. b + HeaderSize <= new.ptr /\ new.ptr + new.len <= EndOf(b)
      BY <2>7 DEF Inside
    <3>2. new.ptr + new.len <= EndOf(c)
      BY <1>2, <1>4, <1>5, <1>9, <1>10 DEF EndOf
    <3> QED
      BY <1>2, <1>4, <1>5, <1>9, <1>10, <3>1, <3>2
  <2>14. OwnerInv'
    <3>1. c \notin lost /\ rest \notin lost
      BY <1>2, <2>3 DEF OwnerInv
    <3>2. (\A o \in owned : \E b \in blocks \ lost : Inside(o, b) /\ ~free[b])'
      <4>1. \A o \in owned : \E b \in blocks \ lost : b # c /\ Inside(o, b) /\ ~free[b]
        BY <1>2 DEF OwnerInv
      <4> QED
        BY <1>3, <1>9, <2>4, <2>5, <2>6, <2>10, <2>12, <3>1, <4>1
    <3>3. (\A b \in blocks, o, q \in owned : Inside(o, b) /\ Inside(q, b) => o = q)'
      BY <1>9, <2>4, <2>10, <2>11, <2>12, <2>13 DEF OwnerInv
    <3>4. (\A b \in lost : b \in blocks /\ ~free[b])'
      BY <1>3, <2>4, <2>6, <3>1 DEF OwnerInv
    <3>5. (\A b \in blocks \ lost : ~free[b] => \E o \in owned : Inside(o, b))'
      BY <1>3, <1>9, <2>4, <2>5, <2>6, <2>10, <2>12 DEF OwnerInv
    <3> QED
      BY <3>2, <3>3, <3>4, <3>5 DEF OwnerInv
  <2>15. MergeInv' /\ CallInv'
    <3>1. next[c] # Null => next[c] \in blocks /\ ~free[next[c]] /\ next[c] # c
      BY <1>2, <1>5, <1>8
    <3>2. \A b \in blocks : b # c /\ next[b] # Null => next[b] \in blocks
      BY <1>5
    <3>3. \A b \in blocks' : free'[b] /\ next'[b] # Null => ~free'[next'[b]]
      BY <1>5, <1>8, <2>4, <2>5, <2>6, <3>1, <3>2
    <3> QED
      BY <1>3, <3>3 DEF MergeInv, CallInv, Return
  <2> QED
    BY <2>9, <2>14, <2>15
<1> QED
  BY <1>11, <1>12

\* kfree marks the block of its caller, whose header lies in front of the pointer,
\* and merging starts over.
LEMMA KfreeKeeps ==
  ASSUME HeapInv, NEW o \in owned, Kfree(o) PROVE HeapInv'
<1> USE DEF HeapInv
<1>1. PICK b \in blocks : b = o.ptr - HeaderSize
  BY DEF Kfree
<1>2. /\ pc = "idle" /\ owned' = owned \ {o}
      /\ UNCHANGED <<blocks, size, next, first, heapEnd, frames, want, asked, aligned,
                     expanded, lost>>
  BY DEF Kfree, callVars
<1>3. /\ HeaderSize \in Nat \ {0} /\ o.ptr \in Nat /\ o.len \in Nat /\ blocks \subseteq Nat
      /\ \A d \in blocks : size[d] \in Nat /\ free[d] \in BOOLEAN
  BY HeapAssumption DEF Tiled, TypeOK
<1>4. Inside(o, b) /\ ~free[b] /\ b \notin lost
  <2>1. PICK d \in blocks \ lost : Inside(o, d) /\ ~free[d]
    BY DEF OwnerInv
  <2>2. d + HeaderSize <= b + HeaderSize /\ b + HeaderSize <= EndOf(d)
    BY <1>1, <1>3, <2>1 DEF Inside, EndOf
  <2>3. d < b => EndOf(d) <= b
    BY DEF Tiled
  <2>4. d = b
    BY <1>3, <2>2, <2>3 DEF EndOf
  <2> QED
    BY <2>1, <2>4
<1>5. free' = [free EXCEPT ![b] = TRUE] /\ total' = total - size[b] /\ cursor' = first
      /\ pc' = "merge"
  BY <1>1, <1>4 DEF Kfree, MergeFrom
<1>6. first = 0 /\ 0 \in blocks
  BY DEF Tiled
<1>7. \A d \in blocks : free'[d] = IF d = b THEN TRUE ELSE free[d]
  BY <1>5 DEF Tiled, TypeOK
<1>8. \A d \in blocks : EndOf(d)' = EndOf(d)
  BY <1>2 DEF EndOf
<1>9. TypeOK'
  <2>1. total' \in Int /\ free' \in [blocks -> BOOLEAN]
    BY <1>3, <1>5 DEF Tiled, TypeOK
  <2> QED
    BY <1>2, <1>5, <1>6, <2>1 DEF Tiled, TypeOK
<1>10. Tiled'
  BY <1>2, <1>8, <1>9 DEF Tiled
<1>11. CallInv'
  BY <1>5 DEF CallInv
<1>12. OwnerInv'
  <2>1. \A q \in owned, d \in blocks : Inside(q, d)' <=> Inside(q, d)
    BY <1>8 DEF Inside
  <2>2. \A q \in owned : q # o => ~Inside(q, b)
    BY <1>4 DEF OwnerInv
  <2>3. (\A q \in owned : \E d \in blocks \ lost : Inside(q, d) /\ ~free[d])'
    <3> SUFFICES ASSUME NEW q \in owned, q # o
                 PROVE  \E d \in blocks \ lost : Inside(q, d)' /\ ~free'[d]
      BY <1>2
    <3>1. PICK d \in blocks \ lost : Inside(q, d) /\ ~free[d]
      BY DEF OwnerInv
    <3> QED
      BY <1>7, <2>1, <2>2, <3>1
  <2>4. (\A d \in blocks, q, r \in owned : Inside(q, d) /\ Inside(r, d) => q = r)'
    BY <1>2, <2>1 DEF OwnerInv
  <2>5. (\A d \in lost : d \in blocks /\ ~free[d])'
    BY <1>2, <1>4, <1>7 DEF OwnerInv
  <2>6. (\A d \in blocks \ lost : ~free[d] => \E q \in owned : Inside(q, d))'
    <3> SUFFICES ASSUME NEW d \in blocks \ lost, ~free'[d]
                 PROVE  \E q \in owned' : Inside(q, d)'
      BY <1>2
    <3>1. d # b /\ ~free[d]
      BY <1>7
    <3>2. PICK q \in owned : Inside(q, d)
      BY <3>1 DEF OwnerInv
    <3>3. q # o
      BY <1>4, <3>1, <3>2, OneBlock
    <3> QED
      BY <1>2, <2>1, <3>2, <3>3
  <2> QED
    BY <2>3, <2>4, <2>5, <2>6 DEF OwnerInv
<1>13. MergeInv'
  BY <1>2, <1>3, <1>5, <1>6 DEF MergeInv
<1> QED
  BY <1>10, <1>11, <1>12, <1>13

\* kfree of a moved pointer touches no header: its block is lost.
LEMMA KfreeMovedKeeps ==
  ASSUME HeapInv, NEW o \in owned, KfreeMoved(o) PROVE HeapInv'
<1> USE DEF HeapInv
<1>1. PICK h \in blocks : /\ h < o.ptr - HeaderSize /\ o.ptr <= EndOf(h)
                          /\ lost' = lost \cup {h}
  BY DEF KfreeMoved
<1>2. /\ pc = "idle" /\ owned' = owned \ {o}
      /\ UNCHANGED <<blocks, size, free, next, first, heapEnd, frames, want, asked, aligned,
                     expanded>>
      /\ total' \in {total, total - 1}
      /\ (pc' = "idle" /\ cursor' = cursor) \/ (pc' = "merge" /\ cursor' = first)
  BY DEF KfreeMoved, callVars, listVars
<1>3. /\ HeaderSize \in Nat \ {0} /\ o.ptr \in Nat /\ o.len \in Nat /\ blocks \subseteq Nat
      /\ \A d \in blocks : size[d] \in Nat /\ free[d] \in BOOLEAN
  BY HeapAssumption DEF Tiled, TypeOK
<1>4. Inside(o, h) /\ ~free[h]
  <2>1. PICK d \in blocks \ lost : Inside(o, d) /\ ~free[d]
    BY DEF OwnerInv
  <2>2. d + HeaderSize <= o.ptr /\ o.ptr <= EndOf(d)
    BY <1>3, <2>1 DEF Inside, EndOf
  <2>3. (d < h => EndOf(d) <= h) /\ (h < d => EndOf(h) <= d)
    BY DEF Tiled
  <2>4. d = h
    BY <1>1, <1>3, <2>2, <2>3 DEF EndOf
  <2> QED
    BY <2>1, <2>4
<1>5. first = 0 /\ 0 \in blocks
  BY DEF Tiled
<1>6. \A d \in blocks : EndOf(d)' = EndOf(d)
  BY <1>2 DEF EndOf
<1>7. TypeOK'
  <2>1. total' \in Int
    BY <1>2 DEF Tiled, TypeOK
  <2> QED
    BY <1>1, <1>2, <1>5, <2>1 DEF Tiled, TypeOK
<1>8. Tiled'
  BY <1>2, <1>6, <1>7 DEF Tiled
<1>9. CallInv'
  BY <1>2 DEF CallInv
<1>10. OwnerInv'
  <2>1. \A q \in owned, d \in blocks : Inside(q, d)' <=> Inside(q, d)
    BY <1>6 DEF Inside
  <2>2. \A q \in owned : q # o => ~Inside(q, h)
    BY <1>4 DEF OwnerInv
  <2>3. (\A q \in owned : \E d \in blocks \ lost : Inside(q, d) /\ ~free[d])'
    BY <1>1, <1>2, <2>1, <2>2 DEF OwnerInv
  <2>4. (\A d \in blocks, q, r \in owned : Inside(q, d) /\ Inside(r, d) => q = r)'
    BY <1>2, <2>1 DEF OwnerInv
  <2>5. (\A d \in lost : d \in blocks /\ ~free[d])'
    BY <1>1, <1>2, <1>4 DEF OwnerInv
  <2>6. (\A d \in blocks \ lost : ~free[d] => \E q \in owned : Inside(q, d))'
    <3> SUFFICES ASSUME NEW d \in blocks \ lost, d # h, ~free[d]
                 PROVE  \E q \in owned' : Inside(q, d)'
      BY <1>1, <1>2
    <3>1. PICK q \in owned : Inside(q, d)
      BY DEF OwnerInv
    <3>2. q # o
      BY <1>4, <3>1, OneBlock
    <3> QED
      BY <1>2, <2>1, <3>1, <3>2
  <2> QED
    BY <2>3, <2>4, <2>5, <2>6 DEF OwnerInv
<1>11. MergeInv'
  BY <1>2, <1>3, <1>5 DEF MergeInv
<1> QED
  BY <1>8, <1>9, <1>10, <1>11

\* merge_free_blocks joins two free neighbours, goes on, or is done.
LEMMA MergeStepKeeps ==
  ASSUME HeapInv, MergeStep PROVE HeapInv'
<1> USE DEF HeapInv
<1>1. PICK c \in blocks : c = cursor
  BY DEF MergeStep, MergeInv
<1>2. /\ pc = "merge" /\ c \in Nat
      /\ UNCHANGED <<first, heapEnd, total, frames, owned, lost>>
  BY DEF MergeStep, Tiled, TypeOK
<1>3. /\ HeaderSize \in Nat \ {0} /\ blocks \subseteq Nat /\ Null \notin Nat /\ heapEnd \in Nat
  BY HeapAssumption DEF Tiled, TypeOK, Null
<1>4. \A b \in blocks : free[b] /\ next[b] # Null /\ b < c => ~free[next[b]]
  BY <1>1, <1>2 DEF MergeInv
<1>5. CASE next[c] = Null
  <2>1. Return /\ UNCHANGED <<blocks, size, free, next>>
    BY <1>1, <1>5 DEF MergeStep
  <2>2. \A b \in blocks : next[b] # Null => b < c
    <3>1. \A b \in blocks : b <= c
      BY <1>5, NextIsBehind
    <3> QED
      BY <1>3, <1>5, <3>1
  <2>3. \A b \in blocks : free[b] /\ next[b] # Null => ~free[next[b]]
    BY <1>4, <2>2
  <2> QED
    BY <1>2, <2>1, <2>3, ReturnStep DEF Tiled, TypeOK, listVars
<1>6. CASE next[c] # Null /\ ~(free[c] /\ free[next[c]])
  <2>1. /\ cursor' = next[c] /\ pc' = pc
        /\ UNCHANGED <<blocks, size, free, next, want, asked, aligned, expanded>>
    BY <1>1, <1>3, <1>6 DEF MergeStep, callVars
  <2>2. next[c] \in blocks /\ c < next[c] /\ \A b \in blocks : c < b => next[c] <= b
    BY <1>6, NextIsBehind
  <2>3. Tiled'
    BY <1>2, <2>1, <2>2 DEF Tiled, TypeOK, EndOf
  <2>4. CallInv' /\ OwnerInv'
    BY <1>2, <2>1 DEF CallInv, OwnerInv, Inside, EndOf
  <2>5. MergeInv'
    <3>1. \A b \in blocks : b < next[c] => b < c \/ b = c
      <4> SUFFICES ASSUME NEW b \in blocks, b < next[c], c < b PROVE FALSE
        BY <1>2, <1>3
      <4>1. next[c] \in Nat /\ b \in Nat /\ next[c] <= b
        BY <1>3, <2>2
      <4> QED
        BY <4>1
    <3> QED
      BY <1>2, <1>4, <1>6, <2>1, <2>2, <3>1 DEF MergeInv
  <2> QED
    BY <2>3, <2>4, <2>5
<1>7. CASE next[c] # Null /\ free[c] /\ free[next[c]]
  <2>1. PICK n \in blocks : n = next[c]
    BY <1>7, NextIsBehind
  <2>2. n = EndOf(c) /\ c < n /\ n \in Nat
    BY <1>3, <1>7, <2>1, NextIsBehind
  <2>3. /\ blocks' = blocks \ {n} /\ pc' = pc /\ cursor' = cursor
        /\ size' = [b \in blocks' |-> IF b = c THEN size[b] + HeaderSize + size[n] ELSE size[b]]
        /\ free' = [b \in blocks' |-> free[b]]
        /\ next' = [b \in blocks' |-> IF b = c THEN next[n] ELSE next[b]]
        /\ UNCHANGED <<want, asked, aligned, expanded>>
    BY <1>1, <1>3, <1>7, <2>1 DEF MergeStep, callVars
  <2>4. /\ \A b \in blocks : size[b] \in Nat /\ EndOf(b) \in Nat /\ EndOf(b) <= heapEnd
        /\ \A b \in blocks : free[b] \in BOOLEAN /\ next[b] \in blocks \cup {Null}
        /\ \A b \in blocks : next[b] = IF EndOf(b) = heapEnd THEN Null ELSE EndOf(b)
        /\ \A b, d \in blocks : b < d => EndOf(b) <= d
        /\ \A b \in blocks : b < EndOf(b)
    BY <1>3 DEF Tiled, TypeOK, EndOf
  <2>5. c \in blocks' /\ \A b \in blocks' : b # c => b < c \/ n < b
    BY <1>3, <2>2, <2>3, <2>4
  <2>6. /\ EndOf(c)' = EndOf(n)
        /\ \A b \in blocks' : b # c => EndOf(b)' = EndOf(b)
    BY <1>3, <2>2, <2>3, <2>4, <2>5 DEF EndOf
  <2>7. \A b \in blocks : b # c => next[b] # n
    <3> SUFFICES ASSUME NEW b \in blocks, b # c, EndOf(b) = n PROVE FALSE
      BY <1>3, <2>2, <2>4
    <3>1. b < c \/ c < b
      BY <1>3
    <3> QED
      BY <1>3, <2>2, <2>4, <3>1
  <2>8. next[n] # n
    BY <1>3, <2>2, <2>4
  <2>9. n \notin lost /\ n # 0 /\ first = 0
    BY <1>2, <1>7, <2>1, <2>2 DEF OwnerInv, Tiled
  <2>10. TypeOK'
    <3>1. size' \in [blocks' -> Nat]
      <4>1. size[c] + HeaderSize + size[n] \in Nat
        BY <1>3, <2>4
      <4> QED
        BY <2>3, <2>4, <4>1
    <3>2. free' \in [blocks' -> BOOLEAN]
      BY <2>3, <2>4
    <3>3. next' \in [blocks' -> blocks' \cup {Null}]
      BY <2>3, <2>4, <2>7, <2>8
    <3>4. blocks' \subseteq Nat /\ cursor' \in blocks' /\ first' \in blocks' \cup {Null}
      BY <1>1, <1>2, <1>3, <2>3, <2>5, <2>9 DEF Tiled
    <3>5. lost' \subseteq blocks'
      BY <1>2, <2>3, <2>9 DEF Tiled, TypeOK
    <3> QED
      BY <1>2, <2>3, <3>1, <3>2, <3>3, <3>4, <3>5 DEF Tiled, TypeOK
  <2>11. Tiled'
    <3>1. \A b \in blocks' : EndOf(b)' <= heapEnd'
      BY <1>2, <2>3, <2>4, <2>6
    <3>2. \A b \in blocks' : next'[b] = IF EndOf(b)' = heapEnd' THEN Null ELSE EndOf(b)'
      BY <1>2, <2>3, <2>4, <2>6
    <3>3. \A b, d \in blocks' : b < d => EndOf(b)' <= d
      BY <1>3, <2>2, <2>3, <2>4, <2>5, <2>6
    <3>4. (first = Null)' = (blocks = {})' /\ 0 \in blocks' /\ first' = 0
      BY <1>2, <2>3, <2>5, <2>9 DEF Tiled, Null
    <3> QED
      BY <2>10, <3>1, <3>2, <3>3, <3>4 DEF Tiled
  <2>12. CallInv'
    BY <1>2, <2>3 DEF CallInv
  <2>13. OwnerInv'
    <3>1. \A o \in owned : ~Inside(o, n) /\ ~Inside(o, c)
      BY <1>7, <2>1, OneBlock DEF OwnerInv
    <3>2. \A o \in owned, b \in blocks' : b # c => (Inside(o, b)' <=> Inside(o, b))
      BY <2>6 DEF Inside
    <3>3. \A o \in owned : ~Inside(o, c)'
      <4> SUFFICES ASSUME NEW o \in owned, c + HeaderSize <= o.ptr, o.ptr + o.len <= EndOf(n)
                   PROVE  FALSE
        BY <2>6 DEF Inside
      <4>1. PICK b \in blocks : Inside(o, b)
        BY DEF OwnerInv
      <4>2. b # c /\ b # n
        BY <3>1, <4>1
      <4>3. o.ptr \in Nat /\ o.len \in Nat
        BY DEF Tiled, TypeOK
      <4>4. b + HeaderSize <= o.ptr /\ o.ptr + o.len <= EndOf(b)
        BY <4>1 DEF Inside
      <4>5. b < c \/ n < b
        BY <2>3, <2>5, <4>2
      <4>6. b < c => EndOf(b) <= c
        BY <2>4
      <4>7. n < b => EndOf(n) <= b
        BY <2>4
      <4> QED
        BY <1>2, <1>3, <2>4, <4>3, <4>4, <4>5, <4>6, <4>7
    <3>4. (\A o \in owned : \E b \in blocks \ lost : Inside(o, b) /\ ~free[b])'
      <4>1. \A o \in owned : \E b \in blocks \ lost : b # c /\ b # n /\ Inside(o, b) /\ ~free[b]
        BY <3>1 DEF OwnerInv
      <4> QED
        BY <1>2, <2>3, <3>2, <4>1
    <3>5. (\A b \in blocks, o, p \in owned : Inside(o, b) /\ Inside(p, b) => o = p)'
      BY <1>2, <2>3, <3>2, <3>3 DEF OwnerInv
    <3>6. (\A b \in lost : b \in blocks /\ ~free[b])'
      BY <1>2, <2>3, <2>9 DEF OwnerInv
    <3>7. (\A b \in blocks \ lost : ~free[b] => \E o \in owned : Inside(o, b))'
      <4> SUFFICES ASSUME NEW b \in blocks', b \notin lost, ~free[b]
                   PROVE  \E o \in owned : Inside(o, b)'
        BY <1>2, <2>3
      <4>1. b # c /\ b \in blocks
        BY <1>7, <2>3
      <4> QED
        BY <3>2, <4>1 DEF OwnerInv
    <3> QED
      BY <3>4, <3>5, <3>6, <3>7 DEF OwnerInv
  <2>14. MergeInv'
    <3>1. \A b \in blocks' : b < c => b \in blocks /\ b # c /\ next'[b] = next[b] /\ next[b] # n
      BY <1>3, <2>3, <2>7
    <3>2. \A b \in blocks' : b < c /\ next[b] # Null => next[b] \in blocks'
      BY <2>3, <2>4, <3>1
    <3> QED
      BY <1>1, <1>2, <1>4, <2>3, <2>5, <3>1, <3>2 DEF MergeInv
  <2> QED
    BY <2>11, <2>12, <2>13, <2>14
<1> QED
  BY <1>5, <1>6, <1>7

\* Callers with a block each do not meet.
LEMMA InvDisjoint == HeapInv => ClientsDisjoint
<1> SUFFICES ASSUME HeapInv PROVE ClientsDisjoint
  OBVIOUS
<1>1. \A o \in owned : \E b \in blocks : Inside(o, b) /\ ~free[b]
  BY DEF HeapInv, OwnerInv
<1>2. ASSUME NEW o \in owned, NEW p \in owned, o # p
      PROVE  o.ptr + o.len <= p.ptr \/ p.ptr + p.len <= o.ptr
  <2>1. PICK b \in blocks : Inside(o, b)
    BY <1>1
  <2>2. PICK c \in blocks : Inside(p, c)
    BY <1>1
  <2>3. b # c
    BY <1>2, <2>1, <2>2 DEF HeapInv, OwnerInv
  <2>4. (b < c => EndOf(b) <= c) /\ (c < b => EndOf(c) <= b)
    BY DEF HeapInv, Tiled
  <2>5. /\ HeaderSize \in Nat /\ b \in Nat /\ c \in Nat /\ size[b] \in Nat /\ size[c] \in Nat
        /\ o.ptr \in Nat /\ o.len \in Nat /\ p.ptr \in Nat /\ p.len \in Nat
    BY HeapAssumption DEF HeapInv, Tiled, TypeOK
  <2> QED
    BY <2>1, <2>2, <2>3, <2>4, <2>5 DEF Inside, EndOf
<1> QED
  BY <1>1, <1>2 DEF ClientsDisjoint, Inside

\* kfree of a pointer moved by one word: a double free, or the end of the list is lost.
LEMMA KfreeInHeaderKeeps ==
  ASSUME HeapInv, NEW o \in owned, KfreeInHeader(o) PROVE HeapInv' \/ Wild'
<1> USE DEF HeapInv
<1>1. PICK h \in blocks :
        /\ h < o.ptr - HeaderSize /\ o.ptr <= EndOf(h) /\ lost' = lost \cup {h}
        /\ (next' = next /\ pc' = pc) \/ pc' = "wild"
  BY DEF KfreeInHeader
<1>2. /\ pc = "idle" /\ owned' = owned \ {o}
      /\ UNCHANGED <<blocks, size, free, first, heapEnd, total, frames, cursor, want, asked,
                     aligned, expanded>>
  BY DEF KfreeInHeader, callVars
<1>3. /\ HeaderSize \in Nat \ {0} /\ o.ptr \in Nat /\ o.len \in Nat /\ blocks \subseteq Nat
      /\ \A d \in blocks : size[d] \in Nat /\ free[d] \in BOOLEAN
  BY HeapAssumption DEF Tiled, TypeOK
<1>4. Inside(o, h) /\ ~free[h]
  <2>1. PICK d \in blocks \ lost : Inside(o, d) /\ ~free[d]
    BY DEF OwnerInv
  <2>2. d + HeaderSize <= o.ptr /\ o.ptr <= EndOf(d)
    BY <1>3, <2>1 DEF Inside, EndOf
  <2>3. (d < h => EndOf(d) <= h) /\ (h < d => EndOf(h) <= d)
    BY DEF Tiled
  <2>4. d = h
    BY <1>1, <1>3, <2>2, <2>3 DEF EndOf
  <2> QED
    BY <2>1, <2>4
<1>6. \A d \in blocks : EndOf(d)' = EndOf(d)
  BY <1>2 DEF EndOf
<1>7. \A q \in owned, d \in blocks : Inside(q, d)' <=> Inside(q, d)
  BY <1>6 DEF Inside
<1>8. OwnerInv'
  <2>2. \A q \in owned : q # o => ~Inside(q, h)
    BY <1>4 DEF OwnerInv
  <2>3. (\A q \in owned : \E d \in blocks \ lost : Inside(q, d) /\ ~free[d])'
    BY <1>1, <1>2, <1>7, <2>2 DEF OwnerInv
  <2>4. (\A d \in blocks, q, r \in owned : Inside(q, d) /\ Inside(r, d) => q = r)'
    BY <1>2, <1>7 DEF OwnerInv
  <2>5. (\A d \in lost : d \in blocks /\ ~free[d])'
    BY <1>1, <1>2, <1>4 DEF OwnerInv
  <2>6. (\A d \in blocks \ lost : ~free[d] => \E q \in owned : Inside(q, d))'
    <3> SUFFICES ASSUME NEW d \in blocks \ lost, d # h, ~free[d]
                 PROVE  \E q \in owned' : Inside(q, d)'
      BY <1>1, <1>2
    <3>1. PICK q \in owned : Inside(q, d)
      BY DEF OwnerInv
    <3>2. q # o
      BY <1>4, <3>1, OneBlock
    <3> QED
      BY <1>2, <1>7, <3>1, <3>2
  <2> QED
    BY <2>3, <2>4, <2>5, <2>6 DEF OwnerInv
<1>9. CASE next' = next /\ pc' = pc
  <2>1. TypeOK'
    BY <1>1, <1>2, <1>9 DEF Tiled, TypeOK
  <2>2. Tiled'
    BY <1>2, <1>6, <1>9, <2>1 DEF Tiled
  <2>3. CallInv' /\ MergeInv'
    BY <1>2, <1>9 DEF CallInv, MergeInv
  <2> QED
    BY <1>8, <2>2, <2>3
<1>10. CASE pc' = "wild"
  <2>1. ClientsDisjoint
    BY InvDisjoint
  <2>2. ClientsDisjoint'
    BY <1>2, <1>6, <2>1 DEF ClientsDisjoint
  <2>3. OnlyMovedLeaks'
    BY <1>8 DEF OwnerInv, OnlyMovedLeaks, Inside
  <2> QED
    BY <1>10, <2>2, <2>3 DEF Wild
<1> QED
  BY <1>1, <1>9, <1>10

-----------------------------------------------------------------------------
(* The theorems.                                                           *)

\* Every step keeps the invariant.
LEMMA HeapStepKeeps ==
  ASSUME RequestsFit, HeapInv, [Next]_vars PROVE HeapInv' \/ Wild'
<1>1. CASE KheapInit
  BY <1>1, KheapInitStep
<1>2. ASSUME NEW n \in Requests, Kmalloc(n) PROVE HeapInv'
  BY <1>2, KmallocStarts, RequestsAssumption DEF RequestsFit
<1>3. ASSUME NEW p \in CallocRequests, Kcalloc(p[1], p[2]) PROVE HeapInv'
  <2>1. p[1] \in Nat /\ p[2] \in Nat
    BY RequestsAssumption
  <2>2. p[1] * p[2] \in Nat
    BY <2>1
  <2>3. U32(p[1] * p[2]) \in Nat
    BY <2>2, U32Facts
  <2> QED
    BY <1>3, <2>3, KmallocStarts DEF RequestsFit, Kcalloc
<1>4. ASSUME NEW n \in AlignedRequests, KmallocAligned(n) PROVE HeapInv'
  BY <1>4, KmallocAlignedStarts, RequestsAssumption DEF RequestsFit
<1>5. ASSUME NEW o \in owned, Kfree(o) \/ KfreeMoved(o) \/ KfreeInHeader(o)
      PROVE  HeapInv' \/ Wild'
  BY <1>5, KfreeKeeps, KfreeMovedKeeps, KfreeInHeaderKeeps
<1>6. CASE CallStep
  BY <1>6, FindStepKeeps, HeapExpandKeeps, OutOfMemoryKeeps, TakeKeeps, MergeStepKeeps
  DEF CallStep
<1>7. CASE UNCHANGED vars
  <2> USE <1>7 DEF vars, listVars, callVars, HeapInv
  <2>1. Tiled'
    BY DEF Tiled, TypeOK, EndOf
  <2>2. CallInv' /\ MergeInv'
    BY DEF CallInv, MergeInv, RoundUp
  <2>3. OwnerInv'
    BY DEF OwnerInv, Inside, EndOf
  <2> QED
    BY <2>1, <2>2, <2>3
<1> QED
  BY <1>1, <1>2, <1>3, <1>4, <1>5, <1>6, <1>7 DEF Next

\* Beyond the end of a broken list the model does not go on.
LEMMA WildStays == ASSUME Wild, [Next]_vars PROVE Wild'
<1>1. pc = "wild"
  BY DEF Wild
<1>2. ~Next
  BY <1>1 DEF Next, KheapInit, Kmalloc, Kcalloc, KmallocAligned, Kfree, KfreeMoved,
     KfreeInHeader, CallStep, FindStep, HeapExpand, OutOfMemory, Take, MergeStep
<1>3. UNCHANGED <<pc, blocks, size, free, owned, lost>>
  BY <1>2 DEF vars, listVars
<1>4. \A b : EndOf(b)' = EndOf(b)
  BY <1>3 DEF EndOf
<1> QED
  BY <1>3, <1>4 DEF Wild, ClientsDisjoint, OnlyMovedLeaks

\* The heap's inductive invariant, for every sequence of calls.
THEOREM HeapInvariant ==
  ASSUME RequestsFit PROVE Spec => [](HeapInv \/ Wild)
<1>1. (HeapInv \/ Wild) /\ [Next]_vars => (HeapInv \/ Wild)'
  BY RequestsFit, HeapStepKeeps, WildStays
<1> QED
  BY <1>1, HeapInit, PTL DEF Spec

\* No split, merge or extension leaves a gap or lets two blocks overlap.
THEOREM HeapTiledHolds ==
  ASSUME RequestsFit PROVE Spec => []HeapTiled
<1>1. HeapInv \/ Wild => HeapTiled
  BY DEF HeapInv, Wild, HeapTiled
<1> QED
  BY RequestsFit, HeapInvariant, <1>1, PTL

\* kmalloc never gives two callers a byte in common, and kfree takes no caller's
\* block away.
THEOREM ClientsDisjointHolds ==
  ASSUME RequestsFit PROVE Spec => []ClientsDisjoint
<1>1. HeapInv \/ Wild => ClientsDisjoint
  BY InvDisjoint DEF Wild
<1> QED
  BY RequestsFit, HeapInvariant, <1>1, PTL

\* Between calls no two neighbouring blocks are both free.
THEOREM FullyMergedHolds ==
  ASSUME RequestsFit PROVE Spec => []FullyMerged
<1>1. HeapInv \/ Wild => FullyMerged
  BY DEF HeapInv, MergeInv, FullyMerged, Wild
<1> QED
  BY RequestsFit, HeapInvariant, <1>1, PTL

\* A block is allocated without an owner only after the kfree of a pointer that
\* kmalloc_aligned had moved.
THEOREM OnlyMovedLeaksHolds ==
  ASSUME RequestsFit PROVE Spec => []OnlyMovedLeaks
<1>1. HeapInv \/ Wild => OnlyMovedLeaks
  BY DEF HeapInv, OwnerInv, OnlyMovedLeaks, Inside, Wild
<1> QED
  BY RequestsFit, HeapInvariant, <1>1, PTL

\* The search after a successful heap_expand finds a block.
THEOREM ExpandSufficesHolds ==
  ASSUME RequestsFit PROVE Spec => []ExpandSuffices
<1>1. HeapInv \/ Wild => ExpandSuffices
  BY DEF HeapInv, CallInv, ExpandSuffices, Wild
<1> QED
  BY RequestsFit, HeapInvariant, <1>1, PTL
=============================================================================
