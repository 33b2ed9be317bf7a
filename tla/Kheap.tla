------------------------------- MODULE Kheap -------------------------------
(***************************************************************************)
(* The kernel heap (kheap.c): one list of blocks, each behind a header     *)
(* {size, is_free, next}, searched first fit, split on allocation, merged  *)
(* on release and extended page by page.                                   *)
(*                                                                         *)
(* Addresses are offsets from heap_start.  The two loops that follow the   *)
(* next pointers are stepped through one block at a time, so that the list *)
(* means what its pointers say.  The heap has one caller at a time.        *)
(***************************************************************************)
EXTENDS Integers, FiniteSets, FiniteSetsExt

CONSTANTS
  HeaderSize,    \* HEADER_SIZE
  AlignTo,       \* kmalloc rounds sizes up to a multiple of this (8)
  MinRest,       \* the smallest payload a split leaves (32)
  PageSize,      \* PAGE_SIZE
  InitialSize,   \* INITIAL_HEAP_SIZE
  MaxSize,       \* MAX_HEAP_SIZE
  Word,          \* 2^32: the values of a uint32_t
  HeapStart,     \* HEAP_START_ADDR
  FrameCounts,   \* how many frames the frame allocator may have for the heap
  Requests,      \* the sizes callers ask kmalloc for
  CallocRequests, \* the pairs of number and size callers ask kcalloc for
  AlignedRequests, \* the sizes callers ask kmalloc_aligned for
  FreesAligned   \* whether callers kfree what kmalloc_aligned returned

ASSUME HeapAssumption ==
  /\ HeaderSize \in Nat \ {0} /\ AlignTo \in Nat \ {0} /\ MinRest \in Nat
  /\ PageSize \in Nat \ {0} /\ InitialSize \in Nat /\ MaxSize \in Nat
  /\ HeaderSize < InitialSize /\ InitialSize <= MaxSize
  /\ HeapStart \in Nat /\ Word \in Nat /\ HeapStart + MaxSize < Word /\ Word % PageSize = 0
  /\ FrameCounts \subseteq Nat /\ FreesAligned \in BOOLEAN
ASSUME RequestsAssumption ==
  /\ Requests \subseteq Nat /\ AlignedRequests \subseteq Nat
  /\ CallocRequests \subseteq Nat \X Nat

Null == -1

VARIABLES
  blocks,      \* the addresses of the headers in the list
  size,        \* size of each block
  free,        \* is_free of each block
  next,        \* next of each block, or Null
  first,       \* first_block
  heapEnd,     \* heap_end
  total,       \* total_allocated
  frames,      \* frames the frame allocator still has
  pc,          \* where the call in progress is: idle, boot, find, take, merge,
               \* or wild: past the end of a broken list
  cursor,      \* the block that call looks at
  want,        \* the aligned size it wants
  asked,       \* what its caller asked for
  aligned,     \* it is a kmalloc_aligned call
  expanded,    \* it has extended the heap already
  owned,       \* what callers hold: records of pointer and size
  lost         \* history: the blocks whose moved pointer kfree was called with

listVars == <<blocks, size, free, next, first, heapEnd>>
callVars == <<want, asked, aligned, expanded>>
vars == <<listVars, total, frames, pc, cursor, callVars, owned, lost>>

-----------------------------------------------------------------------------

RoundUp(n, k) == ((n + k - 1) \div k) * k

\* The value of an expression of type uint32_t.
U32(n) == n % Word

\* The call returns and its local variables are gone.
Return ==
  /\ pc' = "idle"
  /\ cursor' = Null
  /\ want' = 0 /\ asked' = 0 /\ aligned' = FALSE /\ expanded' = FALSE

\* The address behind block b, where the next header is or the heap ends.
EndOf(b) == b + HeaderSize + size[b]

\* kheap_init, with a frame for every page of the initial heap or without.
KheapInit ==
  /\ pc = "boot"
  /\ LET pages == RoundUp(InitialSize, PageSize) \div PageSize
     IN  \/ /\ frames >= pages
            /\ frames' = frames - pages
            /\ heapEnd' = InitialSize
            /\ blocks' = {0}
            /\ size' = [b \in {0} |-> InitialSize - HeaderSize]
            /\ free' = [b \in {0} |-> TRUE]
            /\ next' = [b \in {0} |-> Null]
            /\ first' = 0
         \/ /\ frames < pages
            /\ frames' = 0
            /\ UNCHANGED listVars
  /\ pc' = "idle"
  /\ UNCHANGED <<total, cursor, callVars, owned, lost>>

\* kmalloc(n) starts its search; kmalloc(0) returns at once and changes nothing.
Kmalloc(n) ==
  /\ pc = "idle" /\ n # 0
  /\ want' = U32(RoundUp(n, AlignTo))
  /\ asked' = n
  /\ aligned' = FALSE
  /\ expanded' = FALSE
  /\ cursor' = first
  /\ pc' = "find"
  /\ UNCHANGED <<listVars, total, frames, owned, lost>>

\* kcalloc is kmalloc of the product, and zeroes what it gets.
Kcalloc(num, n) == Kmalloc(U32(num * n))

\* kmalloc_aligned(n) asks kmalloc for a page more.
KmallocAligned(n) ==
  /\ pc = "idle"
  /\ want' = U32(RoundUp(U32(n + PageSize), AlignTo))
  /\ asked' = n
  /\ aligned' = TRUE
  /\ expanded' = FALSE
  /\ cursor' = first
  /\ pc' = "find"
  /\ UNCHANGED <<listVars, total, frames, owned, lost>>

\* Mutant: the search takes a free block without looking at its size.
FitsAny(b) == free[b]

Fits(b) == free[b] /\ size[b] >= want

\* find_free_block looks at one block.
FindStep ==
  /\ pc = "find" /\ cursor # Null
  /\ IF Fits(cursor)
     THEN pc' = "take" /\ UNCHANGED cursor
     ELSE cursor' = next[cursor] /\ UNCHANGED pc
  /\ UNCHANGED <<listVars, total, frames, callVars, owned, lost>>

\* Mutants: the new block takes the header's room for payload; its next pointer is
\* not cleared.
NewBlockSizeNoHeader(bytes) == bytes
NewBlockNextUnset == 0

\* heap_expand(size + HEADER_SIZE), in bytes.
ExpandSize == U32(RoundUp(U32(want + HeaderSize), PageSize))

\* The heap stays below heap_max, as far as the addition does not wrap.
WithinLimit == U32(HeapStart + heapEnd + ExpandSize) <= HeapStart + MaxSize

\* The payload of a block that fills new pages.
NewBlockSize(bytes) == bytes - HeaderSize

\* Its next pointer.
NewBlockNext == Null

\* The search came to the end of the list: heap_expand extends the last block
\* or appends a new one, and the search starts again.
HeapExpand ==
  /\ pc = "find" /\ cursor = Null /\ ~expanded
  /\ WithinLimit
  /\ frames >= ExpandSize \div PageSize
  /\ frames' = frames - ExpandSize \div PageSize
  /\ \E last \in blocks :
       /\ next[last] = Null
       /\ IF free[last]
          THEN /\ size' = [size EXCEPT ![last] = @ + ExpandSize]
               /\ UNCHANGED <<blocks, free, next>>
          ELSE /\ blocks' = blocks \cup {heapEnd}
               /\ size' = [b \in blocks' |-> IF b = heapEnd THEN NewBlockSize(ExpandSize)
                                             ELSE size[b]]
               /\ free' = [b \in blocks' |-> IF b = heapEnd THEN TRUE ELSE free[b]]
               /\ next' = [b \in blocks' |-> IF b = heapEnd THEN NewBlockNext
                                             ELSE IF b = last THEN heapEnd ELSE next[b]]
  /\ heapEnd' = heapEnd + ExpandSize
  /\ expanded' = TRUE
  /\ cursor' = first
  /\ UNCHANGED <<first, total, pc, want, asked, aligned, owned, lost>>

\* heap_expand fails at the limit, or when it runs out of frames half way, as it
\* does for a request so large that the check of the limit wraps: the pages it
\* has mapped by then stay mapped and their frames are lost.
OutOfMemory ==
  /\ pc = "find" /\ cursor = Null
  /\ \/ /\ ~expanded => ~WithinLimit
        /\ UNCHANGED frames
     \/ /\ ~expanded /\ WithinLimit
        /\ frames < ExpandSize \div PageSize
        /\ frames' = 0
  /\ Return
  /\ UNCHANGED <<listVars, total, owned, lost>>

\* split_block cuts a block in two when the rest is worth a block.
Splits(b) == size[b] >= want + HeaderSize + MinRest

\* Mutant: the rest of a split is not marked free.
RestFreeUnset == FALSE

\* is_free of the rest of a split.
RestFree == TRUE

\* What total_allocated goes up by.
Counted(b, s) == s[b]

\* kmalloc has a block: it is split, marked and handed out.
Take ==
  /\ pc = "take"
  /\ LET rest == cursor + HeaderSize + want
     IN  IF Splits(cursor)
         THEN /\ blocks' = blocks \cup {rest}
              /\ size' = [b \in blocks' |->
                           CASE b = cursor -> want
                             [] b = rest   -> size[cursor] - want - HeaderSize
                             [] OTHER      -> size[b]]
              /\ free' = [b \in blocks' |->
                           CASE b = cursor -> FALSE
                             [] b = rest   -> RestFree
                             [] OTHER      -> free[b]]
              /\ next' = [b \in blocks' |->
                           CASE b = cursor -> rest
                             [] b = rest   -> next[cursor]
                             [] OTHER      -> next[b]]
         ELSE /\ free' = [free EXCEPT ![cursor] = FALSE]
              /\ UNCHANGED <<blocks, size, next>>
  /\ total' = total + Counted(cursor, size')
  /\ owned' = owned \cup
                {[ptr |-> IF aligned THEN RoundUp(cursor + HeaderSize, PageSize)
                          ELSE cursor + HeaderSize,
                  len |-> asked, aligned |-> aligned]}
  /\ Return
  /\ UNCHANGED <<first, heapEnd, frames, lost>>

\* Mutant: merging starts at the block that was released.
MergeFromReleased(b) == b

\* Where merge_free_blocks starts.
MergeFrom(b) == first

\* kfree of a pointer its caller holds, when its header lies in front of it.
Kfree(o) ==
  LET b == o.ptr - HeaderSize
  IN  /\ pc = "idle" /\ (o.aligned => FreesAligned)
      /\ b \in blocks
      /\ IF free[b]
         THEN UNCHANGED <<free, total, pc, cursor>>
         ELSE /\ free' = [free EXCEPT ![b] = TRUE]
              /\ total' = total - size[b]
              /\ cursor' = MergeFrom(b)
              /\ pc' = "merge"
      /\ owned' = owned \ {o}
      /\ UNCHANGED <<blocks, size, next, first, heapEnd, frames, callVars, lost>>

\* The length of one of the three words of a header.
Field == HeaderSize \div 3

\* kfree of a pointer kmalloc_aligned has moved away from its header by two words
\* at least: the word it takes for is_free is payload that was never written.  If it
\* reads as free the call is reported as a double free and does nothing; otherwise
\* some word is subtracted from the statistics and the list is searched.
KfreeMoved(o) ==
  LET b == o.ptr - HeaderSize
  IN  /\ pc = "idle" /\ o.aligned /\ FreesAligned
      /\ \E h \in blocks : /\ h < b /\ h + 2 * Field <= b /\ o.ptr <= EndOf(h)
                           /\ lost' = lost \cup {h}
      /\ \/ UNCHANGED <<total, pc, cursor>>
         \/ /\ total' \in {total, total - 1}
            /\ cursor' = first
            /\ pc' = "merge"
      /\ owned' = owned \ {o}
      /\ UNCHANGED <<listVars, frames, callVars>>

\* kfree of a pointer moved by one word: what it takes for is_free is the header's
\* next.  In front of another block this is a double free; at the end of the list
\* it is NULL and becomes 1, which is then followed as a pointer: merge_free_blocks
\* reads what the BIOS left at address 1 as a header, and what comes of it is not
\* modelled.
KfreeInHeader(o) ==
  LET b == o.ptr - HeaderSize
  IN  /\ pc = "idle" /\ o.aligned /\ FreesAligned
      /\ \E h \in blocks :
           /\ h < b /\ b < h + 2 * Field /\ o.ptr <= EndOf(h)
           /\ lost' = lost \cup {h}
           /\ \/ next[h] # Null /\ UNCHANGED <<next, pc>>
              \/ next[h] = Null /\ next' = [next EXCEPT ![h] = 1 - HeapStart] /\ pc' = "wild"
      /\ owned' = owned \ {o}
      /\ UNCHANGED <<blocks, size, free, first, heapEnd, total, frames, cursor, callVars>>

\* merge_free_blocks looks at one block and its successor, and stays at the
\* block after it has merged the two.
MergeStep ==
  /\ pc = "merge"
  /\ IF cursor = Null \/ next[cursor] = Null
     THEN Return /\ UNCHANGED <<blocks, size, free, next>>
     ELSE LET n == next[cursor]
          IN  IF free[cursor] /\ free[n]
              THEN /\ blocks' = blocks \ {n}
                   /\ size' = [b \in blocks' |-> IF b = cursor
                                THEN size[b] + HeaderSize + size[n] ELSE size[b]]
                   /\ free' = [b \in blocks' |-> free[b]]
                   /\ next' = [b \in blocks' |-> IF b = cursor THEN next[n] ELSE next[b]]
                   /\ UNCHANGED <<pc, cursor, callVars>>
              ELSE cursor' = n /\ UNCHANGED <<blocks, size, free, next, pc, callVars>>
  /\ UNCHANGED <<first, heapEnd, total, frames, owned, lost>>

-----------------------------------------------------------------------------

Init ==
  /\ blocks = {}
  /\ size = [b \in {} |-> 0] /\ free = [b \in {} |-> TRUE]
  /\ next = [b \in {} |-> Null]
  /\ first = Null
  /\ heapEnd = 0
  /\ total = 0
  /\ frames \in FrameCounts
  /\ pc = "boot"
  /\ cursor = Null
  /\ want = 0 /\ asked = 0 /\ aligned = FALSE /\ expanded = FALSE
  /\ owned = {}
  /\ lost = {}

\* The steps of a call in progress.
CallStep == FindStep \/ HeapExpand \/ OutOfMemory \/ Take \/ MergeStep

Next ==
  \/ KheapInit
  \/ \E n \in Requests : Kmalloc(n)
  \/ \E p \in CallocRequests : Kcalloc(p[1], p[2])
  \/ \E n \in AlignedRequests : KmallocAligned(n)
  \/ \E o \in owned : Kfree(o) \/ KfreeMoved(o) \/ KfreeInHeader(o)
  \/ CallStep

Spec == Init /\ [][Next]_vars

\* A call runs on: it holds no lock and waits for nothing.
FairSpec == Spec /\ WF_vars(CallStep)

-----------------------------------------------------------------------------
(* Properties.                                                             *)

\* The types of the variables; the next pointers and the call's cursor lead to
\* headers of the list.
TypeOK ==
  /\ blocks \subseteq Nat
  /\ size \in [blocks -> Nat]
  /\ free \in [blocks -> BOOLEAN]
  /\ next \in [blocks -> blocks \cup {Null}]
  /\ first \in blocks \cup {Null}
  /\ heapEnd \in Nat
  /\ total \in Int
  /\ frames \in Nat
  /\ pc \in {"boot", "idle", "find", "take", "merge"}
  /\ cursor \in blocks \cup {Null}
  /\ want \in Nat /\ asked \in Nat
  /\ aligned \in BOOLEAN /\ expanded \in BOOLEAN
  /\ owned \subseteq [ptr : Nat, len : Nat, aligned : BOOLEAN]
  /\ lost \subseteq blocks

\* The list starts at heap_start, every next pointer leads exactly to where the
\* block ends, and the last block ends at heap_end.
Tiled ==
  /\ TypeOK
  /\ (first = Null) = (blocks = {})
  /\ blocks # {} => first = 0 /\ 0 \in blocks
  /\ \A b \in blocks :
       /\ EndOf(b) <= heapEnd
       /\ next[b] = IF EndOf(b) = heapEnd THEN Null ELSE EndOf(b)
       /\ \A c \in blocks : b < c => EndOf(b) <= c

\* The list tiles the heap: no split, merge or extension leaves a gap or lets two
\* blocks overlap, and neither does a kfree of a moved pointer, but the one that
\* takes the list's last header for another.
HeapTiled == pc # "wild" => Tiled

\* What callers hold are disjoint stretches of payload: each lies within one
\* allocated block and no two calls of kmalloc share a byte.
ClientsDisjoint ==
  /\ \A o \in owned :
       \E b \in blocks : /\ b + HeaderSize <= o.ptr /\ o.ptr + o.len <= EndOf(b)
                         /\ ~free[b]
  /\ \A o, p \in owned : o # p => o.ptr + o.len <= p.ptr \/ p.ptr + p.len <= o.ptr

\* Between calls no two neighbouring blocks are both free: kfree merges in both
\* directions, and neither a split nor an extension undoes it.
FullyMerged ==
  pc \in {"idle", "find", "take"} =>
    \A b \in blocks : free[b] /\ next[b] # Null => ~free[next[b]]

\* Whatever is allocated has an owner: a block that kfree was called for is free
\* again, except when kmalloc_aligned had moved the pointer, so that kfree took
\* something else for the header.
OnlyMovedLeaks ==
  \A b \in blocks \ lost :
    ~free[b] => \E o \in owned : b + HeaderSize <= o.ptr /\ o.ptr + o.len <= EndOf(b)

\* When heap_expand succeeds the second search finds a block: kmalloc gives up
\* only for want of memory.
ExpandSuffices == ~(pc = "find" /\ expanded /\ cursor = Null)

\* The loops over the list end, unless they leave it.
CallsReturn == (pc # "boot") ~> (pc \in {"idle", "wild"})
=============================================================================
