----------------------------- MODULE VmmProofs -----------------------------
(***************************************************************************)
(* Proofs about Vmm for every size of memory, tables, heap and region      *)
(* pool, every set of spaces and every mix of calls.                       *)
(***************************************************************************)
EXTENDS Vmm, SequenceTheorems, WellFoundedInduction, TLAPS

RegionType == [base : Pages, size : Nat, type : 0 .. Mmio]
CallType ==
  [op : {"none", "heap", "map"}, space : AllSpaces, base : Pages, size : Nat, at : Nat]

\* The types, and what a call in progress is about: a heap call continues the heap, a
\* map call is for a space that exists, and there is none before kheap_init.
StateInv ==
  /\ phase \in {"reset", "paging", "heap", "ready", "halted", "stray"}
  /\ free \subseteq Frames
  /\ pd \in [PdIndices -> Frames]
  /\ table \in [Frames -> [PtIndices -> Frames]]
  /\ dirs \in [Spaces -> [PdIndices -> Frames]]
  /\ dirFrame \in [Spaces -> Frames]
  /\ regions \in [AllSpaces -> Seq(RegionType)]
  /\ pool \in 0 .. MaxRegions
  /\ cr3 \in Live
  /\ heapTop \in 0 .. HeapPages
  /\ call \in CallType /\ call.at <= call.size
  /\ stranded \subseteq Frames
  /\ call.op = "heap" => call.base = HeapBase + heapTop /\ heapTop + call.size <= HeapPages
  /\ call.op = "map" => call.space \in Live
  /\ phase \in {"reset", "paging"} => heapTop = 0 /\ call = NoCall

\* The directory entries of the part that paging_init maps, and their tables.
LinearTables == LinearFrames \div PtEntries
LinearIndices == {i \in PdIndices : i - PdOf(KernelBase) \in 0 .. LinearTables - 1}
StaticTables == KernelFrame .. KernelFrame + LinearTables - 1

\* Those entries name the static tables, in the kernel's directory and in all others; before
\* paging_init there is nothing yet.
LinearInv ==
  /\ phase # "reset" =>
       \A i \in LinearIndices : pd[i] = KernelFrame + (i - PdOf(KernelBase))
  /\ phase # "reset" =>
       \A s \in Spaces : dirFrame[s] # 0 => \A i \in LinearIndices : dirs[s][i] = pd[i]
  /\ phase = "reset" =>
       /\ free = Ram /\ regions = [s \in AllSpaces |-> <<>>]
       /\ \A s \in Spaces : dirFrame[s] = 0

\* The pages of the first megabyte: REGION_MMIO counts as a user type, so that its
\* frames may be given back as well.
LowPages == KernelBase + 1 .. KernelBase + KernelFrame - 1

\* The pages of the regions that callers have mapped, and all that have a frame of their own.
CallerPages ==
  UNION {UNION {RegionPages(regions[s][i]) :
                  i \in {j \in DOMAIN regions[s] : regions[s][j].type = UserCode}} : s \in AllSpaces}
UsedPages == MappedSoFar \cup CallerPages \cup HeapRange \cup LowPages

\* The tables that paging_map_page has made for a directory, and the frames behind pages.
MadeTables(dir) == {dir[i] : i \in PdIndices \ LinearIndices} \ {0}
Behind(dir, tables, ps) == {Walk(dir, tables, p) : p \in ps} \ {0}

\* No table has two entries in the directory, no two of the pages used have the same frame,
\* and these frames, the frames avail, the tables and the directories in the frames heads
\* are all apart.
OneUse(dir, tables, used, avail, heads) ==
  /\ \A i, j \in PdIndices : dir[i] # 0 /\ dir[i] = dir[j] => i = j
  /\ \A p, q \in used : p # q /\ Walk(dir, tables, p) # 0 =>
       Walk(dir, tables, p) # Walk(dir, tables, q)
  /\ Behind(dir, tables, used) \cap (avail \cup MadeTables(dir) \cup heads \cup StaticTables) = {}
  /\ avail \cap (MadeTables(dir) \cup heads \cup StaticTables \cup {0}) = {}
  /\ MadeTables(dir) \cap (heads \cup StaticTables) = {}
  /\ heads \cap (StaticTables \cup {0}) = {}

\* While the machine runs each frame has one use.
UseInv ==
  Running =>
    /\ OneUse(pd, table, UsedPages, free, Directories)
    /\ \A s, u \in Spaces : dirFrame[s] # 0 /\ dirFrame[s] = dirFrame[u] => s = u

\* The regions vmm_init registers: the first megabyte, the kernel, the rest up to the heap,
\* and the heap.
LowRegion == Region(KernelBase + 1, KernelFrame - 1, Mmio)
ImageRegion == Region(KernelBase + KernelFrame, KernelEnd - KernelFrame, KernelCode)
RestRegion == Region(KernelBase + KernelEnd, HeapFrame - KernelEnd, IdentityMap)
HeapRegion == Region(HeapBase, HeapPages, KernelHeap)
KernelRegions == {LowRegion, ImageRegion, RestRegion, HeapRegion}

\* All regions are of these or were mapped by callers.
KindInv ==
  \A s \in AllSpaces : \A i \in 1 .. Len(regions[s]) :
    regions[s][i] \in KernelRegions \/ regions[s][i].type = UserCode

\* Every request has pages and ends below the top of the address space.
RequestsFit == \A r \in Requests : r[2] > 0 /\ r[1] + r[2] < NumPages

\* A list in order: its regions are not empty, do not wrap, and each ends before all
\* that follow.
Ordered(list) ==
  /\ \A i \in 1 .. Len(list) : list[i].size > 0 /\ list[i].base + list[i].size < NumPages
  /\ \A i, j \in 1 .. Len(list) : i < j => list[i].base + list[i].size <= list[j].base

\* All lists are in order, and the region of the call in progress overlaps no other.
OrderInv ==
  /\ \A s \in AllSpaces : Ordered(regions[s])
  /\ call.op = "map" =>
       /\ call.size > 0 /\ call.base + call.size < NumPages
       /\ ~Overlaps(regions[call.space], call.base, call.size)

-----------------------------------------------------------------------------
(* Numbers.                                                                *)

\* Division with rest.
LEMMA DivMod ==
  ASSUME NEW n \in Nat, NEW d \in Nat \ {0}
  PROVE  \E q, r \in Nat : q = n \div d /\ r = n % d /\ r < d /\ n = q * d + r
<1>1. n \div d \in Nat /\ n % d \in Nat /\ n % d < d
  OBVIOUS
<1>2. PICK q \in Nat, r \in Nat : q = n \div d /\ r = n % d
  BY <1>1
<1>3. n = d * q + r
  BY <1>2
<1>4. n = q * d + r
  BY <1>3
<1> QED
  BY <1>1, <1>2, <1>4, Zenon

\* Division keeps order: a page below a multiple of a table's size has a smaller index.
LEMMA DivBelow ==
  ASSUME NEW n \in Nat, NEW d \in Nat \ {0}, NEW m \in Nat, n < m * d
  PROVE  n \div d < m
<1>1. PICK q \in Nat : q = n \div d /\ q * d <= n
  BY DivMod
<1>2. SUFFICES ASSUME m <= q PROVE FALSE
  BY <1>1
<1>3. m * d <= q * d
  BY <1>2
<1> QED
  BY <1>1, <1>3

\* A non-empty set of numbers has a least one.
LEMMA LeastInSet ==
  ASSUME NEW S \in SUBSET Nat, S # {}
  PROVE  Min(S) \in S /\ \A y \in S : Min(S) <= y
<1>1. \E x \in S : \A y \in S : ~ (<<y, x>> \in OpToRel(<, Nat))
  BY NatLessThanWellFounded, WFMin
<1>2. OpToRel(<, Nat) = {ss \in Nat \X Nat : ss[1] < ss[2]}
  BY Zenon DEF OpToRel
<1>3. \A x, y \in S : <<y, x>> \notin {ss \in Nat \X Nat : ss[1] < ss[2]} => x <= y
  OBVIOUS
<1>4. \E x \in S : \A y \in S : x <= y
  BY <1>1, <1>2, <1>3
<1> QED
  BY <1>4 DEF Min

\* The constants: the linear part of the address space is a whole number of tables.
LEMMA Sizes ==
  /\ LinearTables \in Nat \ {0} /\ LinearTables * PtEntries = LinearFrames
  /\ PdOf(KernelBase) \in Nat /\ PdOf(KernelBase) * PtEntries = KernelBase
  /\ NumPages \div PtEntries \in Nat /\ (NumPages \div PtEntries) * PtEntries = NumPages
  /\ PdOf(KernelBase) + LinearTables <= NumPages \div PtEntries
  /\ KernelFrame + LinearTables <= KernelEnd /\ KernelEnd < NumFrames
<1>1. /\ PtEntries \in Nat \ {0} /\ LinearFrames \in Nat /\ KernelBase \in Nat
      /\ NumPages \in Nat /\ KernelFrame \in Nat /\ KernelEnd \in Nat /\ HeapFrame \in Nat
      /\ NumFrames \in Nat
  BY VmmSizes
<1>2. /\ KernelBase % PtEntries = 0 /\ NumPages % PtEntries = 0
      /\ LinearFrames % PtEntries = 0 /\ KernelFrame + LinearTables <= KernelEnd
      /\ KernelEnd <= HeapFrame /\ HeapFrame < LinearFrames
      /\ KernelBase + LinearFrames <= NumPages /\ LinearFrames <= NumFrames
  BY VmmAssumption DEF LinearTables
<1>3. PICK a \in Nat : a = LinearTables /\ a * PtEntries = LinearFrames
  BY <1>1, <1>2, DivMod DEF LinearTables
<1>4. PICK b \in Nat : b = PdOf(KernelBase) /\ b * PtEntries = KernelBase
  <2>1. PICK b \in Nat : b = KernelBase \div PtEntries
    BY <1>1, DivMod
  <2>2. KernelBase = b * PtEntries + 0
    BY <1>1, <1>2, <2>1, DivMod
  <2> QED
    BY <1>1, <2>1, <2>2 DEF PdOf
<1>5. PICK c \in Nat : c = NumPages \div PtEntries /\ c * PtEntries = NumPages
  BY <1>1, <1>2, DivMod
<1>6. a # 0
  BY <1>1, <1>2, <1>3
<1>7. a + b <= c
  <2>1. (a + b) * PtEntries <= c * PtEntries
    BY <1>1, <1>2, <1>3, <1>4, <1>5
  <2>2. ~(c < a + b)
    <3>1. SUFFICES ASSUME c + 1 <= a + b PROVE FALSE
      OBVIOUS
    <3>2. (c + 1) * PtEntries <= (a + b) * PtEntries
      BY <1>1, <3>1
    <3> QED
      BY <1>1, <2>1, <3>2
  <2> QED
    BY <2>2
<1> QED
  BY <1>1, <1>2, <1>3, <1>4, <1>5, <1>6, <1>7

\* A page has a place in a directory and one in a table, and they determine it.
LEMMA PageParts ==
  ASSUME NEW p \in Pages
  PROVE  /\ PdOf(p) \in PdIndices /\ PtOf(p) \in PtIndices /\ p \in Nat
         /\ p = PdOf(p) * PtEntries + PtOf(p)
<1>1. PtEntries \in Nat \ {0} /\ NumPages \in Nat /\ p \in Nat /\ p < NumPages
  BY VmmSizes DEF Pages
<1>2. /\ PdOf(p) \in Nat /\ PtOf(p) \in Nat /\ PtOf(p) < PtEntries
      /\ p = PdOf(p) * PtEntries + PtOf(p)
  BY <1>1, DivMod DEF PdOf, PtOf
<1>3. PdOf(p) < NumPages \div PtEntries
  BY <1>1, Sizes, DivBelow DEF PdOf
<1> QED
  BY <1>1, <1>2, <1>3, Sizes DEF PdIndices, PtIndices

\* Address arithmetic yields pages.
LEMMA PageAtIsPage ==
  ASSUME NEW b \in Nat, NEW k \in Nat
  PROVE  PageAt(b, k) \in Pages
<1>1. NumPages \in Nat \ {0}
  BY VmmSizes, VmmAssumption
<1>2. b + k \in Nat
  OBVIOUS
<1>3. (b + k) % NumPages \in Nat /\ (b + k) % NumPages < NumPages
  BY <1>1, <1>2, DivMod
<1> QED
  BY <1>1, <1>3 DEF PageAt, Pages

\* Below the top they do not wrap.
LEMMA PageAtPlain ==
  ASSUME NEW b \in Nat, NEW k \in Nat, b + k < NumPages
  PROVE  PageAt(b, k) = b + k
BY VmmSizes DEF PageAt

-----------------------------------------------------------------------------
(* Types.                                                                  *)

\* An access ends in one of three ways.
LEMMA SeesType == \A f : Sees(f) \in {"ok", "halted", "stray"}
BY DEF Sees, Outcome

\* So do the accesses of several unmappings.
LEMMA SeesTablesType == \A ps : SeesTables(ps) \in {"ok", "halted", "stray"}
BY DEF SeesTables

\* What paging_map_page does with table t: nothing if there is none, else the entry of the
\* page is written in the table that was there or in a new, empty one.
MapsWith(t, p, f, avail) ==
  /\ t = 0 => MapPage(p, f, avail) =
       [seen |-> "ok", pd |-> pd, table |-> table, free |-> avail]
  /\ t # 0 =>
       /\ MapPage(p, f, avail).seen = Sees(t)
       /\ MapPage(p, f, avail).pd = [pd EXCEPT ![PdOf(p)] = t]
       /\ MapPage(p, f, avail).table =
            [table EXCEPT ![t] =
               [(IF pd[PdOf(p)] = t THEN table[t] ELSE EmptyTable) EXCEPT ![PtOf(p)] = f]]
       /\ MapPage(p, f, avail).free = avail \ {t}
  /\ pd[PdOf(p)] # 0 => t = pd[PdOf(p)]
  /\ pd[PdOf(p)] = 0 /\ t # 0 => t \in avail

\* There is such a table, or none is to be had.
LEMMA MapPageShape ==
  ASSUME StateInv, NEW p \in Pages, NEW f \in Frames, NEW avail \in SUBSET Frames
  PROVE  \E t \in Frames : MapsWith(t, p, f, avail)
<1>1. PdOf(p) \in PdIndices
  BY PageParts
<1>2. pd[PdOf(p)] \in Frames
  BY <1>1 DEF StateInv
<1>3. avail # {} => Min(avail) \in avail
  <2>1. avail \in SUBSET Nat
    BY VmmSizes DEF Frames
  <2> QED
    BY <2>1, LeastInSet
<1>4. 0 \in Frames
  BY VmmSizes, Sizes DEF Frames
<1>5. TableFor(p, avail) \in Frames
  BY <1>2, <1>3, <1>4 DEF TableFor
<1>6. PICK t \in Frames : t = TableFor(p, avail)
  BY <1>5
<1>7. t = 0 => MapPage(p, f, avail) =
                [seen |-> "ok", pd |-> pd, table |-> table, free |-> avail]
  BY <1>6 DEF MapPage
<1>8. ASSUME t # 0
      PROVE /\ MapPage(p, f, avail).seen = Sees(t)
            /\ MapPage(p, f, avail).pd = [pd EXCEPT ![PdOf(p)] = t]
            /\ MapPage(p, f, avail).table =
                     [table EXCEPT ![t] =
                        [(IF pd[PdOf(p)] = t THEN table[t] ELSE EmptyTable)
                           EXCEPT ![PtOf(p)] = f]]
            /\ MapPage(p, f, avail).free = avail \ {t}
  <2>1. MapPage(p, f, avail) =
          [seen |-> Sees(t),
           pd |-> [pd EXCEPT ![PdOf(p)] = t],
           table |-> [table EXCEPT ![t] =
                        [(IF pd[PdOf(p)] = t THEN table[t] ELSE EmptyTable) EXCEPT ![PtOf(p)] = f]],
           free |-> avail \ {t}]
    BY <1>6, <1>8 DEF MapPage
  <2> QED
    BY <2>1
<1>9. /\ pd[PdOf(p)] # 0 => t = pd[PdOf(p)]
      /\ pd[PdOf(p)] = 0 /\ t # 0 => t \in avail
  BY <1>3, <1>6 DEF TableFor
<1> QED
  BY <1>7, <1>8, <1>9 DEF MapsWith

\* Its results have their types.
LEMMA MapPageType ==
  ASSUME StateInv, NEW p \in Pages, NEW f \in Frames, NEW avail \in SUBSET Frames
  PROVE  /\ MapPage(p, f, avail).seen \in {"ok", "halted", "stray"}
         /\ MapPage(p, f, avail).pd \in [PdIndices -> Frames]
         /\ MapPage(p, f, avail).table \in [Frames -> [PtIndices -> Frames]]
         /\ MapPage(p, f, avail).free \subseteq avail
<1>1. PICK t \in Frames : MapsWith(t, p, f, avail)
  BY MapPageShape
<1>2. pd \in [PdIndices -> Frames] /\ table \in [Frames -> [PtIndices -> Frames]]
  BY DEF StateInv
<1>3. CASE t = 0
  BY <1>1, <1>2, <1>3 DEF MapsWith
<1>4. CASE t # 0
  <2>1. EmptyTable \in [PtIndices -> Frames]
    BY VmmSizes, Sizes DEF EmptyTable, Frames
  <2>2. (IF pd[PdOf(p)] = t THEN table[t] ELSE EmptyTable) \in [PtIndices -> Frames]
    BY <1>2, <2>1
  <2>3. PICK e \in [PtIndices -> Frames] : e = (IF pd[PdOf(p)] = t THEN table[t] ELSE EmptyTable)
    BY <2>2
  <2>4. [e EXCEPT ![PtOf(p)] = f] \in [PtIndices -> Frames]
    OBVIOUS
  <2>5. MapPage(p, f, avail).table = [table EXCEPT ![t] = [e EXCEPT ![PtOf(p)] = f]]
    BY <1>1, <1>4, <2>3 DEF MapsWith
  <2>6. MapPage(p, f, avail).table \in [Frames -> [PtIndices -> Frames]]
    BY <1>2, <2>4, <2>5
  <2>7. MapPage(p, f, avail).pd \in [PdIndices -> Frames]
    BY <1>1, <1>2, <1>4 DEF MapsWith
  <2> QED
    BY <1>1, <1>4, <2>6, <2>7, SeesType DEF MapsWith
<1> QED
  BY <1>3, <1>4

\* The lowest free frame is a frame, and free.
LEMMA LowestFree ==
  ASSUME StateInv, free # {}
  PROVE  Min(free) \in free /\ Min(free) \in Frames
<1>1. free \in SUBSET Nat
  BY VmmSizes DEF StateInv, Frames
<1> QED
  BY <1>1, LeastInSet DEF StateInv

\* Unmapping leaves tables.
LEMMA ClearedType ==
  ASSUME StateInv, NEW ps
  PROVE  Cleared(ps) \in [Frames -> [PtIndices -> Frames]]
<1>1. 0 \in Frames
  BY VmmSizes, Sizes DEF Frames
<1>2. \A t \in Frames : \A i \in PtIndices : table[t][i] \in Frames
  BY DEF StateInv
<1> QED
  BY <1>1, <1>2 DEF Cleared

\* What is given back are frames.
LEMMA ReleasedType ==
  ASSUME StateInv, NEW ps \in SUBSET Pages
  PROVE  Released(ps) \subseteq Frames \ {0}
<1>1. \A p \in ps : PdOf(p) \in PdIndices /\ PtOf(p) \in PtIndices
  BY PageParts
<1>2. 0 \in Frames
  BY VmmSizes, Sizes DEF Frames
<1>3. ASSUME NEW p \in ps PROVE GetPhysical(p) \in Frames
  BY <1>1, <1>2 DEF GetPhysical, Walk, StateInv
<1> QED
  BY <1>3 DEF Released

\* The pages of a region are pages.
LEMMA RegionPagesType ==
  ASSUME NEW r \in RegionType
  PROVE  RegionPages(r) \subseteq Pages
<1>1. r.base \in Nat
  BY VmmSizes DEF RegionType, Pages
<1>2. \A k \in 0 .. r.size - 1 : k \in Nat
  BY DEF RegionType
<1> QED
  BY <1>1, <1>2, PageAtIsPage DEF RegionPages

\* So are those of the call in progress.
LEMMA CallPagesType ==
  ASSUME StateInv
  PROVE  MappedSoFar \subseteq Pages /\ PageAt(call.base, call.at) \in Pages
<1>1. call.base \in Nat /\ call.at \in Nat
  BY VmmSizes DEF StateInv, CallType, Pages
<1>2. \A k \in 0 .. call.at - 1 : k \in Nat
  BY <1>1
<1> QED
  BY <1>1, <1>2, PageAtIsPage DEF MappedSoFar

-----------------------------------------------------------------------------
(* Region lists.                                                           *)

\* The front of a list.
LEMMA FrontPart ==
  ASSUME NEW list \in Seq(RegionType), NEW k \in 0 .. Len(list)
  PROVE  \E u \in Seq(RegionType) :
           u = SubSeq(list, 1, k) /\ Len(u) = k /\ \A i \in 1 .. k : u[i] = list[i]
<1>1. Len(list) \in Nat /\ k \in Nat /\ \A i \in 1 .. k : list[i] \in RegionType
  OBVIOUS
<1>2. /\ SubSeq(list, 1, k) \in Seq(RegionType)
      /\ Len(SubSeq(list, 1, k)) = IF 1 <= k THEN k - 1 + 1 ELSE 0
      /\ \A i \in 1 .. k - 1 + 1 : SubSeq(list, 1, k)[i] = list[1 + i - 1]
  BY <1>1, SubSeqProperties
<1>3. (IF 1 <= k THEN k - 1 + 1 ELSE 0) = k /\ k - 1 + 1 = k /\ \A i \in 1 .. k : 1 + i - 1 = i
  BY <1>1
<1>4. Len(SubSeq(list, 1, k)) = k /\ \A i \in 1 .. k : SubSeq(list, 1, k)[i] = list[i]
  BY <1>2, <1>3
<1> QED
  BY <1>2, <1>4, Zenon

\* The back of a list, from position m on.
LEMMA BackPart ==
  ASSUME NEW list \in Seq(RegionType), NEW m \in 1 .. Len(list) + 1
  PROVE  \E u \in Seq(RegionType) :
           /\ u = SubSeq(list, m, Len(list)) /\ Len(u) = Len(list) + 1 - m
           /\ \A i \in m .. Len(list) : u[i + 1 - m] = list[i]
<1>1. Len(list) \in Nat /\ m \in Nat /\ \A i \in m .. Len(list) : list[i] \in RegionType
  OBVIOUS
<1>2. PICK n \in Nat : n = Len(list)
  BY <1>1
<1>3. /\ SubSeq(list, m, n) \in Seq(RegionType)
      /\ Len(SubSeq(list, m, n)) = IF m <= n THEN n - m + 1 ELSE 0
      /\ \A i \in 1 .. n - m + 1 : SubSeq(list, m, n)[i] = list[m + i - 1]
  BY <1>1, <1>2, SubSeqProperties
<1>4. PICK u \in Seq(RegionType) :
      /\ u = SubSeq(list, m, n)
      /\ Len(u) = IF m <= n THEN n - m + 1 ELSE 0
      /\ \A i \in 1 .. n - m + 1 : u[i] = list[m + i - 1]
  BY <1>3, Zenon
<1>5. Len(u) = n + 1 - m
  BY <1>1, <1>2, <1>4
<1>6. ASSUME NEW i \in m .. n PROVE u[i + 1 - m] = list[i]
  <2>1. i + 1 - m \in 1 .. n - m + 1 /\ m + (i + 1 - m) - 1 = i
    BY <1>1, <1>2
  <2>2. u[i + 1 - m] = list[m + (i + 1 - m) - 1]
    BY <1>4, <2>1
  <2> QED
    BY <2>1, <2>2
<1> QED
  BY <1>2, <1>4, <1>5, <1>6

\* Two lists, one behind the other.
LEMMA Join ==
  ASSUME NEW s \in Seq(RegionType), NEW t \in Seq(RegionType)
  PROVE  \E u \in Seq(RegionType) :
           /\ u = s \o t /\ Len(u) = Len(s) + Len(t)
           /\ \A i \in 1 .. Len(s) : u[i] = s[i]
           /\ \A i \in Len(s) + 1 .. Len(s) + Len(t) : u[i] = t[i - Len(s)]
<1>1. Len(s) \in Nat /\ Len(t) \in Nat
  OBVIOUS
<1>2. PICK u \in Seq(RegionType) :
        /\ u = s \o t /\ Len(u) = Len(s) + Len(t)
        /\ \A i \in 1 .. Len(s) + Len(t) : u[i] = IF i <= Len(s) THEN s[i] ELSE t[i - Len(s)]
  <2>1. /\ s \o t \in Seq(RegionType) /\ Len(s \o t) = Len(s) + Len(t)
        /\ \A i \in 1 .. Len(s) + Len(t) :
             (s \o t)[i] = IF i <= Len(s) THEN s[i] ELSE t[i - Len(s)]
    BY ConcatProperties
  <2> QED
    BY <2>1, Zenon
<1>3. /\ \A i \in 1 .. Len(s) : u[i] = s[i]
      /\ \A i \in Len(s) + 1 .. Len(s) + Len(t) : u[i] = t[i - Len(s)]
  BY <1>1, <1>2
<1> QED
  BY <1>2, <1>3

\* new is list with r put at position at, behind smaller bases and before one that is not
\* smaller.
InsertedAt(new, list, r, at) ==
  /\ at \in 1 .. Len(list) + 1
  /\ new \in Seq(RegionType) /\ Len(new) = Len(list) + 1
  /\ new[at] = r
  /\ \A i \in 1 .. at - 1 : new[i] = list[i] /\ list[i].base <= r.base
  /\ \A i \in at + 1 .. Len(list) + 1 : new[i] = list[i - 1]
  /\ at <= Len(list) => list[at].base >= r.base

\* insert_region puts the region there.
LEMMA InsertShape ==
  ASSUME NEW list \in Seq(RegionType), NEW r \in RegionType
  PROVE  \E at \in Nat : InsertedAt(InsertRegion(list, r), list, r, at)
<1>1. Len(list) \in Nat /\ \A i \in 1 .. Len(list) : list[i] \in RegionType
  OBVIOUS
<1>2. /\ \A i \in 1 .. Len(list) : list[i].base \in Nat
      /\ r.base \in Nat
  BY <1>1, VmmSizes DEF RegionType, Pages
<1>3. CASE list = <<>> \/ r.base < list[1].base
  <2>1. InsertRegion(list, r) = <<r>> \o list
    BY <1>3 DEF InsertRegion
  <2>2. <<r>> \in Seq(RegionType) /\ Len(<<r>>) = 1 /\ <<r>>[1] = r
    OBVIOUS
  <2>3. PICK one \in Seq(RegionType) : one = <<r>> /\ Len(one) = 1 /\ one[1] = r
    BY <2>2
  <2>4. one \o list \in Seq(RegionType) /\ Len(one \o list) = Len(list) + 1
        /\ (one \o list)[1] = r /\ \A i \in 2 .. Len(list) + 1 : (one \o list)[i] = list[i - 1]
    BY <1>1, <2>3
  <2>5. 1 <= Len(list) => list[1].base >= r.base
    BY <1>1, <1>2, <1>3
  <2> QED
    BY <1>1, <2>1, <2>3, <2>4, <2>5 DEF InsertedAt
<1>4. CASE ~(list = <<>> \/ r.base < list[1].base)
  <2> DEFINE stops == {i \in 2 .. Len(list) : list[i].base >= r.base}
  <2>1. Len(list) >= 1
    BY <1>1, <1>4
  <2>2. PICK at \in 2 .. Len(list) + 1 :
          /\ InsertRegion(list, r) = InsertAt(list, at, r)
          /\ \A i \in 2 .. at - 1 : i \notin stops
          /\ at <= Len(list) => at \in stops
    <3>1. InsertRegion(list, r) =
            InsertAt(list, IF stops = {} THEN Len(list) + 1 ELSE Min(stops), r)
      BY <1>4 DEF InsertRegion
    <3>2. CASE stops = {}
      BY <1>1, <2>1, <3>1, <3>2
    <3>3. CASE stops # {}
      <4>1. stops \in SUBSET Nat
        BY <1>1
      <4>2. Min(stops) \in stops /\ \A i \in stops : Min(stops) <= i
        BY <3>3, <4>1, LeastInSet
      <4>3. PICK m \in stops : m = Min(stops) /\ \A i \in stops : m <= i
        BY <4>2
      <4>4. m \in 2 .. Len(list)
        BY <1>1, <4>3
      <4>5. m \in 2 .. Len(list) + 1
        BY <1>1, <4>4
      <4>6. ASSUME NEW i \in 2 .. m - 1, i \in stops PROVE FALSE
        <5>1. m <= i
          BY <4>3, <4>6
        <5> QED
          BY <4>4, <5>1
      <4> QED
        BY <3>1, <3>3, <4>3, <4>5, <4>6
    <3> QED
      BY <3>2, <3>3
  <2>3. \A i \in 1 .. at - 1 : list[i].base <= r.base
    <3>1. ASSUME NEW i \in 1 .. at - 1 PROVE list[i].base <= r.base
      <4>1. CASE i = 1
        BY <1>2, <1>4, <2>1, <4>1
      <4>2. CASE i # 1
        BY <1>1, <1>2, <2>2, <4>2
      <4> QED
        BY <4>1, <4>2
    <3> QED
      BY <3>1
  <2>4. at <= Len(list) => list[at].base >= r.base
    BY <2>2
  <2> HIDE DEF stops
  <2>5. PICK a \in Seq(RegionType) :
          /\ a = SubSeq(list, 1, at - 1) /\ Len(a) = at - 1
          /\ \A i \in 1 .. at - 1 : a[i] = list[i]
    <3>1. PICK k \in 0 .. Len(list) : k = at - 1
      BY <1>1
    <3>2. PICK a \in Seq(RegionType) :
            a = SubSeq(list, 1, k) /\ Len(a) = k /\ \A i \in 1 .. k : a[i] = list[i]
      BY FrontPart
    <3> QED
      BY <3>1, <3>2
  <2>6. PICK b \in Seq(RegionType) :
          /\ b = SubSeq(list, at, Len(list)) /\ Len(b) = Len(list) + 1 - at
          /\ \A i \in at .. Len(list) : b[i + 1 - at] = list[i]
    <3>1. at \in 1 .. Len(list) + 1
      BY <1>1
    <3> QED
      BY <3>1, BackPart
  <2>7. PICK one \in Seq(RegionType) : one = <<r>> /\ Len(one) = 1 /\ one[1] = r
    <3>1. <<r>> \in Seq(RegionType) /\ Len(<<r>>) = 1 /\ <<r>>[1] = r
      OBVIOUS
    <3> QED
      BY <3>1
  <2>8. PICK c \in Seq(RegionType) :
          c = a \o one /\ Len(c) = at /\ c[at] = r /\ \A i \in 1 .. at - 1 : c[i] = list[i]
    <3>1. PICK c \in Seq(RegionType) :
            /\ c = a \o one /\ Len(c) = Len(a) + Len(one)
            /\ \A i \in 1 .. Len(a) : c[i] = a[i]
            /\ \A i \in Len(a) + 1 .. Len(a) + Len(one) : c[i] = one[i - Len(a)]
      BY Join
    <3>2. Len(c) = at /\ c[at] = r /\ \A i \in 1 .. at - 1 : c[i] = list[i]
      BY <1>1, <2>5, <2>7, <3>1
    <3> QED
      BY <3>1, <3>2
  <2>9. PICK d \in Seq(RegionType) :
          /\ d = c \o b /\ Len(d) = Len(list) + 1 /\ d[at] = r
          /\ \A i \in 1 .. at - 1 : d[i] = list[i]
          /\ \A i \in at + 1 .. Len(list) + 1 : d[i] = list[i - 1]
    <3>1. PICK d \in Seq(RegionType) :
            /\ d = c \o b /\ Len(d) = Len(c) + Len(b)
            /\ \A i \in 1 .. Len(c) : d[i] = c[i]
            /\ \A i \in Len(c) + 1 .. Len(c) + Len(b) : d[i] = b[i - Len(c)]
      BY Join
    <3>2. Len(d) = Len(list) + 1
      BY <1>1, <2>6, <2>8, <3>1
    <3>3. d[at] = r /\ \A i \in 1 .. at - 1 : d[i] = list[i]
      BY <2>8, <3>1
    <3>4. ASSUME NEW i \in at + 1 .. Len(list) + 1 PROVE d[i] = list[i - 1]
      <4>1. PICK j \in at .. Len(list) : j = i - 1 /\ j + 1 - at = i - at
        BY <1>1
      <4>2. i \in Len(c) + 1 .. Len(c) + Len(b) /\ i - Len(c) = i - at
        BY <1>1, <2>6, <2>8
      <4>3. d[i] = b[i - at]
        BY <3>1, <4>2
      <4> QED
        BY <2>6, <4>1, <4>3
    <3> QED
      BY <3>1, <3>2, <3>3, <3>4
  <2>10. InsertRegion(list, r) = d
    BY <2>2, <2>5, <2>6, <2>7, <2>8, <2>9 DEF InsertAt
  <2>11. at \in Nat /\ at \in 1 .. Len(list) + 1
    BY <1>1
  <2> QED
    BY <2>3, <2>4, <2>9, <2>10, <2>11 DEF InsertedAt
<1> QED
  BY <1>3, <1>4

\* new is list without the element at position at.
RemovedAt(new, list, at) ==
  /\ new \in Seq(RegionType) /\ Len(new) = Len(list) - 1
  /\ \A i \in 1 .. at - 1 : new[i] = list[i]
  /\ \A i \in at .. Len(list) - 1 : new[i] = list[i + 1]

\* remove_region takes it out.
LEMMA RemoveShape ==
  ASSUME NEW list \in Seq(RegionType), NEW at \in 1 .. Len(list)
  PROVE  RemovedAt(RemoveRegion(list, at), list, at)
<1>1. Len(list) \in Nat
  OBVIOUS
<1>2. PICK k \in 0 .. Len(list) : k = at - 1
  BY <1>1
<1>3. PICK a \in Seq(RegionType) :
        a = SubSeq(list, 1, k) /\ Len(a) = k /\ \A i \in 1 .. k : a[i] = list[i]
  BY FrontPart
<1>4. PICK m \in 1 .. Len(list) + 1 : m = at + 1
  BY <1>1
<1>5. PICK b \in Seq(RegionType) :
        /\ b = SubSeq(list, m, Len(list)) /\ Len(b) = Len(list) + 1 - m
        /\ \A i \in m .. Len(list) : b[i + 1 - m] = list[i]
  BY BackPart
<1>6. PICK c \in Seq(RegionType) :
        /\ c = a \o b /\ Len(c) = Len(a) + Len(b)
        /\ \A i \in 1 .. Len(a) : c[i] = a[i]
        /\ \A i \in Len(a) + 1 .. Len(a) + Len(b) : c[i] = b[i - Len(a)]
  BY Join
<1>7. PICK n \in Nat : n = Len(list) /\ Len(a) = at - 1 /\ Len(b) = n - at
  BY <1>1, <1>2, <1>3, <1>4, <1>5
<1>8. Len(c) = Len(list) - 1
  BY <1>6, <1>7
<1>9. \A i \in 1 .. at - 1 : c[i] = list[i]
  BY <1>2, <1>3, <1>6
<1>10. ASSUME NEW i \in at .. Len(list) - 1 PROVE c[i] = list[i + 1]
  <2>1. PICK j \in m .. Len(list) : j = i + 1 /\ j + 1 - m = i - k
    BY <1>1, <1>2, <1>4
  <2>2. i \in Len(a) + 1 .. Len(a) + Len(b) /\ i - Len(a) = i - k
    BY <1>2, <1>7
  <2>3. c[i] = b[i - k]
    BY <1>6, <2>2
  <2> QED
    BY <1>5, <2>1, <2>3
<1>11. RemoveRegion(list, at) = c
  BY <1>2, <1>3, <1>4, <1>5, <1>6 DEF RemoveRegion, RemoveAt
<1> QED
  BY <1>9, <1>10, <1>11, <1>8 DEF RemovedAt

\* A list that insert_region puts a region into stays in order if the region overlaps none
\* of the others.
LEMMA InsertOrdered ==
  ASSUME NEW list \in Seq(RegionType), Ordered(list),
         NEW r \in RegionType, r.size > 0, r.base + r.size < NumPages,
         \A i \in 1 .. Len(list) :
           list[i].base + list[i].size <= r.base \/ r.base + r.size <= list[i].base
  PROVE  Ordered(InsertRegion(list, r))
<1>1. PICK at \in Nat, new \in Seq(RegionType) :
        new = InsertRegion(list, r) /\ InsertedAt(new, list, r, at)
  <2>1. PICK at \in Nat : InsertedAt(InsertRegion(list, r), list, r, at)
    BY InsertShape
  <2>2. InsertRegion(list, r) \in Seq(RegionType)
    BY <2>1 DEF InsertedAt
  <2> QED
    BY <2>1, <2>2
<1>2. PICK n \in Nat : n = Len(list)
  OBVIOUS
<1>3. \A i \in 1 .. n : list[i].base \in Nat /\ list[i].size \in Nat
  <2>1. ASSUME NEW i \in 1 .. n PROVE list[i] \in RegionType
    BY <1>2
  <2>2. ASSUME NEW x \in RegionType PROVE x.base \in Nat /\ x.size \in Nat
    BY VmmSizes DEF RegionType, Pages
  <2> QED
    BY <2>1, <2>2
<1>4. PICK b \in Nat, z \in Nat : b = r.base /\ z = r.size
  BY VmmSizes DEF RegionType, Pages
<1>5. /\ at \in 1 .. n + 1 /\ Len(new) = n + 1 /\ new[at] = r
      /\ \A i \in 1 .. at - 1 : new[i] = list[i] /\ list[i].base <= b
      /\ \A i \in at + 1 .. n + 1 : new[i] = list[i - 1]
      /\ at <= n => list[at].base >= b
  BY <1>1, <1>2, <1>4 DEF InsertedAt
<1>6. /\ z > 0 /\ b + z < NumPages
      /\ \A i \in 1 .. n : list[i].size > 0 /\ list[i].base + list[i].size < NumPages
      /\ \A i, j \in 1 .. n : i < j => list[i].base + list[i].size <= list[j].base
      /\ \A i \in 1 .. n : list[i].base + list[i].size <= b \/ b + z <= list[i].base
  BY <1>2, <1>4 DEF Ordered
<1>7. ASSUME NEW i \in 1 .. at - 1 PROVE list[i].base + list[i].size <= b
  <2>1. i \in 1 .. n
    BY <1>5
  <2> QED
    BY <1>3, <1>5, <1>6, <2>1
<1>8. ASSUME NEW i \in at .. n PROVE b + z <= list[i].base
  <2>1. i \in 1 .. n /\ at \in 1 .. n
    BY <1>5
  <2>2. list[at].base <= list[i].base
    <3>1. CASE i = at
      BY <1>3, <2>1, <3>1
    <3>2. CASE i # at
      <4>1. list[at].base + list[at].size <= list[i].base
        BY <1>6, <2>1, <3>2
      <4> QED
        BY <1>3, <2>1, <4>1
    <3> QED
      BY <3>1, <3>2
  <2>3. b <= list[i].base
    BY SMTT(40), <1>3, <1>5, <2>1, <2>2
  <2> QED
    BY <1>3, <1>6, <2>1, <2>3
<1>9. ASSUME NEW i \in 1 .. n + 1
      PROVE new[i].size > 0 /\ new[i].base + new[i].size < NumPages
  <2>1. CASE i = at
    BY <1>4, <1>5, <1>6, <2>1
  <2>2. CASE i < at
    BY <1>5, <1>6, <2>2
  <2>3. CASE i > at
    <3>1. PICK k \in 1 .. n : k = i - 1
      BY <1>5, <2>3
    <3>2. new[i] = list[k]
      BY <1>5, <2>3, <3>1
    <3> QED
      BY <1>6, <3>2
  <2> QED
    BY <2>1, <2>2, <2>3
<1>10. ASSUME NEW i \in 1 .. n + 1, NEW j \in 1 .. n + 1, i < j
       PROVE  new[i].base + new[i].size <= new[j].base
  <2>1. CASE j < at
    <3>1. i \in 1 .. n /\ j \in 1 .. n /\ new[i] = list[i] /\ new[j] = list[j]
      BY <1>5, <1>10, <2>1
    <3> QED
      BY <1>6, <1>10, <3>1
  <2>2. CASE j = at
    <3>1. i \in 1 .. at - 1 /\ new[i] = list[i] /\ new[j] = r
      BY <1>5, <1>10, <2>2
    <3> QED
      BY <1>4, <1>7, <3>1
  <2>3. CASE j > at /\ i = at
    <3>1. PICK m \in at .. n : m = j - 1
      BY <1>5, <2>3
    <3>2. new[i] = r /\ new[j] = list[m]
      BY <1>5, <2>3, <3>1
    <3> QED
      BY <1>4, <1>8, <3>2
  <2>4. CASE j > at /\ i > at
    <3>1. PICK k \in 1 .. n, m \in 1 .. n : k = i - 1 /\ m = j - 1 /\ k < m
      BY <1>5, <1>10, <2>4
    <3>2. new[i] = list[k] /\ new[j] = list[m]
      BY <1>5, <2>4, <3>1
    <3> QED
      BY <1>6, <3>1, <3>2
  <2>5. CASE j > at /\ i < at
    <3>1. PICK k \in 1 .. n, m \in 1 .. n : k = i /\ m = j - 1 /\ k < m
      BY <1>5, <1>10, <2>5
    <3>2. new[i] = list[k] /\ new[j] = list[m]
      BY <1>5, <2>5, <3>1
    <3> QED
      BY <1>6, <3>1, <3>2
  <2> QED
    BY <2>1, <2>2, <2>3, <2>4, <2>5
<1> QED
  BY <1>1, <1>5, <1>9, <1>10 DEF Ordered

\* What is left of a list in order is in order.
LEMMA RemoveOrdered ==
  ASSUME NEW list \in Seq(RegionType), Ordered(list), NEW at \in 1 .. Len(list)
  PROVE  Ordered(RemoveRegion(list, at))
<1>1. PICK new \in Seq(RegionType) : new = RemoveRegion(list, at) /\ RemovedAt(new, list, at)
  BY RemoveShape DEF RemovedAt
<1>2. PICK n \in Nat : n = Len(list)
  OBVIOUS
<1>3. /\ Len(new) = n - 1
      /\ \A i \in 1 .. at - 1 : new[i] = list[i]
      /\ \A i \in at .. n - 1 : new[i] = list[i + 1]
      /\ \A i \in 1 .. n : list[i].size > 0 /\ list[i].base + list[i].size < NumPages
      /\ \A i, j \in 1 .. n : i < j => list[i].base + list[i].size <= list[j].base
  BY <1>1, <1>2 DEF RemovedAt, Ordered
<1>4. ASSUME NEW i \in 1 .. n - 1
      PROVE  \E j \in 1 .. n : j = (IF i < at THEN i ELSE i + 1) /\ new[i] = list[j]
  <2>1. CASE i < at
    <3>1. i \in 1 .. n /\ i \in 1 .. at - 1
      BY <2>1
    <3> QED
      BY <1>3, <2>1, <3>1
  <2>2. CASE ~(i < at)
    <3>1. i + 1 \in 1 .. n /\ i \in at .. n - 1
      BY <2>2
    <3> QED
      BY <1>3, <2>2, <3>1
  <2> QED
    BY <2>1, <2>2
<1>5. \A i \in 1 .. n - 1 : new[i].size > 0 /\ new[i].base + new[i].size < NumPages
  BY <1>3, <1>4
<1>6. ASSUME NEW i \in 1 .. n - 1, NEW j \in 1 .. n - 1, i < j
      PROVE  new[i].base + new[i].size <= new[j].base
  <2>1. PICK k \in 1 .. n : k = (IF i < at THEN i ELSE i + 1) /\ new[i] = list[k]
    BY <1>4
  <2>2. PICK m \in 1 .. n : m = (IF j < at THEN j ELSE j + 1) /\ new[j] = list[m]
    BY <1>4
  <2>3. k < m
    BY <1>6, <2>1, <2>2
  <2> QED
    BY <1>3, <2>1, <2>2, <2>3
<1> QED
  BY <1>1, <1>3, <1>5, <1>6 DEF Ordered

\* A list of n regions of vmm_init, in order, all of them below page top.
Registered(list, n, top) ==
  /\ list \in Seq(RegionType) /\ Len(list) = n /\ Ordered(list)
  /\ \A i \in 1 .. n : list[i] \in KernelRegions /\ list[i].base + list[i].size <= top

\* The regions vmm_init registers lie in the address space, one behind the other.
LEMMA InitialRegions ==
  /\ KernelRegions \subseteq RegionType
  /\ LowRegion.size > 0 /\ LowRegion.base + LowRegion.size <= ImageRegion.base
  /\ ImageRegion.size > 0 /\ ImageRegion.base + ImageRegion.size <= HeapRegion.base
  /\ KernelEnd < HeapFrame => RestRegion.size > 0
  /\ RestRegion.base = ImageRegion.base + ImageRegion.size
  /\ RestRegion.base + RestRegion.size = HeapRegion.base
  /\ HeapRegion.size > 0 /\ HeapRegion.base + HeapRegion.size < NumPages
<1>1. /\ KernelBase \in Nat /\ KernelFrame \in Nat \ {0, 1} /\ KernelEnd \in Nat
      /\ HeapFrame \in Nat /\ HeapPages \in Nat \ {0} /\ NumPages \in Nat
      /\ LinearFrames \in Nat /\ DefaultHint \in Nat
  BY VmmSizes
<1>2. /\ KernelFrame < KernelEnd /\ KernelEnd <= HeapFrame /\ HeapFrame < LinearFrames
      /\ KernelBase + LinearFrames <= NumPages
      /\ KernelBase + HeapFrame + HeapPages < NumPages
  BY <1>1, Sizes, VmmAssumption
<1>3. /\ LowRegion \in RegionType /\ ImageRegion \in RegionType /\ RestRegion \in RegionType
      /\ HeapRegion \in RegionType
  BY <1>1, <1>2 DEF Region, RegionType, Pages, HeapBase, Mmio, KernelCode, IdentityMap,
                    KernelHeap, LowRegion, ImageRegion, RestRegion, HeapRegion
<1>4. /\ LowRegion.base = KernelBase + 1 /\ LowRegion.size = KernelFrame - 1
      /\ ImageRegion.base = KernelBase + KernelFrame /\ ImageRegion.size = KernelEnd - KernelFrame
      /\ RestRegion.base = KernelBase + KernelEnd /\ RestRegion.size = HeapFrame - KernelEnd
      /\ HeapRegion.base = KernelBase + HeapFrame /\ HeapRegion.size = HeapPages
  BY DEF Region, HeapBase, LowRegion, ImageRegion, RestRegion, HeapRegion
<1>5. KernelRegions \subseteq RegionType
  BY <1>3 DEF KernelRegions
<1> QED
  BY <1>1, <1>2, <1>4, <1>5

\* A region of vmm_init behind the others.
LEMMA RegisterNext ==
  ASSUME NEW list, NEW n \in Nat, NEW top \in Nat, Registered(list, n, top),
         NEW r \in RegionType, r \in KernelRegions, r.size > 0, top <= r.base,
         r.base + r.size < NumPages
  PROVE  Registered(InsertRegion(list, r), n + 1, r.base + r.size)
<1>1. PICK b \in Nat, z \in Nat : b = r.base /\ z = r.size
  BY VmmSizes DEF RegionType, Pages
<1>2. /\ list \in Seq(RegionType) /\ Len(list) = n /\ Ordered(list)
      /\ \A i \in 1 .. n : list[i] \in KernelRegions /\ list[i].base + list[i].size <= top
  BY DEF Registered
<1>3. \A i \in 1 .. n : list[i].base \in Nat /\ list[i].size \in Nat
  <2>1. ASSUME NEW i \in 1 .. n PROVE list[i] \in RegionType
    BY <1>2
  <2>2. ASSUME NEW x \in RegionType PROVE x.base \in Nat /\ x.size \in Nat
    BY VmmSizes DEF RegionType, Pages
  <2> QED
    BY <2>1, <2>2
<1>4. \A i \in 1 .. n : list[i].base + list[i].size <= b
  BY <1>1, <1>2, <1>3
<1>5. Ordered(InsertRegion(list, r))
  BY <1>1, <1>2, <1>4, InsertOrdered
<1>6. PICK at \in Nat, new \in Seq(RegionType) :
        new = InsertRegion(list, r) /\ InsertedAt(new, list, r, at)
  <2>1. PICK at \in Nat : InsertedAt(InsertRegion(list, r), list, r, at)
    BY <1>2, InsertShape
  <2>2. InsertRegion(list, r) \in Seq(RegionType)
    BY <2>1 DEF InsertedAt
  <2> QED
    BY <2>1, <2>2
<1>7. /\ at \in 1 .. n + 1 /\ Len(new) = n + 1 /\ new[at] = r
      /\ \A i \in 1 .. at - 1 : new[i] = list[i]
      /\ \A i \in at + 1 .. n + 1 : new[i] = list[i - 1]
  BY <1>2, <1>6 DEF InsertedAt
<1>8. ASSUME NEW i \in 1 .. n + 1
      PROVE  new[i] \in KernelRegions /\ new[i].base + new[i].size <= b + z
  <2>1. CASE i = at
    BY <1>1, <1>7, <2>1
  <2>2. CASE i # at
    <3>1. PICK k \in 1 .. n : new[i] = list[k]
      <4>1. CASE i < at
        BY <1>7, <4>1
      <4>2. CASE i > at
        <5>1. PICK k \in 1 .. n : k = i - 1
          BY <1>7, <4>2
        <5> QED
          BY SMTT(40), <1>7, <4>2, <5>1
      <4> QED
        BY <1>7, <2>2, <4>1, <4>2
    <3> QED
      BY <1>2, <1>3, <1>4, <3>1
  <2> QED
    BY <2>1, <2>2
<1> QED
  BY <1>1, <1>5, <1>6, <1>7, <1>8 DEF Registered

\* insert_region loses nothing.
LEMMA InsertKeeps ==
  ASSUME NEW list \in Seq(RegionType), NEW r \in RegionType
  PROVE  /\ InsertRegion(list, r) \in Seq(RegionType)
         /\ \E i \in 1 .. Len(InsertRegion(list, r)) : InsertRegion(list, r)[i] = r
         /\ \A k \in 1 .. Len(list) :
              \E i \in 1 .. Len(InsertRegion(list, r)) : InsertRegion(list, r)[i] = list[k]
<1>1. PICK at \in Nat : InsertedAt(InsertRegion(list, r), list, r, at)
  BY InsertShape
<1>2. PICK new \in Seq(RegionType) : new = InsertRegion(list, r)
  BY <1>1 DEF InsertedAt
<1>3. PICK n \in Nat : n = Len(list)
  OBVIOUS
<1>4. /\ at \in 1 .. n + 1 /\ Len(new) = n + 1 /\ new[at] = r
      /\ \A i \in 1 .. at - 1 : new[i] = list[i]
      /\ \A i \in at + 1 .. n + 1 : new[i] = list[i - 1]
  BY <1>1, <1>2, <1>3 DEF InsertedAt
<1>5. ASSUME NEW k \in 1 .. n PROVE \E i \in 1 .. n + 1 : new[i] = list[k]
  <2>1. CASE k < at
    BY <1>4, <2>1
  <2>2. CASE k >= at
    <3>1. PICK i \in at + 1 .. n + 1 : i - 1 = k /\ i \in 1 .. n + 1
      <4>1. k + 1 \in at + 1 .. n + 1 /\ (k + 1) - 1 = k /\ k + 1 \in 1 .. n + 1
        BY <1>4, <2>2
      <4> QED
        BY <4>1
    <3>2. new[i] = list[k]
      BY <1>4, <3>1
    <3> QED
      BY <3>1, <3>2
  <2> QED
    BY <1>4, <2>1, <2>2
<1>6. \E i \in 1 .. n + 1 : new[i] = r
  BY <1>4
<1> QED
  BY <1>2, <1>3, <1>4, <1>5, <1>6

\* The list that vmm_init makes.
LEMMA VmmInitList ==
  ASSUME StateInv, VmmInit
  PROVE  \E n \in {3, 4}, list \in Seq(RegionType) :
           /\ Registered(list, n, NumPages - 1) /\ \E i \in 1 .. n : list[i] = HeapRegion
           /\ regions' = [regions EXCEPT ![Kernel] = list] /\ pool' = n
<1> DEFINE low    == InsertRegion(<<>>, LowRegion)
           image  == InsertRegion(low, ImageRegion)
           rest   == IF KernelEnd < HeapFrame THEN InsertRegion(image, RestRegion) ELSE image
           list   == InsertRegion(rest, HeapRegion)
<1>1. regions' = [regions EXCEPT ![Kernel] = list]
  BY DEF VmmInit, RegisterExisting, LowRegion, ImageRegion, RestRegion, HeapRegion
<1>2. /\ \A r \in KernelRegions : r.base \in Nat /\ r.size \in Nat /\ r \in RegionType
      /\ LowRegion \in KernelRegions /\ ImageRegion \in KernelRegions
      /\ RestRegion \in KernelRegions /\ HeapRegion \in KernelRegions /\ NumPages \in Nat
  <2>1. ASSUME NEW r \in RegionType PROVE r.base \in Nat /\ r.size \in Nat
    BY VmmSizes DEF RegionType, Pages
  <2>2. NumPages \in Nat
    BY VmmSizes
  <2>3. /\ LowRegion \in KernelRegions /\ ImageRegion \in KernelRegions
        /\ RestRegion \in KernelRegions /\ HeapRegion \in KernelRegions
    BY DEF KernelRegions
  <2> QED
    BY <2>1, <2>2, <2>3, InitialRegions
<1>3. /\ LowRegion.base + LowRegion.size \in Nat /\ ImageRegion.base + ImageRegion.size \in Nat
      /\ RestRegion.base + RestRegion.size \in Nat
      /\ LowRegion.base + LowRegion.size < NumPages
      /\ ImageRegion.base + ImageRegion.size < NumPages
      /\ RestRegion.base + RestRegion.size < NumPages
  BY <1>2, InitialRegions
<1>4. Registered(low, 1, LowRegion.base + LowRegion.size)
  <2>1. Registered(<<>>, 0, 0)
    BY DEF Registered, Ordered
  <2>2. Registered(low, 0 + 1, LowRegion.base + LowRegion.size)
    BY <1>2, <1>3, <2>1, InitialRegions, RegisterNext
  <2> QED
    BY <2>2
<1> HIDE DEF low
<1>5. Registered(image, 2, ImageRegion.base + ImageRegion.size)
  <2>1. Registered(image, 1 + 1, ImageRegion.base + ImageRegion.size)
    BY <1>2, <1>3, <1>4, InitialRegions, RegisterNext
  <2> QED
    BY <2>1
<1> HIDE DEF image
<1>6. PICK n \in {2, 3}, top \in Nat : Registered(rest, n, top) /\ top <= HeapRegion.base
  <2>1. CASE KernelEnd < HeapFrame
    <3>1. Registered(rest, 2 + 1, RestRegion.base + RestRegion.size)
      BY <1>2, <1>3, <1>5, <2>1, InitialRegions, RegisterNext
    <3>2. RestRegion.base + RestRegion.size <= HeapRegion.base
      BY <1>2, InitialRegions
    <3> QED
      BY <1>3, <3>1, <3>2
  <2>2. CASE ~(KernelEnd < HeapFrame)
    BY <1>3, <1>5, <2>2, InitialRegions
  <2> QED
    BY <2>1, <2>2
<1> HIDE DEF rest
<1>7. PICK m \in {3, 4} : m = n + 1
  BY <1>6
<1>8. Registered(list, m, HeapRegion.base + HeapRegion.size)
  <2>1. Registered(list, n + 1, HeapRegion.base + HeapRegion.size)
    BY <1>2, <1>6, InitialRegions, RegisterNext
  <2> QED
    BY <1>7, <2>1
<1>9. list \in Seq(RegionType) /\ Len(list) = m /\ \E i \in 1 .. m : list[i] = HeapRegion
  <2>1. rest \in Seq(RegionType) /\ HeapRegion \in RegionType
    BY <1>2, <1>6 DEF Registered
  <2>2. list \in Seq(RegionType) /\ Len(list) = m
    BY <1>8 DEF Registered
  <2> QED
    BY <2>1, <2>2, InsertKeeps
<1> HIDE DEF list
<1>10. Registered(list, m, NumPages - 1)
  <2>1. ASSUME NEW i \in 1 .. m PROVE list[i].base + list[i].size <= NumPages - 1
    <3>1. list[i] \in KernelRegions /\ list[i].base + list[i].size <= HeapRegion.base + HeapRegion.size
      BY <1>8 DEF Registered
    <3>2. list[i].base \in Nat /\ list[i].size \in Nat
      BY <1>2, <3>1
    <3> QED
      BY <1>2, <3>1, <3>2, InitialRegions
  <2> QED
    BY <1>8, <2>1 DEF Registered
<1>11. pool' = m
  <2>1. Kernel \in DOMAIN regions
    BY DEF StateInv, AllSpaces
  <2>2. regions'[Kernel] = list
    BY <1>1, <2>1
  <2> QED
    BY <1>9, <2>2 DEF VmmInit
<1> QED
  BY <1>1, <1>9, <1>10, <1>11

\* A copy of the first regions, as many as the pool has.
LEMMA CopiedRegions ==
  ASSUME StateInv
  PROVE  \E c \in Nat, list \in Seq(RegionType) :
           /\ c = Min({Len(regions[Kernel]), MaxRegions - pool})
           /\ c <= Len(regions[Kernel]) /\ c <= MaxRegions - pool
           /\ list = SubSeq(regions[Kernel], 1, c) /\ Len(list) = c
           /\ \A i \in 1 .. c : list[i] = regions[Kernel][i]
<1>1. PICK old \in Seq(RegionType) : old = regions[Kernel]
  BY DEF StateInv, AllSpaces
<1>2. PICK n \in Nat : n = Len(old)
  OBVIOUS
<1>3. PICK m \in Nat : m = MaxRegions - pool
  BY VmmSizes DEF StateInv
<1>4. Min({n, m}) \in {n, m} /\ \A y \in {n, m} : Min({n, m}) <= y
  BY LeastInSet
<1>5. PICK c \in Nat : c = Min({n, m}) /\ c <= n /\ c <= m
  BY <1>4
<1>6. PICK u \in Seq(RegionType) :
        u = SubSeq(old, 1, c) /\ Len(u) = c /\ \A i \in 1 .. c : u[i] = old[i]
  <2>1. c \in 0 .. Len(old)
    BY <1>2, <1>5
  <2> QED
    BY <2>1, FrontPart
<1> QED
  BY <1>1, <1>2, <1>3, <1>5, <1>6

\* The position of the region that vmm_unmap_region finds.
LEMMA UnmapPosition ==
  ASSUME StateInv, NEW s \in AllSpaces, NEW i \in DOMAIN regions[s]
  PROVE  \E at \in 1 .. Len(regions[s]) :
           at = Min({j \in DOMAIN regions[s] : regions[s][j].base = regions[s][i].base})
<1>1. PICK list \in Seq(RegionType) : list = regions[s]
  BY DEF StateInv
<1>2. DOMAIN list = 1 .. Len(list) /\ Len(list) \in Nat
  OBVIOUS
<1>3. PICK S \in SUBSET Nat : S = {j \in DOMAIN list : list[j].base = list[i].base}
  <2>1. {j \in DOMAIN list : list[j].base = list[i].base} \in SUBSET Nat
    BY <1>2
  <2> QED
    BY <2>1, Zenon
<1>4. S # {}
  BY <1>1, <1>3
<1>5. Min(S) \in S
  BY <1>4, LeastInSet
<1>6. Min(S) \in 1 .. Len(list)
  BY <1>2, <1>3, <1>5
<1> QED
  BY <1>1, <1>3, <1>6

\* No call is a call.
LEMMA NoCallType == NoCall \in CallType /\ NoCall.at <= NoCall.size /\ NoCall.op = "none"
<1>1. 0 \in Pages
  BY VmmSizes, VmmAssumption DEF Pages
<1> QED
  BY <1>1 DEF NoCall, CallType, AllSpaces

\* The machine starts within the types.
LEMMA StateInit == Init => StateInv
<1> SUFFICES ASSUME Init PROVE StateInv
  OBVIOUS
<1>1. 0 \in Frames /\ MaxRegions \in Nat /\ HeapPages \in Nat /\ Ram \subseteq Frames
  BY VmmSizes, VmmAssumption, Sizes DEF Frames
<1>2. EmptyTable \in [PtIndices -> Frames]
  BY <1>1 DEF EmptyTable
<1>3. regions \in [AllSpaces -> Seq(RegionType)]
  BY DEF Init
<1> QED
  BY <1>1, <1>2, <1>3, NoCallType DEF Init, StateInv, Live

\* The steps that map a page keep the types.
LEMMA StateMapping ==
  ASSUME StateInv, HeapStep \/ MapStep
  PROVE  StateInv'
<1>1. PICK p \in Pages : p = PageAt(call.base, call.at)
  BY CallPagesType
<1>2. free # {} /\ call.at < call.size /\ phase \in {"heap", "ready"}
      /\ call.op \in {"heap", "map"}
  BY DEF HeapStep, MapStep
<1>3. PICK f \in Frames : f = Min(free)
  BY <1>2, LowestFree
<1>4. PICK avail \in SUBSET Frames : avail = free \ {f}
  BY DEF StateInv
<1>5. /\ MapPage(p, f, avail).seen \in {"ok", "halted", "stray"}
      /\ MapPage(p, f, avail).pd \in [PdIndices -> Frames]
      /\ MapPage(p, f, avail).table \in [Frames -> [PtIndices -> Frames]]
      /\ MapPage(p, f, avail).free \subseteq avail
  BY MapPageType
<1>6. /\ pd' = MapPage(p, f, avail).pd /\ table' = MapPage(p, f, avail).table
      /\ free' = MapPage(p, f, avail).free
      /\ call' = [call EXCEPT !.at = @ + 1]
      /\ UNCHANGED <<dirs, dirFrame, regions, pool, cr3, heapTop>>
  BY <1>1, <1>3, <1>4 DEF HeapStep, MapStep, spaceVars
<1>7. stranded' \subseteq Frames
  BY <1>1, <1>3, <1>4 DEF HeapStep, MapStep, StateInv
<1>8. phase' \in {"heap", "ready", "halted", "stray"}
  <2>1. CASE HeapStep
    BY <1>1, <1>2, <1>3, <1>4, <1>5, <2>1 DEF HeapStep
  <2>2. CASE MapStep
    <3>1. \A g, h : Outcome(g, h) \in {"ok", "halted", "stray"}
      BY DEF Outcome
    <3> QED
      BY <1>1, <1>2, <1>3, <1>4, <1>5, <2>2, <3>1 DEF MapStep
  <2> QED
    BY <2>1, <2>2
<1>9. /\ call' \in CallType /\ call'.at <= call'.size /\ call'.op = call.op
      /\ call'.base = call.base /\ call'.size = call.size /\ call'.space = call.space
  <2>1. PICK c \in CallType : c = call
    BY DEF StateInv
  <2>2. PICK n \in Nat : n = c.at + 1 /\ n <= c.size
    BY <1>2, <2>1 DEF CallType
  <2>3. call' = [c EXCEPT !.at = n]
    BY <1>6, <2>1, <2>2
  <2>4. /\ [c EXCEPT !.at = n] \in CallType /\ [c EXCEPT !.at = n].at = n
        /\ [c EXCEPT !.at = n].op = c.op /\ [c EXCEPT !.at = n].base = c.base
        /\ [c EXCEPT !.at = n].size = c.size /\ [c EXCEPT !.at = n].space = c.space
    BY DEF CallType
  <2> QED
    BY <2>1, <2>2, <2>3, <2>4
<1> QED
  BY <1>4, <1>5, <1>6, <1>7, <1>8, <1>9 DEF StateInv, Live

\* Giving pages back keeps the types.
LEMMA StateRollback ==
  ASSUME StateInv, phase = "ready", Rollback
  PROVE  StateInv'
<1>1. MappedSoFar \subseteq Pages
  BY CallPagesType
<1>2. Released(MappedSoFar) \subseteq Frames
  BY <1>1, ReleasedType
<1>3. Cleared(MappedSoFar) \in [Frames -> [PtIndices -> Frames]]
  BY ClearedType
<1>4. phase' \in {"ready", "halted", "stray"}
  BY SeesTablesType DEF Rollback
<1> QED
  BY <1>2, <1>3, <1>4, NoCallType DEF Rollback, StateInv, Live, spaceVars

\* So do the calls on regions and spaces.
LEMMA StateUnmap ==
  ASSUME StateInv, NEW s \in AllSpaces, NEW i \in DOMAIN regions[s],
         UnmapRegion(s, regions[s][i].base)
  PROVE  StateInv'
<1>1. PICK at \in 1 .. Len(regions[s]) :
        at = Min({j \in DOMAIN regions[s] : regions[s][j].base = regions[s][i].base})
  BY UnmapPosition
<1>2. PICK list \in Seq(RegionType) : list = regions[s]
  BY DEF StateInv
<1>3. list[at] \in RegionType
  BY <1>2
<1>4. PICK ps \in SUBSET Pages : ps = RegionPages(list[at])
  BY <1>3, RegionPagesType
<1>5. Released(ps) \subseteq Frames /\ Cleared(ps) \in [Frames -> [PtIndices -> Frames]]
  BY ReleasedType, ClearedType
<1>6. PICK new \in Seq(RegionType) : new = RemoveRegion(list, at)
  BY <1>2, RemoveShape DEF RemovedAt
<1>7. /\ phase = "ready" /\ call = NoCall
      /\ phase' = IF SeesTables(ps) = "ok" THEN phase ELSE SeesTables(ps)
      /\ free' = free \cup Released(ps)
      /\ table' = Cleared(ps)
      /\ regions' = [regions EXCEPT ![s] = new]
      /\ UNCHANGED <<pd, dirs, dirFrame, pool, cr3, heapTop, call, stranded>>
  BY <1>1, <1>2, <1>4, <1>6 DEF UnmapRegion, Idle
<1>8. phase' \in {"ready", "halted", "stray"}
  BY <1>7, SeesTablesType
<1>9. regions' \in [AllSpaces -> Seq(RegionType)]
  BY <1>7 DEF StateInv
<1> QED
  BY <1>5, <1>7, <1>8, <1>9, NoCallType DEF StateInv, Live

LEMMA StateCreate ==
  ASSUME StateInv, NEW s \in Spaces, CreateSpace(s)
  PROVE  StateInv'
<1>1. PICK c \in Nat, list \in Seq(RegionType) :
           /\ c = Min({Len(regions[Kernel]), MaxRegions - pool})
           /\ c <= MaxRegions - pool
           /\ list = SubSeq(regions[Kernel], 1, c)
  BY CopiedRegions
<1>2. PICK f \in Frames : f = Min(free)
  BY LowestFree DEF CreateSpace
<1>3. PICK e \in [PdIndices -> Frames] : e = KernelEntries
  <2>1. 0 \in Frames
    BY VmmSizes, Sizes DEF Frames
  <2>2. KernelEntries \in [PdIndices -> Frames]
    BY <2>1 DEF KernelEntries, StateInv
  <2> QED
    BY <2>2
<1>4. /\ phase = "ready" /\ call = NoCall /\ dirFrame[s] = 0
      /\ phase' = IF Sees(f) = "ok" THEN phase ELSE Sees(f)
      /\ free' = free \ {f}
      /\ dirFrame' = [dirFrame EXCEPT ![s] = f]
      /\ dirs' = [dirs EXCEPT ![s] = e]
      /\ regions' = [regions EXCEPT ![s] = list]
      /\ pool' = pool + c
      /\ UNCHANGED <<pd, table, cr3, heapTop, call, stranded>>
  BY <1>1, <1>2, <1>3 DEF CreateSpace, Idle
<1>5. phase' \in {"ready", "halted", "stray"}
  BY <1>4, SeesType
<1>6. pool' \in 0 .. MaxRegions
  BY <1>1, <1>4, VmmSizes DEF StateInv
<1>7. regions' \in [AllSpaces -> Seq(RegionType)] /\ dirs' \in [Spaces -> [PdIndices -> Frames]]
      /\ dirFrame' \in [Spaces -> Frames]
  BY <1>4 DEF StateInv
<1>8. cr3' \in Live'
  BY <1>4 DEF StateInv, Live
<1> QED
  BY <1>4, <1>5, <1>6, <1>7, <1>8, NoCallType DEF StateInv

LEMMA StateDestroy ==
  ASSUME StateInv, NEW s \in Spaces, DestroySpace(s)
  PROVE  StateInv'
<1>1. PICK list \in Seq(RegionType) : list = regions[s]
  BY DEF StateInv, AllSpaces
<1>2. PICK ps \in SUBSET Pages :
        ps = UNION {RegionPages(list[i]) :
                      i \in {j \in DOMAIN list : list[j].type >= UserCode}}
  <2>1. \A i \in DOMAIN list : list[i] \in RegionType
    OBVIOUS
  <2> QED
    BY <2>1, RegionPagesType
<1>3. /\ Released(ps) \subseteq Frames /\ Cleared(ps) \in [Frames -> [PtIndices -> Frames]]
  BY ReleasedType, ClearedType
<1>4. PICK e \in [PdIndices -> Frames] : e = [i \in PdIndices |-> 0]
  <2>1. [i \in PdIndices |-> 0] \in [PdIndices -> Frames]
    BY VmmSizes, Sizes DEF Frames
  <2> QED
    BY <2>1, Zenon
<1>5. /\ phase = "ready" /\ call = NoCall /\ cr3 # s
      /\ phase' = IF SeesTables(ps) = "ok" THEN phase ELSE SeesTables(ps)
      /\ free' = free \cup (Released(ps) \cup {dirFrame[s]})
      /\ table' = Cleared(ps)
      /\ dirFrame' = [dirFrame EXCEPT ![s] = 0]
      /\ dirs' = [dirs EXCEPT ![s] = e]
      /\ regions' = [regions EXCEPT ![s] = <<>>]
      /\ UNCHANGED <<pd, pool, cr3, heapTop, call, stranded>>
  BY <1>1, <1>2, <1>4 DEF DestroySpace, Idle, DestroyedFrames
<1>6. phase' \in {"ready", "halted", "stray"}
  BY <1>5, SeesTablesType
<1>7. 0 \in Frames /\ <<>> \in Seq(RegionType)
  BY VmmSizes, Sizes DEF Frames
<1>8. /\ regions' \in [AllSpaces -> Seq(RegionType)] /\ dirs' \in [Spaces -> [PdIndices -> Frames]]
      /\ dirFrame' \in [Spaces -> Frames] /\ free' \subseteq Frames
  BY <1>3, <1>5, <1>7 DEF StateInv
<1>9. cr3' \in Live'
  BY <1>5 DEF StateInv, Live
<1> QED
  BY <1>3, <1>5, <1>6, <1>8, <1>9, NoCallType DEF StateInv

\* Every step keeps the types.
LEMMA StateStep == StateInv /\ [Next]_vars => StateInv'
<1> SUFFICES ASSUME StateInv, [Next]_vars PROVE StateInv'
  OBVIOUS
<1>1. CASE PagingInit
  <2>1. pd' \in [PdIndices -> Frames]
    <3>1. ASSUME NEW i \in PdIndices, i - PdOf(KernelBase) \in 0 .. LinearTables - 1
          PROVE  KernelFrame + (i - PdOf(KernelBase)) \in Frames
      BY <3>1, VmmSizes, Sizes DEF Frames
    <3>2. 0 \in Frames
      BY VmmSizes, Sizes DEF Frames
    <3> QED
      BY <1>1, <3>1, <3>2 DEF PagingInit, LinearTables
  <2>2. table' \in [Frames -> [PtIndices -> Frames]]
    <3>1. ASSUME NEW f \in Frames, f - KernelFrame \in 0 .. LinearTables - 1, NEW i \in PtIndices
          PROVE  (f - KernelFrame) * PtEntries + i \in Frames
      <4>1. PICK k \in 0 .. LinearTables - 1 : k = f - KernelFrame
        BY <3>1
      <4>2. PICK e \in Nat, n \in Nat : e = PtEntries /\ n = LinearTables /\ n * e = LinearFrames
        BY Sizes, VmmSizes
      <4>3. k \in Nat /\ i \in Nat /\ k + 1 <= n /\ i < e
        BY <4>1, <4>2, VmmSizes DEF PtIndices
      <4>4. (k + 1) * e <= n * e
        BY <4>2, <4>3
      <4>5. k * e + i < n * e /\ k * e + i \in Nat
        BY <4>2, <4>3, <4>4
      <4>6. LinearFrames <= NumFrames /\ NumFrames \in Nat /\ LinearFrames \in Nat
        BY VmmSizes, VmmAssumption
      <4> QED
        BY <4>1, <4>2, <4>5, <4>6 DEF Frames
    <3>2. EmptyTable \in [PtIndices -> Frames]
      BY VmmSizes, Sizes DEF Frames, EmptyTable
    <3>3. ASSUME NEW f \in Frames
          PROVE  (IF f - KernelFrame \in 0 .. LinearTables - 1
                  THEN [i \in PtIndices |-> (f - KernelFrame) * PtEntries + i]
                  ELSE EmptyTable) \in [PtIndices -> Frames]
      BY <3>1, <3>2
    <3> QED
      BY <1>1, <3>3 DEF PagingInit, LinearTables
  <2>3. phase = "reset" /\ phase' = "paging"
        /\ UNCHANGED <<free, dirs, dirFrame, regions, pool, cr3, heapTop, call, stranded>>
    BY <1>1 DEF PagingInit, spaceVars
  <2> QED
    BY <2>1, <2>2, <2>3, NoCallType DEF StateInv, Live
<1>2. CASE KheapInit
  <2>1. heapTop = 0 /\ HeapBase + 0 = HeapBase /\ HeapBase \in Pages /\ InitialHeap \in Nat
        /\ 0 <= InitialHeap /\ 0 + InitialHeap <= HeapPages
    BY <1>2, VmmSizes, VmmAssumption DEF KheapInit, StateInv, HeapBase, Pages
  <2>2. /\ call' = [op |-> "heap", space |-> Kernel, base |-> HeapBase, size |-> InitialHeap,
                    at |-> 0]
        /\ phase' = "heap"
        /\ UNCHANGED <<free, pd, table, dirs, dirFrame, regions, pool, cr3, heapTop, stranded>>
    BY <1>2 DEF KheapInit, spaceVars
  <2>3. call' \in CallType
    BY <2>1, <2>2 DEF CallType, AllSpaces
  <2> QED
    BY <2>1, <2>2, <2>3 DEF StateInv, Live
<1>3. CASE VmmInit
  <2>1. PICK n \in {3, 4}, list \in Seq(RegionType) :
          regions' = [regions EXCEPT ![Kernel] = list] /\ pool' = n
    BY <1>3, VmmInitList
  <2>2. pool' \in 0 .. MaxRegions
    BY <2>1, VmmSizes, VmmAssumption
  <2>3. regions' \in [AllSpaces -> Seq(RegionType)]
    BY <2>1 DEF StateInv
  <2> QED
    BY <1>3, <2>2, <2>3, NoCallType DEF VmmInit, StateInv, Live
<1>4. ASSUME NEW n \in 1 .. HeapPages, HeapStart(n) PROVE StateInv'
  <2>1. HeapBase + heapTop \in Pages /\ n \in Nat /\ heapTop + n <= HeapPages /\ 0 <= n
    BY <1>4, VmmSizes, VmmAssumption DEF HeapStart, StateInv, HeapBase, Pages
  <2>2. /\ call' = [op |-> "heap", space |-> Kernel, base |-> HeapBase + heapTop, size |-> n,
                    at |-> 0]
        /\ phase = "ready"
        /\ UNCHANGED <<phase, free, pd, table, dirs, dirFrame, regions, pool, cr3, heapTop, stranded>>
    BY <1>4 DEF HeapStart, spaceVars
  <2>3. call' \in CallType
    BY <2>1, <2>2 DEF CallType, AllSpaces
  <2> QED
    BY <2>1, <2>2, <2>3 DEF StateInv, Live
<1>5. CASE HeapStep \/ MapStep
  BY <1>5, StateMapping
<1>6. CASE HeapEnd
  <2>1. heapTop' \in 0 .. HeapPages
    BY <1>6, VmmSizes DEF HeapEnd, StateInv, CallType
  <2> QED
    BY <1>6, <2>1, NoCallType DEF HeapEnd, StateInv, Live, spaceVars
<1>7. CASE HeapOutOfMemory
  <2>1. Released(MappedSoFar) \subseteq Frames
    BY CallPagesType, ReleasedType
  <2> QED
    BY <1>7, <2>1, NoCallType DEF HeapOutOfMemory, StateInv, Live, spaceVars
<1>8. ASSUME NEW s \in MapSpaces, NEW r \in Requests, MapStart(s, r[1], r[2]) PROVE StateInv'
  <2>1. r[1] \in Pages /\ r[2] \in Nat /\ 0 <= r[2]
    BY VmmAssumption DEF Pages
  <2>2. s \in Live /\ s \in AllSpaces
    BY <1>8 DEF MapStart, Live, AllSpaces
  <2>3. /\ call' = [op |-> "map", space |-> s, base |-> r[1], size |-> r[2], at |-> 0]
        /\ phase = "ready"
        /\ UNCHANGED <<phase, free, pd, table, dirs, dirFrame, regions, pool, cr3, heapTop, stranded>>
    BY <1>8 DEF MapStart, Idle, spaceVars
  <2>4. call' \in CallType
    BY <2>1, <2>2, <2>3 DEF CallType
  <2> QED
    BY <2>1, <2>2, <2>3, <2>4 DEF StateInv, Live
<1>9. CASE MapOutOfMemory \/ MapOutOfRegions
  BY <1>9, StateRollback DEF MapOutOfMemory, MapOutOfRegions
<1>10. CASE MapEnd
  <2>1. PICK list \in Seq(RegionType) : list = regions[call.space]
    BY DEF StateInv, CallType
  <2>2. Region(call.base, call.size, UserCode) \in RegionType
    BY DEF StateInv, CallType, Region, RegionType, UserCode, Mmio
  <2>3. InsertRegion(list, Region(call.base, call.size, UserCode)) \in Seq(RegionType)
    BY <2>2, InsertShape DEF InsertedAt
  <2>4. regions' = [regions EXCEPT ![call.space] =
                      InsertRegion(list, Region(call.base, call.size, UserCode))]
    BY <1>10, <2>1 DEF MapEnd
  <2>5. regions' \in [AllSpaces -> Seq(RegionType)]
    BY <2>3, <2>4 DEF StateInv
  <2>6. pool' \in 0 .. MaxRegions
    BY <1>10, VmmSizes DEF MapEnd, PoolFull, StateInv
  <2> QED
    BY <1>10, <2>5, <2>6, NoCallType DEF MapEnd, StateInv, Live
<1>11. ASSUME NEW s \in AllSpaces, NEW i \in DOMAIN regions[s],
              UnmapRegion(s, regions[s][i].base)
       PROVE StateInv'
  BY <1>11, StateUnmap
<1>12. ASSUME NEW s \in Spaces, CreateSpace(s) PROVE StateInv'
  BY <1>12, StateCreate
<1>13. ASSUME NEW s \in Spaces, DestroySpace(s) PROVE StateInv'
  BY <1>13, StateDestroy
<1>14. ASSUME NEW s \in AllSpaces, SwitchSpace(s) PROVE StateInv'
  BY <1>14 DEF SwitchSpace, StateInv, Live
<1>15. CASE UNCHANGED vars
  BY <1>15 DEF vars, StateInv, Live
<1> QED
  BY <1>1, <1>2, <1>3, <1>4, <1>5, <1>6, <1>7, <1>8, <1>9, <1>10, <1>11, <1>12, <1>13, <1>14,
     <1>15 DEF Next

\* The types of the variables, and what a call in progress is about, hold always.
THEOREM StateInvariant == Spec => []StateInv
BY StateInit, StateStep, PTL DEF Spec

\* Every variable of paging and of the virtual memory manager keeps its type, and the pool
\* of regions is never overdrawn: property TypeOK of the vmm run.
THEOREM TypesHold == Spec => []TypeOK
<1>1. StateInv => TypeOK
  <2> SUFFICES ASSUME StateInv PROVE TypeOK
    OBVIOUS
  <2>1. \A s \in AllSpaces : \A i \in DOMAIN regions[s] :
          regions[s][i] \in [base : Pages, size : Nat, type : 0 .. Mmio]
    <3>1. ASSUME NEW s \in AllSpaces, NEW i \in DOMAIN regions[s] PROVE regions[s][i] \in RegionType
      <4>1. regions[s] \in Seq(RegionType)
        BY DEF StateInv
      <4> QED
        BY <4>1
    <3> QED
      BY <3>1 DEF RegionType
  <2>2. call.at \in 0 .. call.size
    BY DEF StateInv, CallType
  <2> QED
    BY <2>1, <2>2 DEF StateInv, TypeOK
<1> QED
  BY <1>1, StateInvariant, PTL

-----------------------------------------------------------------------------
(* The linear map.                                                         *)

\* A step of a call maps page p to frame f with page table t, unless there is none.
MapsPage(p, f, t) ==
  /\ p = PageAt(call.base, call.at) /\ f = Min(free)
  /\ t = 0 => pd' = pd /\ table' = table /\ free' = free \ {f}
  /\ t # 0 =>
       /\ pd' = [pd EXCEPT ![PdOf(p)] = t]
       /\ table' = [table EXCEPT ![t] =
                      [(IF pd[PdOf(p)] = t THEN table[t] ELSE EmptyTable) EXCEPT ![PtOf(p)] = f]]
       /\ free' = free \ {f, t}
  /\ pd[PdOf(p)] # 0 => t = pd[PdOf(p)]
  /\ pd[PdOf(p)] = 0 /\ t # 0 => t \in free \ {f}

\* Both of the steps that map a page do so.
LEMMA MappingStep ==
  ASSUME StateInv, HeapStep \/ MapStep
  PROVE  \E p \in Pages, f \in free, t \in Frames : MapsPage(p, f, t)
<1>1. PICK p \in Pages : p = PageAt(call.base, call.at)
  BY CallPagesType
<1>2. PICK f \in free : f = Min(free) /\ f \in Frames
  BY LowestFree DEF HeapStep, MapStep
<1>3. PICK avail \in SUBSET Frames : avail = free \ {f}
  BY DEF StateInv
<1>4. PICK t \in Frames : MapsWith(t, p, f, avail)
  BY <1>2, MapPageShape
<1>5. /\ pd' = MapPage(p, f, avail).pd /\ table' = MapPage(p, f, avail).table
      /\ free' = MapPage(p, f, avail).free
  BY <1>1, <1>2, <1>3 DEF HeapStep, MapStep
<1>6. t = 0 => pd' = pd /\ table' = table /\ free' = free \ {f}
  BY <1>3, <1>4, <1>5 DEF MapsWith
<1>7. ASSUME t # 0
      PROVE  /\ pd' = [pd EXCEPT ![PdOf(p)] = t]
             /\ table' = [table EXCEPT ![t] =
                            [(IF pd[PdOf(p)] = t THEN table[t] ELSE EmptyTable)
                               EXCEPT ![PtOf(p)] = f]]
             /\ free' = free \ {f, t}
  <2>1. free' = avail \ {t}
    BY <1>4, <1>5, <1>7 DEF MapsWith
  <2>2. free' = free \ {f, t}
    BY <1>3, <2>1
  <2> QED
    BY <1>4, <1>5, <1>7, <2>2 DEF MapsWith
<1>8. /\ pd[PdOf(p)] # 0 => t = pd[PdOf(p)]
      /\ pd[PdOf(p)] = 0 /\ t # 0 => t \in free \ {f}
  BY <1>3, <1>4 DEF MapsWith
<1>9. MapsPage(p, f, t)
  BY <1>1, <1>2, <1>6, <1>7, <1>8, Zenon DEF MapsPage
<1> QED
  BY <1>9

\* No step changes a directory entry that is present, but for paging_init.
LEMMA EntriesStay ==
  ASSUME StateInv, Next, ~PagingInit, NEW i \in PdIndices, pd[i] # 0
  PROVE  pd'[i] = pd[i]
<1>1. CASE HeapStep \/ MapStep
  <2>1. PICK p \in Pages, f \in free, t \in Frames : MapsPage(p, f, t)
    BY <1>1, MappingStep
  <2>2. pd \in [PdIndices -> Frames]
    BY DEF StateInv
  <2> QED
    BY <2>1, <2>2 DEF MapsPage
<1>2. CASE ~(HeapStep \/ MapStep)
  <2>1. pd' = pd
    BY <1>2 DEF Next, KheapInit, VmmInit, HeapStart, HeapEnd, HeapOutOfMemory, MapStart,
       MapOutOfMemory, MapOutOfRegions, Rollback, MapEnd, UnmapRegion, CreateSpace, DestroySpace,
       SwitchSpace
  <2> QED
    BY <2>1
<1> QED
  BY <1>1, <1>2

\* A page of the linear part has its place in one of its tables.
LEMMA LinearPage ==
  ASSUME NEW p \in KernelBase .. KernelBase + LinearFrames - 1
  PROVE  p \in Pages /\ PdOf(p) \in LinearIndices
<1>1. /\ PtEntries \in Nat \ {0} /\ KernelBase \in Nat /\ LinearFrames \in Nat /\ NumPages \in Nat
      /\ KernelBase + LinearFrames <= NumPages
  BY VmmSizes, VmmAssumption
<1>2. p \in Pages
  BY <1>1 DEF Pages
<1>3. PICK b \in Nat, n \in Nat : /\ b = PdOf(KernelBase) /\ b * PtEntries = KernelBase
                              /\ n = LinearTables /\ n * PtEntries = LinearFrames
  BY Sizes
<1>4. PICK q \in Nat, r \in Nat : q = PdOf(p) /\ r < PtEntries /\ p = q * PtEntries + r
  BY <1>1, <1>2, DivMod DEF PdOf, Pages
<1>5. b <= q
  <2>1. SUFFICES ASSUME q + 1 <= b PROVE FALSE
    OBVIOUS
  <2>2. (q + 1) * PtEntries <= b * PtEntries
    BY <1>1, <2>1
  <2> QED
    BY <1>1, <1>3, <1>4, <2>2
<1>6. q < b + n
  <2>1. SUFFICES ASSUME b + n <= q PROVE FALSE
    OBVIOUS
  <2>2. PICK e \in Nat : e = PtEntries
    BY <1>1
  <2>3. (b + n) * e <= q * e
    BY <2>1
  <2>4. b * e + n * e <= q * e
    BY <2>3
  <2> QED
    BY <1>1, <1>3, <1>4, <2>2, <2>4
<1>7. q - b \in 0 .. n - 1
  BY <1>5, <1>6
<1>8. PdOf(p) \in PdIndices
  BY <1>2, PageParts
<1> QED
  BY <1>2, <1>3, <1>4, <1>7, <1>8 DEF LinearIndices

\* Every step keeps the linear map in every directory.
LEMMA LinearStep == StateInv /\ LinearInv /\ [Next]_vars => LinearInv'
<1> SUFFICES ASSUME StateInv, LinearInv, [Next]_vars PROVE LinearInv'
  OBVIOUS
<1>1. CASE PagingInit
  <2>1. \A i \in LinearIndices : pd'[i] = KernelFrame + (i - PdOf(KernelBase))
    BY <1>1 DEF PagingInit, LinearIndices, LinearTables
  <2>2. dirFrame' = dirFrame /\ phase = "reset" /\ phase' = "paging"
    BY <1>1 DEF PagingInit, spaceVars
  <2> QED
    BY <2>1, <2>2 DEF LinearInv
<1>2. CASE UNCHANGED vars
  BY <1>2 DEF vars, LinearInv
<1>3. CASE Next /\ ~PagingInit
  <2>1. phase # "reset"
    BY <1>3, NoCallType DEF Next, KheapInit, VmmInit, HeapStart, HeapStep, HeapEnd, HeapOutOfMemory,
       MapStart, MapStep, MapOutOfMemory, MapOutOfRegions, MapEnd, UnmapRegion, CreateSpace,
       DestroySpace, SwitchSpace, Idle
  <2>2. phase' # "reset"
    <3>1. CASE HeapStep \/ MapStep \/ MapOutOfMemory \/ MapOutOfRegions
      <4>1. CASE HeapStep \/ MapStep
        <5>1. PICK f \in Frames, avail \in SUBSET Frames, p \in Pages :
                f = Min(free) /\ avail = free \ {f} /\ p = PageAt(call.base, call.at)
          BY <4>1, LowestFree, CallPagesType DEF HeapStep, MapStep, StateInv
        <5>2. MapPage(p, f, avail).seen # "reset"
          BY MapPageType
        <5>3. \A g, h : Outcome(g, h) # "reset"
          BY DEF Outcome
        <5> QED
          BY <2>1, <4>1, <5>1, <5>2, <5>3 DEF HeapStep, MapStep
      <4>2. CASE MapOutOfMemory \/ MapOutOfRegions
        BY <2>1, <4>2, SeesTablesType DEF MapOutOfMemory, MapOutOfRegions, Rollback
      <4> QED
        BY <3>1, <4>1, <4>2
    <3>2. ASSUME NEW s \in AllSpaces, NEW i \in DOMAIN regions[s],
                 UnmapRegion(s, regions[s][i].base)
          PROVE  phase' # "reset"
      BY <2>1, <3>2, SeesTablesType DEF UnmapRegion
    <3>3. ASSUME NEW s \in Spaces, CreateSpace(s) \/ DestroySpace(s) PROVE phase' # "reset"
      BY <2>1, <3>3, SeesTablesType, SeesType DEF CreateSpace, DestroySpace
    <3> QED
      BY <1>3, <2>1, <3>1, <3>2, <3>3 DEF Next, KheapInit, VmmInit, HeapStart, HeapEnd,
         HeapOutOfMemory, MapStart, MapEnd, SwitchSpace
  <2>3. ASSUME NEW i \in LinearIndices
        PROVE  pd[i] = KernelFrame + (i - PdOf(KernelBase)) /\ pd'[i] = pd[i]
    <3>1. pd[i] = KernelFrame + (i - PdOf(KernelBase)) /\ i \in PdIndices
      BY <2>1 DEF LinearInv, LinearIndices
    <3>2. i - PdOf(KernelBase) \in Nat
      BY Sizes DEF LinearIndices
    <3>3. pd[i] # 0
      BY <3>1, <3>2, VmmSizes
    <3> QED
      BY <1>3, <3>1, <3>3, EntriesStay
  <2>4. ASSUME NEW s \in Spaces, dirFrame'[s] # 0, NEW i \in LinearIndices
        PROVE  dirs'[s][i] = pd[i]
    <3>1. CASE dirFrame[s] # 0 /\ dirs'[s] = dirs[s]
      BY <2>1, <3>1 DEF LinearInv
    <3>2. ASSUME NEW u \in Spaces, CreateSpace(u) PROVE dirs'[s][i] = pd[i]
      <4>1. i \in PdIndices /\ i >= PdOf(KernelBase)
        BY Sizes DEF LinearIndices, PdIndices
      <4>2. KernelEntries[i] = pd[i]
        BY <4>1 DEF KernelEntries
      <4>3. CASE s = u
        BY <3>2, <4>2, <4>3 DEF CreateSpace, StateInv
      <4>4. CASE s # u
        BY <2>1, <2>4, <3>2, <4>4 DEF CreateSpace, StateInv, LinearInv
      <4> QED
        BY <4>3, <4>4
    <3>3. ASSUME NEW u \in Spaces, DestroySpace(u) PROVE dirs'[s][i] = pd[i]
      BY <2>1, <2>4, <3>3 DEF DestroySpace, StateInv, LinearInv
    <3>4. CASE dirFrame' = dirFrame /\ dirs' = dirs
      BY <2>1, <2>4, <3>4 DEF LinearInv
    <3> QED
      BY <1>3, <3>2, <3>3, <3>4 DEF Next, KheapInit, VmmInit, HeapStart, HeapStep, HeapEnd,
         HeapOutOfMemory, MapStart, MapStep, MapOutOfMemory, MapOutOfRegions, Rollback, MapEnd,
         UnmapRegion, SwitchSpace, spaceVars
  <2> QED
    BY <2>2, <2>3, <2>4 DEF LinearInv
<1> QED
  BY <1>1, <1>2, <1>3

\* The directory entries of the linear map name the static tables, in every directory.
THEOREM LinearInvariant == Spec => []LinearInv
<1>1. Init => LinearInv
  BY DEF Init, LinearInv
<1> QED
  BY <1>1, LinearStep, StateInvariant, PTL DEF Spec

-----------------------------------------------------------------------------
(* The region lists.                                                       *)

\* What insert_region leaves in a list was there, or is the new region.
LEMMA InsertElements ==
  ASSUME NEW list \in Seq(RegionType), NEW r \in RegionType
  PROVE  \E new \in Seq(RegionType) :
           /\ new = InsertRegion(list, r)
           /\ \A i \in 1 .. Len(new) : new[i] = r \/ \E k \in 1 .. Len(list) : new[i] = list[k]
<1>1. PICK at \in Nat : InsertedAt(InsertRegion(list, r), list, r, at)
  BY InsertShape
<1>2. PICK new \in Seq(RegionType) : new = InsertRegion(list, r)
  BY <1>1 DEF InsertedAt
<1>3. PICK n \in Nat : n = Len(list)
  OBVIOUS
<1>4. /\ at \in 1 .. n + 1 /\ Len(new) = n + 1 /\ new[at] = r
      /\ \A i \in 1 .. at - 1 : new[i] = list[i]
      /\ \A i \in at + 1 .. n + 1 : new[i] = list[i - 1]
  BY <1>1, <1>2, <1>3 DEF InsertedAt
<1>5. ASSUME NEW i \in 1 .. n + 1, i # at PROVE \E k \in 1 .. n : new[i] = list[k]
  <2>1. CASE i < at
    BY <1>4, <2>1
  <2>2. CASE i > at
    <3>1. PICK k \in 1 .. n : k = i - 1
      BY <1>4, <2>2
    <3> QED
      <4>1. i \in at + 1 .. n + 1 /\ i - 1 = k
        BY <1>4, <2>2, <3>1
      <4>2. new[i] = list[k]
        BY <1>4, <4>1
      <4> QED
        BY <4>2
  <2> QED
    BY <1>4, <1>5, <2>1, <2>2
<1> QED
  BY <1>2, <1>3, <1>4, <1>5

\* What remove_region leaves in a list was there.
LEMMA RemoveElements ==
  ASSUME NEW list \in Seq(RegionType), NEW at \in 1 .. Len(list)
  PROVE  \E new \in Seq(RegionType) :
           /\ new = RemoveRegion(list, at)
           /\ \A i \in 1 .. Len(new) : \E k \in 1 .. Len(list) : new[i] = list[k]
<1>1. PICK new \in Seq(RegionType) : new = RemoveRegion(list, at) /\ RemovedAt(new, list, at)
  BY RemoveShape DEF RemovedAt
<1>2. PICK n \in Nat : n = Len(list)
  OBVIOUS
<1>3. /\ Len(new) = n - 1
      /\ \A i \in 1 .. at - 1 : new[i] = list[i]
      /\ \A i \in at .. n - 1 : new[i] = list[i + 1]
  BY <1>1, <1>2 DEF RemovedAt
<1>4. ASSUME NEW i \in 1 .. n - 1 PROVE \E k \in 1 .. n : new[i] = list[k]
  <2>1. CASE i < at
    BY <1>3, <2>1
  <2>2. CASE i >= at
    <3>1. PICK k \in 1 .. n : k = i + 1
      OBVIOUS
    <3> QED
      BY <1>2, <1>3, <2>2, <3>1
  <2> QED
    BY <1>2, <2>1, <2>2
<1> QED
  BY <1>1, <1>2, <1>3, <1>4

\* How the region list of one space changes: vmm_init makes the kernel's, a region goes in
\* or out, and a space gets a copy of the kernel's or loses its own.
ListChange(s, new) ==
  \/ VmmInit /\ s = Kernel /\ \E n \in {3, 4} : Registered(new, n, NumPages - 1)
  \/ /\ MapEnd /\ s = call.space
     /\ new = InsertRegion(regions[s], Region(call.base, call.size, UserCode))
  \/ /\ Idle /\ call' = NoCall
     /\ \E at \in 1 .. Len(regions[s]) : new = RemoveRegion(regions[s], at)
  \/ /\ Idle /\ call' = NoCall /\ Len(new) <= Len(regions[Kernel])
     /\ \A i \in 1 .. Len(new) : new[i] = regions[Kernel][i]
  \/ Idle /\ call' = NoCall /\ new = <<>>

\* A step changes no list, or one of them in one of these ways.
LEMMA ListsStep ==
  ASSUME StateInv, Next
  PROVE  \/ regions' = regions
         \/ \E s \in AllSpaces, new \in Seq(RegionType) :
              regions' = [regions EXCEPT ![s] = new] /\ ListChange(s, new)
<1>1. CASE VmmInit
  <2>1. PICK n \in {3, 4}, new \in Seq(RegionType) :
          Registered(new, n, NumPages - 1) /\ regions' = [regions EXCEPT ![Kernel] = new]
    BY <1>1, VmmInitList
  <2>2. Kernel \in AllSpaces /\ ListChange(Kernel, new)
    BY <1>1, <2>1 DEF ListChange, AllSpaces
  <2> QED
    BY <2>1, <2>2
<1>2. CASE MapEnd
  <2>1. PICK s \in AllSpaces : s = call.space
    BY DEF StateInv, CallType
  <2>2. regions[s] \in Seq(RegionType) /\ Region(call.base, call.size, UserCode) \in RegionType
    <3>1. Region(call.base, call.size, UserCode) \in RegionType
      BY DEF StateInv, CallType, Region, RegionType, UserCode, Mmio
    <3> QED
      BY <3>1 DEF StateInv
  <2>3. PICK new \in Seq(RegionType) :
          new = InsertRegion(regions[s], Region(call.base, call.size, UserCode))
    BY <2>2, InsertElements
  <2>4. regions' = [regions EXCEPT ![s] = new] /\ ListChange(s, new)
    BY <1>2, <2>1, <2>3 DEF MapEnd, ListChange
  <2> QED
    BY <2>4
<1>3. ASSUME NEW s \in AllSpaces, NEW i \in DOMAIN regions[s],
             UnmapRegion(s, regions[s][i].base)
      PROVE  \E new \in Seq(RegionType) :
               regions' = [regions EXCEPT ![s] = new] /\ ListChange(s, new)
  <2>1. PICK at \in 1 .. Len(regions[s]) :
          at = Min({j \in DOMAIN regions[s] : regions[s][j].base = regions[s][i].base})
    BY UnmapPosition
  <2>2. regions[s] \in Seq(RegionType)
    BY DEF StateInv
  <2>3. PICK new \in Seq(RegionType) : new = RemoveRegion(regions[s], at)
    BY <2>2, RemoveElements
  <2>4. regions' = [regions EXCEPT ![s] = new] /\ Idle /\ call' = NoCall
    BY <1>3, <2>1, <2>3 DEF UnmapRegion, Idle
  <2> QED
    BY <2>3, <2>4 DEF ListChange
<1>4. ASSUME NEW s \in Spaces, CreateSpace(s)
      PROVE  \E new \in Seq(RegionType) :
               regions' = [regions EXCEPT ![s] = new] /\ ListChange(s, new)
  <2>1. PICK c \in Nat, new \in Seq(RegionType) :
           /\ c = Min({Len(regions[Kernel]), MaxRegions - pool})
           /\ c <= Len(regions[Kernel])
           /\ new = SubSeq(regions[Kernel], 1, c) /\ Len(new) = c
           /\ \A i \in 1 .. c : new[i] = regions[Kernel][i]
    BY CopiedRegions
  <2>2. regions' = [regions EXCEPT ![s] = new] /\ Idle /\ call' = NoCall
    BY <1>4, <2>1 DEF CreateSpace, Idle
  <2>3. Len(new) <= Len(regions[Kernel]) /\ \A i \in 1 .. Len(new) : new[i] = regions[Kernel][i]
    BY <2>1
  <2> QED
    BY <2>2, <2>3 DEF ListChange
<1>5. ASSUME NEW s \in Spaces, DestroySpace(s)
      PROVE  \E new \in Seq(RegionType) :
               regions' = [regions EXCEPT ![s] = new] /\ ListChange(s, new)
  <2>1. regions' = [regions EXCEPT ![s] = <<>>] /\ Idle /\ call' = NoCall
    BY <1>5 DEF DestroySpace, Idle
  <2>2. <<>> \in Seq(RegionType)
    OBVIOUS
  <2> QED
    BY <2>1, <2>2 DEF ListChange
<1>6. Spaces \subseteq AllSpaces
  BY DEF AllSpaces
<1> QED
  BY <1>1, <1>2, <1>3, <1>4, <1>5, <1>6 DEF Next, PagingInit, KheapInit, HeapStart, HeapStep,
     HeapEnd, HeapOutOfMemory, MapStart, MapStep, MapOutOfMemory, MapOutOfRegions, Rollback,
     SwitchSpace, spaceVars

\* Every region of a changed list was in a list before, is the region of the call in
\* progress or is one of vmm_init's.
LEMMA ChangedElements ==
  ASSUME StateInv, NEW s \in AllSpaces, NEW new \in Seq(RegionType), ListChange(s, new),
         NEW i \in 1 .. Len(new)
  PROVE  \/ new[i] \in KernelRegions
         \/ MapEnd /\ s = call.space /\ new[i] = Region(call.base, call.size, UserCode)
         \/ \E k \in 1 .. Len(regions[s]) : new[i] = regions[s][k]
         \/ Idle /\ call' = NoCall /\ \E k \in 1 .. Len(regions[Kernel]) : new[i] = regions[Kernel][k]
<1>1. regions[s] \in Seq(RegionType) /\ regions[Kernel] \in Seq(RegionType)
  BY DEF StateInv, AllSpaces
<1>2. CASE VmmInit /\ s = Kernel /\ \E n \in {3, 4} : Registered(new, n, NumPages - 1)
  BY <1>2 DEF Registered
<1>3. CASE /\ MapEnd /\ s = call.space
           /\ new = InsertRegion(regions[s], Region(call.base, call.size, UserCode))
  <2>1. Region(call.base, call.size, UserCode) \in RegionType
    BY DEF StateInv, CallType, Region, RegionType, UserCode, Mmio
  <2>2. PICK r \in RegionType : r = Region(call.base, call.size, UserCode)
    BY <2>1
  <2>3. new = InsertRegion(regions[s], r)
    BY <1>3, <2>2
  <2>4. new[i] = r \/ \E k \in 1 .. Len(regions[s]) : new[i] = regions[s][k]
    <3>1. PICK list \in Seq(RegionType) : list = regions[s]
      BY <1>1
    <3>2. PICK res \in Seq(RegionType) :
           /\ res = InsertRegion(list, r)
           /\ \A j \in 1 .. Len(res) : res[j] = r \/ \E k \in 1 .. Len(list) : res[j] = list[k]
      BY InsertElements
    <3>3. res = new
      BY <2>3, <3>1, <3>2
    <3> QED
      BY <3>1, <3>2, <3>3
  <2> QED
    BY <1>3, <2>2, <2>4
<1>4. CASE \E at \in 1 .. Len(regions[s]) : new = RemoveRegion(regions[s], at)
  BY <1>1, <1>4, RemoveElements
<1>5. CASE /\ Idle /\ call' = NoCall /\ Len(new) <= Len(regions[Kernel])
           /\ \A j \in 1 .. Len(new) : new[j] = regions[Kernel][j]
  <2>1. i \in 1 .. Len(regions[Kernel])
    BY <1>1, <1>5
  <2> QED
    BY <1>5, <2>1
<1>6. CASE new = <<>>
  BY <1>6
<1> QED
  BY <1>2, <1>3, <1>4, <1>5, <1>6 DEF ListChange

\* All regions are of vmm_init or were mapped by callers.
THEOREM KindInvariant == Spec => []KindInv
<1>1. Init => KindInv
  BY DEF Init, KindInv
<1>2. StateInv /\ KindInv /\ [Next]_vars => KindInv'
  <2> SUFFICES ASSUME StateInv, KindInv, [Next]_vars PROVE KindInv'
    OBVIOUS
  <2>1. CASE regions' = regions
    BY <2>1 DEF KindInv
  <2>2. ASSUME NEW s \in AllSpaces, NEW new \in Seq(RegionType),
               regions' = [regions EXCEPT ![s] = new], ListChange(s, new)
        PROVE  KindInv'
    <3>1. ASSUME NEW i \in 1 .. Len(new) PROVE new[i] \in KernelRegions \/ new[i].type = UserCode
      <4>1. Region(call.base, call.size, UserCode).type = UserCode
        BY DEF Region
      <4>2. Kernel \in AllSpaces
        BY DEF AllSpaces
      <4> QED
        BY <2>2, <4>1, <4>2, ChangedElements DEF KindInv
    <3> QED
      BY <2>2, <3>1 DEF KindInv, StateInv
  <2>3. CASE UNCHANGED vars
    BY <2>1, <2>3 DEF vars
  <2> QED
    BY <2>1, <2>2, <2>3, ListsStep
<1> QED
  BY <1>1, <1>2, StateInvariant, PTL DEF Spec

\* A range that passes the overlap check of vmm_map_region is apart from all regions.
LEMMA NoOverlap ==
  ASSUME NEW list \in Seq(RegionType), Ordered(list),
         NEW b \in Nat, NEW z \in Nat, b + z < NumPages, ~Overlaps(list, b, z)
  PROVE  \A i \in 1 .. Len(list) :
           list[i].base + list[i].size <= b \/ b + z <= list[i].base
<1>1. ASSUME NEW i \in 1 .. Len(list)
      PROVE  list[i].base + list[i].size <= b \/ b + z <= list[i].base
  <2>1. list[i] \in RegionType
    OBVIOUS
  <2>2. PICK c \in Nat, y \in Nat : c = list[i].base /\ y = list[i].size
    <3>1. ASSUME NEW x \in RegionType PROVE x.base \in Nat /\ x.size \in Nat
      BY VmmSizes DEF RegionType, Pages
    <3> QED
      BY <2>1, <3>1
  <2>3. c + y < NumPages
    BY <2>2 DEF Ordered
  <2>4. RegionEnd(list[i]) = c + y /\ PageAt(b, z) = b + z
    BY <2>2, <2>3, PageAtPlain DEF RegionEnd
  <2>5. ~(b < c + y /\ b + z > c)
    BY <2>2, <2>4 DEF Overlaps
  <2> QED
    BY <2>2, <2>5
<1> QED
  BY <1>1

\* Every step keeps the lists in order.
LEMMA OrderStep ==
  ASSUME RequestsFit
  PROVE  StateInv /\ OrderInv /\ [Next]_vars => OrderInv'
<1> SUFFICES ASSUME StateInv, OrderInv, [Next]_vars PROVE OrderInv'
  OBVIOUS
<1>1. CASE UNCHANGED vars
  BY <1>1 DEF vars, OrderInv, Overlaps, RegionEnd
<1>2. ASSUME Next, regions' = regions PROVE \A s \in AllSpaces : Ordered(regions'[s])
  BY <1>2 DEF OrderInv
<1>3. ASSUME NEW s \in AllSpaces, NEW new \in Seq(RegionType),
             regions' = [regions EXCEPT ![s] = new], ListChange(s, new)
      PROVE  \A u \in AllSpaces : Ordered(regions'[u])
  <2>1. /\ regions[s] \in Seq(RegionType) /\ regions[Kernel] \in Seq(RegionType)
        /\ Ordered(regions[s]) /\ Ordered(regions[Kernel])
    BY DEF StateInv, AllSpaces, OrderInv
  <2>2. Ordered(new)
    <3>1. CASE VmmInit /\ \E n \in {3, 4} : Registered(new, n, NumPages - 1)
      BY <3>1 DEF Registered
    <3>2. CASE /\ MapEnd /\ s = call.space
               /\ new = InsertRegion(regions[s], Region(call.base, call.size, UserCode))
      <4>1. PICK b \in Nat, z \in Nat : b = call.base /\ z = call.size
        BY VmmSizes DEF StateInv, CallType, Pages
      <4>2. z > 0 /\ b + z < NumPages /\ ~Overlaps(regions[s], b, z)
        BY <3>2, <4>1 DEF MapEnd, OrderInv
      <4>3. Region(b, z, UserCode) \in RegionType
        BY <4>1 DEF StateInv, CallType, Region, RegionType, UserCode, Mmio
      <4>4. PICK r \in RegionType : r = Region(b, z, UserCode) /\ r.base = b /\ r.size = z
        BY <4>3 DEF Region
      <4>5. \A i \in 1 .. Len(regions[s]) :
              \/ regions[s][i].base + regions[s][i].size <= b
              \/ b + z <= regions[s][i].base
        BY <2>1, <4>2, NoOverlap
      <4> QED
        BY <2>1, <3>2, <4>1, <4>2, <4>4, <4>5, InsertOrdered
    <3>3. CASE \E at \in 1 .. Len(regions[s]) : new = RemoveRegion(regions[s], at)
      BY <2>1, <3>3, RemoveOrdered
    <3>4. CASE /\ Len(new) <= Len(regions[Kernel])
               /\ \A i \in 1 .. Len(new) : new[i] = regions[Kernel][i]
      <4>1. PICK n \in Nat, m \in Nat : n = Len(new) /\ m = Len(regions[Kernel]) /\ n <= m
        BY <2>1, <3>4
      <4>2. \A i \in 1 .. n : i \in 1 .. m
        BY <4>1
      <4> QED
        BY <2>1, <3>4, <4>1, <4>2 DEF Ordered
    <3>5. CASE new = <<>>
      BY <3>5 DEF Ordered
    <3> QED
      BY <1>3, <3>1, <3>2, <3>3, <3>4, <3>5 DEF ListChange
  <2> QED
    BY <1>3, <2>2 DEF StateInv, OrderInv
<1>4. CASE Next
  <2>1. \A u \in AllSpaces : Ordered(regions'[u])
    BY <1>2, <1>3, <1>4, ListsStep
  <2>2. ASSUME call'.op = "map"
        PROVE  /\ call'.size > 0 /\ call'.base + call'.size < NumPages
               /\ ~Overlaps(regions'[call'.space], call'.base, call'.size)
    <3>1. ASSUME NEW s \in MapSpaces, NEW r \in Requests, MapStart(s, r[1], r[2])
          PROVE  /\ call'.size > 0 /\ call'.base + call'.size < NumPages
                 /\ ~Overlaps(regions'[call'.space], call'.base, call'.size)
      <4>1. /\ call'.space = s /\ call'.base = r[1] /\ call'.size = r[2] /\ regions' = regions
            /\ ~Overlaps(regions[s], r[1], r[2])
        BY <3>1 DEF MapStart, spaceVars
      <4>2. r[2] > 0 /\ r[1] + r[2] < NumPages
        BY DEF RequestsFit
      <4> QED
        BY <4>1, <4>2
    <3>2. CASE MapStep
      <4>1. /\ call'.space = call.space /\ call'.base = call.base /\ call'.size = call.size
            /\ regions' = regions /\ call.op = "map"
        BY <3>2 DEF MapStep, spaceVars, StateInv, CallType
      <4> QED
        BY <4>1 DEF OrderInv
    <3>3. CASE HeapStep
      BY <2>2, <3>3 DEF HeapStep, StateInv, CallType
    <3>4. ASSUME PagingInit \/ KheapInit \/ VmmInit \/ \E n \in 1 .. HeapPages : HeapStart(n)
          PROVE  FALSE
      <4>1. CASE PagingInit \/ VmmInit
        BY <2>2, <4>1, NoCallType DEF StateInv, PagingInit, VmmInit
      <4>2. CASE KheapInit
        BY <2>2, <4>2 DEF KheapInit
      <4>3. ASSUME NEW n \in 1 .. HeapPages, HeapStart(n) PROVE FALSE
        BY <2>2, <4>3 DEF HeapStart
      <4> QED
        BY <3>4, <4>1, <4>2, <4>3
    <3>5. ASSUME \/ HeapEnd \/ HeapOutOfMemory \/ MapOutOfMemory \/ MapOutOfRegions \/ MapEnd
                 \/ \E s \in AllSpaces : \E i \in DOMAIN regions[s] :
                      UnmapRegion(s, regions[s][i].base)
                 \/ \E s \in Spaces : CreateSpace(s) \/ DestroySpace(s)
                 \/ \E s \in AllSpaces : SwitchSpace(s)
          PROVE  FALSE
      <4>1. call' = NoCall
        BY <3>5 DEF HeapEnd, HeapOutOfMemory, MapOutOfMemory, MapOutOfRegions, Rollback, MapEnd,
           UnmapRegion, CreateSpace, DestroySpace, SwitchSpace, Idle
      <4> QED
        BY <2>2, <4>1, NoCallType
    <3> QED
      BY <1>4, <3>1, <3>2, <3>3, <3>4, <3>5 DEF Next
  <2> QED
    BY <2>1, <2>2 DEF OrderInv, Overlaps, RegionEnd
<1> QED
  BY <1>1, <1>4

\* All region lists are in order, and a call in progress is for a range apart from them.
THEOREM OrderInvariant == ASSUME RequestsFit PROVE Spec => []OrderInv
<1>1. Init => OrderInv
  BY NoCallType DEF Init, OrderInv, Ordered
<1>2. StateInv /\ OrderInv /\ [Next]_vars => OrderInv'
  BY OrderStep
<1> QED
  BY <1>1, <1>2, StateInvariant, PTL DEF Spec

\* The region lists stay sorted and their regions disjoint (insert_region's search relies on
\* the order, and the overlap check of vmm_map_region on nothing): property RegionsOrdered.
THEOREM RegionsOrderedHolds == ASSUME RequestsFit PROVE Spec => []RegionsOrdered
<1>1. StateInv /\ OrderInv => RegionsOrdered
  <2> SUFFICES ASSUME StateInv, OrderInv, NEW s \in Live, NEW i \in 1 .. Len(regions[s]) - 1
               PROVE  regions[s][i].base + regions[s][i].size <= regions[s][i+1].base
    BY DEF RegionsOrdered
  <2>1. s \in AllSpaces
    BY DEF Live, AllSpaces
  <2>2. Len(regions[s]) \in Nat
    BY <2>1 DEF StateInv
  <2>3. i \in 1 .. Len(regions[s]) /\ i + 1 \in 1 .. Len(regions[s]) /\ i < i + 1
    BY <2>2
  <2> QED
    BY <2>1, <2>3 DEF OrderInv, Ordered
<1> QED
  BY <1>1, StateInvariant, OrderInvariant, PTL

-----------------------------------------------------------------------------
(* The uses of frames.  First for any directory and tables.                *)

\* Directories and tables as they are after paging_init.
Directory == {dir \in [PdIndices -> Frames] :
                \A i \in LinearIndices : dir[i] = KernelFrame + (i - PdOf(KernelBase))}
Tables == [Frames -> [PtIndices -> Frames]]

\* An entry that is present names a static table or one that was made.
LEMMA EntryKinds ==
  ASSUME NEW dir \in Directory, NEW i \in PdIndices, dir[i] # 0
  PROVE  dir[i] \in MadeTables(dir) \cup StaticTables
<1>1. CASE i \in LinearIndices
  <2>1. dir[i] = KernelFrame + (i - PdOf(KernelBase))
    BY <1>1 DEF Directory
  <2>2. PICK k \in 0 .. LinearTables - 1 : k = i - PdOf(KernelBase)
    BY <1>1 DEF LinearIndices
  <2>3. KernelFrame + k \in StaticTables
    BY VmmSizes, Sizes DEF StaticTables
  <2> QED
    BY <2>1, <2>2, <2>3
<1>2. CASE i \notin LinearIndices
  BY <1>2 DEF MadeTables
<1> QED
  BY <1>1, <1>2

\* An entry of the linear part is present.
LEMMA LinearPresent ==
  ASSUME NEW dir \in Directory, NEW i \in LinearIndices
  PROVE  dir[i] # 0
<1>1. dir[i] = KernelFrame + (i - PdOf(KernelBase)) /\ i - PdOf(KernelBase) \in Nat
  BY Sizes DEF Directory, LinearIndices
<1>2. PICK k \in Nat : k = i - PdOf(KernelBase)
  BY <1>1
<1>3. KernelFrame + k # 0
  BY VmmSizes
<1> QED
  BY <1>1, <1>2, <1>3

\* Two pages with the same place in the same table are the same.
LEMMA SamePlace ==
  ASSUME NEW dir \in Directory, NEW tables \in Tables, NEW used, NEW avail, NEW heads,
         OneUse(dir, tables, used, avail, heads),
         NEW p \in Pages, NEW q \in Pages, dir[PdOf(p)] # 0, dir[PdOf(p)] = dir[PdOf(q)],
         PtOf(p) = PtOf(q)
  PROVE  p = q
<1>1. /\ PdOf(p) \in PdIndices /\ p = PdOf(p) * PtEntries + PtOf(p)
      /\ PdOf(q) \in PdIndices /\ q = PdOf(q) * PtEntries + PtOf(q)
  BY PageParts
<1>2. PdOf(p) = PdOf(q)
  BY <1>1 DEF OneUse
<1> QED
  BY <1>1, <1>2

\* Fewer pages have no more uses.
LEMMA FewerPages ==
  ASSUME NEW dir, NEW tables, NEW used, NEW avail, NEW heads, NEW less \in SUBSET used,
         OneUse(dir, tables, used, avail, heads)
  PROVE  OneUse(dir, tables, less, avail, heads)
<1>1. Behind(dir, tables, less) \subseteq Behind(dir, tables, used)
  BY DEF Behind
<1> QED
  BY <1>1 DEF OneUse

\* A frame that is not free any more has no use.
LEMMA FewerFrames ==
  ASSUME NEW dir, NEW tables, NEW used, NEW avail, NEW heads, NEW less \in SUBSET avail,
         OneUse(dir, tables, used, avail, heads)
  PROVE  OneUse(dir, tables, used, less, heads)
BY DEF OneUse

\* Table t with the contents old and frame f entered for page p, and a directory with table t
\* entered for page p.
Written(tables, t, old, p, f) == [tables EXCEPT ![t] = [old EXCEPT ![PtOf(p)] = f]]
Entered(dir, p, t) == [dir EXCEPT ![PdOf(p)] = t]

\* What the other pages translate to when a page gets a frame in a table that was there.
LEMMA WalkOldTable ==
  ASSUME NEW dir \in Directory, NEW tables \in Tables, NEW used \in SUBSET Pages, NEW avail,
         NEW heads, OneUse(dir, tables, used, avail, heads),
         NEW p \in Pages, NEW f \in Frames, NEW t \in Frames, t # 0, dir[PdOf(p)] = t
  PROVE  /\ Walk(dir, Written(tables, t, tables[t], p, f), p) = f
         /\ \A q \in Pages : q # p =>
              Walk(dir, Written(tables, t, tables[t], p, f), q) = Walk(dir, tables, q)
<1> DEFINE new == Written(tables, t, tables[t], p, f)
<1>1. PdOf(p) \in PdIndices /\ PtOf(p) \in PtIndices
  BY PageParts
<1>2. tables[t] \in [PtIndices -> Frames] /\ tables \in [Frames -> [PtIndices -> Frames]]
  BY DEF Tables
<1>3. /\ new[t] = [tables[t] EXCEPT ![PtOf(p)] = f]
      /\ \A u \in Frames : u # t => new[u] = tables[u]
  BY <1>2 DEF Written
<1> HIDE DEF new
<1>4. /\ new[t][PtOf(p)] = f
      /\ \A i \in PtIndices : i # PtOf(p) => new[t][i] = tables[t][i]
  BY <1>1, <1>2, <1>3
<1>5. Walk(dir, new, p) = f
  BY <1>4 DEF Walk
<1>6. ASSUME NEW q \in Pages, q # p PROVE Walk(dir, new, q) = Walk(dir, tables, q)
  <2>1. PdOf(q) \in PdIndices /\ PtOf(q) \in PtIndices
    BY PageParts
  <2>2. dir[PdOf(q)] \in Frames
    BY <2>1 DEF Directory
  <2>3. CASE dir[PdOf(q)] = t
    <3>1. PtOf(q) # PtOf(p)
      BY <1>6, <2>3, SamePlace
    <3> QED
      BY <1>4, <2>1, <2>3, <3>1 DEF Walk
  <2>4. CASE dir[PdOf(q)] # t
    BY <1>3, <2>2, <2>4 DEF Walk
  <2> QED
    BY <2>3, <2>4
<1> QED
  BY <1>5, <1>6 DEF new

\* The same for a table made from a frame that was free.
LEMMA WalkNewTable ==
  ASSUME NEW dir \in Directory, NEW tables \in Tables, NEW used \in SUBSET Pages, NEW avail,
         NEW heads, OneUse(dir, tables, used, avail, heads),
         NEW p \in Pages, NEW f \in Frames, NEW t \in Frames, t # 0, dir[PdOf(p)] = 0,
         t \in avail
  PROVE  /\ Walk(Entered(dir, p, t), Written(tables, t, EmptyTable, p, f), p) = f
         /\ \A q \in Pages : q # p =>
              Walk(Entered(dir, p, t), Written(tables, t, EmptyTable, p, f), q) =
                Walk(dir, tables, q)
<1> DEFINE new == Written(tables, t, EmptyTable, p, f)
           now == Entered(dir, p, t)
<1>1. PdOf(p) \in PdIndices /\ PtOf(p) \in PtIndices /\ dir \in [PdIndices -> Frames]
  BY PageParts DEF Directory
<1>2. EmptyTable = [i \in PtIndices |-> 0] /\ tables \in [Frames -> [PtIndices -> Frames]]
  BY DEF Tables, EmptyTable
<1>3. /\ new[t] = [EmptyTable EXCEPT ![PtOf(p)] = f]
      /\ \A u \in Frames : u # t => new[u] = tables[u]
  BY <1>2 DEF Written
<1>4. /\ new[t][PtOf(p)] = f
      /\ \A i \in PtIndices : i # PtOf(p) => new[t][i] = 0
  BY <1>1, <1>2, <1>3
<1>5. now[PdOf(p)] = t /\ \A i \in PdIndices : i # PdOf(p) => now[i] = dir[i]
  BY <1>1 DEF Entered
<1> HIDE DEF new, now
<1>6. Walk(now, new, p) = f
  BY <1>4, <1>5 DEF Walk
<1>7. ASSUME NEW q \in Pages, q # p PROVE Walk(now, new, q) = Walk(dir, tables, q)
  <2>1. PdOf(q) \in PdIndices /\ PtOf(q) \in PtIndices
    BY PageParts
  <2>2. CASE PdOf(q) = PdOf(p)
    <3>1. PtOf(q) # PtOf(p)
      BY <1>7, <2>2, PageParts
    <3> QED
      BY <1>4, <1>5, <2>1, <2>2, <3>1 DEF Walk
  <2>3. CASE PdOf(q) # PdOf(p)
    <3>1. now[PdOf(q)] = dir[PdOf(q)] /\ dir[PdOf(q)] \in Frames
      BY <1>1, <1>5, <2>1, <2>3
    <3>2. dir[PdOf(q)] # t
      BY <2>1, EntryKinds DEF OneUse
    <3> QED
      BY <1>3, <3>1, <3>2 DEF Walk
  <2> QED
    BY <2>2, <2>3
<1> QED
  BY <1>6, <1>7 DEF new, now

\* Mapping a page with a table that was there leaves each frame one use.
LEMMA UseOldTable ==
  ASSUME NEW dir \in Directory, NEW tables \in Tables, NEW used \in SUBSET Pages,
         NEW avail \in SUBSET Frames, NEW heads, OneUse(dir, tables, used, avail, heads),
         NEW p \in Pages, NEW f \in avail, NEW t \in Frames, t # 0, dir[PdOf(p)] = t
  PROVE  OneUse(dir, Written(tables, t, tables[t], p, f), used \cup {p}, avail \ {f, t}, heads)
<1>1. f \in Frames
  OBVIOUS
<1>2. PICK new : new = Written(tables, t, tables[t], p, f)
  OBVIOUS
<1>3. /\ Walk(dir, new, p) = f
      /\ \A q \in Pages : q # p => Walk(dir, new, q) = Walk(dir, tables, q)
  BY <1>1, <1>2, WalkOldTable
<1>4. Behind(dir, new, used \cup {p}) \subseteq Behind(dir, tables, used) \cup {f}
  BY <1>3 DEF Behind
<1>5. \A q \in used : Walk(dir, tables, q) # f
  BY DEF OneUse, Behind
<1>6. ASSUME NEW q \in used \cup {p}, NEW r \in used \cup {p}, q # r, Walk(dir, new, q) # 0
      PROVE  Walk(dir, new, q) # Walk(dir, new, r)
  <2>1. CASE q = p
    BY <1>3, <1>5, <1>6, <2>1
  <2>2. CASE r = p
    BY <1>3, <1>5, <1>6, <2>2
  <2>3. CASE q # p /\ r # p
    BY <1>3, <1>6, <2>3 DEF OneUse
  <2> QED
    BY <2>1, <2>2, <2>3
<1>7. f \notin MadeTables(dir) \cup heads \cup StaticTables
  BY DEF OneUse
<1>8. OneUse(dir, new, used \cup {p}, avail \ {f, t}, heads)
  BY <1>4, <1>6, <1>7 DEF OneUse
<1> QED
  BY <1>8, <1>2

\* So does mapping it with a new one.
LEMMA UseNewTable ==
  ASSUME NEW dir \in Directory, NEW tables \in Tables, NEW used \in SUBSET Pages,
         NEW avail \in SUBSET Frames, NEW heads, OneUse(dir, tables, used, avail, heads),
         NEW p \in Pages, NEW f \in avail, NEW t \in avail, t # f, t # 0, dir[PdOf(p)] = 0
  PROVE  OneUse(Entered(dir, p, t), Written(tables, t, EmptyTable, p, f),
                used \cup {p}, avail \ {f, t}, heads)
<1>1. f \in Frames /\ t \in Frames
  OBVIOUS
<1>2. PICK new, now : new = Written(tables, t, EmptyTable, p, f) /\ now = Entered(dir, p, t)
  OBVIOUS
<1>3. /\ Walk(now, new, p) = f
      /\ \A q \in Pages : q # p => Walk(now, new, q) = Walk(dir, tables, q)
  BY <1>1, <1>2, WalkNewTable
<1>4. PdOf(p) \in PdIndices /\ dir \in [PdIndices -> Frames]
  BY PageParts DEF Directory
<1>5. now[PdOf(p)] = t /\ \A i \in PdIndices : i # PdOf(p) => now[i] = dir[i]
  BY <1>2, <1>4 DEF Entered
<1>6. Behind(now, new, used \cup {p}) \subseteq Behind(dir, tables, used) \cup {f}
  BY <1>3 DEF Behind
<1>7. \A q \in used : Walk(dir, tables, q) # f
  BY DEF OneUse, Behind
<1>8. ASSUME NEW q \in used \cup {p}, NEW r \in used \cup {p}, q # r, Walk(now, new, q) # 0
      PROVE  Walk(now, new, q) # Walk(now, new, r)
  <2>1. CASE q = p
    BY <1>3, <1>7, <1>8, <2>1
  <2>2. CASE r = p
    BY <1>3, <1>7, <1>8, <2>2
  <2>3. CASE q # p /\ r # p
    BY <1>3, <1>8, <2>3 DEF OneUse
  <2> QED
    BY <2>1, <2>2, <2>3
<1>9. f \notin MadeTables(dir) \cup heads \cup StaticTables
      /\ t \notin Behind(dir, tables, used) \cup MadeTables(dir) \cup heads \cup StaticTables
  BY DEF OneUse
<1>10. MadeTables(now) \subseteq MadeTables(dir) \cup {t}
  BY <1>5 DEF MadeTables
<1>11. ASSUME NEW i \in PdIndices, NEW j \in PdIndices, now[i] # 0, now[i] = now[j] PROVE i = j
  <2>1. \A k \in PdIndices : dir[k] # t
    BY <1>9, EntryKinds
  <2>2. CASE i = PdOf(p) \/ j = PdOf(p)
    BY <1>5, <1>11, <2>1, <2>2
  <2>3. CASE i # PdOf(p) /\ j # PdOf(p)
    BY <1>5, <1>11, <2>3 DEF OneUse
  <2> QED
    BY <2>2, <2>3
<1>12. OneUse(now, new, used \cup {p}, avail \ {f, t}, heads)
  <2>1. Behind(now, new, used \cup {p}) \cap
          ((avail \ {f, t}) \cup MadeTables(now) \cup heads \cup StaticTables) = {}
    BY <1>6, <1>9, <1>10 DEF OneUse
  <2>2. (avail \ {f, t}) \cap (MadeTables(now) \cup heads \cup StaticTables \cup {0}) = {}
    BY <1>10 DEF OneUse
  <2>3. MadeTables(now) \cap (heads \cup StaticTables) = {}
    BY <1>9, <1>10 DEF OneUse
  <2> QED
    BY <1>8, <1>11, <2>1, <2>2, <2>3 DEF OneUse
<1> QED
  BY <1>12, <1>2

\* A page without a table has no frame.
LEMMA UseNoTable ==
  ASSUME NEW dir \in Directory, NEW tables \in Tables, NEW used \in SUBSET Pages,
         NEW avail \in SUBSET Frames, NEW heads, OneUse(dir, tables, used, avail, heads),
         NEW p \in Pages, NEW f \in avail, dir[PdOf(p)] = 0
  PROVE  OneUse(dir, tables, used \cup {p}, avail \ {f}, heads)
<1>1. Walk(dir, tables, p) = 0
  BY DEF Walk
<1>2. Behind(dir, tables, used \cup {p}) \subseteq Behind(dir, tables, used)
  BY <1>1 DEF Behind
<1> QED
  BY <1>1, <1>2 DEF OneUse

\* Unmapping pages and freeing the frames behind them leaves each frame one use.
LEMMA UseCleared ==
  ASSUME NEW dir \in Directory, NEW tables \in Tables, NEW used \in SUBSET Pages,
         NEW avail \in SUBSET Frames, NEW heads, OneUse(dir, tables, used, avail, heads),
         NEW ps \in SUBSET used,
         NEW new, new = [t \in Frames |-> [i \in PtIndices |->
                          IF \E p \in ps : dir[PdOf(p)] = t /\ PtOf(p) = i THEN 0 ELSE tables[t][i]]]
  PROVE  OneUse(dir, new, used, avail \cup Behind(dir, tables, ps), heads)
<1>1. \A q \in Pages : PdOf(q) \in PdIndices /\ PtOf(q) \in PtIndices /\ dir[PdOf(q)] \in Frames
  BY PageParts DEF Directory
<1>2. ASSUME NEW q \in ps PROVE Walk(dir, new, q) = 0
  <2>1. q \in Pages
    OBVIOUS
  <2> QED
    BY <1>1, <2>1 DEF Walk
<1>3. ASSUME NEW q \in used, q \notin ps PROVE Walk(dir, new, q) = Walk(dir, tables, q)
  <2>1. CASE dir[PdOf(q)] = 0
    BY <2>1 DEF Walk
  <2>2. CASE dir[PdOf(q)] # 0
    <3>1. ASSUME NEW p \in ps, dir[PdOf(p)] = dir[PdOf(q)], PtOf(p) = PtOf(q) PROVE FALSE
      <4>1. p \in Pages /\ q \in Pages
        OBVIOUS
      <4>2. p = q
        BY <2>2, <3>1, <4>1, SamePlace
      <4> QED
        BY <1>3, <4>2
    <3>2. PICK t \in Frames, i \in PtIndices : t = dir[PdOf(q)] /\ i = PtOf(q)
      BY <1>1
    <3>3. new[t][i] = tables[t][i]
      BY <3>1, <3>2
    <3> QED
      BY <3>2, <3>3 DEF Walk
  <2> QED
    BY <2>1, <2>2
<1>4. ASSUME NEW g \in Behind(dir, new, used)
      PROVE  \E q \in used \ ps : g = Walk(dir, tables, q) /\ g # 0
  BY <1>2, <1>3 DEF Behind
<1>5. Behind(dir, new, used) \subseteq Behind(dir, tables, used)
  BY <1>4 DEF Behind
<1>6. ASSUME NEW g \in Behind(dir, new, used), g \in Behind(dir, tables, ps) PROVE FALSE
  <2>1. PICK q \in used \ ps : g = Walk(dir, tables, q) /\ g # 0
    BY <1>4
  <2>2. PICK r \in ps : g = Walk(dir, tables, r)
    BY <1>6 DEF Behind
  <2>3. q \in used /\ r \in used /\ q # r
    BY <2>1, <2>2
  <2> QED
    BY <2>1, <2>2, <2>3 DEF OneUse
<1>7. Behind(dir, tables, ps) \subseteq Behind(dir, tables, used)
  BY DEF Behind
<1>8. ASSUME NEW q \in used, NEW r \in used, q # r, Walk(dir, new, q) # 0
      PROVE  Walk(dir, new, q) # Walk(dir, new, r)
  <2>1. q \notin ps
    BY <1>2, <1>8
  <2>2. CASE r \in ps
    BY <1>2, <1>8, <2>2
  <2>3. CASE r \notin ps
    BY <1>3, <1>8, <2>1, <2>3 DEF OneUse
  <2> QED
    BY <2>2, <2>3
<1>9. 0 \notin Behind(dir, tables, ps)
  BY DEF Behind
<1>10. Behind(dir, new, used) \cap ((avail \cup Behind(dir, tables, ps)) \cup MadeTables(dir)
           \cup heads \cup StaticTables) = {}
  BY <1>5, <1>6 DEF OneUse
<1>11. (avail \cup Behind(dir, tables, ps)) \cap
         (MadeTables(dir) \cup heads \cup StaticTables \cup {0}) = {}
  BY <1>7, <1>9 DEF OneUse
<1> QED
  BY <1>8, <1>10, <1>11 DEF OneUse

\* A free frame becomes a directory.
LEMMA UseDirectory ==
  ASSUME NEW dir, NEW tables, NEW used, NEW avail, NEW heads,
         OneUse(dir, tables, used, avail, heads), NEW f \in avail
  PROVE  OneUse(dir, tables, used, avail \ {f}, heads \cup {f})
BY DEF OneUse

\* A directory becomes a free frame.
LEMMA UseNoDirectory ==
  ASSUME NEW dir, NEW tables, NEW used, NEW avail, NEW heads,
         OneUse(dir, tables, used, avail, heads), NEW f \in heads
  PROVE  OneUse(dir, tables, used, avail \cup {f}, heads \ {f})
BY DEF OneUse

-----------------------------------------------------------------------------
(* The uses of frames: the steps.                                          *)

\* The pages used are pages.
LEMMA UsedType == StateInv => UsedPages \subseteq Pages
<1> SUFFICES ASSUME StateInv PROVE UsedPages \subseteq Pages
  OBVIOUS
<1>1. MappedSoFar \subseteq Pages
  BY CallPagesType
<1>2. CallerPages \subseteq Pages
  <2>1. ASSUME NEW s \in AllSpaces, NEW i \in DOMAIN regions[s]
        PROVE  RegionPages(regions[s][i]) \subseteq Pages
    <3>1. regions[s] \in Seq(RegionType)
      BY DEF StateInv
    <3>2. regions[s][i] \in RegionType
      BY <3>1
    <3> QED
      BY <3>2, RegionPagesType
  <2> QED
    BY <2>1 DEF CallerPages
<1>3. HeapRange \subseteq Pages /\ LowPages \subseteq Pages
  <2>1. /\ KernelBase \in Nat /\ HeapFrame \in Nat /\ heapTop \in 0 .. HeapPages
        /\ HeapPages \in Nat /\ NumPages \in Nat /\ KernelFrame \in Nat /\ KernelEnd \in Nat
        /\ DefaultHint \in Nat
    BY VmmSizes DEF StateInv
  <2>2. /\ KernelBase + HeapFrame + HeapPages < NumPages
        /\ KernelFrame < KernelEnd /\ KernelEnd <= HeapFrame
    BY <2>1, VmmAssumption, Sizes
  <2> QED
    BY <2>1, <2>2 DEF HeapRange, LowPages, HeapBase, Pages
<1> QED
  BY <1>1, <1>2, <1>3 DEF UsedPages

\* The pages of a region that callers mapped.
LEMMA CallerPage ==
  ASSUME StateInv, NEW s \in AllSpaces, NEW i \in 1 .. Len(regions[s]),
         regions[s][i].type = UserCode
  PROVE  RegionPages(regions[s][i]) \subseteq CallerPages
<1>1. DOMAIN regions[s] = 1 .. Len(regions[s])
  BY DEF StateInv
<1> QED
  BY <1>1 DEF CallerPages

\* Callers get new pages only when vmm_map_region ends, and then those it has mapped.
LEMMA CallerPagesStep ==
  ASSUME StateInv, Next
  PROVE  /\ CallerPages' \subseteq CallerPages \cup MappedSoFar
         /\ ~MapEnd => CallerPages' \subseteq CallerPages
<1>1. CASE regions' = regions
  BY <1>1 DEF CallerPages, RegionPages, PageAt
<1>2. ASSUME NEW s \in AllSpaces, NEW new \in Seq(RegionType),
             regions' = [regions EXCEPT ![s] = new], ListChange(s, new)
      PROVE  /\ CallerPages' \subseteq CallerPages \cup MappedSoFar
             /\ ~MapEnd => CallerPages' \subseteq CallerPages
  <2>1. ASSUME NEW u \in AllSpaces, NEW i \in DOMAIN regions'[u], regions'[u][i].type = UserCode,
               NEW p \in RegionPages(regions'[u][i])
        PROVE  p \in CallerPages \/ (MapEnd /\ p \in MappedSoFar)
    <3>1. CASE u # s
      <4>1. regions'[u] = regions[u] /\ regions[u] \in Seq(RegionType)
        BY <1>2, <3>1 DEF StateInv
      <4>2. i \in 1 .. Len(regions[u]) /\ regions[u][i].type = UserCode
        BY <2>1, <4>1
      <4>3. RegionPages(regions[u][i]) \subseteq CallerPages
        BY <4>2, CallerPage
      <4>4. p \in RegionPages(regions[u][i])
        BY <2>1, <4>1
      <4>5. p \in CallerPages
        BY <4>3, <4>4
      <4> QED
        BY <4>5
    <3>2. CASE u = s
      <4>1. regions'[u] = new
        BY <1>2, <3>2 DEF StateInv
      <4>2. i \in 1 .. Len(new) /\ new[i].type = UserCode /\ p \in RegionPages(new[i])
        BY <2>1, <4>1
      <4>3. CASE new[i] \in KernelRegions
        BY <4>2, <4>3 DEF KernelRegions, LowRegion, ImageRegion, RestRegion, HeapRegion, Region,
           UserCode, KernelCode, IdentityMap, KernelHeap, Mmio
      <4>4. CASE MapEnd /\ new[i] = Region(call.base, call.size, UserCode)
        <5>1. call.at = call.size
          BY <4>4 DEF MapEnd
        <5> QED
          BY <4>2, <4>4, <5>1 DEF RegionPages, Region, MappedSoFar
      <4>5. CASE \E k \in 1 .. Len(regions[s]) : new[i] = regions[s][k]
        <5>1. PICK k \in 1 .. Len(regions[s]) : new[i] = regions[s][k]
          BY <4>5
        <5>2. regions[s][k].type = UserCode
          BY <4>2, <5>1
        <5>3. RegionPages(regions[s][k]) \subseteq CallerPages
          BY <5>2, CallerPage
        <5>5. p \in CallerPages
          BY <4>2, <5>1, <5>3
        <5> QED
          BY <5>5
      <4>6. CASE \E k \in 1 .. Len(regions[Kernel]) : new[i] = regions[Kernel][k]
        <5>1. Kernel \in AllSpaces
          BY DEF AllSpaces
        <5>2. PICK k \in 1 .. Len(regions[Kernel]) : new[i] = regions[Kernel][k]
          BY <4>6
        <5>3. regions[Kernel][k].type = UserCode
          BY <4>2, <5>2
        <5>4. RegionPages(regions[Kernel][k]) \subseteq CallerPages
          BY <5>1, <5>3, CallerPage
        <5>5. p \in CallerPages
          BY <4>2, <5>2, <5>4
        <5> QED
          BY <5>5
      <4> QED
        BY <1>2, <4>2, <4>3, <4>4, <4>5, <4>6, ChangedElements
    <3> QED
      BY <3>1, <3>2
  <2>2. ASSUME NEW p \in CallerPages' PROVE p \in CallerPages \/ (MapEnd /\ p \in MappedSoFar)
    <3>1. PICK u \in AllSpaces :
            \E i \in DOMAIN regions'[u] :
              regions'[u][i].type = UserCode /\ p \in RegionPages(regions'[u][i])
      BY <2>2 DEF CallerPages, RegionPages, PageAt
    <3> QED
      BY <2>1, <3>1
  <2> QED
    BY <2>2
<1> QED
  BY <1>1, <1>2, ListsStep

\* A step that maps no page leaves none on its way.
LEMMA NothingLeft ==
  ASSUME StateInv, Next, ~(HeapStep \/ MapStep)
  PROVE  MappedSoFar' = {}
<1>1. call'.at = 0
  <2>1. CASE PagingInit
    BY <2>1 DEF PagingInit, StateInv, NoCall
  <2>2. CASE KheapInit
    BY <2>2 DEF KheapInit
  <2>3. ASSUME NEW n \in 1 .. HeapPages, HeapStart(n) PROVE call'.at = 0
    BY <2>3 DEF HeapStart
  <2>4. ASSUME NEW s \in MapSpaces, NEW r \in Requests, MapStart(s, r[1], r[2])
        PROVE  call'.at = 0
    BY <2>4 DEF MapStart
  <2>5. CASE \/ VmmInit \/ HeapEnd \/ HeapOutOfMemory \/ MapOutOfMemory \/ MapOutOfRegions
             \/ MapEnd
             \/ \E s \in AllSpaces : \E i \in DOMAIN regions[s] :
                  UnmapRegion(s, regions[s][i].base)
             \/ \E s \in Spaces : CreateSpace(s) \/ DestroySpace(s)
             \/ \E s \in AllSpaces : SwitchSpace(s)
    <3>1. call' = NoCall
      BY <2>5 DEF VmmInit, HeapEnd, HeapOutOfMemory, MapOutOfMemory, MapOutOfRegions, Rollback,
         MapEnd, UnmapRegion, CreateSpace, DestroySpace, SwitchSpace, Idle
    <3> QED
      BY <3>1 DEF NoCall
  <2> QED
    BY <2>1, <2>2, <2>3, <2>4, <2>5 DEF Next
<1>2. 0 .. 0 - 1 = {}
  OBVIOUS
<1> QED
  BY <1>1, <1>2 DEF MappedSoFar

\* No step uses a page more, but for the page that is mapped.
LEMMA UsedPagesStep ==
  ASSUME StateInv, Next
  PROVE  /\ UsedPages' \subseteq UsedPages \cup {PageAt(call.base, call.at)}
         /\ ~(HeapStep \/ MapStep) => UsedPages' \subseteq UsedPages
<1>1. CASE HeapStep \/ MapStep
  <2>1. heapTop' = heapTop /\ regions' = regions
    BY <1>1 DEF HeapStep, MapStep, spaceVars
  <2>2. CallerPages' = CallerPages /\ HeapRange' = HeapRange
    BY <2>1 DEF CallerPages, HeapRange, RegionPages, PageAt
  <2>3. MappedSoFar' \subseteq MappedSoFar \cup {PageAt(call.base, call.at)}
    <3>1. PICK n \in Nat : n = call.at
      BY DEF StateInv, CallType
    <3>2. call'.base = call.base /\ call'.at = n + 1
      BY <1>1, <3>1 DEF HeapStep, MapStep, StateInv, CallType
    <3>3. \A k \in 0 .. n + 1 - 1 : k \in 0 .. n - 1 \/ k = n
      OBVIOUS
    <3> QED
      BY <3>1, <3>2, <3>3 DEF MappedSoFar, PageAt
  <2> QED
    BY <1>1, <2>2, <2>3 DEF UsedPages, LowPages
<1>2. CASE ~(HeapStep \/ MapStep)
  <2>1. CallerPages' \subseteq UsedPages
    BY CallerPagesStep DEF UsedPages
  <2>2. MappedSoFar' = {}
    BY <1>2, NothingLeft
  <2>3. HeapRange' \subseteq HeapRange \cup MappedSoFar
    <3>1. CASE HeapEnd
      <4>1. PICK n \in Nat, h \in Nat, b \in Nat : n = call.size /\ h = heapTop /\ b = HeapBase
        BY VmmSizes DEF StateInv, CallType, HeapBase
      <4>2. /\ call.at = n /\ call.base = b + h /\ h + n <= HeapPages /\ heapTop' = h + n
            /\ b + HeapPages < NumPages /\ HeapPages \in Nat /\ NumPages \in Nat
        BY <3>1, <4>1, VmmSizes, VmmAssumption DEF HeapEnd, StateInv, HeapBase
      <4>3. ASSUME NEW p \in b .. b + (h + n) - 1, ~(p \in b .. b + h - 1)
            PROVE  \E k \in 0 .. n - 1 : p = PageAt(b + h, k)
        <5>1. PICK k \in 0 .. n - 1 : p = b + h + k
          <6>1. p - (b + h) \in 0 .. n - 1 /\ p = b + h + (p - (b + h))
            BY <4>3
          <6> QED
            BY <6>1
        <5>2. k \in Nat /\ b + h + k < NumPages /\ b + h \in Nat
          BY <4>2
        <5>3. PageAt(b + h, k) = b + h + k
          BY <5>2, PageAtPlain
        <5> QED
          BY <5>1, <5>3
      <4>4. HeapRange' = b .. b + (h + n) - 1 /\ HeapRange = b .. b + h - 1
        BY <4>1, <4>2 DEF HeapRange, HeapBase
      <4>5. MappedSoFar = {PageAt(b + h, k) : k \in 0 .. n - 1}
        BY <4>2 DEF MappedSoFar
      <4> QED
        BY <4>3, <4>4, <4>5
    <3>2. CASE ~HeapEnd
      <4>1. heapTop' = heapTop
        BY <1>2, <3>2 DEF Next, PagingInit, KheapInit, VmmInit, HeapStart, HeapOutOfMemory, MapStart,
           MapOutOfMemory, MapOutOfRegions, Rollback, MapEnd, UnmapRegion, CreateSpace,
           DestroySpace, SwitchSpace
      <4> QED
        BY <4>1 DEF HeapRange
    <3> QED
      BY <3>1, <3>2
  <2> QED
    BY <1>2, <2>1, <2>2, <2>3 DEF UsedPages, LowPages
<1> QED
  BY <1>1, <1>2

\* The directory and the tables, in the sense of the lemmas above.
LEMMA RunningTypes ==
  ASSUME StateInv, LinearInv, Running
  PROVE  /\ pd \in Directory /\ table \in Tables /\ UsedPages \in SUBSET Pages
         /\ free \in SUBSET Frames
<1>1. phase # "reset"
  BY DEF Running
<1> QED
  BY <1>1, UsedType DEF StateInv, LinearInv, Directory, Tables

\* The frames behind pages are those that unmapping them gives back.
LEMMA BehindIsReleased == \A ps : Behind(pd, table, ps) = Released(ps)
BY DEF Behind, Released, GetPhysical

\* A step that maps a page.
LEMMA UseMapping ==
  ASSUME StateInv, LinearInv, UseInv, Next, HeapStep \/ MapStep
  PROVE  UseInv'
<1>1. PICK p \in Pages, f \in free, t \in Frames : MapsPage(p, f, t)
  BY MappingStep
<1>2. Running
  BY DEF HeapStep, MapStep, Running
<1>3. /\ pd \in Directory /\ table \in Tables /\ UsedPages \in SUBSET Pages
      /\ free \in SUBSET Frames
  BY <1>2, RunningTypes
<1>4. OneUse(pd, table, UsedPages, free, Directories)
  BY <1>2 DEF UseInv
<1>5. OneUse(pd', table', UsedPages \cup {p}, free', Directories)
  <2>1. CASE t = 0
    <3>1. pd' = pd /\ table' = table /\ free' = free \ {f} /\ pd[PdOf(p)] = 0
      BY <1>1, <2>1 DEF MapsPage
    <3>2. OneUse(pd, table, UsedPages \cup {p}, free \ {f}, Directories)
      BY <1>3, <1>4, <3>1, UseNoTable
    <3> QED
      BY <3>1, <3>2
  <2>2. CASE t # 0 /\ pd[PdOf(p)] = t
    <3>1. pd' = Entered(pd, p, t) /\ free' = free \ {f, t}
          /\ table' = Written(table, t, table[t], p, f)
      BY <1>1, <2>2 DEF MapsPage, Entered, Written
    <3>2. pd' = pd
      BY <1>3, <2>2, <3>1 DEF Entered, Directory
    <3>3. OneUse(pd, Written(table, t, table[t], p, f), UsedPages \cup {p}, free \ {f, t},
                 Directories)
      BY <1>3, <1>4, <2>2, UseOldTable
    <3> QED
      BY <3>1, <3>2, <3>3
  <2>3. CASE t # 0 /\ pd[PdOf(p)] # t
    <3>1. pd' = Entered(pd, p, t) /\ free' = free \ {f, t}
          /\ table' = Written(table, t, EmptyTable, p, f)
      BY <1>1, <2>3 DEF MapsPage, Entered, Written
    <3>2. pd[PdOf(p)] = 0 /\ t \in free /\ t # f
      BY <1>1, <2>3 DEF MapsPage
    <3>3. OneUse(Entered(pd, p, t), Written(table, t, EmptyTable, p, f), UsedPages \cup {p},
                 free \ {f, t}, Directories)
      BY <1>3, <1>4, <2>3, <3>2, UseNewTable
    <3> QED
      BY <3>1, <3>3
  <2> QED
    BY <2>1, <2>2, <2>3
<1>6. UsedPages' \subseteq UsedPages \cup {p}
  BY <1>1, UsedPagesStep DEF MapsPage
<1>7. dirFrame' = dirFrame
  BY DEF HeapStep, MapStep, spaceVars
<1>8. OneUse(pd', table', UsedPages', free', Directories')
  <2>1. Directories' = Directories
    BY <1>7 DEF Directories
  <2> QED
    BY <1>5, <1>6, <2>1, FewerPages
<1> QED
  BY <1>2, <1>7, <1>8 DEF UseInv

\* A step that unmaps pages that are in use and frees their frames.
LEMMA UseUnmapping ==
  ASSUME StateInv, LinearInv, UseInv, Next, Running, ~(HeapStep \/ MapStep),
         NEW ps \in SUBSET UsedPages, pd' = pd, table' = Cleared(ps)
  PROVE  OneUse(pd', table', UsedPages', free \cup Released(ps), Directories)
<1>1. /\ pd \in Directory /\ table \in Tables /\ UsedPages \in SUBSET Pages
      /\ free \in SUBSET Frames
  BY RunningTypes
<1>2. OneUse(pd, table, UsedPages, free, Directories)
  BY DEF UseInv
<1>3. PICK new : new = Cleared(ps)
  OBVIOUS
<1>4. new = [t \in Frames |-> [i \in PtIndices |->
              IF \E p \in ps : pd[PdOf(p)] = t /\ PtOf(p) = i THEN 0 ELSE table[t][i]]]
  BY <1>3 DEF Cleared
<1>5. OneUse(pd, new, UsedPages, free \cup Behind(pd, table, ps), Directories)
  BY <1>1, <1>2, <1>4, UseCleared
<1>6. UsedPages' \subseteq UsedPages
  BY UsedPagesStep
<1>7. OneUse(pd, new, UsedPages', free \cup Behind(pd, table, ps), Directories)
  BY <1>5, <1>6, FewerPages
<1> QED
  BY <1>3, <1>7, BehindIsReleased

\* A step that leaves the tables, the free frames and the spaces alone.
LEMMA UseOther ==
  ASSUME StateInv, LinearInv, UseInv, Next, Running, ~(HeapStep \/ MapStep),
         UNCHANGED <<pd, table, free, dirFrame>>
  PROVE  UseInv'
<1>1. OneUse(pd, table, UsedPages, free, Directories)
  BY DEF UseInv
<1>2. UsedPages' \subseteq UsedPages
  BY UsedPagesStep
<1>3. OneUse(pd, table, UsedPages', free, Directories)
  BY <1>1, <1>2, FewerPages
<1>4. Directories' = Directories
  BY DEF Directories
<1>5. OneUse(pd', table', UsedPages', free', Directories')
  BY <1>3, <1>4
<1> QED
  BY <1>5 DEF UseInv

\* paging_init leaves each frame one use.
LEMMA UsePagingInit ==
  ASSUME StateInv, LinearInv, LinearInv', StateInv', Next, PagingInit
  PROVE  UseInv'
<1>1. /\ phase = "reset" /\ call = NoCall /\ heapTop = 0 /\ free = Ram
      /\ regions = [s \in AllSpaces |-> <<>>] /\ \A s \in Spaces : dirFrame[s] = 0
  BY DEF PagingInit, StateInv, LinearInv
<1>2. /\ phase' = "paging" /\ free' = Ram /\ dirFrame' = dirFrame /\ regions' = regions
      /\ heapTop' = 0 /\ call' = NoCall
  BY <1>1 DEF PagingInit, spaceVars
<1>3. Directories' = {}
  BY <1>1, <1>2 DEF Directories
<1>4. /\ KernelBase \in Nat /\ KernelFrame \in Nat \ {0, 1} /\ LinearFrames \in Nat
      /\ KernelEnd \in Nat /\ PtEntries \in Nat \ {0}
      /\ KernelFrame < KernelEnd /\ KernelEnd < LinearFrames
      /\ Ram \subseteq KernelEnd .. NumFrames - 1 /\ NumFrames \in Nat
  BY VmmSizes, VmmAssumption, Sizes
<1>5. UsedPages' \subseteq LowPages
  <2>1. UsedPages' \subseteq UsedPages
    BY UsedPagesStep DEF PagingInit, HeapStep, MapStep
  <2>2. CallerPages = {}
    BY <1>1 DEF CallerPages
  <2>3. HeapRange = {}
    <3>1. HeapBase \in Nat
      BY VmmSizes DEF HeapBase
    <3> QED
      BY <1>1, <3>1 DEF HeapRange
  <2>4. MappedSoFar = {}
    BY <1>1 DEF MappedSoFar, NoCall
  <2> QED
    BY <2>1, <2>2, <2>3, <2>4 DEF UsedPages
<1>6. PICK dir \in Directory, tables \in Tables : dir = pd' /\ tables = table'
  <2>1. Running'
    BY <1>2 DEF Running
  <2> QED
    BY <1>2 DEF StateInv, LinearInv, Directory, Tables
<1>7. MadeTables(dir) = {}
  <2>1. ASSUME NEW i \in PdIndices, i \notin LinearIndices PROVE dir[i] = 0
    BY <1>6, <2>1 DEF PagingInit, LinearIndices, LinearTables
  <2> QED
    BY <2>1 DEF MadeTables
<1>8. ASSUME NEW i \in PdIndices, NEW j \in PdIndices, dir[i] # 0, dir[i] = dir[j] PROVE i = j
  <2>1. ASSUME NEW k \in PdIndices, dir[k] # 0
        PROVE  dir[k] = KernelFrame + (k - PdOf(KernelBase)) /\ k \in Nat
    <3>1. k \in LinearIndices
      BY <1>7, <2>1 DEF MadeTables
    <3> QED
      BY <3>1 DEF Directory, PdIndices
  <2>2. /\ dir[i] = KernelFrame + (i - PdOf(KernelBase)) /\ i \in Nat
        /\ dir[j] = KernelFrame + (j - PdOf(KernelBase)) /\ j \in Nat
    BY <1>8, <2>1
  <2>3. KernelFrame + (i - PdOf(KernelBase)) = KernelFrame + (j - PdOf(KernelBase))
    BY <1>8, <2>2
  <2> QED
    BY <1>4, <2>2, <2>3, Sizes
<1>9. ASSUME NEW p \in LowPages PROVE Walk(dir, tables, p) = p - KernelBase
  <2>1. p \in KernelBase .. KernelBase + LinearFrames - 1
    BY <1>4 DEF LowPages
  <2>2. PICK i \in LinearIndices, j \in PtIndices :
          i = PdOf(p) /\ j = PtOf(p) /\ p = i * PtEntries + j
    BY <2>1, LinearPage, PageParts
  <2>3. PICK b \in Nat, k \in 0 .. LinearTables - 1 :
          b = PdOf(KernelBase) /\ k = i - b /\ b * PtEntries = KernelBase
    BY Sizes DEF LinearIndices
  <2>4. dir[i] = KernelFrame + k /\ KernelFrame + k # 0 /\ KernelFrame + k \in Frames
    <3>1. dir[i] = KernelFrame + k
      BY <2>3 DEF Directory
    <3>2. KernelFrame + k # 0 /\ KernelFrame + k \in Frames
      BY VmmSizes, Sizes DEF Frames
    <3> QED
      BY <3>1, <3>2
  <2>5. PICK g \in Frames :
          g = KernelFrame + k /\ tables[g][j] = (g - KernelFrame) * PtEntries + j
    <3>1. PICK g \in Frames : g = KernelFrame + k
      BY <2>4
    <3>2. tables[g] = IF g - KernelFrame \in 0 .. LinearTables - 1
                      THEN [x \in PtIndices |-> (g - KernelFrame) * PtEntries + x]
                      ELSE EmptyTable
      BY <1>6 DEF PagingInit, LinearTables
    <3>3. g - KernelFrame \in 0 .. LinearTables - 1
      BY <3>1, VmmSizes
    <3>4. tables[g] = [x \in PtIndices |-> (g - KernelFrame) * PtEntries + x]
      BY <3>2, <3>3, Zenon
    <3>5. tables[g][j] = (g - KernelFrame) * PtEntries + j
      BY <3>4
    <3> QED
      BY <3>1, <3>5
  <2>6. Walk(dir, tables, p) = (g - KernelFrame) * PtEntries + j
    BY <2>2, <2>4, <2>5 DEF Walk
  <2>7. PICK e \in Nat, n \in Nat, m \in Nat : e = PtEntries /\ n = j /\ m = k
    BY <1>4 DEF PtIndices
  <2>8. g - KernelFrame = m /\ i = b + m
    <3>1. i \in Nat
      BY DEF LinearIndices, PdIndices
    <3> QED
      BY <1>4, <2>3, <2>5, <2>7, <3>1
  <2>9. p = (b + m) * e + n /\ (b + m) * e = b * e + m * e
    BY <2>2, <2>7, <2>8
  <2> QED
    BY <1>4, <2>3, <2>6, <2>7, <2>8, <2>9
<1>10. ASSUME NEW p \in LowPages PROVE p - KernelBase \in 1 .. KernelFrame - 1 /\ p \in Nat
  BY <1>4 DEF LowPages
<1>11. Behind(dir, tables, LowPages) \subseteq 1 .. KernelFrame - 1
  BY <1>9, <1>10 DEF Behind
<1>12. /\ (1 .. KernelFrame - 1) \cap (Ram \cup StaticTables) = {}
       /\ Ram \cap (StaticTables \cup {0}) = {}
  BY <1>4, Sizes DEF StaticTables
<1>13. ASSUME NEW p \in LowPages, NEW q \in LowPages, p # q
       PROVE  Walk(dir, tables, p) # Walk(dir, tables, q)
  BY <1>4, <1>9, <1>10, <1>13
<1>14. OneUse(dir, tables, LowPages, Ram, {})
  BY <1>7, <1>8, <1>11, <1>12, <1>13 DEF OneUse
<1>15. OneUse(dir, tables, UsedPages', Ram, {})
  BY <1>5, <1>14, FewerPages
<1>16. OneUse(pd', table', UsedPages', free', Directories')
  BY <1>2, <1>3, <1>6, <1>15
<1>17. \A s, u \in Spaces : dirFrame'[s] # 0 /\ dirFrame'[s] = dirFrame'[u] => s = u
  BY <1>1, <1>2
<1> QED
  BY <1>16, <1>17 DEF UseInv

\* The pages of a region that is not the kernel's own are pages in use.
LEMMA UserRegion ==
  ASSUME StateInv, KindInv, NEW s \in AllSpaces, NEW i \in 1 .. Len(regions[s]),
         regions[s][i].type > IdentityMap
  PROVE  RegionPages(regions[s][i]) \subseteq UsedPages
<1>1. CASE regions[s][i].type = UserCode
  BY <1>1, CallerPage DEF UsedPages
<1>2. CASE regions[s][i] \in KernelRegions
  <2>1. regions[s][i] = LowRegion
    BY <1>2 DEF KernelRegions, ImageRegion, RestRegion, HeapRegion, Region, KernelCode, IdentityMap,
       KernelHeap
  <2>2. LowRegion.base = KernelBase + 1 /\ LowRegion.size = KernelFrame - 1
    BY DEF LowRegion, Region
  <2>3. ASSUME NEW k \in 0 .. KernelFrame - 1 - 1 PROVE PageAt(KernelBase + 1, k) \in LowPages
    <3>1. /\ KernelBase \in Nat /\ KernelFrame \in Nat \ {0, 1} /\ NumPages \in Nat
          /\ LinearFrames \in Nat /\ KernelEnd \in Nat /\ HeapFrame \in Nat
      BY VmmSizes
    <3>2. KernelBase + LinearFrames <= NumPages /\ KernelFrame < LinearFrames
      BY <3>1, VmmAssumption, Sizes
    <3>3. k \in Nat /\ KernelBase + 1 \in Nat /\ KernelBase + 1 + k < NumPages
      BY <3>1, <3>2
    <3>4. PageAt(KernelBase + 1, k) = KernelBase + 1 + k
      BY <3>3, PageAtPlain
    <3> QED
      BY <3>1, <3>4 DEF LowPages
  <2> QED
    BY <2>1, <2>2, <2>3 DEF RegionPages, UsedPages
<1> QED
  BY <1>1, <1>2 DEF KindInv

\* A call that is taken back, vmm_unmap_region, and vmm_create_address_space.
LEMMA UseRollback ==
  ASSUME StateInv, LinearInv, UseInv, Next, MapOutOfMemory \/ MapOutOfRegions
  PROVE  UseInv'
<1>1. Running /\ Rollback /\ ~(HeapStep \/ MapStep)
  <2>1. Running /\ Rollback /\ ~HeapStep
    BY DEF MapOutOfMemory, MapOutOfRegions, Running, HeapStep
  <2>2. call.at \in Nat /\ call.size \in Nat
    BY DEF StateInv, CallType
  <2>3. free = {} \/ call.at = call.size
    BY DEF MapOutOfMemory, MapOutOfRegions
  <2>4. ~MapStep
    BY <2>2, <2>3 DEF MapStep
  <2> QED
    BY <2>1, <2>4
<1>2. MappedSoFar \in SUBSET UsedPages
  BY DEF UsedPages
<1>3. /\ pd' = pd /\ table' = Cleared(MappedSoFar) /\ dirFrame' = dirFrame
      /\ free' = free \cup Released(MappedSoFar)
  BY <1>1 DEF Rollback, spaceVars
<1>4. PICK ps \in SUBSET UsedPages : ps = MappedSoFar
  BY <1>2
<1>5. OneUse(pd', table', UsedPages', free \cup Released(ps), Directories)
  BY <1>1, <1>3, <1>4, UseUnmapping
<1>6. Directories' = Directories
  BY <1>3 DEF Directories
<1>7. OneUse(pd', table', UsedPages', free', Directories')
  BY <1>3, <1>4, <1>5, <1>6
<1> QED
  BY <1>1, <1>3, <1>7 DEF UseInv

LEMMA UseUnmap ==
  ASSUME StateInv, LinearInv, KindInv, UseInv, Next, NEW s \in AllSpaces,
         NEW i \in DOMAIN regions[s], UnmapRegion(s, regions[s][i].base)
  PROVE  UseInv'
<1>1. Running /\ ~(HeapStep \/ MapStep)
  BY NoCallType DEF UnmapRegion, Idle, Running, HeapStep, MapStep
<1>2. PICK at \in 1 .. Len(regions[s]) :
        at = Min({j \in DOMAIN regions[s] : regions[s][j].base = regions[s][i].base})
  BY UnmapPosition
<1>3. regions[s][at].type > IdentityMap
  BY <1>2 DEF UnmapRegion
<1>4. PICK ps \in SUBSET UsedPages : ps = RegionPages(regions[s][at])
  BY <1>3, UserRegion
<1>5. /\ pd' = pd /\ table' = Cleared(ps) /\ dirFrame' = dirFrame
      /\ free' = free \cup Released(ps)
  BY <1>2, <1>4 DEF UnmapRegion
<1>6. OneUse(pd', table', UsedPages', free \cup Released(ps), Directories)
  BY <1>1, <1>5, UseUnmapping
<1>7. Directories' = Directories
  BY <1>5 DEF Directories
<1>8. OneUse(pd', table', UsedPages', free', Directories')
  BY <1>5, <1>6, <1>7
<1> QED
  BY <1>1, <1>5, <1>8 DEF UseInv

LEMMA UseCreate ==
  ASSUME StateInv, LinearInv, UseInv, Next, NEW s \in Spaces, CreateSpace(s)
  PROVE  UseInv'
<1>1. Running /\ ~(HeapStep \/ MapStep) /\ free # {}
  BY NoCallType DEF CreateSpace, Idle, Running, HeapStep, MapStep
<1>2. PICK f \in free : f = Min(free)
  BY <1>1, LowestFree
<1>3. /\ pd' = pd /\ table' = table /\ free' = free \ {f} /\ dirFrame[s] = 0
      /\ dirFrame' = [dirFrame EXCEPT ![s] = f]
  BY <1>2 DEF CreateSpace
<1>4. OneUse(pd, table, UsedPages, free, Directories)
  BY <1>1 DEF UseInv
<1>5. f # 0 /\ f \notin Directories
  BY <1>4 DEF OneUse
<1>6. Directories' = Directories \cup {f}
  BY <1>3, <1>5 DEF Directories, StateInv
<1>7. OneUse(pd, table, UsedPages, free \ {f}, Directories \cup {f})
  BY <1>4, UseDirectory
<1>8. UsedPages' \subseteq UsedPages
  BY <1>1, UsedPagesStep
<1>9. OneUse(pd, table, UsedPages', free \ {f}, Directories \cup {f})
  BY <1>7, <1>8, FewerPages
<1>10. OneUse(pd', table', UsedPages', free', Directories')
  BY <1>3, <1>6, <1>9
<1>11. ASSUME NEW u \in Spaces, NEW w \in Spaces, dirFrame'[u] # 0, dirFrame'[u] = dirFrame'[w]
       PROVE  u = w
  <2>1. \A x \in Spaces : dirFrame[x] # f
    BY <1>5 DEF Directories
  <2>2. \A x, y \in Spaces : dirFrame[x] # 0 /\ dirFrame[x] = dirFrame[y] => x = y
    BY <1>1 DEF UseInv
  <2> QED
    BY <1>3, <1>11, <2>1, <2>2 DEF StateInv
<1> QED
  BY <1>10, <1>11 DEF UseInv

LEMMA UseDestroy ==
  ASSUME StateInv, LinearInv, KindInv, UseInv, Next, NEW s \in Spaces, DestroySpace(s)
  PROVE  UseInv'
<1>1. Running /\ ~(HeapStep \/ MapStep) /\ dirFrame[s] # 0
  BY NoCallType DEF DestroySpace, Idle, Running, HeapStep, MapStep
<1>2. PICK ps \in SUBSET UsedPages :
        ps = UNION {RegionPages(regions[s][i]) :
                      i \in {j \in DOMAIN regions[s] : regions[s][j].type >= UserCode}}
  <2>1. s \in AllSpaces /\ regions[s] \in Seq(RegionType)
    BY DEF StateInv, AllSpaces
  <2>2. ASSUME NEW i \in DOMAIN regions[s], regions[s][i].type >= UserCode
        PROVE  RegionPages(regions[s][i]) \subseteq UsedPages
    <3>1. i \in 1 .. Len(regions[s]) /\ regions[s][i] \in RegionType
      BY <2>1
    <3>2. regions[s][i].type \in 0 .. Mmio
      BY <3>1 DEF RegionType
    <3>3. regions[s][i].type > IdentityMap
      BY <2>2, <3>2 DEF UserCode, IdentityMap, Mmio
    <3> QED
      BY <2>1, <3>1, <3>3, UserRegion
  <2>3. UNION {RegionPages(regions[s][i]) :
                 i \in {j \in DOMAIN regions[s] : regions[s][j].type >= UserCode}}
          \subseteq UsedPages
    BY <2>2
  <2> QED
    BY <2>3
<1>3. /\ pd' = pd /\ table' = Cleared(ps) /\ dirFrame' = [dirFrame EXCEPT ![s] = 0]
      /\ free' = free \cup (Released(ps) \cup {dirFrame[s]})
  BY <1>2 DEF DestroySpace, DestroyedFrames
<1>4. OneUse(pd', table', UsedPages', free \cup Released(ps), Directories)
  BY <1>1, <1>3, UseUnmapping
<1>5. PICK f \in Directories : f = dirFrame[s]
  BY <1>1 DEF Directories
<1>6. OneUse(pd', table', UsedPages', (free \cup Released(ps)) \cup {f}, Directories \ {f})
  BY <1>4, UseNoDirectory
<1>7. \A x, y \in Spaces : dirFrame[x] # 0 /\ dirFrame[x] = dirFrame[y] => x = y
  BY <1>1 DEF UseInv
<1>8. Directories' = Directories \ {f}
  <2>1. \A x \in Spaces : dirFrame'[x] = IF x = s THEN 0 ELSE dirFrame[x]
    BY <1>3 DEF StateInv
  <2> QED
    BY <1>1, <1>5, <1>7, <2>1 DEF Directories
<1>9. free' = (free \cup Released(ps)) \cup {f}
  BY <1>3, <1>5
<1>10. OneUse(pd', table', UsedPages', free', Directories')
  BY <1>6, <1>8, <1>9
<1>11. \A x, y \in Spaces : dirFrame'[x] # 0 /\ dirFrame'[x] = dirFrame'[y] => x = y
  BY <1>3, <1>7 DEF StateInv
<1> QED
  BY <1>10, <1>11 DEF UseInv

\* Every step leaves each frame one use.
LEMMA UseStep ==
  StateInv /\ StateInv' /\ LinearInv /\ LinearInv' /\ KindInv /\ UseInv /\ [Next]_vars => UseInv'
<1> SUFFICES ASSUME StateInv, StateInv', LinearInv, LinearInv', KindInv, UseInv, [Next]_vars
             PROVE  UseInv'
  OBVIOUS
<1>1. CASE UNCHANGED vars
  <2>1. UsedPages' = UsedPages /\ Directories' = Directories /\ Running' = Running
    BY <1>1 DEF vars, UsedPages, MappedSoFar, CallerPages, HeapRange, LowPages, Directories, Running
  <2> QED
    BY <1>1, <2>1 DEF vars, UseInv
<1>2. CASE Next /\ PagingInit
  BY <1>2, UsePagingInit
<1>3. CASE Next /\ (HeapStep \/ MapStep)
  BY <1>3, UseMapping
<1>4. CASE Next /\ (MapOutOfMemory \/ MapOutOfRegions)
  BY <1>4, UseRollback
<1>5. ASSUME Next, NEW s \in AllSpaces, NEW i \in DOMAIN regions[s],
             UnmapRegion(s, regions[s][i].base)
      PROVE  UseInv'
  BY <1>5, UseUnmap
<1>6. ASSUME Next, NEW s \in Spaces, CreateSpace(s) PROVE UseInv'
  BY <1>6, UseCreate
<1>7. ASSUME Next, NEW s \in Spaces, DestroySpace(s) PROVE UseInv'
  BY <1>7, UseDestroy
<1>8. ASSUME Next, UNCHANGED <<pd, table, free, dirFrame>>, Running, ~(HeapStep \/ MapStep)
      PROVE  UseInv'
  BY <1>8, UseOther
<1>9. ASSUME \/ KheapInit \/ VmmInit \/ HeapEnd \/ HeapOutOfMemory \/ MapEnd
             \/ \E n \in 1 .. HeapPages : HeapStart(n)
             \/ \E s \in MapSpaces, r \in Requests : MapStart(s, r[1], r[2])
             \/ \E s \in AllSpaces : SwitchSpace(s)
      PROVE  UNCHANGED <<pd, table, free, dirFrame>> /\ Running
  BY <1>9 DEF KheapInit, VmmInit, HeapEnd, HeapOutOfMemory, MapEnd, HeapStart, MapStart,
     SwitchSpace, Idle, Running, spaceVars
<1> QED
  BY <1>1, <1>2, <1>3, <1>4, <1>5, <1>6, <1>7, <1>8, <1>9 DEF Next

\* Each frame has one use, whatever is mapped, unmapped, taken back, created or destroyed.
THEOREM UseInvariant == Spec => []UseInv
<1>1. Init => UseInv
  BY DEF Init, UseInv, Running
<1> QED
  BY <1>1, UseStep, StateInvariant, LinearInvariant, KindInvariant, PTL DEF Spec

\* The page tables, the page directories, the free frames and the frames behind the pages of
\* regions and of the heap are all apart, and no frame is behind two pages, for any sequence
\* of calls: property FrameHasOneUse.
THEOREM FrameHasOneUseHolds == Spec => []FrameHasOneUse
<1>1. StateInv /\ LinearInv /\ UseInv /\ TypeOK => FrameHasOneUse
  <2> SUFFICES ASSUME StateInv, LinearInv, UseInv, TypeOK PROVE FrameHasOneUse
    OBVIOUS
  <2>1. ASSUME Running
        PROVE  LET ps == MappedPages \cup HeapRange
               IN  /\ \A p, q \in ps : p # q /\ GetPhysical(p) # 0 => GetPhysical(p) # GetPhysical(q)
                   /\ Released(ps) \cap (free \cup DynamicTables \cup Directories) = {}
                   /\ free \cap (DynamicTables \cup Directories) = {}
                   /\ DynamicTables \cap Directories = {}
    <3>1. PICK ps \in SUBSET UsedPages : ps = MappedPages \cup HeapRange
      <4>1. MappedPages \subseteq MappedSoFar \cup CallerPages
        BY DEF MappedPages, CallerPages, Live, AllSpaces
      <4> QED
        BY <4>1 DEF UsedPages
    <3>2. OneUse(pd, table, ps, free, Directories)
      BY <2>1, FewerPages DEF UseInv
    <3>3. pd \in Directory
      BY <2>1, RunningTypes
    <3>4. DynamicTables \subseteq MadeTables(pd)
      <4>1. StaticTables \subseteq 0 .. KernelEnd - 1 /\ 0 \in 0 .. KernelEnd - 1
        BY VmmSizes, Sizes DEF StaticTables
      <4>2. ASSUME NEW i \in PdIndices, pd[i] \notin 0 .. KernelEnd - 1
            PROVE  pd[i] \in MadeTables(pd)
        BY <3>3, <4>1, <4>2, EntryKinds
      <4> QED
        BY <4>2 DEF DynamicTables
    <3>5. \A p : GetPhysical(p) = Walk(pd, table, p)
      BY DEF GetPhysical
    <3>6. Released(ps) = Behind(pd, table, ps)
      BY BehindIsReleased
    <3>7. /\ \A p, q \in ps : p # q /\ GetPhysical(p) # 0 => GetPhysical(p) # GetPhysical(q)
          /\ Released(ps) \cap (free \cup DynamicTables \cup Directories) = {}
          /\ free \cap (DynamicTables \cup Directories) = {}
          /\ DynamicTables \cap Directories = {}
      <4>1. \A p, q \in ps : p # q /\ GetPhysical(p) # 0 => GetPhysical(p) # GetPhysical(q)
        BY <3>2, <3>5 DEF OneUse
      <4>2. /\ Released(ps) \cap (free \cup DynamicTables \cup Directories) = {}
            /\ free \cap (DynamicTables \cup Directories) = {}
            /\ DynamicTables \cap Directories = {}
        BY <3>2, <3>4, <3>6 DEF OneUse
      <4> QED
        BY <4>1, <4>2
    <3> QED
      BY <3>1, <3>7
  <2> QED
    BY <2>1 DEF FrameHasOneUse
<1> QED
  BY <1>1, StateInvariant, LinearInvariant, UseInvariant, TypesHold, PTL

-----------------------------------------------------------------------------
(* The copies of the kernel's directory.                                   *)

\* An entry of a copy is absent or the kernel's own, and a space that does not exist has none.
DirInv ==
  /\ \A s \in Spaces, i \in PdIndices : dirs[s][i] # 0 => dirs[s][i] = pd[i]
  /\ \A s \in Spaces : dirFrame[s] = 0 => \A i \in PdIndices : dirs[s][i] = 0

\* What a step does to the directories of the spaces.
LEMMA DirectoriesStep ==
  ASSUME StateInv, LinearInv, UseInv, DirInv, Next, NEW s \in Spaces, NEW i \in PdIndices
  PROVE  /\ dirs'[s][i] # 0 => dirs'[s][i] = pd'[i]
         /\ dirFrame'[s] = 0 => dirs'[s][i] = 0
<1>1. dirs[s][i] # 0 => dirs[s][i] = pd[i]
  BY DEF DirInv
<1>2. dirFrame[s] = 0 => dirs[s][i] = 0
  BY DEF DirInv
<1>3. CASE PagingInit
  <2>1. dirFrame[s] = 0 /\ dirs' = dirs /\ dirFrame' = dirFrame
    BY <1>3 DEF PagingInit, LinearInv, spaceVars
  <2> QED
    BY <1>2, <2>1
<1>4. ASSUME ~PagingInit, dirs'[s] = dirs[s], dirFrame'[s] = dirFrame[s]
      PROVE  /\ dirs'[s][i] # 0 => dirs'[s][i] = pd'[i]
             /\ dirFrame'[s] = 0 => dirs'[s][i] = 0
  BY <1>1, <1>2, <1>4, EntriesStay
<1>5. ASSUME NEW u \in Spaces, CreateSpace(u)
      PROVE  /\ dirs'[s][i] # 0 => dirs'[s][i] = pd'[i]
             /\ dirFrame'[s] = 0 => dirs'[s][i] = 0
  <2>1. free # {} /\ Running
    BY <1>5 DEF CreateSpace, Running, Idle
  <2>2. Min(free) \in free
    BY <2>1, LowestFree
  <2>3. Min(free) # 0
    BY <2>1, <2>2 DEF UseInv, OneUse
  <2>4. /\ dirFrame'[u] = Min(free) /\ dirs'[u] = KernelEntries /\ pd' = pd
        /\ \A w \in Spaces : w # u => dirFrame'[w] = dirFrame[w] /\ dirs'[w] = dirs[w]
    BY <1>5 DEF CreateSpace, StateInv
  <2>5. KernelEntries[i] = 0 \/ KernelEntries[i] = pd[i]
    BY DEF KernelEntries
  <2> QED
    BY <1>1, <1>2, <2>3, <2>4, <2>5
<1>6. ASSUME NEW u \in Spaces, DestroySpace(u)
      PROVE  /\ dirs'[s][i] # 0 => dirs'[s][i] = pd'[i]
             /\ dirFrame'[s] = 0 => dirs'[s][i] = 0
  <2>1. /\ dirs'[u] = [j \in PdIndices |-> 0] /\ pd' = pd
        /\ \A w \in Spaces : w # u => dirFrame'[w] = dirFrame[w] /\ dirs'[w] = dirs[w]
    BY <1>6 DEF DestroySpace, StateInv
  <2> QED
    BY <1>1, <1>2, <2>1
<1> QED
  BY <1>3, <1>4, <1>5, <1>6 DEF Next, KheapInit, VmmInit, HeapStart, HeapStep, HeapEnd,
     HeapOutOfMemory, MapStart, MapStep, MapOutOfMemory, MapOutOfRegions, Rollback, MapEnd,
     UnmapRegion, SwitchSpace, spaceVars

\* The copies stay copies: paging_map_page never replaces an entry of the kernel's directory,
\* and no page table is ever given back.
THEOREM DirInvariant == Spec => []DirInv
<1>1. Init => DirInv
  BY DEF Init, DirInv
<1>2. StateInv /\ LinearInv /\ UseInv /\ DirInv /\ [Next]_vars => DirInv'
  <2> SUFFICES ASSUME StateInv, LinearInv, UseInv, DirInv, [Next]_vars PROVE DirInv'
    OBVIOUS
  <2>1. CASE Next
    BY <2>1, DirectoriesStep DEF DirInv
  <2>2. CASE UNCHANGED vars
    BY <2>2 DEF vars, DirInv
  <2> QED
    BY <2>1, <2>2
<1> QED
  BY <1>1, <1>2, StateInvariant, LinearInvariant, UseInvariant, PTL DEF Spec

\* No directory leads to another frame than the kernel's, anywhere in the kernel half, and
\* what paging_init mapped is the same in all of them: property StaleOnlyMissing.
THEOREM StaleOnlyMissingHolds == Spec => []StaleOnlyMissing
<1>1. StateInv /\ LinearInv /\ DirInv => StaleOnlyMissing
  <2> SUFFICES ASSUME StateInv, LinearInv, DirInv, Running, NEW s \in Live,
                      NEW p \in KernelBase .. NumPages - 1
               PROVE  \/ Walk(DirectoryOf(s), table, p) = GetPhysical(p)
                      \/ /\ Walk(DirectoryOf(s), table, p) = 0
                         /\ p >= KernelBase + LinearFrames
    BY DEF StaleOnlyMissing
  <2>1. p \in Pages /\ PdOf(p) \in PdIndices
    <3>1. p \in Pages
      BY VmmSizes DEF Pages
    <3> QED
      BY <3>1, PageParts
  <2>2. CASE DirectoryOf(s)[PdOf(p)] = pd[PdOf(p)]
    BY <2>2 DEF Walk, GetPhysical
  <2>3. CASE DirectoryOf(s)[PdOf(p)] # pd[PdOf(p)]
    <3>1. s \in Spaces /\ dirFrame[s] # 0 /\ DirectoryOf(s) = dirs[s]
      BY <2>3 DEF DirectoryOf, Live
    <3>2. dirs[s][PdOf(p)] = 0
      BY <2>1, <2>3, <3>1 DEF DirInv
    <3>3. PdOf(p) \notin LinearIndices
      BY <2>3, <3>1 DEF LinearInv, Running
    <3>4. p >= KernelBase + LinearFrames
      BY <3>3, LinearPage, VmmSizes
    <3> QED
      BY <3>1, <3>2, <3>4 DEF Walk
  <2> QED
    BY <2>2, <2>3
<1> QED
  BY <1>1, StateInvariant, LinearInvariant, DirInvariant, PTL

-----------------------------------------------------------------------------
(* The accounts of frames.                                                 *)

\* The pages of the heap, now and later, those of the regions that callers mapped in a list
\* and in the kernel's, and the pages whose frames are accounted for.
HeapAll == HeapBase .. HeapBase + HeapPages - 1
PagesOf(list) ==
  UNION {RegionPages(list[i]) : i \in {j \in DOMAIN list : list[j].type = UserCode}}
KernelPages == PagesOf(regions[Kernel])
OwnPages == MappedSoFar \cup CallerPages \cup HeapRange

\* The shape of the spaces: a directory has copies of the kernel's entries, a space that does
\* not exist has neither entries nor regions, nothing is registered before vmm_init and the
\* heap is ever after, apart from what callers map, and callers map for the kernel.
SpaceInv ==
  /\ \A s \in Spaces, i \in PdIndices : dirs[s][i] # 0 => dirs[s][i] = pd[i]
  /\ \A s \in Spaces : dirFrame[s] = 0 =>
       regions[s] = <<>> /\ \A i \in PdIndices : dirs[s][i] = 0
  /\ phase \in {"reset", "paging", "heap"} =>
       call.op # "map" /\ \A s \in AllSpaces : regions[s] = <<>>
  /\ phase = "ready" => \E i \in 1 .. Len(regions[Kernel]) : regions[Kernel][i] = HeapRegion
  /\ CallerPages \cap HeapAll = {}
  /\ call.op = "map" => call.space = Kernel

\* A page that is present and lies in a region that callers mapped lies in one of the kernel's,
\* or is mapped by the call in progress; the frames that the machine started with are
\* accounted for.
LedgerInv ==
  Running =>
    /\ \A p \in CallerPages : IsMapped(p) => p \in KernelPages \cup MappedSoFar
    /\ Ram \subseteq free \cup Released(OwnPages) \cup DynamicTables \cup Directories \cup stranded

\* Callers map regions for the kernel.
KernelMaps == MapSpaces \subseteq {Kernel}

\* What a step that maps a page does to the translations.
LEMMA MappingEffect ==
  ASSUME StateInv, LinearInv, UseInv, HeapStep \/ MapStep
  PROVE  \E p \in Pages, f \in free, t \in Frames :
           /\ MapsPage(p, f, t) /\ f # 0
           /\ \A q \in Pages : q # p => Walk(pd', table', q) = GetPhysical(q)
           /\ t # 0 => Walk(pd', table', p) = f /\ pd'[PdOf(p)] = t
           /\ t = 0 => pd[PdOf(p)] = 0 /\ pd' = pd /\ table' = table
<1>1. PICK p \in Pages, f \in free, t \in Frames : MapsPage(p, f, t)
  BY MappingStep
<1>2. Running
  BY DEF HeapStep, MapStep, Running
<1>3. /\ pd \in Directory /\ table \in Tables /\ UsedPages \in SUBSET Pages
      /\ free \in SUBSET Frames
  BY <1>2, RunningTypes
<1>4. OneUse(pd, table, UsedPages, free, Directories)
  BY <1>2 DEF UseInv
<1>5. f # 0 /\ f \in Frames /\ PdOf(p) \in PdIndices /\ pd \in [PdIndices -> Frames]
  BY <1>3, <1>4, PageParts DEF OneUse, Directory
<1>6. CASE t = 0
  <2>1. pd' = pd /\ table' = table /\ pd[PdOf(p)] = 0
    BY <1>1, <1>6 DEF MapsPage
  <2> QED
    BY <1>1, <1>5, <1>6, <2>1 DEF GetPhysical
<1>7. CASE t # 0 /\ pd[PdOf(p)] = t
  <2>1. pd' = Entered(pd, p, t) /\ table' = Written(table, t, table[t], p, f)
    BY <1>1, <1>7 DEF MapsPage, Entered, Written
  <2>2. pd' = pd
    BY <1>5, <1>7, <2>1 DEF Entered
  <2>3. /\ Walk(pd, Written(table, t, table[t], p, f), p) = f
        /\ \A q \in Pages : q # p =>
             Walk(pd, Written(table, t, table[t], p, f), q) = Walk(pd, table, q)
    BY <1>3, <1>4, <1>5, <1>7, WalkOldTable
  <2> QED
    BY <1>1, <1>5, <1>7, <2>1, <2>2, <2>3 DEF GetPhysical
<1>8. CASE t # 0 /\ pd[PdOf(p)] # t
  <2>1. pd' = Entered(pd, p, t) /\ table' = Written(table, t, EmptyTable, p, f)
    BY <1>1, <1>8 DEF MapsPage, Entered, Written
  <2>2. pd[PdOf(p)] = 0 /\ t \in free
    BY <1>1, <1>8 DEF MapsPage
  <2>3. /\ Walk(Entered(pd, p, t), Written(table, t, EmptyTable, p, f), p) = f
        /\ \A q \in Pages : q # p =>
             Walk(Entered(pd, p, t), Written(table, t, EmptyTable, p, f), q) = Walk(pd, table, q)
    BY <1>3, <1>4, <1>5, <1>8, <2>2, WalkNewTable
  <2>4. pd'[PdOf(p)] = t
    BY <1>5, <2>1 DEF Entered
  <2> QED
    BY <1>1, <1>5, <1>8, <2>1, <2>3, <2>4 DEF GetPhysical
<1> QED
  BY <1>6, <1>7, <1>8

\* What unmapping does to the translations.
LEMMA UnmappingEffect ==
  ASSUME StateInv, LinearInv, UseInv, Running, NEW ps \in SUBSET Pages,
         pd' = pd, table' = Cleared(ps), NEW q \in Pages
  PROVE  Walk(pd', table', q) = IF q \in ps THEN 0 ELSE GetPhysical(q)
<1>1. /\ pd \in Directory /\ table \in Tables /\ UsedPages \in SUBSET Pages
      /\ free \in SUBSET Frames
  BY RunningTypes
<1>2. OneUse(pd, table, UsedPages, free, Directories)
  BY DEF UseInv
<1>3. PICK t \in Frames, i \in PtIndices : t = pd[PdOf(q)] /\ i = PtOf(q)
  BY <1>1, PageParts DEF Directory
<1>4. table'[t][i] = IF \E p \in ps : pd[PdOf(p)] = t /\ PtOf(p) = i THEN 0 ELSE table[t][i]
  BY DEF Cleared
<1>5. Walk(pd', table', q) = IF t = 0 THEN 0 ELSE table'[t][i]
  BY <1>3 DEF Walk
<1>6. GetPhysical(q) = IF t = 0 THEN 0 ELSE table[t][i]
  BY <1>3 DEF Walk, GetPhysical
<1>7. CASE q \in ps
  BY <1>3, <1>4, <1>5, <1>7
<1>8. CASE q \notin ps
  <2>1. ASSUME t # 0, NEW p \in ps, pd[PdOf(p)] = t, PtOf(p) = i PROVE FALSE
    <3>1. p \in Pages /\ pd[PdOf(p)] # 0 /\ pd[PdOf(p)] = pd[PdOf(q)] /\ PtOf(p) = PtOf(q)
      BY <1>3, <2>1
    <3>2. p = q
      BY <1>1, <1>2, <3>1, SamePlace
    <3> QED
      BY <1>8, <3>2
  <2> QED
    BY <1>4, <1>5, <1>6, <1>8, <2>1
<1> QED
  BY <1>7, <1>8

\* remove_region loses one region.
LEMMA RemoveKeeps ==
  ASSUME NEW list \in Seq(RegionType), NEW at \in 1 .. Len(list), NEW k \in 1 .. Len(list), k # at
  PROVE  \E i \in 1 .. Len(RemoveRegion(list, at)) : RemoveRegion(list, at)[i] = list[k]
<1>1. PICK new \in Seq(RegionType) : new = RemoveRegion(list, at) /\ RemovedAt(new, list, at)
  BY RemoveShape DEF RemovedAt
<1>2. PICK n \in Nat : n = Len(list)
  OBVIOUS
<1>3. /\ Len(new) = n - 1
      /\ \A i \in 1 .. at - 1 : new[i] = list[i]
      /\ \A i \in at .. n - 1 : new[i] = list[i + 1]
  BY <1>1, <1>2 DEF RemovedAt
<1>4. at \in 1 .. n /\ k \in 1 .. n
  BY <1>2
<1>5. CASE k < at
  <2>1. k \in 1 .. at - 1 /\ k \in 1 .. n - 1
    BY <1>4, <1>5
  <2>2. new[k] = list[k]
    BY <1>3, <2>1
  <2> QED
    BY <1>1, <1>3, <2>1, <2>2
<1>6. CASE k > at
  <2>1. PICK i \in at .. n - 1 : i + 1 = k /\ i \in 1 .. n - 1
    <3>1. k - 1 \in at .. n - 1 /\ (k - 1) + 1 = k /\ k - 1 \in 1 .. n - 1
      BY <1>4, <1>6
    <3> QED
      BY <3>1
  <2>2. new[i] = list[k]
    BY <1>3, <2>1
  <2> QED
    BY <1>1, <1>3, <2>1, <2>2
<1> QED
  BY <1>4, <1>5, <1>6

\* The pages that callers mapped, list by list.
LEMMA PageOf ==
  ASSUME NEW list \in Seq(RegionType), NEW p
  PROVE  p \in PagesOf(list) <=>
           \E i \in 1 .. Len(list) : list[i].type = UserCode /\ p \in RegionPages(list[i])
<1>1. DOMAIN list = 1 .. Len(list)
  OBVIOUS
<1> QED
  BY <1>1 DEF PagesOf

\* All of them are pages of callers.
LEMMA CallerParts ==
  /\ \A s \in AllSpaces : PagesOf(regions[s]) \subseteq CallerPages
  /\ \A s \in AllSpaces : PagesOf(regions'[s]) \subseteq CallerPages'
  /\ \A p \in CallerPages : \E s \in AllSpaces : p \in PagesOf(regions[s])
  /\ \A p \in CallerPages' : \E s \in AllSpaces : p \in PagesOf(regions'[s])
  /\ KernelPages = PagesOf(regions[Kernel]) /\ KernelPages' = PagesOf(regions'[Kernel])
  /\ KernelPages \subseteq CallerPages /\ Kernel \in AllSpaces
<1>1. /\ CallerPages = UNION {PagesOf(regions[s]) : s \in AllSpaces}
      /\ CallerPages' = UNION {PagesOf(regions'[s]) : s \in AllSpaces}
  BY DEF CallerPages, PagesOf, RegionPages, PageAt
<1>2. KernelPages = PagesOf(regions[Kernel]) /\ KernelPages' = PagesOf(regions'[Kernel])
  BY DEF KernelPages, PagesOf, RegionPages, PageAt
<1>3. Kernel \in AllSpaces
  BY DEF AllSpaces
<1> HIDE DEF PagesOf, CallerPages
<1> QED
  BY <1>1, <1>2, <1>3

\* A list that loses no pages but those in ps.
LEMMA PagesKept ==
  ASSUME StateInv, NEW s \in AllSpaces, NEW new, regions' = [regions EXCEPT ![s] = new], NEW ps,
         PagesOf(regions[s]) \subseteq PagesOf(new) \cup ps
  PROVE  CallerPages \subseteq CallerPages' \cup ps /\ KernelPages \subseteq KernelPages' \cup ps
<1>1. regions'[s] = new /\ \A u \in AllSpaces : u # s => regions'[u] = regions[u]
  BY DEF StateInv
<1>2. \A u \in AllSpaces : PagesOf(regions[u]) \subseteq PagesOf(regions'[u]) \cup ps
  BY <1>1
<1>3. ASSUME NEW p \in CallerPages PROVE p \in CallerPages' \cup ps
  <2>1. PICK u \in AllSpaces : p \in PagesOf(regions[u])
    BY CallerParts
  <2> QED
    BY <1>2, <2>1, CallerParts
<1> QED
  BY <1>2, <1>3, CallerParts

\* The pages of a region that does not wrap.
LEMMA PlainPages ==
  ASSUME NEW r \in RegionType, r.base + r.size < NumPages, NEW p \in RegionPages(r)
  PROVE  p \in Nat /\ r.base <= p /\ p < r.base + r.size
<1>1. PICK b \in Nat, z \in Nat : b = r.base /\ z = r.size
  BY VmmSizes DEF RegionType, Pages
<1>2. PICK k \in 0 .. z - 1 : p = PageAt(b, k)
  BY <1>1 DEF RegionPages
<1>3. k \in Nat /\ k < z /\ NumPages \in Nat
  BY <1>1, VmmSizes
<1>4. p = b + k
  BY <1>1, <1>2, <1>3, PageAtPlain
<1> QED
  BY <1>1, <1>3, <1>4

\* The pages of the call in progress do not wrap, and are apart from the heap and the regions
\* of the kernel.
LEMMA CallApart ==
  ASSUME StateInv, OrderInv, SpaceInv, phase = "ready", call.op = "map",
         NEW k \in 0 .. call.size - 1
  PROVE  /\ PageAt(call.base, k) = call.base + k /\ call.base + k \in Nat
         /\ PageAt(call.base, k) \notin HeapAll
         /\ PageAt(call.base, k) \notin KernelPages
<1>1. PICK b \in Nat, z \in Nat : b = call.base /\ z = call.size
  BY VmmSizes DEF StateInv, CallType, Pages
<1>2. b + z < NumPages /\ call.space = Kernel /\ ~Overlaps(regions[Kernel], b, z) /\ NumPages \in Nat
  BY <1>1, VmmSizes DEF OrderInv, SpaceInv
<1>3. PICK list \in Seq(RegionType) : list = regions[Kernel] /\ Ordered(list)
  BY CallerParts DEF StateInv, OrderInv
<1>4. \A i \in 1 .. Len(list) : list[i].base + list[i].size <= b \/ b + z <= list[i].base
  BY <1>2, <1>3, NoOverlap
<1>5. k \in Nat /\ k < z
  BY <1>1
<1>6. PageAt(b, k) = b + k
  BY <1>2, <1>5, PageAtPlain
<1>7. ASSUME NEW i \in 1 .. Len(list), NEW r \in RegionType, r = list[i]
      PROVE  b + k < r.base \/ r.base + r.size <= b + k
  <2>1. PICK c \in Nat, y \in Nat : c = r.base /\ y = r.size
    BY VmmSizes DEF RegionType, Pages
  <2> QED
    BY <1>4, <1>5, <1>7, <2>1
<1>8. b + k \notin HeapAll
  <2>1. PICK i \in 1 .. Len(list) : list[i] = HeapRegion
    BY <1>3 DEF SpaceInv
  <2>2. HeapRegion.base = HeapBase /\ HeapRegion.size = HeapPages /\ HeapRegion \in RegionType
    BY InitialRegions DEF HeapRegion, Region, KernelRegions
  <2>3. b + k < HeapBase \/ HeapBase + HeapPages <= b + k
    BY <1>7, <2>1, <2>2
  <2>4. HeapBase \in Nat /\ HeapPages \in Nat
    BY VmmSizes DEF HeapBase
  <2> QED
    BY <1>5, <2>3, <2>4 DEF HeapAll
<1>9. b + k \notin KernelPages
  <2>1. SUFFICES ASSUME b + k \in PagesOf(list) PROVE FALSE
    BY <1>3, CallerParts
  <2>2. PICK i \in 1 .. Len(list) : b + k \in RegionPages(list[i])
    BY <2>1, PageOf
  <2>3. PICK r \in RegionType : r = list[i]
    OBVIOUS
  <2>4. r.base + r.size < NumPages
    BY <1>3, <2>3 DEF Ordered
  <2>5. r.base <= b + k /\ b + k < r.base + r.size
    BY <2>2, <2>3, <2>4, PlainPages
  <2>6. r.base \in Nat /\ r.size \in Nat
    BY VmmSizes DEF RegionType, Pages
  <2> QED
    BY <1>5, <1>7, <2>3, <2>5, <2>6
<1> QED
  BY <1>1, <1>5, <1>6, <1>8, <1>9

\* No step but vmm_init leads to a running machine from a phase before it or back.
LEMMA PhaseStep ==
  ASSUME StateInv, Next
  PROVE  /\ phase \in {"reset", "paging", "heap", "ready"}
         /\ phase' = "ready" => phase = "ready" \/ VmmInit
         /\ phase' \in {"reset", "paging", "heap"} => phase \in {"reset", "paging", "heap"}
         /\ Running' => Running \/ PagingInit
<1>1. CASE HeapStep \/ MapStep
  <2>1. PICK f \in Frames, avail \in SUBSET Frames, p \in Pages :
          f = Min(free) /\ avail = free \ {f} /\ p = PageAt(call.base, call.at)
    BY <1>1, LowestFree, CallPagesType DEF HeapStep, MapStep, StateInv
  <2>2. MapPage(p, f, avail).seen \in {"ok", "halted", "stray"}
    BY MapPageType
  <2>3. \A g, h : Outcome(g, h) \in {"ok", "halted", "stray"}
    BY DEF Outcome
  <2>4. phase' = phase \/ phase' \in {"halted", "stray"}
    BY <1>1, <2>1, <2>2, <2>3 DEF HeapStep, MapStep
  <2>5. phase \in {"heap", "ready"}
    BY <1>1 DEF HeapStep, MapStep
  <2> QED
    BY <2>4, <2>5 DEF Running
<1>2. CASE MapOutOfMemory \/ MapOutOfRegions
  BY <1>2, SeesTablesType DEF MapOutOfMemory, MapOutOfRegions, Rollback, Running
<1>3. ASSUME NEW s \in AllSpaces, NEW i \in DOMAIN regions[s],
             UnmapRegion(s, regions[s][i].base)
      PROVE  phase = "ready" /\ phase' \in {"ready", "halted", "stray"}
  BY <1>3, SeesTablesType DEF UnmapRegion, Idle
<1>4. ASSUME NEW s \in Spaces, CreateSpace(s) \/ DestroySpace(s)
      PROVE  phase = "ready" /\ phase' \in {"ready", "halted", "stray"}
  BY <1>4, SeesTablesType, SeesType DEF CreateSpace, DestroySpace, Idle
<1>5. CASE PagingInit \/ KheapInit \/ VmmInit
  BY <1>5 DEF PagingInit, KheapInit, VmmInit, Running
<1>6. ASSUME \/ HeapEnd \/ HeapOutOfMemory \/ MapEnd
             \/ \E n \in 1 .. HeapPages : HeapStart(n)
             \/ \E s \in MapSpaces, r \in Requests : MapStart(s, r[1], r[2])
             \/ \E s \in AllSpaces : SwitchSpace(s)
      PROVE  phase \in {"heap", "ready"} /\ phase' = phase
  BY <1>6 DEF HeapEnd, HeapOutOfMemory, MapEnd, HeapStart, MapStart, SwitchSpace, Idle
<1> QED
  BY <1>1, <1>2, <1>3, <1>4, <1>5, <1>6 DEF Next, Running

\* What a step does to the region lists: for spaces that do not exist, and before vmm_init,
\* nothing, and the heap's region stays.
LEMMA ListsKept ==
  ASSUME StateInv, UseInv, SpaceInv, Next
  PROVE  /\ \A s \in Spaces : dirFrame[s] = 0 /\ dirFrame'[s] = 0 => regions'[s] = regions[s]
         /\ phase' \in {"reset", "paging", "heap"} => regions' = regions
         /\ phase' = "ready" => \E i \in 1 .. Len(regions'[Kernel]) : regions'[Kernel][i] = HeapRegion
<1>1. /\ Kernel \in AllSpaces /\ Kernel \notin Spaces /\ regions[Kernel] \in Seq(RegionType)
      /\ HeapRegion \in RegionType
  BY VmmAssumption, InitialRegions DEF AllSpaces, Kernel, StateInv, KernelRegions
<1>2. CASE regions' = regions /\ ~VmmInit
  BY <1>2, PhaseStep DEF SpaceInv
<1>3. CASE VmmInit
  <2>1. PICK n \in {3, 4}, list \in Seq(RegionType) :
          /\ Registered(list, n, NumPages - 1) /\ \E i \in 1 .. n : list[i] = HeapRegion
          /\ regions' = [regions EXCEPT ![Kernel] = list]
    BY <1>3, VmmInitList
  <2>2. regions'[Kernel] = list /\ Len(list) = n
    BY <1>1, <2>1 DEF StateInv, Registered
  <2>3. phase' = "ready"
    BY <1>3 DEF VmmInit
  <2> QED
    BY <1>1, <2>1, <2>2, <2>3 DEF StateInv
<1>4. CASE MapEnd
  <2>1. call.space = Kernel /\ phase = "ready" /\ phase' = "ready"
    BY <1>4 DEF MapEnd, SpaceInv
  <2>2. Region(call.base, call.size, UserCode) \in RegionType
    BY DEF StateInv, CallType, Region, RegionType, UserCode, Mmio
  <2>3. regions' = [regions EXCEPT ![Kernel] =
                      InsertRegion(regions[Kernel], Region(call.base, call.size, UserCode))]
    BY <1>4, <2>1 DEF MapEnd
  <2>4. regions'[Kernel] = InsertRegion(regions[Kernel], Region(call.base, call.size, UserCode))
        /\ \A s \in Spaces : regions'[s] = regions[s]
    BY <1>1, <2>3 DEF StateInv
  <2>5. PICK k \in 1 .. Len(regions[Kernel]) : regions[Kernel][k] = HeapRegion
    BY <2>1 DEF SpaceInv
  <2>6. \E i \in 1 .. Len(regions'[Kernel]) : regions'[Kernel][i] = regions[Kernel][k]
    <3>1. PICK list \in Seq(RegionType), r \in RegionType :
            list = regions[Kernel] /\ r = Region(call.base, call.size, UserCode)
      BY <1>1, <2>2
    <3>2. \E i \in 1 .. Len(InsertRegion(list, r)) : InsertRegion(list, r)[i] = list[k]
      <4>1. k \in 1 .. Len(list)
        BY <2>5, <3>1
      <4> QED
        BY <4>1, InsertKeeps, ZenonT(60)
    <3> QED
      BY <2>4, <3>1, <3>2
  <2> QED
    BY <2>1, <2>4, <2>5, <2>6
<1>5. ASSUME NEW s \in AllSpaces, NEW j \in DOMAIN regions[s],
             UnmapRegion(s, regions[s][j].base)
      PROVE  /\ \A u \in Spaces : dirFrame[u] = 0 => regions'[u] = regions[u]
             /\ phase = "ready" /\ phase' \notin {"reset", "paging", "heap"}
             /\ \E i \in 1 .. Len(regions'[Kernel]) : regions'[Kernel][i] = HeapRegion
  <2>1. PICK at \in 1 .. Len(regions[s]) :
          at = Min({i \in DOMAIN regions[s] : regions[s][i].base = regions[s][j].base})
    BY UnmapPosition
  <2>2. /\ regions' = [regions EXCEPT ![s] = RemoveRegion(regions[s], at)]
        /\ regions[s][at].type > IdentityMap /\ s \in Live /\ phase = "ready"
        /\ phase' \in {"ready", "halted", "stray"}
    BY <1>5, <2>1, SeesTablesType DEF UnmapRegion, Idle
  <2>3. PICK k \in 1 .. Len(regions[Kernel]) : regions[Kernel][k] = HeapRegion
    BY <2>2 DEF SpaceInv
  <2>4. \E i \in 1 .. Len(regions'[Kernel]) : regions'[Kernel][i] = HeapRegion
    <3>1. CASE s = Kernel
      <4>1. k # at
        BY <2>2, <2>3, <3>1 DEF HeapRegion, Region, KernelHeap, IdentityMap
      <4>2. regions'[Kernel] = RemoveRegion(regions[Kernel], at)
        BY <1>1, <2>2, <3>1 DEF StateInv
      <4> QED
        <5>1. PICK list \in Seq(RegionType) : list = regions[Kernel]
          BY <1>1
        <5>2. at \in 1 .. Len(list) /\ k \in 1 .. Len(list) /\ list[k] = HeapRegion
          BY <2>1, <2>3, <3>1, <5>1
        <5>3. \E i \in 1 .. Len(RemoveRegion(list, at)) : RemoveRegion(list, at)[i] = list[k]
          BY <4>1, <5>2, RemoveKeeps
        <5> QED
          BY <4>2, <5>1, <5>2, <5>3
    <3>2. CASE s # Kernel
      BY <1>1, <2>2, <2>3, <3>2 DEF StateInv
    <3> QED
      BY <3>1, <3>2
  <2>5. \A u \in Spaces : dirFrame[u] = 0 => regions'[u] = regions[u]
    BY <1>1, <2>2 DEF StateInv, Live, AllSpaces
  <2> QED
    BY <2>2, <2>4, <2>5
<1>6. ASSUME NEW s \in Spaces, CreateSpace(s) \/ DestroySpace(s)
      PROVE  /\ \A u \in Spaces : dirFrame[u] = 0 /\ dirFrame'[u] = 0 => regions'[u] = regions[u]
             /\ phase = "ready" /\ phase' \notin {"reset", "paging", "heap"}
             /\ \E i \in 1 .. Len(regions'[Kernel]) : regions'[Kernel][i] = HeapRegion
  <2>1. phase = "ready" /\ phase' \in {"ready", "halted", "stray"}
    BY <1>6, SeesTablesType, SeesType DEF CreateSpace, DestroySpace, Idle
  <2>2. \A u \in AllSpaces : u # s => regions'[u] = regions[u]
    BY <1>6 DEF CreateSpace, DestroySpace, StateInv
  <2>3. CASE DestroySpace(s)
    <3>1. dirFrame[s] # 0
      BY <2>3 DEF DestroySpace
    <3> QED
      BY <1>1, <2>1, <2>2, <3>1 DEF SpaceInv, AllSpaces
  <2>4. CASE CreateSpace(s)
    <3>1. dirFrame'[s] = 0 => regions'[s] = regions[s]
      <4>1. free # {} /\ Running
        BY <2>1, <2>4 DEF CreateSpace, Running
      <4>2. Min(free) \in free
        BY <4>1, LowestFree
      <4>3. Min(free) # 0
        BY <4>1, <4>2 DEF UseInv, OneUse
      <4>4. dirFrame'[s] = Min(free)
        BY <2>4 DEF CreateSpace, StateInv
      <4> QED
        BY <4>3, <4>4
    <3> QED
      BY <1>1, <2>1, <2>2, <3>1 DEF SpaceInv, AllSpaces
  <2> QED
    BY <1>6, <2>3, <2>4
<1> QED
  BY <1>2, <1>3, <1>4, <1>5, <1>6 DEF Next, PagingInit, KheapInit, HeapStart, HeapStep,
     HeapEnd, HeapOutOfMemory, MapStart, MapStep, MapOutOfMemory, MapOutOfRegions, Rollback,
     SwitchSpace, spaceVars

\* What a step does to the call in progress.
LEMMA CallStep ==
  ASSUME KernelMaps, StateInv, SpaceInv, Next
  PROVE  /\ call'.op = "map" => call'.space = Kernel
         /\ phase' \in {"reset", "paging", "heap"} => call'.op # "map"
<1>1. CASE PagingInit
  BY <1>1 DEF PagingInit, StateInv, NoCall
<1>2. CASE KheapInit
  BY <1>2 DEF KheapInit
<1>3. ASSUME NEW n \in 1 .. HeapPages, HeapStart(n) PROVE call'.op = "heap"
  BY <1>3 DEF HeapStart
<1>4. ASSUME NEW s \in MapSpaces, NEW r \in Requests, MapStart(s, r[1], r[2])
      PROVE  call'.space = Kernel /\ phase' = "ready"
  <2>1. call'.space = s /\ phase' = "ready"
    BY <1>4 DEF MapStart, Idle
  <2> QED
    BY <2>1 DEF KernelMaps
<1>5. CASE HeapStep \/ MapStep
  <2>1. call'.op = call.op /\ call'.space = call.space
    BY <1>5 DEF HeapStep, MapStep, StateInv, CallType
  <2> QED
    BY <2>1, PhaseStep DEF SpaceInv
<1>6. CASE \/ VmmInit \/ HeapEnd \/ HeapOutOfMemory \/ MapOutOfMemory \/ MapOutOfRegions
           \/ MapEnd
           \/ \E s \in AllSpaces : \E i \in DOMAIN regions[s] :
                UnmapRegion(s, regions[s][i].base)
           \/ \E s \in Spaces : CreateSpace(s) \/ DestroySpace(s)
           \/ \E s \in AllSpaces : SwitchSpace(s)
  <2>1. call' = NoCall
    BY <1>6 DEF VmmInit, HeapEnd, HeapOutOfMemory, MapOutOfMemory, MapOutOfRegions, Rollback,
       MapEnd, UnmapRegion, CreateSpace, DestroySpace, SwitchSpace, Idle
  <2> QED
    BY <2>1 DEF NoCall
<1> QED
  BY <1>1, <1>2, <1>3, <1>4, <1>5, <1>6 DEF Next

\* Every step keeps the shape of the spaces.
LEMMA SpaceStep ==
  ASSUME KernelMaps
  PROVE  StateInv /\ LinearInv /\ OrderInv /\ UseInv /\ SpaceInv /\ [Next]_vars => SpaceInv'
<1> SUFFICES ASSUME StateInv, LinearInv, OrderInv, UseInv, SpaceInv, [Next]_vars PROVE SpaceInv'
  OBVIOUS
<1>1. CASE UNCHANGED vars
  <2>1. CallerPages' = CallerPages
    BY <1>1 DEF vars, CallerPages, RegionPages, PageAt
  <2> QED
    BY <1>1, <2>1 DEF vars, SpaceInv, HeapAll
<1>2. CASE Next
  <2>0. DirInv
    BY DEF SpaceInv, DirInv
  <2>1. \A s \in Spaces, i \in PdIndices : dirs'[s][i] # 0 => dirs'[s][i] = pd'[i]
    BY <1>2, <2>0, DirectoriesStep
  <2>2. ASSUME NEW s \in Spaces, dirFrame'[s] = 0
        PROVE  regions'[s] = <<>> /\ \A i \in PdIndices : dirs'[s][i] = 0
    <3>1. \A i \in PdIndices : dirs'[s][i] = 0
      BY <1>2, <2>0, <2>2, DirectoriesStep
    <3>2. CASE dirFrame[s] = 0
      BY <1>2, <2>2, <3>1, <3>2, ListsKept DEF SpaceInv
    <3>3. CASE dirFrame[s] # 0
      <4>1. DestroySpace(s)
        <5>1. ASSUME NEW u \in Spaces, CreateSpace(u) \/ (DestroySpace(u) /\ u # s) PROVE FALSE
          <6>1. dirFrame'[s] = dirFrame[s]
            BY <3>3, <5>1 DEF CreateSpace, DestroySpace, StateInv
          <6> QED
            BY <2>2, <3>3, <6>1
        <5>2. dirFrame' # dirFrame
          BY <2>2, <3>3
        <5> QED
          BY <1>2, <5>1, <5>2 DEF Next, PagingInit, KheapInit, VmmInit, HeapStart, HeapStep, HeapEnd,
             HeapOutOfMemory, MapStart, MapStep, MapOutOfMemory, MapOutOfRegions, Rollback, MapEnd,
             UnmapRegion, SwitchSpace, spaceVars
      <4>2. regions'[s] = <<>>
        BY <4>1 DEF DestroySpace, StateInv, AllSpaces
      <4> QED
        BY <3>1, <4>2
    <3> QED
      BY <3>2, <3>3
  <2>3. ASSUME phase' \in {"reset", "paging", "heap"}
        PROVE  call'.op # "map" /\ \A s \in AllSpaces : regions'[s] = <<>>
    BY <1>2, <2>3, CallStep, ListsKept, PhaseStep DEF SpaceInv
  <2>4. phase' = "ready" => \E i \in 1 .. Len(regions'[Kernel]) : regions'[Kernel][i] = HeapRegion
    BY <1>2, ListsKept
  <2>5. CallerPages' \cap HeapAll = {}
    <3>1. CASE MapEnd
      <4>1. /\ phase = "ready" /\ call.op = "map"
            /\ MappedSoFar = {PageAt(call.base, k) : k \in 0 .. call.size - 1}
        BY <3>1 DEF MapEnd, MappedSoFar
      <4>2. MappedSoFar \cap HeapAll = {}
        BY <4>1, CallApart
      <4> QED
        BY <1>2, <4>2, CallerPagesStep DEF SpaceInv
    <3>2. CASE ~MapEnd
      BY <1>2, <3>2, CallerPagesStep DEF SpaceInv
    <3> QED
      BY <3>1, <3>2
  <2>6. call'.op = "map" => call'.space = Kernel
    BY <1>2, CallStep
  <2> QED
    BY <2>1, <2>2, <2>3, <2>4, <2>5, <2>6 DEF SpaceInv, HeapAll
<1> QED
  BY <1>1, <1>2

\* The spaces keep their shape.
THEOREM SpaceInvariant == ASSUME RequestsFit, KernelMaps PROVE Spec => []SpaceInv
<1>1. Init => SpaceInv
  <2> SUFFICES ASSUME Init PROVE SpaceInv
    OBVIOUS
  <2>1. \A s \in AllSpaces : regions[s] = <<>>
    BY DEF Init
  <2>2. CallerPages = {}
    BY <2>1 DEF CallerPages
  <2>3. \A s \in Spaces : regions[s] = <<>> /\ \A i \in PdIndices : dirs[s][i] = 0
    BY <2>1 DEF Init, AllSpaces
  <2> QED
    BY <2>1, <2>2, <2>3, NoCallType DEF Init, SpaceInv
<1>2. StateInv /\ LinearInv /\ OrderInv /\ UseInv /\ SpaceInv /\ [Next]_vars => SpaceInv'
  BY SpaceStep
<1> QED
  BY <1>1, <1>2, StateInvariant, LinearInvariant, OrderInvariant, UseInvariant, PTL DEF Spec

\* What every other step does while the machine runs: it unmaps some pages and frees the frames
\* behind them, and no page drops out of the accounts unless it is unmapped, or is one of the
\* heap's whose frame a failed heap_expand has stranded.
Effect(ps) ==
  /\ pd' = pd /\ stranded \subseteq stranded'
  /\ \A q \in Pages : Walk(pd', table', q) = IF q \in ps THEN 0 ELSE GetPhysical(q)
  /\ free \cup Released(ps) \cup Directories \subseteq free' \cup Directories'
  /\ KernelPages \subseteq KernelPages' \cup ps
  /\ MappedSoFar \subseteq KernelPages' \cup ps \cup HeapAll
  /\ \A q \in OwnPages : \/ q \in OwnPages' \cup ps
                         \/ q \in HeapAll /\ GetPhysical(q) \in stranded' \cup {0}

\* Between calls no page is on its way.
LEMMA NothingMapped == call = NoCall => MappedSoFar = {}
<1>1. NoCall.at = 0 /\ 0 .. 0 - 1 = {}
  BY DEF NoCall
<1> QED
  BY <1>1 DEF MappedSoFar

\* A heap call continues the heap.
LEMMA HeapCallPages ==
  ASSUME StateInv, call.op = "heap"
  PROVE  /\ \A k \in 0 .. call.size - 1 :
              /\ PageAt(call.base, k) = HeapBase + heapTop + k
              /\ PageAt(call.base, k) \in HeapAll /\ PageAt(call.base, k) \notin HeapRange
         /\ MappedSoFar \subseteq HeapAll
<1>1. PICK n \in Nat, h \in Nat, b \in Nat, a \in Nat :
        n = call.size /\ h = heapTop /\ b = HeapBase /\ a = call.at
  <2>1. call.size \in Nat /\ heapTop \in Nat /\ HeapBase \in Nat /\ call.at \in Nat
    BY VmmSizes DEF StateInv, CallType, HeapBase
  <2> QED
    BY <2>1
<1>2. /\ a <= n /\ call.base = b + h /\ h + n <= HeapPages
      /\ b + HeapPages < NumPages /\ HeapPages \in Nat /\ NumPages \in Nat
  BY <1>1, VmmSizes, VmmAssumption DEF StateInv, HeapBase
<1>3. ASSUME NEW k \in 0 .. n - 1
      PROVE  PageAt(b + h, k) = b + h + k /\ b + h + k \in HeapAll /\ b + h + k \notin HeapRange
  <2>1. k \in Nat /\ b + h + k < NumPages /\ b + h \in Nat
    BY <1>2
  <2>2. PageAt(b + h, k) = b + h + k
    BY <2>1, PageAtPlain
  <2> QED
    BY <1>1, <1>2, <2>1, <2>2 DEF HeapAll, HeapRange
<1>4. MappedSoFar \subseteq HeapAll
  <2>1. \A k \in 0 .. a - 1 : k \in 0 .. n - 1
    BY <1>2
  <2> QED
    BY <1>1, <1>2, <1>3, <2>1 DEF MappedSoFar
<1> QED
  BY <1>1, <1>2, <1>3, <1>4

\* The steps that start a call or switch to another space.
LEMMA EffectStart ==
  ASSUME StateInv, call = NoCall,
         UNCHANGED <<pd, table, free, dirFrame, regions, heapTop, stranded>>
  PROVE  Effect({})
<1>1. MappedSoFar = {}
  BY NothingMapped
<1>2. CallerPages' = CallerPages /\ KernelPages' = KernelPages /\ HeapRange' = HeapRange
      /\ Directories' = Directories
  BY DEF CallerPages, KernelPages, PagesOf, RegionPages, PageAt, HeapRange, Directories
<1>3. \A q \in Pages : Walk(pd', table', q) = GetPhysical(q)
  BY DEF GetPhysical
<1>4. Released({}) = {}
  BY DEF Released
<1> QED
  BY <1>1, <1>2, <1>3, <1>4 DEF Effect, OwnPages

\* vmm_init.
LEMMA EffectInit ==
  ASSUME StateInv, SpaceInv, VmmInit
  PROVE  Effect({})
<1>1. MappedSoFar = {}
  BY NothingMapped DEF VmmInit
<1>2. \A s \in AllSpaces : regions[s] = <<>>
  BY DEF VmmInit, SpaceInv
<1>3. CallerPages = {}
  BY <1>2 DEF CallerPages
<1>4. KernelPages = {}
  BY <1>3, CallerParts
<1>5. HeapRange' = HeapRange /\ Directories' = Directories /\ pd' = pd /\ table' = table
      /\ free' = free /\ stranded' = stranded
  BY DEF VmmInit, HeapRange, Directories
<1>6. \A q \in Pages : Walk(pd', table', q) = GetPhysical(q)
  BY <1>5 DEF GetPhysical
<1>7. Released({}) = {}
  BY DEF Released
<1> QED
  BY <1>1, <1>3, <1>4, <1>5, <1>6, <1>7 DEF Effect, OwnPages

\* The end of a heap call, with and without success.
LEMMA EffectHeapEnd ==
  ASSUME StateInv, HeapEnd \/ HeapOutOfMemory
  PROVE  Effect({})
<1>1. /\ pd' = pd /\ table' = table /\ free' = free /\ dirFrame' = dirFrame /\ regions' = regions
      /\ call.op = "heap" /\ stranded \subseteq stranded'
  BY DEF HeapEnd, HeapOutOfMemory, spaceVars
<1>2. CallerPages' = CallerPages /\ KernelPages' = KernelPages /\ Directories' = Directories
  BY <1>1 DEF CallerPages, KernelPages, PagesOf, RegionPages, PageAt, Directories
<1>3. \A q \in Pages : Walk(pd', table', q) = GetPhysical(q)
  BY <1>1 DEF GetPhysical
<1>4. Released({}) = {}
  BY DEF Released
<1>5. MappedSoFar \subseteq HeapAll
  BY <1>1, HeapCallPages
<1>6. ASSUME NEW q \in OwnPages
      PROVE  q \in OwnPages' \/ (q \in HeapAll /\ GetPhysical(q) \in stranded' \cup {0})
  <2>1. CASE q \in CallerPages
    BY <1>2, <2>1 DEF OwnPages
  <2>2. CASE HeapOutOfMemory /\ q \in HeapRange
    BY <2>2 DEF HeapOutOfMemory, HeapRange, OwnPages
  <2>3. CASE HeapOutOfMemory /\ q \in MappedSoFar
    BY <1>5, <2>3 DEF HeapOutOfMemory, Released
  <2>4. CASE HeapEnd /\ q \in HeapRange \cup MappedSoFar
    <3>1. PICK n \in Nat, h \in Nat, b \in Nat : n = call.size /\ h = heapTop /\ b = HeapBase
      BY VmmSizes DEF StateInv, CallType, HeapBase
    <3>2. heapTop' = h + n /\ call.at = n
      BY <2>4, <3>1 DEF HeapEnd
    <3>3. HeapRange = b .. b + h - 1 /\ HeapRange' = b .. b + (h + n) - 1
      BY <3>1, <3>2 DEF HeapRange, HeapBase
    <3>4. CASE q \in HeapRange
      BY <3>1, <3>3, <3>4 DEF OwnPages
    <3>5. CASE q \in MappedSoFar
      <4>1. PICK k \in 0 .. n - 1 : q = PageAt(call.base, k)
        BY <3>2, <3>5 DEF MappedSoFar
      <4>2. q = b + h + k
        BY <1>1, <3>1, <4>1, HeapCallPages
      <4> QED
        BY <3>1, <3>3, <4>2 DEF OwnPages
    <3> QED
      BY <2>4, <3>4, <3>5
  <2> QED
    BY <2>1, <2>2, <2>3, <2>4 DEF OwnPages
<1> QED
  BY <1>1, <1>2, <1>3, <1>4, <1>5, <1>6 DEF Effect

\* The pages that vmm_map_region has mapped become the kernel's.
LEMMA MapEndPages ==
  ASSUME StateInv, SpaceInv, MapEnd
  PROVE  /\ MappedSoFar \subseteq KernelPages' /\ KernelPages \subseteq KernelPages'
         /\ CallerPages \subseteq CallerPages'
<1>1. call.space = Kernel /\ call.at = call.size
  BY DEF MapEnd, SpaceInv
<1>2. PICK list \in Seq(RegionType), r \in RegionType :
        list = regions[Kernel] /\ r = Region(call.base, call.size, UserCode)
  <2>1. Region(call.base, call.size, UserCode) \in RegionType
    BY DEF StateInv, CallType, Region, RegionType, UserCode, Mmio
  <2>2. regions[Kernel] \in Seq(RegionType)
    BY CallerParts DEF StateInv
  <2> QED
    BY <2>1, <2>2
<1>3. PICK new \in Seq(RegionType) : new = InsertRegion(list, r)
  BY InsertKeeps
<1>4. /\ \E i \in 1 .. Len(new) : new[i] = r
      /\ \A k \in 1 .. Len(list) : \E i \in 1 .. Len(new) : new[i] = list[k]
  BY <1>3, InsertKeeps
<1>5. regions' = [regions EXCEPT ![Kernel] = new] /\ regions'[Kernel] = new
  BY <1>1, <1>2, <1>3, CallerParts DEF MapEnd, StateInv
<1>6. PagesOf(list) \subseteq PagesOf(new)
  BY <1>4, PageOf
<1>7. RegionPages(r) = MappedSoFar /\ r.type = UserCode
  BY <1>1, <1>2 DEF RegionPages, MappedSoFar, Region
<1>8. MappedSoFar \subseteq PagesOf(new)
  BY <1>4, <1>7, PageOf
<1>9. PagesOf(regions[Kernel]) \subseteq PagesOf(new) \cup {}
  BY <1>2, <1>6
<1>10. CallerPages \subseteq CallerPages' \cup {} /\ KernelPages \subseteq KernelPages' \cup {}
  BY <1>5, <1>9, CallerParts, PagesKept
<1> QED
  BY <1>5, <1>8, <1>10, CallerParts

\* The end of vmm_map_region.
LEMMA EffectMapEnd ==
  ASSUME StateInv, SpaceInv, MapEnd
  PROVE  Effect({})
<1>1. /\ pd' = pd /\ table' = table /\ free' = free /\ dirFrame' = dirFrame /\ heapTop' = heapTop
      /\ stranded' = stranded
  BY DEF MapEnd
<1>2. HeapRange' = HeapRange /\ Directories' = Directories
  BY <1>1 DEF HeapRange, Directories
<1>3. \A q \in Pages : Walk(pd', table', q) = GetPhysical(q)
  BY <1>1 DEF GetPhysical
<1>4. Released({}) = {}
  BY DEF Released
<1>5. /\ MappedSoFar \subseteq KernelPages' /\ KernelPages \subseteq KernelPages'
      /\ CallerPages \subseteq CallerPages' /\ KernelPages' \subseteq CallerPages'
  BY MapEndPages, CallerParts
<1> QED
  BY <1>1, <1>2, <1>3, <1>4, <1>5 DEF Effect, OwnPages

\* A vmm_map_region that is taken back.
LEMMA EffectRollback ==
  ASSUME StateInv, LinearInv, UseInv, MapOutOfMemory \/ MapOutOfRegions
  PROVE  Effect(MappedSoFar)
<1>1. /\ pd' = pd /\ table' = Cleared(MappedSoFar) /\ dirFrame' = dirFrame /\ heapTop' = heapTop
      /\ stranded' = stranded /\ regions' = regions /\ free' = free \cup Released(MappedSoFar)
      /\ Running
  BY DEF MapOutOfMemory, MapOutOfRegions, Rollback, spaceVars, Running
<1>2. /\ CallerPages' = CallerPages /\ KernelPages' = KernelPages /\ HeapRange' = HeapRange
      /\ Directories' = Directories
  BY <1>1 DEF CallerPages, KernelPages, PagesOf, RegionPages, PageAt, HeapRange, Directories
<1>3. PICK ps \in SUBSET Pages : ps = MappedSoFar
  BY CallPagesType
<1>4. \A q \in Pages : Walk(pd', table', q) = IF q \in ps THEN 0 ELSE GetPhysical(q)
  BY <1>1, <1>3, UnmappingEffect
<1> QED
  BY <1>1, <1>2, <1>3, <1>4 DEF Effect, OwnPages

\* vmm_unmap_region.
LEMMA EffectUnmap ==
  ASSUME StateInv, LinearInv, UseInv, NEW s \in AllSpaces, NEW j \in DOMAIN regions[s],
         UnmapRegion(s, regions[s][j].base)
  PROVE  \E at \in 1 .. Len(regions[s]) :
           /\ Effect(RegionPages(regions[s][at])) /\ RegionPages(regions[s][at]) \subseteq Pages
           /\ regions' = [regions EXCEPT ![s] = RemoveRegion(regions[s], at)]
<1>1. PICK at \in 1 .. Len(regions[s]) :
        at = Min({i \in DOMAIN regions[s] : regions[s][i].base = regions[s][j].base})
  BY UnmapPosition
<1>2. PICK list \in Seq(RegionType) : list = regions[s]
  BY DEF StateInv
<1>3. at \in 1 .. Len(list) /\ list[at] \in RegionType
  BY <1>2
<1>4. PICK ps \in SUBSET Pages : ps = RegionPages(list[at])
  BY <1>3, RegionPagesType
<1>5. /\ pd' = pd /\ table' = Cleared(ps) /\ dirFrame' = dirFrame /\ heapTop' = heapTop
      /\ stranded' = stranded /\ free' = free \cup Released(ps) /\ call = NoCall
      /\ regions' = [regions EXCEPT ![s] = RemoveRegion(list, at)] /\ Running
  BY <1>1, <1>2, <1>4 DEF UnmapRegion, Idle, Running
<1>6. HeapRange' = HeapRange /\ Directories' = Directories /\ MappedSoFar = {}
  BY <1>5, NothingMapped DEF HeapRange, Directories
<1>7. \A q \in Pages : Walk(pd', table', q) = IF q \in ps THEN 0 ELSE GetPhysical(q)
  BY <1>5, UnmappingEffect
<1>8. PICK new \in Seq(RegionType) : new = RemoveRegion(list, at)
  BY <1>3, RemoveElements
<1>9. ASSUME NEW q \in PagesOf(list), q \notin ps PROVE q \in PagesOf(new)
  <2>1. PICK k \in 1 .. Len(list) : list[k].type = UserCode /\ q \in RegionPages(list[k])
    BY PageOf
  <2>2. k # at
    BY <1>4, <1>9, <2>1
  <2>3. PICK i \in 1 .. Len(new) : new[i] = list[k]
    BY <1>3, <1>8, <2>2, RemoveKeeps
  <2> QED
    BY <2>1, <2>3, PageOf
<1>10. PagesOf(regions[s]) \subseteq PagesOf(new) \cup ps
  BY <1>2, <1>9
<1>11. CallerPages \subseteq CallerPages' \cup ps /\ KernelPages \subseteq KernelPages' \cup ps
  BY <1>5, <1>8, <1>10, PagesKept
<1>12. Effect(ps)
  BY <1>5, <1>6, <1>7, <1>11 DEF Effect, OwnPages
<1> QED
  BY <1>2, <1>3, <1>4, <1>5, <1>12

\* vmm_create_address_space.
LEMMA EffectCreate ==
  ASSUME StateInv, UseInv, SpaceInv, NEW s \in Spaces, CreateSpace(s)
  PROVE  Effect({})
<1>1. /\ pd' = pd /\ table' = table /\ heapTop' = heapTop /\ stranded' = stranded
      /\ call = NoCall /\ dirFrame[s] = 0 /\ free # {} /\ s \in AllSpaces /\ Running
  BY DEF CreateSpace, Idle, AllSpaces, Running
<1>2. PICK f \in free : f = Min(free)
  BY <1>1, LowestFree
<1>3. free' = free \ {f} /\ dirFrame' = [dirFrame EXCEPT ![s] = f]
  BY <1>2 DEF CreateSpace
<1>4. \A u \in Spaces : dirFrame'[u] = IF u = s THEN f ELSE dirFrame[u]
  BY <1>3 DEF StateInv
<1>5. free \cup Directories \subseteq free' \cup Directories'
  <2>1. f # 0
    BY <1>1 DEF UseInv, OneUse
  <2> QED
    BY <1>1, <1>3, <1>4, <2>1 DEF Directories
<1>6. HeapRange' = HeapRange /\ MappedSoFar = {}
  BY <1>1, NothingMapped DEF HeapRange, Directories
<1>7. \A q \in Pages : Walk(pd', table', q) = GetPhysical(q)
  BY <1>1 DEF GetPhysical
<1>8. PICK new : regions' = [regions EXCEPT ![s] = new]
  BY DEF CreateSpace
<1>9. PagesOf(regions[s]) \subseteq PagesOf(new) \cup {}
  <2>1. regions[s] = <<>>
    BY <1>1 DEF SpaceInv
  <2> QED
    BY <2>1 DEF PagesOf
<1>10. CallerPages \subseteq CallerPages' \cup {} /\ KernelPages \subseteq KernelPages' \cup {}
  BY <1>1, <1>8, <1>9, PagesKept
<1>11. Released({}) = {}
  BY DEF Released
<1> QED
  BY <1>1, <1>5, <1>6, <1>7, <1>10, <1>11 DEF Effect, OwnPages

\* vmm_destroy_address_space.
LEMMA EffectDestroy ==
  ASSUME StateInv, LinearInv, UseInv, NEW s \in Spaces, DestroySpace(s)
  PROVE  \E ps \in SUBSET Pages : Effect(ps)
<1>1. s \in AllSpaces /\ Running /\ call = NoCall
  BY DEF DestroySpace, Idle, Running, AllSpaces
<1>2. PICK list \in Seq(RegionType) : list = regions[s]
  BY <1>1 DEF StateInv
<1>3. PICK ps \in SUBSET Pages :
        ps = UNION {RegionPages(list[i]) : i \in {j \in DOMAIN list : list[j].type >= UserCode}}
  <2>1. \A i \in DOMAIN list : RegionPages(list[i]) \subseteq Pages
    BY RegionPagesType
  <2> QED
    BY <2>1
<1>4. /\ pd' = pd /\ table' = Cleared(ps) /\ heapTop' = heapTop /\ stranded' = stranded
      /\ free' = free \cup (Released(ps) \cup {dirFrame[s]})
      /\ dirFrame' = [dirFrame EXCEPT ![s] = 0] /\ regions' = [regions EXCEPT ![s] = <<>>]
  BY <1>2, <1>3 DEF DestroySpace, DestroyedFrames
<1>5. \A q \in Pages : Walk(pd', table', q) = IF q \in ps THEN 0 ELSE GetPhysical(q)
  BY <1>1, <1>4, UnmappingEffect
<1>6. HeapRange' = HeapRange /\ MappedSoFar = {}
  BY <1>1, <1>4, NothingMapped DEF HeapRange
<1>7. Directories \subseteq Directories' \cup {dirFrame[s]}
  <2>1. \A u \in Spaces : dirFrame'[u] = IF u = s THEN 0 ELSE dirFrame[u]
    BY <1>4 DEF StateInv
  <2> QED
    BY <2>1 DEF Directories
<1>8. PagesOf(list) \subseteq ps
  <2>1. ASSUME NEW q \in PagesOf(list) PROVE q \in ps
    <3>1. PICK k \in 1 .. Len(list) : list[k].type = UserCode /\ q \in RegionPages(list[k])
      BY PageOf
    <3>2. k \in DOMAIN list /\ list[k].type >= UserCode
      BY <3>1 DEF UserCode
    <3> QED
      BY <1>3, <3>1, <3>2
  <2> QED
    BY <2>1
<1>9. PagesOf(regions[s]) \subseteq PagesOf(<<>>) \cup ps
  BY <1>2, <1>8
<1>10. CallerPages \subseteq CallerPages' \cup ps /\ KernelPages \subseteq KernelPages' \cup ps
  BY <1>1, <1>4, <1>9, PagesKept
<1>11. Effect(ps)
  BY <1>4, <1>5, <1>6, <1>7, <1>10 DEF Effect, OwnPages
<1> QED
  BY <1>11

\* Every step but those that map a page has such an effect.
LEMMA StepEffect ==
  ASSUME StateInv, LinearInv, UseInv, SpaceInv, Next, Running, ~(HeapStep \/ MapStep)
  PROVE  \E ps \in SUBSET Pages : Effect(ps)
<1>1. {} \in SUBSET Pages /\ MappedSoFar \in SUBSET Pages
  BY CallPagesType
<1>2. CASE VmmInit
  BY <1>1, <1>2, EffectInit
<1>3. CASE HeapEnd \/ HeapOutOfMemory
  BY <1>1, <1>3, EffectHeapEnd
<1>4. CASE MapEnd
  BY <1>1, <1>4, EffectMapEnd
<1>5. CASE MapOutOfMemory \/ MapOutOfRegions
  BY <1>1, <1>5, EffectRollback
<1>6. ASSUME NEW s \in AllSpaces, NEW j \in DOMAIN regions[s],
             UnmapRegion(s, regions[s][j].base)
      PROVE  \E ps \in SUBSET Pages : Effect(ps)
  BY <1>6, EffectUnmap
<1>7. ASSUME NEW s \in Spaces, CreateSpace(s) PROVE Effect({})
  BY <1>7, EffectCreate
<1>8. ASSUME NEW s \in Spaces, DestroySpace(s) PROVE \E ps \in SUBSET Pages : Effect(ps)
  BY <1>8, EffectDestroy
<1>9. ASSUME \/ KheapInit
             \/ \E n \in 1 .. HeapPages : HeapStart(n)
             \/ \E s \in MapSpaces, r \in Requests : MapStart(s, r[1], r[2])
             \/ \E s \in AllSpaces : SwitchSpace(s)
      PROVE  Effect({})
  <2>1. call = NoCall /\ UNCHANGED <<pd, table, free, dirFrame, regions, heapTop, stranded>>
    BY <1>9 DEF KheapInit, HeapStart, MapStart, SwitchSpace, Idle, spaceVars, StateInv
  <2> QED
    BY <2>1, EffectStart
<1>10. ~PagingInit
  BY DEF PagingInit, Running
<1> QED
  BY <1>1, <1>2, <1>3, <1>4, <1>5, <1>6, <1>7, <1>8, <1>9, <1>10 DEF Next

\* The page that is mapped next has no frame that is accounted for.
LEMMA FreshPage ==
  ASSUME StateInv, OrderInv, SpaceInv, LedgerInv, HeapStep \/ MapStep, NEW p,
         p = PageAt(call.base, call.at)
  PROVE  /\ p \in OwnPages => GetPhysical(p) = 0
         /\ p \notin KernelPages /\ (MapStep => p \notin HeapAll)
         /\ MappedSoFar' = MappedSoFar \cup {p} /\ OwnPages' = OwnPages \cup {p}
         /\ CallerPages' = CallerPages /\ KernelPages' = KernelPages
<1>1. PICK a \in Nat, n \in Nat : a = call.at /\ n = call.size /\ a \in 0 .. n - 1
  <2>1. call.at \in Nat /\ call.size \in Nat /\ call.at < call.size
    BY DEF HeapStep, MapStep, StateInv, CallType
  <2> QED
    BY <2>1
<1>2. call'.base = call.base /\ call'.at = a + 1 /\ regions' = regions /\ heapTop' = heapTop
  BY <1>1 DEF HeapStep, MapStep, spaceVars, StateInv, CallType
<1>3. /\ CallerPages' = CallerPages /\ KernelPages' = KernelPages /\ HeapRange' = HeapRange
  BY <1>2 DEF CallerPages, KernelPages, PagesOf, RegionPages, PageAt, HeapRange
<1>4. MappedSoFar' = MappedSoFar \cup {p}
  <2>1. \A k : k \in 0 .. a + 1 - 1 <=> k \in 0 .. a - 1 \/ k = a
    BY <1>1
  <2> QED
    BY <1>1, <1>2, <2>1 DEF MappedSoFar, PageAt
<1>5. \A k \in 0 .. a - 1 : k \in 0 .. n - 1 /\ k # a
  BY <1>1
<1>6. HeapRange \subseteq HeapAll
  <2>1. HeapBase \in Nat /\ heapTop \in Nat /\ heapTop <= HeapPages /\ HeapPages \in Nat
    BY VmmSizes DEF StateInv, HeapBase
  <2> QED
    BY <2>1 DEF HeapRange, HeapAll
<1>7. CASE HeapStep
  <2>1. call.op = "heap"
    BY <1>7 DEF HeapStep
  <2>2. \A k \in 0 .. n - 1 : /\ PageAt(call.base, k) = HeapBase + heapTop + k
                              /\ PageAt(call.base, k) \in HeapAll
                              /\ PageAt(call.base, k) \notin HeapRange
    BY <1>1, <2>1, HeapCallPages
  <2>3. HeapBase + heapTop \in Nat
    BY VmmSizes DEF StateInv, HeapBase
  <2>4. p \notin MappedSoFar
    <3>1. \A k \in 0 .. a - 1 : PageAt(call.base, k) # PageAt(call.base, a)
      BY <1>1, <1>5, <2>2, <2>3
    <3> QED
      BY <1>1, <3>1 DEF MappedSoFar
  <2>5. p \notin CallerPages
    BY <1>1, <2>2 DEF SpaceInv
  <2>6. ~MapStep
    BY <2>1 DEF MapStep
  <2> QED
    BY <1>1, <1>3, <1>4, <2>2, <2>4, <2>5, <2>6, CallerParts DEF OwnPages
<1>8. CASE MapStep
  <2>1. call.op = "map" /\ phase = "ready" /\ Running
    BY <1>8 DEF MapStep, Running
  <2>2. \A k \in 0 .. n - 1 : /\ PageAt(call.base, k) = call.base + k /\ call.base + k \in Nat
                              /\ PageAt(call.base, k) \notin HeapAll
                              /\ PageAt(call.base, k) \notin KernelPages
    BY <1>1, <2>1, CallApart
  <2>3. call.base \in Nat
    BY VmmSizes DEF StateInv, CallType, Pages
  <2>4. p \notin MappedSoFar
    <3>1. \A k \in 0 .. a - 1 : PageAt(call.base, k) # PageAt(call.base, a)
      BY <1>1, <1>5, <2>2, <2>3
    <3> QED
      BY <1>1, <3>1 DEF MappedSoFar
  <2>5. p \in CallerPages => ~IsMapped(p)
    BY <1>1, <2>1, <2>2, <2>4 DEF LedgerInv
  <2> QED
    BY <1>1, <1>3, <1>4, <1>6, <2>2, <2>4, <2>5 DEF OwnPages, IsMapped
<1> QED
  BY <1>7, <1>8

\* A page of vmm_map_region that gets no page table is not zeroed: the machine halts.
LEMMA NoTableHalts ==
  ASSUME StateInv, SpaceInv, MapStep, NEW p \in Pages, NEW f \in free, MapsPage(p, f, 0),
         pd[PdOf(p)] = 0, f # 0
  PROVE  ~Running'
<1>1. pd' = pd /\ table' = table /\ p = PageAt(call.base, call.at) /\ f = Min(free)
  BY DEF MapsPage
<1>2. PICK avail \in SUBSET Frames : avail = free \ {f}
  BY DEF StateInv
<1>3. PICK r : r = MapPage(p, f, avail)
  OBVIOUS
<1>4. f \in Frames /\ r.seen \in {"ok", "halted", "stray"}
  BY <1>3, MapPageType DEF StateInv
<1>5. PICK dir : dir = IF cr3 = Kernel THEN r.pd ELSE dirs[cr3]
  OBVIOUS
<1>6. /\ pd' = r.pd /\ table' = r.table
      /\ phase' = IF r.seen # "ok" THEN r.seen
                  ELSE IF Outcome(Walk(dir, r.table, p), f) # "ok"
                  THEN Outcome(Walk(dir, r.table, p), f) ELSE phase
  BY <1>1, <1>2, <1>3, <1>5 DEF MapStep
<1>7. PdOf(p) \in PdIndices
  BY PageParts
<1>8. dir[PdOf(p)] = 0
  <2>1. CASE cr3 = Kernel
    BY <1>1, <1>5, <1>6, <2>1
  <2>2. CASE cr3 # Kernel
    <3>1. cr3 \in Spaces
      BY <2>2 DEF StateInv, Live
    <3> QED
      BY <1>5, <1>7, <2>2, <3>1 DEF SpaceInv
  <2> QED
    BY <2>1, <2>2
<1>9. Outcome(Walk(dir, r.table, p), f) = "halted"
  BY <1>8 DEF Walk, Outcome
<1> QED
  BY <1>4, <1>6, <1>9 DEF Running

\* Mapping a page keeps the accounts.
LEMMA LedgerMapping ==
  ASSUME StateInv, LinearInv, OrderInv, UseInv, SpaceInv, LedgerInv, Next, HeapStep \/ MapStep
  PROVE  LedgerInv'
<1> SUFFICES ASSUME Running' PROVE LedgerInv'
  BY DEF LedgerInv
<1>1. PICK p \in Pages, f \in free, t \in Frames :
        /\ MapsPage(p, f, t) /\ f # 0
        /\ \A q \in Pages : q # p => Walk(pd', table', q) = GetPhysical(q)
        /\ t # 0 => Walk(pd', table', p) = f /\ pd'[PdOf(p)] = t
        /\ t = 0 => pd[PdOf(p)] = 0 /\ pd' = pd /\ table' = table
  BY MappingEffect
<1>2. p = PageAt(call.base, call.at) /\ f = Min(free)
  BY <1>1 DEF MapsPage
<1>3. Running /\ ~PagingInit
  BY DEF HeapStep, MapStep, Running, PagingInit
<1>4. /\ p \in OwnPages => GetPhysical(p) = 0
      /\ p \notin KernelPages
      /\ MappedSoFar' = MappedSoFar \cup {p} /\ OwnPages' = OwnPages \cup {p}
      /\ CallerPages' = CallerPages /\ KernelPages' = KernelPages
  BY <1>2, FreshPage
<1>5. OwnPages \subseteq Pages
  BY UsedType DEF OwnPages, UsedPages
<1>6. /\ \A q \in Pages : GetPhysical(q)' = Walk(pd', table', q)
      /\ Released(OwnPages)' = {Walk(pd', table', q) : q \in OwnPages'} \ {0}
      /\ \A q \in Pages : IsMapped(q)' <=> Walk(pd', table', q) # 0
  BY DEF GetPhysical, Released, IsMapped
<1>7. ASSUME NEW q \in CallerPages', IsMapped(q)' PROVE q \in KernelPages' \cup MappedSoFar'
  <2>1. q \in CallerPages /\ q \in Pages
    BY <1>4, <1>5 DEF OwnPages
  <2>2. CASE q = p
    BY <1>4, <2>2
  <2>3. CASE q # p
    <3>1. IsMapped(q)
      BY <1>1, <1>6, <1>7, <2>1, <2>3 DEF IsMapped
    <3> QED
      BY <1>3, <1>4, <2>1, <3>1 DEF LedgerInv
  <2> QED
    BY <2>2, <2>3
<1>8. /\ dirFrame' = dirFrame /\ Directories' = Directories /\ stranded \subseteq stranded'
  BY DEF HeapStep, MapStep, spaceVars, Directories
<1>9. ASSUME NEW x \in Ram
      PROVE  x \in free' \cup Released(OwnPages)' \cup DynamicTables' \cup Directories' \cup stranded'
  <2>1. x \in free \cup Released(OwnPages) \cup DynamicTables \cup Directories \cup stranded
    BY <1>3 DEF LedgerInv
  <2>2. PdOf(p) \in PdIndices /\ x \notin 0 .. KernelEnd - 1
    <3>1. x \in KernelEnd .. NumFrames - 1 /\ KernelEnd \in Nat
      BY VmmSizes, VmmAssumption
    <3> QED
      BY <3>1, PageParts
  <2>3. CASE x = f
    <3>1. CASE t # 0
      BY <1>1, <1>4, <1>6, <2>3, <3>1
    <3>2. CASE t = 0 /\ HeapStep
      <4>1. PICK r : r = MapPage(p, f, free \ {f})
        OBVIOUS
      <4>2. /\ pd' = r.pd /\ table' = r.table
            /\ stranded' = IF Walk(r.pd, r.table, p) = f THEN stranded ELSE stranded \cup {f}
        BY <1>2, <3>2, <4>1 DEF HeapStep
      <4>3. Walk(pd', table', p) = 0
        BY <1>1, <3>2 DEF Walk
      <4> QED
        BY <1>1, <2>3, <4>2, <4>3
    <3>3. CASE t = 0 /\ MapStep
      BY <1>1, <3>3, NoTableHalts
    <3> QED
      BY <3>1, <3>2, <3>3
  <2>4. CASE x = t /\ t # 0
    <3>1. pd'[PdOf(p)] = x
      BY <1>1, <2>4
    <3> QED
      BY <2>2, <3>1 DEF DynamicTables
  <2>5. CASE x \in free /\ x # f /\ ~(x = t /\ t # 0)
    BY <1>1, <2>5 DEF MapsPage
  <2>6. CASE x \in Released(OwnPages)
    <3>1. PICK q \in OwnPages : x = GetPhysical(q) /\ x # 0
      BY <2>6 DEF Released
    <3>2. q # p /\ q \in Pages
      BY <1>4, <1>5, <3>1
    <3>3. Walk(pd', table', q) = x
      BY <1>1, <3>1, <3>2
    <3> QED
      BY <1>4, <1>6, <3>1, <3>3
  <2>7. CASE x \in DynamicTables
    <3>1. PICK i \in PdIndices : pd[i] = x
      BY <2>7 DEF DynamicTables
    <3>2. x # 0
      BY <2>2, VmmSizes, Sizes
    <3>3. pd'[i] = x
      BY <1>3, <3>1, <3>2, EntriesStay
    <3> QED
      BY <2>2, <3>3 DEF DynamicTables
  <2> QED
    BY <1>8, <2>1, <2>3, <2>4, <2>5, <2>6, <2>7
<1> QED
  BY <1>7, <1>9 DEF LedgerInv

\* So does every other step of a running machine.
LEMMA LedgerOther ==
  ASSUME StateInv, LinearInv, UseInv, SpaceInv, SpaceInv', LedgerInv, Next, Running,
         ~(HeapStep \/ MapStep)
  PROVE  LedgerInv'
<1>1. PICK ps \in SUBSET Pages : Effect(ps)
  BY StepEffect
<1>2. /\ pd' = pd /\ stranded \subseteq stranded'
      /\ \A q \in Pages : Walk(pd', table', q) = IF q \in ps THEN 0 ELSE GetPhysical(q)
      /\ free \cup Released(ps) \cup Directories \subseteq free' \cup Directories'
      /\ KernelPages \subseteq KernelPages' \cup ps
      /\ MappedSoFar \subseteq KernelPages' \cup ps \cup HeapAll
      /\ \A q \in OwnPages : \/ q \in OwnPages' \cup ps
                             \/ q \in HeapAll /\ GetPhysical(q) \in stranded' \cup {0}
  BY <1>1 DEF Effect
<1>3. OwnPages \subseteq Pages
  BY UsedType DEF OwnPages, UsedPages
<1>4. /\ Released(OwnPages)' = {Walk(pd', table', q) : q \in OwnPages'} \ {0}
      /\ \A q \in Pages : IsMapped(q)' <=> Walk(pd', table', q) # 0
  BY DEF GetPhysical, Released, IsMapped
<1>5. ASSUME NEW q \in CallerPages', IsMapped(q)' PROVE q \in KernelPages' \cup MappedSoFar'
  <2>1. q \in CallerPages \cup MappedSoFar /\ q \notin HeapAll
    BY CallerPagesStep DEF SpaceInv, HeapAll
  <2>2. q \in Pages
    BY <1>3, <2>1 DEF OwnPages
  <2>3. q \notin ps /\ IsMapped(q)
    BY <1>2, <1>4, <1>5, <2>2 DEF IsMapped
  <2>4. q \in KernelPages \cup MappedSoFar
    BY <2>1, <2>3 DEF LedgerInv
  <2> QED
    BY <1>2, <2>1, <2>3, <2>4
<1>6. ASSUME NEW x \in Ram
      PROVE  x \in free' \cup Released(OwnPages)' \cup DynamicTables' \cup Directories' \cup stranded'
  <2>1. x \in free \cup Released(OwnPages) \cup DynamicTables \cup Directories \cup stranded
    BY DEF LedgerInv
  <2>2. CASE x \in Released(OwnPages)
    <3>1. PICK q \in OwnPages : x = GetPhysical(q) /\ x # 0
      BY <2>2 DEF Released
    <3>2. q \in Pages
      BY <1>3
    <3>3. CASE q \in ps
      BY <1>2, <3>1, <3>3 DEF Released
    <3>4. CASE q \notin ps /\ q \in OwnPages'
      <4>1. Walk(pd', table', q) = x
        BY <1>2, <3>1, <3>2, <3>4
      <4> QED
        BY <1>4, <3>1, <3>4, <4>1
    <3> QED
      BY <1>2, <3>1, <3>3, <3>4
  <2>3. CASE x \in DynamicTables
    BY <1>2, <2>3 DEF DynamicTables
  <2> QED
    BY <1>2, <2>1, <2>2, <2>3
<1> QED
  BY <1>5, <1>6 DEF LedgerInv

\* Every step keeps the accounts.
LEMMA LedgerStep ==
  StateInv /\ LinearInv /\ OrderInv /\ UseInv /\ SpaceInv /\ SpaceInv' /\ LedgerInv /\ [Next]_vars
    => LedgerInv'
<1> SUFFICES ASSUME StateInv, LinearInv, OrderInv, UseInv, SpaceInv, SpaceInv', LedgerInv,
                    [Next]_vars
             PROVE  LedgerInv'
  OBVIOUS
<1>1. CASE UNCHANGED vars
  <2>1. /\ CallerPages' = CallerPages /\ KernelPages' = KernelPages /\ MappedSoFar' = MappedSoFar
        /\ OwnPages' = OwnPages /\ DynamicTables' = DynamicTables /\ Directories' = Directories
    BY <1>1 DEF vars, CallerPages, KernelPages, PagesOf, RegionPages, PageAt, MappedSoFar, OwnPages,
       HeapRange, DynamicTables, Directories
  <2>2. Released(OwnPages)' = Released(OwnPages) /\ \A q : IsMapped(q)' <=> IsMapped(q)
    BY <1>1, <2>1 DEF vars, Released, IsMapped, GetPhysical
  <2> QED
    BY <1>1, <2>1, <2>2 DEF vars, LedgerInv, Running
<1>2. CASE Next /\ PagingInit
  <2>1. free' = free /\ free = Ram /\ regions' = regions
    BY <1>2 DEF PagingInit, LinearInv, spaceVars
  <2>2. CallerPages' = {}
    <3>1. \A s \in AllSpaces : regions'[s] = <<>>
      BY <1>2, <2>1 DEF PagingInit, SpaceInv
    <3> QED
      BY <3>1 DEF CallerPages
  <2> QED
    BY <2>1, <2>2 DEF LedgerInv
<1>3. CASE Next /\ (HeapStep \/ MapStep)
  BY <1>3, LedgerMapping
<1>4. CASE Next /\ ~PagingInit /\ ~(HeapStep \/ MapStep)
  <2>1. CASE Running
    BY <1>4, <2>1, LedgerOther
  <2>2. CASE ~Running
    BY <1>4, <2>2, PhaseStep DEF LedgerInv
  <2> QED
    BY <2>1, <2>2
<1> QED
  BY <1>1, <1>2, <1>3, <1>4

\* The frames are accounted for, at every step of a running machine.
THEOREM LedgerInvariant == ASSUME RequestsFit, KernelMaps PROVE Spec => []LedgerInv
<1>1. Init => LedgerInv
  BY DEF Init, LedgerInv, Running
<1> QED
  BY <1>1, LedgerStep, StateInvariant, LinearInvariant, OrderInvariant, UseInvariant,
     SpaceInvariant, PTL DEF Spec

\* A space that does not exist has no pages.
LEMMA LivePages == SpaceInv => CallerPages \subseteq MappedPages
<1> SUFFICES ASSUME SpaceInv, NEW p \in CallerPages PROVE p \in MappedPages
  OBVIOUS
<1>1. PICK s \in AllSpaces : p \in PagesOf(regions[s])
  BY CallerParts
<1>2. s \in Live
  <2>1. CASE s \in Spaces /\ dirFrame[s] = 0
    <3>1. regions[s] = <<>>
      BY <2>1 DEF SpaceInv
    <3> QED
      BY <1>1, <3>1 DEF PagesOf
  <2> QED
    BY <2>1 DEF Live, AllSpaces
<1> QED
  BY <1>1, <1>2 DEF MappedPages, PagesOf

\* Between calls no frame is lost, whatever mix of calls callers make and whichever of them fail:
\* property NoFrameLost.
THEOREM NoFrameLostHolds == ASSUME RequestsFit, KernelMaps PROVE Spec => []NoFrameLost
<1>1. SpaceInv /\ LedgerInv => NoFrameLost
  <2> SUFFICES ASSUME SpaceInv, LedgerInv, Idle
               PROVE  Ram \subseteq free \cup Released(MappedPages \cup HeapRange)
                                    \cup DynamicTables \cup Directories \cup stranded
    BY DEF NoFrameLost
  <2>1. Running
    BY DEF Idle, Running
  <2>2. OwnPages \subseteq MappedPages \cup HeapRange
    BY LivePages DEF OwnPages, MappedPages
  <2>3. Released(OwnPages) \subseteq Released(MappedPages \cup HeapRange)
    BY <2>2 DEF Released
  <2> QED
    BY <2>1, <2>3 DEF LedgerInv
<1> QED
  BY <1>1, SpaceInvariant, LedgerInvariant, PTL

-----------------------------------------------------------------------------
(* The region lists and the page tables agree.                             *)

\* Where callers unmap regions and create spaces they destroy spaces as well: without that a
\* copy of a region is left behind when the region is unmapped.
CopiesEnd == \A c \in Calls : "unmap" \in c /\ "create" \in c => "destroy" \in c

LinearPages == KernelBase .. KernelBase + LinearFrames - 1
CallPages == IF call.op = "map" THEN MappedSoFar ELSE {}

\* As long as no space is destroyed, callers have no pages but those of the kernel's regions, and
\* these are present.  A page that is present outside the linear part is accounted for, or is
\* the heap's with a frame that a failed heap_expand has stranded.
PresenceInv ==
  /\ allowed \in Calls
  /\ "create" \notin allowed => \A s \in Spaces : dirFrame[s] = 0
  /\ "destroy" \notin allowed => CallerPages \subseteq KernelPages
  /\ Running /\ "destroy" \notin allowed => \A p \in KernelPages \cup CallPages : IsMapped(p)
  /\ Running => \A p \in Pages \ LinearPages :
       IsMapped(p) => p \in OwnPages \/ (p \in HeapAll /\ GetPhysical(p) \in stranded)

\* What remove_region leaves was at another place of the list.
LEMMA RemoveLeaves ==
  ASSUME NEW list \in Seq(RegionType), NEW at \in 1 .. Len(list),
         NEW i \in 1 .. Len(RemoveRegion(list, at))
  PROVE  \E k \in 1 .. Len(list) : k # at /\ RemoveRegion(list, at)[i] = list[k]
<1>1. PICK new \in Seq(RegionType) : new = RemoveRegion(list, at) /\ RemovedAt(new, list, at)
  BY RemoveShape DEF RemovedAt
<1>2. PICK n \in Nat : n = Len(list)
  OBVIOUS
<1>3. /\ Len(new) = n - 1
      /\ \A j \in 1 .. at - 1 : new[j] = list[j]
      /\ \A j \in at .. n - 1 : new[j] = list[j + 1]
  BY <1>1, <1>2 DEF RemovedAt
<1>4. i \in 1 .. n - 1 /\ at \in 1 .. n
  BY <1>1, <1>2, <1>3
<1>5. CASE i < at
  <2>1. i \in 1 .. at - 1 /\ i \in 1 .. n /\ i # at
    BY <1>4, <1>5
  <2> QED
    BY <1>1, <1>2, <1>3, <2>1
<1>6. CASE i >= at
  <2>1. PICK k \in 1 .. n : k = i + 1 /\ k # at
    BY <1>4, <1>6
  <2>2. new[i] = list[k]
    BY <1>3, <1>4, <1>6, <2>1
  <2> QED
    BY <1>1, <1>2, <2>1, <2>2
<1> QED
  BY <1>4, <1>5, <1>6

\* The regions of a list in order have no page in common.
LEMMA OrderedApart ==
  ASSUME NEW list \in Seq(RegionType), Ordered(list), NEW i \in 1 .. Len(list),
         NEW k \in 1 .. Len(list), i # k, NEW p \in RegionPages(list[i])
  PROVE  p \notin RegionPages(list[k])
<1>1. SUFFICES ASSUME p \in RegionPages(list[k]) PROVE FALSE
  OBVIOUS
<1>2. PICK r \in RegionType, x \in RegionType : r = list[i] /\ x = list[k]
  OBVIOUS
<1>3. r.base + r.size < NumPages /\ x.base + x.size < NumPages
  BY <1>2 DEF Ordered
<1>4. p \in Nat /\ r.base <= p /\ p < r.base + r.size
  BY <1>2, <1>3, PlainPages
<1>5. x.base <= p /\ p < x.base + x.size
  BY <1>1, <1>2, <1>3, PlainPages
<1>6. r.base \in Nat /\ r.size \in Nat /\ x.base \in Nat /\ x.size \in Nat
  BY VmmSizes DEF RegionType, Pages
<1>7. CASE i < k
  BY SMTT(40), <1>2, <1>4, <1>5, <1>6, <1>7 DEF Ordered
<1>8. CASE k < i
  BY SMTT(40), <1>2, <1>4, <1>5, <1>6, <1>8 DEF Ordered
<1> QED
  BY <1>7, <1>8

\* What vmm_unmap_region takes from the kernel's list is apart from what it leaves.
LEMMA UnmappedApart ==
  ASSUME StateInv, OrderInv, NEW at \in 1 .. Len(regions[Kernel]),
         regions' = [regions EXCEPT ![Kernel] = RemoveRegion(regions[Kernel], at)]
  PROVE  KernelPages' \cap RegionPages(regions[Kernel][at]) = {}
<1>1. PICK list \in Seq(RegionType) : list = regions[Kernel] /\ Ordered(list)
  BY CallerParts DEF StateInv, OrderInv
<1>2. at \in 1 .. Len(list)
  BY <1>1
<1>3. PICK new \in Seq(RegionType) : new = RemoveRegion(list, at)
  BY <1>2, RemoveElements
<1>4. KernelPages' = PagesOf(new)
  BY <1>1, <1>3, CallerParts DEF StateInv
<1>5. ASSUME NEW p \in PagesOf(new), p \in RegionPages(list[at]) PROVE FALSE
  <2>1. PICK i \in 1 .. Len(new) : p \in RegionPages(new[i])
    BY PageOf
  <2>2. PICK k \in 1 .. Len(list) : k # at /\ new[i] = list[k]
    BY <1>2, <1>3, RemoveLeaves
  <2>3. p \in RegionPages(list[k])
    BY <2>1, <2>2
  <2> QED
    BY <1>1, <1>2, <1>5, <2>2, <2>3, OrderedApart
<1> QED
  BY <1>1, <1>4, <1>5

\* A page outside the linear part has no static table.
LEMMA OutsidePage ==
  ASSUME NEW p \in Pages \ LinearPages
  PROVE  PdOf(p) \in PdIndices \ LinearIndices
<1>1. PICK b \in Nat, n \in Nat : /\ b = PdOf(KernelBase) /\ b * PtEntries = KernelBase
                              /\ n = LinearTables /\ n * PtEntries = LinearFrames
  BY Sizes
<1>2. PICK q \in Nat, r \in Nat, e \in Nat :
        q = PdOf(p) /\ r = PtOf(p) /\ e = PtEntries /\ r < e /\ p = q * e + r
  BY PageParts, VmmSizes DEF PdIndices, PtIndices
<1>3. SUFFICES ASSUME b <= q, q + 1 <= b + n PROVE FALSE
  BY <1>1, <1>2, PageParts DEF LinearIndices
<1>4. b * e <= q * e /\ (q + 1) * e <= (b + n) * e
  BY <1>3
<1>5. (q + 1) * e = q * e + e /\ (b + n) * e = b * e + n * e
  OBVIOUS
<1>6. KernelBase <= p /\ p < KernelBase + LinearFrames /\ p \in Nat
  BY <1>1, <1>2, <1>4, <1>5
<1> QED
  BY <1>6, VmmSizes DEF LinearPages

\* Without vmm_destroy_address_space, callers' pages stay those of the kernel.
LEMMA CopiesStep ==
  ASSUME CopiesEnd, StateInv, LinearInv, UseInv, SpaceInv, SpaceInv', PresenceInv, Next,
         "destroy" \notin allowed
  PROVE  /\ "create" \notin allowed => \A s \in Spaces : dirFrame'[s] = 0
         /\ CallerPages' \subseteq KernelPages'
<1>1. ASSUME "create" \notin allowed PROVE \A s \in Spaces : dirFrame'[s] = 0
  <2>1. \A s \in Spaces : ~CreateSpace(s) /\ ~DestroySpace(s)
    BY <1>1 DEF CreateSpace, DestroySpace
  <2>2. dirFrame' = dirFrame
    BY <2>1 DEF Next, PagingInit, KheapInit, VmmInit, HeapStart, HeapStep, HeapEnd,
       HeapOutOfMemory, MapStart, MapStep, MapOutOfMemory, MapOutOfRegions, Rollback, MapEnd,
       UnmapRegion, SwitchSpace, spaceVars
  <2> QED
    BY <1>1, <2>2 DEF PresenceInv
<1>2. CASE "create" \notin allowed
  <2>1. \A s \in Spaces : regions'[s] = <<>>
    BY <1>1, <1>2 DEF SpaceInv
  <2>2. ASSUME NEW p \in CallerPages' PROVE p \in KernelPages'
    <3>1. PICK s \in AllSpaces : p \in PagesOf(regions'[s])
      BY CallerParts
    <3>2. s \notin Spaces
      <4>1. PagesOf(<<>>) = {}
        BY DEF PagesOf
      <4> QED
        BY <2>1, <3>1, <4>1
    <3> QED
      BY <3>1, <3>2, CallerParts DEF AllSpaces
  <2> QED
    BY <1>1, <2>2
<1>3. CASE "create" \in allowed
  <2>1. "unmap" \notin allowed
    BY <1>3 DEF PresenceInv, CopiesEnd
  <2>2. /\ \A s \in AllSpaces : \A i \in DOMAIN regions[s] : ~UnmapRegion(s, regions[s][i].base)
        /\ \A s \in Spaces : ~DestroySpace(s)
    BY <2>1 DEF UnmapRegion, DestroySpace
  <2>3. CallerPages \subseteq KernelPages
    BY DEF PresenceInv
  <2>4. CASE MapEnd
    BY <1>3, <2>3, <2>4, MapEndPages, CallerPagesStep
  <2>5. CASE ~MapEnd
    <3>1. KernelPages \subseteq KernelPages'
      <4>1. CASE VmmInit
        BY <4>1, EffectInit DEF Effect
      <4>2. ASSUME NEW s \in Spaces, CreateSpace(s) PROVE KernelPages \subseteq KernelPages'
        BY <4>2, EffectCreate DEF Effect
      <4>3. CASE regions' = regions
        BY <4>3 DEF KernelPages, PagesOf, RegionPages, PageAt
      <4> QED
        BY <2>2, <2>5, <4>1, <4>2, <4>3 DEF Next, PagingInit, KheapInit, HeapStart, HeapStep,
           HeapEnd, HeapOutOfMemory, MapStart, MapStep, MapOutOfMemory, MapOutOfRegions, Rollback,
           SwitchSpace, spaceVars
    <3> QED
      BY <1>3, <2>3, <2>5, <3>1, CallerPagesStep
  <2> QED
    BY <2>4, <2>5
<1> QED
  BY <1>1, <1>2, <1>3

\* Mapping a page keeps the lists and the tables in agreement.
LEMMA PresenceMapping ==
  ASSUME StateInv, LinearInv, OrderInv, UseInv, SpaceInv, LedgerInv, PresenceInv, Next,
         HeapStep \/ MapStep, Running'
  PROVE  /\ "destroy" \notin allowed => \A q \in KernelPages' \cup CallPages' : IsMapped(q)'
         /\ \A q \in Pages \ LinearPages : IsMapped(q)' =>
              q \in OwnPages' \/ (q \in HeapAll /\ Walk(pd', table', q) \in stranded')
<1>1. PICK p \in Pages, f \in free, t \in Frames :
        /\ MapsPage(p, f, t) /\ f # 0
        /\ \A q \in Pages : q # p => Walk(pd', table', q) = GetPhysical(q)
        /\ t # 0 => Walk(pd', table', p) = f /\ pd'[PdOf(p)] = t
        /\ t = 0 => pd[PdOf(p)] = 0 /\ pd' = pd /\ table' = table
  BY MappingEffect
<1>2. p = PageAt(call.base, call.at)
  BY <1>1 DEF MapsPage
<1>3. Running
  BY DEF HeapStep, MapStep, Running
<1>4. /\ p \notin KernelPages
      /\ MappedSoFar' = MappedSoFar \cup {p} /\ OwnPages' = OwnPages \cup {p}
      /\ CallerPages' = CallerPages /\ KernelPages' = KernelPages
  BY <1>2, FreshPage
<1>5. OwnPages \subseteq Pages /\ KernelPages \subseteq Pages /\ MappedSoFar \subseteq Pages
  BY UsedType, CallerParts DEF OwnPages, UsedPages
<1>6. \A q \in Pages : IsMapped(q)' <=> Walk(pd', table', q) # 0
  BY DEF GetPhysical, IsMapped
<1>7. call'.op = call.op /\ stranded \subseteq stranded'
  BY DEF HeapStep, MapStep, StateInv, CallType
<1>8. ASSUME "destroy" \notin allowed, NEW q \in KernelPages' \cup CallPages' PROVE IsMapped(q)'
  <2>1. CASE q = p
    <3>1. call.op = "map"
      BY <1>4, <1>7, <1>8, <2>1 DEF CallPages
    <3>2. MapStep
      BY <3>1 DEF HeapStep
    <3>3. t # 0
      BY <1>1, <3>2, NoTableHalts
    <3> QED
      BY <1>1, <1>6, <2>1, <3>3
  <2>2. CASE q # p
    <3>1. q \in KernelPages \cup CallPages
      BY <1>4, <1>7, <1>8, <2>2 DEF CallPages
    <3>2. IsMapped(q) /\ q \in Pages
      BY <1>3, <1>5, <1>8, <3>1 DEF PresenceInv, CallPages
    <3> QED
      BY <1>1, <1>6, <2>2, <3>2 DEF IsMapped
  <2> QED
    BY <2>1, <2>2
<1>9. ASSUME NEW q \in Pages \ LinearPages, IsMapped(q)'
      PROVE  q \in OwnPages' \/ (q \in HeapAll /\ Walk(pd', table', q) \in stranded')
  <2>1. CASE q = p
    BY <1>4, <2>1
  <2>2. CASE q # p
    <3>1. Walk(pd', table', q) = GetPhysical(q) /\ IsMapped(q)
      BY <1>1, <1>6, <1>9, <2>2 DEF IsMapped
    <3>2. q \in OwnPages \/ (q \in HeapAll /\ GetPhysical(q) \in stranded)
      BY <1>3, <3>1 DEF PresenceInv
    <3> QED
      BY <1>4, <1>7, <3>1, <3>2
  <2> QED
    BY <2>1, <2>2
<1> QED
  BY <1>8, <1>9

\* What a step other than those unmaps is apart from the pages that callers keep.
LEMMA EffectApart ==
  ASSUME StateInv, LinearInv, OrderInv, UseInv, SpaceInv, PresenceInv, CopiesEnd, Next, Running,
         ~(HeapStep \/ MapStep), "destroy" \notin allowed
  PROVE  \E ps \in SUBSET Pages : Effect(ps) /\ KernelPages' \cap ps = {}
<1>1. {} \in SUBSET Pages /\ MappedSoFar \in SUBSET Pages
  BY CallPagesType
<1>2. CASE VmmInit
  BY <1>1, <1>2, EffectInit
<1>3. CASE HeapEnd \/ HeapOutOfMemory
  BY <1>1, <1>3, EffectHeapEnd
<1>4. CASE MapEnd
  BY <1>1, <1>4, EffectMapEnd
<1>5. CASE MapOutOfMemory \/ MapOutOfRegions
  <2>1. Effect(MappedSoFar) /\ regions' = regions /\ phase = "ready" /\ call.op = "map"
    BY <1>5, EffectRollback DEF MapOutOfMemory, MapOutOfRegions, Rollback, spaceVars
  <2>2. KernelPages' = KernelPages
    BY <2>1 DEF KernelPages, PagesOf, RegionPages, PageAt
  <2>3. \A k \in 0 .. call.at - 1 : k \in 0 .. call.size - 1
    BY DEF StateInv, CallType
  <2>4. MappedSoFar \cap KernelPages = {}
    BY <2>1, <2>3, CallApart DEF MappedSoFar
  <2> QED
    BY <1>1, <2>1, <2>2, <2>4
<1>6. ASSUME NEW s \in AllSpaces, NEW j \in DOMAIN regions[s],
             UnmapRegion(s, regions[s][j].base)
      PROVE  \E ps \in SUBSET Pages : Effect(ps) /\ KernelPages' \cap ps = {}
  <2>1. s = Kernel
    <3>1. "unmap" \in allowed /\ s \in Live
      BY <1>6 DEF UnmapRegion
    <3>2. \A u \in Spaces : dirFrame[u] = 0
      BY <3>1 DEF PresenceInv, CopiesEnd
    <3> QED
      BY <3>1, <3>2 DEF Live
  <2>2. PICK at \in 1 .. Len(regions[Kernel]) :
           /\ Effect(RegionPages(regions[Kernel][at]))
           /\ RegionPages(regions[Kernel][at]) \subseteq Pages
           /\ regions' = [regions EXCEPT ![Kernel] = RemoveRegion(regions[Kernel], at)]
    BY <1>6, <2>1, EffectUnmap
  <2>3. KernelPages' \cap RegionPages(regions[Kernel][at]) = {}
    BY <2>2, UnmappedApart
  <2> QED
    BY <2>2, <2>3
<1>7. ASSUME NEW s \in Spaces, CreateSpace(s) PROVE Effect({})
  BY <1>7, EffectCreate
<1>8. \A s \in Spaces : ~DestroySpace(s)
  BY DEF DestroySpace
<1>9. ASSUME \/ KheapInit
             \/ \E n \in 1 .. HeapPages : HeapStart(n)
             \/ \E s \in MapSpaces, r \in Requests : MapStart(s, r[1], r[2])
             \/ \E s \in AllSpaces : SwitchSpace(s)
      PROVE  Effect({})
  <2>1. call = NoCall /\ UNCHANGED <<pd, table, free, dirFrame, regions, heapTop, stranded>>
    BY <1>9 DEF KheapInit, HeapStart, MapStart, SwitchSpace, Idle, spaceVars, StateInv
  <2> QED
    BY <2>1, EffectStart
<1>10. ~PagingInit
  BY DEF PagingInit, Running
<1> QED
  BY <1>1, <1>2, <1>3, <1>4, <1>5, <1>6, <1>7, <1>8, <1>9, <1>10 DEF Next

\* So does every other step of a running machine.
LEMMA PresenceOther ==
  ASSUME StateInv, LinearInv, OrderInv, UseInv, SpaceInv, PresenceInv, CopiesEnd, Next, Running,
         ~(HeapStep \/ MapStep)
  PROVE  /\ "destroy" \notin allowed => \A q \in KernelPages' \cup CallPages' : IsMapped(q)'
         /\ \A q \in Pages \ LinearPages : IsMapped(q)' =>
              q \in OwnPages' \/ (q \in HeapAll /\ Walk(pd', table', q) \in stranded')
<1>1. \A q \in Pages : IsMapped(q)' <=> Walk(pd', table', q) # 0
  BY DEF GetPhysical, IsMapped
<1>2. ASSUME "destroy" \notin allowed, NEW q \in KernelPages' \cup CallPages' PROVE IsMapped(q)'
  <2>1. q \in KernelPages'
    BY <1>2, NothingLeft DEF CallPages
  <2>2. PICK ps \in SUBSET Pages : Effect(ps) /\ KernelPages' \cap ps = {}
    BY <1>2, EffectApart
  <2>3. q \in CallerPages \/ (MapEnd /\ q \in MappedSoFar)
    BY <2>1, CallerParts, CallerPagesStep
  <2>4. q \in KernelPages \cup CallPages
    <3>1. MapEnd => call.op = "map"
      BY DEF MapEnd
    <3> QED
      BY <1>2, <2>3, <3>1 DEF PresenceInv, CallPages
  <2>5. IsMapped(q) /\ q \in Pages
    <3>1. q \in UsedPages
      BY <2>3 DEF UsedPages
    <3> QED
      BY <1>2, <2>4, <3>1, UsedType DEF PresenceInv
  <2>6. Walk(pd', table', q) = GetPhysical(q)
    BY <2>1, <2>2, <2>5 DEF Effect
  <2> QED
    BY <1>1, <2>5, <2>6 DEF IsMapped
<1>3. ASSUME NEW q \in Pages \ LinearPages, IsMapped(q)'
      PROVE  q \in OwnPages' \/ (q \in HeapAll /\ Walk(pd', table', q) \in stranded')
  <2>1. PICK ps \in SUBSET Pages : Effect(ps)
    BY StepEffect
  <2>2. q \notin ps /\ Walk(pd', table', q) = GetPhysical(q) /\ IsMapped(q)
    BY <1>1, <1>3, <2>1 DEF Effect, IsMapped
  <2>3. q \in OwnPages \/ (q \in HeapAll /\ GetPhysical(q) \in stranded)
    BY <2>2 DEF PresenceInv
  <2>4. /\ stranded \subseteq stranded'
        /\ q \in OwnPages => \/ q \in OwnPages' \cup ps
                             \/ q \in HeapAll /\ GetPhysical(q) \in stranded' \cup {0}
    BY <2>1 DEF Effect
  <2> QED
    BY <2>2, <2>3, <2>4 DEF IsMapped
<1> QED
  BY <1>2, <1>3

\* paging_init maps nothing outside the linear part.
LEMMA PresenceFirst ==
  ASSUME PagingInit, NEW q \in Pages \ LinearPages
  PROVE  Walk(pd', table', q) = 0
<1>1. PdOf(q) \in PdIndices \ LinearIndices
  BY OutsidePage
<1>2. pd'[PdOf(q)] = 0
  BY <1>1 DEF PagingInit, LinearIndices, LinearTables
<1> QED
  BY <1>2 DEF Walk

\* Every step keeps the lists and the tables in agreement.
LEMMA PresenceStep ==
  ASSUME CopiesEnd
  PROVE  StateInv /\ LinearInv /\ OrderInv /\ UseInv /\ SpaceInv /\ SpaceInv' /\ LedgerInv
           /\ PresenceInv /\ [Next]_vars => PresenceInv'
<1> SUFFICES ASSUME StateInv, LinearInv, OrderInv, UseInv, SpaceInv, SpaceInv', LedgerInv,
                    PresenceInv, [Next]_vars
             PROVE  PresenceInv'
  OBVIOUS
<1>1. CASE UNCHANGED vars
  <2>1. /\ CallerPages' = CallerPages /\ KernelPages' = KernelPages /\ MappedSoFar' = MappedSoFar
        /\ OwnPages' = OwnPages /\ CallPages' = CallPages
    BY <1>1 DEF vars, CallerPages, KernelPages, PagesOf, RegionPages, PageAt, MappedSoFar, OwnPages,
       HeapRange, CallPages
  <2>2. \A q : GetPhysical(q)' = GetPhysical(q) /\ (IsMapped(q)' <=> IsMapped(q))
    BY <1>1 DEF vars, IsMapped, GetPhysical
  <2> QED
    BY <1>1, <2>1, <2>2 DEF vars, PresenceInv, Running, HeapAll, LinearPages
<1>2. CASE Next
  <2>1. allowed' = allowed /\ allowed \in Calls
    BY <1>2 DEF Next, PresenceInv
  <2>2. ASSUME "create" \notin allowed PROVE \A s \in Spaces : dirFrame'[s] = 0
    <3>1. CASE \E s \in Spaces : DestroySpace(s)
      <4>1. PICK s \in Spaces : DestroySpace(s)
        BY <3>1
      <4>2. dirFrame[s] # 0
        BY <4>1 DEF DestroySpace
      <4> QED
        BY <2>2, <4>2 DEF PresenceInv
    <3>2. CASE ~\E s \in Spaces : DestroySpace(s)
      <4>1. \A s \in Spaces : ~CreateSpace(s)
        BY <2>2 DEF CreateSpace
      <4>2. dirFrame' = dirFrame
        BY <1>2, <3>2, <4>1 DEF Next, PagingInit, KheapInit, VmmInit, HeapStart, HeapStep, HeapEnd,
           HeapOutOfMemory, MapStart, MapStep, MapOutOfMemory, MapOutOfRegions, Rollback, MapEnd,
           UnmapRegion, SwitchSpace, spaceVars
      <4> QED
        BY <2>2, <4>2 DEF PresenceInv
    <3> QED
      BY <3>1, <3>2
  <2>3. "destroy" \notin allowed => CallerPages' \subseteq KernelPages'
    BY <1>2, CopiesStep
  <2>4. ASSUME Running'
        PROVE  /\ "destroy" \notin allowed => \A q \in KernelPages' \cup CallPages' : IsMapped(q)'
               /\ \A q \in Pages \ LinearPages : IsMapped(q)' =>
                    q \in OwnPages' \/ (q \in HeapAll /\ Walk(pd', table', q) \in stranded')
    <3>1. CASE HeapStep \/ MapStep
      BY <1>2, <2>4, <3>1, PresenceMapping
    <3>2. CASE PagingInit
      <4>1. call' = call /\ call = NoCall /\ regions' = regions
        BY <3>2 DEF PagingInit, StateInv, spaceVars
      <4>2. CallPages' = {}
        BY <4>1, NoCallType DEF CallPages
      <4>3. KernelPages' = {}
        <5>1. regions'[Kernel] = <<>>
          BY <3>2, <4>1, CallerParts DEF PagingInit, SpaceInv
        <5> QED
          BY <5>1 DEF KernelPages, PagesOf
      <4>4. \A q \in Pages : IsMapped(q)' <=> Walk(pd', table', q) # 0
        BY DEF GetPhysical, IsMapped
      <4> QED
        BY <3>2, <4>2, <4>3, <4>4, PresenceFirst
    <3>3. CASE ~PagingInit /\ ~(HeapStep \/ MapStep)
      <4>1. Running
        BY <1>2, <2>4, <3>3, PhaseStep
      <4> QED
        BY <1>2, <3>3, <4>1, PresenceOther
    <3> QED
      BY <3>1, <3>2, <3>3
  <2>5. \A q \in Pages : GetPhysical(q)' = Walk(pd', table', q)
    BY DEF GetPhysical
  <2> QED
    BY <2>1, <2>2, <2>3, <2>4, <2>5 DEF PresenceInv, HeapAll, LinearPages
<1> QED
  BY <1>1, <1>2

\* The lists and the tables agree at every step of a running machine.
THEOREM PresenceInvariant ==
  ASSUME RequestsFit, KernelMaps, CopiesEnd
  PROVE  Spec => []PresenceInv
<1>1. Init => PresenceInv
  <2> SUFFICES ASSUME Init PROVE PresenceInv
    OBVIOUS
  <2>1. \A s \in AllSpaces : regions[s] = <<>>
    BY DEF Init
  <2>2. CallerPages = {}
    BY <2>1 DEF CallerPages
  <2> QED
    BY <2>2 DEF Init, PresenceInv, Running
<1>2. StateInv /\ LinearInv /\ OrderInv /\ UseInv /\ SpaceInv /\ SpaceInv' /\ LedgerInv
        /\ PresenceInv /\ [Next]_vars => PresenceInv'
  BY PresenceStep
<1> QED
  BY <1>1, <1>2, StateInvariant, LinearInvariant, OrderInvariant, UseInvariant, SpaceInvariant,
     LedgerInvariant, PTL DEF Spec

\* Between calls every page of a region that callers mapped is present, and a page that is
\* present outside the linear part belongs to such a region or to the heap: property
\* RegionsAreMapped.
THEOREM RegionsAreMappedHolds ==
  ASSUME RequestsFit, KernelMaps, CopiesEnd
  PROVE  Spec => []RegionsAreMapped
<1>1. StateInv /\ SpaceInv /\ PresenceInv => RegionsAreMapped
  <2> SUFFICES ASSUME StateInv, SpaceInv, PresenceInv, Idle, "destroy" \notin allowed
               PROVE  /\ \A p \in MappedPages : IsMapped(p)
                      /\ \A p \in Pages \ LinearPages :
                           IsMapped(p) => \/ p \in MappedPages \cup HeapRange
                                          \/ /\ p \in HeapBase + heapTop .. HeapBase + HeapPages - 1
                                             /\ GetPhysical(p) \in stranded
    BY DEF RegionsAreMapped, LinearPages
  <2>1. Running /\ MappedSoFar = {}
    BY NothingMapped DEF Idle, Running
  <2>2. CallerPages \subseteq MappedPages
    BY LivePages
  <2>3. MappedPages \subseteq CallerPages
    BY <2>1 DEF MappedPages, CallerPages, Live, AllSpaces
  <2>4. \A p \in MappedPages : IsMapped(p)
    BY <2>1, <2>3 DEF PresenceInv
  <2>5. ASSUME NEW p \in Pages \ LinearPages, IsMapped(p)
        PROVE  \/ p \in MappedPages \cup HeapRange
               \/ /\ p \in HeapBase + heapTop .. HeapBase + HeapPages - 1
                  /\ GetPhysical(p) \in stranded
    <3>1. p \in OwnPages \/ (p \in HeapAll /\ GetPhysical(p) \in stranded)
      BY <2>1, <2>5 DEF PresenceInv
    <3>2. HeapBase \in Nat /\ heapTop \in Nat /\ HeapPages \in Nat
      BY VmmSizes DEF StateInv, HeapBase
    <3>3. p \in HeapAll => p \in HeapRange \/ p \in HeapBase + heapTop .. HeapBase + HeapPages - 1
      BY <3>2 DEF HeapAll, HeapRange
    <3> QED
      BY <2>1, <2>2, <3>1, <3>3 DEF OwnPages
  <2> QED
    BY <2>4, <2>5
<1> QED
  BY <1>1, StateInvariant, SpaceInvariant, PresenceInvariant, PTL

-----------------------------------------------------------------------------
(* vmm_find_free_region.                                                   *)

\* The heap and every request end three pages or more below the top of the address space: a search
\* for up to three pages then wraps only from a candidate that is behind every region.
TopIsFree ==
  /\ KernelBase + HeapFrame + HeapPages + 3 <= NumPages
  /\ \A r \in Requests : r[2] > 0 /\ r[1] + r[2] + 3 <= NumPages

\* So do all regions, and the call in progress.
TopInv ==
  /\ \A s \in AllSpaces : \A i \in 1 .. Len(regions[s]) :
       regions[s][i].base + regions[s][i].size + 3 <= NumPages
  /\ call.op = "map" => call.base + call.size + 3 <= NumPages

\* The candidate moves behind a region that it lies in.
Moved(x, r) == IF x >= r.base /\ x < RegionEnd(r) THEN RegionEnd(r) ELSE x

\* The candidates after the first n regions.
Candidates(c, n, list, hint) ==
  c = [i \in 0 .. n |-> IF i = 0 THEN hint ELSE Moved(c[i - 1], list[i])]

HasCandidates(n, list, hint) == \E c : Candidates(c, n, list, hint)

\* The recursion of FindFreeRegion has a solution.
LEMMA CandidatesExist ==
  ASSUME NEW list, NEW hint, NEW n \in Nat
  PROVE  HasCandidates(n, list, hint)
<1> DEFINE Bad == {k \in Nat : ~HasCandidates(k, list, hint)}
<1>1. SUFFICES ASSUME Bad # {} PROVE FALSE
  OBVIOUS
<1>2. PICK k \in Bad : \A j \in Bad : k <= j
  <2>1. Bad \in SUBSET Nat
    OBVIOUS
  <2> QED
    BY <1>1, <2>1, LeastInSet
<1>3. k \in Nat /\ ~HasCandidates(k, list, hint)
  BY <1>2
<1>4. HasCandidates(0, list, hint)
  <2> DEFINE c == [i \in 0 .. 0 |-> hint]
  <2>1. Candidates(c, 0, list, hint)
    BY DEF Candidates
  <2> QED
    BY <2>1 DEF HasCandidates
<1>5. k # 0 /\ k - 1 \in Nat
  BY <1>3, <1>4
<1>6. k - 1 \notin Bad
  BY <1>2, <1>5
<1>7. HasCandidates(k - 1, list, hint)
  BY <1>5, <1>6
<1>8. PICK c : Candidates(c, k - 1, list, hint)
  BY <1>7 DEF HasCandidates
<1> DEFINE g == [i \in 0 .. k |-> IF i = k THEN Moved(c[k - 1], list[k]) ELSE c[i]]
           h == [i \in 0 .. k |-> IF i = 0 THEN hint ELSE Moved(g[i - 1], list[i])]
<1>9. ASSUME NEW i \in 0 .. k PROVE g[i] = h[i]
  <2>1. CASE i = 0
    BY <1>5, <1>8, <2>1 DEF Candidates
  <2>2. CASE i = k
    BY <1>5, <1>8, <2>2
  <2>3. CASE i # 0 /\ i # k
    <3>1. i \in 0 .. k - 1 /\ i - 1 \in 0 .. k /\ i - 1 # k
      BY <1>5, <2>3
    <3>2. c[i] = Moved(c[i - 1], list[i])
      BY <1>8, <2>3, <3>1 DEF Candidates
    <3>3. g[i] = c[i] /\ g[i - 1] = c[i - 1]
      BY <2>3, <3>1
    <3>4. h[i] = Moved(g[i - 1], list[i])
      BY <2>3
    <3> QED
      BY <3>2, <3>3, <3>4
  <2> QED
    BY <2>1, <2>2, <2>3
<1>10. g = h
  BY <1>9
<1>11. Candidates(g, k, list, hint)
  BY <1>10 DEF Candidates
<1> QED
  BY <1>3, <1>11 DEF HasCandidates

\* What Candidates says of each region.
LEMMA CandidatesUnfold ==
  ASSUME NEW list, NEW hint, NEW n \in Nat, NEW c, Candidates(c, n, list, hint)
  PROVE  c[0] = hint /\ \A i \in 1 .. n : c[i] = Moved(c[i - 1], list[i])
BY DEF Candidates

\* vmm_find_free_region, with the candidates c, stops behind region m.
FoundAt(c, m, list, size, hint) ==
  /\ c[0] = hint /\ \A i \in 1 .. Len(list) : c[i] = Moved(c[i - 1], list[i])
  /\ FindFreeRegion(list, size, hint) = c[m]
  /\ m < Len(list) => PageAt(c[m], size) <= list[m + 1].base

\* What vmm_find_free_region returns is 0 or the candidate after some region, with room
\* up to the next one.
LEMMA FoundCandidate ==
  ASSUME NEW list \in Seq(RegionType), NEW size \in Nat, NEW hint \in Nat,
         FindFreeRegion(list, size, hint) # 0
  PROVE  \E c : \E m \in 1 .. Len(list) : FoundAt(c, m, list, size, hint)
<1> DEFINE n == Len(list)
           p == CHOOSE c : Candidates(c, n, list, hint)
           limit(i) == IF i < Len(list) THEN list[i+1].base ELSE NumPages - 1
           fits == {i \in 1 .. Len(list) : PageAt(p[i], size) <= limit(i)}
<1>1. Candidates(p, n, list, hint)
  <2>1. n \in Nat
    OBVIOUS
  <2> QED
    BY <2>1, CandidatesExist DEF HasCandidates
<1>2. FindFreeRegion(list, size, hint) = IF fits = {} THEN 0 ELSE p[Min(fits)]
  BY DEF FindFreeRegion, Candidates, Moved
<1> HIDE DEF p
<1>3. fits # {} /\ FindFreeRegion(list, size, hint) = p[Min(fits)]
  BY <1>2
<1>4. fits \in SUBSET Nat
  OBVIOUS
<1>5. Min(fits) \in fits
  BY <1>3, <1>4, LeastInSet
<1>6. PICK q : q = p
  OBVIOUS
<1>7. PICK k \in Nat : k = n
  OBVIOUS
<1>8. Candidates(q, k, list, hint)
  BY <1>1, <1>6, <1>7
<1>9. q[0] = hint /\ \A i \in 1 .. k : q[i] = Moved(q[i - 1], list[i])
  BY <1>8, CandidatesUnfold
<1>10. PICK m \in 1 .. Len(list) : m = Min(fits) /\ PageAt(p[m], size) <= limit(m)
  BY <1>5
<1>11. FoundAt(q, m, list, size, hint)
  BY <1>3, <1>6, <1>7, <1>9, <1>10 DEF FoundAt
<1> QED
  BY <1>11

\* A candidate lies in none of the regions it has passed.
LEMMA CandidatesPass ==
  ASSUME NEW list \in Seq(RegionType), Ordered(list), NEW hint \in Nat, NEW c,
         c[0] = hint, \A i \in 1 .. Len(list) : c[i] = Moved(c[i - 1], list[i])
  PROVE  \A i \in 0 .. Len(list) :
           c[i] \in Nat /\ \A j \in 1 .. i : c[i] < list[j].base \/ list[j].base + list[j].size <= c[i]
<1> DEFINE Good(i) ==
      c[i] \in Nat /\ \A j \in 1 .. i : c[i] < list[j].base \/ list[j].base + list[j].size <= c[i]
           Bad == {i \in 0 .. Len(list) : ~Good(i)}
<1>1. SUFFICES ASSUME Bad # {} PROVE FALSE
  OBVIOUS
<1>2. PICK k \in Bad : \A j \in Bad : k <= j
  <2>1. Bad \in SUBSET Nat
    OBVIOUS
  <2> QED
    BY <1>1, <2>1, LeastInSet
<1>3. PICK n \in Nat : n = Len(list)
  OBVIOUS
<1>4. k \in 0 .. n /\ ~Good(k)
  BY <1>2, <1>3
<1>5. Good(0)
  OBVIOUS
<1>6. k \in 1 .. n /\ k - 1 \in 0 .. n
  BY <1>4, <1>5
<1>7. Good(k - 1)
  BY <1>2, <1>3, <1>6
<1>8. PICK x \in Nat : x = c[k - 1] /\ c[k] = Moved(x, list[k])
  BY <1>3, <1>6, <1>7
<1>9. \A j \in 1 .. n : /\ list[j].base \in Nat /\ list[j].size \in Nat
                        /\ RegionEnd(list[j]) = list[j].base + list[j].size
  <2>1. ASSUME NEW j \in 1 .. n
        PROVE  /\ list[j].base \in Nat /\ list[j].size \in Nat
               /\ RegionEnd(list[j]) = list[j].base + list[j].size
    <3>1. PICK r \in RegionType : r = list[j]
      BY <1>3
    <3>2. r.base \in Nat /\ r.size \in Nat
      BY VmmSizes DEF RegionType, Pages
    <3>3. r.base + r.size < NumPages
      BY <1>3, <3>1 DEF Ordered
    <3> QED
      BY <3>1, <3>2, <3>3, PageAtPlain DEF RegionEnd
  <2> QED
    BY <2>1
<1>10. PICK b \in Nat, z \in Nat : b = list[k].base /\ z = list[k].size /\ RegionEnd(list[k]) = b + z
  BY <1>6, <1>9
<1>11. CASE x >= b /\ x < b + z
  <2>1. c[k] = b + z
    BY <1>8, <1>10, <1>11 DEF Moved
  <2>2. ASSUME NEW j \in 1 .. k PROVE list[j].base + list[j].size <= b + z
    <3>1. j \in 1 .. n
      BY <1>6
    <3>2. CASE j = k
      BY <1>10, <3>2
    <3>3. CASE j < k
      <4>1. list[j].base + list[j].size <= b
        BY <1>3, <1>6, <1>10, <3>1, <3>3 DEF Ordered
      <4> QED
        BY <1>9, <3>1, <4>1
    <3> QED
      BY <1>6, <3>1, <3>2, <3>3
  <2> QED
    BY <1>4, <2>1, <2>2
<1>12. CASE ~(x >= b /\ x < b + z)
  <2>1. c[k] = x /\ (x < b \/ b + z <= x)
    BY <1>8, <1>10, <1>12 DEF Moved
  <2>2. \A j \in 1 .. k : j = k \/ j \in 1 .. k - 1
    BY <1>6
  <2>3. Good(k)
    BY <1>7, <1>8, <1>10, <2>1, <2>2
  <2> QED
    BY <1>4, <2>3
<1> QED
  BY <1>11, <1>12

\* What it returns lies in no region.
LEMMA FoundIsFree ==
  ASSUME NEW list \in Seq(RegionType), Ordered(list), NEW size \in 1 .. 3, NEW hint \in Nat,
         \A i \in 1 .. Len(list) : list[i].base + list[i].size + 3 <= NumPages,
         FindFreeRegion(list, size, hint) # 0
  PROVE  FindRegion(list, FindFreeRegion(list, size, hint)) = {}
<1>1. PICK c : \E m \in 1 .. Len(list) : FoundAt(c, m, list, size, hint)
  <2>1. PICK y \in Nat : y = size
    OBVIOUS
  <2>2. \E c : \E m \in 1 .. Len(list) : FoundAt(c, m, list, y, hint)
    BY <2>1, FoundCandidate
  <2> QED
    BY <2>1, <2>2
<1>2. PICK m \in 1 .. Len(list) :
           /\ c[0] = hint /\ \A i \in 1 .. Len(list) : c[i] = Moved(c[i - 1], list[i])
           /\ FindFreeRegion(list, size, hint) = c[m]
           /\ m < Len(list) => PageAt(c[m], size) <= list[m + 1].base
  BY <1>1 DEF FoundAt
<1>3. \A i \in 0 .. Len(list) :
        c[i] \in Nat /\ \A j \in 1 .. i : c[i] < list[j].base \/ list[j].base + list[j].size <= c[i]
  BY <1>2, CandidatesPass
<1>4. PICK n \in Nat : n = Len(list)
  OBVIOUS
<1>5. PICK x \in Nat : x = c[m] /\ \A j \in 1 .. m : x < list[j].base \/ list[j].base + list[j].size <= x
  BY SMTT(40), <1>3, <1>4
<1>6. ASSUME NEW j \in 1 .. n, x >= list[j].base, x < RegionEnd(list[j]) PROVE FALSE
  <2>1. PICK r \in RegionType : r = list[j]
    BY <1>4
  <2>2. PICK b \in Nat, z \in Nat : b = r.base /\ z = r.size
    BY VmmSizes DEF RegionType, Pages
  <2>3. b + z + 3 <= NumPages /\ NumPages \in Nat
    BY <1>4, <2>1, <2>2, VmmSizes
  <2>4. RegionEnd(list[j]) = b + z
    BY SMTT(40), <2>1, <2>2, <2>3, PageAtPlain DEF RegionEnd
  <2>5. b <= x /\ x < b + z
    BY <1>6, <2>1, <2>2, <2>4
  <2>6. m < j
    <3>1. SUFFICES ASSUME j <= m PROVE FALSE
      BY <1>4
    <3>2. j \in 1 .. m
      BY <1>4, <3>1
    <3>3. x < list[j].base \/ list[j].base + list[j].size <= x
      BY <1>5, <3>2
    <3>4. x < b \/ b + z <= x
      BY <2>1, <2>2, <3>3
    <3> QED
      BY <2>5, <3>4
  <2>7. PICK k \in 1 .. n : k = m + 1
    BY <1>4, <2>6
  <2>8. x + size < NumPages
    BY <2>3, <2>5
  <2>9. PageAt(x, size) = x + size
    BY <2>8, PageAtPlain
  <2>10. PICK y \in RegionType : y = list[k]
    BY <1>4
  <2>11. PICK d \in Nat, w \in Nat : d = y.base /\ w = y.size
    BY VmmSizes DEF RegionType, Pages
  <2>12. x + size <= d
    BY <1>2, <1>4, <1>5, <2>6, <2>7, <2>9, <2>10, <2>11
  <2>13. d <= b
    <3>1. CASE k = j
      BY <2>1, <2>2, <2>10, <2>11, <3>1
    <3>2. CASE k < j
      <4>1. d + w <= b
        BY <1>4, <2>1, <2>2, <2>10, <2>11, <3>2 DEF Ordered
      <4> QED
        BY <4>1
    <3> QED
      BY <2>6, <2>7, <3>1, <3>2
  <2> QED
    BY <2>5, <2>12, <2>13
<1>7. DOMAIN list = 1 .. n
  BY <1>4
<1> QED
  BY <1>2, <1>5, <1>6, <1>7 DEF FindRegion

\* Every step keeps the top of the address space free.
LEMMA TopStep ==
  ASSUME TopIsFree
  PROVE  StateInv /\ TopInv /\ [Next]_vars => TopInv'
<1> SUFFICES ASSUME StateInv, TopInv, [Next]_vars PROVE TopInv'
  OBVIOUS
<1>1. CASE UNCHANGED vars
  BY <1>1 DEF vars, TopInv
<1>2. ASSUME NEW r \in KernelRegions PROVE r.base + r.size + 3 <= NumPages
  <2>1. /\ LowRegion \in RegionType /\ ImageRegion \in RegionType /\ RestRegion \in RegionType
        /\ HeapRegion \in RegionType
    BY InitialRegions DEF KernelRegions
  <2>2. \A x \in RegionType : x.base \in Nat /\ x.size \in Nat
    BY VmmSizes DEF RegionType, Pages
  <2>3. HeapRegion.base + HeapRegion.size + 3 <= NumPages
    BY DEF TopIsFree, HeapRegion, Region, HeapBase
  <2>4. NumPages \in Nat
    BY VmmSizes
  <2>5. /\ LowRegion.base + LowRegion.size <= ImageRegion.base
        /\ ImageRegion.base + ImageRegion.size <= HeapRegion.base
        /\ RestRegion.base + RestRegion.size = HeapRegion.base
    BY InitialRegions
  <2>6. r \in {LowRegion, ImageRegion, RestRegion, HeapRegion}
    BY DEF KernelRegions
  <2>7. /\ LowRegion.base \in Nat /\ LowRegion.size \in Nat /\ ImageRegion.base \in Nat
        /\ ImageRegion.size \in Nat /\ RestRegion.base \in Nat /\ RestRegion.size \in Nat
        /\ HeapRegion.base \in Nat /\ HeapRegion.size \in Nat
    BY <2>1, <2>2
  <2> QED
    BY <2>3, <2>4, <2>5, <2>6, <2>7
<1>3. ASSUME regions' = regions
      PROVE  \A s \in AllSpaces : \A i \in 1 .. Len(regions'[s]) :
               regions'[s][i].base + regions'[s][i].size + 3 <= NumPages
  BY <1>3 DEF TopInv
<1>4. ASSUME NEW s \in AllSpaces, NEW new \in Seq(RegionType),
             regions' = [regions EXCEPT ![s] = new], ListChange(s, new)
      PROVE  \A u \in AllSpaces : \A i \in 1 .. Len(regions'[u]) :
               regions'[u][i].base + regions'[u][i].size + 3 <= NumPages
  <2>1. ASSUME NEW i \in 1 .. Len(new) PROVE new[i].base + new[i].size + 3 <= NumPages
    <3>1. CASE new[i] \in KernelRegions
      BY <1>2, <3>1
    <3>2. CASE MapEnd /\ new[i] = Region(call.base, call.size, UserCode)
      BY <3>2 DEF TopInv, MapEnd, Region
    <3>3. CASE \E k \in 1 .. Len(regions[s]) : new[i] = regions[s][k]
      BY <3>3 DEF TopInv
    <3>4. CASE \E k \in 1 .. Len(regions[Kernel]) : new[i] = regions[Kernel][k]
      BY <3>4 DEF TopInv, AllSpaces
    <3> QED
      BY <1>4, <3>1, <3>2, <3>3, <3>4, ChangedElements
  <2> QED
    BY <1>4, <2>1 DEF StateInv, TopInv
<1>5. CASE Next
  <2>1. \A u \in AllSpaces : \A i \in 1 .. Len(regions'[u]) :
          regions'[u][i].base + regions'[u][i].size + 3 <= NumPages
    BY <1>3, <1>4, <1>5, ListsStep
  <2>2. ASSUME call'.op = "map" PROVE call'.base + call'.size + 3 <= NumPages
    <3>1. ASSUME NEW s \in MapSpaces, NEW r \in Requests, MapStart(s, r[1], r[2])
          PROVE  call'.base + call'.size + 3 <= NumPages
      BY <3>1 DEF MapStart, TopIsFree
    <3>2. CASE MapStep
      <4>1. call'.base = call.base /\ call'.size = call.size /\ call.op = "map"
        BY <3>2 DEF MapStep, StateInv, CallType
      <4> QED
        BY <4>1 DEF TopInv
    <3>3. CASE HeapStep
      BY <2>2, <3>3 DEF HeapStep, StateInv, CallType
    <3>4. ASSUME PagingInit \/ KheapInit \/ VmmInit \/ \E n \in 1 .. HeapPages : HeapStart(n)
          PROVE  FALSE
      <4>1. CASE PagingInit \/ VmmInit
        BY <2>2, <4>1, NoCallType DEF StateInv, PagingInit, VmmInit
      <4>2. CASE KheapInit
        BY <2>2, <4>2 DEF KheapInit
      <4>3. ASSUME NEW n \in 1 .. HeapPages, HeapStart(n) PROVE FALSE
        BY <2>2, <4>3 DEF HeapStart
      <4> QED
        BY <3>4, <4>1, <4>2, <4>3
    <3>5. ASSUME \/ HeapEnd \/ HeapOutOfMemory \/ MapOutOfMemory \/ MapOutOfRegions \/ MapEnd
                 \/ \E s \in AllSpaces : \E i \in DOMAIN regions[s] :
                      UnmapRegion(s, regions[s][i].base)
                 \/ \E s \in Spaces : CreateSpace(s) \/ DestroySpace(s)
                 \/ \E s \in AllSpaces : SwitchSpace(s)
          PROVE  FALSE
      <4>1. call' = NoCall
        BY <3>5 DEF HeapEnd, HeapOutOfMemory, MapOutOfMemory, MapOutOfRegions, Rollback, MapEnd,
           UnmapRegion, CreateSpace, DestroySpace, SwitchSpace, Idle
      <4> QED
        BY <2>2, <4>1, NoCallType
    <3> QED
      BY <1>5, <3>1, <3>2, <3>3, <3>4, <3>5 DEF Next
  <2> QED
    BY <2>1, <2>2 DEF TopInv
<1> QED
  BY <1>1, <1>5

\* No region, and no call in progress, comes within three pages of the top of the address space.
THEOREM TopInvariant == ASSUME TopIsFree PROVE Spec => []TopInv
<1>1. Init => TopInv
  BY NoCallType DEF Init, TopInv
<1>2. StateInv /\ TopInv /\ [Next]_vars => TopInv'
  BY TopStep
<1> QED
  BY <1>1, <1>2, StateInvariant, PTL DEF Spec

\* What vmm_find_free_region returns, for up to three pages from the default hint, lies in no
\* region of the kernel's list: property FoundStartIsFree.
THEOREM FoundStartIsFreeHolds == ASSUME TopIsFree PROVE Spec => []FoundStartIsFree
<1>1. RequestsFit
  <2>1. ASSUME NEW r \in Requests PROVE r[2] > 0 /\ r[1] + r[2] < NumPages
    <3>1. r[2] > 0 /\ r[1] + r[2] + 3 <= NumPages
      BY DEF TopIsFree
    <3>2. r[1] \in Nat /\ r[2] \in Nat /\ NumPages \in Nat
      BY VmmSizes, VmmAssumption
    <3> QED
      BY <3>1, <3>2
  <2> QED
    BY <2>1 DEF RequestsFit
<1>2. Spec => []OrderInv
  BY <1>1, OrderInvariant
<1>3. Spec => []TopInv
  BY TopInvariant
<1>4. StateInv /\ OrderInv /\ TopInv => FoundStartIsFree
  <2> SUFFICES ASSUME StateInv, OrderInv, TopInv, NEW size \in 1 .. 3,
                      FindFreeRegion(regions[Kernel], size, DefaultHint) # 0
               PROVE  FindRegion(regions[Kernel],
                                 FindFreeRegion(regions[Kernel], size, DefaultHint)) = {}
    BY DEF FoundStartIsFree
  <2>1. Kernel \in AllSpaces
    BY DEF AllSpaces
  <2>2. PICK list \in Seq(RegionType) : list = regions[Kernel]
    BY <2>1 DEF StateInv
  <2>3. /\ Ordered(list)
        /\ \A i \in 1 .. Len(list) : list[i].base + list[i].size + 3 <= NumPages
    BY <2>1, <2>2 DEF OrderInv, TopInv
  <2>4. DefaultHint \in Nat
    BY VmmSizes
  <2> QED
    BY <2>2, <2>3, <2>4, FoundIsFree
<1> QED
  BY <1>2, <1>3, <1>4, StateInvariant, PTL
=============================================================================
