-------------------------------- MODULE Vmm --------------------------------
(***************************************************************************)
(* Paging (paging.c) and the virtual memory manager (vmm.c): the static    *)
(* page directory, page tables in physical frames, the region lists of the *)
(* address spaces, and the kernel heap's use of paging_map_page.           *)
(*                                                                         *)
(* Addresses are page and frame numbers; sizes are in pages.  Flags are    *)
(* left out.  The kernel reads and writes tables and directories through   *)
(* PHYS_TO_VIRT, so each access goes through the current directory: it may *)
(* reach the frame that was meant, fault (the handler halts the machine)   *)
(* or reach another frame.  The calls are made one at a time.              *)
(***************************************************************************)
EXTENDS Integers, Sequences, FiniteSets, FiniteSetsExt, SequencesExt

CONSTANTS
  PtEntries,     \* PAGE_ENTRIES
  NumPages,      \* virtual pages
  KernelBase,    \* KERNEL_VIRTUAL_BASE
  NumFrames,     \* physical frames
  LinearFrames,  \* how many frames paging_init maps (16 MB)
  KernelFrame,   \* where the kernel image starts (1 MB)
  KernelEnd,     \* where it ends (_kernel_end)
  HeapFrame,     \* HEAP_START_ADDR - KERNEL_VIRTUAL_BASE
  HeapPages,     \* MAX_HEAP_SIZE
  InitialHeap,   \* INITIAL_HEAP_SIZE
  Ram,           \* the frames pmm_init offers
  MaxRegions,    \* VMM_MAX_REGIONS
  DefaultHint,   \* where vmm_find_free_region starts (0xD0000000)
  Spaces,        \* the address spaces that may be created
  MapSpaces,     \* the spaces callers map regions into
  Requests,      \* the regions callers map: pairs of base and size
  Calls          \* what callers may do in a run: sets of map, unmap, heap, create,
                 \* destroy and switch

ASSUME VmmSizes ==
  /\ PtEntries \in Nat \ {0} /\ KernelFrame \in Nat \ {0, 1}
  /\ NumPages \in Nat /\ KernelBase \in Nat /\ NumFrames \in Nat /\ LinearFrames \in Nat
  /\ KernelEnd \in Nat /\ HeapFrame \in Nat /\ HeapPages \in Nat \ {0} /\ InitialHeap \in Nat
  /\ MaxRegions \in Nat /\ DefaultHint \in Nat
ASSUME VmmAssumption ==
  /\ KernelBase % PtEntries = 0
  /\ NumPages % PtEntries = 0 /\ LinearFrames % PtEntries = 0
  /\ KernelFrame + LinearFrames \div PtEntries <= KernelEnd
  /\ KernelEnd <= HeapFrame /\ HeapFrame < LinearFrames
  /\ KernelBase + LinearFrames <= NumPages /\ LinearFrames <= NumFrames
  /\ MaxRegions >= 4
  /\ KernelBase + HeapFrame + HeapPages <= DefaultHint /\ DefaultHint < NumPages
  /\ InitialHeap <= HeapPages /\ "kernel" \notin Spaces /\ MapSpaces \subseteq {"kernel"} \cup Spaces
  /\ Ram \subseteq KernelEnd .. NumFrames - 1
  /\ Calls \subseteq SUBSET {"map", "unmap", "heap", "create", "destroy", "switch"}
  /\ \A r \in Requests : r[1] \in 0 .. NumPages - 1 /\ r[2] \in Nat

\* The members of vmm_region_type_t that the code tells apart.
KernelCode == 1
KernelHeap == 3
IdentityMap == 5
UserCode == 6
Mmio == 10

Kernel == "kernel"
AllSpaces == {Kernel} \cup Spaces
Pages == 0 .. NumPages - 1
Frames == 0 .. NumFrames - 1
PdIndices == 0 .. NumPages \div PtEntries - 1
PtIndices == 0 .. PtEntries - 1
HeapBase == KernelBase + HeapFrame
NoCall == [op |-> "none", space |-> Kernel, base |-> 0, size |-> 0, at |-> 0]

VARIABLES
  phase,     \* reset, paging, heap, ready; halted by a page fault; stray after a
             \* write to a wrong frame
  free,      \* the frames the frame allocator has
  pd,        \* page_directory: the frame of each page table, 0 when not present
  table,     \* the entries of the page tables, by the frame they lie in
  dirs,      \* the page directory of each created space
  dirFrame,  \* the frame it lies in, 0 for a space that does not exist
  regions,   \* the region list of each space
  pool,      \* region_pool_used
  cr3,       \* current_space
  heapTop,   \* heap_end, in pages from the start of the heap
  call,      \* the vmm_map_region or heap_expand call in progress
  stranded,  \* history: the frames that heap_expand took and failed to use
  allowed    \* what callers do in this behaviour: chosen at first

vars == <<phase, free, pd, table, dirs, dirFrame, regions, pool, cr3, heapTop, call,
          stranded, allowed>>
spaceVars == <<dirs, dirFrame, regions, pool, cr3>>

-----------------------------------------------------------------------------
(* The page tables.                                                        *)

PdOf(p) == p \div PtEntries
PtOf(p) == p % PtEntries
EmptyTable == [i \in PtIndices |-> 0]

Live == {Kernel} \cup {s \in Spaces : dirFrame[s] # 0}

\* What a directory and the tables translate a page to, 0 when not present.
Walk(dir, tables, p) ==
  IF dir[PdOf(p)] = 0 THEN 0 ELSE tables[dir[PdOf(p)]][PtOf(p)]

\* paging_get_physical, always through the static directory.
GetPhysical(p) == Walk(pd, table, p)

\* vmm_is_mapped.
IsMapped(p) == GetPhysical(p) # 0

DirectoryOf(s) == IF s = Kernel THEN pd ELSE dirs[s]

\* An access that was meant for frame f and is translated to frame g.
Outcome(g, f) == IF g = f THEN "ok" ELSE IF g = 0 THEN "halted" ELSE "stray"

\* An access to frame f at PHYS_TO_VIRT(f).
Sees(f) ==
  IF KernelBase + f \in Pages THEN Outcome(Walk(DirectoryOf(cr3), table, KernelBase + f), f)
  ELSE "halted"

\* Mutant: a page that is not present gets a new page table although there is one.
TableForAbsent(p, avail) ==
  IF GetPhysical(p) # 0 THEN pd[PdOf(p)] ELSE IF avail = {} THEN 0 ELSE Min(avail)

\* The page table that paging_map_page uses for a page, a new one if there is
\* none, or 0 if there is no frame for it.
TableFor(p, avail) ==
  IF pd[PdOf(p)] # 0 THEN pd[PdOf(p)] ELSE IF avail = {} THEN 0 ELSE Min(avail)

\* paging_map_page(p, f) while the allocator has the frames avail.  Without a
\* frame for a page table it returns and the page stays unmapped.
MapPage(p, f, avail) ==
  LET t == TableFor(p, avail)
  IN  IF t = 0
      THEN [seen |-> "ok", pd |-> pd, table |-> table, free |-> avail]
      ELSE [seen |-> Sees(t),
            pd |-> [pd EXCEPT ![PdOf(p)] = t],
            table |-> [table EXCEPT ![t] =
                        [(IF pd[PdOf(p)] = t THEN @ ELSE EmptyTable) EXCEPT ![PtOf(p)] = f]],
            free |-> avail \ {t}]

\* Mutant: unmapping gives the frames back and leaves the entries.
ClearedNothing(ps) == table

\* paging_unmap_page for the pages ps.
Cleared(ps) ==
  [t \in Frames |-> [i \in PtIndices |->
     IF \E p \in ps : pd[PdOf(p)] = t /\ PtOf(p) = i THEN 0 ELSE table[t][i]]]

\* The accesses to the page tables of the pages ps.
SeesTables(ps) ==
  LET outcomes == {Sees(pd[PdOf(p)]) : p \in {q \in ps : pd[PdOf(q)] # 0}}
  IN  IF outcomes \subseteq {"ok"} THEN "ok"
      ELSE IF "halted" \in outcomes THEN "halted" ELSE "stray"

\* Mutants: the page table goes with its pages; the frame behind the last page
\* is forgotten.
ReleasedTables(ps) == ({GetPhysical(p) : p \in ps} \cup {pd[PdOf(p)] : p \in ps}) \ {0}
ReleasedButLast(ps) == {GetPhysical(p) : p \in {q \in ps : \E r \in ps : q < r}} \ {0}

\* The frames behind the pages ps, which pmm_free_frame gets.
Released(ps) == {GetPhysical(p) : p \in ps} \ {0}

-----------------------------------------------------------------------------
(* Regions.                                                                *)

PageAt(base, k) == (base + k) % NumPages
RegionEnd(r) == PageAt(r.base, r.size)
RegionPages(r) == {PageAt(r.base, k) : k \in 0 .. r.size - 1}
Region(base, size, type) == [base |-> base, size |-> size, type |-> type]

\* Mutant: new regions go to the front of the list.
InsertFront(list, r) == <<r>> \o list

\* insert_region: before a first region with a larger base, else behind the
\* first and those after it that have a smaller base.
InsertRegion(list, r) ==
  IF list = <<>> \/ r.base < list[1].base THEN <<r>> \o list
  ELSE LET stops == {i \in 2 .. Len(list) : list[i].base >= r.base}
           at == IF stops = {} THEN Len(list) + 1 ELSE Min(stops)
       IN  InsertAt(list, at, r)

\* register_existing_region, with a region from a pool that is not yet empty.
RegisterExisting(list, base, size, type) == InsertRegion(list, Region(base, size, type))

\* remove_region.
RemoveRegion(list, at) == RemoveAt(list, at)

\* The regions in which vmm_find_region finds a page; it returns the first.
FindRegion(list, p) == {i \in DOMAIN list : p >= list[i].base /\ p < RegionEnd(list[i])}

\* Mutant: only a range that starts within a region overlaps it.
OverlapsStart(list, base, size) ==
  \E i \in DOMAIN list : base >= list[i].base /\ base < RegionEnd(list[i])

\* The overlap check of vmm_map_region, in wrapping arithmetic.
Overlaps(list, base, size) ==
  \E i \in DOMAIN list :
    base < RegionEnd(list[i]) /\ PageAt(base, size) > list[i].base

\* vmm_find_free_region: the candidate after the first i regions of the list,
\* and the first one that leaves room before the next region.
FindFreeRegion(list, size, hint) ==
  LET candidate[i \in 0 .. Len(list)] ==
        IF i = 0 THEN hint
        ELSE IF candidate[i-1] >= list[i].base /\ candidate[i-1] < RegionEnd(list[i])
             THEN RegionEnd(list[i]) ELSE candidate[i-1]
      limit(i) == IF i < Len(list) THEN list[i+1].base ELSE NumPages - 1
      fits == {i \in 1 .. Len(list) : PageAt(candidate[i], size) <= limit(i)}
  IN  IF fits = {} THEN 0 ELSE candidate[Min(fits)]

-----------------------------------------------------------------------------
(* Boot.                                                                   *)

Init ==
  /\ phase = "reset"
  /\ free = Ram
  /\ pd = [i \in PdIndices |-> 0]
  /\ table = [f \in Frames |-> EmptyTable]
  /\ dirs = [s \in Spaces |-> [i \in PdIndices |-> 0]]
  /\ dirFrame = [s \in Spaces |-> 0]
  /\ regions = [s \in AllSpaces |-> <<>>]
  /\ pool = 0
  /\ cr3 = Kernel
  /\ heapTop = 0
  /\ call = NoCall
  /\ stranded = {}
  /\ allowed \in Calls

\* paging_init: the static tables, in the kernel image, map the first frames at
\* KERNEL_VIRTUAL_BASE.
PagingInit ==
  /\ phase = "reset"
  /\ LET tables == LinearFrames \div PtEntries
     IN  /\ pd' = [i \in PdIndices |->
                    IF i - PdOf(KernelBase) \in 0 .. tables - 1
                    THEN KernelFrame + (i - PdOf(KernelBase)) ELSE 0]
         /\ table' = [f \in Frames |->
                       IF f - KernelFrame \in 0 .. tables - 1
                       THEN [i \in PtIndices |-> (f - KernelFrame) * PtEntries + i]
                       ELSE EmptyTable]
  /\ phase' = "paging"
  /\ UNCHANGED <<free, spaceVars, heapTop, call, stranded>>

\* The pages the call in progress has mapped.
MappedSoFar == {PageAt(call.base, k) : k \in 0 .. call.at - 1}

\* kheap_init is about to map the first pages of the heap.
KheapInit ==
  /\ phase = "paging"
  /\ phase' = "heap"
  /\ call' = [op |-> "heap", space |-> Kernel, base |-> HeapBase, size |-> InitialHeap,
              at |-> 0]
  /\ UNCHANGED <<free, pd, table, spaceVars, heapTop, stranded>>

\* heap_expand is about to map n pages more.
HeapStart(n) ==
  /\ phase = "ready" /\ call = NoCall /\ "heap" \in allowed
  /\ heapTop + n <= HeapPages
  /\ call' = [op |-> "heap", space |-> Kernel, base |-> HeapBase + heapTop, size |-> n,
              at |-> 0]
  /\ UNCHANGED <<phase, free, pd, table, spaceVars, heapTop, stranded>>

\* One page of either: a frame and its mapping.  If there is no frame for the
\* page table nobody notices.
HeapStep ==
  /\ phase \in {"heap", "ready"} /\ call.op = "heap" /\ call.at < call.size /\ free # {}
  /\ LET p == PageAt(call.base, call.at)
         f == Min(free)
         r == MapPage(p, f, free \ {f})
     IN  /\ phase' = IF r.seen = "ok" THEN phase ELSE r.seen
         /\ pd' = r.pd /\ table' = r.table /\ free' = r.free
         /\ stranded' = IF Walk(r.pd, r.table, p) = f THEN stranded ELSE stranded \cup {f}
  /\ call' = [call EXCEPT !.at = @ + 1]
  /\ UNCHANGED <<spaceVars, heapTop>>

\* Every page is mapped and heap_end moves.
HeapEnd ==
  /\ phase \in {"heap", "ready"} /\ call.op = "heap" /\ call.at = call.size
  /\ heapTop' = heapTop + call.size
  /\ call' = NoCall
  /\ UNCHANGED <<phase, free, pd, table, spaceVars, stranded>>

\* There is no frame for the next page.  heap_end stays; the pages mapped so far
\* stay mapped as well, until the next expansion maps them again.
HeapOutOfMemory ==
  /\ phase \in {"heap", "ready"} /\ call.op = "heap" /\ call.at < call.size /\ free = {}
  /\ stranded' = stranded \cup Released(MappedSoFar)
  /\ call' = NoCall
  /\ UNCHANGED <<phase, free, pd, table, spaceVars, heapTop>>

\* vmm_init registers what is mapped already: the first megabyte, the kernel,
\* the rest up to the heap, and the heap.
VmmInit ==
  /\ phase = "heap" /\ call = NoCall
  /\ LET low    == RegisterExisting(<<>>, KernelBase + 1, KernelFrame - 1, Mmio)
         kernel == RegisterExisting(low, KernelBase + KernelFrame, KernelEnd - KernelFrame,
                                    KernelCode)
         rest   == IF KernelEnd < HeapFrame
                   THEN RegisterExisting(kernel, KernelBase + KernelEnd,
                                         HeapFrame - KernelEnd, IdentityMap)
                   ELSE kernel
     IN  regions' = [regions EXCEPT ![Kernel] =
                       RegisterExisting(rest, HeapBase, HeapPages, KernelHeap)]
  /\ pool' = Len(regions'[Kernel])
  /\ phase' = "ready"
  /\ UNCHANGED <<free, pd, table, dirs, dirFrame, cr3, heapTop, call, stranded>>

-----------------------------------------------------------------------------
(* The calls.                                                              *)

Idle == phase = "ready" /\ call = NoCall

\* vmm_map_region passes its checks; otherwise it returns -1 and changes nothing.
MapStart(s, base, size) ==
  /\ Idle /\ "map" \in allowed /\ s \in Live
  /\ ~Overlaps(regions[s], base, size)
  /\ call' = [op |-> "map", space |-> s, base |-> base, size |-> size, at |-> 0]
  /\ UNCHANGED <<phase, free, pd, table, spaceVars, heapTop, stranded>>

\* A failed vmm_map_region takes back what it has mapped and returns -1.
Rollback ==
  /\ phase' = IF SeesTables(MappedSoFar) = "ok" THEN phase ELSE SeesTables(MappedSoFar)
  /\ free' = free \cup Released(MappedSoFar)
  /\ table' = Cleared(MappedSoFar)
  /\ call' = NoCall
  /\ UNCHANGED <<pd, spaceVars, heapTop, stranded>>

\* One page of vmm_map_region: a frame, its mapping, and zeros written to the
\* page through the current directory.
MapStep ==
  /\ phase = "ready" /\ call.op = "map" /\ call.at < call.size /\ free # {}
  /\ LET p == PageAt(call.base, call.at)
         f == Min(free)
         r == MapPage(p, f, free \ {f})
         dir == IF cr3 = Kernel THEN r.pd ELSE dirs[cr3]
         zeroed == Outcome(Walk(dir, r.table, p), f)
     IN  /\ phase' = IF r.seen # "ok" THEN r.seen
                     ELSE IF zeroed # "ok" THEN zeroed ELSE phase
         /\ pd' = r.pd /\ table' = r.table /\ free' = r.free
  /\ call' = [call EXCEPT !.at = @ + 1]
  /\ UNCHANGED <<spaceVars, heapTop, stranded>>

MapOutOfMemory ==
  /\ phase = "ready" /\ call.op = "map" /\ call.at < call.size /\ free = {}
  /\ Rollback

\* alloc_region has no region left.
PoolFull == pool >= MaxRegions

\* vmm_map_region without a region slot.
MapOutOfRegions ==
  /\ phase = "ready" /\ call.op = "map" /\ call.at = call.size
  /\ PoolFull
  /\ Rollback

MapEnd ==
  /\ phase = "ready" /\ call.op = "map" /\ call.at = call.size
  /\ ~PoolFull
  /\ pool' = pool + 1
  /\ regions' = [regions EXCEPT ![call.space] =
                   InsertRegion(@, Region(call.base, call.size, UserCode))]
  /\ call' = NoCall
  /\ UNCHANGED <<phase, free, pd, table, dirs, dirFrame, cr3, heapTop, stranded>>

\* Mutant: the types are compared with >= and the identity map counts as a user's.
UnmapRegionFrom(s, base) ==
  LET at == Min({i \in DOMAIN regions[s] : regions[s][i].base = base})
      ps == RegionPages(regions[s][at])
  IN  /\ Idle /\ "unmap" \in allowed /\ s \in Live
      /\ regions[s][at].type >= IdentityMap
      /\ phase' = IF SeesTables(ps) = "ok" THEN phase ELSE SeesTables(ps)
      /\ free' = free \cup Released(ps)
      /\ table' = Cleared(ps)
      /\ regions' = [regions EXCEPT ![s] = RemoveRegion(@, at)]
      /\ UNCHANGED <<pd, dirs, dirFrame, pool, cr3, heapTop, call, stranded>>

\* vmm_unmap_region of the first region with that base, unless its type is a
\* kernel type.
UnmapRegion(s, base) ==
  LET at == Min({i \in DOMAIN regions[s] : regions[s][i].base = base})
      ps == RegionPages(regions[s][at])
  IN  /\ Idle /\ "unmap" \in allowed /\ s \in Live
      /\ regions[s][at].type > IdentityMap
      /\ phase' = IF SeesTables(ps) = "ok" THEN phase ELSE SeesTables(ps)
      /\ free' = free \cup Released(ps)
      /\ table' = Cleared(ps)
      /\ regions' = [regions EXCEPT ![s] = RemoveRegion(@, at)]
      /\ UNCHANGED <<pd, dirs, dirFrame, pool, cr3, heapTop, call, stranded>>

\* The directory paging_create_directory fills in.
KernelEntries == [i \in PdIndices |-> IF i >= PdOf(KernelBase) THEN pd[i] ELSE 0]

\* vmm_create_address_space: the kernel's directory entries and regions are
\* copied, the latter as far as the pool goes.  Without memory it returns NULL.
CreateSpace(s) ==
  /\ Idle /\ "create" \in allowed /\ dirFrame[s] = 0 /\ free # {}
  /\ LET f == Min(free)
         copied == Min({Len(regions[Kernel]), MaxRegions - pool})
     IN  /\ phase' = IF Sees(f) = "ok" THEN phase ELSE Sees(f)
         /\ free' = free \ {f}
         /\ dirFrame' = [dirFrame EXCEPT ![s] = f]
         /\ dirs' = [dirs EXCEPT ![s] = KernelEntries]
         /\ regions' = [regions EXCEPT ![s] = SubSeq(regions[Kernel], 1, copied)]
         /\ pool' = pool + copied
  /\ UNCHANGED <<pd, table, cr3, heapTop, call, stranded>>

\* The frames vmm_destroy_address_space gives back.
DestroyedFrames(s, ps) == Released(ps) \cup {dirFrame[s]}

\* vmm_destroy_address_space of a space that is not the current one.
DestroySpace(s) ==
  LET ps == UNION {RegionPages(regions[s][i]) :
                     i \in {j \in DOMAIN regions[s] : regions[s][j].type >= UserCode}}
  IN  /\ Idle /\ "destroy" \in allowed /\ dirFrame[s] # 0 /\ cr3 # s
      /\ phase' = IF SeesTables(ps) = "ok" THEN phase ELSE SeesTables(ps)
      /\ free' = free \cup DestroyedFrames(s, ps)
      /\ table' = Cleared(ps)
      /\ dirFrame' = [dirFrame EXCEPT ![s] = 0]
      /\ dirs' = [dirs EXCEPT ![s] = [i \in PdIndices |-> 0]]
      /\ regions' = [regions EXCEPT ![s] = <<>>]
      /\ UNCHANGED <<pd, pool, cr3, heapTop, call, stranded>>

\* vmm_switch_address_space.
SwitchSpace(s) ==
  /\ Idle /\ "switch" \in allowed /\ s \in Live /\ s # cr3
  /\ cr3' = s
  /\ UNCHANGED <<phase, free, pd, table, dirs, dirFrame, regions, pool, heapTop, call, stranded>>

Next ==
  /\ \/ PagingInit \/ KheapInit \/ VmmInit
     \/ \E n \in 1 .. HeapPages : HeapStart(n)
     \/ HeapStep \/ HeapEnd \/ HeapOutOfMemory
     \/ \E s \in MapSpaces, r \in Requests : MapStart(s, r[1], r[2])
     \/ MapStep \/ MapOutOfMemory \/ MapOutOfRegions \/ MapEnd
     \/ \E s \in AllSpaces : \E i \in DOMAIN regions[s] : UnmapRegion(s, regions[s][i].base)
     \/ \E s \in Spaces : CreateSpace(s) \/ DestroySpace(s)
     \/ \E s \in AllSpaces : SwitchSpace(s)
  /\ UNCHANGED allowed

Spec == Init /\ [][Next]_vars

-----------------------------------------------------------------------------
(* Properties.                                                             *)

\* The types of the variables; the pool is never overdrawn.
TypeOK ==
  /\ phase \in {"reset", "paging", "heap", "ready", "halted", "stray"}
  /\ free \subseteq Frames
  /\ pd \in [PdIndices -> Frames]
  /\ table \in [Frames -> [PtIndices -> Frames]]
  /\ dirs \in [Spaces -> [PdIndices -> Frames]]
  /\ dirFrame \in [Spaces -> Frames]
  /\ \A s \in AllSpaces : \A i \in DOMAIN regions[s] :
       regions[s][i] \in [base : Pages, size : Nat, type : 0 .. Mmio]
  /\ pool \in 0 .. MaxRegions
  /\ cr3 \in Live
  /\ heapTop \in 0 .. HeapPages
  /\ call.at \in 0 .. call.size
  /\ stranded \subseteq Frames

Running == phase \in {"paging", "heap", "ready"}

HeapRange == HeapBase .. HeapBase + heapTop - 1
DynamicTables == {pd[i] : i \in PdIndices} \ (0 .. KernelEnd - 1)
Directories == {dirFrame[s] : s \in Spaces} \ {0}

\* The pages that regions mapped by callers and the call in progress have.
MappedPages ==
  MappedSoFar \cup
  UNION {UNION {RegionPages(regions[s][i]) :
                  i \in {j \in DOMAIN regions[s] : regions[s][j].type = UserCode}} : s \in Live}

\* A frame has one use: whatever calls succeed or are taken back, a frame behind
\* a page of a region or of the heap is behind no other such page, and is
\* neither free nor a page table nor a page directory.
FrameHasOneUse ==
  /\ TypeOK
  /\ Running =>
       LET ps == MappedPages \cup HeapRange
       IN  /\ \A p, q \in ps : p # q /\ GetPhysical(p) # 0 => GetPhysical(p) # GetPhysical(q)
           /\ Released(ps) \cap (free \cup DynamicTables \cup Directories) = {}
           /\ free \cap (DynamicTables \cup Directories) = {}
           /\ DynamicTables \cap Directories = {}

\* Between calls no frame is lost: each frame the machine started with is free,
\* behind a page, a page table or a page directory, or was taken by a heap_expand
\* that failed.
NoFrameLost ==
  Idle => Ram \subseteq free \cup Released(MappedPages \cup HeapRange)
                        \cup DynamicTables \cup Directories \cup stranded

\* Between calls the region list of the kernel and the page tables agree: every
\* page of a region that was mapped is present, and a page that is present lies
\* in such a region, in the heap, where a heap_expand that failed has left it, or in
\* the part that paging_init mapped.  (vmm_destroy_address_space unmaps regions that
\* its space has copied from the kernel's list: the property is about runs without it.)
RegionsAreMapped ==
  Idle /\ "destroy" \notin allowed =>
    /\ \A p \in MappedPages : IsMapped(p)
    /\ \A p \in Pages \ (KernelBase .. KernelBase + LinearFrames - 1) :
         IsMapped(p) => \/ p \in MappedPages \cup HeapRange
                        \/ /\ p \in HeapBase + heapTop .. HeapBase + HeapPages - 1
                           /\ GetPhysical(p) \in stranded

\* The region lists stay sorted and their regions disjoint.
RegionsOrdered ==
  \A s \in Live : \A i \in 1 .. Len(regions[s]) - 1 :
    regions[s][i].base + regions[s][i].size <= regions[s][i+1].base

\* How far the kernel is the same in every space: through each directory a page
\* of the kernel half is translated as the kernel's own directory does it, or,
\* above the 16 MB of paging_init, not at all.  Directories are copies that nobody
\* brings up to date: a page table that is made later is missing from them, but
\* however long they stay and whatever is unmapped, no copy leads to another frame.
StaleOnlyMissing ==
  Running =>
    \A s \in Live, p \in KernelBase .. NumPages - 1 :
      LET seen == Walk(DirectoryOf(s), table, p)
      IN  seen = GetPhysical(p) \/ (seen = 0 /\ p >= KernelBase + LinearFrames)

\* The kernel faults for three causes only: the last frame was taken, so that
\* paging_map_page left its page unmapped without saying so; the current directory
\* lacks a page table that the kernel's has; or vmm_unmap_region or
\* vmm_destroy_address_space has unmapped the first megabyte, whose region has a
\* type above the kernel's.
FaultsWithCause ==
  phase = "halted" =>
    \/ free = {}
    \/ \E i \in PdIndices : DirectoryOf(cr3)[i] = 0 /\ pd[i] # 0
    \/ \E p \in KernelBase + 1 .. KernelBase + KernelFrame - 1 : ~IsMapped(p)

\* The heap lies above the linear map, and PHYS_TO_VIRT works for the frames the
\* linear map covers.
LinearMapWorks == phase # "stray"

\* What vmm_find_free_region returns is in no region that vmm_find_region finds: the
\* gap search relies on the list being sorted.  (The range may still run into a region behind it.)
FoundStartIsFree ==
  Idle => \A size \in 1 .. 3 :
    LET found == FindFreeRegion(regions[Kernel], size, DefaultHint)
    IN  found # 0 => FindRegion(regions[Kernel], found) = {}
=============================================================================
