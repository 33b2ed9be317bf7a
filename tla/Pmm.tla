-------------------------------- MODULE Pmm --------------------------------
(***************************************************************************)
(* The physical frame allocator (pmm.c): a bitmap of page frames filled    *)
(* from the Multiboot memory map, and the two operations on it.            *)
(*                                                                         *)
(* Sizes are parameters: the page size, the frames per bitmap byte, the    *)
(* number of addresses of a 32-bit word and MAX_FRAMES are small in the    *)
(* instances and keep the proportions of the code.                         *)
(***************************************************************************)
EXTENDS Integers, FiniteSets, Sequences

CONSTANTS
  PageSize,      \* PAGE_SIZE
  Word,          \* 2^32: the values of a uint32_t
  MaxFrames,     \* MAX_FRAMES
  ByteBits,      \* the bits of a bitmap byte (8)
  LowMemory,     \* 0x100000: addresses below it belong to the BIOS
  KernelEnd,     \* physical end of the kernel, rounded up to a page
  MemMaps        \* the memory maps a boot loader may pass

ASSUME SizesAssumption ==
  /\ PageSize \in Nat \ {0} /\ Word \in Nat \ {0} /\ MaxFrames \in Nat
  /\ ByteBits \in Nat \ {0} /\ LowMemory \in Nat /\ KernelEnd \in Nat

Entries == [available : BOOLEAN, base : Nat, length : Nat]

ASSUME MemMapsAssumption == MemMaps \subseteq Seq(Entries)

\* Mutant: the bitmap is one byte short.
BytesOneShort == MaxFrames \div ByteBits - 1

\* The frames frame_bitmap has a bit for: MAX_FRAMES / 8 bytes of 8.  MAX_FRAMES
\* is 32786 and no multiple of 8, so the last two frames have none.
Bytes   == MaxFrames \div ByteBits
Tracked == 0 .. (Bytes * ByteBits - 1)

VARIABLES
  mmap,          \* the memory map
  parsed,        \* how many of its entries pmm_init has parsed
  ready,         \* pmm_init has returned
  used,          \* the frames whose bit is set
  totalFrames,   \* total_frames
  usedFrames,    \* used_frames
  held,          \* the frames callers got from pmm_alloc_frame and still have
  failed,        \* the last operation was a pmm_alloc_frame that returned NULL
  beyond,        \* the frames pmm_init freed in memory after frame_bitmap
  strayed        \* bitmap_first_free read memory after frame_bitmap

vars == <<mmap, parsed, ready, used, totalFrames, usedFrames, held, failed,
          beyond, strayed>>

\* The types of the variables.
TypeOK ==
  /\ mmap \in Seq(Entries)
  /\ parsed \in 0 .. Len(mmap)
  /\ ready \in BOOLEAN
  /\ used \subseteq Tracked
  /\ totalFrames \in Nat
  /\ usedFrames \in Nat
  /\ held \subseteq Tracked
  /\ failed \in BOOLEAN
  /\ beyond \subseteq 0 .. (MaxFrames - 1)
  /\ strayed \in BOOLEAN

-----------------------------------------------------------------------------

\* What happens once the search has left the bitmap is not modelled.
Usable == ready /\ ~strayed

\* The value of an expression of type uint32_t.
U32(n) == n % Word

\* The first frame of an entry, its base rounded up to a page.
StartFrame(e) == U32(U32(e.base) + PageSize - 1) \div PageSize

\* Mutant: the end of an entry is rounded up.
EndFrameRoundedUp(e) ==
  U32(U32(e.base) + U32(e.length) + PageSize - 1) \div PageSize

\* The frame after its last, its end rounded down.
EndFrame(e) == U32(U32(e.base) + U32(e.length)) \div PageSize

\* Frames below 1MB and those of the kernel are never offered.
Offers(f) == f * PageSize >= LowMemory /\ f * PageSize >= KernelEnd

\* The frames pmm_init marks free for an entry.
Freed(e) ==
  IF e.available
  THEN {f \in StartFrame(e) .. (EndFrame(e) - 1) : f < MaxFrames /\ Offers(f)}
  ELSE {}

\* One round of pmm_init's loop.  A frame without a bit is counted too; its bit
\* would be in the byte after frame_bitmap, which the build leaves as padding
\* (4098 bytes before a word or the next section).
ParseEntry ==
  /\ ~ready /\ parsed < Len(mmap)
  /\ LET frames == Freed(mmap[parsed + 1])
     IN  /\ used' = used \ frames
         /\ totalFrames' = totalFrames + Cardinality(frames)
         /\ beyond' = beyond \cup (frames \ Tracked)
  /\ parsed' = parsed + 1
  /\ UNCHANGED <<mmap, ready, usedFrames, held, failed, strayed>>

\* The map is parsed, or there is none and every frame stays used.
InitDone ==
  /\ ~ready /\ parsed = Len(mmap)
  /\ ready' = TRUE
  /\ UNCHANGED <<mmap, parsed, used, totalFrames, usedFrames, held, failed, beyond, strayed>>

\* The frames bitmap_first_free looks at: the first total_frames / 8 bytes.
Scanned == 0 .. ((totalFrames \div ByteBits) * ByteBits - 1)

\* Mutant: a byte is searched although it is full.
FirstFreeIgnoringBits ==
  {f \in Scanned \cap Tracked :
     Offers(f) /\ \A g \in Scanned \cap Tracked : Offers(g) => f <= g}

\* The first free frame of the scan, if it finds any.
FirstFree ==
  {f \in Scanned \cap Tracked :
     f \notin used /\ \A g \in Scanned \cap Tracked : g \notin used => f <= g}

\* pmm_alloc_frame finds a frame.
AllocFrame ==
  /\ Usable
  /\ \E f \in FirstFree :
       /\ used' = used \cup {f}
       /\ held' = held \cup {f}
  /\ usedFrames' = usedFrames + 1
  /\ failed' = FALSE
  /\ UNCHANGED <<mmap, parsed, ready, totalFrames, beyond, strayed>>

\* pmm_alloc_frame finds none and returns NULL; when total_frames exceeds what
\* frame_bitmap tracks, the scan reads past its end on the way.
AllocFails ==
  /\ Usable /\ FirstFree = {}
  /\ failed' = TRUE
  /\ strayed' = (strayed \/ ~ Scanned \subseteq Tracked)
  /\ UNCHANGED <<mmap, parsed, ready, used, totalFrames, usedFrames, held, beyond>>

\* Mutant: the frame is counted as free without its bit being cleared.
FreeFrameKeepingBit(f) ==
  /\ Usable /\ f \in held
  /\ held' = held \ {f}
  /\ usedFrames' = usedFrames - 1
  /\ failed' = FALSE
  /\ UNCHANGED <<mmap, parsed, ready, used, totalFrames, beyond, strayed>>

\* pmm_free_frame of a frame its caller holds.
FreeFrame(f) ==
  /\ Usable /\ f \in held
  /\ IF f < MaxFrames /\ f \in used
     THEN used' = used \ {f} /\ usedFrames' = usedFrames - 1
     ELSE UNCHANGED <<used, usedFrames>>
  /\ held' = held \ {f}
  /\ failed' = FALSE
  /\ UNCHANGED <<mmap, parsed, ready, totalFrames, beyond, strayed>>

-----------------------------------------------------------------------------

\* pmm_init has marked every frame used.
Init ==
  /\ mmap \in MemMaps
  /\ parsed = 0
  /\ ready = FALSE
  /\ used = Tracked
  /\ totalFrames = 0 /\ usedFrames = 0
  /\ held = {}
  /\ failed = FALSE
  /\ beyond = {}
  /\ strayed = FALSE

Next ==
  \/ ParseEntry \/ InitDone
  \/ AllocFrame \/ AllocFails
  \/ \E f \in held : FreeFrame(f)

Spec == Init /\ [][Next]_vars

-----------------------------------------------------------------------------
(* Properties.                                                             *)

\* No frame is handed out twice: whenever pmm_alloc_frame succeeds, whatever
\* was allocated and freed before, its caller gets a frame nobody else has.
NeverHandedOutTwice ==
  [][usedFrames' > usedFrames => Cardinality(held') = Cardinality(held) + 1]_vars

Promise == INSTANCE FrameAllocator WITH
  Allowed <- {f \in Tracked : Offers(f)},
  open <- ~ready, avail <- Tracked \ used, held <- held

\* The bitmap allocator is a frame allocator (FrameAllocator): the frames whose
\* bit is clear are the ones in circulation.  No frame is handed out twice, none
\* is lost when it is given back, and none is added once pmm_init has returned.
ImplementsAllocator == Promise!Spec

\* Neither BIOS memory nor the kernel's own image is ever handed out; with it,
\* no successful allocation returns frame 0, whose address is NULL.
KernelIsSafe == \A f \in held : f * PageSize >= LowMemory /\ f * PageSize >= KernelEnd

\* Only memory that some entry of the memory map calls available, over the
\* whole length of the frame, is handed out: reserved regions and the ragged
\* ends of available ones stay out of circulation.
OnlyAvailableMemory ==
  \A f \in held :
    \E i \in 1 .. Len(mmap) :
      /\ mmap[i].available
      /\ mmap[i].base <= f * PageSize
      /\ (f + 1) * PageSize <= mmap[i].base + mmap[i].length

\* total_frames - used_frames, what pmm_get_free_memory reports, is the number of
\* frames that can still be handed out, plus those of the last MAX_FRAMES % 8
\* frames that the machine has: they are counted and have no bit.
FreeCountExact ==
  /\ usedFrames = Cardinality(held)
  /\ totalFrames - usedFrames = Cardinality(Tracked \ used) + Cardinality(beyond)

\* "returns physical addr or NULL if out of memory" (pmm.h): NULL means that
\* no frame is free.
NullMeansOutOfMemory == failed => Tracked \subseteq used

\* How far accesses leave frame_bitmap: pmm_init only for the last MAX_FRAMES % 8
\* frames (32784 and 32785 in pmm.c, on a machine with more than 128 MB), which
\* is the one byte after the array; the search of bitmap_first_free never does,
\* although total_frames, its bound, counts those frames too.
BitmapInBounds ==
  /\ \A f \in beyond : MaxFrames - (MaxFrames % ByteBits) <= f /\ f < MaxFrames
  /\ ~strayed

-----------------------------------------------------------------------------

\* The inductive invariant behind NeverHandedOutTwice and KernelIsSafe: what is
\* held is marked, and what is free or held was offered by pmm_init.
PmmInv ==
  /\ TypeOK
  /\ ~ready => held = {}
  /\ held \subseteq used
  /\ \A f \in Tracked : f \notin used => Offers(f)
  /\ KernelIsSafe
  /\ usedFrames = Cardinality(held)
=============================================================================
