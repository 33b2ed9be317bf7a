----------------------------- MODULE PmmProofs -----------------------------
(***************************************************************************)
(* Proofs about Pmm for every memory map, every MAX_FRAMES and every       *)
(* position of the kernel.                                                 *)
(***************************************************************************)
EXTENDS Pmm, FiniteSetTheorems, TLAPS

\* The bitmap is finite, and so is every set of its frames.
LEMMA TrackedFinite ==
  ASSUME NEW S \in SUBSET Tracked
  PROVE  IsFiniteSet(S) /\ Cardinality(S) \in Nat
<1>1. Bytes * ByteBits - 1 \in Int
  <2>1. MaxFrames \in Nat /\ ByteBits \in Nat \ {0}
    BY SizesAssumption
  <2>2. Bytes \in Int
    BY <2>1 DEF Bytes
  <2> QED
    BY <2>1, <2>2
<1>2. IsFiniteSet(Tracked)
  BY <1>1, FS_Interval DEF Tracked
<1> QED
  BY <1>2, FS_Subset, FS_CardinalityType

\* A frame that has a bit is below MAX_FRAMES.
LEMMA TrackedBelowMax ==
  ASSUME NEW f \in Tracked
  PROVE  f < MaxFrames
<1>1. MaxFrames \in Nat /\ ByteBits \in Nat \ {0} /\ f \in Nat
  BY SizesAssumption DEF Tracked
<1>2. Bytes * ByteBits <= MaxFrames
  BY <1>1 DEF Bytes
<1>3. Bytes * ByteBits \in Int
  BY <1>1 DEF Bytes
<1> QED
  BY <1>1, <1>2, <1>3 DEF Tracked

\* The frames of one entry of the map are finitely many.
LEMMA FreedFinite ==
  ASSUME NEW e \in Entries
  PROVE  /\ IsFiniteSet(Freed(e)) /\ Cardinality(Freed(e)) \in Nat
         /\ Freed(e) \subseteq 0 .. (MaxFrames - 1)
<1>1. PageSize \in Nat \ {0} /\ Word \in Nat \ {0} /\ e.base \in Nat /\ e.length \in Nat
  BY SizesAssumption DEF Entries
<1>2. U32(e.base) \in Nat /\ U32(e.length) \in Nat
  BY <1>1 DEF U32
<1>3. U32(U32(e.base) + PageSize - 1) \in Nat /\ U32(U32(e.base) + U32(e.length)) \in Nat
  <2>1. U32(e.base) + PageSize - 1 \in Nat /\ U32(e.base) + U32(e.length) \in Nat
    BY <1>1, <1>2
  <2> HIDE DEF U32
  <2>2. \A n \in Nat : U32(n) \in Nat
    BY <1>1 DEF U32
  <2> QED
    BY <2>1, <2>2
<1>4. StartFrame(e) \in Nat /\ EndFrame(e) - 1 \in Int
  BY <1>1, <1>3 DEF StartFrame, EndFrame
<1>5. IsFiniteSet(StartFrame(e) .. (EndFrame(e) - 1))
  BY <1>4, FS_Interval
<1>6. Freed(e) \subseteq StartFrame(e) .. (EndFrame(e) - 1)
  BY DEF Freed
<1>7. Freed(e) \subseteq 0 .. (MaxFrames - 1)
  <2>1. \A f \in Freed(e) : f \in StartFrame(e) .. (EndFrame(e) - 1) /\ f < MaxFrames
    BY DEF Freed
  <2>2. MaxFrames \in Nat
    BY SizesAssumption
  <2> QED
    BY <1>4, <2>1, <2>2
<1> QED
  BY <1>5, <1>6, <1>7, FS_Subset, FS_CardinalityType

\* The initial states satisfy the invariant.
LEMMA PmmInit == Init => PmmInv
<1> SUFFICES ASSUME Init PROVE PmmInv
  OBVIOUS
<1>1. TypeOK
  <2>1. mmap \in Seq(Entries)
    BY MemMapsAssumption DEF Init
  <2>2. parsed \in 0 .. Len(mmap)
    BY <2>1 DEF Init
  <2> QED
    BY <2>1, <2>2 DEF Init, TypeOK
<1> QED
  BY <1>1, FS_EmptySet DEF Init, PmmInv, KernelIsSafe

\* Every step keeps it.
LEMMA PmmStep == PmmInv /\ [Next]_vars => PmmInv'
<1> SUFFICES ASSUME PmmInv, [Next]_vars PROVE PmmInv'
  OBVIOUS
<1> USE DEF PmmInv
<1>1. IsFiniteSet(held) /\ Cardinality(held) \in Nat
  BY TrackedFinite DEF TypeOK
<1>2. CASE ParseEntry
  <2>1. mmap[parsed + 1] \in Entries /\ parsed + 1 \in 0 .. Len(mmap)
    BY <1>2 DEF ParseEntry, TypeOK
  <2>2. /\ Cardinality(Freed(mmap[parsed + 1])) \in Nat
        /\ Freed(mmap[parsed + 1]) \subseteq 0 .. (MaxFrames - 1)
    BY <2>1, FreedFinite
  <2>3. TypeOK'
    <3>1. beyond' \subseteq 0 .. (MaxFrames - 1) /\ used' \subseteq Tracked
      BY <1>2, <2>2 DEF ParseEntry, TypeOK
    <3>2. /\ mmap' \in Seq(Entries) /\ parsed' \in 0 .. Len(mmap')
          /\ totalFrames' \in Nat /\ usedFrames' \in Nat /\ held' \subseteq Tracked
      BY <1>2, <2>1, <2>2 DEF ParseEntry, TypeOK
    <3>3. ready' \in BOOLEAN /\ failed' \in BOOLEAN /\ strayed' \in BOOLEAN
      BY <1>2 DEF ParseEntry, TypeOK
    <3> QED
      BY <3>1, <3>2, <3>3 DEF TypeOK
  <2>4. \A f \in Tracked : f \notin used' => Offers(f)
    BY <1>2 DEF ParseEntry, Freed
  <2>5. held = {} /\ held' = {} /\ usedFrames' = usedFrames
    BY <1>2 DEF ParseEntry
  <2> QED
    BY <2>3, <2>4, <2>5 DEF KernelIsSafe
<1>3. CASE InitDone
  BY <1>3 DEF InitDone, TypeOK, KernelIsSafe
<1>4. CASE AllocFrame
  <2>1. PICK f \in FirstFree : used' = used \cup {f} /\ held' = held \cup {f}
    BY <1>4 DEF AllocFrame
  <2>2. f \in Tracked /\ f \notin used /\ f \notin held
    BY <2>1 DEF FirstFree
  <2>3. Cardinality(held') = Cardinality(held) + 1
    BY <1>1, <2>1, <2>2, FS_AddElement
  <2>4. /\ usedFrames' = usedFrames + 1 /\ failed' = FALSE
        /\ UNCHANGED <<mmap, parsed, ready, totalFrames, beyond, strayed>>
    BY <1>4 DEF AllocFrame
  <2>5. used' \subseteq Tracked /\ held' \subseteq Tracked
    BY <2>1, <2>2 DEF TypeOK
  <2>6. TypeOK'
    <3>1. usedFrames' \in Nat
      BY <2>4 DEF TypeOK
    <3>2. failed' \in BOOLEAN /\ ready' \in BOOLEAN /\ strayed' \in BOOLEAN
      BY <2>4 DEF TypeOK
    <3>3. /\ mmap' \in Seq(Entries) /\ parsed' \in 0 .. Len(mmap')
          /\ totalFrames' \in Nat /\ beyond' \subseteq 0 .. (MaxFrames - 1)
      BY <2>4 DEF TypeOK
    <3> QED
      BY <2>5, <3>1, <3>2, <3>3 DEF TypeOK
  <2>7. KernelIsSafe'
    BY <2>1, <2>2 DEF KernelIsSafe, Offers
  <2>8. ready
    BY <1>4 DEF AllocFrame, Usable
  <2> QED
    BY <2>1, <2>3, <2>4, <2>6, <2>7, <2>8
<1>5. CASE AllocFails
  BY <1>5 DEF AllocFails, TypeOK, KernelIsSafe
<1>6. ASSUME NEW f \in held, FreeFrame(f) PROVE PmmInv'
  <2>1. f \in Tracked /\ f \in used /\ Offers(f)
    BY DEF TypeOK, KernelIsSafe, Offers
  <2>2. Cardinality(held \ {f}) = Cardinality(held) - 1
    BY <1>1, FS_RemoveElement
  <2>3. f < MaxFrames
    BY <2>1, TrackedBelowMax
  <2>4. /\ used' = used \ {f} /\ usedFrames' = usedFrames - 1 /\ held' = held \ {f}
        /\ UNCHANGED <<mmap, parsed, ready, totalFrames, beyond, strayed>> /\ failed' = FALSE
    BY <1>6, <2>1, <2>3 DEF FreeFrame
  <2>5. usedFrames' \in Nat
    <3>1. Cardinality(held \ {f}) \in Nat
      BY TrackedFinite DEF TypeOK
    <3> QED
      BY <2>2, <2>4, <3>1
  <2>6. TypeOK'
    BY <2>4, <2>5 DEF TypeOK
  <2> QED
    BY <2>1, <2>2, <2>4, <2>6 DEF KernelIsSafe
<1>7. CASE UNCHANGED vars
  BY <1>7 DEF vars, TypeOK, KernelIsSafe
<1> QED
  BY <1>2, <1>3, <1>4, <1>5, <1>6, <1>7 DEF Next

\* The inductive invariant, and with it type correctness, in every state: in
\* particular used_frames never underflows.
THEOREM PmmInvariant == Spec => []PmmInv
BY PmmInit, PmmStep, PTL DEF Spec

\* The frames of the BIOS and of the kernel are never handed out, for every
\* memory map a boot loader may pass, overlapping or truncated ones included.
THEOREM KernelIsSafeHolds == Spec => []KernelIsSafe
<1>1. PmmInv => KernelIsSafe
  BY DEF PmmInv
<1> QED
  BY PmmInvariant, <1>1, PTL

\* pmm_alloc_frame never hands out a frame that somebody has.
THEOREM NeverHandedOutTwiceHolds == Spec => NeverHandedOutTwice
<1> DEFINE Once == usedFrames' > usedFrames => Cardinality(held') = Cardinality(held) + 1
<1>1. ASSUME PmmInv, PmmInv', [Next]_vars PROVE [Once]_vars
  <2>1. SUFFICES ASSUME Next, usedFrames' > usedFrames
                 PROVE  Cardinality(held') = Cardinality(held) + 1
    BY <1>1
  <2>2. usedFrames \in Nat /\ usedFrames' \in Nat
    BY <1>1 DEF PmmInv, TypeOK
  <2>3. AllocFrame
    BY <2>1, <2>2 DEF Next, ParseEntry, InitDone, AllocFails, FreeFrame
  <2> QED
    BY <1>1, <2>3 DEF AllocFrame, PmmInv
<1> QED
  BY PmmInvariant, <1>1, PTL DEF Spec, NeverHandedOutTwice

\* Every step of the bitmap allocator is a step of the abstract one, or none.
LEMMA PromiseStep ==
  PmmInv /\ [Next]_vars => [Promise!Next]_<<~ready, Tracked \ used, held>>
<1> SUFFICES ASSUME PmmInv, [Next]_vars
             PROVE  [Promise!Next]_<<~ready, Tracked \ used, held>>
  OBVIOUS
<1> USE DEF PmmInv
<1>1. CASE ParseEntry
  <2> DEFINE S == Freed(mmap[parsed + 1]) \cap Tracked
  <2>1. S \subseteq {f \in Tracked : Offers(f)}
    BY DEF Freed
  <2>2. Tracked \ used' = (Tracked \ used) \cup S
    BY <1>1 DEF ParseEntry, TypeOK
  <2>3. ~ready /\ ready' = ready /\ held' = held
    BY <1>1 DEF ParseEntry
  <2>4. Promise!Provide
    BY <2>1, <2>2, <2>3 DEF Promise!Provide
  <2> QED
    BY <2>4 DEF Promise!Next
<1>2. CASE InitDone
  BY <1>2 DEF InitDone, Promise!Next, Promise!Close
<1>3. CASE AllocFrame
  <2>1. PICK f \in FirstFree : used' = used \cup {f} /\ held' = held \cup {f}
    BY <1>3 DEF AllocFrame
  <2>2. f \in Tracked \ used
    BY <2>1 DEF FirstFree
  <2>3. Tracked \ used' = (Tracked \ used) \ {f}
    BY <2>1, <2>2
  <2>4. ready /\ ready' = ready
    BY <1>3 DEF AllocFrame, Usable
  <2>5. Promise!Alloc(f)
    BY <2>1, <2>2, <2>3, <2>4 DEF Promise!Alloc
  <2> QED
    BY <2>2, <2>5 DEF Promise!Next
<1>4. CASE AllocFails
  BY <1>4 DEF AllocFails
<1>5. ASSUME NEW f \in held, FreeFrame(f) PROVE Promise!Next
  <2>1. f \in Tracked /\ f \in used
    BY DEF TypeOK
  <2>2. f < MaxFrames
    BY <2>1, TrackedBelowMax
  <2>3. used' = used \ {f} /\ held' = held \ {f} /\ ready /\ ready' = ready
    BY <1>5, <2>1, <2>2 DEF FreeFrame, Usable
  <2>4. Tracked \ used' = (Tracked \ used) \cup {f}
    BY <2>1, <2>3
  <2>5. Promise!Free(f)
    BY <2>3, <2>4 DEF Promise!Free
  <2> QED
    BY <2>5 DEF Promise!Next
<1>6. CASE UNCHANGED vars
  BY <1>6 DEF vars
<1> QED
  BY <1>1, <1>2, <1>3, <1>4, <1>5, <1>6 DEF Next

\* pmm.c implements the frame allocator that pmm.h promises, for every memory map
\* and every size of the bitmap.
THEOREM PmmImplementsAllocator == Spec => ImplementsAllocator
<1>1. Init => Promise!Init
  BY DEF Init, Promise!Init
<1> QED
  BY <1>1, PmmInvariant, PromiseStep, PTL DEF Spec, ImplementsAllocator, Promise!Spec

-----------------------------------------------------------------------------
(* The counts and the bounds of the bitmap.                                *)

\* No frame is offered by two entries: pmm_init would count it twice.
MapsDisjoint ==
  \A m \in MemMaps : \A i, j \in 1 .. Len(m) : i # j => Freed(m[i]) \cap Freed(m[j]) = {}

\* The frames below MAX_FRAMES that have no bit.
Bitless == (Bytes * ByteBits) .. (MaxFrames - 1)

\* total_frames counts the frames in circulation and the offered ones that have
\* no bit, those still to be offered are marked, and the search has stayed inside
\* the bitmap.
CountInv ==
  /\ mmap \in MemMaps
  /\ totalFrames = Cardinality(Tracked \ used) + Cardinality(held) + Cardinality(beyond)
  /\ beyond \subseteq Bitless
  /\ \A i \in (parsed + 1) .. Len(mmap) :
       Freed(mmap[i]) \cap Tracked \subseteq used /\ Freed(mmap[i]) \cap beyond = {}
  /\ ready => parsed = Len(mmap)
  /\ ~strayed

\* Fewer than 8 frames have no bit, and they are the last ones.
LEMMA BitlessFew ==
  /\ Bytes \in Nat /\ ByteBits \in Nat \ {0} /\ MaxFrames \in Nat
  /\ Bytes * ByteBits \in Nat /\ Bytes * ByteBits = MaxFrames - (MaxFrames % ByteBits)
  /\ IsFiniteSet(Bitless) /\ Cardinality(Bitless) \in Nat /\ Cardinality(Bitless) < ByteBits
  /\ Cardinality(Tracked) = Bytes * ByteBits
<1>1. MaxFrames \in Nat /\ ByteBits \in Nat \ {0}
  BY SizesAssumption
<1>2. /\ Bytes \in Nat /\ Bytes * ByteBits \in Nat
      /\ Bytes * ByteBits = MaxFrames - (MaxFrames % ByteBits)
      /\ Bytes * ByteBits <= MaxFrames /\ MaxFrames < Bytes * ByteBits + ByteBits
  BY <1>1 DEF Bytes
<1>3. /\ IsFiniteSet(Bitless)
      /\ Cardinality(Bitless) = IF Bytes * ByteBits > MaxFrames - 1 THEN 0
                             ELSE MaxFrames - 1 - Bytes * ByteBits + 1
  <2>1. Bytes * ByteBits \in Int /\ MaxFrames - 1 \in Int
    BY <1>1, <1>2
  <2> QED
    BY <2>1, FS_Interval DEF Bitless
<1>4. Cardinality(Bitless) \in Nat /\ Cardinality(Bitless) < ByteBits
  BY <1>1, <1>2, <1>3
<1>5. Cardinality(Tracked) = Bytes * ByteBits
  <2>1. 0 \in Int /\ Bytes * ByteBits - 1 \in Int
    BY <1>2
  <2>2. Cardinality(Tracked) = IF 0 > Bytes * ByteBits - 1 THEN 0 ELSE Bytes * ByteBits - 1 - 0 + 1
    BY <2>1, FS_Interval DEF Tracked
  <2> QED
    BY <1>2, <2>2
<1> QED
  BY <1>1, <1>2, <1>3, <1>4, <1>5

\* A set of frames is finite.
LEMMA FramesFinite ==
  ASSUME NEW S \in SUBSET (0 .. (MaxFrames - 1))
  PROVE  IsFiniteSet(S) /\ Cardinality(S) \in Nat
<1>1. MaxFrames - 1 \in Int /\ 0 \in Int
  BY SizesAssumption
<1>2. IsFiniteSet(0 .. (MaxFrames - 1))
  BY <1>1, FS_Interval
<1> QED
  BY <1>2, FS_Subset, FS_CardinalityType

\* The cardinality of a union of two disjoint sets of frames.
LEMMA DisjointUnion ==
  ASSUME NEW S, NEW T, IsFiniteSet(S), IsFiniteSet(T), S \cap T = {}
  PROVE  /\ Cardinality(S \cup T) = Cardinality(S) + Cardinality(T)
         /\ IsFiniteSet(S \cup T)
<1>1. Cardinality(S) \in Nat /\ Cardinality(T) \in Nat
  BY FS_CardinalityType
<1>2. /\ Cardinality(S \cup T) = Cardinality(S) + Cardinality(T) - Cardinality(S \cap T)
      /\ IsFiniteSet(S \cup T)
  BY FS_Union
<1>3. Cardinality(S \cap T) = 0
  BY FS_EmptySet
<1> QED
  BY <1>1, <1>2, <1>3

\* total_frames counts fewer than 8 frames that have no bit: rounded down to whole
\* bytes, as bitmap_first_free does, it stays inside the bitmap.
LEMMA ScanInBounds ==
  ASSUME PmmInv, CountInv
  PROVE  Scanned \subseteq Tracked
<1>1. /\ held \in SUBSET Tracked /\ Tracked \ used \in SUBSET Tracked
      /\ (Tracked \ used) \cap held = {}
      /\ (Tracked \ used) \cup held \in SUBSET Tracked
  BY DEF PmmInv, TypeOK
<1>2. /\ IsFiniteSet(Tracked \ used) /\ Cardinality(Tracked \ used) \in Nat
      /\ IsFiniteSet(held) /\ Cardinality(held) \in Nat
      /\ IsFiniteSet(Tracked) /\ Cardinality(Tracked) \in Nat
  BY <1>1, TrackedFinite
<1>3. Cardinality((Tracked \ used) \cup held) = Cardinality(Tracked \ used) + Cardinality(held)
  BY <1>1, <1>2, DisjointUnion
<1>4. Cardinality((Tracked \ used) \cup held) <= Cardinality(Tracked)
  BY <1>1, <1>2, FS_Subset
<1>5. Cardinality(beyond) \in Nat /\ Cardinality(beyond) < ByteBits
  <2>1. beyond \in SUBSET Bitless
    BY DEF CountInv
  <2>2. IsFiniteSet(beyond) /\ Cardinality(beyond) <= Cardinality(Bitless)
    BY <2>1, BitlessFew, FS_Subset
  <2>3. Cardinality(beyond) \in Nat
    BY <2>2, FS_CardinalityType
  <2> QED
    BY <2>2, <2>3, BitlessFew
<1>6. totalFrames \in Nat /\ totalFrames < Bytes * ByteBits + ByteBits
  BY <1>2, <1>3, <1>4, <1>5, BitlessFew DEF CountInv
<1>7. /\ totalFrames \div ByteBits \in Nat
      /\ totalFrames \div ByteBits <= Bytes
  BY <1>6, BitlessFew
<1>8. /\ (totalFrames \div ByteBits) * ByteBits \in Nat
      /\ (totalFrames \div ByteBits) * ByteBits <= Bytes * ByteBits
  BY <1>7, BitlessFew
<1> QED
  BY <1>8, BitlessFew DEF Scanned, Tracked

\* The initial states satisfy CountInv: all frames are marked, none is counted.
LEMMA CountInit == Init => CountInv
<1> SUFFICES ASSUME Init PROVE CountInv
  OBVIOUS
<1>1. Tracked \ used = {} /\ held = {} /\ beyond = {}
  BY DEF Init
<1>2. Cardinality(Tracked \ used) = 0 /\ Cardinality(held) = 0 /\ Cardinality(beyond) = 0
  BY <1>1, FS_EmptySet
<1>3. mmap \in MemMaps /\ mmap \in Seq(Entries)
  BY MemMapsAssumption DEF Init
<1>4. \A i \in (parsed + 1) .. Len(mmap) :
        Freed(mmap[i]) \cap Tracked \subseteq used /\ Freed(mmap[i]) \cap beyond = {}
  BY <1>1 DEF Init
<1> QED
  BY <1>1, <1>2, <1>3, <1>4 DEF Init, CountInv

\* Every step keeps it.
LEMMA CountStep ==
  ASSUME MapsDisjoint
  PROVE  PmmInv /\ CountInv /\ [Next]_vars => CountInv'
<1> SUFFICES ASSUME PmmInv, CountInv, [Next]_vars PROVE CountInv'
  OBVIOUS
<1>1. /\ mmap \in MemMaps /\ mmap \in Seq(Entries) /\ Len(mmap) \in Nat
      /\ parsed \in 0 .. Len(mmap) /\ totalFrames \in Nat
      /\ used \subseteq Tracked /\ held \subseteq Tracked /\ held \subseteq used
      /\ beyond \in SUBSET (0 .. (MaxFrames - 1)) /\ beyond \subseteq Bitless
  BY DEF PmmInv, TypeOK, CountInv
<1>2. /\ Cardinality(Tracked \ used) \in Nat /\ Cardinality(held) \in Nat
      /\ IsFiniteSet(Tracked \ used) /\ IsFiniteSet(held)
      /\ Cardinality(beyond) \in Nat /\ IsFiniteSet(beyond)
  BY <1>1, TrackedFinite, FramesFinite
<1>3. CASE ParseEntry
  <2> DEFINE frames == Freed(mmap[parsed + 1])
  <2>1. /\ parsed < Len(mmap) /\ parsed + 1 \in 1 .. Len(mmap)
        /\ used' = used \ frames /\ parsed' = parsed + 1 /\ mmap' = mmap /\ held' = held
        /\ ~ready'
        /\ totalFrames' = totalFrames + Cardinality(frames)
        /\ beyond' = beyond \cup (frames \ Tracked) /\ strayed' = strayed
    BY <1>1, <1>3 DEF ParseEntry
  <2>2. frames \cap Tracked \subseteq used /\ frames \cap beyond = {}
    BY <1>1, <2>1 DEF CountInv
  <2>3. IsFiniteSet(frames) /\ frames \subseteq 0 .. (MaxFrames - 1)
    <3>1. mmap[parsed + 1] \in Entries
      BY <1>1, <2>1
    <3> QED
      BY <3>1, FreedFinite
  <2>4. frames \ Tracked \subseteq Bitless
    BY <2>3, BitlessFew DEF Tracked, Bitless
  <2>5. /\ Tracked \ used' = (Tracked \ used) \cup (frames \cap Tracked)
        /\ (Tracked \ used) \cap (frames \cap Tracked) = {}
        /\ beyond \cap (frames \ Tracked) = {}
        /\ frames = (frames \cap Tracked) \cup (frames \ Tracked)
        /\ (frames \cap Tracked) \cap (frames \ Tracked) = {}
    BY <2>1, <2>2
  <2>6. ASSUME NEW i \in (parsed' + 1) .. Len(mmap')
        PROVE  Freed(mmap'[i]) \cap Tracked \subseteq used' /\ Freed(mmap'[i]) \cap beyond' = {}
    <3>1. i \in 1 .. Len(mmap) /\ i \in (parsed + 1) .. Len(mmap) /\ i # parsed + 1
      BY <1>1, <2>1
    <3>2. Freed(mmap[i]) \cap Tracked \subseteq used /\ Freed(mmap[i]) \cap beyond = {}
      BY <3>1 DEF CountInv
    <3>3. Freed(mmap[i]) \cap frames = {}
      BY <1>1, <2>1, <3>1 DEF MapsDisjoint
    <3> HIDE DEF frames
    <3> QED
      BY <2>1, <3>2, <3>3
  <2> HIDE DEF frames
  <2>7. /\ IsFiniteSet(frames \cap Tracked) /\ IsFiniteSet(frames \ Tracked)
        /\ Cardinality(frames \cap Tracked) \in Nat /\ Cardinality(frames \ Tracked) \in Nat
    <3>1. frames \cap Tracked \subseteq frames /\ frames \ Tracked \subseteq frames
      OBVIOUS
    <3> QED
      BY <2>3, <3>1, FS_Subset, FS_CardinalityType
  <2>8. Cardinality(Tracked \ used') = Cardinality(Tracked \ used) + Cardinality(frames \cap Tracked)
    BY <1>2, <2>5, <2>7, DisjointUnion
  <2>9. Cardinality(beyond') = Cardinality(beyond) + Cardinality(frames \ Tracked)
    BY <1>2, <2>1, <2>5, <2>7, DisjointUnion
  <2>10. Cardinality(frames) = Cardinality(frames \cap Tracked) + Cardinality(frames \ Tracked)
    <3>1. Cardinality((frames \cap Tracked) \cup (frames \ Tracked))
            = Cardinality(frames \cap Tracked) + Cardinality(frames \ Tracked)
      BY <2>5, <2>7, DisjointUnion
    <3> QED
      BY <2>5, <3>1
  <2>11. totalFrames' = Cardinality(Tracked \ used') + Cardinality(held') + Cardinality(beyond')
    <3>1. totalFrames = Cardinality(Tracked \ used) + Cardinality(held) + Cardinality(beyond)
      BY DEF CountInv
    <3> QED
      BY <1>2, <2>1, <2>7, <2>8, <2>9, <2>10, <3>1
  <2>12. beyond' \subseteq Bitless
    BY <1>1, <2>1, <2>4
  <2> QED
    BY <1>1, <2>1, <2>6, <2>11, <2>12 DEF CountInv
<1>4. CASE InitDone
  BY <1>4 DEF InitDone, CountInv
<1>5. CASE AllocFrame
  <2>1. PICK f \in FirstFree : used' = used \cup {f} /\ held' = held \cup {f}
    BY <1>5 DEF AllocFrame
  <2>2. f \in Tracked /\ f \notin used /\ f \notin held
    BY <1>1, <2>1 DEF FirstFree
  <2>3. UNCHANGED <<mmap, parsed, ready, totalFrames, beyond, strayed>>
    BY <1>5 DEF AllocFrame
  <2>4. Cardinality(held') = Cardinality(held) + 1
    BY <1>2, <2>1, <2>2, FS_AddElement
  <2>5. Cardinality(Tracked \ used') = Cardinality(Tracked \ used) - 1
    <3>1. Tracked \ used' = (Tracked \ used) \ {f} /\ f \in Tracked \ used
      BY <2>1, <2>2
    <3> QED
      BY <1>2, <3>1, FS_RemoveElement
  <2>6. totalFrames' = Cardinality(Tracked \ used') + Cardinality(held') + Cardinality(beyond')
    BY <1>2, <2>3, <2>4, <2>5 DEF CountInv
  <2> QED
    BY <2>1, <2>3, <2>6 DEF CountInv
<1>6. CASE AllocFails
  BY <1>6, ScanInBounds DEF AllocFails, CountInv
<1>7. ASSUME NEW f \in held, FreeFrame(f) PROVE CountInv'
  <2>1. f \in Tracked /\ f \in used
    BY <1>1
  <2>2. f < MaxFrames
    BY <2>1, TrackedBelowMax
  <2>3. /\ used' = used \ {f} /\ held' = held \ {f} /\ ready
        /\ UNCHANGED <<mmap, parsed, ready, totalFrames, beyond, strayed>>
    BY <1>7, <2>1, <2>2 DEF FreeFrame, Usable
  <2>4. Cardinality(held') = Cardinality(held) - 1
    BY <1>2, <2>3, FS_RemoveElement
  <2>5. Cardinality(Tracked \ used') = Cardinality(Tracked \ used) + 1
    <3>1. Tracked \ used' = (Tracked \ used) \cup {f} /\ f \notin Tracked \ used
      BY <2>1, <2>3
    <3> QED
      BY <1>2, <3>1, FS_AddElement
  <2>6. totalFrames' = Cardinality(Tracked \ used') + Cardinality(held') + Cardinality(beyond')
    BY <1>2, <2>3, <2>4, <2>5 DEF CountInv
  <2>7. \A i \in (parsed' + 1) .. Len(mmap') :
          Freed(mmap'[i]) \cap Tracked \subseteq used' /\ Freed(mmap'[i]) \cap beyond' = {}
    BY <1>1, <2>3 DEF CountInv
  <2> QED
    BY <2>3, <2>6, <2>7 DEF CountInv
<1>8. CASE UNCHANGED vars
  BY <1>8 DEF vars, CountInv
<1> QED
  BY <1>3, <1>4, <1>5, <1>6, <1>7, <1>8 DEF Next

\* The free memory that pmm_get_free_memory reports is, at every moment, that of
\* the frames that can still be handed out and of the offered ones without a bit,
\* for every machine whose map does not count a frame twice.
THEOREM FreeCountExactHolds ==
  ASSUME MapsDisjoint
  PROVE  Spec => []FreeCountExact
<1>1. PmmInv /\ CountInv => FreeCountExact
  <2> SUFFICES ASSUME PmmInv, CountInv PROVE FreeCountExact
    OBVIOUS
  <2>1. Cardinality(Tracked \ used) \in Nat /\ Cardinality(held) \in Nat
    BY TrackedFinite DEF PmmInv, TypeOK
  <2>2. Cardinality(beyond) \in Nat
    BY FramesFinite DEF PmmInv, TypeOK
  <2> QED
    BY <2>1, <2>2 DEF PmmInv, CountInv, FreeCountExact
<1> QED
  BY <1>1, PmmInvariant, CountInit, CountStep, PTL DEF Spec

\* On the same machines, whatever MAX_FRAMES is and however much memory they have,
\* pmm_init leaves the bitmap for the last MAX_FRAMES % 8 frames only, and the
\* search for a free frame never does.
THEOREM BitmapInBoundsHolds ==
  ASSUME MapsDisjoint
  PROVE  Spec => []BitmapInBounds
<1>1. PmmInv /\ CountInv => BitmapInBounds
  <2> SUFFICES ASSUME PmmInv, CountInv PROVE BitmapInBounds
    OBVIOUS
  <2>1. \A f \in beyond : MaxFrames - (MaxFrames % ByteBits) <= f /\ f < MaxFrames
    BY BitlessFew DEF CountInv, Bitless
  <2> QED
    BY <2>1 DEF CountInv, BitmapInBounds
<1> QED
  BY <1>1, PmmInvariant, CountInit, CountStep, PTL DEF Spec

-----------------------------------------------------------------------------
(* What is handed out is memory.                                           *)

\* An available entry and the page at its base end below 4 GB: the code keeps
\* only the lower halves of the 64-bit fields.
MapsFit ==
  \A m \in MemMaps : \A i \in 1 .. Len(m) :
    m[i].available =>
      /\ m[i].base + PageSize <= Word
      /\ m[i].base + m[i].length <= Word

\* Entry e calls the whole of frame f available.
Covers(e, f) ==
  /\ e.available
  /\ e.base <= f * PageSize
  /\ (f + 1) * PageSize <= e.base + e.length

\* What is free or held is covered by an entry.
SupplyInv ==
  /\ mmap \in MemMaps
  /\ \A f \in Tracked :
       f \notin used \/ f \in held => \E i \in 1 .. Len(mmap) : Covers(mmap[i], f)

\* Rounding down to a multiple of p.
LEMMA DivBounds ==
  ASSUME NEW n \in Nat, NEW p \in Nat \ {0}
  PROVE  n \div p \in Nat /\ (n \div p) * p <= n /\ n < (n \div p) * p + p
OBVIOUS

\* pmm_init rounds the base of an entry up and its end down: what it marks free
\* lies inside the entry.
LEMMA FreedCovered ==
  ASSUME NEW e \in Entries, e.base + PageSize <= Word, e.base + e.length <= Word,
         NEW f \in Freed(e)
  PROVE  Covers(e, f)
<1>1. /\ PageSize \in Nat \ {0} /\ Word \in Nat \ {0}
      /\ e.base \in Nat /\ e.length \in Nat
  BY SizesAssumption DEF Entries
<1>2. e.available /\ f \in StartFrame(e) .. (EndFrame(e) - 1)
  BY DEF Freed
<1>3. \A n \in Nat : n < Word => U32(n) = n
  BY <1>1 DEF U32
<1>4. U32(Word) = 0
  BY <1>1 DEF U32
<1>5. U32(e.base) = e.base
  BY <1>1, <1>3
<1>6. StartFrame(e) = (e.base + PageSize - 1) \div PageSize
  <2>1. e.base + PageSize - 1 \in Nat /\ e.base + PageSize - 1 < Word
    BY <1>1
  <2>2. U32(e.base + PageSize - 1) = e.base + PageSize - 1
    BY <1>3, <2>1
  <2> QED
    BY <1>5, <2>2 DEF StartFrame
<1>7. EndFrame(e) \in Nat /\ EndFrame(e) * PageSize <= e.base + e.length
  <2>1. CASE e.base + e.length < Word
    <3>1. U32(e.length) = e.length /\ U32(e.base + e.length) = e.base + e.length
      BY <1>1, <1>3, <2>1
    <3>2. EndFrame(e) = (e.base + e.length) \div PageSize
      BY <1>5, <3>1 DEF EndFrame
    <3> QED
      BY <1>1, <3>2, DivBounds
  <2>2. CASE e.base + e.length = Word
    <3>1. U32(U32(e.base) + U32(e.length)) = 0
      <4>1. CASE e.length = Word
        BY <1>1, <1>3, <1>4, <1>5, <2>2, <4>1
      <4>2. CASE e.length # Word
        BY <1>1, <1>3, <1>4, <1>5, <2>2, <4>2
      <4> QED
        BY <4>1, <4>2
    <3>2. EndFrame(e) = 0
      BY <1>1, <3>1 DEF EndFrame
    <3> QED
      BY <1>1, <3>2
  <2> QED
    BY <1>1, <2>1, <2>2
<1>8. /\ StartFrame(e) \in Nat
      /\ e.base + PageSize - 1 < StartFrame(e) * PageSize + PageSize
  <2>1. e.base + PageSize - 1 \in Nat
    BY <1>1
  <2>2. PICK n \in Nat : n = e.base + PageSize - 1
    BY <2>1
  <2>3. StartFrame(e) = n \div PageSize
    BY <1>6, <2>2
  <2> QED
    BY <1>1, <2>2, <2>3, DivBounds
<1>9. f \in Nat /\ StartFrame(e) <= f /\ f + 1 <= EndFrame(e)
  BY <1>2, <1>7, <1>8
<1>10. StartFrame(e) * PageSize <= f * PageSize /\ (f + 1) * PageSize <= EndFrame(e) * PageSize
  BY <1>1, <1>7, <1>8, <1>9
<1>11. e.base <= f * PageSize
  BY <1>1, <1>8, <1>9, <1>10
<1>12. (f + 1) * PageSize <= e.base + e.length
  BY <1>1, <1>7, <1>9, <1>10
<1> QED
  BY <1>2, <1>11, <1>12 DEF Covers

\* Every step keeps SupplyInv.
LEMMA SupplyStep ==
  ASSUME MapsFit
  PROVE  PmmInv /\ SupplyInv /\ [Next]_vars => SupplyInv'
<1> SUFFICES ASSUME PmmInv, SupplyInv, [Next]_vars PROVE SupplyInv'
  OBVIOUS
<1>1. mmap \in MemMaps /\ mmap \in Seq(Entries) /\ held \subseteq used /\ used \subseteq Tracked
  BY DEF PmmInv, TypeOK, SupplyInv
<1>2. SUFFICES /\ mmap' = mmap
               /\ \A f \in Tracked : f \notin used' \/ f \in held' =>
                    \E i \in 1 .. Len(mmap) : Covers(mmap[i], f)
  BY <1>1 DEF SupplyInv
<1>3. CASE ParseEntry
  <2>1. /\ parsed + 1 \in 1 .. Len(mmap) /\ mmap' = mmap /\ held' = held
        /\ used' = used \ Freed(mmap[parsed + 1])
    BY <1>1, <1>3 DEF ParseEntry, PmmInv, TypeOK
  <2>2. mmap[parsed + 1] \in Entries
    BY <1>1, <2>1
  <2>3. ASSUME NEW f \in Freed(mmap[parsed + 1]) PROVE Covers(mmap[parsed + 1], f)
    <3>1. mmap[parsed + 1].available
      BY <2>3 DEF Freed
    <3>2. /\ mmap[parsed + 1].base + PageSize <= Word
          /\ mmap[parsed + 1].base + mmap[parsed + 1].length <= Word
      BY <1>1, <2>1, <3>1 DEF MapsFit
    <3> QED
      BY <2>2, <2>3, <3>2, FreedCovered
  <2> QED
    BY <2>1, <2>3 DEF SupplyInv
<1>4. CASE InitDone
  BY <1>4 DEF InitDone, SupplyInv
<1>5. CASE AllocFrame
  <2>1. PICK f \in FirstFree : used' = used \cup {f} /\ held' = held \cup {f}
    BY <1>5 DEF AllocFrame
  <2>2. f \in Tracked /\ f \notin used /\ mmap' = mmap
    BY <1>5, <2>1 DEF FirstFree, AllocFrame
  <2> QED
    BY <2>1, <2>2 DEF SupplyInv
<1>6. CASE AllocFails
  BY <1>6 DEF AllocFails, SupplyInv
<1>7. ASSUME NEW f \in held, FreeFrame(f)
      PROVE  /\ mmap' = mmap
             /\ \A g \in Tracked : g \notin used' \/ g \in held' =>
                  \E i \in 1 .. Len(mmap) : Covers(mmap[i], g)
  <2>1. used \ {f} \subseteq used' /\ held' \subseteq held /\ mmap' = mmap
    BY <1>7 DEF FreeFrame
  <2> QED
    BY <2>1 DEF SupplyInv
<1>8. CASE UNCHANGED vars
  BY <1>8 DEF vars, SupplyInv
<1> QED
  BY <1>3, <1>4, <1>5, <1>6, <1>7, <1>8 DEF Next

\* Only whole frames that the map calls available are handed out, for every map
\* whose available entries end below 4 GB.
THEOREM OnlyAvailableMemoryHolds ==
  ASSUME MapsFit
  PROVE  Spec => []OnlyAvailableMemory
<1>1. Init => SupplyInv
  BY DEF Init, SupplyInv
<1>2. PmmInv /\ SupplyInv => OnlyAvailableMemory
  BY DEF PmmInv, TypeOK, SupplyInv, Covers, OnlyAvailableMemory
<1> QED
  BY <1>1, <1>2, PmmInvariant, SupplyStep, PTL DEF Spec
=============================================================================
