------------------------------ MODULE BootProofs ------------------------------
(***************************************************************************)
(* Proofs about both stages of the boot loader, for every machine, disk,   *)
(* kernel file and number of retries: nothing is written above 1 MB with   *)
(* A20 closed; each stage gives up for a cause only; the cluster chain is  *)
(* not left while the FAT is good; a kernel that is entered without a      *)
(* failed read is whole; and the memory map tells RAM only. The hypotheses *)
(* on disk, file and BIOS (DisksSound, SegmentsSound, NoHoleBelow16MB)     *)
(* stand where they are used.                                              *)
(***************************************************************************)
EXTENDS Boot, TLAPS

\* Where the loader is after check_a20 has found the line open.
AfterA20 ==
  {"e820", "e801", "bpb", "fat", "find", "load", "switch", "segments", "kernel", "wild"}

\* The line is open from check_a20 on; no program header is looked at before
\* elf_load has accepted the file; the tries stage 1 has left are positive while
\* it reads, and it stops without any or after a short read.
BootInv ==
  /\ pc \in AfterA20 => a20
  /\ phdr > 1 => pc \in {"segments", "kernel"}
  /\ tries \in Nat
  /\ pc \in {"read", "reset"} => tries > 0
  /\ pc = "error" => tries = 0 \/ "stage2" \in errors

\* Stage 1 gives up only after MAX_RETRIES failed reads or a short one.
Stage1GivesUpWithCause == pc = "error" => tries = 0 \/ "stage2" \in errors

-----------------------------------------------------------------------------

\* At power on nothing is loaded and all tries are left.
LEMMA InitBootInv == Init => BootInv
  BY BootAssumption DEF Init, BootInv, AfterA20

\* The steps of stage 1: a read, its failure and the reset keep the invariant.
LEMMA Stage1Step ==
  ASSUME BootInv,
         (\E all \in BOOLEAN : ReadStage2(all)) \/ ReadStage2Fails \/ ResetDrive
  PROVE  BootInv'
<1>1. ASSUME NEW all \in BOOLEAN, ReadStage2(all) PROVE BootInv'
  BY <1>1, BootInv DEF BootInv, AfterA20, ReadStage2, Goto, a20Vars, elfVars
<1>2. CASE ReadStage2Fails
  BY <1>2, BootInv DEF BootInv, AfterA20, ReadStage2Fails, Goto, a20Vars, elfVars
<1>3. CASE ResetDrive
  BY <1>3, BootInv DEF BootInv, AfterA20, ResetDrive, Goto, stage1Vars, a20Vars, elfVars
<1>. QED BY <1>1, <1>2, <1>3

\* The ways to open A20 lead to check_a20, and only past it with the line open.
LEMMA A20Step ==
  ASSUME BootInv,
         \/ A20Bios \/ KbdCommand \/ KbdData \/ KbdTest \/ A20Fast \/ CheckA20
         \/ ControllerTakes
  PROVE  BootInv'
<1>. USE BootInv DEF BootInv, AfterA20, Goto, stage1Vars, a20Vars, elfVars
<1>1. CASE A20Bios          BY <1>1 DEF A20Bios
<1>2. CASE KbdCommand       BY <1>2 DEF KbdCommand
<1>3. CASE KbdData          BY <1>3 DEF KbdData
<1>4. CASE KbdTest          BY <1>4 DEF KbdTest
<1>5. CASE A20Fast          BY <1>5 DEF A20Fast
<1>6. CASE CheckA20         BY <1>6 DEF CheckA20
<1>7. CASE ControllerTakes  BY <1>7 DEF ControllerTakes
<1>. QED BY <1>1, <1>2, <1>3, <1>4, <1>5, <1>6, <1>7

\* The memory map and the disk: the line stays as it is, and no header is looked at.
LEMMA DiskStep ==
  ASSUME BootInv,
         \/ DetectMemory \/ TryE801
         \/ \E ok \in BOOLEAN : ReadBpb(ok) \/ ReadFat(ok)
         \/ ScanSector \/ ScanFails \/ LoadCluster \/ LoadFails
  PROVE  BootInv'
<1>. USE BootInv DEF BootInv, AfterA20, Goto, stage1Vars, a20Vars, elfVars
<1>1. CASE DetectMemory
  <2>1. pc = "e820" /\ pc' \in {"e820", "e801", "bpb"}
    BY <1>1 DEF DetectMemory
  <2>2. UNCHANGED <<a20, phdr, tries, errors>>
    BY <1>1 DEF DetectMemory
  <2>. QED BY <2>1, <2>2
<1>2. CASE TryE801          BY <1>2 DEF TryE801
<1>3. ASSUME NEW ok \in BOOLEAN, ReadBpb(ok) \/ ReadFat(ok) PROVE BootInv'
  BY <1>3 DEF ReadBpb, ReadFat
<1>4. CASE ScanSector
  <2>1. pc = "find" /\ pc' \in {"find", "halt", "load"}
    BY <1>4 DEF ScanSector
  <2>2. UNCHANGED <<a20, phdr, tries, errors>>
    BY <1>4 DEF ScanSector
  <2>. QED BY <2>1, <2>2
<1>5. CASE ScanFails        BY <1>5 DEF ScanFails
<1>6. CASE LoadCluster
  <2>1. pc = "load" /\ pc' \in {"wild", "switch", "load"}
    BY <1>6 DEF LoadCluster
  <2>2. UNCHANGED <<a20, phdr, tries, errors>>
    BY <1>6 DEF LoadCluster
  <2>. QED BY <2>1, <2>2
<1>7. CASE LoadFails        BY <1>7 DEF LoadFails
<1>. QED BY <1>1, <1>2, <1>3, <1>4, <1>5, <1>6, <1>7

\* elf_load and the hand-over run with the line that check_a20 found open.
LEMMA ElfStep ==
  ASSUME BootInv, ElfHeader \/ ElfSegment \/ HandOver
  PROVE  BootInv'
<1>. USE BootInv DEF BootInv, AfterA20, Goto, stage1Vars, a20Vars, elfVars
<1>1. CASE ElfHeader        BY <1>1 DEF ElfHeader
<1>2. CASE ElfSegment
  <2>1. pc = "segments" /\ pc' = "segments"
    BY <1>2 DEF ElfSegment
  <2>2. UNCHANGED <<a20, tries, errors>>
    BY <1>2 DEF ElfSegment
  <2>. QED BY <2>1, <2>2
<1>3. CASE HandOver         BY <1>3 DEF HandOver
<1>. QED BY <1>1, <1>2, <1>3

\* Every step of the loader and of the keyboard controller keeps the invariant.
LEMMA NextBootInv == BootInv /\ [Next]_vars => BootInv'
<1>. SUFFICES ASSUME BootInv, [Next]_vars PROVE BootInv'
  OBVIOUS
<1>1. CASE LoaderStep
  BY <1>1, Stage1Step, A20Step, DiskStep, ElfStep DEF LoaderStep
<1>2. CASE ControllerTakes
  BY <1>2, A20Step
<1>3. CASE UNCHANGED vars
  BY <1>3 DEF vars, stage1Vars, a20Vars, elfVars, BootInv
<1>. QED BY <1>1, <1>2, <1>3 DEF Next

\* The inductive invariant of the boot loader.
LEMMA BootInvHolds == Spec => []BootInv
  BY InitBootInv, NextBootInv, PTL DEF Spec

\* Whichever way opened the line and whatever the BIOS claimed, nothing is written
\* above 1 MB while A20 is closed.
THEOREM A20BeforeHighHolds == Spec => []A20BeforeHigh
<1>1. BootInv => A20BeforeHigh
  BY DEF BootInv, AfterA20, A20BeforeHigh
<1>. QED BY <1>1, BootInvHolds, PTL

\* Stage 1 gives up with a cause, whatever MAX_RETRIES is.
THEOREM Stage1GivesUpHolds == Spec => []Stage1GivesUpWithCause
<1>1. BootInv => Stage1GivesUpWithCause
  BY DEF BootInv, Stage1GivesUpWithCause
<1>. QED BY <1>1, BootInvHolds, PTL

-----------------------------------------------------------------------------
(* The FAT16 disk.                                                         *)

\* The chain of the file has no cluster twice and no number that ends a chain, it ends
\* with one that does, and the file fits below the stack.
ChainSound(m) ==
  /\ Len(m.chain) \in 1 .. LoadRoom /\ m.mark >= EndMark
  /\ \A i \in 1 .. Len(m.chain) : m.chain[i] < EndMark
  /\ \A i, j \in 1 .. Len(m.chain) : m.chain[i] = m.chain[j] => i = j

\* The directory entry names the first cluster or, for an empty file, none.
EntryNamesFile(m) ==
  \A s \in 1 .. Len(m.root) : \A i \in 1 .. Len(m.root[s]) :
    m.root[s][i].kind = "kernel" => m.root[s][i].cluster \in {0, m.chain[1]}

\* No two files of the directory have the kernel's name.
NameUnique(m) ==
  \A s, t \in 1 .. Len(m.root) : \A i \in 1 .. Len(m.root[s]), j \in 1 .. Len(m.root[t]) :
    m.root[s][i].kind = "kernel" /\ m.root[t][j].kind = "kernel" => s = t /\ i = j

\* A FAT16 disk with the kernel on it, as mkfs.fat and mcopy leave it.
DisksSound == \A m \in Machines : ChainSound(m) /\ EntryNamesFile(m) /\ NameUnique(m)

\* The first n clusters of the file, in their order, are what was loaded.
LoadedTo(n) ==
  /\ Len(loaded) = n
  /\ \A i \in 1 .. n : loaded[i] = machine.chain[i]

\* Where nothing is loaded yet.
BeforeLoad ==
  {"read", "reset", "error", "bios", "kbd1", "kbd2", "kbd3", "fast", "check", "e820", "e801",
   "bpb", "fat", "find"}

\* What was read of the disk: the sectors that were passed have neither the kernel nor
\* the end of the directory; without its geometry or its FAT a read has failed; with
\* the FAT the chain is followed cluster by cluster.
DiskInv ==
  /\ machine \in Machines
  /\ loaded \in Seq(Nat) /\ cluster \in Nat
  /\ sector \in 1 .. Len(machine.root)
  /\ \A t \in 1 .. sector - 1 : \A j \in 1 .. Len(machine.root[t]) :
       ~Stops(machine.root[t][j])
  /\ pc \in BeforeLoad => loaded = <<>>
  /\ pc = "fat" => parsed
  /\ pc = "find" /\ ~parsed => errors # {}
  /\ pc = "find" /\ parsed /\ ~cached => "fat" \in errors
  /\ pc = "load" /\ ~cached => "fat" \in errors
  /\ pc = "load" /\ cached =>
       /\ Len(loaded) < Len(machine.chain) /\ LoadedTo(Len(loaded))
       /\ cluster = machine.chain[Len(loaded) + 1]
  /\ pc \in {"switch", "segments", "kernel"} /\ errors = {} => LoadedTo(Len(machine.chain))
  /\ pc = "wild" => "fat" \in errors

\* The parts of a machine have their types.
LEMMA MachineParts ==
  ASSUME NEW m \in Machines
  PROVE  /\ m.chain \in Seq(Nat) /\ m.mark \in Nat
         /\ m.root \in Seq(Seq(DirEntries)) /\ Len(m.root) \in Nat \ {0}
         /\ m.e820 \in Seq(Answers) /\ Len(m.e820) \in Nat \ {0}
         /\ m.e801 \in [ok : BOOLEAN, ax : Nat, bx : Nat, cx : Nat, dx : Nat]
<1>1. m \in MachineType /\ Len(m.e820) > 0 /\ Len(m.root) > 0
  BY MachinesAssumption
<1>2. /\ m.chain \in Seq(Nat) /\ m.mark \in Nat /\ m.root \in Seq(Seq(DirEntries))
      /\ m.e820 \in Seq(Answers)
      /\ m.e801 \in [ok : BOOLEAN, ax : Nat, bx : Nat, cx : Nat, dx : Nat]
  BY <1>1 DEF MachineType
<1>3. Len(m.e820) \in Nat /\ Len(m.root) \in Nat
  BY <1>2
<1> QED
  BY <1>1, <1>2, <1>3

\* At power on nothing was read.
LEMMA DiskInit == Init => DiskInv
<1> SUFFICES ASSUME Init PROVE DiskInv
  OBVIOUS
<1>1. sector \in 1 .. Len(machine.root)
  BY MachineParts DEF Init
<1>2. \A t \in 1 .. sector - 1 : FALSE
  BY DEF Init
<1> QED
  BY <1>1, <1>2 DEF Init, DiskInv

\* Steps that touch neither the disk's variables nor the place where they matter.
LEMMA DiskKept ==
  ASSUME DiskInv, UNCHANGED <<machine, fatVars, errors>>,
         \/ pc' = pc
         \/ pc \in BeforeLoad /\ pc' \in BeforeLoad \ {"fat", "find"}
         \/ pc' = "halt"
         \/ pc \in {"switch", "segments"} /\ pc' \in {"segments", "kernel"}
  PROVE  DiskInv'
<1> USE DEF fatVars
<1>1. CASE pc' = pc
  BY <1>1 DEF DiskInv, LoadedTo
<1>2. CASE pc \in BeforeLoad /\ pc' \in BeforeLoad \ {"fat", "find"}
  BY <1>2 DEF DiskInv, LoadedTo, BeforeLoad
<1>3. CASE pc' = "halt"
  BY <1>3 DEF DiskInv, LoadedTo, BeforeLoad
<1>4. CASE pc \in {"switch", "segments"} /\ pc' \in {"segments", "kernel"}
  BY <1>4 DEF DiskInv, LoadedTo, BeforeLoad
<1> QED
  BY <1>1, <1>2, <1>3, <1>4

\* A further read that fails, while nothing but the place changes.
LEMMA DiskFailed ==
  ASSUME DiskInv, UNCHANGED <<machine, fatVars>>,
         \E e \in {"root", "data", "stage2"} : errors' = errors \cup {e},
         pc' \in {"halt", "switch", "error"}, pc' = "error" => pc \in BeforeLoad
  PROVE  DiskInv'
  BY DEF DiskInv, LoadedTo, BeforeLoad, fatVars

\* The boot sector and the FAT are read, or not.
LEMMA BpbFatKeep ==
  ASSUME DiskInv, NEW ok \in BOOLEAN, ReadBpb(ok) \/ ReadFat(ok)
  PROVE  DiskInv'
<1>1. CASE ReadBpb(ok)
  <2>1. CASE ok
    BY <1>1, <2>1 DEF ReadBpb, DiskInv, LoadedTo, BeforeLoad, Goto
  <2>2. CASE ~ok
    BY <1>1, <2>2 DEF ReadBpb, DiskInv, LoadedTo, BeforeLoad, Goto
  <2> QED
    BY <2>1, <2>2
<1>2. CASE ReadFat(ok)
  <2>1. CASE ok
    BY <1>2, <2>1 DEF ReadFat, DiskInv, LoadedTo, BeforeLoad, Goto
  <2>2. CASE ~ok
    BY <1>2, <2>2 DEF ReadFat, DiskInv, LoadedTo, BeforeLoad, Goto
  <2> QED
    BY <2>1, <2>2
<1> QED
  BY <1>1, <1>2

\* A sector of the root directory: the scan goes on, stops without a file, or finds
\* the first cluster of the kernel.
LEMMA ScanKeeps ==
  ASSUME DisksSound, DiskInv, ScanSector
  PROVE  DiskInv'
<1> DEFINE entries == machine.root[sector]
           stops == {i \in 1 .. Len(entries) : Stops(entries[i])}
<1>1. /\ pc = "find" /\ loaded = <<>> /\ machine \in Machines
      /\ UNCHANGED <<machine, parsed, cached, loaded, errors>>
  BY DEF ScanSector, DiskInv, BeforeLoad
<1>2. /\ machine.root \in Seq(Seq(DirEntries)) /\ machine.chain \in Seq(Nat)
      /\ sector \in 1 .. Len(machine.root) /\ Len(machine.root) \in Nat
      /\ entries \in Seq(DirEntries)
  <2>1. /\ machine.root \in Seq(Seq(DirEntries)) /\ machine.chain \in Seq(Nat)
        /\ Len(machine.root) \in Nat
    BY <1>1, MachineParts
  <2>2. sector \in 1 .. Len(machine.root)
    BY DEF DiskInv
  <2> QED
    BY <2>1, <2>2
<1>3. CASE parsed /\ stops = {} /\ sector < Len(machine.root) /\ UNCHANGED <<pc, cluster>>
           /\ sector' = sector + 1
  <2>1. sector' \in 1 .. Len(machine'.root)
    BY <1>1, <1>2, <1>3
  <2>2. ASSUME NEW t \in 1 .. sector' - 1, NEW j \in 1 .. Len(machine'.root[t])
        PROVE  ~Stops(machine'.root[t][j])
    <3>1. CASE t = sector
      BY <1>1, <1>3, <3>1
    <3>2. CASE t # sector
      <4>1. t \in 1 .. sector - 1
        BY <1>2, <1>3, <3>2
      <4> QED
        BY <1>1, <4>1 DEF DiskInv
    <3> QED
      BY <3>1, <3>2
  <2> HIDE DEF stops, entries
  <2> QED
    BY <1>1, <1>3, <2>1, <2>2 DEF DiskInv, BeforeLoad
<1>4. CASE pc' = "halt" /\ UNCHANGED <<sector, cluster>>
  <2> HIDE DEF stops, entries
  <2> QED
    BY <1>1, <1>4 DEF DiskInv, BeforeLoad
<1>5. ASSUME parsed, UNCHANGED sector, NEW i \in stops,
             cluster' = IF entries[i].kind = "end" THEN 0 ELSE entries[i].cluster,
             pc' = IF cluster' = 0 THEN "halt" ELSE "load"
      PROVE  DiskInv'
  <2>1. entries[i] \in DirEntries /\ i \in 1 .. Len(entries)
    BY <1>2
  <2>2. cluster' \in Nat
    BY <1>5, <2>1 DEF DirEntries
  <2>3. pc' = "load" => cluster' = machine.chain[1]
    <3>1. SUFFICES ASSUME cluster' # 0 PROVE cluster' = machine.chain[1]
      BY <1>5
    <3>2. entries[i].kind = "kernel" /\ cluster' = entries[i].cluster
      BY <1>5, <3>1 DEF Stops
    <3> QED
      BY <1>1, <1>2, <2>1, <3>1, <3>2 DEF DisksSound, EntryNamesFile
  <2>4. pc' \in {"halt", "load"}
    BY <1>5
  <2>5. Len(machine.chain) > 0 /\ Len(machine.chain) \in Nat
    <3>1. Len(machine.chain) \in 1 .. LoadRoom /\ LoadRoom \in Nat
      BY <1>1, BootAssumption DEF DisksSound, ChainSound
    <3> QED
      BY <3>1
  <2>6. pc' = "load" /\ cached' =>
          /\ Len(loaded') < Len(machine'.chain) /\ LoadedTo(Len(loaded))'
          /\ cluster' = machine'.chain[Len(loaded') + 1]
    <3>1. Len(loaded') = 0
      BY <1>1
    <3> QED
      BY <1>1, <2>3, <2>5, <3>1 DEF LoadedTo
  <2> HIDE DEF stops, entries
  <2> QED
    BY <1>1, <1>5, <2>2, <2>4, <2>6 DEF DiskInv, BeforeLoad
<1> QED
  BY <1>3, <1>4, <1>5 DEF ScanSector

\* fat16_load_file follows the chain, and stops where it ends.
LEMMA LoadKeeps ==
  ASSUME DisksSound, DiskInv, LoadCluster
  PROVE  DiskInv'
<1> DEFINE chain == machine.chain
           n == Len(loaded) + 1
<1>1. /\ pc = "load" /\ machine \in Machines /\ loaded \in Seq(Nat) /\ cluster \in Nat
      /\ UNCHANGED <<machine, parsed, cached, sector, errors>>
  BY DEF LoadCluster, DiskInv
<1>2. chain \in Seq(Nat) /\ machine.mark \in Nat /\ Len(chain) \in Nat /\ n \in Nat
  BY <1>1, MachineParts
<1>3. /\ Len(chain) \in 1 .. LoadRoom /\ machine.mark >= EndMark
      /\ \A i \in 1 .. Len(chain) : chain[i] < EndMark
      /\ \A i, j \in 1 .. Len(chain) : chain[i] = chain[j] => i = j
  BY <1>1 DEF DisksSound, ChainSound
<1>4. LoadRoom \in Nat /\ EndMark \in Nat \ {0} /\ StaleEntries \subseteq Nat
  BY BootAssumption
<1>5. CASE Len(loaded) = LoadRoom
  <2>1. pc' = "wild" /\ UNCHANGED <<loaded, cluster>>
    BY <1>5 DEF LoadCluster
  <2>2. ~cached
    <3>1. SUFFICES ASSUME cached PROVE FALSE
      OBVIOUS
    <3>2. Len(loaded) < Len(chain)
      BY <1>1, <3>1 DEF DiskInv
    <3> QED
      BY <1>2, <1>3, <1>4, <1>5, <3>2
  <2>3. "fat" \in errors
    BY <1>1, <2>2 DEF DiskInv
  <2> QED
    BY <1>1, <2>1, <2>3 DEF DiskInv, BeforeLoad
<1>6. CASE Len(loaded) # LoadRoom
  <2>1. /\ loaded' = Append(loaded, cluster) /\ cluster' \in NextClusters(cluster)
        /\ pc' = IF Ends(cluster') THEN "switch" ELSE "load"
    BY <1>6 DEF LoadCluster
  <2>2. loaded' \in Seq(Nat) /\ Len(loaded') = n
    BY <1>1, <2>1
  <2>3. pc' \in {"switch", "load"}
    BY <2>1
  <2>4. CASE ~cached
    <3>1. cluster' \in Nat
      BY <1>4, <2>1, <2>4 DEF NextClusters
    <3>2. "fat" \in errors
      BY <1>1, <2>4 DEF DiskInv
    <3> HIDE DEF n, chain
    <3> QED
      BY <1>1, <2>2, <2>3, <2>4, <3>1, <3>2 DEF DiskInv, BeforeLoad
  <2>5. CASE cached
    <3>1. Len(loaded) < Len(chain) /\ LoadedTo(Len(loaded)) /\ cluster = chain[n]
      BY <1>1, <2>5 DEF DiskInv
    <3>2. n \in 1 .. Len(chain) /\ Len(loaded) \in Nat
      BY <1>1, <1>2, <3>1
    <3>3. cluster' = IF n < Len(chain) THEN chain[n + 1] ELSE machine.mark
      <4>1. {i \in 1 .. Len(chain) : chain[i] = cluster} = {n}
        BY <1>3, <3>1, <3>2
      <4> QED
        BY <2>1, <2>5, <4>1 DEF NextClusters, FatEntry
    <3>4. \A i \in 1 .. n : loaded'[i] = chain[i]
      <4>1. ASSUME NEW i \in 1 .. n PROVE loaded'[i] = chain[i]
        <5>1. CASE i = n
          BY <1>1, <2>1, <3>1, <5>1
        <5>2. CASE i # n
          <6>1. i \in 1 .. Len(loaded)
            BY <3>2, <5>2
          <6>2. loaded'[i] = loaded[i]
            BY <1>1, <2>1, <6>1
          <6> QED
            BY <3>1, <6>1, <6>2 DEF LoadedTo
        <5> QED
          BY <5>1, <5>2
      <4> QED
        BY <4>1
    <3>5. LoadedTo(Len(loaded))'
      BY <1>1, <2>2, <3>4 DEF LoadedTo
    <3>6. CASE n < Len(chain)
      <4>1. cluster' = chain[n + 1] /\ n + 1 \in 1 .. Len(chain)
        BY <1>2, <3>2, <3>3, <3>6
      <4>2. cluster' \in Nat /\ cluster' < EndMark
        BY <1>2, <1>3, <4>1
      <4>3. pc' = "load"
        BY <1>4, <2>1, <4>2 DEF Ends
      <4>4. /\ Len(loaded') < Len(machine'.chain) /\ LoadedTo(Len(loaded))'
            /\ cluster' = machine'.chain[Len(loaded') + 1]
        BY <1>1, <2>2, <3>5, <3>6, <4>1
      <4> HIDE DEF n, chain
      <4> QED
        BY <1>1, <2>2, <2>5, <4>2, <4>3, <4>4 DEF DiskInv, BeforeLoad
    <3>7. CASE n = Len(chain)
      <4>1. cluster' = machine.mark
        BY <1>2, <3>3, <3>7
      <4>2. cluster' \in Nat /\ pc' = "switch"
        BY <1>2, <1>3, <2>1, <4>1 DEF Ends
      <4>3. LoadedTo(Len(machine.chain))'
        BY <1>1, <2>2, <3>5, <3>7 DEF LoadedTo
      <4> HIDE DEF n, chain
      <4> QED
        BY <1>1, <2>2, <2>5, <4>2, <4>3 DEF DiskInv, BeforeLoad
    <3> QED
      BY <1>2, <3>2, <3>6, <3>7
  <2> QED
    BY <2>4, <2>5
<1> QED
  BY <1>5, <1>6

\* Every step keeps DiskInv.
LEMMA DiskStepKeeps ==
  ASSUME DisksSound
  PROVE  DiskInv /\ [Next]_vars => DiskInv'
<1> SUFFICES ASSUME DiskInv, [Next]_vars PROVE DiskInv'
  OBVIOUS
<1> USE DEF Goto
<1>1. ASSUME NEW all \in BOOLEAN, ReadStage2(all) PROVE DiskInv'
  <2>1. CASE all
    BY <1>1, <2>1, DiskKept DEF ReadStage2, BeforeLoad
  <2>2. CASE ~all
    BY <1>1, <2>2, DiskFailed DEF ReadStage2, BeforeLoad
  <2> QED
    BY <2>1, <2>2
<1>2. CASE ReadStage2Fails
  BY <1>2, DiskKept DEF ReadStage2Fails, BeforeLoad
<1>3. CASE ResetDrive
  BY <1>3, DiskKept DEF ResetDrive, BeforeLoad
<1>4. CASE A20Bios
  BY <1>4, DiskKept DEF A20Bios, BeforeLoad
<1>5. CASE KbdCommand \/ KbdData \/ KbdTest \/ A20Fast
  BY <1>5, DiskKept DEF KbdCommand, KbdData, KbdTest, A20Fast, BeforeLoad
<1>6. CASE CheckA20
  BY <1>6, DiskKept DEF CheckA20, BeforeLoad
<1>7. CASE DetectMemory
  <2>1. pc = "e820" /\ pc' \in {"e820", "e801", "bpb"} /\ UNCHANGED <<machine, fatVars, errors>>
    BY <1>7 DEF DetectMemory
  <2> QED
    BY <2>1, DiskKept DEF BeforeLoad
<1>8. CASE TryE801
  <2>1. pc = "e801" /\ pc' = "bpb" /\ UNCHANGED <<machine, fatVars, errors>>
    BY <1>8 DEF TryE801
  <2> QED
    BY <2>1, DiskKept DEF BeforeLoad
<1>9. ASSUME NEW ok \in BOOLEAN, ReadBpb(ok) \/ ReadFat(ok) PROVE DiskInv'
  BY <1>9, BpbFatKeep
<1>10. CASE ScanSector
  BY <1>10, ScanKeeps
<1>11. CASE ScanFails
  BY <1>11, DiskFailed DEF ScanFails, fatVars
<1>12. CASE LoadCluster
  BY <1>12, LoadKeeps
<1>13. CASE LoadFails
  BY <1>13, DiskFailed DEF LoadFails, fatVars
<1>14. CASE ElfHeader
  BY <1>14, DiskKept DEF ElfHeader
<1>15. CASE ElfSegment
  <2>1. pc' = pc /\ UNCHANGED <<machine, fatVars, errors>>
    BY <1>15 DEF ElfSegment
  <2> QED
    BY <2>1, DiskKept
<1>16. CASE HandOver
  BY <1>16, DiskKept DEF HandOver
<1>17. CASE ControllerTakes
  BY <1>17, DiskKept DEF ControllerTakes
<1>18. CASE UNCHANGED vars
  BY <1>18, DiskKept DEF vars
<1> QED
  BY <1>1, <1>2, <1>3, <1>4, <1>5, <1>6, <1>7, <1>8, <1>9, <1>10, <1>11, <1>12, <1>13,
     <1>14, <1>15, <1>16, <1>17, <1>18 DEF Next, LoaderStep

\* What was read of the disk, in every state.
LEMMA DiskInvHolds ==
  ASSUME DisksSound
  PROVE  Spec => []DiskInv
BY DiskInit, DiskStepKeeps, PTL DEF Spec

\* The chain of a sound disk ends with the file: the loader runs out of the memory
\* for it only when it had to guess, the FAT not having been read.
THEOREM ChainEndsHolds ==
  ASSUME DisksSound
  PROVE  Spec => []ChainEnds
<1>1. DiskInv => ChainEnds
  BY DEF DiskInv, ChainEnds
<1> QED
  BY <1>1, DiskInvHolds, PTL

-----------------------------------------------------------------------------
(* Why the loader gives up.                                                *)

\* The causes for which stage 2 may halt.
Cause ==
  \/ ~(machine.a20 \/ machine.bios = "opens" \/ machine.kbd \/ machine.fast)
  \/ errors # {}
  \/ ~HasKernel

\* Where a way to open the line has been tried the line is open if it works, and the
\* loader has halted with a cause.
CauseInv ==
  /\ machine.a20 => a20
  /\ pc \in {"kbd1", "kbd2", "kbd3", "fast", "check"} /\ machine.bios = "opens" => a20
  /\ pc \in {"kbd3", "fast", "check"} /\ machine.kbd => a20
  /\ pc = "check" /\ machine.fast => a20
  /\ pc = "halt" => Cause

\* The scan halts only if no entry in front of the end of the directory is the
\* kernel's, or the boot sector could not be read.
LEMMA ScanHaltsWithCause ==
  ASSUME DisksSound, DiskInv, ScanSector, pc' = "halt"
  PROVE  Cause
<1> DEFINE entries == machine.root[sector]
           stops == {i \in 1 .. Len(entries) : Stops(entries[i])}
<1>1. SUFFICES ASSUME errors = {}, HasKernel PROVE FALSE
  BY DEF Cause
<1>2. pc = "find" /\ parsed /\ machine \in Machines
  BY <1>1 DEF ScanSector, DiskInv
<1>3. /\ sector \in 1 .. Len(machine.root) /\ Len(machine.root) \in Nat
      /\ machine.root \in Seq(Seq(DirEntries)) /\ entries \in Seq(DirEntries)
  <2>1. machine.root \in Seq(Seq(DirEntries)) /\ Len(machine.root) \in Nat
    BY <1>2, MachineParts
  <2>2. sector \in 1 .. Len(machine.root)
    BY DEF DiskInv
  <2> QED
    BY <2>1, <2>2
<1>4. PICK s \in 1 .. Len(machine.root) : \E i \in 1 .. Len(machine.root[s]) :
        /\ machine.root[s][i].kind = "kernel" /\ machine.root[s][i].cluster # 0
        /\ \A t \in 1 .. s : \A j \in 1 .. Len(machine.root[t]) :
             machine.root[t][j].kind = "end" => t = s /\ j > i
  BY <1>1 DEF HasKernel
<1>5. PICK i \in 1 .. Len(machine.root[s]) :
        /\ machine.root[s][i].kind = "kernel" /\ machine.root[s][i].cluster # 0
        /\ \A t \in 1 .. s : \A j \in 1 .. Len(machine.root[t]) :
             machine.root[t][j].kind = "end" => t = s /\ j > i
  BY <1>4
<1>6. Stops(machine.root[s][i])
  BY <1>5 DEF Stops
<1>7. s >= sector
  <2>1. s \notin 1 .. sector - 1
    BY <1>5, <1>6 DEF DiskInv
  <2> QED
    BY <1>3, <2>1
<1>8. ~(stops = {} /\ sector = Len(machine.root))
  <2>1. SUFFICES ASSUME stops = {}, sector = Len(machine.root) PROVE FALSE
    OBVIOUS
  <2>2. s = sector
    BY <1>3, <1>7, <2>1
  <2> QED
    BY <1>6, <2>1, <2>2
<1>9. PICK k \in stops :
        /\ \A j \in stops : k <= j
        /\ cluster' = IF entries[k].kind = "end" THEN 0 ELSE entries[k].cluster
        /\ pc' = IF cluster' = 0 THEN "halt" ELSE "load"
  <2> HIDE DEF entries, stops
  <2> QED
    BY <1>2, <1>8 DEF ScanSector, entries, stops
<1>10. cluster' = 0 /\ k \in 1 .. Len(entries) /\ Stops(entries[k])
  BY <1>9
<1>11. sector \in 1 .. s
  BY <1>3, <1>7
<1>12. CASE entries[k].kind = "end"
  <2>1. sector = s /\ k > i
    BY <1>5, <1>10, <1>11, <1>12
  <2>2. i \in stops
    BY <1>6, <2>1
  <2>3. k <= i
    BY <1>9, <2>2
  <2> QED
    BY <1>3, <1>10, <2>1, <2>3
<1>13. CASE entries[k].kind # "end"
  <2>1. entries[k].kind = "kernel" /\ entries[k].cluster = 0
    BY <1>9, <1>10, <1>13 DEF Stops
  <2>2. sector = s /\ k = i
    <3>1. \A t \in 1 .. Len(machine.root) : \A j \in 1 .. Len(machine.root[t]) :
             machine.root[t][j].kind = "kernel" => t = s /\ j = i
      <4>1. NameUnique(machine)
        BY <1>2 DEF DisksSound
      <4> QED
        BY <1>5, <4>1 DEF NameUnique
    <3> QED
      BY <1>3, <1>10, <2>1, <3>1
  <2> QED
    BY <1>5, <2>1, <2>2
<1> QED
  BY <1>12, <1>13

\* elf_load rejects only what is not the file.
LEMMA HeaderHaltsWithCause ==
  ASSUME DisksSound, DiskInv, ElfHeader, pc' = "halt"
  PROVE  Cause
<1>1. SUFFICES ASSUME errors = {} PROVE FALSE
  BY DEF Cause
<1>2. pc = "switch" /\ ~(loaded # <<>> /\ loaded[1] = machine.chain[1])
  BY DEF ElfHeader, Goto
<1>3. LoadedTo(Len(machine.chain)) /\ machine \in Machines
  BY <1>1, <1>2 DEF DiskInv
<1>4. Len(machine.chain) \in 1 .. LoadRoom /\ LoadRoom \in Nat
  BY <1>3, BootAssumption DEF DisksSound, ChainSound
<1>5. Len(loaded) > 0 /\ loaded[1] = machine.chain[1]
  BY <1>3, <1>4 DEF LoadedTo
<1> QED
  BY <1>2, <1>5

\* A cause stays one: the machine does not change and errors are not forgotten.
LEMMA CauseStays ==
  ASSUME machine' = machine, errors \subseteq errors', Cause
  PROVE  Cause'
BY DEF Cause, HasKernel

\* Every step keeps CauseInv.
LEMMA CauseStepKeeps ==
  ASSUME DisksSound
  PROVE  DiskInv /\ CauseInv /\ [Next]_vars => CauseInv'
<1> SUFFICES ASSUME DiskInv, CauseInv, [Next]_vars PROVE CauseInv'
  OBVIOUS
<1> DEFINE Ways == {"bios", "kbd1", "kbd2", "kbd3", "fast", "check"}
<1>1. ASSUME UNCHANGED <<machine, a20>>, errors \subseteq errors', pc' \notin Ways,
             pc' = "halt" => pc = "halt" \/ Cause'
      PROVE  CauseInv'
  <2>1. pc' = "halt" => Cause'
    BY <1>1, CauseStays DEF CauseInv
  <2> QED
    BY <1>1, <2>1 DEF CauseInv
<1> USE DEF Goto, a20Vars, stage1Vars, elfVars, fatVars, mapVars
<1>2. ASSUME NEW all \in BOOLEAN, ReadStage2(all) PROVE CauseInv'
  BY <1>2 DEF ReadStage2, CauseInv
<1>3. CASE ReadStage2Fails \/ ResetDrive
  BY <1>1, <1>3 DEF ReadStage2Fails, ResetDrive
<1>4. CASE A20Bios
  BY <1>4 DEF A20Bios, CauseInv
<1>5. CASE KbdCommand
  BY <1>5 DEF KbdCommand, CauseInv
<1>6. CASE KbdData
  BY <1>6 DEF KbdData, CauseInv
<1>7. CASE KbdTest
  BY <1>7 DEF KbdTest, CauseInv
<1>8. CASE A20Fast
  BY <1>8 DEF A20Fast, CauseInv
<1>9. CASE CheckA20
  <2>1. pc = "check" /\ pc' = (IF a20 THEN "e820" ELSE "halt") /\ UNCHANGED <<machine, a20, errors>>
    BY <1>9 DEF CheckA20
  <2>2. ~a20 => Cause
    BY <2>1 DEF CauseInv, Cause
  <2>3. ~a20 => Cause'
    BY <2>1, <2>2, CauseStays
  <2> QED
    BY <1>1, <2>1, <2>3
<1>10. CASE DetectMemory
  <2>1. pc' \in {"e820", "e801", "bpb"} /\ UNCHANGED <<machine, a20, errors>>
    BY <1>10 DEF DetectMemory
  <2> QED
    BY <1>1, <2>1
<1>11. CASE TryE801
  <2>1. pc' = "bpb" /\ UNCHANGED <<machine, a20, errors>>
    BY <1>11 DEF TryE801
  <2> QED
    BY <1>1, <2>1
<1>12. ASSUME NEW ok \in BOOLEAN, ReadBpb(ok) \/ ReadFat(ok) PROVE CauseInv'
  <2>1. pc' \in {"fat", "find"} /\ UNCHANGED <<machine, a20>> /\ errors \subseteq errors'
    BY <1>12 DEF ReadBpb, ReadFat
  <2> QED
    BY <1>1, <2>1
<1>13. CASE ScanSector
  <2>1. pc' \in {"find", "halt", "load"} /\ UNCHANGED <<machine, a20, errors>>
    BY <1>13 DEF ScanSector
  <2>2. pc' = "halt" => Cause'
    BY <1>13, <2>1, ScanHaltsWithCause, CauseStays
  <2> QED
    BY <1>1, <2>1, <2>2
<1>14. CASE ScanFails
  <2>1. pc' = "halt" /\ errors' = errors \cup {"root"} /\ UNCHANGED <<machine, a20>>
    BY <1>14 DEF ScanFails
  <2>2. Cause'
    BY <2>1 DEF Cause
  <2> QED
    BY <1>1, <2>1, <2>2
<1>15. CASE LoadCluster
  <2>1. pc' \in {"wild", "switch", "load"} /\ UNCHANGED <<machine, a20, errors>>
    BY <1>15 DEF LoadCluster
  <2> QED
    BY <1>1, <2>1
<1>16. CASE LoadFails
  <2>1. pc' = "switch" /\ errors \subseteq errors' /\ UNCHANGED <<machine, a20>>
    BY <1>16 DEF LoadFails
  <2> QED
    BY <1>1, <2>1
<1>17. CASE ElfHeader
  <2>1. pc' \in {"segments", "halt"} /\ UNCHANGED <<machine, a20, errors>>
    BY <1>17 DEF ElfHeader
  <2>2. pc' = "halt" => Cause'
    BY <1>17, <2>1, HeaderHaltsWithCause, CauseStays
  <2> QED
    BY <1>1, <2>1, <2>2
<1>18. CASE ElfSegment
  <2>1. pc' = "segments" /\ UNCHANGED <<machine, a20, errors>>
    BY <1>18 DEF ElfSegment
  <2> QED
    BY <1>1, <2>1
<1>19. CASE HandOver
  BY <1>1, <1>19 DEF HandOver
<1>20. CASE ControllerTakes
  <2>1. UNCHANGED <<machine, pc, a20, errors>>
    BY <1>20 DEF ControllerTakes
  <2> QED
    BY <2>1, CauseStays DEF CauseInv
<1>21. CASE UNCHANGED vars
  <2>1. UNCHANGED <<machine, pc, a20, errors>>
    BY <1>21 DEF vars
  <2> QED
    BY <2>1, CauseStays DEF CauseInv
<1> QED
  BY <1>2, <1>3, <1>4, <1>5, <1>6, <1>7, <1>8, <1>9, <1>10, <1>11, <1>12, <1>13,
     <1>14, <1>15, <1>16, <1>17, <1>18, <1>19, <1>20, <1>21 DEF Next, LoaderStep

\* The loader gives up only when it has to, on every machine and sound disk: stage 1
\* without tries left or after a short read, stage 2 when no way opens A20, a read has
\* failed or the disk has no kernel.
THEOREM GivesUpWithCauseHolds ==
  ASSUME DisksSound
  PROVE  Spec => []GivesUpWithCause
<1>1. Init => CauseInv
  BY DEF Init, CauseInv
<1>2. BootInv /\ CauseInv => GivesUpWithCause
  BY DEF BootInv, CauseInv, Cause, GivesUpWithCause
<1> QED
  BY <1>1, <1>2, BootInvHolds, DiskInvHolds, CauseStepKeeps, PTL DEF Spec

-----------------------------------------------------------------------------
(* The kernel that is entered.                                             *)

\* The kernel's file as the linker leaves it: a segment is not larger in the file than
\* in memory, lies in the file and in the memory there is, and overlaps no other.
SegmentsSound ==
  /\ \A s \in 1 .. Len(Phdrs) : Phdrs[s].load =>
       /\ Phdrs[s].filesz <= Phdrs[s].memsz /\ Phdrs[s].paddr + Phdrs[s].memsz <= HighRoom
       /\ \A m \in Machines : Phdrs[s].offset + Phdrs[s].filesz <= Len(m.chain)
  /\ \A s, t \in 1 .. Len(Phdrs) : s # t /\ Phdrs[s].load /\ Phdrs[t].load =>
       \/ Phdrs[s].paddr + Phdrs[s].memsz <= Phdrs[t].paddr
       \/ Phdrs[t].paddr + Phdrs[t].memsz <= Phdrs[s].paddr

\* Segment s is in its place.
SegmentRight(s) ==
  /\ \A k \in 0 .. Phdrs[s].filesz - 1 :
       high[Phdrs[s].paddr + k] = machine.chain[Phdrs[s].offset + k + 1]
  /\ \A k \in Phdrs[s].filesz .. Phdrs[s].memsz - 1 : high[Phdrs[s].paddr + k] = Zero

\* Stage 2 runs when it was read completely; the segments that elf_load is done with are
\* in their place, unless a read has failed; the kernel is entered after all of them.
ImageInv ==
  /\ pc \notin {"read", "reset", "error"} => whole
  /\ phdr \in 1 .. Len(Phdrs) + 1
  /\ pc \in {"segments", "kernel"} /\ errors = {} =>
       \A s \in 1 .. phdr - 1 : Phdrs[s].load => SegmentRight(s)
  /\ pc = "kernel" => phdr > Len(Phdrs)

\* The fields of a program header have their types.
LEMMA PhdrParts ==
  /\ Len(Phdrs) \in Nat
  /\ \A s \in 1 .. Len(Phdrs) :
       /\ Phdrs[s].offset \in Nat /\ Phdrs[s].filesz \in Nat
       /\ Phdrs[s].memsz \in Nat /\ Phdrs[s].paddr \in Nat
<1> DEFINE T == [load : BOOLEAN, offset : Nat, filesz : Nat, memsz : Nat, paddr : Nat]
<1>1. Phdrs \in Seq(T)
  BY PhdrsAssumption
<1>2. \A p \in T : p.offset \in Nat /\ p.filesz \in Nat /\ p.memsz \in Nat /\ p.paddr \in Nat
  OBVIOUS
<1> HIDE DEF T
<1>3. Len(Phdrs) \in Nat /\ \A s \in 1 .. Len(Phdrs) : Phdrs[s] \in T
  BY <1>1
<1> QED
  BY <1>2, <1>3

\* One round of elf_load's loop puts a segment in its place and leaves the others where
\* they are.
LEMMA SegmentKeeps ==
  ASSUME DisksSound, SegmentsSound, DiskInv, ImageInv, ElfSegment
  PROVE  ImageInv'
<1>1. /\ pc = "segments" /\ pc' = "segments" /\ phdr <= Len(Phdrs) /\ phdr' = phdr + 1
      /\ UNCHANGED <<machine, whole, loaded, errors>> /\ machine \in Machines
      /\ high' = IF Phdrs[phdr].load
                 THEN [i \in 0 .. HighRoom - 1 |-> Placed(Phdrs[phdr], i)] ELSE high
  BY DEF ElfSegment, Goto, stage1Vars, fatVars, DiskInv
<1>2. Len(Phdrs) \in Nat /\ phdr \in 1 .. Len(Phdrs)
  <2>1. Len(Phdrs) \in Nat
    BY PhdrParts
  <2> QED
    BY <1>1, <2>1 DEF ImageInv
<1>3. phdr' \in 1 .. Len(Phdrs) + 1
  BY <1>1, <1>2
<1>4. ASSUME errors = {}, NEW s \in 1 .. phdr, Phdrs[s].load PROVE SegmentRight(s)'
  <2>1. LoadedTo(Len(machine.chain))
    BY <1>1, <1>4 DEF DiskInv
  <2>2. Len(machine.chain) \in Nat /\ HighRoom \in Nat
    BY <1>1, MachineParts, BootAssumption
  <2>3. s \in 1 .. Len(Phdrs)
    BY <1>2
  <2>4. /\ Phdrs[s].filesz <= Phdrs[s].memsz /\ Phdrs[s].paddr + Phdrs[s].memsz <= HighRoom
        /\ Phdrs[s].offset + Phdrs[s].filesz <= Len(machine.chain)
    BY <1>1, <1>4, <2>3 DEF SegmentsSound
  <2>5. PICK a \in Nat, n \in Nat, w \in Nat, o \in Nat :
          /\ a = Phdrs[s].paddr /\ n = Phdrs[s].filesz /\ w = Phdrs[s].memsz
          /\ o = Phdrs[s].offset
    BY <2>3, PhdrParts
  <2>6. n <= w /\ a + w <= HighRoom /\ o + n <= Len(machine.chain)
    BY <2>4, <2>5
  <2>7. SUFFICES /\ \A k \in 0 .. n - 1 : high'[a + k] = machine.chain[o + k + 1]
                 /\ \A k \in n .. w - 1 : high'[a + k] = Zero
    BY <1>1, <2>5 DEF SegmentRight
  <2>8. CASE s = phdr
    <3>1. high' = [i \in 0 .. HighRoom - 1 |-> Placed(Phdrs[s], i)]
      BY <1>1, <1>4, <2>8
    <3>2. ASSUME NEW k \in 0 .. n - 1 PROVE high'[a + k] = machine.chain[o + k + 1]
      <4>1. /\ a + k \in 0 .. HighRoom - 1 /\ a <= a + k /\ a + k < a + n
            /\ o + (a + k) - a = o + k
        BY <2>2, <2>6
      <4>2. high'[a + k] = FileAt(o + k)
        BY SMTT(40), <2>5, <3>1, <4>1 DEF Placed
      <4>3. o + k < Len(loaded) /\ o + k + 1 \in 1 .. Len(machine.chain)
        BY <2>1, <2>2, <2>6 DEF LoadedTo
      <4> QED
        BY <2>1, <4>2, <4>3 DEF FileAt, LoadedTo
    <3>3. ASSUME NEW k \in n .. w - 1 PROVE high'[a + k] = Zero
      <4>1. a + k \in 0 .. HighRoom - 1 /\ ~(a + k < a + n) /\ a + n <= a + k /\ a + k < a + w
        BY <2>2, <2>6
      <4> QED
        BY <2>5, <3>1, <4>1 DEF Placed
    <3> QED
      BY <3>2, <3>3
  <2>9. CASE s # phdr
    <3>1. s \in 1 .. phdr - 1
      BY <1>2, <2>9
    <3>2. SegmentRight(s)
      BY <1>1, <1>4, <3>1 DEF ImageInv
    <3>3. /\ \A k \in 0 .. n - 1 : high[a + k] = machine.chain[o + k + 1]
          /\ \A k \in n .. w - 1 : high[a + k] = Zero
      BY <2>5, <3>2 DEF SegmentRight
    <3>4. CASE ~Phdrs[phdr].load
      BY <1>1, <3>3, <3>4
    <3>5. CASE Phdrs[phdr].load
      <4>1. PICK b \in Nat, m \in Nat, v \in Nat :
              b = Phdrs[phdr].paddr /\ m = Phdrs[phdr].filesz /\ v = Phdrs[phdr].memsz
        BY <1>2, PhdrParts
      <4>2. m <= v
        BY <1>2, <3>5, <4>1 DEF SegmentsSound
      <4>3. a + w <= b \/ b + v <= a
        BY <1>2, <1>4, <2>3, <2>5, <2>9, <3>5, <4>1 DEF SegmentsSound
      <4>4. high' = [i \in 0 .. HighRoom - 1 |-> Placed(Phdrs[phdr], i)]
        BY <1>1, <3>5
      <4>5. ASSUME NEW k \in 0 .. w - 1 PROVE high'[a + k] = high[a + k]
        <5>1. a + k \in 0 .. HighRoom - 1
          BY <2>2, <2>6
        <5>2. ~(b <= a + k /\ a + k < b + m) /\ ~(b + m <= a + k /\ a + k < b + v)
          BY <4>2, <4>3
        <5> QED
          BY <4>1, <4>4, <5>1, <5>2 DEF Placed
      <4>6. /\ \A k \in 0 .. n - 1 : k \in 0 .. w - 1
            /\ \A k \in n .. w - 1 : k \in 0 .. w - 1
        BY <2>6
      <4> QED
        BY <3>3, <4>5, <4>6
    <3> QED
      BY <3>4, <3>5
  <2> QED
    BY <2>8, <2>9
<1>5. \A s \in 1 .. phdr' - 1 : s \in 1 .. phdr
  BY <1>1, <1>2
<1>6. whole'
  BY <1>1 DEF ImageInv
<1> QED
  BY <1>1, <1>3, <1>4, <1>5, <1>6 DEF ImageInv

\* Every step keeps ImageInv.
LEMMA ImageStepKeeps ==
  ASSUME DisksSound, SegmentsSound
  PROVE  BootInv /\ DiskInv /\ ImageInv /\ [Next]_vars => ImageInv'
<1> SUFFICES ASSUME BootInv, DiskInv, ImageInv, [Next]_vars PROVE ImageInv'
  OBVIOUS
<1>1. ASSUME UNCHANGED <<machine, phdr, high>>, errors \subseteq errors',
             pc' \notin {"read", "reset", "error"} => whole',
             \/ pc' \notin {"segments", "kernel"}
             \/ pc' = pc
             \/ pc \notin {"segments", "kernel"} /\ pc' = "segments"
             \/ pc = "segments" /\ pc' = "kernel" /\ phdr > Len(Phdrs)
      PROVE  ImageInv'
  <2>1. ASSUME NEW s PROVE SegmentRight(s)' = SegmentRight(s)
    BY <1>1 DEF SegmentRight
  <2>2. CASE pc' \notin {"segments", "kernel"}
    BY <1>1, <2>2 DEF ImageInv
  <2>3. CASE pc' = pc
    BY <1>1, <2>1, <2>3 DEF ImageInv
  <2>4. CASE pc \notin {"segments", "kernel"} /\ pc' = "segments"
    <3>1. phdr = 1 /\ Len(Phdrs) \in Nat
      BY <2>4, PhdrsAssumption DEF BootInv, ImageInv
    <3>2. \A s \in 1 .. phdr - 1 : FALSE
      BY <3>1
    <3> QED
      BY <1>1, <2>4, <3>1, <3>2 DEF ImageInv
  <2>5. CASE pc = "segments" /\ pc' = "kernel" /\ phdr > Len(Phdrs)
    BY <1>1, <2>1, <2>5 DEF ImageInv
  <2> QED
    BY <1>1, <2>2, <2>3, <2>4, <2>5
<1> USE DEF Goto, stage1Vars, elfVars
<1>2. ASSUME NEW all \in BOOLEAN, ReadStage2(all) PROVE ImageInv'
  <2>1. pc' \in {"bios", "error"} /\ errors \subseteq errors' /\ UNCHANGED <<machine, phdr, high>>
    BY <1>2 DEF ReadStage2
  <2>2. pc' = "bios" => whole'
    BY <1>2 DEF ReadStage2
  <2> QED
    BY <1>1, <2>1, <2>2
<1>3. CASE ReadStage2Fails \/ ResetDrive
  BY <1>1, <1>3 DEF ReadStage2Fails, ResetDrive
<1>4. CASE A20Bios
  BY <1>1, <1>4 DEF A20Bios, ImageInv
<1>5. CASE KbdCommand \/ KbdData \/ KbdTest \/ A20Fast \/ CheckA20
  BY <1>1, <1>5 DEF KbdCommand, KbdData, KbdTest, A20Fast, CheckA20, ImageInv
<1>6. CASE DetectMemory
  <2>1. /\ pc = "e820" /\ pc' \in {"e820", "e801", "bpb"}
        /\ UNCHANGED <<machine, whole, phdr, high, errors>>
    BY <1>6 DEF DetectMemory
  <2> QED
    BY <1>1, <2>1 DEF ImageInv
<1>7. CASE TryE801
  <2>1. pc = "e801" /\ pc' = "bpb" /\ UNCHANGED <<machine, whole, phdr, high, errors>>
    BY <1>7 DEF TryE801
  <2> QED
    BY <1>1, <2>1 DEF ImageInv
<1>8. ASSUME NEW ok \in BOOLEAN, ReadBpb(ok) \/ ReadFat(ok) PROVE ImageInv'
  <2>1. /\ pc \in {"bpb", "fat"} /\ pc' \in {"fat", "find"} /\ errors \subseteq errors'
        /\ UNCHANGED <<machine, whole, phdr, high>>
    BY <1>8 DEF ReadBpb, ReadFat
  <2> QED
    BY <1>1, <2>1 DEF ImageInv
<1>9. CASE ScanSector \/ ScanFails
  <2>1. /\ pc = "find" /\ pc' \in {"find", "halt", "load"} /\ errors \subseteq errors'
        /\ UNCHANGED <<machine, whole, phdr, high>>
    BY <1>9 DEF ScanSector, ScanFails
  <2> QED
    BY <1>1, <2>1 DEF ImageInv
<1>10. CASE LoadCluster \/ LoadFails
  <2>1. /\ pc = "load" /\ pc' \in {"load", "wild", "switch"} /\ errors \subseteq errors'
        /\ UNCHANGED <<machine, whole, phdr, high>>
    BY <1>10 DEF LoadCluster, LoadFails
  <2> QED
    BY <1>1, <2>1 DEF ImageInv
<1>11. CASE ElfHeader
  BY <1>1, <1>11 DEF ElfHeader, ImageInv
<1>12. CASE ElfSegment
  BY <1>12, SegmentKeeps
<1>13. CASE HandOver
  BY <1>1, <1>13 DEF HandOver, ImageInv
<1>14. CASE ControllerTakes
  BY <1>1, <1>14 DEF ControllerTakes, ImageInv
<1>15. CASE UNCHANGED vars
  BY <1>1, <1>15 DEF vars, ImageInv
<1> QED
  BY <1>2, <1>3, <1>4, <1>5, <1>6, <1>7, <1>8, <1>9, <1>10, <1>11, <1>12, <1>13,
     <1>14, <1>15 DEF Next, LoaderStep

\* The kernel that is entered after reads that succeeded is the whole file, segment by
\* segment, with cleared memory behind; and the stage 2 that did it was whole.
THEOREM WholeWhenReadableHolds ==
  ASSUME DisksSound, SegmentsSound
  PROVE  Spec => []WholeWhenReadable
<1>1. Init => ImageInv
  <2>1. SUFFICES ASSUME Init PROVE ImageInv
    OBVIOUS
  <2>2. Len(Phdrs) \in Nat
    BY PhdrsAssumption
  <2> QED
    BY <2>1, <2>2 DEF Init, ImageInv
<1>2. ImageInv => WholeWhenReadable
  <2> SUFFICES ASSUME ImageInv, pc = "kernel", errors = {} PROVE whole /\ ImageRight
    BY DEF WholeWhenReadable
  <2>1. Len(Phdrs) \in Nat /\ phdr = Len(Phdrs) + 1
    BY PhdrsAssumption DEF ImageInv
  <2>2. \A s \in 1 .. Len(Phdrs) : Phdrs[s].load => SegmentRight(s)
    BY <2>1 DEF ImageInv
  <2> QED
    BY <2>2 DEF ImageInv, SegmentRight, ImageRight
<1> QED
  BY <1>1, <1>2, BootInvHolds, DiskInvHolds, ImageStepKeeps, PTL DEF Spec

-----------------------------------------------------------------------------
(* The memory map.                                                         *)

\* A machine that answers E801 has no hole below 16 MB if it has memory above it: the
\* loader makes one entry of the two numbers.
NoHoleBelow16MB ==
  \A m \in Machines : m.e801.ok =>
    IF m.e801.cx = 0 THEN m.e801.bx = 0 \/ ExtBase + m.e801.ax = ExtTop
                     ELSE m.e801.dx = 0 \/ ExtBase + m.e801.cx = ExtTop

MapEntries == [base : Nat, length : Nat, usable : BOOLEAN]

\* What a map calls usable lies in ram.
MapsOnly(map, ram) ==
  \A i \in 1 .. Len(map) : map[i].usable => Span(map[i].base, map[i].length) \subseteq ram

\* Where the loader is before the E820 calls are over.
UpToE820 == {"read", "reset", "bios", "kbd1", "kbd2", "kbd3", "fast", "check", "e820"}

\* What is in the map, so far, is memory, and so is what the kernel was given.
MapInv ==
  /\ machine \in Machines
  /\ pc \in UpToE820 => ebx \in 1 .. Len(machine.e820)
  /\ mmap \in Seq(MapEntries) /\ MapsOnly(mmap, Ram)
  /\ MapsOnly(mbi, Ram)

\* An answer that is kept and calls memory usable is memory.
LEMMA AnswerIsRam ==
  ASSUME NEW k \in 1 .. Len(machine.e820), machine.e820[k].ok, Keeps(machine.e820[k]),
         machine.e820[k].usable
  PROVE  Span(machine.e820[k].base, machine.e820[k].length) \subseteq Ram
<1>1. k \in {j \in 1 .. Len(machine.e820) :
               /\ machine.e820[j].ok /\ machine.e820[j].bytes >= 20
               /\ machine.e820[j].usable}
  BY DEF Keeps
<1> QED
  BY <1>1 DEF Ram, RamE820

\* The two numbers of E801 are memory, as one entry, if there is no hole between them;
\* a sum that wraps is only smaller.
LEMMA E801IsRam ==
  ASSUME NoHoleBelow16MB, machine \in Machines, machine.e801.ok,
         NEW below \in Nat, NEW above \in Nat,
         below = (IF machine.e801.cx = 0 THEN machine.e801.ax ELSE machine.e801.cx),
         above = (IF machine.e801.cx = 0 THEN machine.e801.bx ELSE machine.e801.dx)
  PROVE  /\ (below + above * Block) % Word \in Nat
         /\ Span(0, LowLength) \subseteq Ram
         /\ Span(ExtBase, (below + above * Block) % Word) \subseteq Ram
<1>1. /\ Word \in Nat \ {0} /\ ExtBase \in Nat /\ ExtTop \in Nat /\ Block \in Nat
      /\ LowLength \in Nat
  BY BootAssumption
<1>2. above * Block \in Nat
  BY <1>1
<1>3. PICK high0 \in Nat : high0 = above * Block
  BY <1>2
<1>4. PICK n \in Nat : n = (below + high0) % Word /\ n <= below + high0
  <2>1. (below + high0) % Word \in Nat /\ (below + high0) % Word <= below + high0
    BY <1>1
  <2> QED
    BY <2>1
<1>5. /\ Span(0, LowLength) \subseteq Ram /\ Span(ExtBase, below) \subseteq Ram
      /\ Span(ExtTop, high0) \subseteq Ram
  <2>1. RamE801 = Span(0, LowLength) \cup Span(ExtBase, below) \cup Span(ExtTop, high0)
    BY <1>3 DEF RamE801
  <2> QED
    BY <2>1 DEF Ram
<1>6. above = 0 \/ ExtBase + below = ExtTop
  BY DEF NoHoleBelow16MB
<1>7. ASSUME NEW x \in Span(ExtBase, n) PROVE x \in Span(ExtBase, below) \cup Span(ExtTop, high0)
  <2>1. x \in Nat /\ ExtBase <= x /\ x <= ExtBase + n - 1
    BY <1>1 DEF Span
  <2>2. CASE above = 0
    <3>1. high0 = 0
      BY <1>1, <1>3, <2>2
    <3> QED
      BY <1>1, <1>4, <2>1, <3>1 DEF Span
  <2>3. CASE ExtBase + below = ExtTop
    BY <1>1, <1>4, <2>1, <2>3 DEF Span
  <2> QED
    BY <1>6, <2>2, <2>3
<1>8. Span(0, LowLength) \subseteq Ram /\ Span(ExtBase, n) \subseteq Ram
  BY <1>3, <1>5, <1>7
<1> QED
  BY <1>3, <1>4, <1>8

\* Steps that leave the map alone.
LEMMA MapKept ==
  ASSUME MapInv, UNCHANGED <<machine, ebx, mmap>>, mbi' \in {mbi, mmap},
         pc' \in UpToE820 => pc \in UpToE820
  PROVE  MapInv'
<1>1. Ram' = Ram
  BY DEF Ram, RamE820, RamE801
<1> QED
  BY <1>1 DEF MapInv

\* One E820 call keeps the map sound.
LEMMA DetectKeeps ==
  ASSUME MapInv, DetectMemory
  PROVE  MapInv'
<1> DEFINE a == machine.e820[ebx]
           e == Entry(a.base, a.length, a.usable)
<1>1. pc = "e820" /\ UNCHANGED <<machine, mbi>> /\ machine \in Machines
  BY DEF DetectMemory, elfVars, MapInv
<1>2. ebx \in 1 .. Len(machine.e820)
  BY <1>1 DEF MapInv, UpToE820
<1>3. machine.e820 \in Seq(Answers) /\ Len(machine.e820) \in Nat
  BY <1>1, MachineParts
<1>4. Ram' = Ram
  BY <1>1 DEF Ram, RamE820, RamE801
<1>5. CASE a.ok
  <2>1. /\ mmap' = IF Keeps(a) THEN Append(mmap, e) ELSE mmap
        /\ pc' = IF ebx = Len(machine.e820) THEN "bpb" ELSE "e820"
        /\ ebx' = ebx + 1
    BY <1>5 DEF DetectMemory
  <2>2. pc' \in UpToE820 => ebx' \in 1 .. Len(machine'.e820)
    BY <1>1, <1>2, <1>3, <2>1 DEF UpToE820
  <2>3. a \in Answers
    BY <1>2, <1>3
  <2>4. e \in MapEntries
    BY <2>3 DEF Answers, Entry, MapEntries
  <2>5. e.base = a.base /\ e.length = a.length /\ e.usable = a.usable
    BY DEF Entry
  <2>6. Keeps(a) /\ e.usable => Span(e.base, e.length) \subseteq Ram
    BY <1>2, <1>5, <2>5, AnswerIsRam
  <2> HIDE DEF a, e
  <2>7. mmap' \in Seq(MapEntries) /\ MapsOnly(mmap', Ram)
    <3>1. CASE Keeps(a)
      <4>1. mmap' = Append(mmap, e) /\ mmap \in Seq(MapEntries) /\ MapsOnly(mmap, Ram)
        BY <2>1, <3>1 DEF MapInv
      <4>2. ASSUME NEW i \in 1 .. Len(mmap'), mmap'[i].usable
            PROVE  Span(mmap'[i].base, mmap'[i].length) \subseteq Ram
        <5>1. CASE i \in 1 .. Len(mmap)
          <6>1. mmap'[i] = mmap[i]
            BY <4>1, <5>1
          <6> QED
            BY <4>1, <4>2, <5>1, <6>1 DEF MapsOnly
        <5>2. CASE i = Len(mmap) + 1
          <6>1. mmap'[i] = e
            BY <4>1, <5>2
          <6> QED
            BY <2>6, <3>1, <4>2, <6>1
        <5> QED
          BY <4>1, <5>1, <5>2
      <4>3. mmap' \in Seq(MapEntries)
        BY <2>4, <4>1
      <4> QED
        BY <4>2, <4>3 DEF MapsOnly
    <3>2. CASE ~Keeps(a)
      BY <2>1, <3>2 DEF MapInv
    <3> QED
      BY <3>1, <3>2
  <2> QED
    BY <1>1, <1>4, <2>2, <2>7 DEF MapInv
<1>6. CASE ~a.ok
  <2>1. UNCHANGED <<ebx, mmap>>
    BY <1>6 DEF DetectMemory, mapVars
  <2> QED
    BY <1>1, <2>1, MapKept DEF UpToE820
<1> QED
  BY <1>5, <1>6

\* The entries that E801 gives are memory.
LEMMA E801Keeps ==
  ASSUME NoHoleBelow16MB, MapInv, TryE801
  PROVE  MapInv'
<1>1. pc' = "bpb" /\ UNCHANGED <<machine, ebx, mbi>> /\ machine \in Machines
  BY DEF TryE801, Goto, elfVars, MapInv
<1>2. CASE ~machine.e801.ok
  <2>1. mmap' = mmap
    BY <1>2 DEF TryE801
  <2> QED
    BY <1>1, <2>1, MapKept DEF UpToE820
<1>3. CASE machine.e801.ok
  <2>1. machine.e801 \in [ok : BOOLEAN, ax : Nat, bx : Nat, cx : Nat, dx : Nat]
    BY <1>1, MachineParts
  <2>2. PICK below \in Nat, above \in Nat :
          /\ below = (IF machine.e801.cx = 0 THEN machine.e801.ax ELSE machine.e801.cx)
          /\ above = (IF machine.e801.cx = 0 THEN machine.e801.bx ELSE machine.e801.dx)
    BY <2>1
  <2>3. PICK n \in Nat : /\ n = (below + above * Block) % Word
                         /\ Span(0, LowLength) \subseteq Ram /\ Span(ExtBase, n) \subseteq Ram
    BY <1>1, <1>3, <2>2, E801IsRam
  <2>4. mmap' = <<Entry(0, LowLength, TRUE), Entry(ExtBase, n, TRUE)>>
    BY <1>3, <2>2, <2>3 DEF TryE801
  <2>5. LowLength \in Nat /\ ExtBase \in Nat
    BY BootAssumption
  <2>6. PICK e1 \in MapEntries, e2 \in MapEntries :
          /\ e1 = Entry(0, LowLength, TRUE) /\ e2 = Entry(ExtBase, n, TRUE)
          /\ e1.base = 0 /\ e1.length = LowLength /\ e2.base = ExtBase /\ e2.length = n
    <3>1. Entry(0, LowLength, TRUE) \in MapEntries /\ Entry(ExtBase, n, TRUE) \in MapEntries
      BY <2>5 DEF Entry, MapEntries
    <3>2. /\ Entry(0, LowLength, TRUE).base = 0
          /\ Entry(0, LowLength, TRUE).length = LowLength
          /\ Entry(ExtBase, n, TRUE).base = ExtBase /\ Entry(ExtBase, n, TRUE).length = n
      BY DEF Entry
    <3> QED
      BY <3>1, <3>2
  <2>7. mmap' \in Seq(MapEntries) /\ Len(mmap') = 2 /\ mmap'[1] = e1 /\ mmap'[2] = e2
    <3>1. mmap' = <<e1, e2>>
      BY <2>4, <2>6
    <3> QED
      BY <3>1
  <2>8. MapsOnly(mmap', Ram)
    <3>1. \A i \in 1 .. Len(mmap') : i = 1 \/ i = 2
      BY <2>7
    <3> QED
      BY <2>3, <2>6, <2>7, <3>1 DEF MapsOnly
  <2>9. Ram' = Ram
    BY <1>1 DEF Ram, RamE820, RamE801
  <2> QED
    BY <1>1, <2>7, <2>8, <2>9 DEF MapInv, UpToE820
<1> QED
  BY <1>2, <1>3

\* Every step keeps MapInv.
LEMMA MapStepKeeps ==
  ASSUME NoHoleBelow16MB
  PROVE  MapInv /\ [Next]_vars => MapInv'
<1> SUFFICES ASSUME MapInv, [Next]_vars PROVE MapInv'
  OBVIOUS
<1> USE DEF Goto, mapVars, elfVars
<1>1. ASSUME NEW all \in BOOLEAN, ReadStage2(all) PROVE MapInv'
  BY <1>1, MapKept DEF ReadStage2, UpToE820
<1>2. CASE ReadStage2Fails \/ ResetDrive
  BY <1>2, MapKept DEF ReadStage2Fails, ResetDrive, UpToE820
<1>3. CASE A20Bios
  BY <1>3, MapKept DEF A20Bios, UpToE820
<1>4. CASE KbdCommand \/ KbdData \/ KbdTest \/ A20Fast \/ CheckA20
  BY <1>4, MapKept DEF KbdCommand, KbdData, KbdTest, A20Fast, CheckA20, UpToE820
<1>5. CASE DetectMemory
  BY <1>5, DetectKeeps
<1>6. CASE TryE801
  BY <1>6, E801Keeps
<1>7. ASSUME NEW ok \in BOOLEAN, ReadBpb(ok) \/ ReadFat(ok) PROVE MapInv'
  BY <1>7, MapKept DEF ReadBpb, ReadFat, UpToE820
<1>8. CASE ScanSector \/ ScanFails
  <2>1. pc' \in {"find", "halt", "load"} /\ UNCHANGED <<machine, ebx, mmap, mbi>>
    BY <1>8 DEF ScanSector, ScanFails
  <2> QED
    BY <2>1, MapKept DEF UpToE820
<1>9. CASE LoadCluster \/ LoadFails
  <2>1. pc' \in {"load", "wild", "switch"} /\ UNCHANGED <<machine, ebx, mmap, mbi>>
    BY <1>9 DEF LoadCluster, LoadFails
  <2> QED
    BY <2>1, MapKept DEF UpToE820
<1>10. CASE ElfHeader \/ HandOver
  BY <1>10, MapKept DEF ElfHeader, HandOver, UpToE820
<1>11. CASE ElfSegment
  <2>1. pc' = "segments" /\ UNCHANGED <<machine, ebx, mmap, mbi>>
    BY <1>11 DEF ElfSegment
  <2> QED
    BY <2>1, MapKept DEF UpToE820
<1>12. CASE ControllerTakes
  BY <1>12, MapKept DEF ControllerTakes
<1>13. CASE UNCHANGED vars
  BY <1>13, MapKept DEF vars
<1> QED
  BY <1>1, <1>2, <1>3, <1>4, <1>5, <1>6, <1>7, <1>8, <1>9, <1>10, <1>11, <1>12, <1>13
     DEF Next, LoaderStep

\* The kernel is told of no memory that the BIOS did not report, whatever mixture of
\* runts, empty answers and failures E820 gives and whichever registers E801 uses.
THEOREM MapIsRamHolds ==
  ASSUME NoHoleBelow16MB
  PROVE  Spec => []MapIsRam
<1>1. Init => MapInv
  <2> SUFFICES ASSUME Init PROVE MapInv
    OBVIOUS
  <2>1. machine \in Machines /\ Len(machine.e820) \in Nat \ {0} /\ ebx = 1
    BY MachineParts DEF Init
  <2>2. mmap = <<>> /\ mbi = <<>>
    BY DEF Init
  <2> QED
    BY <2>1, <2>2 DEF MapInv, MapsOnly
<1>2. MapInv => MapIsRam
  BY DEF MapInv, MapsOnly, MapIsRam
<1> QED
  BY <1>1, <1>2, MapStepKeeps, PTL DEF Spec
=============================================================================
