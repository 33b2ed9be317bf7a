-------------------------------- MODULE Boot --------------------------------
(***************************************************************************)
(* The boot loader: stage 1 (stage1.asm) reads stage 2 from the disk and   *)
(* retries; stage 2 (stage2.asm) opens the A20 line, asks the BIOS for the *)
(* memory map, reads the kernel's ELF file from the FAT16 disk, enters     *)
(* protected mode, puts the segments in their place and hands over.        *)
(*                                                                         *)
(* The machine (BIOS, keyboard controller and disk) is the environment: it *)
(* is chosen once, and every read of the disk may fail.  A cluster of the  *)
(* file is the unit of memory and its number stands for its contents.      *)
(***************************************************************************)
EXTENDS Integers, Sequences

CONSTANTS
  MaxRetries,   \* MAX_RETRIES
  Machines,     \* the machines the loader may find itself on
  Phdrs,        \* the program headers of the kernel's file
  EndMark,      \* 0xFFF8: from here on a FAT entry ends the chain
  StaleEntries, \* what FAT_BUF may hold when the FAT was not read
  LoadRoom,     \* the clusters that fit between 0x10000 and the stack at 0x90000
  HighRoom,     \* the memory from 1 MB on, in clusters
  Word,         \* 2^32, in units of memory
  LowLength,    \* 0x9FC00
  ExtBase,      \* 1 MB
  ExtTop,       \* 16 MB
  Block         \* a block of 64 KB

\* What an E820 call answers: it fails (carry, or no "SMAP"), or it fills in
\* some bytes of an entry.
Answers == [ok : BOOLEAN, bytes : Nat, base : Nat, length : Nat, usable : BOOLEAN]
DirEntries == [kind : {"end", "deleted", "long", "other", "kernel"}, cluster : Nat]

\* A machine: whether A20 is open at power on and what each of the three ways
\* does to it, the answers to E820, the one to E801, the sectors of the root
\* directory, and the clusters of the kernel's file with the mark that ends it.
MachineType ==
  [a20 : BOOLEAN, bios : {"opens", "lies", "refuses"}, kbd : BOOLEAN, fast : BOOLEAN,
   e820 : Seq(Answers), e801 : [ok : BOOLEAN, ax : Nat, bx : Nat, cx : Nat, dx : Nat],
   root : Seq(Seq(DirEntries)), chain : Seq(Nat), mark : Nat]

ASSUME BootAssumption ==
  /\ MaxRetries \in Nat \ {0} /\ EndMark \in Nat \ {0}
  /\ LoadRoom \in Nat /\ HighRoom \in Nat /\ StaleEntries \subseteq Nat
  /\ Word \in Nat \ {0} /\ LowLength \in Nat /\ ExtBase \in Nat /\ ExtTop \in Nat
  /\ Block \in Nat
ASSUME PhdrsAssumption ==
  Phdrs \in Seq([load : BOOLEAN, offset : Nat, filesz : Nat, memsz : Nat, paddr : Nat])
ASSUME MachinesAssumption ==
  /\ Machines \subseteq MachineType
  /\ \A m \in Machines : Len(m.e820) > 0 /\ Len(m.root) > 0

\* Contents that are not a cluster of the disk.
Junk == -1
Zero == -2

VARIABLES
  machine,   \* the environment
  pc,        \* where the loader is
  tries,     \* DI of stage 1
  whole,     \* all sectors of stage 2 are in memory
  a20,       \* the A20 line is open
  kbdBusy,   \* the input buffer of the keyboard controller is full
  ebx,       \* the number of the next E820 answer
  mmap,      \* the entries at MMAP_DATA
  parsed,    \* the BPB values are set
  cached,    \* FAT_BUF holds the FAT
  sector,    \* the sector of the root directory that is scanned
  cluster,   \* fat16_curr_cluster
  loaded,    \* what lies from 0x10000 on
  phdr,      \* the program header elf_load looks at
  high,      \* what lies from 1 MB on
  mbi,       \* the memory map at MBOOT_MMAP
  errors     \* history: the reads that failed, but for those stage 1 repeats

stage1Vars == <<tries, whole>>
a20Vars == <<a20, kbdBusy>>
mapVars == <<ebx, mmap>>
fatVars == <<parsed, cached, sector, cluster, loaded>>
elfVars == <<phdr, high, mbi>>
vars == <<machine, pc, stage1Vars, a20Vars, mapVars, fatVars, elfVars, errors>>

Goto(from, to) == pc = from /\ pc' = to

-----------------------------------------------------------------------------
(* Stage 1.                                                                *)

\* The BIOS reports success, with all of the sectors or with fewer.
ReadStage2(all) ==
  /\ Goto("read", IF all THEN "bios" ELSE "error")
  /\ whole' = all
  /\ errors' = IF all THEN errors ELSE errors \cup {"stage2"}
  /\ UNCHANGED <<machine, tries, a20Vars, mapVars, fatVars, elfVars>>

\* Mutant: the tries are not counted.
ReadStage2FailsForever ==
  /\ Goto("read", IF tries = 0 THEN "error" ELSE "reset")
  /\ UNCHANGED <<machine, tries, whole, a20Vars, mapVars, fatVars, elfVars, errors>>

\* The read fails: one try less.
ReadStage2Fails ==
  /\ Goto("read", IF tries = 1 THEN "error" ELSE "reset")
  /\ tries' = tries - 1
  /\ UNCHANGED <<machine, whole, a20Vars, mapVars, fatVars, elfVars, errors>>

\* The drive is reset, whatever comes of it, and read again.
ResetDrive ==
  /\ Goto("reset", "read")
  /\ UNCHANGED <<machine, stage1Vars, a20Vars, mapVars, fatVars, elfVars, errors>>

-----------------------------------------------------------------------------
(* Stage 2: A20.                                                           *)

\* Method 1, the BIOS: the line is tested when the call succeeds.
A20Bios ==
  /\ a20' = (a20 \/ machine.bios = "opens")
  /\ Goto("bios", IF machine.bios # "refuses" /\ a20' THEN "check" ELSE "kbd1")
  /\ UNCHANGED <<machine, stage1Vars, kbdBusy, mapVars, fatVars, elfVars, errors>>

\* Method 2, the keyboard controller: a command byte, a data byte and a test,
\* each once kbd_wait finds the controller's input buffer empty.
KbdCommand ==
  /\ ~kbdBusy /\ Goto("kbd1", "kbd2")
  /\ kbdBusy' = TRUE
  /\ UNCHANGED <<machine, stage1Vars, a20, mapVars, fatVars, elfVars, errors>>

KbdData ==
  /\ ~kbdBusy /\ Goto("kbd2", "kbd3")
  /\ kbdBusy' = TRUE
  /\ a20' = (a20 \/ machine.kbd)
  /\ UNCHANGED <<machine, stage1Vars, mapVars, fatVars, elfVars, errors>>

\* Mutant: the last way is not tried.
KbdTestLast ==
  /\ ~kbdBusy /\ Goto("kbd3", "check")
  /\ UNCHANGED <<machine, stage1Vars, a20Vars, mapVars, fatVars, elfVars, errors>>

KbdTest ==
  /\ ~kbdBusy /\ Goto("kbd3", IF a20 THEN "check" ELSE "fast")
  /\ UNCHANGED <<machine, stage1Vars, a20Vars, mapVars, fatVars, elfVars, errors>>

\* The controller takes the byte.
ControllerTakes ==
  /\ kbdBusy /\ kbdBusy' = FALSE
  /\ UNCHANGED <<machine, pc, stage1Vars, a20, mapVars, fatVars, elfVars, errors>>

\* Method 3, port 0x92.
A20Fast ==
  /\ Goto("fast", "check")
  /\ a20' = (a20 \/ machine.fast)
  /\ UNCHANGED <<machine, stage1Vars, kbdBusy, mapVars, fatVars, elfVars, errors>>

\* Mutant: the loader goes on whatever the last test says.
CheckA20Ignored ==
  /\ Goto("check", "e820")
  /\ UNCHANGED <<machine, stage1Vars, a20Vars, mapVars, fatVars, elfVars, errors>>

\* check_a20 decides in the end.
CheckA20 ==
  /\ Goto("check", IF a20 THEN "e820" ELSE "halt")
  /\ UNCHANGED <<machine, stage1Vars, a20Vars, mapVars, fatVars, elfVars, errors>>

-----------------------------------------------------------------------------
(* Stage 2: the memory map.                                                *)

Entry(b, n, u) == [base |-> b, length |-> n, usable |-> u]

\* Mutant: the size of an answer is not looked at.
KeepsRunts(a) == a.length # 0

\* Runts and empty entries are skipped; the next answer overwrites them.
Keeps(a) == a.bytes >= 20 /\ a.length # 0

\* One E820 call of detect_memory.  After a failure what was found so far is
\* used, if anything was.
DetectMemory ==
  /\ pc = "e820"
  /\ LET a == machine.e820[ebx]
     IN  IF a.ok
         THEN /\ mmap' = IF Keeps(a) THEN Append(mmap, Entry(a.base, a.length, a.usable))
                         ELSE mmap
              /\ pc' = IF ebx = Len(machine.e820) THEN "bpb" ELSE "e820"
              /\ ebx' = ebx + 1
         ELSE /\ pc' = IF mmap # <<>> THEN "bpb" ELSE "e801"
              /\ UNCHANGED mapVars
  /\ UNCHANGED <<machine, stage1Vars, a20Vars, fatVars, elfVars, errors>>

\* E801: two numbers, in one pair of registers or the other, become two entries.
TryE801 ==
  /\ Goto("e801", "bpb")
  /\ LET e == machine.e801
         below == IF e.cx = 0 THEN e.ax ELSE e.cx
         above == IF e.cx = 0 THEN e.bx ELSE e.dx
     IN  mmap' = IF e.ok
                 THEN <<Entry(0, LowLength, TRUE),
                        Entry(ExtBase, (below + above * Block) % Word, TRUE)>>
                 ELSE mmap
  /\ UNCHANGED <<machine, stage1Vars, a20Vars, ebx, fatVars, elfVars, errors>>

-----------------------------------------------------------------------------
(* Stage 2: the FAT16 disk.                                                *)

\* fat16_init reads the boot sector for the geometry, then the FAT.  Its caller
\* does not learn of a failure.
ReadBpb(ok) ==
  /\ Goto("bpb", IF ok THEN "fat" ELSE "find")
  /\ parsed' = ok
  /\ errors' = IF ok THEN errors ELSE errors \cup {"bpb"}
  /\ UNCHANGED <<machine, stage1Vars, a20Vars, mapVars, cached, sector, cluster,
                 loaded, elfVars>>

ReadFat(ok) ==
  /\ Goto("fat", "find")
  /\ cached' = ok
  /\ errors' = IF ok THEN errors ELSE errors \cup {"fat"}
  /\ UNCHANGED <<machine, stage1Vars, a20Vars, mapVars, parsed, sector, cluster,
                 loaded, elfVars>>

\* The entries that end the scan: the end of the directory and the kernel's.
Stops(e) == e.kind \in {"end", "kernel"}

\* fat16_find_file scans one sector.  Without geometry the sector is the boot
\* sector, whose padding reads as the end of a directory.
ScanSector ==
  /\ pc = "find"
  /\ LET entries == machine.root[sector]
         stops == {i \in 1 .. Len(entries) : Stops(entries[i])}
     IN  \/ /\ parsed /\ stops = {} /\ sector < Len(machine.root)
            /\ UNCHANGED pc
            /\ sector' = sector + 1
            /\ UNCHANGED cluster
         \/ /\ ~parsed \/ (stops = {} /\ sector = Len(machine.root))
            /\ pc' = "halt"
            /\ UNCHANGED <<sector, cluster>>
         \/ /\ parsed
            /\ \E i \in stops :
                 /\ \A j \in stops : i <= j
                 /\ cluster' = IF entries[i].kind = "end" THEN 0 ELSE entries[i].cluster
            /\ pc' = IF cluster' = 0 THEN "halt" ELSE "load"
            /\ UNCHANGED sector
  /\ UNCHANGED <<machine, stage1Vars, a20Vars, mapVars, parsed, cached, loaded, errors,
                 elfVars>>

\* A root directory sector cannot be read: the file counts as not found.
ScanFails ==
  /\ Goto("find", "halt")
  /\ errors' = errors \cup {"root"}
  /\ UNCHANGED <<machine, stage1Vars, a20Vars, mapVars, parsed, cached, sector, cluster,
                 loaded, elfVars>>

\* What the disk's FAT says of a cluster.
FatEntry(c) ==
  LET at == {i \in 1 .. Len(machine.chain) : machine.chain[i] = c}
  IN  IF at = {} THEN {0}
      ELSE {IF i < Len(machine.chain) THEN machine.chain[i + 1] ELSE machine.mark : i \in at}

\* What the lookup in FAT_BUF gives; anything, when the FAT was not read.
NextClusters(c) == IF cached THEN FatEntry(c) ELSE StaleEntries

\* Mutant: only what lies above the end mark ends the chain.
EndsAbove(next) == next > EndMark

Ends(next) == next >= EndMark

\* fat16_load_file reads one cluster and looks up the next.  A file that does
\* not fit runs into the stack and the BIOS area; what follows is not modelled.
LoadCluster ==
  /\ pc = "load"
  /\ IF Len(loaded) = LoadRoom
     THEN pc' = "wild" /\ UNCHANGED <<loaded, cluster>>
     ELSE /\ loaded' = Append(loaded, cluster)
          /\ cluster' \in NextClusters(cluster)
          /\ pc' = IF Ends(cluster') THEN "switch" ELSE "load"
  /\ UNCHANGED <<machine, stage1Vars, a20Vars, mapVars, parsed, cached, sector, errors,
                 elfVars>>

\* A cluster cannot be read: the error is printed and the loader goes on.
LoadFails ==
  /\ Goto("load", "switch")
  /\ errors' = errors \cup {"data"}
  /\ UNCHANGED <<machine, stage1Vars, a20Vars, mapVars, parsed, cached, sector, cluster,
                 loaded, elfVars>>

-----------------------------------------------------------------------------
(* Stage 2: protected mode, the ELF file and the hand-over.                *)

\* The switch to protected mode, and elf_load's look at the ELF header.
ElfHeader ==
  /\ Goto("switch", IF loaded # <<>> /\ loaded[1] = machine.chain[1]
                    THEN "segments" ELSE "halt")
  /\ UNCHANGED <<machine, stage1Vars, a20Vars, mapVars, fatVars, elfVars, errors>>

\* The contents of the file in memory at an offset.
FileAt(k) == IF k < Len(loaded) THEN loaded[k + 1] ELSE Junk

\* Mutant: the memory behind the file's part of a segment is not cleared.
PlacedNoBss(p, i) ==
  IF p.paddr <= i /\ i < p.paddr + p.filesz THEN FileAt(p.offset + i - p.paddr) ELSE high[i]

\* What is at i after segment p is copied and its rest cleared.
Placed(p, i) ==
  CASE p.paddr <= i /\ i < p.paddr + p.filesz -> FileAt(p.offset + i - p.paddr)
    [] p.paddr + p.filesz <= i /\ i < p.paddr + p.memsz -> Zero
    [] OTHER -> high[i]

\* One round of elf_load's loop.
ElfSegment ==
  /\ phdr <= Len(Phdrs) /\ Goto("segments", "segments")
  /\ high' = IF Phdrs[phdr].load
             THEN [i \in 0 .. HighRoom - 1 |-> Placed(Phdrs[phdr], i)] ELSE high
  /\ phdr' = phdr + 1
  /\ UNCHANGED <<machine, stage1Vars, a20Vars, mapVars, fatVars, mbi, errors>>

\* build_multiboot copies the map (mem_lower and mem_upper, which the kernel does
\* not read, are left out), and the loader jumps to the kernel.
HandOver ==
  /\ phdr > Len(Phdrs) /\ Goto("segments", "kernel")
  /\ mbi' = mmap
  /\ UNCHANGED <<machine, stage1Vars, a20Vars, mapVars, fatVars, phdr, high, errors>>

-----------------------------------------------------------------------------

Init ==
  /\ machine \in Machines
  /\ pc = "read" /\ tries = MaxRetries /\ whole = FALSE
  /\ a20 = machine.a20 /\ kbdBusy \in BOOLEAN
  /\ ebx = 1 /\ mmap = <<>>
  /\ parsed = FALSE /\ cached = FALSE /\ sector = 1 /\ cluster = 0
  /\ loaded = <<>> /\ errors = {}
  /\ phdr = 1 /\ high = [i \in 0 .. HighRoom - 1 |-> Junk] /\ mbi = <<>>

LoaderStep ==
  \/ \E all \in BOOLEAN : ReadStage2(all)
  \/ ReadStage2Fails \/ ResetDrive
  \/ A20Bios \/ KbdCommand \/ KbdData \/ KbdTest \/ A20Fast \/ CheckA20
  \/ DetectMemory \/ TryE801
  \/ \E ok \in BOOLEAN : ReadBpb(ok) \/ ReadFat(ok)
  \/ ScanSector \/ ScanFails
  \/ LoadCluster \/ LoadFails
  \/ ElfHeader \/ ElfSegment \/ HandOver

Next == LoaderStep \/ ControllerTakes

Spec == Init /\ [][Next]_vars

\* The processor runs on, and the keyboard controller takes what it is sent.
FairSpec == Spec /\ WF_vars(LoaderStep) /\ WF_vars(ControllerTakes)

-----------------------------------------------------------------------------
(* Properties.                                                             *)

\* The loader comes to an end on every machine: the retries, the waits for the
\* keyboard controller, the E820 calls, the directory and the cluster chain.
BootEnds == <>(pc \in {"kernel", "halt", "error", "wild"})

\* Nothing is written above 1 MB while A20 is closed, where the writes would
\* land in the megabyte below: whichever of the three ways opened the line, and
\* whatever the BIOS claimed.
A20BeforeHigh == (pc \in {"segments", "kernel"} \/ phdr > 1) => a20

\* The loader gives up only when it has to: stage 1 after MAX_RETRIES failed
\* reads or a short one; stage 2 when no way opens A20, a read failed, or the
\* root directory has no kernel in front of its end.
HasKernel ==
  \E s \in 1 .. Len(machine.root) : \E i \in 1 .. Len(machine.root[s]) :
    /\ machine.root[s][i].kind = "kernel" /\ machine.root[s][i].cluster # 0
    /\ \A t \in 1 .. s : \A j \in 1 .. Len(machine.root[t]) :
         machine.root[t][j].kind = "end" => t = s /\ j > i
GivesUpWithCause ==
  /\ pc = "error" => tries = 0 \/ "stage2" \in errors
  /\ pc = "halt" => \/ ~(machine.a20 \/ machine.bios = "opens" \/ machine.kbd \/ machine.fast)
                    \/ errors # {}
                    \/ ~HasKernel

\* Memory from 1 MB on is what the file's segments say: their part of the file,
\* then zeros up to their size in memory.
ImageRight ==
  \A s \in 1 .. Len(Phdrs) : Phdrs[s].load =>
    /\ \A k \in 0 .. Phdrs[s].filesz - 1 :
         high[Phdrs[s].paddr + k] = machine.chain[Phdrs[s].offset + k + 1]
    /\ \A k \in Phdrs[s].filesz .. Phdrs[s].memsz - 1 : high[Phdrs[s].paddr + k] = Zero

\* When no read of stage 2 failed the kernel that is entered is the whole file,
\* cluster by cluster in its order, by a stage 2 that was itself read completely.
WholeWhenReadable == pc = "kernel" /\ errors = {} => whole /\ ImageRight

\* "load the entire file into memory" (stage2.asm:839): once the FAT is read,
\* whatever is entered as the kernel is the kernel.
EntersWholeKernel == pc = "kernel" /\ cached => ImageRight

\* The cluster chain ends with the file; it is followed beyond the memory for
\* it only after the FAT could not be read.
ChainEnds == pc = "wild" => "fat" \in errors

\* The memory map the kernel gets calls only memory usable that the BIOS did,
\* whether it comes from E820, from a part of it or from E801.
Span(b, n) == b .. b + n - 1
RamE820 ==
  UNION {Span(machine.e820[i].base, machine.e820[i].length) :
           i \in {j \in 1 .. Len(machine.e820) :
                    /\ machine.e820[j].ok /\ machine.e820[j].bytes >= 20
                    /\ machine.e820[j].usable}}
RamE801 ==
  IF ~machine.e801.ok THEN {}
  ELSE LET e == machine.e801
           ax == IF e.cx = 0 THEN e.ax ELSE e.cx
           bx == IF e.cx = 0 THEN e.bx ELSE e.dx
       IN  Span(0, LowLength) \cup Span(ExtBase, ax) \cup Span(ExtTop, bx * Block)
Ram == RamE820 \cup RamE801
MapIsRam ==
  \A i \in 1 .. Len(mbi) : mbi[i].usable => Span(mbi[i].base, mbi[i].length) \subseteq Ram
=============================================================================
