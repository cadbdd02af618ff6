---------------------------- MODULE GuestMemory ----------------------------
(***************************************************************************)
(* GuestMemoryRegions (memory.rs): where new() places guest RAM around the *)
(* PCI gap and how setup_memory_region registers it with KVM, one slot per *)
(* region.  memory.rs says of MEMORY_SIZE "to change this, modify this     *)
(* constant and rebuild", so an initial state is a build: a choice of the  *)
(* three layout constants.                                                 *)
(***************************************************************************)
EXTENDS Naturals, Sequences

CONSTANTS
  MemorySizes,   \* values of MEMORY_SIZE
  GapStarts,     \* values of KVM_32BIT_GAP_START
  GapSizes       \* values of KVM_32BIT_GAP_SIZE

ASSUME BuildAssumption ==
  /\ MemorySizes \subseteq Nat \ {0}
  /\ GapStarts \subseteq Nat \ {0}
  /\ GapSizes \subseteq Nat

VARIABLES
  build,     \* the constants of this build
  memory,    \* regions mmap'd by new(), in address order
  slots,     \* memory slots registered with KVM, by slot index + 1
  phase      \* "new", "setup", "ready" or "failed"

memoryVars == <<build, memory, slots, phase>>

Builds == [memory_size : MemorySizes, gap_start : GapStarts,
           gap_size : GapSizes]

Region == [start : Nat, len : Nat]

MutRegionsIgnoreGap(b) ==
  IF b.memory_size > b.gap_start
    THEN <<[start |-> 0, len |-> b.gap_start],
           [start |-> b.gap_start, len |-> b.memory_size - b.gap_start]>>
    ELSE <<[start |-> 0, len |-> b.memory_size]>>

MutRegionsWholeHigh(b) ==
  IF b.memory_size > b.gap_start
    THEN <<[start |-> 0, len |-> b.gap_start],
           [start |-> b.gap_start + b.gap_size, len |-> b.memory_size]>>
    ELSE <<[start |-> 0, len |-> b.memory_size]>>

\* The ranges new() hands to GuestMemoryMmap::from_ranges.
Regions(b) ==
  LET low_mem_size == IF b.gap_start < b.memory_size THEN b.gap_start
                                                     ELSE b.memory_size
  IN  IF b.memory_size > b.gap_start
        THEN <<[start |-> 0, len |-> low_mem_size],
               [start |-> b.gap_start + b.gap_size,
                len |-> b.memory_size - b.gap_start]>>
        ELSE <<[start |-> 0, len |-> low_mem_size]>>

MemoryTypeOK ==
  /\ build \in Builds
  /\ memory \in Seq(Region)
  /\ slots \in Seq(Region)
  /\ phase \in {"new", "setup", "ready", "failed"}

MemoryInit ==
  /\ build \in Builds
  /\ memory = <<>>
  /\ slots = <<>>
  /\ phase = "new"

\* GuestMemoryRegions::new; mmap may fail.
NewMemory ==
  /\ phase = "new"
  /\ \/ memory' = Regions(build) /\ phase' = "setup"
     \/ phase' = "failed" /\ UNCHANGED memory
  /\ UNCHANGED <<build, slots>>

\* One iteration of setup_memory_region: the ioctl takes the next slot.
RegisterSlot ==
  /\ phase = "setup" /\ Len(slots) < Len(memory)
  /\ slots' = Append(slots, memory[Len(slots) + 1])
  /\ UNCHANGED <<build, memory, phase>>

\* The ioctl fails: the error is returned and VirtualMachine::new gives up.
RegisterFails ==
  /\ phase = "setup" /\ Len(slots) < Len(memory)
  /\ phase' = "failed"
  /\ UNCHANGED <<build, memory, slots>>

SetupDone ==
  /\ phase = "setup" /\ Len(slots) = Len(memory)
  /\ phase' = "ready"
  /\ UNCHANGED <<build, memory, slots>>

MemorySettled == phase \in {"ready", "failed"} /\ UNCHANGED memoryVars

MemoryNext == NewMemory \/ RegisterSlot \/ RegisterFails \/ SetupDone
                \/ MemorySettled

MemorySpec == MemoryInit /\ [][MemoryNext]_memoryVars

-----------------------------------------------------------------------------
\* "This region is reserved for PCI device MMIO and should not contain RAM":
\* no slot KVM knows of, at any time during setup, reaches into the gap.
NoRamInGap ==
  \A i \in 1 .. Len(slots) :
    \/ slots[i].start + slots[i].len <= build.gap_start
    \/ build.gap_start + build.gap_size <= slots[i].start

\* Once setup_memory_region has succeeded the slots are disjoint, none is
\* empty, and together they hold MEMORY_SIZE bytes: the split around the gap
\* neither loses memory nor maps an address twice.
AllRamRegistered ==
  phase = "ready" =>
    \/ /\ Len(slots) = 1
       /\ slots[1].len = build.memory_size
    \/ /\ Len(slots) = 2
       /\ slots[1].len > 0 /\ slots[2].len > 0
       /\ slots[1].start + slots[1].len <= slots[2].start
       /\ slots[1].len + slots[2].len = build.memory_size

=============================================================================
