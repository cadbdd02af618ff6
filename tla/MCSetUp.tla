------------------------------ MODULE MCSetUp ------------------------------
(* Setting a machine up: main() and the VM it builds, the regions of guest *)
(* memory, and what the loaders write there.  main() sees of the last two  *)
(* only whether they succeed, so a behaviour moves one of the three and    *)
(* leaves the others at a fixed beginning.                                 *)
EXTENDS Hypervisor, GuestMemory, BootLayout

\* Every size around the gap, in units of a page.
MCMemorySizes == 1 .. 8
MCGapStarts == 1 .. 5
MCGapSizes == 0 .. 3

\* Kernels above the boot structures, across them, overlapping themselves,
\* past the end of their file and outside a memory of 20 pages.
S(at, len) == [at |-> at, len |-> len, extent |-> "inside"]
K(segments, entry) == [segments |-> segments, entry |-> entry]
Starts == {0, 48, 56, 68, 72, 100, 112, 120, 127, 136}
K0 == K(<<S(150, 8), S(158, 4)>>, 150)
MCKernels ==
  {K(<<S(a, 8), S(b, 12)>>, e) : a, b \in Starts, e \in {120, 160}}
    \cup {K0,
          K(<<S(136, 8), [S(144, 8) EXCEPT !.extent = "past"]>>, 136),
          K(<<S(136, 8), [S(144, 8) EXCEPT !.extent = "wraps"]>>, 136)}

VARIABLE part   \* which of the three moves

A0 == [disk |-> FALSE, net |-> "none", shares |-> 0, restore |-> FALSE,
       bootloader |-> FALSE, save |-> FALSE]
B0 == [memory_size |-> 1, gap_start |-> 1, gap_size |-> 0]

SetUpInit ==
  /\ part \in {"main", "memory", "boot"}
  /\ IF part = "main" THEN args \in Args ELSE args = A0
  /\ IF part = "memory" THEN build \in Builds ELSE build = B0
  /\ IF part = "boot" THEN kernel \in Kernels /\ image \in Images
                      ELSE kernel = K0 /\ image = 0
  /\ Init /\ MemoryInit /\ BootInit

Loaded == pc \in {"done", "failed", "panicked"} /\ UNCHANGED bootVars

SetUpNext ==
  \/ part = "main" /\ Next /\ UNCHANGED <<part, memoryVars, bootVars>>
  \/ part = "memory" /\ MemoryNext /\ UNCHANGED <<part, vars, bootVars>>
  \/ /\ part = "boot" /\ (BootNext \/ Loaded)
     /\ UNCHANGED <<part, vars, memoryVars>>

SetUpSpec == SetUpInit /\ [][SetUpNext]_<<part, vars, memoryVars, bootVars>>

\* main(), guest memory and the loaders keep their types.
SetUpTypeOK == TypeOK /\ MemoryTypeOK /\ BootTypeOK
=============================================================================
