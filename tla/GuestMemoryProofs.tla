------------------------- MODULE GuestMemoryProofs -------------------------
(***************************************************************************)
(* Proofs about guest memory: where GuestMemory places and registers it,   *)
(* for every choice of the layout constants, and what the loaders of       *)
(* BootLayout leave in it, for every kernel, bootloader and command line.  *)
(* They end with the three parts of setting a machine up together.         *)
(***************************************************************************)
EXTENDS MCSetUp, HypervisorProofs

\* The slots registered so far are the first regions of new(), in order.
Prefix ==
  /\ Len(slots) <= Len(memory)
  /\ \A i \in 1 .. Len(slots) : slots[i] = memory[i]

MemoryInv ==
  /\ MemoryTypeOK
  /\ memory = <<>> \/ memory = Regions(build)
  /\ phase \in {"setup", "ready"} => memory = Regions(build)
  /\ phase = "ready" => Len(slots) = Len(memory)
  /\ Prefix

(* new() yields one or two regions.                                        *)
LEMMA RegionsType ==
  ASSUME NEW b \in Builds
  PROVE  /\ Regions(b) \in Seq(Region)
         /\ Len(Regions(b)) \in {1, 2}
<1> /\ b.memory_size \in Nat /\ b.gap_start \in Nat /\ b.gap_size \in Nat
  BY BuildAssumption DEF Builds
<1>1. CASE b.memory_size > b.gap_start
  <2>1. /\ [start |-> 0, len |-> b.gap_start] \in Region
        /\ [start |-> b.gap_start + b.gap_size,
            len |-> b.memory_size - b.gap_start] \in Region
    BY <1>1 DEF Region
  <2> QED
    BY <1>1, <2>1 DEF Regions
<1>2. CASE ~(b.memory_size > b.gap_start)
  <2>1. [start |-> 0, len |-> b.memory_size] \in Region
    BY DEF Region
  <2> QED
    BY <1>2, <2>1 DEF Regions
<1> QED
  BY <1>1, <1>2

LEMMA InitMemoryInv == MemoryInit => MemoryInv
BY DEF MemoryInit, MemoryInv, MemoryTypeOK, Prefix

LEMMA NextMemoryInv == MemoryInv /\ [MemoryNext]_memoryVars => MemoryInv'
<1> SUFFICES ASSUME MemoryInv, [MemoryNext]_memoryVars PROVE MemoryInv'
  OBVIOUS
<1> USE DEF MemoryInv, MemoryTypeOK, Prefix
<1>1. CASE NewMemory
  BY <1>1, RegionsType DEF NewMemory
<1>2. CASE RegisterSlot
  <2>1. memory[Len(slots) + 1] \in Region
    BY <1>2 DEF RegisterSlot
  <2>2. slots' \in Seq(Region) /\ Len(slots') = Len(slots) + 1
    BY <1>2, <2>1 DEF RegisterSlot
  <2>3. \A i \in 1 .. Len(slots') : slots'[i] = memory[i]
    BY <1>2, <2>1, <2>2 DEF RegisterSlot
  <2> QED
    BY <1>2, <2>2, <2>3 DEF RegisterSlot
<1>3. CASE RegisterFails
  BY <1>3 DEF RegisterFails
<1>4. CASE SetupDone
  BY <1>4 DEF SetupDone
<1>5. CASE UNCHANGED memoryVars
  BY <1>5 DEF memoryVars
<1> QED
  BY <1>1, <1>2, <1>3, <1>4, <1>5 DEF MemoryNext, MemorySettled

(* The regions of new() and the slots registered keep their type.          *)
THEOREM MemoryTypeCorrect == MemorySpec => []MemoryTypeOK
BY InitMemoryInv, NextMemoryInv, PTL DEF MemorySpec, MemoryInv

(* No slot reaches into the PCI gap, whatever the layout constants are.    *)
THEOREM GapFree == MemorySpec => []NoRamInGap
<1>1. MemoryInv => NoRamInGap
  <2> SUFFICES ASSUME MemoryInv, NEW i \in 1 .. Len(slots)
               PROVE  \/ slots[i].start + slots[i].len <= build.gap_start
                      \/ build.gap_start + build.gap_size <= slots[i].start
    BY DEF NoRamInGap
  <2> /\ build.memory_size \in Nat /\ build.gap_start \in Nat
      /\ build.gap_size \in Nat
    BY BuildAssumption DEF MemoryInv, MemoryTypeOK, Builds
  <2>1. slots[i] = Regions(build)[i] /\ i \in 1 .. Len(Regions(build))
    BY DEF MemoryInv, MemoryTypeOK, Prefix
  <2> QED
    BY <2>1 DEF Regions
<1> QED
  BY InitMemoryInv, NextMemoryInv, <1>1, PTL DEF MemorySpec

(* After setup the slots hold exactly MEMORY_SIZE bytes, disjointly.       *)
THEOREM RamComplete == MemorySpec => []AllRamRegistered
<1>1. MemoryInv => AllRamRegistered
  <2> SUFFICES ASSUME MemoryInv, phase = "ready" PROVE AllRamRegistered
    BY DEF AllRamRegistered
  <2> /\ build.memory_size \in Nat \ {0} /\ build.gap_start \in Nat \ {0}
      /\ build.gap_size \in Nat
    BY BuildAssumption DEF MemoryInv, MemoryTypeOK, Builds
  <2>1. /\ Len(slots) = Len(Regions(build))
        /\ \A i \in 1 .. Len(slots) : slots[i] = Regions(build)[i]
    BY DEF MemoryInv, Prefix
  <2>2. CASE build.memory_size > build.gap_start
    <3>1. Len(Regions(build)) = 2
      BY <2>2 DEF Regions
    <3>2. /\ slots[1] = [start |-> 0, len |-> build.gap_start]
          /\ slots[2] = [start |-> build.gap_start + build.gap_size,
                         len |-> build.memory_size - build.gap_start]
      BY <2>1, <2>2, <3>1 DEF Regions
    <3> QED
      BY <2>1, <2>2, <3>1, <3>2 DEF AllRamRegistered
  <2>3. CASE ~(build.memory_size > build.gap_start)
    <3>1. Len(Regions(build)) = 1
      BY <2>3 DEF Regions
    <3>2. slots[1] = [start |-> 0, len |-> build.memory_size]
      BY <2>1, <2>3, <3>1 DEF Regions
    <3> QED
      BY <2>1, <3>1, <3>2 DEF AllRamRegistered
  <2> QED
    BY <2>2, <2>3
<1> QED
  BY InitMemoryInv, NextMemoryInv, <1>1, PTL DEF MemorySpec

-----------------------------------------------------------------------------
(* The loaders: what each part of memory holds after each stage.           *)

TableCells == CellsFrom(Pml4Page * PerPage, 6 * PerPage)
PdpteCells == CellsFrom(PdptePage * PerPage, 4)
PdeCells == CellsFrom(PdePage * PerPage, 4 * PerPage)

\* The segments written so far are whole, but for the loaders' own
\* structures and the segments after them.
SegInv ==
  pc \notin {"failed", "panicked"} =>
    /\ pc # "segments" => seg = Len(kernel.segments)
    /\ \A k \in 1 .. seg : \A c \in SegCells(k) :
         /\ c \in Cells
         /\ \/ mem[c].by = SegName(k)
            \/ c \in Own
            \/ \E j \in k + 1 .. seg : c \in SegCells(j)

\* The entry a cell of the tables holds once it is written, zero before.
TableEntry(c) ==
  IF c = Pml4Page * PerPage /\ pc # "pml4"
    THEN Entry(PdptePage, 3)
  ELSE IF c \in PdpteCells /\ pc \notin {"pml4", "pdpte"}
    THEN Entry(PdePage + (c - PdptePage * PerPage), 3)
  ELSE IF c \in PdeCells /\ pc \notin {"pml4", "pdpte", "pde"}
    THEN Entry((c - PdePage * PerPage) * PerPage, 131)
  ELSE 0

\* An image was written, and none was before.
AfterImage == pc \in {"bios", "done"}
AfterParams == pc \in {"peek", "image", "bios", "done"}
AfterCmdline == AfterParams \/ pc = "params"
AfterZero == AfterCmdline \/ pc \in {"pml4", "pdpte", "pde", "cmdline"}

TableInv ==
  AfterZero /\ (AfterImage => image <= ImageRoom) =>
    \A c \in TableCells : c \in Cells /\ mem[c].entry = TableEntry(c)

DataInv ==
  /\ AfterParams =>
       \A c \in ParamFields : c \in Cells /\ mem[c].by = <<"params">>
  /\ AfterCmdline
       /\ (AfterImage => image <= CmdlinePage * PerPage - BootAddr) =>
       \A c \in Command : c \in Cells /\ mem[c].by = <<"cmdline">>

LoadInv ==
  /\ BootTypeOK
  /\ pc \in {"image", "bios"} => image # 0
  /\ SegInv /\ TableInv /\ DataInv

(* The numbers of the layout.                                              *)
LEMMA Layout ==
  /\ PerPage \in Nat /\ PerPage >= 8 /\ CmdlineLen \in Nat
  /\ PerPage \div 4 \in Nat /\ PerPage \div 4 <= PerPage
  /\ BootAddr \in Nat /\ 7 * PerPage + PerPage \div 4 <= BootAddr
  /\ 7 * PerPage <= BootAddr /\ BootAddr <= 8 * PerPage
<1>1. PerPage \in Nat /\ PerPage # 0 /\ PerPage % 8 = 0 /\ CmdlineLen \in Nat
  BY BootAssumption
<1>2. PICK q \in Nat : PerPage = 8 * q
  <2>1. PerPage = 8 * (PerPage \div 8) /\ PerPage \div 8 \in Nat
    BY <1>1
  <2> QED
    BY <2>1
<1>3. PerPage \div 4 = 2 * q /\ (3 * PerPage) \div 4 = 6 * q
  BY <1>2
<1>4. BootAddr = 7 * PerPage + 6 * q
  BY <1>3 DEF BootAddr, ParamsPage
<1> QED
  BY <1>1, <1>2, <1>3, <1>4

LEMMA TablesOwn ==
  /\ TableCells \subseteq Own
  /\ PdpteCells \subseteq TableCells /\ PdeCells \subseteq TableCells
  /\ Pml4Page * PerPage \in TableCells
  /\ Page(ParamsPage) \subseteq Own /\ Command \subseteq Own
  /\ image # 0 => CellsFrom(BootAddr, image) \cup {0, HandlerPage * PerPage}
                    \subseteq Own
<1> USE Layout
<1>1. \A c \in TableCells : \E p \in Pml4Page .. Pml4Page + 5 : c \in Page(p)
  <2> SUFFICES ASSUME NEW c \in TableCells
               PROVE  \E p \in 9 .. 14 : c \in Page(p)
    BY DEF Pml4Page
  <2>1. c \in Page(9) \/ c \in Page(10) \/ c \in Page(11)
          \/ c \in Page(12) \/ c \in Page(13) \/ c \in Page(14)
    BY DEF TableCells, Page, CellsFrom, Pml4Page
  <2> QED
    BY <2>1
<1>2. TableCells \subseteq Own
  BY <1>1 DEF Own
<1>3. /\ PdpteCells \subseteq TableCells /\ PdeCells \subseteq TableCells
      /\ Pml4Page * PerPage \in TableCells
  BY DEF PdpteCells, PdeCells, TableCells, CellsFrom, PdptePage, PdePage,
         Pml4Page
<1>4. Page(ParamsPage) \subseteq Own /\ Command \subseteq Own
  <2>1. \A p \in {ParamsPage} : Page(p) \subseteq Own
    BY Zenon DEF Own
  <2>2. Command \subseteq Own
    BY Zenon DEF Own
  <2> QED
    BY <2>1, <2>2
<1>5. image # 0 => CellsFrom(BootAddr, image) \cup {0, HandlerPage * PerPage}
                     \subseteq Own
  BY Zenon DEF Own
<1> QED
  BY <1>2, <1>3, <1>4, <1>5

(* The loaders' structures do not meet, as long as an image is no longer   *)
(* than its room.                                                          *)
LEMMA Apart ==
  ASSUME NEW len \in Nat
  PROVE  /\ TableCells \cap Command = {}
         /\ TableCells \cap Page(ParamsPage) = {}
         /\ Page(ParamsPage) \cap Command = {}
         /\ ParamFields \subseteq Page(ParamsPage)
         /\ ParamFields \cap CellsFrom(BootAddr, len) = {}
         /\ len <= ImageRoom => TableCells \cap CellsFrom(BootAddr, len) = {}
         /\ len <= CmdlinePage * PerPage - BootAddr =>
              Command \cap CellsFrom(BootAddr, len) = {}
         /\ {0, HandlerPage * PerPage}
              \cap (ParamFields \cup TableCells \cup Command) = {}
<1> USE Layout DEF CellsFrom, ParamsPage, Pml4Page, CmdlinePage
<1>1. /\ TableCells \cap Command = {} /\ TableCells \cap Page(7) = {}
      /\ Page(7) \cap Command = {}
  BY DEF TableCells, Command, Page
<1>2. ParamFields \subseteq Page(7)
  BY DEF ParamFields, Page
<1>3. ParamFields \cap CellsFrom(BootAddr, len) = {}
  BY DEF ParamFields
<1>4. len <= ImageRoom => TableCells \cap CellsFrom(BootAddr, len) = {}
  BY DEF ImageRoom, TableCells
<1>5. len <= CmdlinePage * PerPage - BootAddr =>
        Command \cap CellsFrom(BootAddr, len) = {}
  BY DEF Command
<1>6. {0, HandlerPage * PerPage}
        \cap (ParamFields \cup TableCells \cup Command) = {}
  BY DEF HandlerPage, ParamFields, TableCells, Command
<1> QED
  BY <1>1, <1>2, <1>3, <1>4, <1>5, <1>6

(* What write_slice does to memory, and when it succeeds.                  *)
LEMMA Written ==
  ASSUME NEW new, NEW by, NEW next, DOMAIN mem = Cells, Write(new, by, next)
  PROVE  /\ DOMAIN mem' = Cells
         /\ \A c \in Cells \cap DOMAIN new :
              mem'[c].by = by /\ mem'[c].entry = new[c]
         /\ \A c \in Cells \ DOMAIN new : mem'[c] = mem[c]
         /\ pc' = "failed" \/ (pc' = next /\ DOMAIN new \subseteq Cells)
         /\ UNCHANGED <<kernel, image>>
BY DEF Write

LEMMA BootTypes ==
  ASSUME BootTypeOK
  PROVE  /\ image \in Nat
         /\ kernel.segments \in Seq(PtLoad)
         /\ Len(kernel.segments) \in Nat /\ seg \in Nat
         /\ DOMAIN kernel.segments = 1 .. Len(kernel.segments)
         /\ DOMAIN mem = Cells
<1>1. image \in Nat /\ kernel \in [segments : Seq(PtLoad), entry : Nat]
  BY BootAssumption DEF BootTypeOK
<1>2. kernel.segments \in Seq(PtLoad)
  BY <1>1
<1> QED
  BY <1>1, <1>2 DEF BootTypeOK

LEMMA InitLoadInv == BootInit => LoadInv
<1> SUFFICES ASSUME BootInit PROVE LoadInv
  OBVIOUS
<1>1. kernel \in [segments : Seq(PtLoad), entry : Nat]
  BY BootAssumption DEF BootInit
<1>2. Len(kernel.segments) \in Nat
  BY <1>1
<1>3. BootTypeOK
  BY <1>2 DEF BootInit, BootTypeOK, Parts
<1>4. SegInv
  BY DEF BootInit, SegInv
<1>5. TableInv /\ DataInv
  BY DEF BootInit, TableInv, DataInv, AfterZero, AfterCmdline, AfterParams,
         AfterImage
<1> QED
  BY <1>3, <1>4, <1>5 DEF BootInit, LoadInv

(* A write of the loaders' own structures leaves the kernel as whole as it *)
(* was.                                                                    *)
LEMMA SegKept ==
  ASSUME LoadInv, pc \notin {"segments", "failed", "panicked"},
         NEW new, NEW by, NEW next, Write(new, by, next), UNCHANGED seg,
         DOMAIN new \subseteq Own
  PROVE  SegInv'
<1>1. /\ \A c \in Cells \ DOMAIN new : mem'[c] = mem[c]
      /\ UNCHANGED <<kernel, image>>
  BY Written DEF LoadInv, BootTypeOK
<1>2. seg' = seg /\ Own' = Own /\ \A k : SegCells(k)' = SegCells(k)
  BY <1>1 DEF Own, SegCells
<1>3. /\ seg = Len(kernel.segments)
      /\ \A k \in 1 .. seg : \A c \in SegCells(k) :
           /\ c \in Cells
           /\ \/ mem[c].by = SegName(k)
              \/ c \in Own
              \/ \E j \in k + 1 .. seg : c \in SegCells(j)
  BY DEF LoadInv, SegInv
<1>4. ASSUME NEW k \in 1 .. seg, NEW c \in SegCells(k)
      PROVE  \/ mem'[c].by = SegName(k)
             \/ c \in Own
             \/ \E j \in k + 1 .. seg : c \in SegCells(j)
  BY <1>1, <1>3
<1> QED
  BY <1>1, <1>2, <1>3, <1>4 DEF SegInv

(* The tables and the boot data are kept by what does not write on them.   *)
LEMMA TablesKept ==
  ASSUME LoadInv, UNCHANGED image,
         pc \in {"cmdline", "params", "peek", "image", "bios"},
         pc' \in {"params", "peek", "image", "bios", "done", "failed",
                  "panicked"},
         AfterImage => AfterImage',
         (AfterImage' => image <= ImageRoom) =>
           \A c \in TableCells \cap Cells : mem'[c] = mem[c]
  PROVE  TableInv'
<1> SUFFICES ASSUME AfterZero', AfterImage' => image <= ImageRoom
             PROVE  \A c \in TableCells :
                      c \in Cells /\ mem'[c].entry = TableEntry(c)'
  BY DEF TableInv
<1>1. \A c \in TableCells : c \in Cells /\ mem[c].entry = TableEntry(c)
  BY DEF LoadInv, TableInv, AfterZero, AfterCmdline, AfterParams
<1>2. \A c \in TableCells : TableEntry(c)' = TableEntry(c)
  BY DEF TableEntry
<1> QED
  BY <1>1, <1>2

LEMMA DataKept ==
  ASSUME LoadInv, UNCHANGED image,
         pc \in {"peek", "image", "bios"},
         pc' \in {"image", "bios", "done", "failed", "panicked"},
         AfterImage => AfterImage',
         \A c \in ParamFields \cap Cells : mem'[c] = mem[c],
         (AfterImage' => image <= CmdlinePage * PerPage - BootAddr) =>
           \A c \in Command \cap Cells : mem'[c] = mem[c]
  PROVE  DataInv'
<1>1. \A c \in ParamFields : c \in Cells /\ mem[c].by = <<"params">>
  BY DEF LoadInv, DataInv, AfterParams
<1>2. (AfterImage' => image <= CmdlinePage * PerPage - BootAddr) =>
        \A c \in Command : c \in Cells /\ mem[c].by = <<"cmdline">>
  BY DEF LoadInv, DataInv, AfterCmdline, AfterParams
<1>3. \A c \in ParamFields : c \in Cells /\ mem'[c].by = <<"params">>
  BY <1>1
<1>4. (AfterImage' => image <= CmdlinePage * PerPage - BootAddr) =>
        \A c \in Command : c \in Cells /\ mem'[c].by = <<"cmdline">>
  BY <1>2
<1> QED
  BY <1>3, <1>4 DEF DataInv

LEMMA SegmentStep == ASSUME LoadInv, Segment PROVE LoadInv'
<1> DEFINE n == seg + 1
<1>1. /\ pc = "segments" /\ seg < Len(kernel.segments)
      /\ UNCHANGED <<kernel, image>>
  BY Written DEF Segment, LoadInv, BootTypeOK
<1>2. seg \in Nat /\ Len(kernel.segments) \in Nat /\ DOMAIN mem = Cells
  BY BootTypes DEF LoadInv
<1>3. CASE pc' \in {"failed", "panicked"}
  <2>1. seg' \in 0 .. Len(kernel.segments)
    BY <1>1, <1>2 DEF Segment
  <2>2. DOMAIN mem' = Cells
    BY <1>2, Written DEF Segment
  <2>3. BootTypeOK'
    BY <1>1, <1>3, <2>1, <2>2 DEF LoadInv, BootTypeOK, Parts
  <2> QED
    BY <1>3, <2>3 DEF LoadInv, SegInv, TableInv, DataInv, AfterZero,
       AfterCmdline, AfterParams, AfterImage
<1>4. CASE pc' \notin {"failed", "panicked"}
  <2>1. /\ seg' = n
        /\ Write(Plain(SegCells(n)), SegName(n), "segments")
    BY <1>4 DEF Segment
  <2>2. DOMAIN Plain(SegCells(n)) = SegCells(n)
    BY DEF Plain
  <2>3. /\ pc' = "segments" /\ DOMAIN mem' = Cells
        /\ SegCells(n) \subseteq Cells
        /\ \A c \in SegCells(n) : mem'[c].by = SegName(n)
        /\ \A c \in Cells \ SegCells(n) : mem'[c] = mem[c]
    <3>1. /\ DOMAIN mem' = Cells
          /\ \A c \in Cells \cap SegCells(n) : mem'[c].by = SegName(n)
          /\ \A c \in Cells \ SegCells(n) : mem'[c] = mem[c]
          /\ \/ pc' = "failed"
             \/ pc' = "segments" /\ SegCells(n) \subseteq Cells
      BY <1>2, <2>1, <2>2, Written
    <3> QED
      BY <1>4, <3>1
  <2>4. n \in 0 .. Len(kernel.segments) /\ n \in Nat
    BY <1>1, <1>2
  <2>5. BootTypeOK'
    BY <1>1, <2>1, <2>3, <2>4 DEF LoadInv, BootTypeOK
  <2>6. Own' = Own /\ \A k : SegCells(k)' = SegCells(k)
    BY <1>1 DEF Own, SegCells
  <2>7. \A k \in 1 .. seg : \A c \in SegCells(k) :
           /\ c \in Cells
           /\ \/ mem[c].by = SegName(k)
              \/ c \in Own
              \/ \E j \in k + 1 .. seg : c \in SegCells(j)
    BY <1>1 DEF LoadInv, SegInv
  <2>8. ASSUME NEW k \in 1 .. n, NEW c \in SegCells(k)
        PROVE  /\ c \in Cells
               /\ \/ mem'[c].by = SegName(k)
                  \/ c \in Own
                  \/ \E j \in k + 1 .. n : c \in SegCells(j)
    <3>1. CASE k = n
      BY <2>3, <2>8, <3>1
    <3>2. CASE k # n /\ c \in SegCells(n)
      <4>1. n \in k + 1 .. n
        BY <1>2, <3>2
      <4> QED
        BY <2>3, <3>2, <4>1
    <3>3. CASE k # n /\ c \notin SegCells(n)
      <4>1. k \in 1 .. seg /\ k + 1 .. seg \subseteq k + 1 .. n
        BY <1>2, <3>3
      <4>2. c \in Cells /\ mem'[c] = mem[c]
        BY <2>3, <2>7, <2>8, <3>3, <4>1
      <4> QED
        BY <2>7, <2>8, <4>1, <4>2
    <3> QED
      BY <3>1, <3>2, <3>3
  <2>9. SegInv'
    BY <2>1, <2>3, <2>6, <2>8 DEF SegInv
  <2> QED
    BY <2>3, <2>5, <2>9 DEF LoadInv, TableInv, DataInv, AfterZero,
       AfterCmdline, AfterParams, AfterImage
<1> QED
  BY <1>3, <1>4

LEMMA SegmentsDoneStep == ASSUME LoadInv, SegmentsDone PROVE LoadInv'
<1>1. BootTypeOK'
  BY DEF LoadInv, BootTypeOK, SegmentsDone, Parts
<1>2. SegInv'
  BY DEF LoadInv, SegInv, SegmentsDone, Own, SegCells
<1>3. TableInv' /\ DataInv'
  BY DEF SegmentsDone, TableInv, DataInv, AfterZero, AfterCmdline,
         AfterParams, AfterImage
<1> QED
  BY <1>1, <1>2, <1>3 DEF LoadInv, SegmentsDone

(* The four writes of the tables: what else they keep.                     *)
LEMMA TableWrite ==
  ASSUME LoadInv, pc \in {"zero", "pml4", "pdpte", "pde"},
         NEW new, NEW next \in {"pml4", "pdpte", "pde", "cmdline"},
         Write(new, <<"tables">>, next), UNCHANGED seg,
         DOMAIN new \subseteq TableCells, TableInv'
  PROVE  LoadInv'
<1>1. /\ DOMAIN mem' = Cells /\ UNCHANGED <<kernel, image>>
      /\ pc' = "failed" \/ pc' = next
  BY Written DEF LoadInv, BootTypeOK
<1>2. BootTypeOK'
  BY <1>1 DEF LoadInv, BootTypeOK, Parts
<1>3. SegInv'
  BY SegKept, TablesOwn
<1>4. DataInv' /\ (pc' \in {"image", "bios"} => image' # 0)
  BY <1>1 DEF DataInv, AfterCmdline, AfterParams, AfterImage
<1> QED
  BY <1>2, <1>3, <1>4 DEF LoadInv

LEMMA ZeroStep == ASSUME LoadInv, Zero PROVE LoadInv'
<1> DEFINE new == Plain(TableCells)
<1>1. pc = "zero" /\ UNCHANGED seg /\ Write(new, <<"tables">>, "pml4")
  BY DEF Zero, TableCells
<1>2. DOMAIN new = TableCells /\ \A c \in TableCells : new[c] = 0
  BY DEF Plain
<1> HIDE DEF new
<1>3. /\ \A c \in Cells \cap DOMAIN new : mem'[c].entry = new[c]
      /\ pc' = "failed" \/ (pc' = "pml4" /\ DOMAIN new \subseteq Cells)
  BY <1>1, Written DEF LoadInv, BootTypeOK
<1>4. TableInv'
  <2>1. CASE pc' = "failed"
    BY <2>1 DEF TableInv, AfterZero, AfterCmdline, AfterParams
  <2>2. CASE pc' # "failed"
    <3>1. \A c \in TableCells : c \in Cells /\ mem'[c].entry = 0
      BY <1>2, <1>3, <2>2
    <3>2. \A c \in TableCells : TableEntry(c)' = 0
      BY <1>3, <2>2 DEF TableEntry
    <3> QED
      BY <3>1, <3>2 DEF TableInv
  <2> QED
    BY <2>1, <2>2
<1> QED
  BY <1>1, <1>2, <1>4, TableWrite

(* A write of some entries of the tables, which hold what they should.     *)
LEMMA EntriesWritten ==
  ASSUME LoadInv, pc \in {"pml4", "pdpte", "pde"},
         NEW new, NEW next \in {"pdpte", "pde", "cmdline"},
         Write(new, <<"tables">>, next), UNCHANGED seg,
         DOMAIN new \subseteq TableCells,
         pc' = next => \A c \in TableCells :
           TableEntry(c)' = IF c \in DOMAIN new THEN new[c] ELSE TableEntry(c)
  PROVE  LoadInv'
<1>1. /\ \A c \in Cells \cap DOMAIN new : mem'[c].entry = new[c]
      /\ \A c \in Cells \ DOMAIN new : mem'[c] = mem[c]
      /\ pc' = "failed" \/ pc' = next
  BY Written DEF LoadInv, BootTypeOK
<1>2. \A c \in TableCells : c \in Cells /\ mem[c].entry = TableEntry(c)
  BY DEF LoadInv, TableInv, AfterZero, AfterCmdline, AfterParams, AfterImage
<1>3. TableInv'
  <2>1. CASE pc' = "failed"
    BY <2>1 DEF TableInv, AfterZero, AfterCmdline, AfterParams
  <2>2. CASE pc' = next
    BY <1>1, <1>2, <2>2 DEF TableInv
  <2> QED
    BY <1>1, <2>1, <2>2
<1> QED
  BY <1>3, TableWrite

(* The three kinds of entries are in different cells.                      *)
LEMMA TablesApart ==
  /\ Pml4Page * PerPage \notin PdpteCells /\ Pml4Page * PerPage \notin PdeCells
  /\ PdpteCells \cap PdeCells = {}
BY Layout DEF PdpteCells, PdeCells, CellsFrom, PdptePage, PdePage, Pml4Page

LEMMA Pml4Step == ASSUME LoadInv, Pml4 PROVE LoadInv'
<1> DEFINE a == Pml4Page * PerPage
           new == [c \in {a} |-> Entry(PdptePage, 3)]
<1>1. pc = "pml4" /\ UNCHANGED seg /\ Write(new, <<"tables">>, "pdpte")
  BY DEF Pml4
<1>2. DOMAIN new = {a} /\ new[a] = Entry(PdptePage, 3)
  OBVIOUS
<1>3. pc' = "pdpte" => \A c \in TableCells :
        TableEntry(c)' = IF c \in {a} THEN new[c] ELSE TableEntry(c)
  <2> HIDE DEF new
  <2> QED
    BY <1>1, <1>2 DEF TableEntry
<1> HIDE DEF new
<1> QED
  BY <1>1, <1>2, <1>3, TablesOwn, EntriesWritten

LEMMA PdpteStep == ASSUME LoadInv, Pdpte PROVE LoadInv'
<1> DEFINE new == [c \in PdpteCells |->
                     Entry(PdePage + (c - PdptePage * PerPage), 3)]
<1>1. pc = "pdpte" /\ UNCHANGED seg /\ Write(new, <<"tables">>, "pde")
  BY DEF Pdpte, PdpteCells
<1>2. /\ DOMAIN new = PdpteCells
      /\ \A c \in PdpteCells :
           new[c] = Entry(PdePage + (c - PdptePage * PerPage), 3)
  OBVIOUS
<1> HIDE DEF new
<1>3. pc' = "pde" => \A c \in TableCells :
        TableEntry(c)' = IF c \in PdpteCells THEN new[c] ELSE TableEntry(c)
  BY <1>1, <1>2, TablesApart DEF TableEntry
<1> QED
  BY <1>1, <1>2, <1>3, TablesOwn, EntriesWritten

LEMMA PdeStep == ASSUME LoadInv, Pde PROVE LoadInv'
<1> DEFINE new == [c \in PdeCells |->
                     Entry((c - PdePage * PerPage) * PerPage, 131)]
<1>1. pc = "pde" /\ UNCHANGED seg /\ Write(new, <<"tables">>, "cmdline")
  BY DEF Pde, PdeCells
<1>2. /\ DOMAIN new = PdeCells
      /\ \A c \in PdeCells :
           new[c] = Entry((c - PdePage * PerPage) * PerPage, 131)
  OBVIOUS
<1> HIDE DEF new
<1>3. pc' = "cmdline" => \A c \in TableCells :
        TableEntry(c)' = IF c \in PdeCells THEN new[c] ELSE TableEntry(c)
  BY <1>1, <1>2, TablesApart DEF TableEntry
<1> QED
  BY <1>1, <1>2, <1>3, TablesOwn, EntriesWritten

LEMMA CmdlineStep == ASSUME LoadInv, Cmdline PROVE LoadInv'
<1> DEFINE new == Plain(Command)
<1>1. /\ pc = "cmdline" /\ UNCHANGED seg
      /\ Write(new, <<"cmdline">>, "params")
  BY DEF Cmdline
<1>2. DOMAIN new = Command
  BY DEF Plain
<1> HIDE DEF new
<1>3. /\ DOMAIN mem' = Cells /\ UNCHANGED <<kernel, image>>
      /\ \A c \in Cells \cap Command : mem'[c].by = <<"cmdline">>
      /\ \A c \in Cells \ Command : mem'[c] = mem[c]
      /\ pc' = "failed" \/ (pc' = "params" /\ Command \subseteq Cells)
  BY <1>1, <1>2, Written DEF LoadInv, BootTypeOK
<1>4. BootTypeOK'
  BY <1>1, <1>3 DEF LoadInv, BootTypeOK, Parts
<1>5. SegInv'
  BY <1>1, <1>2, SegKept, TablesOwn
<1>6. \A c \in TableCells \cap Cells : mem'[c] = mem[c]
  BY <1>3, Apart DEF LoadInv
<1>7. TableInv'
  BY <1>1, <1>3, <1>6, TablesKept DEF AfterImage
<1>8. DataInv'
  BY <1>3 DEF DataInv, AfterCmdline, AfterParams
<1> QED
  BY <1>3, <1>4, <1>5, <1>7, <1>8 DEF LoadInv

LEMMA ParamsStep == ASSUME LoadInv, Params PROVE LoadInv'
<1> DEFINE page == Page(ParamsPage)
           new == Plain(page)
<1>1. /\ pc = "params" /\ UNCHANGED seg
      /\ Write(new, <<"params">>, "peek")
  BY DEF Params
<1>2. DOMAIN new = page
  BY DEF Plain
<1>3. /\ TableCells \cap page = {} /\ Command \cap page = {}
      /\ ParamFields \subseteq page /\ page \subseteq Own
  BY Apart, TablesOwn
<1> HIDE DEF new, page
<1>4. /\ DOMAIN mem' = Cells /\ UNCHANGED <<kernel, image>>
      /\ \A c \in Cells \cap page : mem'[c].by = <<"params">>
      /\ \A c \in Cells \ page : mem'[c] = mem[c]
      /\ pc' = "failed" \/ (pc' = "peek" /\ page \subseteq Cells)
  BY <1>1, <1>2, Written DEF LoadInv, BootTypeOK
<1>5. BootTypeOK'
  BY <1>1, <1>4 DEF LoadInv, BootTypeOK, Parts
<1>6. SegInv'
  BY <1>1, <1>2, <1>3, SegKept
<1>7. \A c \in TableCells \cap Cells : mem'[c] = mem[c]
  BY <1>3, <1>4
<1>8. TableInv'
  BY <1>1, <1>4, <1>7, TablesKept DEF AfterImage
<1>9. DataInv'
  <2>1. \A c \in Command : c \in Cells /\ mem[c].by = <<"cmdline">>
    BY <1>1 DEF LoadInv, DataInv, AfterCmdline, AfterImage
  <2>2. \A c \in Command : c \in Cells /\ mem'[c].by = <<"cmdline">>
    BY <1>3, <1>4, <2>1
  <2>3. pc' # "failed" =>
          \A c \in ParamFields : c \in Cells /\ mem'[c].by = <<"params">>
    BY <1>3, <1>4
  <2> QED
    BY <2>2, <2>3 DEF DataInv, AfterParams
<1> QED
  BY <1>4, <1>5, <1>6, <1>8, <1>9 DEF LoadInv

LEMMA PeekStep == ASSUME LoadInv, Peek PROVE LoadInv'
<1>1. /\ pc = "peek" /\ UNCHANGED <<kernel, image, seg, mem>>
      /\ pc' \in {"panicked", "image", "done"}
      /\ pc' = "image" => image > 0
      /\ pc' = "done" => ~(image > 0)
  BY DEF Peek
<1>2. image \in Nat
  BY BootTypes DEF LoadInv
<1>3. BootTypeOK'
  BY <1>1 DEF LoadInv, BootTypeOK, Parts
<1>4. SegInv'
  BY <1>1 DEF LoadInv, SegInv, Own, SegCells
<1>5. TableInv'
  BY <1>1, TablesKept DEF AfterImage
<1>6. DataInv'
  BY <1>1, DataKept DEF AfterImage
<1> QED
  BY <1>1, <1>2, <1>3, <1>4, <1>5, <1>6 DEF LoadInv

LEMMA ImageStep == ASSUME LoadInv, Image PROVE LoadInv'
<1> DEFINE cells == CellsFrom(BootAddr, image)
           new == Plain(cells)
<1>1. /\ pc = "image" /\ UNCHANGED seg
      /\ Write(new, <<"image">>, "bios")
  BY DEF Image
<1>2. DOMAIN new = cells /\ image \in Nat /\ image # 0
  BY <1>1, BootTypes DEF Plain, LoadInv
<1>3. /\ cells \subseteq Own /\ ParamFields \cap cells = {}
      /\ image <= ImageRoom => TableCells \cap cells = {}
      /\ image <= CmdlinePage * PerPage - BootAddr =>
           Command \cap cells = {}
  BY <1>2, Apart, TablesOwn
<1> HIDE DEF new, cells
<1>4. /\ DOMAIN mem' = Cells /\ UNCHANGED <<kernel, image>>
      /\ \A c \in Cells \ cells : mem'[c] = mem[c]
      /\ pc' \in {"failed", "bios"}
  BY <1>1, <1>2, Written DEF LoadInv, BootTypeOK
<1>5. BootTypeOK'
  BY <1>1, <1>4 DEF LoadInv, BootTypeOK, Parts
<1>6. SegInv'
  BY <1>1, <1>2, <1>3, SegKept
<1>7. CASE pc' = "failed"
  <2>1. TableInv' /\ DataInv'
    BY <1>7 DEF TableInv, DataInv, AfterZero, AfterCmdline, AfterParams,
                AfterImage
  <2> QED
    BY <1>5, <1>6, <1>7, <2>1 DEF LoadInv
<1>8. CASE pc' = "bios"
  <2>1. AfterImage' /\ ~AfterImage
    BY <1>1, <1>8 DEF AfterImage
  <2>2. TableInv'
    BY <1>1, <1>3, <1>4, <1>8, <2>1, TablesKept
  <2>3. DataInv'
    BY <1>1, <1>3, <1>4, <1>8, <2>1, DataKept
  <2> QED
    BY <1>2, <1>4, <1>5, <1>6, <2>2, <2>3 DEF LoadInv
<1> QED
  BY <1>4, <1>7, <1>8

LEMMA BiosStep == ASSUME LoadInv, Bios PROVE LoadInv'
<1> DEFINE cells == {0, HandlerPage * PerPage}
           new == Plain(cells)
<1>1. pc = "bios" /\ UNCHANGED seg /\ Write(new, <<"bios">>, "done")
  BY DEF Bios
<1>2. DOMAIN new = cells /\ image # 0
  BY <1>1 DEF Plain, LoadInv
<1>3. /\ cells \subseteq Own
      /\ cells \cap (ParamFields \cup TableCells \cup Command) = {}
  BY <1>2, Apart, TablesOwn
<1> HIDE DEF new, cells
<1>4. /\ DOMAIN mem' = Cells /\ UNCHANGED <<kernel, image>>
      /\ \A c \in Cells \ cells : mem'[c] = mem[c]
      /\ pc' \in {"failed", "done"}
  BY <1>1, <1>2, Written DEF LoadInv, BootTypeOK
<1>5. BootTypeOK'
  BY <1>1, <1>4 DEF LoadInv, BootTypeOK, Parts
<1>6. SegInv'
  BY <1>1, <1>2, <1>3, SegKept
<1>7. \A c \in (ParamFields \cup TableCells \cup Command) \cap Cells :
        mem'[c] = mem[c]
  BY <1>3, <1>4
<1>8. CASE pc' = "failed"
  <2>1. TableInv' /\ DataInv'
    BY <1>8 DEF TableInv, DataInv, AfterZero, AfterCmdline, AfterParams,
                AfterImage
  <2> QED
    BY <1>5, <1>6, <1>8, <2>1 DEF LoadInv
<1>9. CASE pc' = "done"
  <2>1. AfterImage' /\ AfterImage
    BY <1>1, <1>9 DEF AfterImage
  <2>2. TableInv'
    BY <1>1, <1>4, <1>7, <1>9, <2>1, TablesKept
  <2>3. DataInv'
    BY <1>1, <1>4, <1>7, <1>9, <2>1, DataKept
  <2> QED
    BY <1>5, <1>6, <1>9, <2>2, <2>3 DEF LoadInv
<1> QED
  BY <1>4, <1>8, <1>9

LEMMA NextLoadInv == LoadInv /\ [BootNext]_bootVars => LoadInv'
<1> SUFFICES ASSUME LoadInv, [BootNext]_bootVars PROVE LoadInv'
  OBVIOUS
<1>1. CASE UNCHANGED bootVars
  BY <1>1 DEF bootVars, LoadInv, BootTypeOK, SegInv, Own, SegCells, TableInv,
       TableEntry, DataInv, AfterZero, AfterCmdline, AfterParams, AfterImage
<1> QED
  BY <1>1, SegmentStep, SegmentsDoneStep, ZeroStep, Pml4Step, PdpteStep,
     PdeStep, CmdlineStep, ParamsStep, PeekStep, ImageStep, BiosStep
     DEF BootNext

LEMMA LoadInvariant == BootSpec => []LoadInv
BY InitLoadInv, NextLoadInv, PTL DEF BootSpec

(* The loaders' state keeps its type, for every kernel and bootloader.     *)
THEOREM BootTypeCorrect == BootSpec => []BootTypeOK
BY LoadInvariant, PTL DEF LoadInv

(* Whatever the segments, the image and the command line are, a machine    *)
(* that was loaded has its kernel whole but for the loaders' structures,   *)
(* and its boot parameters and command line whole.                         *)
THEOREM LoadedWhole == BootSpec => []BootMemoryWhole
<1>1. LoadInv => BootMemoryWhole
  <2> SUFFICES ASSUME LoadInv, pc = "done" PROVE BootMemoryWhole
    BY DEF BootMemoryWhole, KernelWhole, BootDataWhole
  <2>1. KernelWhole
    <3>1. DOMAIN kernel.segments = 1 .. Len(kernel.segments)
      BY BootTypes DEF LoadInv
    <3> QED
      BY <3>1 DEF LoadInv, SegInv, KernelWhole
  <2>2. BootDataWhole
    BY DEF LoadInv, DataInv, AfterCmdline, AfterParams, BootDataWhole
  <2> QED
    BY <2>1, <2>2 DEF BootMemoryWhole
<1> QED
  BY <1>1, LoadInvariant, PTL

-----------------------------------------------------------------------------
(* The walk of the tables.  First, division: the digits of an address.     *)

LEMMA Division ==
  ASSUME NEW m \in Nat \ {0}, NEW a \in Nat
  PROVE  /\ a = (a \div m) * m + (a % m)
         /\ a % m \in 0 .. m - 1 /\ a \div m \in Nat
OBVIOUS

LEMMA Quotient ==
  ASSUME NEW m \in Nat \ {0}, NEW q \in Nat, NEW r \in 0 .. m - 1
  PROVE  (q * m + r) \div m = q /\ (q * m + r) % m = r
OBVIOUS

LEMMA Below ==
  ASSUME NEW m \in Nat \ {0}, NEW a \in 0 .. m - 1
  PROVE  a \div m = 0 /\ a % m = a
<1>1. (0 * m + a) \div m = 0 /\ (0 * m + a) % m = a
  BY Quotient
<1>2. 0 * m + a = a
  OBVIOUS
<1> QED
  BY <1>1, <1>2

(* The indices of the walk are the digits g, d, r of the page number.      *)
LEMMA Digits ==
  ASSUME NEW p \in Nat, p >= 8, NEW a \in 0 .. 8 * p * p - 1
  PROVE  \E g \in 0 .. 7, d \in 0 .. p - 1, r \in 0 .. p - 1 :
           /\ a = (g * p + d) * p + r
           /\ a \div (p * p * p) = 0
           /\ (a \div (p * p)) % p = g
           /\ (a \div p) % p = d
           /\ a % p = r
           /\ (a < 4 * p * p) <=> (g < 4)
<1> DEFINE m == p * p
           b == a \div p
           r == a % p
           g == b \div p
           d == b % p
<1>1. /\ m \in Nat /\ m # 0 /\ a \in Nat
      /\ 8 * p * p = 8 * m /\ 4 * p * p = 4 * m
      /\ p * p * p = p * m
  <2>1. m \in Nat /\ m # 0
    OBVIOUS
  <2>2. 8 * p * p = 8 * m /\ 4 * p * p = 4 * m /\ p * p * p = p * m
    OBVIOUS
  <2>3. 8 * p * p - 1 \in Nat
    BY <2>1, <2>2
  <2> QED
    BY <2>1, <2>2, <2>3
<1>p. p \in Nat \ {0}
  OBVIOUS
<1>2. a = b * p + r /\ r \in 0 .. p - 1 /\ b \in Nat
  BY <1>1, <1>p, Division, Zenon
<1>3. b = g * p + d /\ d \in 0 .. p - 1 /\ g \in Nat
  <2> HIDE DEF b
  <2> QED
    BY <1>2, <1>p, Division, Zenon
<1>4. a = (g * p + d) * p + r
  BY <1>2, <1>3
<1> HIDE DEF g, d, r, b
<1>5. a = g * m + (d * p + r) /\ d * p + r \in 0 .. m - 1
  <2>1. (g * p + d) * p + r = g * (p * p) + (d * p + r)
    BY <1>2, <1>3
  <2>2. d * p + r \in Nat /\ d * p + r <= (p - 1) * p + (p - 1)
    <3>1. d * p <= (p - 1) * p /\ d * p \in Nat
      BY <1>3
    <3> QED
      BY <1>2, <3>1
  <2>3. (p - 1) * p + (p - 1) = p * p - 1
    OBVIOUS
  <2> QED
    BY <1>1, <1>4, <2>1, <2>2, <2>3
<1> HIDE DEF m
<1>6. a \div m = g
  BY <1>1, <1>3, <1>5, Quotient
<1>7. g < 8
  <2>1. g * m < 8 * m
    BY <1>1, <1>3, <1>5
  <2>2. g >= 8 => g * m >= 8 * m
    BY <1>1, <1>3
  <2> QED
    BY <1>1, <1>3, <2>1, <2>2
<1>8. (a < 4 * m) <=> (g < 4)
  <2>1. g < 4 => g * m + m <= 4 * m
    BY <1>1, <1>3
  <2>2. g >= 4 => g * m >= 4 * m
    BY <1>1, <1>3
  <2> QED
    BY <1>1, <1>3, <1>5, <2>1, <2>2
<1>9. g % p = g
  BY <1>3, <1>7, Below
<1>10. a \div (p * m) = 0
  <2>1. p * m \in Nat /\ 8 * m <= p * m
    BY <1>1
  <2>2. a \in 0 .. p * m - 1 /\ p * m # 0
    BY <1>1, <2>1
  <2> QED
    BY <2>1, <2>2, Below
<1>11. /\ g \in 0 .. 7
       /\ (a \div (p * p)) % p = g /\ a \div (p * p * p) = 0
       /\ (a < 4 * p * p) <=> (g < 4)
  BY <1>1, <1>3, <1>6, <1>7, <1>8, <1>9, <1>10 DEF m
<1> QED
  BY <1>2, <1>3, <1>4, <1>11 DEF b, d, r

LEMMA EntryFields ==
  ASSUME NEW f \in Nat
  PROVE  /\ Frame(Entry(f, 3)) = f /\ Present(Entry(f, 3))
         /\ Frame(Entry(f, 131)) = f /\ Present(Entry(f, 131))
         /\ Huge(Entry(f, 131))
         /\ ~Present(0)
BY DEF Entry, Frame, Present, Huge

LEMMA WalkBy ==
  ASSUME NEW va, NEW e4, NEW e3, NEW e2,
         mem[9 * PerPage + va \div (PerPage * PerPage * PerPage)].entry = e4,
         mem[Frame(e4) * PerPage + ((va \div (PerPage * PerPage)) % PerPage)]
           .entry = e3,
         mem[Frame(e3) * PerPage + ((va \div PerPage) % PerPage)].entry = e2,
         Present(e4), Present(e3), Present(e2), Huge(e2)
  PROVE  Walk(va) = Frame(e2) + (va % PerPage)
BY DEF Walk, Pml4Page

(* The walk in tables that hold what the invariant says.                   *)
LEMMA TablesWalked ==
  ASSUME LoadInv, pc = "done", image <= ImageRoom,
         NEW va \in 0 .. 8 * PerPage * PerPage - 1
  PROVE  Walk(va) = IF va < 4 * PerPage * PerPage THEN va ELSE Fault
<1> DEFINE p == PerPage
<1>1. PICK g \in 0 .. 7, d \in 0 .. p - 1, r \in 0 .. p - 1 :
        /\ va = (g * p + d) * p + r
        /\ va \div (p * p * p) = 0
        /\ (va \div (p * p)) % p = g
        /\ (va \div p) % p = d
        /\ va % p = r
        /\ (va < 4 * p * p) <=> (g < 4)
  BY Layout, Digits
<1>2. \A c \in TableCells : mem[c].entry = TableEntry(c)
  BY DEF LoadInv, TableInv, AfterZero, AfterCmdline, AfterParams
<1>3. \A c \in TableCells :
        /\ c = 9 * p => mem[c].entry = Entry(10, 3)
        /\ c \in PdpteCells => mem[c].entry = Entry(11 + (c - 10 * p), 3)
        /\ c \in PdeCells => mem[c].entry = Entry((c - 11 * p) * p, 131)
        /\ c # 9 * p /\ c \notin PdpteCells /\ c \notin PdeCells
             => mem[c].entry = 0
  BY <1>2, TablesApart DEF TableEntry, Pml4Page, PdptePage, PdePage
<1>4. mem[9 * p + 0].entry = Entry(10, 3)
  BY <1>3, TablesOwn, Layout DEF Pml4Page
<1>5. Frame(Entry(10, 3)) = 10 /\ Present(Entry(10, 3))
  BY EntryFields
<1>6. CASE g < 4
  <2>1. 10 * p + g \in PdpteCells /\ 10 * p + g \in TableCells
    BY <1>6, TablesOwn, Layout DEF PdpteCells, CellsFrom, PdptePage, Pml4Page
  <2>2. mem[10 * p + g].entry = Entry(11 + g, 3)
    <3>1. (10 * p + g) - 10 * p = g
      BY Layout
    <3> QED
      BY <1>3, <2>1, <3>1
  <2>3. Frame(Entry(11 + g, 3)) = 11 + g /\ Present(Entry(11 + g, 3))
    BY EntryFields
  <2> DEFINE b == g * p + d
             c == (11 + g) * p + d
  <2>4. b \in Nat /\ c = 11 * p + b /\ b < 4 * p /\ b * p \in Nat
    <3>1. g * p \in Nat /\ g * p <= 3 * p /\ (11 + g) * p = 11 * p + g * p
      BY <1>6, Layout
    <3>2. b \in Nat /\ c = 11 * p + b /\ b < 4 * p
      BY <3>1, Layout
    <3> QED
      BY <3>2, Layout
  <2> HIDE DEF b, c
  <2>5. c \in PdeCells /\ c \in TableCells
    BY <2>4, TablesOwn, Layout DEF PdeCells, CellsFrom, PdePage, Pml4Page
  <2>6. mem[c].entry = Entry(b * p, 131)
    <3>1. c - 11 * p = b
      BY <2>4, Layout
    <3> QED
      BY <1>3, <2>5, <3>1
  <2>7. /\ Frame(Entry(b * p, 131)) = b * p /\ Present(Entry(b * p, 131))
        /\ Huge(Entry(b * p, 131))
    BY <2>4, EntryFields
  <2>8. Walk(va) = b * p + r
    <3>1. mem[9 * p + va \div (p * p * p)].entry = Entry(10, 3)
      BY <1>1, <1>4
    <3>2. mem[Frame(Entry(10, 3)) * p + ((va \div (p * p)) % p)].entry
            = Entry(11 + g, 3)
      BY <1>1, <1>5, <2>2
    <3>3. mem[Frame(Entry(11 + g, 3)) * p + ((va \div p) % p)].entry
            = Entry(b * p, 131)
      BY <1>1, <2>3, <2>6 DEF c
    <3> QED
      BY <1>1, <1>5, <2>3, <2>7, <3>1, <3>2, <3>3, WalkBy
  <2>9. va = b * p + r
    BY <1>1 DEF b
  <2> QED
    BY <1>1, <1>6, <2>8, <2>9
<1>7. CASE ~(g < 4)
  <2>1. /\ 10 * p + g \in TableCells /\ 10 * p + g # 9 * p
        /\ 10 * p + g \notin PdpteCells /\ 10 * p + g \notin PdeCells
    BY <1>7, Layout DEF TableCells, PdpteCells, PdeCells, CellsFrom,
                        PdptePage, PdePage, Pml4Page
  <2>2. mem[10 * p + g].entry = 0 /\ ~Present(0)
    BY <1>3, <2>1, EntryFields
  <2>3. Walk(va) = Fault
    BY <1>1, <1>4, <1>5, <2>2 DEF Walk, Pml4Page
  <2> QED
    BY <1>1, <1>7, <2>3
<1> QED
  BY <1>6, <1>7

(* For every size of a table, the tables map the low four table-fuls to    *)
(* themselves and nothing above, whatever the kernel's segments held there *)
(* before, with every bootloader that ends below the tables.               *)
THEOREM MappedToItself == BootSpec => []IdentityMap
<1>1. LoadInv => IdentityMap
  BY TablesWalked DEF IdentityMap
<1> QED
  BY <1>1, LoadInvariant, PTL

-----------------------------------------------------------------------------
(* Setting a machine up: main(), its guest memory and the loaders, in one  *)
(* behaviour.  What is proved of each alone is true of each there.         *)

(* main() behaves as in Hypervisor.                                        *)
THEOREM SetUpIsMain == SetUpSpec => Spec
<1>1. SetUpInit => Init
  BY DEF SetUpInit
<1>2. [SetUpNext]_<<part, vars, memoryVars, bootVars>> => [Next]_vars
  BY DEF SetUpNext
<1> QED
  BY <1>1, <1>2, PTL DEF SetUpSpec, Spec

(* The regions of guest memory are made and registered as in GuestMemory.  *)
THEOREM SetUpIsMemory == SetUpSpec => MemorySpec
<1>1. SetUpInit => MemoryInit
  BY DEF SetUpInit
<1>2. [SetUpNext]_<<part, vars, memoryVars, bootVars>>
        => [MemoryNext]_memoryVars
  BY DEF SetUpNext
<1> QED
  BY <1>1, <1>2, PTL DEF SetUpSpec, MemorySpec

(* The loaders write as in BootLayout, and stop where they end.            *)
THEOREM SetUpIsBoot == SetUpSpec => BootSpec
<1>1. SetUpInit => BootInit
  BY DEF SetUpInit
<1>2. [SetUpNext]_<<part, vars, memoryVars, bootVars>>
        => [BootNext]_bootVars
  BY DEF SetUpNext, Loaded
<1> QED
  BY <1>1, <1>2, PTL DEF SetUpSpec, BootSpec

(* main(), guest memory and the loaders keep their types in every          *)
(* behaviour the run explores, for any command line, build and kernel.     *)
THEOREM SetUpTypeCorrect == SetUpSpec => []SetUpTypeOK
<1>1. TypeOK /\ MemoryTypeOK /\ BootTypeOK => SetUpTypeOK
  BY DEF SetUpTypeOK
<1> QED
  BY <1>1, SetUpIsMain, SetUpIsMemory, SetUpIsBoot, TypeCorrect,
     MemoryTypeCorrect, BootTypeCorrect, PTL

=============================================================================
