----------------------------- MODULE BootLayout -----------------------------
(***************************************************************************)
(* What ends up where in guest memory before the guest starts:             *)
(* KernelLoader::load_kernel (kernel_loader.rs) and then, with             *)
(* --bootloader, BiosLoader::load_bootloader (bootloader.rs).              *)
(*                                                                         *)
(* Memory is an array of cells, PerPage of them to a page.  A cell holds   *)
(* one entry of a page table; everything else is told apart by who wrote   *)
(* the cell.  Page numbers are the ones of the code: boot parameters in    *)
(* page 7, page tables in pages 9 to 14, command line in page 16.  The     *)
(* tables are scaled with the page, to PerPage entries instead of 512; for *)
(* everything else a cell is PerPage-th of 4096 bytes.                     *)
(***************************************************************************)
EXTENDS Naturals, Sequences

CONSTANTS
  PerPage,      \* cells of a page, entries of a page table
  RamPages,     \* pages of guest memory
  Kernels,      \* ELF files: [segments, entry]; a segment is [at, len, extent]
  Images,       \* lengths in cells of the bootloader; 0: none is given
  CmdlineLen    \* cells of the command line

PtLoad == [at : Nat, len : Nat, extent : {"inside", "past", "wraps"}]

ASSUME BootAssumption ==
  /\ {PerPage, RamPages, CmdlineLen} \subseteq Nat \ {0}
  /\ PerPage % 8 = 0 /\ RamPages > 16
  /\ Kernels \subseteq [segments : Seq(PtLoad), entry : Nat]
  /\ Images \subseteq Nat

VARIABLES
  pc,       \* the next part to write
  kernel,   \* the ELF file
  image,    \* length of the bootloader
  seg,      \* PT_LOAD segments written so far
  mem       \* guest memory: who wrote each cell, and the entry it holds

bootVars == <<pc, kernel, image, seg, mem>>

Cells == 0 .. RamPages * PerPage - 1

\* The cells from cell `at` on, and the cells of page p.
CellsFrom(at, len) == at .. at + len - 1
Page(p) == CellsFrom(p * PerPage, PerPage)

ParamsPage == 7
Pml4Page == 9
PdptePage == Pml4Page + 1
PdePage == Pml4Page + 2
CmdlinePage == 16
HandlerPage == 1
BootAddr == ParamsPage * PerPage + (3 * PerPage) \div 4   \* 0x7c00
Command == CellsFrom(CmdlinePage * PerPage, CmdlineLen)

\* The fields of boot_params a kernel reads lie below 0x7400.
ParamFields == CellsFrom(ParamsPage * PerPage, PerPage \div 4)

\* A table entry: the frame it points to and its low bits, 0x3 or 0x83.
Entry(frame, flags) == frame * 256 + flags
Frame(e) == e \div 256
Present(e) == e % 2 = 1
Huge(e) == e % 256 >= 128

Parts == {"segments", "zero", "pml4", "pdpte", "pde", "cmdline", "params",
          "peek", "image", "bios", "done", "failed", "panicked"}

BootTypeOK ==
  /\ pc \in Parts
  /\ kernel \in Kernels
  /\ image \in Images
  /\ seg \in 0 .. Len(kernel.segments)
  /\ DOMAIN mem = Cells

BootInit ==
  /\ pc = "segments"
  /\ kernel \in Kernels
  /\ image \in Images
  /\ seg = 0
  /\ mem = [c \in Cells |-> [by |-> <<"none">>, entry |-> 0]]

\* memory.write_slice of `new`, entries on a set of cells: what lies inside
\* memory is written, and it is an error if not all does.
Write(new, by, next) ==
  /\ mem' = [c \in Cells |-> IF c \in DOMAIN new
                               THEN [by |-> by, entry |-> new[c]]
                               ELSE mem[c]]
  /\ pc' = IF DOMAIN new \subseteq Cells THEN next ELSE "failed"
  /\ UNCHANGED <<kernel, image>>

\* Contents in which no entry matters.
Plain(cells) == [c \in cells |-> 0]

SegName(k) == <<"segment", k>>
SegCells(k) == CellsFrom(kernel.segments[k].at, kernel.segments[k].len)

\* The next PT_LOAD segment.  One that ends past the end of the file is an
\* error before anything of it is written.  If p_offset + p_filesz wraps, the
\* addition panics, or the slice does, or the sum is past the end as well.
Segment ==
  /\ pc = "segments" /\ seg < Len(kernel.segments)
  /\ LET extent == kernel.segments[seg + 1].extent
     IN \/ /\ extent = "inside"
           /\ seg' = seg + 1
           /\ Write(Plain(SegCells(seg + 1)), SegName(seg + 1), "segments")
        \/ /\ \/ extent = "past" /\ pc' = "failed"
              \/ extent = "wraps" /\ pc' \in {"failed", "panicked"}
           /\ UNCHANGED <<kernel, image, seg, mem>>

SegmentsDone ==
  /\ pc = "segments" /\ seg = Len(kernel.segments)
  /\ pc' = "zero"
  /\ UNCHANGED <<kernel, image, seg, mem>>

MutZero ==
  /\ pc = "zero"
  /\ LET new == Plain(CellsFrom(Pml4Page * PerPage, 8 * PerPage))
     IN Write(new, <<"tables">>, "pml4")
  /\ UNCHANGED seg

\* Six pages of zeros.
Zero ==
  /\ pc = "zero"
  /\ LET new == Plain(CellsFrom(Pml4Page * PerPage, 6 * PerPage))
     IN Write(new, <<"tables">>, "pml4")
  /\ UNCHANGED seg

\* Entry 0 of the PML4.
Pml4 ==
  /\ pc = "pml4"
  /\ LET new == [c \in {Pml4Page * PerPage} |-> Entry(PdptePage, 3)]
     IN Write(new, <<"tables">>, "pdpte")
  /\ UNCHANGED seg

\* Entries 0 to 3 of the PDPT point to four pages of PDEs.
Pdpte ==
  /\ pc = "pdpte"
  /\ LET new == [c \in CellsFrom(PdptePage * PerPage, 4) |->
                   Entry(PdePage + (c - PdptePage * PerPage), 3)]
     IN Write(new, <<"tables">>, "pde")
  /\ UNCHANGED seg

MutPde ==
  /\ pc = "pde"
  /\ LET new == [c \in CellsFrom(PdePage * PerPage, 4 * PerPage) |->
                   Entry(((c - PdePage * PerPage) % PerPage) * PerPage, 131)]
     IN Write(new, <<"tables">>, "cmdline")
  /\ UNCHANGED seg

\* Four pages of PDEs, one after the other, each entry a huge page.
Pde ==
  /\ pc = "pde"
  /\ LET new == [c \in CellsFrom(PdePage * PerPage, 4 * PerPage) |->
                   Entry((c - PdePage * PerPage) * PerPage, 131)]
     IN Write(new, <<"tables">>, "cmdline")
  /\ UNCHANGED seg

Cmdline ==
  /\ pc = "cmdline"
  /\ Write(Plain(Command), <<"cmdline">>, "params")
  /\ UNCHANGED seg

Params ==
  /\ pc = "params"
  /\ Write(Plain(Page(ParamsPage)), <<"params">>, "peek")
  /\ UNCHANGED seg

\* The log line that shows the bytes at the entry point: unwrap() panics if
\* they are not in memory.
Peek ==
  /\ pc = "peek"
  /\ pc' = IF kernel.entry \notin Cells THEN "panicked"
           ELSE IF image > 0 THEN "image" ELSE "done"
  /\ UNCHANGED <<kernel, image, seg, mem>>

\* load_bootloader: the image, of any length, at 0x7c00.
Image ==
  /\ pc = "image"
  /\ Write(Plain(CellsFrom(BootAddr, image)), <<"image">>, "bios")
  /\ UNCHANGED seg

\* install_minimal_bios: the vectors in page 0, the handlers at 0x1000.
Bios ==
  /\ pc = "bios"
  /\ Write(Plain({0, HandlerPage * PerPage}), <<"bios">>, "done")
  /\ UNCHANGED seg

BootNext == Segment \/ SegmentsDone \/ Zero \/ Pml4 \/ Pdpte \/ Pde \/ Cmdline
          \/ Params \/ Peek \/ Image \/ Bios

BootSpec == BootInit /\ [][BootNext]_bootVars

-----------------------------------------------------------------------------
(* What the run checks.                                                    *)

\* The largest image that ends below the page tables: 5120 bytes.
ImageRoom == Pml4Page * PerPage - BootAddr

\* The walk of the tables from the PML4 for page number va.  Fault is no page
\* number.
Fault == RamPages * PerPage * PerPage * PerPage
Walk(va) ==
  LET slot(frame, index) == mem[frame * PerPage + index].entry
      e4 == slot(Pml4Page, va \div (PerPage * PerPage * PerPage))
      e3 == slot(Frame(e4), (va \div (PerPage * PerPage)) % PerPage)
      e2 == slot(Frame(e3), (va \div PerPage) % PerPage)
  IN IF ~Present(e4) THEN Fault
     ELSE IF ~Present(e3) THEN Fault
     ELSE IF Present(e2) /\ Huge(e2) THEN Frame(e2) + (va % PerPage)
     ELSE Fault

\* The tables map the low four table-fuls (4GB) to themselves and nothing
\* else, whatever the segments of the kernel held there before, and for
\* every bootloader that ends below them.
IdentityMap ==
  pc = "done" /\ image <= ImageRoom =>
    \A va \in 0 .. 8 * PerPage * PerPage - 1 :
      Walk(va) = IF va < 4 * PerPage * PerPage THEN va ELSE Fault

\* Where the loaders put structures of their own.
Own ==
  (UNION {Page(p) : p \in {ParamsPage} \cup (Pml4Page .. Pml4Page + 5)})
    \cup Command
    \cup IF image = 0 THEN {}
         ELSE CellsFrom(BootAddr, image) \cup {0, HandlerPage * PerPage}

\* A kernel that was loaded is whole, except where the loaders put structures
\* of their own or a later segment overlaps an earlier one.
KernelWhole ==
  pc = "done" =>
    \A k \in DOMAIN kernel.segments : \A c \in SegCells(k) :
      \/ mem[c].by = SegName(k)
      \/ c \in Own
      \/ \E j \in k + 1 .. Len(kernel.segments) : c \in SegCells(j)

\* The fields of boot_params that the kernel reads and the command line they
\* point to survive the segments loaded before and the bootloader loaded
\* after them, unless that is long enough to reach the command line.
BootDataWhole ==
  pc = "done" =>
    /\ \A c \in ParamFields : mem[c].by = <<"params">>
    /\ image <= CmdlinePage * PerPage - BootAddr =>
         \A c \in Command : mem[c].by = <<"cmdline">>

\* What the guest needs of the memory it starts with is whole: the kernel, and
\* the boot parameters with the command line.
BootMemoryWhole == KernelWhole /\ BootDataWhole

=============================================================================
