------------------------------ MODULE Snapshot ------------------------------
(***************************************************************************)
(* SnapshotManager (snapshot.rs): create_snapshot, restore_snapshot,       *)
(* save_to_file and load_from_file, with the serde code of VmState.        *)
(*                                                                         *)
(* No vCPU thread runs while the manager works (OwnerActsAlone in module   *)
(* Hypervisor), so what interleaves with it is failure: an ioctl that      *)
(* fails between two registers, a region that does not fit, a disk that is *)
(* full, a process killed between File::create and the last byte.  A       *)
(* client of the library may also keep a VmState as JSON and give it to a  *)
(* machine of another size.                                                *)
(*                                                                         *)
(* Memory is counted in the 4096-byte chunks the manager copies.  What a   *)
(* chunk or a register set holds is the generation of the guest that wrote *)
(* it, tagged with the place it was written to.                            *)
(***************************************************************************)
EXTENDS Naturals, Sequences

CONSTANTS
  Machines,   \* the machines a process may be started with
  MaxGen      \* bound: how often the guest writes

\* The regions of GuestMemoryMmap do not overlap.
ASSUME MachinesAssumption ==
  /\ Machines \subseteq
       [regions : Seq([start : Nat, len : Nat \ {0}]), cpus : Nat]
  /\ \A m \in Machines : \A r, s \in DOMAIN m.regions :
       r < s => m.regions[r].start + m.regions[r].len <= m.regions[s].start
  /\ MaxGen \in Nat

VARIABLES
  machine,    \* the machine of this process
  mem,        \* guest memory, by chunk
  cpu,        \* registers of each vCPU
  dev,        \* the state of the devices
  gen,        \* what the guest wrote last
  pc,         \* where the operation in progress is
  i, j,       \* its position: region and chunk, or vCPU and register set
  doc,        \* the VmState the operation works on, or <<>>
  held,       \* the VmState a client keeps as JSON, or <<>>
  file,       \* the snapshot file
  last,       \* how the last operation ended
  before,     \* history: mem and cpu when the restore in progress began
  taken       \* history: cpu and dev when held was created

machineVars == <<machine, mem, cpu, dev, gen>>
vars == <<machine, mem, cpu, dev, gen, pc, i, j, doc, held, file, last,
          before, taken>>

\* The register sets in the order restore_vcpu_state writes them; msrs are
\* part of a vCPU and of no snapshot.
RegSets == <<"regs", "sregs", "fpu">>
AllSets == {"regs", "sregs", "fpu", "msrs"}

Chunks(r) == r.start .. (r.start + r.len - 1)
Ram(m) == UNION {Chunks(m.regions[r]) : r \in DOMAIN m.regions}

Contents(m, g) == [a \in Ram(m) |-> <<g, a>>]
Registers(m, g) ==
  [v \in 1 .. m.cpus |-> [s \in AllSets |-> <<g, <<v, s>> >>]]

NoFile == [kind |-> "none", doc |-> <<>>]

Init ==
  /\ machine \in Machines
  /\ mem = Contents(machine, 0) /\ cpu = Registers(machine, 0)
  /\ dev = 0 /\ gen = 0
  /\ pc = "idle" /\ i = 1 /\ j = 1
  /\ doc = <<>> /\ held = <<>> /\ file = NoFile
  /\ last = "none"
  /\ before = [mem |-> mem, cpu |-> cpu]
  /\ taken = [cpu |-> cpu, dev |-> dev]

-----------------------------------------------------------------------------
(* What the manager takes from a machine.                                  *)

\* save_memory: every region, chunk by chunk.
save_memory ==
  [r \in DOMAIN machine.regions |->
     LET region == machine.regions[r] IN
     [guest_addr |-> region.start, size |-> region.len,
      data |-> [c \in 1 .. region.len |-> mem[region.start + c - 1]]]]

\* save_vcpu_state: the MSR list stays empty.
save_vcpu_state(v) ==
  [id |-> v, regs |-> cpu[v].regs, sregs |-> cpu[v].sregs,
   fpu |-> cpu[v].fpu, msrs |-> <<>>]

\* The VmState create_snapshot builds: no device state.
VmState ==
  [memory_regions |-> save_memory,
   vcpu_states |-> [v \in 1 .. machine.cpus |-> save_vcpu_state(v)],
   device_states |-> <<>>]

-----------------------------------------------------------------------------
(* Decoding.  serde hands a visitor a struct as a map or as a sequence of  *)
(* its fields; a visitor fails on the form it has no method for.           *)

\* External: serde_json writes names, bincode only the fields in order.
Form(format) == IF format = "json" THEN "map" ELSE "seq"

\* The forms the visitors of the snapshot's structs accept.
VmStateVisitor == {"map"}
MemoryRegionVisitor == {"map"}
VcpuStateVisitor == {"map"}
DeviceStateVisitor == {"map"}

\* Deserializing what Serialize wrote: each struct that occurs is visited.
Decodes(format, state) ==
  /\ Form(format) \in VmStateVisitor
  /\ state.memory_regions # <<>> => Form(format) \in MemoryRegionVisitor
  /\ state.vcpu_states # <<>> => Form(format) \in VcpuStateVisitor
  /\ state.device_states # <<>> => Form(format) \in DeviceStateVisitor

-----------------------------------------------------------------------------
(* Steps shared by the operations.                                         *)

Finish(how) ==
  /\ pc' = "idle" /\ i' = 1 /\ j' = 1
  /\ doc' = <<>>
  /\ last' = how

\* The guest runs, between two operations: memory, registers and devices
\* change.
GuestRuns ==
  /\ pc = "idle" /\ gen < MaxGen
  /\ gen' = gen + 1
  /\ mem' = Contents(machine, gen')
  /\ cpu' = Registers(machine, gen')
  /\ dev' = gen'
  /\ last' = "none"
  /\ UNCHANGED <<machine, pc, i, j, doc, held, file, before, taken>>

\* create_snapshot for a client, which keeps the result as JSON; or get_regs,
\* get_sregs or get_fpu fails, and the client keeps what it had.
create_snapshot ==
  /\ pc = "idle"
  /\ \/ /\ held' = <<VmState>>
        /\ taken' = [cpu |-> cpu, dev |-> dev]
        /\ last' = "created"
     \/ /\ last' = "createFailed"
        /\ UNCHANGED <<held, taken>>
  /\ UNCHANGED <<machineVars, pc, i, j, doc, file, before>>

MutBeginRestoreVcpusFirst(state) ==
  /\ pc' = "vcpus" /\ i' = 1 /\ j' = 1
  /\ doc' = <<state>>
  /\ before' = [mem |-> mem, cpu |-> cpu]
  /\ last' = "none"
  /\ UNCHANGED <<machineVars, held, file, taken>>

\* restore_snapshot is called: memory comes first.
BeginRestore(state) ==
  /\ pc' = "memory" /\ i' = 1 /\ j' = 1
  /\ doc' = <<state>>
  /\ before' = [mem |-> mem, cpu |-> cpu]
  /\ last' = "none"
  /\ UNCHANGED <<machineVars, held, file, taken>>

\* A client parses its JSON and restores it.
RestoreHeld ==
  /\ pc = "idle" /\ held # <<>>
  /\ IF Decodes("json", held[1])
     THEN BeginRestore(held[1])
     ELSE /\ Finish("decodeFailed")
          /\ UNCHANGED <<machineVars, held, file, before, taken>>

-----------------------------------------------------------------------------
(* restore_memory, one chunk at a time.                                    *)

\* The indices of the region find_region returns: none, or one.
find_region(addr) ==
  {r \in DOMAIN machine.regions : addr \in Chunks(machine.regions[r])}

MutFitsIgnoresEnd(saved, r) == machine.regions[r].start <= saved.guest_addr

Fits(saved, r) ==
  LET region == machine.regions[r] IN
  /\ region.start <= saved.guest_addr
  /\ saved.guest_addr + saved.size <= region.start + region.len

\* write_slice of the next chunk, at its offset in region r, or the error of
\* a write past the end of the region.
WriteChunk(saved, r) ==
  LET addr == saved.guest_addr + j - 1
      done == j = Len(saved.data)
  IN  IF addr \in Chunks(machine.regions[r])
      THEN /\ mem' = [mem EXCEPT ![addr] = saved.data[j]]
           /\ i' = IF done THEN i + 1 ELSE i
           /\ j' = IF done THEN 1 ELSE j + 1
           /\ UNCHANGED <<pc, doc, last>>
      ELSE Finish("memoryFailed") /\ UNCHANGED mem

\* The next chunk of the saved region i, once the region is found to fit.
restore_memory ==
  /\ pc = "memory" /\ i <= Len(doc[1].memory_regions)
  /\ LET saved == doc[1].memory_regions[i]
         found == find_region(saved.guest_addr)
     IN  IF \E r \in found : Fits(saved, r)
         THEN \E r \in found : WriteChunk(saved, r)
         ELSE Finish("memoryFailed") /\ UNCHANGED mem
  /\ UNCHANGED <<machine, cpu, dev, gen, held, file, before, taken>>

MutMemoryRestoredKeepsIndex ==
  /\ pc = "memory" /\ i > Len(doc[1].memory_regions)
  /\ pc' = "vcpus"
  /\ UNCHANGED <<machineVars, i, j, doc, held, file, last, before, taken>>

\* restore_memory returns; the loop over the vCPUs begins.
MemoryRestored ==
  /\ pc = "memory" /\ i > Len(doc[1].memory_regions)
  /\ pc' = "vcpus" /\ i' = 1 /\ j' = 1
  /\ UNCHANGED <<machineVars, doc, held, file, last, before, taken>>

-----------------------------------------------------------------------------
(* restore_vcpu_state for each saved vCPU, one ioctl at a time.            *)

MutRestoreVcpuForgetsFpu ==
  /\ pc = "vcpus" /\ i <= Len(doc[1].vcpu_states) /\ i <= machine.cpus
  /\ LET set == RegSets[j] IN
       cpu' = [cpu EXCEPT ![i][set] = doc[1].vcpu_states[i][set]]
  /\ i' = IF j = 2 THEN i + 1 ELSE i
  /\ j' = IF j = 2 THEN 1 ELSE j + 1
  /\ UNCHANGED <<machine, mem, dev, gen, pc, doc, held, file, last, before,
                 taken>>

\* set_regs, set_sregs, set_fpu; each may fail and ends the restore there.
restore_vcpu_state ==
  /\ pc = "vcpus" /\ i <= Len(doc[1].vcpu_states) /\ i <= machine.cpus
  /\ LET set == RegSets[j]
         done == j = Len(RegSets)
     IN  \/ /\ cpu' = [cpu EXCEPT ![i][set] = doc[1].vcpu_states[i][set]]
            /\ i' = IF done THEN i + 1 ELSE i
            /\ j' = IF done THEN 1 ELSE j + 1
            /\ UNCHANGED <<pc, doc, last>>
         \/ Finish("vcpuFailed") /\ UNCHANGED cpu
  /\ UNCHANGED <<machine, mem, dev, gen, held, file, before, taken>>

\* Saved vCPUs this machine does not have are passed over, and vCPUs that
\* were not saved keep what they hold; nothing is done for devices.
VcpusRestored ==
  /\ pc = "vcpus"
  /\ i > Len(doc[1].vcpu_states) \/ i > machine.cpus
  /\ Finish("restored")
  /\ UNCHANGED <<machineVars, held, file, before, taken>>

-----------------------------------------------------------------------------
(* Files.                                                                  *)

MutSaveTruncatesFirst ==
  /\ pc = "idle"
  /\ file' = [kind |-> "partial", doc |-> <<>>]
  /\ \/ /\ pc' = "create"
        /\ doc' = <<VmState>>
        /\ last' = "none"
        /\ UNCHANGED <<i, j>>
     \/ Finish("saveFailed")
  /\ UNCHANGED <<machineVars, held, before, taken>>

\* save_to_file collects the state first, which may fail.
SaveCollects ==
  /\ pc = "idle"
  /\ \/ /\ pc' = "create"
        /\ doc' = <<VmState>>
        /\ last' = "none"
        /\ UNCHANGED <<i, j>>
     \/ Finish("saveFailed")
  /\ UNCHANGED <<machineVars, held, file, before, taken>>

\* File::create empties the file, or fails and leaves it alone.
SaveCreates ==
  /\ pc = "create"
  /\ \/ /\ file' = [kind |-> "partial", doc |-> <<>>]
        /\ pc' = "serialize"
        /\ UNCHANGED <<i, j, doc, last>>
     \/ Finish("saveFailed") /\ UNCHANGED file
  /\ UNCHANGED <<machineVars, held, before, taken>>

\* serialize_into writes all of the state, or fails and leaves a part.
SaveSerializes ==
  /\ pc = "serialize"
  /\ \/ file' = [kind |-> "whole", doc |-> doc] /\ Finish("saved")
     \/ Finish("saveFailed") /\ UNCHANGED file
  /\ UNCHANGED <<machineVars, held, before, taken>>

\* load_from_file: open, decode with bincode, restore.
load_from_file ==
  /\ pc = "idle"
  /\ IF file.kind = "whole"
     THEN IF Decodes("bincode", file.doc[1])
          THEN BeginRestore(file.doc[1])
          ELSE /\ Finish("decodeFailed")
               /\ UNCHANGED <<machineVars, held, file, before, taken>>
     ELSE /\ Finish("loadFailed")
          /\ UNCHANGED <<machineVars, held, file, before, taken>>

\* The process ends or is killed, wherever it is, and another one starts,
\* perhaps with other arguments; the file and the client's JSON remain.
Restart ==
  /\ machine' \in Machines
  /\ mem' = Contents(machine', 0) /\ cpu' = Registers(machine', 0)
  /\ dev' = 0
  /\ Finish("none")
  /\ before' = [mem |-> mem', cpu |-> cpu']
  /\ UNCHANGED <<gen, held, file, taken>>

Next ==
  \/ GuestRuns \/ create_snapshot \/ RestoreHeld
  \/ restore_memory \/ MemoryRestored \/ restore_vcpu_state \/ VcpusRestored
  \/ SaveCollects \/ SaveCreates \/ SaveSerializes \/ load_from_file
  \/ Restart

Spec == Init /\ [][Next]_vars

-----------------------------------------------------------------------------
(* What the runs check.                                                    *)

TypeOK ==
  /\ machine \in Machines
  /\ mem \in [Ram(machine) -> (0 .. MaxGen) \X Nat]
  /\ cpu \in [1 .. machine.cpus ->
              [AllSets -> (0 .. MaxGen) \X (Nat \X AllSets)]]
  /\ dev \in 0 .. MaxGen /\ gen \in 0 .. MaxGen
  /\ pc \in {"idle", "memory", "vcpus", "create", "serialize"}
  /\ pc = "memory" => i \in 1 .. Len(doc[1].memory_regions) + 1
  /\ pc = "vcpus" => /\ i \in 1 .. Len(doc[1].vcpu_states) + 1
                     /\ j \in DOMAIN RegSets
  /\ file.kind \in {"none", "partial", "whole"}
  /\ last \in {"none", "created", "createFailed", "restored", "decodeFailed",
               "memoryFailed", "vcpuFailed", "saved", "saveFailed",
               "loadFailed"}

\* Region r of a VmState is in guest memory, chunk for chunk.
Present(state, r) ==
  LET saved == state.memory_regions[r] IN
  \A c \in DOMAIN saved.data :
    /\ saved.guest_addr + c - 1 \in DOMAIN mem
    /\ mem[saved.guest_addr + c - 1] = saved.data[c]

Covered(state, r) == Chunks([start |-> state.memory_regions[r].guest_addr,
                             len |-> state.memory_regions[r].size])

\* A restore_snapshot that returns Ok has put back exactly what the VmState
\* holds: every chunk where it came from, every register set of every vCPU
\* that has one, and nothing else, whatever machine it is restored on.
RestoreIsExact ==
  [][pc = "vcpus" /\ last' = "restored" =>
       /\ \A r \in DOMAIN doc[1].memory_regions : Present(doc[1], r)
       /\ \A a \in Ram(machine) :
            \/ mem[a] = before.mem[a]
            \/ \E r \in DOMAIN doc[1].memory_regions : a \in Covered(doc[1], r)
       /\ \A v \in DOMAIN cpu, s \in AllSets :
            cpu[v][s] = IF v <= Len(doc[1].vcpu_states) /\ s # "msrs"
                        THEN doc[1].vcpu_states[v][s]
                        ELSE before.cpu[v][s]]_vars

\* A restore that fails has restored each region as a whole or left it alone:
\* restore_memory finds out that a region does not fit before it writes the
\* region's first chunk.
RegionsWhole ==
  [][pc # "idle" /\ last' \in {"memoryFailed", "vcpuFailed"} =>
       \A r \in DOMAIN doc[1].memory_regions :
         \/ Present(doc[1], r)
         \/ \A a \in Covered(doc[1], r) \cap Ram(machine) :
              mem[a] = before.mem[a]]_vars

\* No register changes before all of the memory is back: a VmState whose
\* memory does not fit leaves every vCPU as it was.
VcpusAfterMemory ==
  pc \in {"memory", "vcpus"} /\ cpu # before.cpu =>
    \A r \in DOMAIN doc[1].memory_regions : Present(doc[1], r)

\* save_to_file touches the file only with the state of the present machine
\* in hand: a vCPU whose registers cannot be read costs no older snapshot.
FileChangesWithStateInHand == [][file' # file => doc = <<VmState>>]_vars

-----------------------------------------------------------------------------
(* What the repository says and the code does not do.                      *)

\* vm.rs on restore_state: "Restores VM state from a previously saved JSON
\* snapshot": load_from_file decodes what save_to_file wrote.
LoadsWhatItSaved == last = "decodeFailed" => file.kind # "whole"

\* README.md: "Save and restore complete VM state (vCPUs, memory, devices)":
\* after a restore on a machine with the same vCPUs, vCPUs and devices are
\* what they were when the snapshot was taken.
RestoresCompleteState ==
  last = "restored" /\ Len(held[1].vcpu_states) = machine.cpus =>
    cpu = taken.cpu /\ dev = taken.dev

=============================================================================
