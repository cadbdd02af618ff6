--------------------------- MODULE SnapshotProofs ---------------------------
(***************************************************************************)
(* Proofs about Snapshot, for any machines and any number of guest         *)
(* generations: what save_to_file has in hand when it changes the file,    *)
(* and what a restore has written, chunk by chunk and register by          *)
(* register, wherever it succeeds or fails.                                *)
(***************************************************************************)
EXTENDS Snapshot, TLAPS

\* From File::create on, the state to be written is that of the machine.
StateInHand == pc \in {"create", "serialize"} => doc = <<VmState>>

(* What create_snapshot would build depends on the machine alone.          *)
LEMMA SameState ==
  ASSUME UNCHANGED machineVars
  PROVE  VmState' = VmState
<1>1. save_memory' = save_memory
  BY DEF machineVars, save_memory
<1>2. \A v : save_vcpu_state(v)' = save_vcpu_state(v)
  BY DEF machineVars, save_vcpu_state
<1> QED
  BY <1>1, <1>2 DEF VmState, machineVars

LEMMA InitInHand == Init => StateInHand
BY DEF Init, StateInHand

LEMMA NextInHand == StateInHand /\ [Next]_vars => StateInHand'
<1> SUFFICES ASSUME StateInHand, [Next]_vars PROVE StateInHand'
  OBVIOUS
<1>1. CASE SaveCollects
  BY <1>1, SameState DEF SaveCollects, Finish, StateInHand
<1>2. CASE SaveCreates
  BY <1>2, SameState DEF SaveCreates, Finish, StateInHand
<1>3. CASE SaveSerializes \/ VcpusRestored \/ Restart
  BY <1>3 DEF SaveSerializes, VcpusRestored, Restart, Finish, StateInHand
<1>4. CASE GuestRuns \/ create_snapshot
  BY <1>4 DEF GuestRuns, create_snapshot, StateInHand
<1>5. CASE RestoreHeld \/ load_from_file
  BY <1>5 DEF RestoreHeld, load_from_file, BeginRestore, Finish, StateInHand
<1>6. CASE restore_memory
  BY <1>6 DEF restore_memory, WriteChunk, Finish, StateInHand
<1>7. CASE MemoryRestored
  BY <1>7 DEF MemoryRestored, StateInHand
<1>8. CASE restore_vcpu_state
  BY <1>8 DEF restore_vcpu_state, Finish, StateInHand
<1>9. CASE UNCHANGED vars
  <2>1. UNCHANGED machineVars
    BY <1>9 DEF vars, machineVars
  <2> QED
    BY <1>9, <2>1, SameState DEF vars, StateInHand
<1> QED
  BY <1>1, <1>2, <1>3, <1>4, <1>5, <1>6, <1>7, <1>8, <1>9 DEF Next

(* save_to_file empties or writes the file only with the state of the      *)
(* present machine in hand, and nothing else touches it.                   *)
THEOREM FileNeedsState == Spec => FileChangesWithStateInHand
<1>1. StateInHand /\ [Next]_vars => [file' # file => doc = <<VmState>>]_vars
  <2> SUFFICES ASSUME StateInHand, Next, file' # file
               PROVE  doc = <<VmState>>
    OBVIOUS
  <2>1. SaveCreates \/ SaveSerializes
    BY DEF Next, GuestRuns, create_snapshot, RestoreHeld, BeginRestore,
           restore_memory, MemoryRestored, restore_vcpu_state, VcpusRestored,
           SaveCollects, load_from_file, Restart
  <2> QED
    BY <2>1 DEF SaveCreates, SaveSerializes, StateInHand
<1> QED
  BY <1>1, InitInHand, NextInHand, PTL DEF Spec, FileChangesWithStateInHand

-----------------------------------------------------------------------------
(* The invariant of a restore.                                             *)

ChunkVal == (0 .. MaxGen) \X Nat
RegVal == (0 .. MaxGen) \X (Nat \X AllSets)

SavedRegion == [guest_addr : Nat, size : Nat \ {0}, data : Seq(ChunkVal)]
SavedVcpu == [id : Nat, regs : RegVal, sregs : RegVal, fpu : RegVal,
              msrs : {<<>>}]

\* A VmState that create_snapshot built on some machine: every region has as
\* many chunks as its size says, and the regions do not overlap.
Sane(state) ==
  /\ state.memory_regions \in Seq(SavedRegion)
  /\ state.vcpu_states \in Seq(SavedVcpu)
  /\ \A r \in DOMAIN state.memory_regions :
       Len(state.memory_regions[r].data) = state.memory_regions[r].size
  /\ \A r, s \in DOMAIN state.memory_regions : r < s =>
       state.memory_regions[r].guest_addr + state.memory_regions[r].size
         <= state.memory_regions[s].guest_addr

\* Every VmState the manager can come by is one of those.
StatesSane ==
  /\ held # <<>> => Sane(held[1])
  /\ file.kind = "whole" => Sane(file.doc[1])
  /\ pc # "idle" => Sane(doc[1])

BeforeType ==
  /\ before.mem \in [Ram(machine) -> ChunkVal]
  /\ before.cpu \in [1 .. machine.cpus -> [AllSets -> RegVal]]

\* Chunk c of region r comes before position <<ri, ci>> of a restore.
Earlier(r, c, ri, ci) == r < ri \/ (r = ri /\ c < ci)

\* The guest address of chunk c of a saved region.
ChunkAddr(saved, c) == saved.guest_addr + c - 1

\* The chunks before position <<ri, ci>> are in guest memory, which is `now`;
\* the rest of it is what it `was` when the restore began.
Restored(state, ri, ci, ram, now, was) ==
  LET regions == state.memory_regions IN
  /\ \A r \in DOMAIN regions : \A c \in 1 .. regions[r].size :
       Earlier(r, c, ri, ci) =>
         /\ ChunkAddr(regions[r], c) \in ram
         /\ now[ChunkAddr(regions[r], c)] = regions[r].data[c]
  /\ \A a \in ram :
       \/ now[a] = was[a]
       \/ \E r \in DOMAIN regions : \E c \in 1 .. regions[r].size :
            Earlier(r, c, ri, ci) /\ a = ChunkAddr(regions[r], c)

\* The register sets before position <<vi, si>> have been set, and no other.
Loaded(state, vi, si, cpus, now, was) ==
  \A v \in 1 .. cpus : \A s \in AllSets :
    now[v][s] = IF /\ v <= Len(state.vcpu_states)
                   /\ \E k \in 1 .. 3 : RegSets[k] = s /\ Earlier(v, k, vi, si)
                THEN state.vcpu_states[v][s]
                ELSE was[v][s]

MemoryUpTo(state, ri, ci) ==
  Restored(state, ri, ci, Ram(machine), mem, before.mem)
CpuUpTo(state, vi, si) ==
  Loaded(state, vi, si, machine.cpus, cpu, before.cpu)

RegionFits(state, ri) ==
  LET saved == state.memory_regions[ri] IN
  \E r \in find_region(saved.guest_addr) : Fits(saved, r)

\* Where a restore stands.  It is in the middle of a region only if that
\* region was found to fit.
MemoryProgress ==
  pc = "memory" =>
    /\ i \in 1 .. Len(doc[1].memory_regions) + 1
    /\ IF i > Len(doc[1].memory_regions)
         THEN j = 1 ELSE j \in 1 .. doc[1].memory_regions[i].size
    /\ j > 1 => RegionFits(doc[1], i)
    /\ MemoryUpTo(doc[1], i, j)
    /\ cpu = before.cpu

CpuProgress ==
  pc = "vcpus" =>
    /\ i \in 1 .. Len(doc[1].vcpu_states) + 1 /\ j \in 1 .. 3
    /\ i > Len(doc[1].vcpu_states) => j = 1
    /\ MemoryUpTo(doc[1], Len(doc[1].memory_regions) + 1, 1)
    /\ CpuUpTo(doc[1], i, j)

IInv ==
  /\ TypeOK /\ StatesSane /\ BeforeType
  /\ pc # "idle" => last = "none"
  /\ MemoryProgress /\ CpuProgress

-----------------------------------------------------------------------------
(* Machines and what is saved of them.                                     *)

LEMMA SeqElements ==
  ASSUME NEW S, NEW q \in Seq(S)
  PROVE  /\ Len(q) \in Nat
         /\ DOMAIN q = 1 .. Len(q)
         /\ \A k \in DOMAIN q : q[k] \in S
OBVIOUS

LEMMA SeqOfFunction ==
  ASSUME NEW S, NEW n \in Nat, NEW f \in [1 .. n -> S]
  PROVE  /\ f \in Seq(S)
         /\ Len(f) = n
OBVIOUS

LEMMA MachineFacts ==
  ASSUME NEW m \in Machines
  PROVE  /\ m.cpus \in Nat
         /\ m.regions \in Seq([start : Nat, len : Nat \ {0}])
         /\ \A r \in DOMAIN m.regions : /\ m.regions[r].start \in Nat
                                        /\ m.regions[r].len \in Nat \ {0}
         /\ \A r \in DOMAIN m.regions : Chunks(m.regions[r]) \subseteq Ram(m)
         /\ Ram(m) \subseteq Nat
<1> DEFINE R == [start : Nat, len : Nat \ {0}]
<1>1. m \in [regions : Seq(R), cpus : Nat]
  BY MachinesAssumption
<1>2. m.cpus \in Nat /\ m.regions \in Seq(R)
  BY <1>1
<1>3. \A r \in DOMAIN m.regions : m.regions[r] \in R
  <2> HIDE DEF R
  <2> QED
    BY <1>2, SeqElements
<1>4. \A r \in DOMAIN m.regions : /\ m.regions[r].start \in Nat
                                 /\ m.regions[r].len \in Nat \ {0}
  BY <1>3
<1>5. \A r \in DOMAIN m.regions : Chunks(m.regions[r]) \subseteq Nat
  BY <1>4 DEF Chunks
<1>6. \A r \in DOMAIN m.regions : Chunks(m.regions[r]) \subseteq Ram(m)
  BY DEF Ram
<1>7. Ram(m) \subseteq Nat
  BY <1>5 DEF Ram
<1> QED
  BY <1>2, <1>4, <1>6, <1>7

(* What the guest of any generation writes has the type of the machine.    *)
LEMMA GuestWrites ==
  ASSUME NEW m \in Machines, NEW g \in 0 .. MaxGen
  PROVE  /\ Contents(m, g) \in [Ram(m) -> ChunkVal]
         /\ Registers(m, g) \in [1 .. m.cpus -> [AllSets -> RegVal]]
<1>1. Contents(m, g) \in [Ram(m) -> ChunkVal]
  BY MachineFacts DEF Contents, ChunkVal
<1>2. \A v \in 1 .. m.cpus : \A s \in AllSets : <<g, <<v, s>>>> \in RegVal
  BY MachineFacts DEF RegVal
<1> QED
  BY <1>1, <1>2 DEF Registers

(* save_memory and save_vcpu_state build a VmState without overlaps.       *)
LEMMA VmStateSane == TypeOK => Sane(VmState)
<1> SUFFICES ASSUME TypeOK PROVE Sane(VmState)
  OBVIOUS
<1> DEFINE regions == machine.regions
<1>0. machine \in Machines
  BY DEF TypeOK
<1>1. /\ regions \in Seq([start : Nat, len : Nat \ {0}])
      /\ \A r \in DOMAIN regions : /\ regions[r].start \in Nat
                                   /\ regions[r].len \in Nat \ {0}
                                   /\ Chunks(regions[r]) \subseteq Ram(machine)
      /\ machine.cpus \in Nat
  BY <1>0, MachineFacts
<1>2. mem \in [Ram(machine) -> ChunkVal]
  BY DEF TypeOK, ChunkVal
<1>3. cpu \in [1 .. machine.cpus -> [AllSets -> RegVal]]
  BY DEF TypeOK, RegVal
<1>4. ASSUME NEW r \in DOMAIN regions
      PROVE  /\ save_memory[r] \in SavedRegion
             /\ save_memory[r].guest_addr = regions[r].start
             /\ save_memory[r].size = regions[r].len
             /\ Len(save_memory[r].data) = regions[r].len
  <2> DEFINE data == [c \in 1 .. regions[r].len
                        |-> mem[regions[r].start + c - 1]]
  <2>1. save_memory[r] = [guest_addr |-> regions[r].start,
                          size |-> regions[r].len, data |-> data]
    BY DEF save_memory
  <2>2. \A c \in 1 .. regions[r].len :
          mem[regions[r].start + c - 1] \in ChunkVal
    <3>1. \A c \in 1 .. regions[r].len :
            regions[r].start + c - 1 \in Chunks(regions[r])
      <4>1. regions[r].start \in Nat /\ regions[r].len \in Nat
        BY <1>1
      <4> QED
        BY <4>1 DEF Chunks
    <3> QED
      BY <1>1, <1>2, <3>1
  <2>3. data \in [1 .. regions[r].len -> ChunkVal]
    BY <2>2
  <2>4. data \in Seq(ChunkVal) /\ Len(data) = regions[r].len
    <3> HIDE DEF data
    <3> QED
      BY <1>1, <2>3, SeqOfFunction
  <2> QED
    BY <1>1, <2>1, <2>4 DEF SavedRegion
<1>5. /\ DOMAIN save_memory = DOMAIN regions
      /\ save_memory \in Seq(SavedRegion)
  <2>1. DOMAIN regions = 1 .. Len(regions) /\ Len(regions) \in Nat
    BY <1>1
  <2>2. DOMAIN save_memory = DOMAIN regions
    BY DEF save_memory
  <2>3. save_memory = [r \in DOMAIN save_memory |-> save_memory[r]]
    BY DEF save_memory
  <2>4. save_memory \in [1 .. Len(regions) -> SavedRegion]
    BY <1>4, <2>1, <2>2, <2>3
  <2> QED
    BY <2>1, <2>2, <2>4, SeqOfFunction
<1>6. \A r, s \in DOMAIN save_memory : r < s =>
        save_memory[r].guest_addr + save_memory[r].size
          <= save_memory[s].guest_addr
  BY <1>0, <1>4, <1>5, MachinesAssumption
<1>7. [v \in 1 .. machine.cpus |-> save_vcpu_state(v)] \in Seq(SavedVcpu)
  <2>1. ASSUME NEW v \in 1 .. machine.cpus
        PROVE  save_vcpu_state(v) \in SavedVcpu
    <3>1. cpu[v] \in [AllSets -> RegVal] /\ v \in Nat
      BY <1>1, <1>3
    <3>2. cpu[v].regs \in RegVal /\ cpu[v].sregs \in RegVal
            /\ cpu[v].fpu \in RegVal
      BY <3>1 DEF AllSets
    <3> QED
      BY <3>1, <3>2 DEF save_vcpu_state, SavedVcpu
  <2> QED
    BY <1>1, <2>1
<1> QED
  BY <1>4, <1>5, <1>6, <1>7 DEF Sane, VmState

-----------------------------------------------------------------------------
(* One chunk of a restore.                                                 *)

LEMMA SaneFacts ==
  ASSUME NEW state, Sane(state), NEW r \in DOMAIN state.memory_regions
  PROVE  /\ r \in Nat /\ Len(state.memory_regions) \in Nat
         /\ DOMAIN state.memory_regions = 1 .. Len(state.memory_regions)
         /\ state.memory_regions[r].guest_addr \in Nat
         /\ state.memory_regions[r].size \in Nat \ {0}
         /\ Len(state.memory_regions[r].data) = state.memory_regions[r].size
         /\ \A c \in 1 .. state.memory_regions[r].size :
              state.memory_regions[r].data[c] \in ChunkVal
<1> DEFINE regions == state.memory_regions
<1>1. /\ regions \in Seq(SavedRegion)
      /\ Len(regions[r].data) = regions[r].size
  BY DEF Sane
<1>2. /\ Len(regions) \in Nat /\ DOMAIN regions = 1 .. Len(regions)
      /\ regions[r] \in SavedRegion
  BY <1>1, SeqElements
<1>3. /\ regions[r].guest_addr \in Nat /\ regions[r].size \in Nat \ {0}
      /\ regions[r].data \in Seq(ChunkVal)
  BY <1>2 DEF SavedRegion
<1>4. \A c \in 1 .. regions[r].size : regions[r].data[c] \in ChunkVal
  BY <1>1, <1>3, SeqElements
<1> QED
  BY <1>1, <1>2, <1>3, <1>4

LEMMA RegionIndex ==
  ASSUME NEW state, Sane(state), NEW r \in DOMAIN state.memory_regions
  PROVE  /\ Len(state.memory_regions) + 1 \in Nat
         /\ r < Len(state.memory_regions) + 1
<1>1. /\ r \in Nat /\ Len(state.memory_regions) \in Nat
      /\ r \in 1 .. Len(state.memory_regions)
  BY SaneFacts
<1> QED
  BY <1>1

(* No two chunks of a VmState go to the same address.                      *)
LEMMA AddressesDistinct ==
  ASSUME NEW state, Sane(state),
         NEW r \in DOMAIN state.memory_regions,
         NEW s \in DOMAIN state.memory_regions,
         NEW c \in 1 .. state.memory_regions[r].size,
         NEW d \in 1 .. state.memory_regions[s].size,
         ChunkAddr(state.memory_regions[r], c)
           = ChunkAddr(state.memory_regions[s], d)
  PROVE  r = s /\ c = d
<1> DEFINE regions == state.memory_regions
<1>1. /\ r \in Nat /\ s \in Nat
      /\ regions[r].guest_addr \in Nat /\ regions[s].guest_addr \in Nat
      /\ regions[r].size \in Nat /\ regions[s].size \in Nat
  BY SaneFacts
<1>2. /\ r < s => regions[r].guest_addr + regions[r].size
                    <= regions[s].guest_addr
      /\ s < r => regions[s].guest_addr + regions[s].size
                    <= regions[r].guest_addr
  BY DEF Sane
<1>3. /\ regions[r].guest_addr + c - 1 = regions[s].guest_addr + d - 1
      /\ c \in Nat /\ c >= 1 /\ c <= regions[r].size
      /\ d \in Nat /\ d >= 1 /\ d <= regions[s].size
  BY <1>1 DEF ChunkAddr
<1> HIDE DEF regions
<1>4. r = s
  BY <1>1, <1>2, <1>3
<1> QED
  BY <1>1, <1>3, <1>4

(* The chunk at position <<ri, ci>> is written.                            *)
LEMMA ChunkStep ==
  ASSUME NEW state, Sane(state),
         NEW ram, NEW now \in [ram -> ChunkVal], NEW was,
         NEW ri \in DOMAIN state.memory_regions,
         NEW ci \in 1 .. state.memory_regions[ri].size,
         Restored(state, ri, ci, ram, now, was),
         ChunkAddr(state.memory_regions[ri], ci) \in ram,
         NEW ni, NEW nj,
         IF ci = state.memory_regions[ri].size
           THEN ni = ri + 1 /\ nj = 1 ELSE ni = ri /\ nj = ci + 1
  PROVE  Restored(state, ni, nj, ram,
                  [now EXCEPT ![ChunkAddr(state.memory_regions[ri], ci)]
                                = state.memory_regions[ri].data[ci]],
                  was)
<1> DEFINE regions == state.memory_regions
           addr == ChunkAddr(regions[ri], ci)
           new == [now EXCEPT ![addr] = regions[ri].data[ci]]
<1>1. \A r \in DOMAIN regions : \A c \in 1 .. regions[r].size :
        Earlier(r, c, ni, nj) <=> Earlier(r, c, ri, ci) \/ (r = ri /\ c = ci)
  <2>1. \A r \in DOMAIN regions : r \in Nat /\ regions[r].size \in Nat
    BY SaneFacts
  <2> QED
    BY <2>1 DEF Earlier
<1>2. new[addr] = regions[ri].data[ci]
  OBVIOUS
<1>3. \A a \in ram : a # addr => new[a] = now[a]
  OBVIOUS
<1> HIDE DEF new
<1>4. ASSUME NEW r \in DOMAIN regions, NEW c \in 1 .. regions[r].size,
             Earlier(r, c, ni, nj)
      PROVE  /\ ChunkAddr(regions[r], c) \in ram
             /\ new[ChunkAddr(regions[r], c)] = regions[r].data[c]
  <2>1. CASE r = ri /\ c = ci
    BY <1>2, <2>1
  <2>2. CASE ~(r = ri /\ c = ci)
    <3>1. ChunkAddr(regions[r], c) # addr
      BY <2>2, AddressesDistinct
    <3>2. /\ ChunkAddr(regions[r], c) \in ram
          /\ now[ChunkAddr(regions[r], c)] = regions[r].data[c]
      BY <1>1, <1>4, <2>2 DEF Restored
    <3> QED
      BY <1>3, <3>1, <3>2
  <2> QED
    BY <2>1, <2>2
<1>5. ASSUME NEW a \in ram
      PROVE  \/ new[a] = was[a]
             \/ \E r \in DOMAIN regions : \E c \in 1 .. regions[r].size :
                  Earlier(r, c, ni, nj) /\ a = ChunkAddr(regions[r], c)
  <2>1. CASE a = addr
    BY <1>1, <2>1
  <2>2. CASE a # addr
    BY <1>1, <1>3, <2>2 DEF Restored
  <2> QED
    BY <2>1, <2>2
<1>6. Restored(state, ni, nj, ram, new, was)
  BY <1>4, <1>5 DEF Restored
<1> QED
  BY <1>6 DEF new

(* find_region finds one region at most, and a chunk of a saved region     *)
(* that fits is inside it.                                                 *)
LEMMA InChunks ==
  ASSUME NEW a \in Nat, NEW region,
         region.start \in Nat, region.len \in Nat
  PROVE  a \in Chunks(region)
           <=> region.start <= a /\ a < region.start + region.len
BY DEF Chunks

LEMMA FoundOnce ==
  ASSUME NEW m \in Machines, NEW a \in Nat,
         NEW r \in DOMAIN m.regions, NEW f \in DOMAIN m.regions,
         a \in Chunks(m.regions[r]), a \in Chunks(m.regions[f])
  PROVE  r = f
<1> DEFINE reg(k) == m.regions[k]
<1>1. /\ r \in Nat /\ f \in Nat
      /\ reg(r).start \in Nat /\ reg(r).len \in Nat
      /\ reg(f).start \in Nat /\ reg(f).len \in Nat
  <2>1. /\ reg(r).start \in Nat /\ reg(r).len \in Nat
        /\ reg(f).start \in Nat /\ reg(f).len \in Nat
    BY MachineFacts
  <2>2. m.regions \in Seq([start : Nat, len : Nat \ {0}])
    BY MachineFacts
  <2>3. r \in Nat /\ f \in Nat
    <3>1. /\ Len(m.regions) \in Nat
          /\ DOMAIN m.regions = 1 .. Len(m.regions)
      BY <2>2, SeqElements
    <3> QED
      BY <3>1
  <2> QED
    BY <2>1, <2>3
<1>2. /\ reg(r).start <= a /\ a < reg(r).start + reg(r).len
      /\ reg(f).start <= a /\ a < reg(f).start + reg(f).len
  BY <1>1, InChunks
<1>3. /\ r < f => reg(r).start + reg(r).len <= reg(f).start
      /\ f < r => reg(f).start + reg(f).len <= reg(r).start
  BY MachinesAssumption
<1> HIDE DEF reg
<1> QED
  BY <1>1, <1>2, <1>3

LEMMA FitsInside ==
  ASSUME NEW saved, saved.guest_addr \in Nat, saved.size \in Nat,
         NEW region, region.start \in Nat, region.len \in Nat,
         region.start <= saved.guest_addr,
         saved.guest_addr + saved.size <= region.start + region.len,
         NEW c \in 1 .. saved.size
  PROVE  ChunkAddr(saved, c) \in Chunks(region)
BY DEF ChunkAddr, Chunks

-----------------------------------------------------------------------------
(* One register set of a restore.                                          *)

LEMMA SaneVcpus ==
  ASSUME NEW state, Sane(state), NEW v \in 1 .. Len(state.vcpu_states),
         NEW s \in {"regs", "sregs", "fpu"}
  PROVE  /\ state.vcpu_states[v][s] \in RegVal
         /\ Len(state.vcpu_states) \in Nat
<1>1. state.vcpu_states \in Seq(SavedVcpu)
  BY DEF Sane
<1>2. state.vcpu_states[v] \in SavedVcpu /\ Len(state.vcpu_states) \in Nat
  BY <1>1, SeqElements
<1> QED
  BY <1>2 DEF SavedVcpu

LEMMA RegSetFacts ==
  /\ DOMAIN RegSets = 1 .. 3 /\ Len(RegSets) = 3
  /\ \A k \in 1 .. 3 : RegSets[k] \in {"regs", "sregs", "fpu"}
  /\ \A k, l \in 1 .. 3 : RegSets[k] = RegSets[l] => k = l
  /\ \A s \in {"regs", "sregs", "fpu"} : \E k \in 1 .. 3 : RegSets[k] = s
BY DEF RegSets

\* The register set at position <<vi, si>> is set, which makes `new` of `now`.
SetsRegister(state, vi, si, cpus, now, new) ==
  /\ vi \in 1 .. Len(state.vcpu_states) /\ vi <= cpus /\ si \in 1 .. 3
  /\ now \in [1 .. cpus -> [AllSets -> RegVal]]
  /\ new = [now EXCEPT ![vi][RegSets[si]]
                         = state.vcpu_states[vi][RegSets[si]]]

LEMMA RegisterStep ==
  ASSUME NEW state, NEW vi, NEW si, NEW cpus, NEW now, NEW new,
         SetsRegister(state, vi, si, cpus, now, new),
         Sane(state), cpus \in Nat,
         NEW was, Loaded(state, vi, si, cpus, now, was),
         NEW ni, NEW nj,
         IF si = 3 THEN ni = vi + 1 /\ nj = 1 ELSE ni = vi /\ nj = si + 1
  PROVE  /\ new \in [1 .. cpus -> [AllSets -> RegVal]]
         /\ Loaded(state, ni, nj, cpus, new, was)
<1>0. /\ vi \in 1 .. Len(state.vcpu_states) /\ vi <= cpus /\ si \in 1 .. 3
      /\ now \in [1 .. cpus -> [AllSets -> RegVal]]
      /\ new = [now EXCEPT ![vi][RegSets[si]]
                             = state.vcpu_states[vi][RegSets[si]]]
  BY DEF SetsRegister
<1> DEFINE set == RegSets[si]
           val == state.vcpu_states[vi][set]
<1>1. /\ set \in AllSets /\ val \in RegVal
      /\ Len(state.vcpu_states) \in Nat /\ vi \in 1 .. cpus
  BY <1>0, RegSetFacts, SaneVcpus DEF AllSets
<1>2. now[vi] \in [AllSets -> RegVal]
  BY <1>0, <1>1
<1>3. new = [now EXCEPT ![vi] = [now[vi] EXCEPT ![set] = val]]
  BY <1>0
<1> HIDE DEF set, val
<1>4. [now[vi] EXCEPT ![set] = val] \in [AllSets -> RegVal]
  BY <1>1, <1>2
<1>5. new \in [1 .. cpus -> [AllSets -> RegVal]]
  BY <1>0, <1>1, <1>3, <1>4
<1>6. ASSUME NEW v \in 1 .. cpus, NEW s \in AllSets
      PROVE  new[v][s] = IF v = vi /\ s = set THEN val ELSE now[v][s]
  BY <1>0, <1>1, <1>2, <1>3
<1>7. ASSUME NEW v \in 1 .. cpus, NEW k \in 1 .. 3
      PROVE  Earlier(v, k, ni, nj)
               <=> Earlier(v, k, vi, si) \/ (v = vi /\ k = si)
  BY <1>0, <1>1 DEF Earlier
<1>8. ASSUME NEW v \in 1 .. cpus, NEW s \in AllSets
      PROVE  new[v][s] =
               IF /\ v <= Len(state.vcpu_states)
                  /\ \E k \in 1 .. 3 : RegSets[k] = s /\ Earlier(v, k, ni, nj)
               THEN state.vcpu_states[v][s]
               ELSE was[v][s]
  <2>1. CASE v = vi /\ s = set
    BY <1>0, <1>1, <1>6, <1>7, <2>1 DEF set, val
  <2>2. CASE ~(v = vi /\ s = set)
    <3>1. (\E k \in 1 .. 3 : RegSets[k] = s /\ Earlier(v, k, ni, nj))
            <=> \E k \in 1 .. 3 : RegSets[k] = s /\ Earlier(v, k, vi, si)
      BY <1>7, <2>2 DEF set
    <3> QED
      BY <1>6, <2>2, <3>1 DEF Loaded
  <2> QED
    BY <2>1, <2>2
<1> QED
  BY <1>5, <1>8 DEF Loaded

-----------------------------------------------------------------------------
(* The invariant is inductive.                                             *)

MachineType ==
  /\ machine \in Machines
  /\ mem \in [Ram(machine) -> ChunkVal]
  /\ cpu \in [1 .. machine.cpus -> [AllSets -> RegVal]]
  /\ dev \in 0 .. MaxGen /\ gen \in 0 .. MaxGen

Outcomes == {"none", "created", "createFailed", "restored", "decodeFailed",
             "memoryFailed", "vcpuFailed", "saved", "saveFailed",
             "loadFailed"}

Control ==
  /\ pc \in {"idle", "memory", "vcpus", "create", "serialize"}
  /\ file.kind \in {"none", "partial", "whole"}
  /\ last \in Outcomes
  /\ pc # "idle" => last = "none"

LEMMA IInvParts ==
  IInv <=> /\ MachineType /\ BeforeType /\ Control /\ StatesSane
           /\ MemoryProgress /\ CpuProgress
<1>1. IInv => /\ MachineType /\ BeforeType /\ Control /\ StatesSane
              /\ MemoryProgress /\ CpuProgress
  BY DEF IInv, TypeOK, MachineType, Control, ChunkVal, RegVal, Outcomes
<1>2. ASSUME MachineType, BeforeType, Control, StatesSane, MemoryProgress,
             CpuProgress
      PROVE  IInv
  <2>1. TypeOK
    BY <1>2, RegSetFacts
       DEF TypeOK, MachineType, Control, MemoryProgress, CpuProgress,
           ChunkVal, RegVal, Outcomes
  <2> QED
    BY <1>2, <2>1 DEF IInv, Control
<1> QED
  BY <1>1, <1>2

LEMMA IInvNext ==
  /\ MachineType' /\ BeforeType' /\ Control' /\ StatesSane'
  /\ MemoryProgress' /\ CpuProgress'
  => IInv'
BY IInvParts, PTL

LEMMA InitIInv == Init => IInv
<1> SUFFICES ASSUME Init PROVE IInv
  OBVIOUS
<1>0. 0 \in 0 .. MaxGen
  BY MachinesAssumption
<1>1. MachineType /\ BeforeType
  BY <1>0, GuestWrites DEF Init, MachineType, BeforeType
<1>2. Control /\ StatesSane /\ MemoryProgress /\ CpuProgress
  BY DEF Init, NoFile, Control, Outcomes, StatesSane, MemoryProgress,
         CpuProgress
<1> QED
  BY <1>1, <1>2, IInvParts

(* A step outside a restore that leaves the machine alone.                 *)
LEMMA QuietStep ==
  ASSUME IInv, UNCHANGED <<machineVars, before>>,
         pc' \in {"idle", "create", "serialize"}
  PROVE  MachineType' /\ BeforeType' /\ MemoryProgress' /\ CpuProgress'
<1>1. Ram(machine)' = Ram(machine)
  BY DEF machineVars, Ram, Chunks
<1>2. MachineType' /\ BeforeType'
  BY <1>1, IInvParts DEF MachineType, BeforeType, machineVars
<1> QED
  BY <1>2 DEF MemoryProgress, CpuProgress

(* The operation ends and leaves machine, file and client as they are.     *)
LEMMA FinishStep ==
  ASSUME IInv, NEW how \in Outcomes, Finish(how),
         UNCHANGED <<machineVars, before, held, file>>
  PROVE  IInv'
<1>1. MachineType' /\ BeforeType' /\ MemoryProgress' /\ CpuProgress'
  BY QuietStep DEF Finish
<1>2. Control' /\ StatesSane'
  BY IInvParts DEF Finish, Control, StatesSane, Sane
<1> QED
  BY <1>1, <1>2, IInvNext

(* restore_snapshot begins with a state that was saved.                    *)
LEMMA BeginStep ==
  ASSUME IInv, NEW state, Sane(state), BeginRestore(state)
  PROVE  IInv'
<1>1. Ram(machine)' = Ram(machine)
  BY DEF BeginRestore, machineVars, Ram, Chunks
<1>2. MachineType' /\ BeforeType'
  BY <1>1, IInvParts DEF BeginRestore, MachineType, BeforeType, machineVars
<1>3. /\ pc' = "memory" /\ i' = 1 /\ j' = 1 /\ doc'[1] = state
      /\ last' = "none" /\ UNCHANGED <<held, file, machine, mem, cpu>>
      /\ before' = [mem |-> mem, cpu |-> cpu]
  BY DEF BeginRestore, machineVars
<1>4. Control'
  BY <1>3, IInvParts DEF Control, Outcomes
<1>5. StatesSane'
  BY <1>3, IInvParts DEF StatesSane, Sane
<1>6. CpuProgress'
  BY <1>3 DEF CpuProgress
<1>7. MemoryProgress'
  <2>1. /\ Len(state.memory_regions) \in Nat
        /\ \A r \in DOMAIN state.memory_regions :
             r >= 1 /\ r \in Nat /\ state.memory_regions[r].size \in Nat \ {0}
    <3>1. state.memory_regions \in Seq(SavedRegion)
      BY DEF Sane
    <3> QED
      BY <3>1, SeqElements, SaneFacts
  <2>2. \A r \in DOMAIN state.memory_regions :
          \A c \in 1 .. state.memory_regions[r].size : ~Earlier(r, c, 1, 1)
    BY <2>1 DEF Earlier
  <2>3. MemoryUpTo(doc[1], i, j)'
    BY <1>3, <2>2 DEF MemoryUpTo, Restored
  <2>4. i' > Len(doc'[1].memory_regions)
          \/ 1 \in 1 .. doc'[1].memory_regions[i'].size
    <3>1. CASE Len(state.memory_regions) = 0
      BY <1>3, <3>1
    <3>2. CASE Len(state.memory_regions) # 0
      <4>1. 1 \in DOMAIN state.memory_regions
        <5>1. state.memory_regions \in Seq(SavedRegion)
          BY DEF Sane
        <5> QED
          BY <2>1, <3>2, <5>1, SeqElements
      <4> QED
        BY <1>3, <2>1, <4>1
    <3> QED
      BY <3>1, <3>2
  <2> QED
    BY <1>3, <2>1, <2>3, <2>4 DEF MemoryProgress
<1> QED
  BY <1>2, <1>4, <1>5, <1>6, <1>7, IInvNext

(* restore_memory: the region is found to fit and its next chunk written,  *)
(* or the restore ends before anything of the region was written.          *)
LEMMA RestoreMemoryCases ==
  ASSUME IInv, restore_memory
  PROVE  LET regions == doc[1].memory_regions
             addr == ChunkAddr(regions[i], j)
         IN  /\ i \in DOMAIN regions /\ j \in 1 .. regions[i].size
             /\ \/ /\ RegionFits(doc[1], i)
                   /\ addr \in Ram(machine)
                   /\ mem' = [mem EXCEPT ![addr] = regions[i].data[j]]
                   /\ IF j = regions[i].size THEN i' = i + 1 /\ j' = 1
                                             ELSE i' = i /\ j' = j + 1
                   /\ UNCHANGED <<pc, doc, last>>
                \/ j = 1 /\ Finish("memoryFailed") /\ UNCHANGED mem
<1> DEFINE regions == doc[1].memory_regions
           saved == regions[i]
           found == find_region(saved.guest_addr)
           addr == ChunkAddr(saved, j)
<1>1. /\ pc = "memory" /\ i <= Len(regions)
      /\ IF \E r \in found : Fits(saved, r)
           THEN \E r \in found : WriteChunk(saved, r)
           ELSE Finish("memoryFailed") /\ UNCHANGED mem
  BY DEF restore_memory
<1>2. Sane(doc[1]) /\ machine \in Machines
  BY <1>1, IInvParts DEF StatesSane, MachineType
<1>3. /\ i \in 1 .. Len(regions) + 1
      /\ IF i > Len(regions) THEN j = 1 ELSE j \in 1 .. saved.size
      /\ j > 1 => RegionFits(doc[1], i)
  BY <1>1, IInvParts DEF MemoryProgress
<1>4. /\ Len(regions) \in Nat /\ DOMAIN regions = 1 .. Len(regions)
  BY <1>2, SeqElements DEF Sane
<1>5. i \in DOMAIN regions /\ j \in 1 .. saved.size
  <2>1. i \in 1 .. Len(regions) /\ ~(i > Len(regions))
    BY <1>1, <1>3, <1>4
  <2> QED
    BY <1>3, <1>4, <2>1
<1>6. /\ saved.guest_addr \in Nat /\ saved.size \in Nat \ {0}
      /\ Len(saved.data) = saved.size
  BY <1>2, <1>5, SaneFacts
<1>7. CASE \E r \in found : Fits(saved, r)
  <2>1. PICK r \in found : WriteChunk(saved, r)
    BY <1>1, <1>7
  <2>2. PICK f \in found : Fits(saved, f)
    BY <1>7
  <2>3. /\ r \in DOMAIN machine.regions /\ f \in DOMAIN machine.regions
        /\ saved.guest_addr \in Chunks(machine.regions[r])
        /\ saved.guest_addr \in Chunks(machine.regions[f])
    BY DEF find_region
  <2>4. r = f
    BY <1>2, <1>6, <2>3, FoundOnce
  <2>5. /\ machine.regions[r].start \in Nat /\ machine.regions[r].len \in Nat
    BY <1>2, <2>3, MachineFacts
  <2>6. addr \in Chunks(machine.regions[r])
    <3>1. /\ machine.regions[r].start <= saved.guest_addr
          /\ saved.guest_addr + saved.size
               <= machine.regions[r].start + machine.regions[r].len
      BY <2>2, <2>4 DEF Fits
    <3> QED
      BY <1>5, <1>6, <2>5, <3>1, FitsInside
  <2>7. addr \in Ram(machine)
    BY <1>2, <2>3, <2>6, MachineFacts
  <2>8. /\ mem' = [mem EXCEPT ![addr] = saved.data[j]]
        /\ i' = IF j = Len(saved.data) THEN i + 1 ELSE i
        /\ j' = IF j = Len(saved.data) THEN 1 ELSE j + 1
        /\ UNCHANGED <<pc, doc, last>>
    BY <2>1, <2>6 DEF WriteChunk, ChunkAddr
  <2>9. RegionFits(doc[1], i)
    BY <1>7 DEF RegionFits
  <2> QED
    BY <1>5, <1>6, <2>7, <2>8, <2>9
<1>8. CASE ~\E r \in found : Fits(saved, r)
  <2>1. ~RegionFits(doc[1], i)
    BY <1>8 DEF RegionFits
  <2>2. j = 1
    BY <1>3, <1>5, <1>6, <2>1
  <2> QED
    BY <1>1, <1>5, <1>8, <2>2
<1> QED
  BY <1>7, <1>8

LEMMA RestoreMemoryStep ==
  ASSUME IInv, restore_memory
  PROVE  IInv'
<1> DEFINE regions == doc[1].memory_regions
           addr == ChunkAddr(regions[i], j)
<1>1. UNCHANGED <<machine, cpu, dev, gen, held, file, before, taken>>
  BY DEF restore_memory
<1>2. i \in DOMAIN regions /\ j \in 1 .. regions[i].size /\ pc = "memory"
  BY RestoreMemoryCases DEF restore_memory
<1>3. CASE Finish("memoryFailed") /\ UNCHANGED mem
  BY <1>1, <1>3, FinishStep DEF machineVars, Outcomes
<1>4. CASE /\ RegionFits(doc[1], i)
           /\ addr \in Ram(machine)
           /\ mem' = [mem EXCEPT ![addr] = regions[i].data[j]]
           /\ IF j = regions[i].size THEN i' = i + 1 /\ j' = 1
                                     ELSE i' = i /\ j' = j + 1
           /\ UNCHANGED <<pc, doc, last>>
  <2>1. /\ Sane(doc[1]) /\ machine \in Machines
        /\ mem \in [Ram(machine) -> ChunkVal]
        /\ MemoryUpTo(doc[1], i, j) /\ cpu = before.cpu
    BY <1>2, IInvParts DEF StatesSane, MachineType, MemoryProgress
  <2>2. Ram(machine)' = Ram(machine)
    BY <1>1 DEF Ram, Chunks
  <2>3. /\ regions[i].data[j] \in ChunkVal /\ regions[i].size \in Nat \ {0}
        /\ i \in 1 .. Len(regions) /\ Len(regions) \in Nat
    BY <1>2, <2>1, SaneFacts
  <2>4. MachineType' /\ BeforeType'
    BY <1>1, <1>4, <2>1, <2>2, <2>3, IInvParts DEF MachineType, BeforeType
  <2>5. Control' /\ StatesSane' /\ CpuProgress'
    <3>1. Control' /\ CpuProgress'
      BY <1>1, <1>2, <1>4, IInvParts DEF Control, CpuProgress
    <3>2. StatesSane'
      BY <1>1, <1>4, IInvParts DEF StatesSane, Sane
    <3> QED
      BY <3>1, <3>2
  <2>6. MemoryUpTo(doc[1], i, j)'
    <3>1. Restored(doc[1], i', j', Ram(machine), mem', before.mem)
      BY <1>2, <1>4, <2>1, ChunkStep DEF MemoryUpTo
    <3> QED
      BY <1>1, <1>4, <2>2, <3>1 DEF MemoryUpTo
  <2>7. /\ i' \in 1 .. Len(regions) + 1
        /\ j' > 1 => i' = i
        /\ IF i' > Len(regions) THEN j' = 1 ELSE j' \in 1 .. regions[i'].size
    <3>1. i + 1 <= Len(regions) => regions[i + 1].size \in Nat \ {0}
      <4>1. i + 1 <= Len(regions) => i + 1 \in DOMAIN regions
        BY <1>2, <2>1, <2>3, SaneFacts
      <4> QED
        BY <2>1, <4>1, SaneFacts
    <3>2. CASE j = regions[i].size
      <4>1. i' = i + 1 /\ j' = 1
        BY <1>4, <3>2
      <4> QED
        BY <2>3, <3>1, <4>1
    <3>3. CASE j # regions[i].size
      <4>1. i' = i /\ j' = j + 1
        BY <1>4, <3>3
      <4>2. j + 1 \in 1 .. regions[i].size /\ ~(i > Len(regions))
        BY <1>2, <2>3, <3>3
      <4> QED
        BY <2>3, <4>1, <4>2
    <3> QED
      BY <3>2, <3>3
  <2>8. (j > 1 => RegionFits(doc[1], i))'
    BY <1>1, <1>4, <2>7 DEF RegionFits, find_region, Fits, Chunks
  <2>9. MemoryProgress'
    BY <1>1, <1>4, <2>1, <2>6, <2>7, <2>8 DEF MemoryProgress
  <2> QED
    BY <2>4, <2>5, <2>9, IInvNext
<1> QED
  BY <1>3, <1>4, RestoreMemoryCases

(* restore_memory returns.                                                 *)
LEMMA MemoryRestoredStep ==
  ASSUME IInv, MemoryRestored
  PROVE  IInv'
<1>1. /\ pc = "memory" /\ i > Len(doc[1].memory_regions)
      /\ pc' = "vcpus" /\ i' = 1 /\ j' = 1
      /\ UNCHANGED <<machine, mem, cpu, dev, gen, doc, held, file, last,
                     before>>
  BY DEF MemoryRestored, machineVars
<1>2. /\ Sane(doc[1])
      /\ i \in 1 .. Len(doc[1].memory_regions) + 1 /\ j = 1
      /\ MemoryUpTo(doc[1], i, j) /\ cpu = before.cpu
  BY <1>1, IInvParts DEF StatesSane, MemoryProgress
<1>3. /\ Len(doc[1].memory_regions) \in Nat
      /\ Len(doc[1].vcpu_states) \in Nat
  BY <1>2, SeqElements DEF Sane
<1>4. Ram(machine)' = Ram(machine)
  BY <1>1 DEF Ram, Chunks
<1>5. MachineType' /\ BeforeType'
  BY <1>1, <1>4, IInvParts DEF MachineType, BeforeType
<1>6. Control' /\ MemoryProgress'
  BY <1>1, IInvParts DEF Control, MemoryProgress
<1>7. StatesSane'
  BY <1>1, IInvParts DEF StatesSane, Sane
<1>8. MemoryUpTo(doc[1], Len(doc[1].memory_regions) + 1, 1)'
  <2>1. i = Len(doc[1].memory_regions) + 1
    BY <1>1, <1>2, <1>3
  <2> QED
    BY <1>1, <1>2, <1>4, <2>1 DEF MemoryUpTo
<1>9. CpuUpTo(doc[1], i, j)'
  <2>1. \A v \in 1 .. machine.cpus : \A k \in 1 .. 3 : ~Earlier(v, k, 1, 1)
    BY DEF Earlier
  <2> QED
    BY <1>1, <1>2, <2>1 DEF CpuUpTo, Loaded
<1>10. CpuProgress'
  BY <1>1, <1>3, <1>8, <1>9 DEF CpuProgress
<1> QED
  BY <1>5, <1>6, <1>7, <1>10, IInvNext

(* A register set is set, or refused.                                      *)
LEMMA RestoreVcpuStep ==
  ASSUME IInv, restore_vcpu_state
  PROVE  IInv'
<1> DEFINE set == RegSets[j]
<1>1. /\ pc = "vcpus" /\ i <= Len(doc[1].vcpu_states) /\ i <= machine.cpus
      /\ UNCHANGED <<machine, mem, dev, gen, held, file, before, taken>>
  BY DEF restore_vcpu_state
<1>2. CASE Finish("vcpuFailed") /\ UNCHANGED cpu
  BY <1>1, <1>2, FinishStep DEF machineVars, Outcomes
<1>3. CASE /\ cpu' = [cpu EXCEPT ![i][set] = doc[1].vcpu_states[i][set]]
           /\ i' = IF j = Len(RegSets) THEN i + 1 ELSE i
           /\ j' = IF j = Len(RegSets) THEN 1 ELSE j + 1
           /\ UNCHANGED <<pc, doc, last>>
  <2>1. /\ Sane(doc[1]) /\ machine \in Machines
        /\ cpu \in [1 .. machine.cpus -> [AllSets -> RegVal]]
        /\ i \in 1 .. Len(doc[1].vcpu_states) + 1 /\ j \in 1 .. 3
        /\ MemoryUpTo(doc[1], Len(doc[1].memory_regions) + 1, 1)
        /\ CpuUpTo(doc[1], i, j)
    BY <1>1, IInvParts DEF StatesSane, MachineType, CpuProgress
  <2>2. Len(doc[1].vcpu_states) \in Nat /\ machine.cpus \in Nat
    BY <2>1, SeqElements, MachineFacts DEF Sane
  <2>3. i \in 1 .. Len(doc[1].vcpu_states)
    BY <1>1, <2>1, <2>2
  <2>4. IF j = 3 THEN i' = i + 1 /\ j' = 1 ELSE i' = i /\ j' = j + 1
    BY <1>3, RegSetFacts
  <2>5. Ram(machine)' = Ram(machine)
    BY <1>1 DEF Ram, Chunks
  <2>6. Loaded(doc[1], i, j, machine.cpus, cpu, before.cpu)
    BY <2>1 DEF CpuUpTo
  <2>7. /\ cpu' \in [1 .. machine.cpus -> [AllSets -> RegVal]]
        /\ Loaded(doc[1], i', j', machine.cpus, cpu', before.cpu)
    <3>1. SetsRegister(doc[1], i, j, machine.cpus, cpu, cpu')
      BY <1>1, <1>3, <2>1, <2>3 DEF SetsRegister
    <3> QED
      BY <2>1, <2>2, <2>4, <2>6, <3>1, RegisterStep
  <2>8. MachineType' /\ BeforeType'
    BY <1>1, <2>5, <2>7, IInvParts DEF MachineType, BeforeType
  <2>9. Control' /\ MemoryProgress'
    BY <1>1, <1>3, IInvParts DEF Control, MemoryProgress
  <2>10. StatesSane'
    BY <1>1, <1>3, IInvParts DEF StatesSane, Sane
  <2>11. CpuProgress'
    <3>1. /\ MemoryUpTo(doc[1], Len(doc[1].memory_regions) + 1, 1)'
          /\ CpuUpTo(doc[1], i, j)'
      BY <1>1, <1>3, <2>1, <2>5, <2>7 DEF MemoryUpTo, CpuUpTo
    <3>2. /\ i' \in 1 .. Len(doc[1].vcpu_states) + 1 /\ j' \in 1 .. 3
          /\ i' > Len(doc[1].vcpu_states) => j' = 1
      BY <2>1, <2>2, <2>3, <2>4
    <3> QED
      BY <1>3, <3>1, <3>2 DEF CpuProgress
  <2> QED
    BY <2>8, <2>9, <2>10, <2>11, IInvNext
<1> QED
  BY <1>2, <1>3 DEF restore_vcpu_state

LEMMA NextIInv == IInv /\ [Next]_vars => IInv'
<1> SUFFICES ASSUME IInv, [Next]_vars PROVE IInv'
  OBVIOUS
<1>0. Sane(VmState)
  BY VmStateSane DEF IInv
<1>1. CASE GuestRuns
  <2>0. gen' \in 0 .. MaxGen
    <3>1. gen \in 0 .. MaxGen /\ gen < MaxGen /\ gen' = gen + 1
      BY <1>1, IInvParts DEF GuestRuns, MachineType
    <3> QED
      BY <3>1, MachinesAssumption
  <2>1. /\ machine \in Machines /\ gen' \in 0 .. MaxGen /\ machine' = machine
        /\ mem' = Contents(machine, gen') /\ cpu' = Registers(machine, gen')
        /\ dev' = gen' /\ pc' = "idle" /\ last' = "none"
        /\ UNCHANGED <<held, file, before>>
    BY <1>1, <2>0, IInvParts DEF GuestRuns, MachineType
  <2>2. Ram(machine)' = Ram(machine)
    BY <2>1 DEF Ram, Chunks
  <2>3. MachineType' /\ BeforeType'
    BY <2>1, <2>2, GuestWrites, IInvParts DEF MachineType, BeforeType
  <2>4. Control' /\ MemoryProgress' /\ CpuProgress'
    BY <2>1, IInvParts DEF Control, Outcomes, MemoryProgress, CpuProgress
  <2>5. StatesSane'
    BY <2>1, IInvParts DEF StatesSane, Sane
  <2> QED
    BY <2>3, <2>4, <2>5, IInvNext
<1>2. CASE create_snapshot
  <2>1. /\ pc' = "idle" /\ UNCHANGED <<machineVars, before, file>>
        /\ last' \in Outcomes /\ (held' = <<VmState>> \/ held' = held)
    BY <1>2 DEF create_snapshot, Outcomes
  <2>2. MachineType' /\ BeforeType' /\ MemoryProgress' /\ CpuProgress'
    BY <2>1, QuietStep
  <2>3. held' # <<>> => Sane(held'[1])
    BY <1>0, <2>1, IInvParts DEF StatesSane
  <2>4. Control' /\ StatesSane'
    BY <2>1, <2>3, IInvParts DEF Control, StatesSane, Sane
  <2> QED
    BY <2>2, <2>4, IInvNext
<1>3. CASE RestoreHeld \/ load_from_file
  <2>1. \/ held # <<>> /\ BeginRestore(held[1])
        \/ file.kind = "whole" /\ BeginRestore(file.doc[1])
        \/ /\ Finish("decodeFailed") \/ Finish("loadFailed")
           /\ UNCHANGED <<machineVars, held, file, before>>
    BY <1>3 DEF RestoreHeld, load_from_file
  <2> QED
    BY <2>1, BeginStep, FinishStep, IInvParts DEF StatesSane, Outcomes
<1>4. CASE SaveCollects \/ SaveCreates
  <2>1. CASE Finish("saveFailed") /\ UNCHANGED <<machineVars, before, held,
                                                 file>>
    BY <2>1, FinishStep DEF Outcomes
  <2>2. CASE pc' \in {"create", "serialize"}
    <3>1. /\ UNCHANGED <<machineVars, before, held>> /\ last' = "none"
          /\ doc' = <<VmState>> \/ (doc' = doc /\ pc # "idle")
          /\ file' = file \/ file'.kind = "partial"
      BY <1>4, <2>2, IInvParts DEF SaveCollects, SaveCreates, Finish, Control
    <3>2. MachineType' /\ BeforeType' /\ MemoryProgress' /\ CpuProgress'
      BY <2>2, <3>1, QuietStep
    <3>3. Sane(doc'[1])
      BY <1>0, <3>1, IInvParts DEF StatesSane
    <3>4. Control' /\ StatesSane'
      BY <2>2, <3>1, <3>3, IInvParts DEF Control, Outcomes, StatesSane, Sane
    <3> QED
      BY <3>2, <3>4, IInvNext
  <2> QED
    BY <1>4, <2>1, <2>2 DEF SaveCollects, SaveCreates
<1>5. CASE SaveSerializes
  <2>1. CASE Finish("saveFailed") /\ UNCHANGED file
    BY <1>5, <2>1, FinishStep DEF SaveSerializes, Outcomes
  <2>2. CASE file' = [kind |-> "whole", doc |-> doc] /\ Finish("saved")
    <3>1. /\ UNCHANGED <<machineVars, before, held>> /\ pc # "idle"
          /\ pc' = "idle" /\ last' = "saved"
          /\ file'.kind = "whole" /\ file'.doc = doc
      BY <1>5, <2>2 DEF SaveSerializes, Finish
    <3>2. MachineType' /\ BeforeType' /\ MemoryProgress' /\ CpuProgress'
      BY <3>1, QuietStep
    <3>3. Control' /\ StatesSane'
      BY <3>1, IInvParts DEF Control, Outcomes, StatesSane, Sane
    <3> QED
      BY <3>2, <3>3, IInvNext
  <2> QED
    BY <1>5, <2>1, <2>2 DEF SaveSerializes
<1>6. CASE VcpusRestored
  BY <1>6, FinishStep DEF VcpusRestored, Outcomes
<1>7. CASE restore_memory
  BY <1>7, RestoreMemoryStep
<1>8. CASE MemoryRestored
  BY <1>8, MemoryRestoredStep
<1>9. CASE restore_vcpu_state
  BY <1>9, RestoreVcpuStep
<1>10. CASE Restart
  <2>1. 0 \in 0 .. MaxGen
    BY MachinesAssumption
  <2>2. /\ machine' \in Machines /\ mem' = Contents(machine', 0)
        /\ cpu' = Registers(machine', 0) /\ dev' = 0 /\ gen' = gen
        /\ before' = [mem |-> mem', cpu |-> cpu']
        /\ pc' = "idle" /\ last' = "none" /\ UNCHANGED <<held, file>>
    BY <1>10 DEF Restart, Finish
  <2>3. MachineType' /\ BeforeType'
    BY <2>1, <2>2, GuestWrites, IInvParts DEF MachineType, BeforeType
  <2>4. Control' /\ MemoryProgress' /\ CpuProgress'
    BY <2>2, IInvParts DEF Control, Outcomes, MemoryProgress, CpuProgress
  <2>5. StatesSane'
    BY <2>2, IInvParts DEF StatesSane, Sane
  <2> QED
    BY <2>3, <2>4, <2>5, IInvNext
<1>11. CASE UNCHANGED vars
  <2>1. Ram(machine)' = Ram(machine)
    BY <1>11 DEF vars, Ram, Chunks
  <2>2. MachineType' /\ BeforeType' /\ Control'
    BY <1>11, <2>1, IInvParts DEF vars, MachineType, BeforeType, Control
  <2>3. StatesSane'
    BY <1>11, IInvParts DEF vars, StatesSane, Sane
  <2>4. MemoryProgress' /\ CpuProgress'
    BY <1>11, <2>1, IInvParts
       DEF vars, MemoryProgress, CpuProgress, MemoryUpTo, CpuUpTo, RegionFits,
           find_region, Fits, Chunks
  <2> QED
    BY <2>2, <2>3, <2>4, IInvNext
<1> QED
  BY <1>1, <1>2, <1>3, <1>4, <1>5, <1>6, <1>7, <1>8, <1>9, <1>10, <1>11
     DEF Next

LEMMA InvariantIInv == Spec => []IInv
BY InitIInv, NextIInv, PTL DEF Spec

-----------------------------------------------------------------------------
(* What follows from the invariant.                                        *)

\* Machine, memory, registers and outcomes keep their types, and a restore
\* in progress stays inside the VmState it restores.
THEOREM TypeCorrect == Spec => []TypeOK
BY InvariantIInv, PTL DEF IInv

(* All the chunks of a region before position <<ri, 1>> are in memory.     *)
LEMMA WholeRegion ==
  ASSUME IInv, pc # "idle",
         NEW ri \in Nat, NEW ci, MemoryUpTo(doc[1], ri, ci),
         NEW r \in DOMAIN doc[1].memory_regions, r < ri
  PROVE  Present(doc[1], r)
<1> DEFINE saved == doc[1].memory_regions[r]
<1>1. Sane(doc[1]) /\ mem \in [Ram(machine) -> ChunkVal]
  BY IInvParts DEF StatesSane, MachineType
<1>2. DOMAIN saved.data = 1 .. saved.size
  <2>1. doc[1].memory_regions \in Seq(SavedRegion)
          /\ Len(saved.data) = saved.size
    BY <1>1 DEF Sane
  <2>2. saved \in SavedRegion
    BY <2>1, SeqElements
  <2>3. saved.data \in Seq(ChunkVal)
    BY <2>2 DEF SavedRegion
  <2> QED
    BY <2>1, <2>3, SeqElements
<1>3. ASSUME NEW c \in 1 .. saved.size
      PROVE  /\ ChunkAddr(saved, c) \in Ram(machine)
             /\ mem[ChunkAddr(saved, c)] = saved.data[c]
  BY DEF MemoryUpTo, Restored, Earlier
<1> QED
  BY <1>1, <1>2, <1>3 DEF Present, ChunkAddr

(* The addresses of a saved region are those of its chunks.                *)
LEMMA CoveredChunks ==
  ASSUME NEW state, Sane(state), NEW r \in DOMAIN state.memory_regions, NEW a
  PROVE  a \in Covered(state, r)
           <=> \E c \in 1 .. state.memory_regions[r].size :
                 a = ChunkAddr(state.memory_regions[r], c)
<1> DEFINE addr == state.memory_regions[r].guest_addr
           size == state.memory_regions[r].size
<1>1. addr \in Nat /\ size \in Nat
  BY SaneFacts
<1>2. Covered(state, r) = addr .. (addr + size - 1)
  BY DEF Covered, Chunks
<1>3. \A c : ChunkAddr(state.memory_regions[r], c) = addr + c - 1
  BY DEF ChunkAddr
<1> HIDE DEF addr, size
<1>4. ASSUME a \in addr .. (addr + size - 1)
      PROVE  \E c \in 1 .. size : a = addr + c - 1
  <2>1. a - addr + 1 \in 1 .. size /\ a = addr + (a - addr + 1) - 1
    BY <1>1, <1>4
  <2> QED
    BY <2>1
<1>5. ASSUME NEW c \in 1 .. size, a = addr + c - 1
      PROVE  a \in addr .. (addr + size - 1)
  BY <1>1, <1>5
<1> QED
  BY <1>2, <1>3, <1>4, <1>5 DEF size

(* The registers of every vCPU stay as they were until all of the memory   *)
(* of the VmState has been written.                                        *)
THEOREM MemoryFirst == Spec => []VcpusAfterMemory
<1>1. IInv => VcpusAfterMemory
  <2> SUFFICES ASSUME IInv, pc \in {"memory", "vcpus"}, cpu # before.cpu,
                      NEW r \in DOMAIN doc[1].memory_regions
               PROVE  Present(doc[1], r)
    BY DEF VcpusAfterMemory
  <2>1. pc = "vcpus" /\ Sane(doc[1])
    BY IInvParts DEF MemoryProgress, StatesSane
  <2>2. MemoryUpTo(doc[1], Len(doc[1].memory_regions) + 1, 1)
    BY <2>1, IInvParts DEF CpuProgress
  <2>3. /\ Len(doc[1].memory_regions) + 1 \in Nat
        /\ r < Len(doc[1].memory_regions) + 1
    BY <2>1, RegionIndex
  <2> QED
    BY <2>1, <2>2, <2>3, WholeRegion
<1> QED
  BY <1>1, InvariantIInv, PTL

(* A restore_snapshot that returns Ok has put back every saved chunk and   *)
(* register set where it belongs, and has changed nothing else, on any     *)
(* machine and for any VmState that create_snapshot built on another.      *)
THEOREM ExactRestore == Spec => RestoreIsExact
<1>1. ASSUME IInv, VcpusRestored
      PROVE  /\ \A r \in DOMAIN doc[1].memory_regions : Present(doc[1], r)
             /\ \A a \in Ram(machine) :
                  \/ mem[a] = before.mem[a]
                  \/ \E r \in DOMAIN doc[1].memory_regions :
                       a \in Covered(doc[1], r)
             /\ \A v \in DOMAIN cpu, s \in AllSets :
                  cpu[v][s] = IF v <= Len(doc[1].vcpu_states) /\ s # "msrs"
                              THEN doc[1].vcpu_states[v][s]
                              ELSE before.cpu[v][s]
  <2> DEFINE n == Len(doc[1].vcpu_states)
             m == Len(doc[1].memory_regions)
  <2>1. /\ pc = "vcpus" /\ Sane(doc[1]) /\ machine \in Machines
        /\ i > n \/ i > machine.cpus
        /\ cpu \in [1 .. machine.cpus -> [AllSets -> RegVal]]
    BY <1>1, IInvParts DEF VcpusRestored, StatesSane, MachineType
  <2>2. /\ i \in 1 .. n + 1 /\ j \in 1 .. 3
        /\ MemoryUpTo(doc[1], m + 1, 1) /\ CpuUpTo(doc[1], i, j)
    BY <1>1, <2>1, IInvParts DEF CpuProgress
  <2>3. n \in Nat /\ m \in Nat /\ machine.cpus \in Nat
    BY <2>1, SeqElements, MachineFacts DEF Sane
  <2>4. ASSUME NEW r \in DOMAIN doc[1].memory_regions
        PROVE  Present(doc[1], r)
    <3>1. m + 1 \in Nat /\ r < m + 1
      BY <2>1, RegionIndex
    <3> QED
      BY <1>1, <2>1, <2>2, <3>1, WholeRegion
  <2>5. ASSUME NEW a \in Ram(machine), mem[a] # before.mem[a]
        PROVE  \E r \in DOMAIN doc[1].memory_regions : a \in Covered(doc[1], r)
    <3>1. PICK r \in DOMAIN doc[1].memory_regions :
            \E c \in 1 .. doc[1].memory_regions[r].size :
              a = ChunkAddr(doc[1].memory_regions[r], c)
      BY <2>2, <2>5 DEF MemoryUpTo, Restored
    <3> QED
      BY <2>1, <3>1, CoveredChunks
  <2>6. ASSUME NEW v \in DOMAIN cpu, NEW s \in AllSets
        PROVE  cpu[v][s] = IF v <= n /\ s # "msrs"
                           THEN doc[1].vcpu_states[v][s]
                           ELSE before.cpu[v][s]
    <3>1. v \in 1 .. machine.cpus
      BY <2>1
    <3>2. v <= n => v < i
      BY <2>1, <2>2, <2>3, <3>1
    <3>3. v <= n =>
            (s # "msrs" <=> \E k \in 1 .. 3 : /\ RegSets[k] = s
                                             /\ Earlier(v, k, i, j))
      <4>1. s # "msrs" <=> \E k \in 1 .. 3 : RegSets[k] = s
        BY RegSetFacts DEF AllSets
      <4> QED
        BY <3>2, <4>1 DEF Earlier
    <3>4. cpu[v][s] = IF /\ v <= n
                         /\ \E k \in 1 .. 3 : RegSets[k] = s
                                              /\ Earlier(v, k, i, j)
                      THEN doc[1].vcpu_states[v][s]
                      ELSE before.cpu[v][s]
      BY <2>2, <3>1 DEF CpuUpTo, Loaded
    <3> QED
      BY <3>3, <3>4
  <2> QED
    BY <2>4, <2>5, <2>6
<1>2. ASSUME IInv, Next, pc = "vcpus", last' = "restored"
      PROVE  VcpusRestored
  <2>1. last = "none"
    BY <1>2, IInvParts DEF Control
  <2> QED
    BY <1>2, <2>1
       DEF Next, GuestRuns, create_snapshot, RestoreHeld, restore_memory,
           MemoryRestored, restore_vcpu_state, SaveCollects, SaveCreates,
           SaveSerializes, load_from_file, Restart, Finish
<1>3. ASSUME IInv, UNCHANGED vars
      PROVE  ~(pc = "vcpus" /\ last' = "restored")
  BY <1>3, IInvParts DEF Control, vars
<1> QED
  BY <1>1, <1>2, <1>3, InvariantIInv, PTL DEF Spec, RestoreIsExact

(* A restore that fails, at whatever region or register, leaves each       *)
(* region of the machine either restored as a whole or as it was.          *)
THEOREM WholeRegionsOnFailure == Spec => RegionsWhole
<1>1. ASSUME IInv, Next, pc # "idle", last' \in {"memoryFailed", "vcpuFailed"},
             NEW r \in DOMAIN doc[1].memory_regions
      PROVE  \/ Present(doc[1], r)
             \/ \A a \in Covered(doc[1], r) \cap Ram(machine) :
                  mem[a] = before.mem[a]
  <2>1. last = "none" /\ Sane(doc[1])
    BY <1>1, IInvParts DEF Control, StatesSane
  <2>2. \/ restore_vcpu_state
        \/ restore_memory /\ last' = "memoryFailed"
    BY <1>1, <2>1
       DEF Next, GuestRuns, create_snapshot, RestoreHeld, MemoryRestored,
           restore_vcpu_state, restore_memory, WriteChunk, VcpusRestored,
           SaveCollects, SaveCreates, SaveSerializes, load_from_file,
           Restart, Finish
  <2>3. CASE restore_vcpu_state
    <3>1. MemoryUpTo(doc[1], Len(doc[1].memory_regions) + 1, 1)
      BY <1>1, <2>3, IInvParts DEF restore_vcpu_state, CpuProgress
    <3>2. /\ Len(doc[1].memory_regions) + 1 \in Nat
          /\ r < Len(doc[1].memory_regions) + 1
      BY <2>1, SaneFacts
    <3> QED
      BY <1>1, <3>1, <3>2, WholeRegion
  <2>4. CASE restore_memory /\ last' = "memoryFailed"
    <3>1. /\ i \in DOMAIN doc[1].memory_regions /\ j = 1
      BY <1>1, <2>1, <2>4, RestoreMemoryCases
    <3>2. i \in Nat
      BY <2>1, <3>1, SaneFacts
    <3>3. pc = "memory" /\ MemoryUpTo(doc[1], i, 1)
      BY <1>1, <2>4, <3>1, IInvParts DEF restore_memory, MemoryProgress
    <3>4. r \in Nat
      BY <2>1, SaneFacts
    <3>5. CASE r < i
      BY <1>1, <3>2, <3>3, <3>5, WholeRegion
    <3>6. CASE ~(r < i)
      <4> SUFFICES ASSUME NEW a \in Covered(doc[1], r), a \in Ram(machine),
                          mem[a] # before.mem[a]
                   PROVE  FALSE
        OBVIOUS
      <4>1. PICK c \in 1 .. doc[1].memory_regions[r].size :
              a = ChunkAddr(doc[1].memory_regions[r], c)
        BY <2>1, CoveredChunks
      <4>2. PICK s \in DOMAIN doc[1].memory_regions :
              \E d \in 1 .. doc[1].memory_regions[s].size :
                /\ Earlier(s, d, i, 1)
                /\ a = ChunkAddr(doc[1].memory_regions[s], d)
        BY <3>3 DEF MemoryUpTo, Restored
      <4>3. PICK d \in 1 .. doc[1].memory_regions[s].size :
              Earlier(s, d, i, 1) /\ a = ChunkAddr(doc[1].memory_regions[s], d)
        BY <4>2
      <4>4. s \in Nat /\ doc[1].memory_regions[s].size \in Nat
        BY <2>1, SaneFacts
      <4>5. s < i
        BY <3>2, <4>3, <4>4 DEF Earlier
      <4>6. r = s
        BY <2>1, <4>1, <4>3, AddressesDistinct
      <4> QED
        BY <3>2, <3>4, <3>6, <4>5, <4>6
    <3> QED
      BY <3>5, <3>6
  <2> QED
    BY <2>2, <2>3, <2>4
<1>2. ASSUME IInv, UNCHANGED vars
      PROVE  ~(pc # "idle" /\ last' \in {"memoryFailed", "vcpuFailed"})
  BY <1>2, IInvParts DEF Control, vars
<1>3. IInv /\ [Next]_vars =>
        [pc # "idle" /\ last' \in {"memoryFailed", "vcpuFailed"} =>
           \A r \in DOMAIN doc[1].memory_regions :
             \/ Present(doc[1], r)
             \/ \A a \in Covered(doc[1], r) \cap Ram(machine) :
                  mem[a] = before.mem[a]]_vars
  BY <1>1, <1>2
<1> QED
  BY <1>3, InvariantIInv, PTL DEF Spec, RegionsWhole

-----------------------------------------------------------------------------
(* What a restore brings back of the machine the snapshot was taken of.    *)

\* A restore has in hand what the client held, never what a file held.
OnlyHeldRestored ==
  pc \in {"memory", "vcpus"} => held # <<>> /\ doc[1] = held[1]

\* What the client holds are the registers of the vCPUs at that time.
HeldIsTaken ==
  held # <<>> =>
    \A v \in 1 .. Len(held[1].vcpu_states) : \A s \in AllSets \ {"msrs"} :
      held[1].vcpu_states[v][s] = taken.cpu[v][s]

SameVcpus == Len(held[1].vcpu_states) = machine.cpus

\* A restore on a machine with as many vCPUs ends with every vCPU as it was
\* when the snapshot was taken, but for its MSRs: they stay as they are.
AllButMsrsReturn ==
  [][pc = "vcpus" /\ last' = "restored" /\ SameVcpus =>
       \A v \in DOMAIN cpu, s \in AllSets :
         cpu[v][s] = IF s = "msrs" THEN before.cpu[v][s]
                                   ELSE taken.cpu[v][s]]_vars

(* No file gets past the decoder: what load_from_file asks for, a struct   *)
(* as a sequence, is what no visitor takes.                                *)
LEMMA NoFileDecodes == \A state : ~Decodes("bincode", state)
BY DEF Decodes, Form, VmStateVisitor

LEMMA NextOnlyHeld == OnlyHeldRestored /\ [Next]_vars => OnlyHeldRestored'
<1> SUFFICES ASSUME OnlyHeldRestored, [Next]_vars PROVE OnlyHeldRestored'
  OBVIOUS
<1>1. CASE RestoreHeld
  BY <1>1 DEF RestoreHeld, BeginRestore, Finish, OnlyHeldRestored
<1>2. CASE load_from_file
  BY <1>2, NoFileDecodes DEF load_from_file, Finish, OnlyHeldRestored
<1>3. CASE restore_memory
  BY <1>3 DEF restore_memory, WriteChunk, Finish, OnlyHeldRestored
<1>4. CASE MemoryRestored \/ restore_vcpu_state
  BY <1>4 DEF MemoryRestored, restore_vcpu_state, Finish, OnlyHeldRestored
<1>5. CASE \/ GuestRuns \/ create_snapshot \/ VcpusRestored
           \/ SaveCollects \/ SaveCreates \/ SaveSerializes \/ Restart
  BY <1>5 DEF GuestRuns, create_snapshot, VcpusRestored, SaveCollects,
              SaveCreates, SaveSerializes, Restart, Finish, OnlyHeldRestored
<1>6. CASE UNCHANGED vars
  BY <1>6 DEF vars, OnlyHeldRestored
<1> QED
  BY <1>1, <1>2, <1>3, <1>4, <1>5, <1>6 DEF Next

LEMMA NextHeldIsTaken ==
  TypeOK /\ HeldIsTaken /\ [Next]_vars => HeldIsTaken'
<1> SUFFICES ASSUME TypeOK, HeldIsTaken, [Next]_vars PROVE HeldIsTaken'
  OBVIOUS
<1>1. CASE UNCHANGED <<held, taken>>
  BY <1>1 DEF HeldIsTaken
<1>2. CASE held' = <<VmState>> /\ taken' = [cpu |-> cpu, dev |-> dev]
  <2>1. machine.cpus \in Nat
    BY MachineFacts DEF TypeOK
  <2>2. /\ VmState.vcpu_states
             = [v \in 1 .. machine.cpus |-> save_vcpu_state(v)]
        /\ Len(VmState.vcpu_states) = machine.cpus
    BY <2>1 DEF VmState
  <2>3. ASSUME NEW v \in 1 .. machine.cpus, NEW s \in AllSets \ {"msrs"}
        PROVE  VmState.vcpu_states[v][s] = cpu[v][s]
    <3>1. VmState.vcpu_states[v] = save_vcpu_state(v)
      BY <2>2
    <3> QED
      BY <3>1 DEF save_vcpu_state, AllSets
  <2>4. held'[1] = VmState /\ taken'.cpu = cpu
    BY <1>2
  <2> QED
    BY <2>2, <2>3, <2>4 DEF HeldIsTaken
<1>3. \/ UNCHANGED <<held, taken>>
      \/ held' = <<VmState>> /\ taken' = [cpu |-> cpu, dev |-> dev]
  BY DEF Next, GuestRuns, create_snapshot, RestoreHeld, BeginRestore,
         restore_memory, MemoryRestored, restore_vcpu_state, VcpusRestored,
         SaveCollects, SaveCreates, SaveSerializes, load_from_file, Restart,
         vars
<1> QED
  BY <1>1, <1>2, <1>3

(* load_from_file never begins a restore, for any machine and any file:    *)
(* what is restored is always what a client kept as JSON.                  *)
THEOREM NoRestoreFromFile == Spec => []OnlyHeldRestored
<1>1. Init => OnlyHeldRestored
  BY DEF Init, OnlyHeldRestored
<1> QED
  BY <1>1, NextOnlyHeld, PTL DEF Spec

(* Taking a snapshot and restoring it is the identity on the registers,    *)
(* sregs and fpu of every vCPU and on nothing of its MSRs, whatever ran,   *)
(* failed or restarted in between.                                         *)
THEOREM RoundTrip == Spec => AllButMsrsReturn
<1> DEFINE Exact ==
      /\ \A r \in DOMAIN doc[1].memory_regions : Present(doc[1], r)
      /\ \A a \in Ram(machine) :
           \/ mem[a] = before.mem[a]
           \/ \E r \in DOMAIN doc[1].memory_regions : a \in Covered(doc[1], r)
      /\ \A v \in DOMAIN cpu, s \in AllSets :
           cpu[v][s] = IF v <= Len(doc[1].vcpu_states) /\ s # "msrs"
                       THEN doc[1].vcpu_states[v][s]
                       ELSE before.cpu[v][s]
    Returned ==
      \A v \in DOMAIN cpu, s \in AllSets :
        cpu[v][s] = IF s = "msrs" THEN before.cpu[v][s] ELSE taken.cpu[v][s]
<1>1. Init => HeldIsTaken
  BY DEF Init, HeldIsTaken
<1>2. ASSUME TypeOK, OnlyHeldRestored, HeldIsTaken, Exact, pc = "vcpus",
             SameVcpus
      PROVE  Returned
  <2>1. doc[1] = held[1] /\ held # <<>>
    BY <1>2 DEF OnlyHeldRestored
  <2>2. DOMAIN cpu = 1 .. machine.cpus /\ machine.cpus \in Nat
    BY <1>2, MachineFacts DEF TypeOK
  <2>3. \A v \in DOMAIN cpu, s \in AllSets :
          cpu[v][s] = IF v <= machine.cpus /\ s # "msrs"
                      THEN held[1].vcpu_states[v][s] ELSE before.cpu[v][s]
    BY <1>2, <2>1 DEF SameVcpus
  <2>4. \A v \in 1 .. machine.cpus, s \in AllSets \ {"msrs"} :
          held[1].vcpu_states[v][s] = taken.cpu[v][s]
    BY <1>2, <2>1 DEF HeldIsTaken, SameVcpus
  <2> QED
    BY <2>2, <2>3, <2>4
<1> HIDE DEF Exact, Returned
<1>3. TypeOK /\ OnlyHeldRestored /\ HeldIsTaken
        /\ [pc = "vcpus" /\ last' = "restored" => Exact]_vars
        => [pc = "vcpus" /\ last' = "restored" /\ SameVcpus
              => Returned]_vars
  BY <1>2
<1> QED
  BY <1>1, <1>3, NextHeldIsTaken, NoRestoreFromFile, ExactRestore,
     TypeCorrect, PTL
     DEF Spec, RestoreIsExact, AllButMsrsReturn, Exact, Returned

=============================================================================
