# A TLA+ model of the MO-VM hypervisor

MO-VM is a KVM hypervisor in Rust (`src/rust-hypervisor`). These modules model
its run loop, memory set-up, process, boot loaders, snapshots, device bus and
virtio devices. TLC checks them on small instances. TLAPS proves every safety
property of the passing runs for every value of the constants; the liveness
properties stay with TLC. `PROJECT.json` lists
components, runs, mutants, source map, findings, hazards and theorems.

## The system

| Part | State it keeps | Operations | Talks to | Module |
|---|---|---|---|---|
| `main.rs` | the arguments | build, restore, load, run, save | `VirtualMachine` | `Hypervisor` |
| `vm.rs` | `running`, `message_tx`, `devices`, `next_irq`, vCPUs | `new`, `add_virtio_*`, `load_*`, `run`, `stop`, `save_state`, `restore_state`, `Drop` | every other part | `VmRun`, `Hypervisor`, `MmioBus` |
| `vcpu.rs` | the KVM vCPU | `init`, `run`, `setup_msrs` | KVM | `VmRun`, `Hypervisor` |
| `memory.rs` | mmap'd regions | `new`, `setup_memory_region` | KVM | `GuestMemory` |
| `kernel_loader.rs`, `bootloader.rs` | entry point | load image, set registers | guest memory, vCPUs | `BootLayout`, `Hypervisor` |
| `snapshot.rs` | none (file, `VmState`) | create, restore, save, load | guest memory, vCPUs, files | `Snapshot` |
| `virtio/mmio.rs` | `queue_sel` | MMIO read and write | devices | `MmioBus` |
| `virtio/console.rs`, `block.rs`, `net.rs` | queues, stdout, disk, socket | `process_queue` | guest memory, host I/O | `VirtioConsole`, `VirtioBlock`, `VirtioNet` |
| `virtio/fs.rs` | queue, ACLs, MMIO buffer | `handle_event`, `check_permission`, `create_file`, `set_acl`, `mmio_*` | guest memory, host files | `VirtioFs`, `Acl`, `FsAcls`, `FsMmio` |

What is hard in it:

- vCPU threads and the monitor share two flags, one error channel, one channel
  per vCPU and one devices mutex;
- a vCPU thread may fail, panic, or never come back from `KVM_RUN`;
- the driver in the guest publishes descriptor chains while a handler runs;
- a step of set-up, of a restore or of a chain of requests may fail half way;
- offsets and sectors come from outside and may overflow;
- a process may die while it writes a file.

## Modules

**`VmRun`** is `run`, `stop` and `Drop` (`vm.rs`) with the exits of `Vcpu::run`.
Each atomic load or store, channel operation, lock and `KVM_RUN` is one step.
`mainPc` is the calling thread and `pc[v]` the thread of vCPU `v`; the other
variables have the names they have in the code. `Scope::spawn` may panic, and so
may a vCPU thread (`unwrap` on stdout). `lateEntries` is a history variable.

**`RunContract`** is the abstract promise of `run()`: which threads are alive and
when control comes back. `VmRun` implements it (`KeepsContract`), and
`Hypervisor` uses it in place of `run()`.

**`GuestMemory`** is `memory.rs`. An initial state chooses the three layout
constants, since the source invites changing them.

**`Hypervisor`** is `main()` with the set-up operations. `stage` is the next
statement of `main()`. Register groups record which loader set them last.
`exit(1)` skips `Drop`; `?` and panics do not. `Sigint` may come at any time.

**`BootLayout`** is what the kernel loader and then the bootloader write to guest
memory, write by write. Memory is an array of cells that record who wrote them;
a cell of a page table also holds its entry, and `Walk` walks the tables as the
MMU does. Page numbers are the real ones, a page has `PerPage` cells.

**`Snapshot`** is `SnapshotManager`. Memory is counted in the 4096-byte chunks the
code copies, and a chunk or register set holds the generation and the place it
was written at, so a misplaced or missing copy shows. Restores go chunk by chunk
and ioctl by ioctl. `Restart` ends the process between any two steps. Decoding is
modelled by the form (map or sequence) each serde visitor accepts.

**`Virtqueue`** is the queue of crate `virtio-queue` (external): the driver sets it
up (`SetUp`) and publishes chains (`Offer`), the device pops and uses them. A
chain is named by its place in the available ring. The transport of `mmio.rs`
has no register that sets a queue up (see "Also noted"): the devices are modelled
behind the "complete transport" that `mmio.rs:77` speaks of, and the queue of
`fs.rs` behind vhost-user, which does set it up.

**`QueueContract`** is what a driver relies on: chains are dealt with in order,
each handed back once; a handler stops only at an empty ring; only a chain that
cannot be read may be kept. All four devices implement it (`ServesQueue`,
`TxServesQueue`), except the receive queue of net, which loses chains.

**`VirtioConsole`**, **`VirtioBlock`**, **`VirtioNet`**, **`VirtioFs`** are the
handlers, one step for each pop, transfer, use and signal; console and block go
through a chain descriptor by descriptor (`di`). `pc` (`handler` in the console,
`net_pc` in net) is the place in the handler. The driver, and for net the
network, act between any two steps.
Text, frames and sectors are atoms that name where they come from. The disk has
a file length and a cursor, since the code ignores failed seeks. `failed` and
`announced` record how the last handler ended and what was signalled.

**`MmioBus`** composes the dispatch loop of `run()`, the registers of `mmio.rs` and
`VirtioConsole`, with a second device whose handler may panic as the block
device's does. Several vCPUs contend for the devices mutex. A read answers and
changes nothing; the writes that change what a later step sees are `QueueSel` and
`QueueNotify`. A vCPU may notify a queue that is not set up: `QueueReady` reads as 1
all the same.

**`Acl`** is `check_permission` on lists built entry by entry. **`FsAcls`** is the
table of lists with `create_file` in its three steps. **`FsMmio`** is the buffer
behind an `RwLock`, in builds with and without overflow checks.

`MCRunLoop`, `MCSetUp`, `MCDevices` and `MCVirtioFs` each put components side by
side that share no state: `part` names the one that moves in a behaviour, and the
others stay at one fixed initial state. The states of the parts add up instead of
multiplying, and no interleaving is lost. Where components do interact, they are
composed: `MmioBus` with the console, `Hypervisor` with `RunContract`.
`MCVmRun`, `MCHypervisor` and `MCSnapshot` check one component alone.

`Mut*` operators are plausible bugs; each property of a passing run has one that
violates it.

## Runs

| Run | Result | What it shows |
|---|---|---|
| `vm_run` | holds | 3 vCPUs, 2 calls of `run()`: quiescence, reasons for ending, late guest entries, the contract; an error is noticed, and ends `run()` if guests keep exiting. 2 vCPUs at the bus: a notification serves and announces all that was in the queue before it, the devices mutex is released unless the driver keeps publishing, a panic at the devices ends all service. The console: text in order, each chain used once |
| `machine_setup` | holds | 144 command lines with every failure: what runs, what is saved and dropped, that interrupts differ. The split and registration of RAM. The page tables map 4GB to itself; kernel and boot data are whole outside stated overlaps |
| `snapshot` | holds | exact restores, whole regions, memory before vCPUs, the file |
| `devices` | holds | the disk, by the sector number the code takes from a request: each sector holds the last write, unless a write went past every file position; the status names the first request refused (not whether the others succeeded); unannounced chains only after errors. The network: frames in order, packets paired with chains in order |
| `fs` | holds | the event handler keeps the contract of the queue; grants are monotone, entries take nothing away; a list that was set stays, a created file has one; an MMIO access past the end of the buffer gets an `Err`, unless its end wraps |
| `error_stops_vm` | violated | a vCPU stuck in `KVM_RUN` blocks `run()` after an error (`vm.rs:412`) |
| `dead_vcpus` | violated | panicked vCPU threads go unnoticed (`vm.rs:328`) |
| `share_windows` | violated | two shares answer at one address (`main.rs:153`) |
| `device_traps` | violated | device windows lie in RAM (`vm.rs:219`) |
| `snapshot_load` | violated | no saved file can be loaded (`vm.rs:482`) |
| `snapshot_complete` | violated | MSRs and devices are not restored (`README.md:40`) |
| `disk_reads_back` | violated | a driver does not read back the sector it wrote (`README.md:197`) |

Bounds:

- Three vCPUs are the fewest with one that fails, one that runs on and one that
  cannot be spawned. Two calls of `run()` show state left over from the first.
- Sizes 1-8 around gap starts 1-5 cover smaller, equal and larger memory.
- Two shares are the fewest that can collide.
- `BootLayout`: 8 cells a page keep every address of the code apart. Segments
  start below, in, across and behind each structure; images end one cell before
  and after the page tables and the command line, and past the end of memory.
- The four snapshot machines have one or two regions and one or two vCPUs; some
  fit into others and some fail in their first or second region. `MaxGen = 1`
  tells two generations of contents apart. `MaxGen = 2` was checked too, but
  takes a quarter of an hour, and showed nothing else.
- `MaxChains` is 3 for console and block, and so is `NetChains` (one served, one
  in hand, one published meanwhile); it is 4 for fs, whose chains are small.
  Behind the bus the driver publishes two (`BusChains`), since two vCPUs
  (`BusVcpus`), the fewest that contend, interleave with every step of it.
- `VirtioBlock`: `OffsetLimit = 16` sectors stand for 2^64 bytes, half of it for
  the largest offset a seek takes, `WordLimit = 4` for the weight of the reserved
  word. `FsMmio`: `UsizeLimit = 8` stands for 2^64. Sums wrap as in the code.
- Two users, groups and permissions and three entries give every pair of rules of
  `check_permission` a list on which they differ.

Fairness: in `VmRun`, `MainStep` and each `VcpuStep(v)` are weakly fair, because
the host schedules runnable threads. Leaving the guest is not fair: the code
sends no signal to a vCPU thread, and a guest may stay inside for ever.
`ErrorEndsRun` therefore assumes `GuestsKeepExiting`; `ErrorStopsVm` is the same
without it. In `MmioBus` only a thread that holds the mutex is weakly
fair. Nothing is assumed of the threads that wait: Rust's `Mutex` promises them
no turn. `MutexReleased` does not rest on the bound on chains: it says that the
holder leaves unless the driver publishes one more, and a driver that publishes
for ever could keep it.

Deadlock is checked in every run. The
end of a process, a loader that is done, a thread that panicked and a full list
are explicit stutters.

## Also noted

Disagreements between code and documents that the modules contain and no run is
devoted to:

- No handler for Ctrl+C is installed, where `README.md:41` speaks of a graceful
  shutdown: the signal kills the process and `Drop` does not run (`Sigint`,
  proved as `CtrlCSkipsDrop`).
- `block.rs:360` puts the status of a request into the length of the used ring and
  never writes the driver's status byte, and `block.rs:329-352` drops the errors
  of seek, read and write. `vm.rs:240` says of a read-only disk that "writes will
  return I/O errors to the guest" (`Use` in `VirtioBlock`).
- `net.rs:112` pops a receive chain before it asks the socket. Without a packet the
  chain is lost; with one, it comes back with length 0 (`Recv`, `RxUse`).
- `fs.rs:241` reads byte 4 after a check for four bytes: a message of four bytes
  panics (`process_9p`).
- `fs.rs:171` and `fs.rs:183` add offset and length, which may wrap: the access
  panics instead of failing, where `integration_test.rs:189` expects a failure
  past the end (`Result`).
- `mmio.rs` has no register that sets a queue up, and `QueueReady` reads as 1
  (`mmio.rs:45`), so at present a notification finds a queue that is not ready
  (`IterFails`).
- Without `--disk` the network device gets interrupt 6, while the command line
  (`vm.rs:188`) announces 7 (`Attach`).
- `vcpu.rs:213` ignores how many MSRs KVM took (`MsrsSet`): a vCPU may enter the
  guest with part of the kernel's MSRs, EFER among them. `BootedBeforeRun` leaves
  them out.
- The text of a vCPU error is dropped at `vm.rs:427` and `run()` returns `Ok(())`
  (`RunReturns`).

## Proofs

`VmRunProofs` proves, for every `NumCpus` and `MaxRuns` in Nat, `TypeCorrect`,
`Quiescence`, `OnlyErrorsEndRun`, `LateEntryBound` and
`RunKeepsContract`. They rest on one inductive invariant, `IInv`. The properties
are not inductive alone: `IInv` adds that threads are spawned in order, that
control channels stay empty, that a cleared `running` or a message in the channel
means a vCPU is flagging or has flagged an error, that a scope which panics is
past its monitor, and where a thread can be before its one late entry.
The refinement maps each step to a step of `RunContract` or to a stutter.
`OneAtTheDevices` is the devices mutex. Three theorems say when `run()` ends.
`ErrorWindsDown`: once the error flag is up it stays up, and every step of any
thread lowers that thread's distance to its end (`Distance`, `MainDistance`), so
that only a guest that stays in `KVM_RUN`, or a wait for the mutex, keeps `run()`
from returning. `ForsakenForEver`: a `run()` whose vCPU threads have all panicked
never leaves its monitor loop, for any number of vCPUs (run `dead_vcpus` shows
one). `NoVcpusNoEnd`: with `--cpus 0` every call of `run()` is such a one. `IInv` has
two parts for them: the flag goes up only in a thread that then leaves
(`FlagOwner`), and `DispatchAlone`.

`HypervisorProofs` proves `TypeCorrect`, `DistinctIrqs`, `OwnerAlone`,
`ExitStatusHonest` and `BootedFirst` for any number of vCPUs and shares. `IInv`
adds that every number given out is below `next_irq`, which makes `IrqsDistinct`
inductive, and that threads are alive only while `main()` is in `run()`, from
which `OwnerActsAlone` follows through `RunContract`. `BootedFirst` needs more:
`KindsInv`, that device `k` is the one the command line wants at place `k` and
that each stage of `main()` has as many as it should, and `RegistersInv`, that
the loops over the vCPUs have set the groups of every vCPU before `initialised`.
Two theorems turn the findings about windows into statements about every command
line. `SharesCollide`: up to one `--share` all devices have windows of their own,
and every machine that runs with more has two devices in one. `NoDeviceTraps`:
every window lies inside guest RAM. They need that a device is at the address of
its kind and that there are no more devices than asked for (`WindowInv`).
`CtrlCSkipsDrop`: a process ended by Ctrl+C has not dropped its machine.

`GuestMemoryProofs` has three parts. `MemoryTypeCorrect`, `GapFree` and
`RamComplete` hold for all layout constants: `slots` is a prefix of `Regions(build)`.
`BootTypeCorrect`, `LoadedWhole` and `MappedToItself` hold for every kernel (any
number of segments, anywhere), image and command line, and every size of a page
that is a multiple of eight cells. `LoadInv` says what each part of memory holds
after each stage of loading: the segments so far are whole but for the loaders'
own cells (`SegInv`), every cell of the tables holds the entry it should have by
then (`TableInv`), and the boot data once written stays (`DataInv`). That the
structures do not meet is the lemma `Apart`, about the addresses of the code. The
walk needs `Digits`: the indices the MMU takes from an address are its digits in
base `PerPage`. The third part is about the composition, see below.

`SnapshotProofs` proves `FileNeedsState` (between `File::create` and `serialize` the
document in hand is the machine's `VmState`), `TypeCorrect`, `MemoryFirst`,
`ExactRestore` and `WholeRegionsOnFailure` for any machines whose regions do not
overlap. The invariant has two halves. Every `VmState` the manager can come by
was built by `create_snapshot` on some machine (`StatesSane`): regions have the
chunks their size says, and do not overlap. And a restore at chunk `j` of region
`i` has written exactly the chunks before that place (`MemoryUpTo`), and at
register set `j` of vCPU `i` exactly the sets before it (`CpuUpTo`); all else is as
it was `before`. `RegionsWhole` follows because a restore is in the middle of a
region only if that region was found to fit. `NoRestoreFromFile` and `RoundTrip`
state the findings for all machines: `load_from_file` never gets as far as a
restore, and a snapshot that a client keeps as JSON and restores brings back
regs, sregs and fpu of every vCPU as they were when it was taken (`HeldIsTaken`),
whatever ran, failed or restarted in between, and none of its MSRs.

`MmioBusProofs` proves of the console `ConsoleTypeCorrect`, `OutputInOrder` and
`ConsoleServesQueue`, for any chains. `OutputIsText` is not inductive: `ConsoleInv`
adds that the buffer is the text of the descriptors before `di` of the chain in hand
(`Gathered`), and that the chains handed back are the ones dealt with.
`BusDrivesConsole` shows that whatever vCPUs do at the bus is a behaviour of
`ConsoleSpec`, so these theorems hold behind the bus. `NotificationServesAll` is
proved for any number of vCPUs: a vCPU with a notification knows no more chains
than are in the queue (none, while it is not set up), and the handler turns to its signal only when it has popped
all of them (`NotifyInv`). It does not need the mutual exclusion of the mutex;
that the handler is entered when idle is enough. The exclusion itself is
`BusMutex`: one vCPU at most is at a device, and the console's handler is at work
exactly while a vCPU is in it. `HolderNeverWaits` and `HandlerWindsDown` are what
`MutexReleased` rests on: the holder of the mutex always finds the device ready for
its access, and every step of the handler lowers a measure (chains to pop, then
the place in the loop) that only a newly published chain raises. `PanicIsTheEnd`
is the other end: after a panic nothing at the devices changes any more
(`PoisonInv`: the vCPU that panicked was the only one there).

`VirtioBlockProofs` proves `TypeCorrect`, `ImageIsDisk`, `StatusNamesRefusal`,
`AnnouncedUnlessFailed` and `HandlerServesQueue` for any chains, disk and offset
limit. Its invariant relates the disk to the history of requests: each sector
holds what the last write to arrive there left (`DiskInv`), each request worked
where it says unless its seek failed, and each read found what the entries before
it left (`EntriesInv`), and the history has exactly the descriptors before `di` of
the chain in hand (`OutcomeInv`). When every write so far was addressable, arriving
at a sector and naming it are the same, which gives `ImageIsDisk`. `HandlerWindsDown` is
the same measure for this handler, whichever requests are refused, lie outside
RAM or overflow; `HandlersWindDown` of `VirtioNetProofs` and `HandlerWindsDown` of
`VirtioFsProofs` are its counterparts. For the receive handler the packets that
arrive do not matter, only the chains.

`VirtioNetProofs` proves `NetTypeCorrect`, `InOrder` and `TransmitServesQueue` for
any number of chains and packets. The invariant adds that the frames gone are the
ones before the chain in hand, sent or dropped (`SentInv`), and that receive
chains handed back are older than the one in hand (`RxBehind`).

`VirtioFsProofs` has the four modules of `fs.rs`. For the event handler it proves
`TypeCorrect`, `AllAnnounced` and `HandlerServesQueue`; for the lists, the table and
the buffer what run `fs` checks, for all lists, threads, files, buffers and word
sizes, and two facts that are proved only: a list refuses whoever it does not
name (`NoStranger`), and a lock that a panicking writer has poisoned lets nothing
through (`PoisonStays`). `TableInv` adds to its two properties that a thread about
to insert holds the metadata of a file that was there.

The refinements of `QueueContract` map a pop to a stutter and the use of a chain,
or its being passed over, to the contract's `Serve` or `Keep`.

Three runs put several parts into one behaviour (`MCRunLoop`, `MCSetUp`,
`MCDevices`), of which one moves. That what is proved of a part holds in the
composition is proved too: `RunLoopIsRun`, `RunLoopIsConsole` and `RunLoopIsBus`
(`MmioBusProofs`), `SetUpIsMain`, `SetUpIsMemory` and `SetUpIsBoot`
(`GuestMemoryProofs`), `DevicesAreBlock` and `DevicesAreNet` (`VirtioNetProofs`). The
joint type invariants of the runs follow: `RunLoopTypeCorrect`, `SetUpTypeCorrect`,
`DevicesTypeCorrect`.

The assumptions are the named `ASSUME`s of the modules: bounds are numbers, chains
are sequences of descriptors, kernels sequences of segments, the regions of a
machine do not overlap, the placeholder for no file is not a user, the MMIO
buffer is smaller than a word, a disk is no longer than the largest offset a seek
takes, guest memory reaches past the page of the command line and a page has a
multiple of eight cells (it has 4096 bytes).

Every invariant and action property of the passing runs has a theorem.
Model-checked only are the three liveness properties, since TLAPS does not prove
liveness under fairness. Their safety cores are proved: for `ErrorEndsRun` and
`MonitorNotices` that no thread goes round its loop again once an error is flagged
(`ErrorWindsDown`), for `MutexReleased` mutual exclusion, that the holder can go on and
that the handler winds down. What is left to fairness is that a thread that can
step does; that KVM leaves the guest is
the hypothesis of `ErrorEndsRun`.

What a loop over a sequence computes cannot be proved by induction over the
sequence here. The models therefore take such loops step by step, and the
properties speak of positions (`OutputIsText`, `FramesInOrder`) rather than of
folds.

## Not modelled, and why

- Register values and ELF parsing: the groups of registers, their order and the
  outcome are modelled.
- What reads of device registers answer; feature bits and configuration bytes,
  which a device stores and no handler reads.
- 9P operations: `process_9p` refuses every type. `update_memory` of `fs.rs`
  replaces the guest memory, which is fixed here. `VirtioFs` is not reached
  through MMIO: its `process_queue` does nothing.
- `process_request`, `handle_read` and `handle_write` of `block.rs` (125-212) and
  the helpers of `snapshot.rs` (18-290 and 771-809) are called by nothing.
  `create_file` has no caller either, but keeps the table of lists and is
  modelled with it.
- Failing eventfds: a write of 1 fails only with the counter at its limit of 2^64,
  when a signal is pending anyway. Used rings outside guest memory. A request of the block
  device lies wholly inside or outside guest memory and transfers one sector or
  none; failing reads of the disk file before its end are left out.
- The memory of a chain while it is published: a driver does not change it.
- `MmioBus` in `VmRun`: no guest access reaches a device at present
  (`device_traps`), so `Dispatch` in `VmRun` serves none. `MmioBus` has the
  dispatch as it will be when windows lie outside RAM.
- `restore_state` succeeding: no file decodes (`snapshot_load`), so `Hypervisor`
  lets it fail. The `restore_snapshot` behind it is modelled in `Snapshot`.
- Logging, argument parsing, error types.
