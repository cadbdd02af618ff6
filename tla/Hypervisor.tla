----------------------------- MODULE Hypervisor -----------------------------
(***************************************************************************)
(* main() (main.rs) and the set-up operations of VirtualMachine it calls   *)
(* (vm.rs): create the VM, attach the devices the command line asks for,   *)
(* restore, load the kernel and the bootloader, run, save, drop.           *)
(*                                                                         *)
(* run() itself is the contract of module RunContract, which VmRun is      *)
(* shown to keep.  A step that calls the host or KVM may fail; main()      *)
(* answers some failures with exit(1), which skips Drop, and others with   *)
(* `?`, which returns from main() and drops the VM.                        *)
(***************************************************************************)
EXTENDS RunContract, Naturals, Sequences, FiniteSets

CONSTANTS
  NumCpus,     \* --cpus
  MaxShares    \* bound: how many --share arguments are given

ASSUME HypervisorAssumption ==
  /\ NumCpus \in Nat
  /\ MaxShares \in Nat
  /\ Vcpus = 0 .. (NumCpus - 1)

VARIABLES
  args,        \* the command line
  stage,       \* the next statement of main()
  devices,     \* VirtualMachine::devices, in the order of attachment
  next_irq,    \* VirtualMachine::next_irq
  origin,      \* who last set each group of registers of each vCPU
  initialised, \* vCPUs the current loading loop has gone through
  saved,       \* save_state has completed
  dropped,     \* Drop for VirtualMachine has run
  status       \* "alive", or how the process ended

setupVars == <<devices, next_irq, origin, initialised>>
vars == <<mode, thread, poisoned, args, stage, devices, next_irq, origin,
          initialised, saved, dropped, status>>

Args == [disk : BOOLEAN, net : {"none", "noPeer", "peer"},
         shares : 0 .. MaxShares, restore : BOOLEAN, bootloader : BOOLEAN,
         save : BOOLEAN]

\* The statements of main() that act on the VM, in program order.
Stages == {"new", "console", "block", "net", "fs", "restore", "kernel",
           "initKernel", "bootloader", "initBios", "run", "running", "save",
           "end"}

Device == [kind : {"console", "block", "net", "fs"}, base_addr : Nat,
           irq : Nat]

\* rip: rip, rflags, rsp, rbp; gpr: the other general registers; seg: the
\* segments, cr0, cr3, cr4 and the descriptor tables; fcw: fcw and mxcsr;
\* sys: what no loader sets (cr2, cr8, apic base, x87 and xmm registers).
Groups == {"rip", "rsi", "gpr", "seg", "tr", "efer", "fcw", "msrs", "sys"}

Origins == {"reset", "kernel", "bios"}

\* The size of the window of every VirtioMmioDevice.
WindowSize == 4096

\* Guest RAM is one memory slot from 0 (module GuestMemory).
MEMORY_SIZE == 128 * 1024 * 1024

TypeOK ==
  /\ mode \in {"idle", "running", "stopping", "unwound", "dropped"}
  /\ thread \in [Vcpus -> {"out", "live", "left"}]
  /\ poisoned \in BOOLEAN
  /\ args \in Args
  /\ stage \in Stages
  /\ devices \in Seq(Device)
  /\ next_irq \in Nat
  /\ origin \in [Vcpus -> [Groups -> Origins]]
  /\ initialised \in 0 .. NumCpus
  /\ saved \in BOOLEAN
  /\ dropped \in BOOLEAN
  /\ status \in {"alive", "exit0", "exit1", "panic", "sigint"}

\* The arguments are parsed; nothing exists yet.  KVM will give each vCPU
\* its reset state.
Init ==
  /\ ContractInit
  /\ args \in Args
  /\ stage = "new"
  /\ devices = <<>>
  /\ next_irq = 5
  /\ origin = [v \in Vcpus |-> [g \in Groups |-> "reset"]]
  /\ initialised = 0
  /\ saved = FALSE
  /\ dropped = FALSE
  /\ status = "alive"

-----------------------------------------------------------------------------
(* The ways main() ends.                                                   *)

\* std::process::exit(1): no destructor runs.
Exit1 ==
  /\ status' = "exit1"
  /\ stage' = "end"
  /\ UNCHANGED <<contractVars, args, saved, dropped>>

\* main() returns or unwinds: the VirtualMachine is dropped.
LeaveMain(how) ==
  /\ status' = how
  /\ stage' = "end"
  /\ dropped' = TRUE
  /\ Discard
  /\ UNCHANGED args

\* A statement of main() that ends at stage s.
At(s) == status = "alive" /\ stage = s

Goto(s) ==
  /\ stage' = s
  /\ UNCHANGED <<contractVars, args, saved, dropped, status>>

-----------------------------------------------------------------------------
(* Creating the VM and attaching devices.                                  *)

\* VirtualMachine::new; an error ends in exit(1).
New ==
  /\ At("new")
  /\ UNCHANGED setupVars
  /\ \/ Goto("console")
     \/ Exit1

MutAttachKeepsIrq(kind, base, next) ==
  \/ /\ devices' = Append(devices, [kind |-> kind, base_addr |-> base,
                                    irq |-> next_irq])
     /\ Goto(next)
     /\ UNCHANGED <<next_irq, origin, initialised>>
  \/ /\ LeaveMain("exit1")
     /\ UNCHANGED <<saved, devices, next_irq, origin, initialised>>

\* add_virtio_*: the IRQ is allocated first, then the device is created,
\* wrapped and pushed; an error of the creation leaves main() through `?`.
Attach(kind, base, next) ==
  /\ next_irq' = next_irq + 1
  /\ UNCHANGED <<origin, initialised>>
  /\ \/ /\ devices' = Append(devices, [kind |-> kind, base_addr |-> base,
                                       irq |-> next_irq])
        /\ Goto(next)
     \/ /\ LeaveMain("exit1")
        /\ UNCHANGED <<saved, devices>>

AddConsole == At("console") /\ Attach("console", 4096, "block")

AddBlock == At("block") /\ args.disk /\ Attach("block", 8192, "net")

NoBlock == At("block") /\ ~args.disk /\ Goto("net") /\ UNCHANGED setupVars

AddNet == At("net") /\ args.net = "peer" /\ Attach("net", 12288, "fs")

\* --net without --peer: exit(1).
NetNeedsPeer ==
  At("net") /\ args.net = "noPeer" /\ Exit1 /\ UNCHANGED setupVars

NoNet == At("net") /\ args.net = "none" /\ Goto("fs") /\ UNCHANGED setupVars

SharesAttached == Cardinality({k \in DOMAIN devices : devices[k].kind = "fs"})

\* One iteration of the loop over --share.
AddFs ==
  At("fs") /\ SharesAttached < args.shares /\ Attach("fs", 16384, "fs")

AllShared ==
  /\ At("fs") /\ SharesAttached = args.shares
  /\ Goto("restore")
  /\ UNCHANGED setupVars

-----------------------------------------------------------------------------
(* Restoring and loading.                                                  *)

\* restore_state: load_from_file decodes with bincode, which no file passes
\* (module Snapshot), and `?` leaves main().
RestoreState ==
  /\ At("restore") /\ args.restore
  /\ LeaveMain("exit1")
  /\ UNCHANGED <<saved, setupVars>>

NoRestore ==
  At("restore") /\ ~args.restore /\ Goto("kernel") /\ UNCHANGED setupVars

\* KernelLoader::load_kernel: the image is in memory, or an error ends in
\* exit(1), or the peek at an entry point outside RAM panics.
LoadKernel ==
  /\ At("kernel")
  /\ initialised' = 0
  /\ UNCHANGED <<devices, next_irq, origin>>
  /\ \/ Goto("initKernel")
     \/ Exit1
     \/ LeaveMain("panic") /\ UNCHANGED saved

SetGroups(v, gs, from) ==
  origin' = [origin EXCEPT ![v] = [g \in Groups |->
                                     IF g \in gs THEN from ELSE @[g]]]

\* What Vcpu::init sets before its MSRs.
BeforeMsrs == {"rip", "rsi", "seg", "tr", "fcw"}

\* setup_msrs: KVM stops at the first MSR it refuses and returns how many it
\* set, which setup_msrs does not look at.  EFER comes first.
MsrsSet == {{}, {"efer"}, {"efer", "msrs"}}

MutInitVcpuSkipsSregs ==
  /\ At("initKernel") /\ initialised < NumCpus
  /\ initialised' = initialised + 1
  /\ UNCHANGED <<devices, next_irq>>
  /\ Goto("initKernel")
  /\ \E done \in {BeforeMsrs, {"rip", "rsi"}} :
       SetGroups(initialised, done, "kernel")

MutInitVcpuOneTooMany ==
  /\ At("initKernel") /\ initialised <= NumCpus
  /\ initialised' = initialised + 1
  /\ UNCHANGED <<devices, next_irq>>
  /\ SetGroups(initialised, BeforeMsrs, "kernel")
  /\ Goto("initKernel")

\* Vcpu::init for the next vCPU: set_regs, set_sregs, set_fpu, set_msrs.  An
\* ioctl that fails leaves the rest undone and ends in exit(1).
InitVcpu ==
  /\ At("initKernel") /\ initialised < NumCpus
  /\ initialised' = initialised + 1
  /\ UNCHANGED <<devices, next_irq>>
  /\ \/ /\ \E set \in MsrsSet :
              SetGroups(initialised, BeforeMsrs \cup set, "kernel")
        /\ Goto("initKernel")
     \/ /\ \E done \in {{}, {"rip", "rsi"}, {"rip", "rsi", "seg", "tr"},
                        BeforeMsrs} :
              SetGroups(initialised, done, "kernel")
        /\ Exit1

KernelReady ==
  /\ At("initKernel") /\ initialised = NumCpus
  /\ Goto("bootloader")
  /\ UNCHANGED setupVars

NoBootloader ==
  At("bootloader") /\ ~args.bootloader /\ Goto("run") /\ UNCHANGED setupVars

\* BiosLoader::load_bootloader, with the interrupt handlers it installs.
LoadBootloader ==
  /\ At("bootloader") /\ args.bootloader
  /\ initialised' = 0
  /\ UNCHANGED <<devices, next_irq, origin>>
  /\ \/ Goto("initBios")
     \/ Exit1

\* init_vcpu_for_real_mode for the next vCPU: set_sregs, then set_regs.
InitRealMode ==
  /\ At("initBios") /\ initialised < NumCpus
  /\ initialised' = initialised + 1
  /\ UNCHANGED <<devices, next_irq>>
  /\ \/ /\ SetGroups(initialised, {"rip", "seg", "efer"}, "bios")
        /\ Goto("initBios")
     \/ /\ \E done \in {{}, {"seg", "efer"}} :
              SetGroups(initialised, done, "bios")
        /\ Exit1

BootloaderReady ==
  At("initBios") /\ initialised = NumCpus /\ Goto("run") /\ UNCHANGED setupVars

-----------------------------------------------------------------------------
(* Running, saving, leaving.                                               *)

\* vm.run() is called.
Run ==
  /\ At("run")
  /\ Begin
  /\ stage' = "running"
  /\ UNCHANGED <<args, saved, dropped, status, setupVars>>

\* What goes on inside run().
Running ==
  /\ At("running")
  /\ \/ Fail \/ Refuse
     \/ \E v \in Vcpus : Enter(v) \/ Leave(v) \/ Die(v)
  /\ UNCHANGED <<args, stage, saved, dropped, status, setupVars>>

MutRunReturnsEarly ==
  /\ At("running") /\ mode = "stopping" /\ ~poisoned
  /\ mode' = "idle"
  /\ stage' = "save"
  /\ UNCHANGED <<thread, poisoned, args, saved, dropped, status, setupVars>>

\* run() returns; it reports Ok(()) whatever stopped it.
RunReturns ==
  /\ At("running") /\ ~poisoned
  /\ GiveBack
  /\ stage' = "save"
  /\ UNCHANGED <<args, saved, dropped, status, setupVars>>

\* run() unwinds, and main() with it: Drop runs, nothing is saved.
RunUnwinds ==
  /\ At("running") /\ poisoned
  /\ mode = "stopping" /\ NoneLive
  /\ mode' = "dropped"
  /\ status' = "panic"
  /\ stage' = "end"
  /\ dropped' = TRUE
  /\ UNCHANGED <<thread, poisoned, args, saved, setupVars>>

MutSaveStateIgnoresErrors ==
  /\ At("save")
  /\ UNCHANGED setupVars
  /\ \/ args.save /\ saved' = TRUE /\ LeaveMain("exit0")
     \/ LeaveMain("exit0") /\ UNCHANGED saved

\* save_state, if asked for; an error leaves main() through `?`.
SaveState ==
  /\ At("save")
  /\ UNCHANGED setupVars
  /\ \/ args.save /\ saved' = TRUE /\ LeaveMain("exit0")
     \/ args.save /\ LeaveMain("exit1") /\ UNCHANGED saved
     \/ ~args.save /\ LeaveMain("exit0") /\ UNCHANGED saved

\* Ctrl+C: no handler is installed, so the signal kills the process.
Sigint ==
  /\ status = "alive"
  /\ status' = "sigint"
  /\ UNCHANGED <<contractVars, args, stage, saved, dropped, setupVars>>

Ended == status # "alive" /\ UNCHANGED vars

Next ==
  \/ New \/ AddConsole \/ AddBlock \/ NoBlock
  \/ AddNet \/ NetNeedsPeer \/ NoNet \/ AddFs \/ AllShared
  \/ RestoreState \/ NoRestore
  \/ LoadKernel \/ InitVcpu \/ KernelReady
  \/ NoBootloader \/ LoadBootloader \/ InitRealMode \/ BootloaderReady
  \/ Run \/ Running \/ RunReturns \/ RunUnwinds \/ SaveState
  \/ Sigint \/ Ended

Spec == Init /\ [][Next]_vars

-----------------------------------------------------------------------------
(* What the runs check.                                                    *)

\* allocate_irq: no two attached devices have the same interrupt number,
\* also when an attachment in between took a number and failed.
IrqsDistinct ==
  \A i, j \in DOMAIN devices : i # j => devices[i].irq # devices[j].irq

RequestedKinds ==
  <<"console">> \o (IF args.disk THEN <<"block">> ELSE <<>>)
    \o (IF args.net = "peer" THEN <<"net">> ELSE <<>>)
    \o [i \in 1 .. args.shares |-> "fs"]

\* What the loaders set before the MSRs, the entry point, boot parameters,
\* segments, task register and floating point words, is from the loader meant
\* to start the guest: the bootloader's real mode, EFER included, over the
\* kernel's, or the kernel's alone.  The MSRs, and with them the kernel's
\* EFER, are not among it: setup_msrs does not look at how many were set.
Booted(v) ==
  /\ \A g \in {"rip", "seg"} :
       origin[v][g] = IF args.bootloader THEN "bios" ELSE "kernel"
  /\ \A g \in {"rsi", "tr", "fcw"} : origin[v][g] = "kernel"
  /\ args.bootloader => origin[v]["efer"] = "bios"

\* No vCPU thread of run() is alive before every vCPU has these registers from
\* the same loaders and exactly the devices the command line names are
\* attached, whatever ioctl or attachment failed on the way.
BootedBeforeRun ==
  (\E v \in Vcpus : thread[v] = "live") =>
    /\ \A v \in Vcpus : Booted(v)
    /\ [i \in DOMAIN devices |-> devices[i].kind] = RequestedKinds

\* save_state and Drop get a machine no vCPU thread runs in: main() reaches
\* them only after run() has joined every thread.
OwnerActsAlone == (stage = "save" \/ dropped) => NoneLive

\* A process that was told to save its state and exits with 0 has saved it,
\* and has dropped its devices in order.
SuccessMeansSaved ==
  status = "exit0" => dropped /\ (args.save => saved)

-----------------------------------------------------------------------------
(* What the repository says and the code does not do.                      *)

InWindow(d, addr) == addr >= d.base_addr /\ addr < d.base_addr + WindowSize

\* main.rs: "each --share becomes a virtio-fs device": an access that the
\* dispatch loop of run() hands to a device reaches that device alone.
DevicesHaveOwnWindows ==
  \A i, j \in DOMAIN devices :
    InWindow(devices[j], devices[i].base_addr) => i = j

\* vm.rs: "The guest sees this as /dev/hvc0 and can write to it": a guest
\* access to a device leaves KVM_RUN, which it does only where there is no
\* memory slot.
DevicesTrap ==
  \A i \in DOMAIN devices : devices[i].base_addr >= MEMORY_SIZE

=============================================================================
