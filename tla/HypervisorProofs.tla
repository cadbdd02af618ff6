-------------------------- MODULE HypervisorProofs --------------------------
(* Proofs about Hypervisor: interrupt numbers, the owner of the machine,   *)
(* the exit status and what is set up before run(), for any number of      *)
(* vCPUs and shares.                                                       *)
EXTENDS Hypervisor, FiniteSetTheorems, TLAPS

\* Every number given out is below the next one.
IrqsBelowNext == \A i \in DOMAIN devices : devices[i].irq < next_irq

\* vCPU threads are alive only while main() is in run(), and a machine that
\* was dropped belongs to a main() that has ended.
LiveOnlyInRun ==
  /\ stage # "running" => NoneLive
  /\ dropped => status # "alive" /\ stage = "end"

IInv == TypeOK /\ IrqsBelowNext /\ IrqsDistinct /\ LiveOnlyInRun
          /\ SuccessMeansSaved

ModeThread ==
  /\ mode \in {"idle", "running", "stopping", "unwound", "dropped"}
  /\ thread \in [Vcpus -> {"out", "live", "left"}]
  /\ poisoned \in BOOLEAN

SetupType ==
  /\ devices \in Seq(Device)
  /\ next_irq \in Nat
  /\ origin \in [Vcpus -> [Groups -> Origins]]
  /\ initialised \in 0 .. NumCpus

ProcessType ==
  /\ args \in Args
  /\ stage \in Stages
  /\ saved \in BOOLEAN
  /\ dropped \in BOOLEAN
  /\ status \in {"alive", "exit0", "exit1", "panic", "sigint"}

(* The type invariant, by the part of the state.                           *)
LEMMA TypeParts == TypeOK <=> ModeThread /\ SetupType /\ ProcessType
BY DEF TypeOK, ModeThread, SetupType, ProcessType

LEMMA InitIInv == Init => IInv
<1> SUFFICES ASSUME Init PROVE IInv
  OBVIOUS
<1>1. ModeThread
  BY DEF Init, ContractInit, ModeThread
<1>2. SetupType
  <2>1. devices \in Seq(Device) /\ next_irq \in Nat
    BY DEF Init
  <2>2. origin \in [Vcpus -> [Groups -> Origins]]
    BY DEF Init, Origins
  <2>3. initialised \in 0 .. NumCpus
    BY HypervisorAssumption DEF Init
  <2> QED
    BY <2>1, <2>2, <2>3 DEF SetupType
<1>3. ProcessType
  BY DEF Init, ProcessType, Stages
<1>4. DOMAIN devices = {}
  BY DEF Init
<1>5. IrqsBelowNext /\ IrqsDistinct
  BY <1>4 DEF IrqsBelowNext, IrqsDistinct
<1>6. LiveOnlyInRun /\ SuccessMeansSaved
  BY DEF Init, ContractInit, LiveOnlyInRun, NoneLive, SuccessMeansSaved
<1> QED
  BY <1>1, <1>2, <1>3, <1>5, <1>6, TypeParts DEF IInv

-----------------------------------------------------------------------------
(* The set-up of devices and vCPUs.                                        *)

\* What the set-up variables satisfy.
SetupInv == SetupType /\ IrqsBelowNext /\ IrqsDistinct

LEMMA SetupKept ==
  ASSUME SetupInv, UNCHANGED <<devices, next_irq>>,
         origin' \in [Vcpus -> [Groups -> Origins]],
         initialised' \in 0 .. NumCpus
  PROVE  SetupInv'
BY DEF SetupInv, SetupType, IrqsBelowNext, IrqsDistinct

LEMMA SetupSame ==
  ASSUME SetupInv, UNCHANGED setupVars
  PROVE  SetupInv'
BY DEF SetupInv, SetupType, IrqsBelowNext, IrqsDistinct, setupVars

(* An attachment uses up a number, whether or not the device was made.     *)
LEMMA AttachSetup ==
  ASSUME SetupInv, NEW kind \in {"console", "block", "net", "fs"},
         NEW base \in Nat, NEW next \in Stages, Attach(kind, base, next)
  PROVE  SetupInv'
<1> DEFINE dev == [kind |-> kind, base_addr |-> base, irq |-> next_irq]
<1>1. devices \in Seq(Device) /\ next_irq \in Nat /\ next_irq' = next_irq + 1
  BY DEF SetupInv, SetupType, Attach
<1>2. UNCHANGED <<origin, initialised>>
  BY DEF Attach
<1>3. dev \in Device /\ dev.irq = next_irq
  BY <1>1 DEF Device
<1>4. \A i \in DOMAIN devices : devices[i].irq \in Nat
  <2>1. \A i \in DOMAIN devices : devices[i] \in Device
    BY <1>1
  <2>2. \A d \in Device : d.irq \in Nat
    BY DEF Device
  <2> QED
    BY <2>1, <2>2
<1>5. CASE devices' = Append(devices, dev)
  <2> HIDE DEF dev
  <2>1. devices' \in Seq(Device) /\ DOMAIN devices' = 1 .. Len(devices) + 1
    BY <1>1, <1>3, <1>5
  <2>2. \A i \in 1 .. Len(devices) : devices'[i] = devices[i]
    BY <1>1, <1>3, <1>5
  <2>3. devices'[Len(devices) + 1].irq = next_irq
    BY <1>1, <1>3, <1>5
  <2>4. DOMAIN devices = 1 .. Len(devices) /\ Len(devices) \in Nat
    BY <1>1
  <2>5. IrqsBelowNext'
    BY <1>1, <1>4, <2>1, <2>2, <2>3, <2>4 DEF SetupInv, IrqsBelowNext
  <2>6. IrqsDistinct'
    BY <1>1, <1>4, <2>1, <2>2, <2>3, <2>4
       DEF SetupInv, IrqsBelowNext, IrqsDistinct
  <2> QED
    BY <1>1, <1>2, <2>1, <2>5, <2>6 DEF SetupInv, SetupType
<1>6. CASE UNCHANGED devices
  BY <1>1, <1>2, <1>4, <1>6
     DEF SetupInv, SetupType, IrqsBelowNext, IrqsDistinct
<1> QED
  BY <1>5, <1>6 DEF Attach

(* Setting registers of a vCPU keeps the record of who set them.           *)
LEMMA SetGroupsType ==
  ASSUME origin \in [Vcpus -> [Groups -> Origins]],
         NEW v, NEW gs, NEW from \in Origins, SetGroups(v, gs, from)
  PROVE  origin' \in [Vcpus -> [Groups -> Origins]]
BY DEF SetGroups

LEMMA SetupStep ==
  ASSUME SetupInv, Next
  PROVE  SetupInv'
<1>1. CASE AddConsole \/ AddBlock \/ AddNet \/ AddFs
  BY <1>1, AttachSetup DEF AddConsole, AddBlock, AddNet, AddFs, Stages
<1>2. CASE LoadKernel \/ LoadBootloader
  BY <1>2, SetupKept, HypervisorAssumption
     DEF LoadKernel, LoadBootloader, SetupInv, SetupType
<1>3. CASE InitVcpu \/ InitRealMode
  <2>1. UNCHANGED <<devices, next_irq>> /\ initialised' \in 0 .. NumCpus
    BY <1>3, HypervisorAssumption
       DEF InitVcpu, InitRealMode, SetupInv, SetupType
  <2>2. \E from \in {"kernel", "bios"} : \E gs \in SUBSET Groups :
          SetGroups(initialised, gs, from)
    BY <1>3 DEF InitVcpu, InitRealMode, MsrsSet, BeforeMsrs, Groups
  <2>3. origin' \in [Vcpus -> [Groups -> Origins]]
    BY <2>2, SetGroupsType DEF SetupInv, SetupType, Origins
  <2> QED
    BY <2>1, <2>3, SetupKept
<1>4. CASE UNCHANGED setupVars
  BY <1>4, SetupSame
<1>5. \/ AddConsole \/ AddBlock \/ AddNet \/ AddFs
      \/ LoadKernel \/ LoadBootloader \/ InitVcpu \/ InitRealMode
      \/ UNCHANGED setupVars
  BY DEF Next, New, NoBlock, NetNeedsPeer, NoNet, AllShared, RestoreState,
         NoRestore, KernelReady, NoBootloader, BootloaderReady, Run, Running,
         RunReturns, RunUnwinds, SaveState, Sigint, Ended, vars, setupVars
<1> QED
  BY <1>1, <1>2, <1>3, <1>4, <1>5

-----------------------------------------------------------------------------
(* The process and the machine it owns.                                    *)

ProcessInv == ModeThread /\ ProcessType /\ LiveOnlyInRun /\ SuccessMeansSaved

(* A statement outside run() that goes on, or exits with 1.                *)
LEMMA GotoStep ==
  ASSUME ProcessInv, status = "alive", stage # "running",
         NEW s \in Stages, Goto(s) \/ Exit1
  PROVE  ProcessInv'
<1>1. ModeThread' /\ ProcessType'
  BY DEF ProcessInv, ModeThread, ProcessType, Goto, Exit1, contractVars, Stages
<1>2. LiveOnlyInRun' /\ SuccessMeansSaved'
  BY DEF ProcessInv, LiveOnlyInRun, SuccessMeansSaved, NoneLive, Goto, Exit1,
         contractVars
<1> QED
  BY <1>1, <1>2 DEF ProcessInv

(* A statement outside run() that leaves main().                           *)
LEMMA LeaveStep ==
  ASSUME ProcessInv, status = "alive", stage # "running", saved' \in BOOLEAN,
         NEW how \in {"exit0", "exit1", "panic"}, LeaveMain(how),
         how = "exit0" => (args.save => saved')
  PROVE  ProcessInv'
<1>1. ModeThread'
  BY DEF ProcessInv, ModeThread, LeaveMain, Discard
<1>2. ProcessType'
  BY DEF ProcessInv, ProcessType, LeaveMain, Stages
<1>3. LiveOnlyInRun'
  BY DEF ProcessInv, LiveOnlyInRun, NoneLive, LeaveMain, Discard
<1>4. SuccessMeansSaved'
  BY DEF SuccessMeansSaved, LeaveMain
<1> QED
  BY <1>1, <1>2, <1>3, <1>4 DEF ProcessInv

LEMMA AttachStep ==
  ASSUME ProcessInv, status = "alive", stage # "running",
         NEW kind, NEW base, NEW s \in Stages, Attach(kind, base, s)
  PROVE  ProcessInv'
<1>1. saved \in BOOLEAN
  BY DEF ProcessInv, ProcessType
<1> QED
  BY <1>1, GotoStep, LeaveStep DEF Attach

LEMMA ProcessStep ==
  ASSUME ProcessInv, Next
  PROVE  ProcessInv'
<1> saved \in BOOLEAN
  BY DEF ProcessInv, ProcessType
<1>1. CASE AddConsole \/ AddBlock \/ AddNet \/ AddFs
  BY <1>1, AttachStep DEF AddConsole, AddBlock, AddNet, AddFs, At, Stages
<1>2. CASE \/ New \/ NoBlock \/ NetNeedsPeer \/ NoNet \/ AllShared
           \/ NoRestore \/ InitVcpu \/ KernelReady \/ NoBootloader
           \/ LoadBootloader \/ InitRealMode \/ BootloaderReady
  BY <1>2, GotoStep
     DEF New, NoBlock, NetNeedsPeer, NoNet, AllShared, NoRestore, InitVcpu,
         KernelReady, NoBootloader, LoadBootloader, InitRealMode,
         BootloaderReady, At, Stages
<1>3. CASE RestoreState
  BY <1>3, LeaveStep DEF RestoreState, At
<1>4. CASE LoadKernel
  BY <1>4, GotoStep, LeaveStep DEF LoadKernel, At, Stages
<1>5. CASE SaveState
  <2>1. status = "alive" /\ stage # "running"
    BY <1>5 DEF SaveState, At
  <2>2. \/ args.save /\ saved' = TRUE /\ LeaveMain("exit0")
        \/ LeaveMain("exit1") /\ UNCHANGED saved
        \/ ~args.save /\ LeaveMain("exit0") /\ UNCHANGED saved
    BY <1>5 DEF SaveState
  <2> QED
    BY <2>1, <2>2, LeaveStep
<1>6. CASE Run
  <2>1. ModeThread' /\ ProcessType'
    BY <1>6 DEF Run, Begin, ProcessInv, ModeThread, ProcessType, Stages
  <2>2. LiveOnlyInRun' /\ SuccessMeansSaved'
    BY <1>6 DEF Run, At, ProcessInv, LiveOnlyInRun, SuccessMeansSaved
  <2> QED
    BY <2>1, <2>2 DEF ProcessInv
<1>7. CASE Running
  <2>1. ModeThread'
    BY <1>7 DEF Running, Fail, Refuse, Enter, Leave, Die, ProcessInv,
                ModeThread
  <2>2. ProcessType'
    BY <1>7 DEF Running, ProcessInv, ProcessType
  <2>3. LiveOnlyInRun' /\ SuccessMeansSaved'
    BY <1>7 DEF Running, At, ProcessInv, LiveOnlyInRun, SuccessMeansSaved
  <2> QED
    BY <2>1, <2>2, <2>3 DEF ProcessInv
<1>8. CASE RunReturns \/ RunUnwinds
  <2>1. /\ mode' \in {"idle", "unwound", "dropped"}
        /\ UNCHANGED <<thread, poisoned>>
    BY <1>8 DEF RunReturns, RunUnwinds, GiveBack
  <2>2. ModeThread'
    BY <2>1 DEF ProcessInv, ModeThread
  <2>3. ProcessType'
    BY <1>8 DEF RunReturns, RunUnwinds, ProcessInv, ProcessType, Stages
  <2>4. NoneLive /\ NoneLive'
    BY <1>8, <2>1 DEF RunReturns, RunUnwinds, GiveBack, NoneLive
  <2>5. LiveOnlyInRun' /\ SuccessMeansSaved'
    BY <1>8, <2>4 DEF RunReturns, RunUnwinds, At, ProcessInv, LiveOnlyInRun,
                      SuccessMeansSaved
  <2> QED
    BY <2>2, <2>3, <2>5 DEF ProcessInv
<1>9. CASE Sigint \/ Ended
  <2>1. UNCHANGED <<contractVars, args, stage, saved, dropped>>
    BY <1>9 DEF Sigint, Ended, vars, contractVars
  <2>2. status' = "sigint" \/ status' = status
    BY <1>9 DEF Sigint, Ended, vars
  <2>3. ModeThread' /\ ProcessType'
    BY <2>1, <2>2 DEF ProcessInv, ModeThread, ProcessType, contractVars
  <2>4. LiveOnlyInRun' /\ SuccessMeansSaved'
    BY <2>1, <2>2 DEF ProcessInv, LiveOnlyInRun, SuccessMeansSaved, NoneLive,
                      contractVars
  <2> QED
    BY <2>3, <2>4 DEF ProcessInv
<1> QED
  BY <1>1, <1>2, <1>3, <1>4, <1>5, <1>6, <1>7, <1>8, <1>9 DEF Next

LEMMA NextIInv == IInv /\ [Next]_vars => IInv'
<1> SUFFICES ASSUME IInv, [Next]_vars PROVE IInv'
  OBVIOUS
<1>0. SetupInv /\ ProcessInv
  BY TypeParts DEF IInv, SetupInv, ProcessInv
<1>1. SetupInv' /\ ProcessInv' => IInv'
  BY DEF IInv, SetupInv, ProcessInv, TypeOK, ModeThread, SetupType, ProcessType
<1>2. CASE Next
  BY <1>0, <1>1, <1>2, SetupStep, ProcessStep
<1>3. CASE UNCHANGED vars
  BY <1>3 DEF vars, IInv, TypeOK, IrqsBelowNext, IrqsDistinct, LiveOnlyInRun,
              NoneLive, SuccessMeansSaved
<1> QED
  BY <1>2, <1>3

LEMMA InvariantIInv == Spec => []IInv
BY InitIInv, NextIInv, PTL DEF Spec

(* The state of main() and the machine keeps its type.                     *)
THEOREM TypeCorrect == Spec => []TypeOK
<1>1. IInv => TypeOK
  BY DEF IInv
<1> QED
  BY <1>1, InvariantIInv, PTL

(* allocate_irq never gives a number twice.                                *)
THEOREM DistinctIrqs == Spec => []IrqsDistinct
<1>1. IInv => IrqsDistinct
  BY DEF IInv
<1> QED
  BY <1>1, InvariantIInv, PTL

(* save_state and Drop never run beside a vCPU thread.                     *)
THEOREM OwnerAlone == Spec => []OwnerActsAlone
<1>1. IInv => OwnerActsAlone
  BY DEF IInv, LiveOnlyInRun, OwnerActsAlone
<1> QED
  BY <1>1, InvariantIInv, PTL

(* Exit status 0 means that the state asked for was saved.                 *)
THEOREM ExitStatusHonest == Spec => []SuccessMeansSaved
<1>1. IInv => SuccessMeansSaved
  BY DEF IInv
<1> QED
  BY <1>1, InvariantIInv, PTL

-----------------------------------------------------------------------------
(* Half a machine is never run.                                            *)

\* The devices that come before the shares.
FixedKinds ==
  <<"console">> \o (IF args.disk THEN <<"block">> ELSE <<>>)
    \o (IF args.net = "peer" THEN <<"net">> ELSE <<>>)

Wanted(k) == IF k <= Len(FixedKinds) THEN FixedKinds[k] ELSE "fs"

\* --disk is given.
HasDisk == args.disk = TRUE

\* Each attached device is the one the command line wants at its place, and
\* every stage of main() has as many as it should.
KindsInv ==
  /\ \A k \in DOMAIN devices : devices[k].kind = Wanted(k)
  /\ stage \in {"new", "console"} => Len(devices) = 0
  /\ stage = "block" => Len(devices) = 1
  /\ stage = "net" /\ HasDisk => Len(devices) = 2
  /\ stage = "net" /\ ~HasDisk => Len(devices) = 1
  /\ stage = "fs" =>
       Len(devices) \in Len(FixedKinds) .. (Len(FixedKinds) + args.shares)
  /\ stage \in {"restore", "kernel", "initKernel", "bootloader", "initBios",
                "run", "running"} =>
       Len(devices) = Len(FixedKinds) + args.shares

\* The groups gs of vCPU v are as Vcpu::init set them; its entry point,
\* segments and EFER are as the bootloader set them.
KernelSet(v, gs) == \A g \in gs : origin[v][g] = "kernel"
BiosSet(v) == \A g \in {"rip", "seg", "efer"} : origin[v][g] = "bios"

\* The loops over the vCPUs have reached `initialised`.
RegistersInv ==
  /\ stage = "initKernel" =>
       \A v \in Vcpus : v < initialised => KernelSet(v, BeforeMsrs)
  /\ stage = "bootloader" => \A v \in Vcpus : KernelSet(v, BeforeMsrs)
  /\ stage = "initBios" =>
       /\ args.bootloader
       /\ \A v \in Vcpus : /\ KernelSet(v, {"rsi", "tr", "fcw"})
                           /\ v < initialised => BiosSet(v)
  /\ stage \in {"run", "running"} => \A v \in Vcpus : Booted(v)

BootInv == KindsInv /\ RegistersInv

Kinds == {"console", "block", "net"}

(* One device, perhaps a second and perhaps a third.                       *)
LEMMA Joined ==
  ASSUME NEW S, NEW a, NEW b \in Seq(S), NEW c \in Seq(S), Len(b) <= 1,
         Len(c) <= 1, a \in S
  PROVE  /\ (<<a>> \o b) \o c \in Seq(S)
         /\ Len((<<a>> \o b) \o c) = 1 + Len(b) + Len(c)
         /\ ((<<a>> \o b) \o c)[1] = a
         /\ Len(b) = 1 => ((<<a>> \o b) \o c)[2] = b[1]
         /\ Len(c) = 1 => ((<<a>> \o b) \o c)[2 + Len(b)] = c[1]
<1> DEFINE ab == <<a>> \o b
<1>1. <<a>> \in Seq(S) /\ Len(<<a>>) = 1 /\ <<a>>[1] = a
  OBVIOUS
<1>2. /\ ab \in Seq(S) /\ Len(ab) = 1 + Len(b)
      /\ ab[1] = a
      /\ Len(b) = 1 => ab[2] = b[1]
  BY <1>1
<1> HIDE DEF ab
<1>3. /\ ab \o c \in Seq(S) /\ Len(ab \o c) = Len(ab) + Len(c)
      /\ \A k \in 1 .. Len(ab) + Len(c) :
              (ab \o c)[k] = IF k <= Len(ab) THEN ab[k] ELSE c[k - Len(ab)]
  BY <1>2
<1>4. Len(b) \in Nat /\ Len(c) \in Nat
  OBVIOUS
<1>5. /\ Len(ab \o c) = 1 + Len(b) + Len(c)
  BY <1>2, <1>3, <1>4
<1>6. (ab \o c)[1] = a
  BY <1>2, <1>3, <1>4
<1>7. Len(b) = 1 => (ab \o c)[2] = b[1]
  BY <1>2, <1>3, <1>4
<1>8. Len(c) = 1 => (ab \o c)[2 + Len(b)] = c[1]
  BY <1>2, <1>3, <1>4
<1> QED
  BY <1>3, <1>5, <1>6, <1>7, <1>8 DEF ab

\* A device that is attached or not makes a sequence of at most one kind.
LEMMA OneOrNone ==
  ASSUME NEW kind \in Kinds, NEW q \in {<<kind>>, <<>>}
  PROVE  q \in Seq(Kinds) /\ Len(q) <= 1
<1>1. CASE q = <<kind>>
  BY <1>1
<1>2. CASE q = <<>>
  BY <1>2
<1> QED
  BY <1>1, <1>2

LEMMA JoinedKinds ==
  ASSUME NEW d \in {<<"block">>, <<>>}, NEW n \in {<<"net">>, <<>>},
         NEW f, f = (<<"console">> \o d) \o n
  PROVE  /\ f \in Seq(Kinds) /\ f[1] = "console"
         /\ d = <<"block">> => f[2] = "block"
         /\ n = <<"net">> => f[Len(f)] = "net"
         /\ d = <<"block">> /\ n = <<"net">> => Len(f) = 3
         /\ d = <<"block">> /\ n = <<>> => Len(f) = 2
         /\ d = <<>> /\ n = <<"net">> => Len(f) = 2
         /\ d = <<>> /\ n = <<>> => Len(f) = 1
<1>1. /\ <<"block">> \in Seq(Kinds) /\ <<"net">> \in Seq(Kinds)
      /\ <<>> \in Seq(Kinds) /\ Len(<<>>) = 0
      /\ Len(<<"block">>) = 1 /\ <<"block">>[1] = "block"
      /\ Len(<<"net">>) = 1 /\ <<"net">>[1] = "net"
      /\ "console" \in Kinds
  BY DEF Kinds
<1>2. /\ d \in Seq(Kinds) /\ n \in Seq(Kinds) /\ Len(d) <= 1 /\ Len(n) <= 1
  <2>1. "block" \in Kinds /\ "net" \in Kinds
    BY DEF Kinds
  <2>2. d \in Seq(Kinds) /\ Len(d) <= 1
    BY <2>1, OneOrNone, Zenon
  <2>3. n \in Seq(Kinds) /\ Len(n) <= 1
    BY <2>1, OneOrNone, Zenon
  <2> QED
    BY <2>2, <2>3, Zenon
<1>3. /\ f \in Seq(Kinds) /\ Len(f) = 1 + Len(d) + Len(n)
      /\ f[1] = "console"
      /\ Len(d) = 1 => f[2] = d[1]
      /\ Len(n) = 1 => f[2 + Len(d)] = n[1]
  BY <1>1, <1>2, Joined
<1>4. /\ Len(n) = 1 => f[Len(f)] = n[1]
  BY <1>2, <1>3
<1> QED
  BY <1>1, <1>3, <1>4

LEMMA DiskAsked ==
  ASSUME args \in Args
  PROVE  args.disk <=> HasDisk
<1>1. args.disk \in BOOLEAN
  BY DEF Args
<1> QED
  BY <1>1, Zenon DEF HasDisk

LEMMA FixedFacts ==
  ASSUME args \in Args
  PROVE  /\ FixedKinds \in Seq(Kinds) /\ Len(FixedKinds) \in Nat
         /\ HasDisk /\ args.net = "peer" => Len(FixedKinds) = 3
         /\ HasDisk /\ args.net # "peer" => Len(FixedKinds) = 2
         /\ ~HasDisk /\ args.net = "peer" => Len(FixedKinds) = 2
         /\ ~HasDisk /\ args.net # "peer" => Len(FixedKinds) = 1
         /\ FixedKinds[1] = "console"
         /\ HasDisk => FixedKinds[2] = "block"
         /\ args.net = "peer" => FixedKinds[Len(FixedKinds)] = "net"
         /\ \A k \in 1 .. Len(FixedKinds) : FixedKinds[k] \in Kinds
         /\ args.shares \in Nat
<1>1. (args.disk <=> HasDisk) /\ args.shares \in Nat
  BY HypervisorAssumption, DiskAsked DEF Args
<1> DEFINE d == IF args.disk THEN <<"block">> ELSE <<>>
           n == IF args.net = "peer" THEN <<"net">> ELSE <<>>
<1>2. /\ d \in {<<"block">>, <<>>} /\ n \in {<<"net">>, <<>>}
      /\ HasDisk => d = <<"block">>
      /\ ~HasDisk => d = <<>>
      /\ args.net = "peer" => n = <<"net">>
      /\ args.net # "peer" => n = <<>>
  BY <1>1, Zenon
<1>3. FixedKinds = (<<"console">> \o d) \o n
  BY DEF FixedKinds
<1> HIDE DEF d, n
<1>4. /\ FixedKinds \in Seq(Kinds) /\ FixedKinds[1] = "console"
      /\ d = <<"block">> => FixedKinds[2] = "block"
      /\ n = <<"net">> => FixedKinds[Len(FixedKinds)] = "net"
      /\ d = <<"block">> /\ n = <<"net">> => Len(FixedKinds) = 3
      /\ d = <<"block">> /\ n = <<>> => Len(FixedKinds) = 2
      /\ d = <<>> /\ n = <<"net">> => Len(FixedKinds) = 2
      /\ d = <<>> /\ n = <<>> => Len(FixedKinds) = 1
  BY <1>2, <1>3, JoinedKinds, Zenon
<1>5. /\ Len(FixedKinds) \in Nat
      /\ \A k \in 1 .. Len(FixedKinds) : FixedKinds[k] \in Kinds
  BY <1>4
<1> QED
  BY <1>1, <1>2, <1>4, <1>5, Zenon

(* The devices attached for shares are those after the fixed ones.         *)
LEMMA SharesCounted ==
  ASSUME args \in Args, devices \in Seq(Device),
         \A k \in DOMAIN devices : devices[k].kind = Wanted(k),
         Len(devices) >= Len(FixedKinds)
  PROVE  SharesAttached = Len(devices) - Len(FixedKinds)
<1> DEFINE n == Len(FixedKinds)
           m == Len(devices)
<1>1. n \in Nat /\ m \in Nat /\ DOMAIN devices = 1 .. m
  BY FixedFacts
<1>2. \A k \in 1 .. m : devices[k].kind = "fs" <=> k > n
  <2>1. \A k \in 1 .. n : Wanted(k) # "fs"
    BY <1>1, FixedFacts DEF Wanted, Kinds
  <2>2. \A k \in 1 .. m : k > n => Wanted(k) = "fs"
    BY <1>1 DEF Wanted
  <2> HIDE DEF n, m
  <2> QED
    BY <1>1, <2>1, <2>2
<1>3. Cardinality((n + 1) .. m) = IF n + 1 > m THEN 0 ELSE m - (n + 1) + 1
  <2>1. n + 1 \in Int /\ m \in Int
    BY <1>1
  <2> HIDE DEF n, m
  <2> QED
    BY <2>1, FS_Interval
<1>4. m >= n
  OBVIOUS
<1>5. SharesAttached = Cardinality({k \in 1 .. m : devices[k].kind = "fs"})
  BY <1>1 DEF SharesAttached
<1> HIDE DEF n, m
<1>6. Cardinality((n + 1) .. m) = m - n
  BY <1>1, <1>3, <1>4
<1>7. {k \in 1 .. m : devices[k].kind = "fs"} = (n + 1) .. m
  BY <1>1, <1>2
<1>8. SharesAttached = m - n
  BY <1>5, <1>6, <1>7
<1> QED
  BY <1>8 DEF n, m

LEMMA SameArgs ==
  ASSUME Next
  PROVE  args' = args
<1>1. CASE \/ New \/ AddConsole \/ AddBlock \/ NoBlock \/ AddNet
           \/ NetNeedsPeer \/ NoNet \/ AddFs \/ AllShared
  BY <1>1 DEF New, AddConsole, AddBlock, NoBlock, AddNet, NetNeedsPeer, NoNet,
              AddFs, AllShared, Attach, Goto, Exit1, LeaveMain
<1>2. CASE \/ RestoreState \/ NoRestore \/ LoadKernel \/ InitVcpu
           \/ KernelReady \/ NoBootloader \/ LoadBootloader \/ InitRealMode
           \/ BootloaderReady
  BY <1>2 DEF RestoreState, NoRestore, LoadKernel, InitVcpu, KernelReady,
              NoBootloader, LoadBootloader, InitRealMode, BootloaderReady,
              Goto, Exit1, LeaveMain
<1>3. CASE \/ Run \/ Running \/ RunReturns \/ RunUnwinds \/ SaveState
           \/ Sigint \/ Ended
  BY <1>3 DEF Run, Running, RunReturns, RunUnwinds, SaveState, Sigint, Ended,
              LeaveMain, vars
<1> QED
  BY <1>1, <1>2, <1>3 DEF Next

(* A statement that attaches nothing and goes on to a stage that should    *)
(* have the devices there are.                                             *)
LEMMA KindsKept ==
  ASSUME KindsInv, UNCHANGED <<args, devices>>,
         \/ stage' = stage
         \/ stage' \in {"save", "end"}
         \/ stage = "new" /\ stage' = "console"
         \/ /\ stage \in {"restore", "kernel", "initKernel", "bootloader",
                          "initBios", "run", "running"}
            /\ stage' \in {"kernel", "initKernel", "bootloader", "initBios",
                           "run", "running"}
  PROVE  KindsInv'
<1>1. UNCHANGED FixedKinds /\ \A k : Wanted(k)' = Wanted(k)
  BY DEF FixedKinds, Wanted
<1>2. HasDisk' = HasDisk
  BY DEF HasDisk
<1> QED
  BY <1>1, <1>2 DEF KindsInv

(* A device is attached, and it is the one wanted.                         *)
LEMMA KindsGrow ==
  ASSUME KindsInv, devices \in Seq(Device), args' = args,
         NEW kind, NEW base, NEW next, Attach(kind, base, next),
         Wanted(Len(devices) + 1) = kind
  PROVE  /\ \A k \in DOMAIN devices' : devices'[k].kind = Wanted(k)'
         /\ \/ Len(devices') = Len(devices) + 1 /\ stage' = next
            \/ Len(devices') = Len(devices) /\ stage' = "end"
<1> DEFINE dev == [kind |-> kind, base_addr |-> base, irq |-> next_irq]
<1>1. \A k : Wanted(k)' = Wanted(k)
  BY DEF FixedKinds, Wanted
<1>2. CASE devices' = Append(devices, dev) /\ stage' = next
  <2>1. dev.kind = kind
    OBVIOUS
  <2> HIDE DEF dev
  <2>2. /\ Len(devices') = Len(devices) + 1
        /\ DOMAIN devices' = 1 .. Len(devices) + 1
        /\ \A k \in 1 .. Len(devices) : devices'[k] = devices[k]
        /\ devices'[Len(devices) + 1] = dev
        /\ DOMAIN devices = 1 .. Len(devices) /\ Len(devices) \in Nat
    BY <1>2
  <2>3. ASSUME NEW k \in DOMAIN devices'
        PROVE  devices'[k].kind = Wanted(k)
    <3>1. CASE k \in 1 .. Len(devices)
      BY <2>2, <3>1 DEF KindsInv
    <3>2. CASE k = Len(devices) + 1
      BY <2>1, <2>2, <3>2
    <3> QED
      BY <2>2, <3>1, <3>2
  <2> QED
    BY <1>1, <1>2, <2>2, <2>3
<1>3. CASE UNCHANGED devices /\ stage' = "end"
  BY <1>1, <1>3 DEF KindsInv
<1> QED
  BY <1>2, <1>3 DEF Attach, Goto, LeaveMain

LEMMA KindsStep ==
  ASSUME IInv, KindsInv, Next
  PROVE  KindsInv'
<1>1. /\ args \in Args /\ devices \in Seq(Device) /\ args' = args
      /\ args.shares \in Nat
  BY SameArgs, FixedFacts DEF IInv, TypeOK
<1>0. HasDisk' = HasDisk
  BY <1>1 DEF HasDisk
<1>2. Len(FixedKinds)' = Len(FixedKinds) /\ Len(devices) \in Nat
  BY <1>1 DEF FixedKinds
<1>3. CASE AddConsole
  BY <1>1, <1>2, <1>3, KindsGrow, FixedFacts
     DEF AddConsole, At, KindsInv, Wanted
<1>4. CASE AddBlock
  <2>1. At("block") /\ HasDisk /\ Attach("block", 8192, "net")
    <3>1. At("block") /\ Attach("block", 8192, "net")
      BY <1>4 DEF AddBlock
    <3>2. HasDisk
      BY <1>1, <1>4, DiskAsked DEF AddBlock
    <3> QED
      BY <3>1, <3>2
  <2>2. /\ Len(devices) = 1 /\ FixedKinds[2] = "block"
        /\ Len(FixedKinds) \in {2, 3}
    BY <1>1, <2>1, FixedFacts DEF At, KindsInv
  <2>3. Wanted(Len(devices) + 1) = "block"
    BY <2>2 DEF Wanted
  <2>4. /\ \A k \in DOMAIN devices' : devices'[k].kind = Wanted(k)'
        /\ \/ Len(devices') = Len(devices) + 1 /\ stage' = "net"
           \/ Len(devices') = Len(devices) /\ stage' = "end"
    BY <1>1, <2>1, <2>3, KindsGrow
  <2> QED
    BY <1>0, <1>1, <2>1, <2>2, <2>4 DEF KindsInv
<1>5. CASE AddNet
  <2>1. At("net") /\ args.net = "peer" /\ Attach("net", 12288, "fs")
    BY <1>5 DEF AddNet
  <2>2. Len(devices) + 1 = Len(FixedKinds)
    <3>1. \/ Len(devices) = 2 /\ Len(FixedKinds) = 3
          \/ Len(devices) = 1 /\ Len(FixedKinds) = 2
      BY <1>1, <2>1, FixedFacts DEF At, KindsInv
    <3>2. 2 + 1 = 3 /\ 1 + 1 = 2
      OBVIOUS
    <3> QED
      BY <3>1, <3>2, Zenon
  <2>3. Wanted(Len(devices) + 1) = "net"
    BY <1>1, <1>2, <2>1, <2>2, FixedFacts DEF Wanted
  <2>4. /\ \A k \in DOMAIN devices' : devices'[k].kind = Wanted(k)'
        /\ \/ Len(devices') = Len(devices) + 1 /\ stage' = "fs"
           \/ Len(devices') = Len(devices) /\ stage' = "end"
    BY <1>1, <2>1, <2>3, KindsGrow
  <2> QED
    BY <1>1, <1>2, <2>2, <2>4 DEF KindsInv
<1>6. CASE AddFs
  <2>1. /\ At("fs") /\ SharesAttached < args.shares
        /\ Attach("fs", 16384, "fs")
    BY <1>6 DEF AddFs
  <2>2. /\ Len(devices) >= Len(FixedKinds) /\ Len(FixedKinds) \in Nat
        /\ \A k \in DOMAIN devices : devices[k].kind = Wanted(k)
    BY <1>1, <2>1, FixedFacts DEF At, KindsInv
  <2>3. Len(devices) < Len(FixedKinds) + args.shares
    BY <1>1, <1>2, <2>1, <2>2, SharesCounted
  <2>4. Wanted(Len(devices) + 1) = "fs"
    BY <1>2, <2>2 DEF Wanted
  <2>5. /\ \A k \in DOMAIN devices' : devices'[k].kind = Wanted(k)'
        /\ \/ Len(devices') = Len(devices) + 1 /\ stage' = "fs"
           \/ Len(devices') = Len(devices) /\ stage' = "end"
    BY <1>1, <2>1, <2>4, KindsGrow
  <2> QED
    BY <1>1, <1>2, <2>2, <2>3, <2>5 DEF KindsInv
<1>7. CASE NoBlock \/ NoNet \/ AllShared
  <2>1. UNCHANGED devices /\ \A k : Wanted(k)' = Wanted(k)
    BY <1>1, <1>7
       DEF NoBlock, NoNet, AllShared, setupVars, Wanted, FixedKinds
  <2>2. CASE NoBlock
    <3>1. ~HasDisk
      BY <1>1, <2>2, DiskAsked DEF NoBlock
    <3> QED
      BY <1>0, <1>1, <2>1, <2>2, <3>1 DEF NoBlock, At, Goto, KindsInv
  <2>3. CASE NoNet
    <3>1. /\ stage = "net" /\ args.net # "peer" /\ stage' = "fs"
          /\ \A k \in DOMAIN devices : devices[k].kind = Wanted(k)
      BY <2>3 DEF NoNet, At, Goto, KindsInv
    <3>2. \/ Len(devices) = 2 /\ Len(FixedKinds) = 2
          \/ Len(devices) = 1 /\ Len(FixedKinds) = 1
      BY <1>1, <3>1, FixedFacts DEF KindsInv
    <3>3. Len(devices) \in
            Len(FixedKinds) .. (Len(FixedKinds) + args.shares)
      BY <1>1, <3>2
    <3> QED
      BY <1>1, <1>2, <2>1, <3>1, <3>3 DEF KindsInv
  <2>4. CASE AllShared
    <3>1. /\ Len(devices) >= Len(FixedKinds) /\ Len(FixedKinds) \in Nat
          /\ \A k \in DOMAIN devices : devices[k].kind = Wanted(k)
      BY <1>1, <2>4, FixedFacts DEF AllShared, At, KindsInv
    <3>2. Len(devices) = Len(FixedKinds) + args.shares
      BY <1>1, <1>2, <2>4, <3>1, SharesCounted DEF AllShared
    <3> QED
      BY <1>1, <1>2, <2>1, <2>4, <3>1, <3>2 DEF AllShared, Goto, KindsInv
  <2> QED
    BY <1>7, <2>2, <2>3, <2>4
<1>8. CASE \/ New \/ NetNeedsPeer \/ RestoreState \/ NoRestore
           \/ LoadKernel \/ InitVcpu \/ KernelReady \/ NoBootloader
           \/ LoadBootloader \/ InitRealMode \/ BootloaderReady
  BY <1>1, <1>8, KindsKept
     DEF New, NetNeedsPeer, RestoreState, NoRestore, LoadKernel, InitVcpu,
         KernelReady, NoBootloader, LoadBootloader, InitRealMode,
         BootloaderReady, At, Goto, Exit1, LeaveMain, setupVars
<1>9. CASE \/ Run \/ Running \/ RunReturns \/ RunUnwinds \/ SaveState
           \/ Sigint \/ Ended
  BY <1>1, <1>9, KindsKept
     DEF Run, Running, RunReturns, RunUnwinds, SaveState, Sigint, Ended, At,
         LeaveMain, setupVars, vars
<1> QED
  BY <1>3, <1>4, <1>5, <1>6, <1>7, <1>8, <1>9 DEF Next

-----------------------------------------------------------------------------
(* The registers of the vCPUs.                                             *)

(* The loader sets some groups of one vCPU and leaves the other vCPUs and  *)
(* the other groups alone.                                                 *)
LEMMA GroupsSet ==
  ASSUME origin \in [Vcpus -> [Groups -> Origins]],
         NEW v \in Vcpus, NEW gs, NEW from, SetGroups(v, gs, from),
         NEW w \in Vcpus, NEW g \in Groups
  PROVE  origin'[w][g] = IF w = v /\ g \in gs THEN from ELSE origin[w][g]
BY DEF SetGroups

LEMMA InitVcpuStep ==
  ASSUME IInv, RegistersInv, InitVcpu \/ InitRealMode
  PROVE  RegistersInv'
<1>1. /\ origin \in [Vcpus -> [Groups -> Origins]] /\ initialised \in Nat
      /\ initialised \in Vcpus /\ initialised' = initialised + 1
      /\ args' = args /\ \A v \in Vcpus : v \in Nat
  BY HypervisorAssumption
     DEF IInv, TypeOK, InitVcpu, InitRealMode, Goto, Exit1
<1>2. CASE stage' = "end"
  BY <1>2 DEF RegistersInv
<1>3. CASE InitVcpu /\ stage' # "end"
  <2>1. PICK gs : /\ BeforeMsrs \subseteq gs
                  /\ SetGroups(initialised, gs, "kernel")
    BY <1>3 DEF InitVcpu, Exit1
  <2>2. /\ BeforeMsrs \subseteq Groups /\ stage = "initKernel"
        /\ stage' = "initKernel"
    BY <1>3 DEF InitVcpu, At, Goto, Exit1, BeforeMsrs, Groups
  <2>3. \A w \in Vcpus : w < initialised + 1 =>
          KernelSet(w, BeforeMsrs)'
    BY <1>1, <2>1, <2>2, GroupsSet DEF RegistersInv, KernelSet
  <2> QED
    BY <1>1, <2>2, <2>3 DEF RegistersInv
<1>4. CASE InitRealMode /\ stage' # "end"
  <2>1. /\ SetGroups(initialised, {"rip", "seg", "efer"}, "bios")
        /\ stage = "initBios" /\ stage' = "initBios"
    BY <1>4 DEF InitRealMode, At, Goto, Exit1
  <2>2. /\ {"rip", "seg", "efer"} \subseteq Groups
        /\ {"rsi", "tr", "fcw"} \subseteq Groups
    BY DEF Groups
  <2>3. \A w \in Vcpus : KernelSet(w, {"rsi", "tr", "fcw"})'
    BY <1>1, <2>1, <2>2, GroupsSet DEF RegistersInv, KernelSet
  <2>4. \A w \in Vcpus : w < initialised + 1 => BiosSet(w)'
    BY <1>1, <2>1, <2>2, GroupsSet DEF RegistersInv, BiosSet
  <2>5. args'.bootloader
    BY <1>1, <2>1 DEF RegistersInv
  <2> QED
    BY <1>1, <2>1, <2>3, <2>4, <2>5 DEF RegistersInv
<1> QED
  BY <1>2, <1>3, <1>4

LEMMA RegistersStep ==
  ASSUME IInv, RegistersInv, Next
  PROVE  RegistersInv'
<1>1. args' = args /\ initialised \in 0 .. NumCpus
  BY SameArgs DEF IInv, TypeOK
<1>2. CASE InitVcpu \/ InitRealMode
  BY <1>2, InitVcpuStep
<1>3. CASE LoadKernel
  BY <1>3, HypervisorAssumption
     DEF LoadKernel, Goto, Exit1, LeaveMain, RegistersInv
<1>4. CASE KernelReady
  <2>1. \A v \in Vcpus : v < initialised
    BY <1>1, <1>4, HypervisorAssumption DEF KernelReady
  <2> QED
    BY <1>1, <1>4, <2>1
       DEF KernelReady, At, Goto, setupVars, RegistersInv, KernelSet
<1>5. CASE NoBootloader
  <2>1. ~args.bootloader /\ ~args'.bootloader
    BY <1>1, <1>5 DEF NoBootloader
  <2>2. \A v \in Vcpus : KernelSet(v, BeforeMsrs) /\ origin' = origin
    BY <1>5 DEF NoBootloader, At, setupVars, RegistersInv
  <2>3. \A v \in Vcpus : Booted(v)'
    BY <2>1, <2>2 DEF KernelSet, BeforeMsrs, Booted
  <2> QED
    BY <1>5, <2>3 DEF NoBootloader, Goto, RegistersInv
<1>6. CASE LoadBootloader
  <2>1. args'.bootloader
    BY <1>1, <1>6 DEF LoadBootloader
  <2>2. \A v \in Vcpus : KernelSet(v, {"rsi", "tr", "fcw"})'
    BY <1>6 DEF LoadBootloader, At, RegistersInv, KernelSet, BeforeMsrs
  <2>3. initialised' = 0 /\ \A v \in Vcpus : ~(v < 0)
    BY <1>6, HypervisorAssumption DEF LoadBootloader
  <2> QED
    BY <1>6, <2>1, <2>2, <2>3
       DEF LoadBootloader, Goto, Exit1, RegistersInv
<1>7. CASE BootloaderReady
  <2>1. \A v \in Vcpus : v < initialised
    BY <1>1, <1>7, HypervisorAssumption DEF BootloaderReady
  <2>2. args.bootloader /\ args'.bootloader
    BY <1>1, <1>7 DEF BootloaderReady, At, RegistersInv
  <2>3. \A v \in Vcpus : Booted(v)'
    BY <1>7, <2>1, <2>2
       DEF BootloaderReady, At, setupVars, RegistersInv, KernelSet, BiosSet,
           Booted
  <2> QED
    BY <1>7, <2>3 DEF BootloaderReady, Goto, RegistersInv
<1>8. CASE Run \/ Running \/ Sigint \/ Ended
  <2>1. /\ UNCHANGED <<origin, initialised>>
        /\ stage' = stage \/ (stage = "run" /\ stage' = "running")
    BY <1>8 DEF Run, Running, Sigint, Ended, At, setupVars, vars
  <2>2. \A v \in Vcpus : /\ \A gs : KernelSet(v, gs)' = KernelSet(v, gs)
                         /\ BiosSet(v)' = BiosSet(v)
                         /\ Booted(v)' = Booted(v)
    BY <1>1, <2>1 DEF KernelSet, BiosSet, Booted
  <2> QED
    BY <1>1, <2>1, <2>2 DEF RegistersInv
<1>9. CASE stage' \notin {"initKernel", "bootloader", "initBios", "run",
                         "running"}
  BY <1>9 DEF RegistersInv
<1>10. \/ InitVcpu \/ InitRealMode \/ LoadKernel \/ KernelReady
       \/ NoBootloader \/ LoadBootloader \/ BootloaderReady
       \/ Run \/ Running \/ Sigint \/ Ended
       \/ stage' \notin {"initKernel", "bootloader", "initBios", "run",
                         "running"}
  <2>1. CASE AddConsole \/ AddBlock \/ AddNet \/ AddFs
    BY <2>1 DEF AddConsole, AddBlock, AddNet, AddFs, Attach, Goto, LeaveMain
  <2>2. CASE \/ New \/ NoBlock \/ NetNeedsPeer \/ NoNet \/ AllShared
             \/ RestoreState \/ NoRestore
    BY <2>2 DEF New, NoBlock, NetNeedsPeer, NoNet, AllShared, RestoreState,
                NoRestore, Goto, Exit1, LeaveMain
  <2>3. CASE RunReturns \/ RunUnwinds \/ SaveState
    BY <2>3 DEF RunReturns, RunUnwinds, SaveState, LeaveMain
  <2> QED
    BY <2>1, <2>2, <2>3 DEF Next
<1> QED
  BY <1>2, <1>3, <1>4, <1>5, <1>6, <1>7, <1>8, <1>9, <1>10

LEMMA InitBoot == Init => BootInv
<1> SUFFICES ASSUME Init PROVE BootInv
  OBVIOUS
<1>1. devices = <<>> /\ DOMAIN devices = {} /\ stage = "new"
  BY DEF Init
<1>2. KindsInv
  BY <1>1 DEF KindsInv
<1>3. RegistersInv
  BY <1>1 DEF RegistersInv
<1> QED
  BY <1>2, <1>3 DEF BootInv

LEMMA NextBoot == IInv /\ BootInv /\ [Next]_vars => BootInv'
<1> SUFFICES ASSUME IInv, BootInv, [Next]_vars PROVE BootInv'
  OBVIOUS
<1>1. CASE Next
  BY <1>1, KindsStep, RegistersStep DEF BootInv
<1>2. CASE UNCHANGED vars
  <2>1. KindsInv'
    BY <1>2, KindsKept DEF vars, BootInv
  <2>2. RegistersInv'
    BY <1>2 DEF vars, BootInv, RegistersInv, KernelSet, BiosSet, Booted
  <2> QED
    BY <2>1, <2>2 DEF BootInv
<1> QED
  BY <1>1, <1>2

LEMMA ConcatenatedKinds ==
  ASSUME NEW S, NEW p \in Seq(S), NEW n \in Nat, NEW x
  PROVE  p \o [k \in 1 .. n |-> x]
           = [k \in 1 .. (Len(p) + n) |-> IF k <= Len(p) THEN p[k] ELSE x]
OBVIOUS

(* With all the shares attached, the devices are those of the command line *)
(* and in its order.                                                       *)
LEMMA AllKinds ==
  ASSUME args \in Args, devices \in Seq(Device), KindsInv, stage = "running"
  PROVE  [k \in DOMAIN devices |-> devices[k].kind] = RequestedKinds
<1>1. /\ FixedKinds \in Seq(Kinds) /\ args.shares \in Nat
  BY FixedFacts
<1>2. RequestedKinds
        = [k \in 1 .. (Len(FixedKinds) + args.shares) |-> Wanted(k)]
  <2>1. RequestedKinds = FixedKinds \o [k \in 1 .. args.shares |-> "fs"]
    BY DEF RequestedKinds, FixedKinds
  <2> QED
    BY <1>1, <2>1, ConcatenatedKinds DEF Wanted
<1>3. /\ DOMAIN devices = 1 .. (Len(FixedKinds) + args.shares)
      /\ \A k \in DOMAIN devices : devices[k].kind = Wanted(k)
  BY DEF KindsInv
<1> QED
  BY <1>2, <1>3

(* No vCPU thread is alive before the machine is as the command line asks: *)
(* each vCPU with what the right loaders set apart from MSRs, each device  *)
(* there.                                                                  *)
THEOREM BootedFirst == Spec => []BootedBeforeRun
<1>1. IInv /\ BootInv => BootedBeforeRun
  <2> SUFFICES ASSUME IInv, BootInv, NEW v \in Vcpus, thread[v] = "live"
               PROVE  /\ \A w \in Vcpus : Booted(w)
                      /\ [k \in DOMAIN devices |-> devices[k].kind]
                           = RequestedKinds
    BY DEF BootedBeforeRun
  <2>1. stage = "running"
    BY DEF IInv, LiveOnlyInRun, NoneLive
  <2> QED
    BY <2>1, AllKinds DEF IInv, TypeOK, BootInv, RegistersInv
<1> QED
  BY <1>1, InvariantIInv, InitBoot, NextBoot, PTL DEF Spec

-----------------------------------------------------------------------------
(* Where the devices are.                                                  *)

\* The address add_virtio_* gives a device of a kind.
Base(kind) ==
  CASE kind = "console" -> 4096
    [] kind = "block" -> 8192
    [] kind = "net" -> 12288
    [] kind = "fs" -> 16384

WindowInv ==
  /\ \A k \in DOMAIN devices : devices[k].base_addr = Base(devices[k].kind)
  /\ Len(devices) <= Len(FixedKinds) + args.shares

\* The devices have windows of their own exactly up to one --share.
OwnUpToOneShare ==
  /\ args.shares <= 1 => DevicesHaveOwnWindows
  /\ stage = "running" /\ args.shares > 1 => ~DevicesHaveOwnWindows

(* A command line asks for no kind twice, shares aside.                    *)
LEMMA FixedDistinct ==
  ASSUME args \in Args,
         NEW k \in 1 .. Len(FixedKinds), NEW l \in 1 .. Len(FixedKinds),
         FixedKinds[k] = FixedKinds[l]
  PROVE  k = l
<1> DEFINE n == Len(FixedKinds)
<1>1. n \in 1 .. 3 /\ FixedKinds[1] = "console"
  BY FixedFacts
<1>2. CASE n = 1
  BY <1>2
<1>3. CASE n = 2
  <2>1. FixedKinds[2] \in {"block", "net"}
    BY <1>3, FixedFacts
  <2> QED
    BY <1>1, <1>3, <2>1
<1>4. CASE n = 3
  <2>1. FixedKinds[2] = "block" /\ FixedKinds[3] = "net"
    BY <1>4, FixedFacts
  <2> QED
    BY <1>1, <1>4, <2>1
<1> QED
  BY <1>1, <1>2, <1>3, <1>4

(* Only four statements of main() attach devices.                          *)
LEMMA WhoAttaches ==
  ASSUME Next
  PROVE  \/ AddConsole \/ AddBlock \/ AddNet \/ AddFs
         \/ UNCHANGED devices
<1>1. CASE \/ New \/ NoBlock \/ NetNeedsPeer \/ NoNet \/ AllShared
           \/ RestoreState \/ NoRestore
  BY <1>1 DEF New, NoBlock, NetNeedsPeer, NoNet, AllShared, RestoreState,
              NoRestore, setupVars
<1>2. CASE \/ LoadKernel \/ LoadBootloader \/ InitVcpu \/ InitRealMode
  BY <1>2 DEF LoadKernel, LoadBootloader, InitVcpu, InitRealMode
<1>3. CASE \/ KernelReady \/ NoBootloader \/ BootloaderReady \/ Run
           \/ Running \/ RunReturns \/ RunUnwinds \/ SaveState \/ Sigint
           \/ Ended
  BY <1>3 DEF KernelReady, NoBootloader, BootloaderReady, Run, Running,
              RunReturns, RunUnwinds, SaveState, Sigint, Ended, vars,
              setupVars
<1> QED
  BY <1>1, <1>2, <1>3 DEF Next

(* The first half of WindowInv: what is attached is attached at its place. *)
LEMMA BasesStep ==
  ASSUME devices \in Seq(Device), WindowInv, Next
  PROVE  \A k \in DOMAIN devices' :
           devices'[k].base_addr = Base(devices'[k].kind)
<1>1. CASE UNCHANGED devices
  BY <1>1 DEF WindowInv
<1>2. ASSUME NEW kind, NEW base, NEW next, base = Base(kind),
             Attach(kind, base, next)
      PROVE  \A k \in DOMAIN devices' :
               devices'[k].base_addr = Base(devices'[k].kind)
  <2> DEFINE dev == [kind |-> kind, base_addr |-> base, irq |-> next_irq]
  <2>1. dev.base_addr = Base(dev.kind)
    BY <1>2
  <2>2. devices' = Append(devices, dev) \/ UNCHANGED devices
    BY <1>2 DEF Attach
  <2> SUFFICES ASSUME devices' = Append(devices, dev)
               PROVE  \A k \in DOMAIN devices' :
                        devices'[k].base_addr = Base(devices'[k].kind)
    BY <1>1, <2>2
  <2> HIDE DEF dev
  <2>3. /\ DOMAIN devices' = 1 .. Len(devices) + 1
        /\ \A k \in 1 .. Len(devices) : devices'[k] = devices[k]
        /\ devices'[Len(devices) + 1] = dev
        /\ DOMAIN devices = 1 .. Len(devices) /\ Len(devices) \in Nat
    OBVIOUS
  <2> SUFFICES ASSUME NEW k \in DOMAIN devices'
               PROVE  devices'[k].base_addr = Base(devices'[k].kind)
    OBVIOUS
  <2>4. CASE k \in 1 .. Len(devices)
    BY <2>3, <2>4 DEF WindowInv
  <2>5. CASE k = Len(devices) + 1
    BY <2>1, <2>3, <2>5
  <2> QED
    BY <2>3, <2>4, <2>5
<1>3. /\ Base("console") = 4096 /\ Base("block") = 8192
      /\ Base("net") = 12288 /\ Base("fs") = 16384
  BY DEF Base
<1>4. CASE AddConsole \/ AddBlock \/ AddNet \/ AddFs
  BY <1>2, <1>3, <1>4 DEF AddConsole, AddBlock, AddNet, AddFs
<1> QED
  BY <1>1, <1>4, WhoAttaches

LEMMA WindowStep ==
  ASSUME IInv, KindsInv, WindowInv, Next
  PROVE  WindowInv'
<1>1. /\ args \in Args /\ args' = args /\ devices \in Seq(Device)
      /\ KindsInv'
  BY SameArgs, KindsStep DEF IInv, TypeOK
<1>2. /\ Len(FixedKinds)' = Len(FixedKinds) /\ Len(FixedKinds) \in 1 .. 3
      /\ HasDisk => Len(FixedKinds) >= 2
      /\ HasDisk' = HasDisk /\ args.shares \in Nat
  BY <1>1, FixedFacts DEF FixedKinds, HasDisk
<1>3. \/ UNCHANGED devices
      \/ stage' \in {"block", "net", "fs"}
  BY WhoAttaches DEF AddConsole, AddBlock, AddNet, AddFs, Attach, Goto
<1>4. Len(devices') <= Len(FixedKinds) + args.shares
  <2>1. CASE UNCHANGED devices
    BY <2>1 DEF WindowInv
  <2>2. CASE stage' = "block"
    <3>1. Len(devices') = 1
      BY <1>1, <2>2, Zenon DEF KindsInv
    <3> QED
      BY <1>2, <3>1
  <2>3. CASE stage' = "net" /\ HasDisk
    <3>1. Len(devices') = 2 /\ Len(FixedKinds) >= 2
      BY <1>1, <1>2, <2>3, Zenon DEF KindsInv
    <3> QED
      BY <1>2, <3>1
  <2>4. CASE stage' = "net" /\ ~HasDisk
    <3>1. Len(devices') = 1
      BY <1>1, <1>2, <2>4, Zenon DEF KindsInv
    <3> QED
      BY <1>2, <3>1
  <2>5. CASE stage' = "fs"
    BY <1>1, <1>2, <2>5 DEF KindsInv
  <2> QED
    BY <1>3, <2>1, <2>2, <2>3, <2>4, <2>5
<1> QED
  BY <1>1, <1>2, <1>4, BasesStep DEF WindowInv

LEMMA WindowInvariant == Spec => [](IInv /\ BootInv /\ WindowInv)
<1>1. Init => WindowInv
  <2> SUFFICES ASSUME Init PROVE WindowInv
    OBVIOUS
  <2>1. devices = <<>> /\ DOMAIN devices = {} /\ Len(devices) = 0
    BY DEF Init
  <2>2. Len(FixedKinds) \in Nat /\ args.shares \in Nat
    BY FixedFacts DEF Init
  <2> QED
    BY <2>1, <2>2 DEF WindowInv
<1>2. IInv /\ BootInv /\ WindowInv /\ [Next]_vars => WindowInv'
  <2>1. ASSUME WindowInv, UNCHANGED vars PROVE WindowInv'
    BY <2>1 DEF WindowInv, FixedKinds, vars, setupVars
  <2> QED
    BY <2>1, WindowStep DEF BootInv
<1> QED
  BY <1>1, <1>2, InvariantIInv, InitBoot, NextBoot, PTL DEF Spec

LEMMA KindOfDevice ==
  ASSUME devices \in Seq(Device), NEW k \in DOMAIN devices
  PROVE  devices[k].kind \in {"console", "block", "net", "fs"}
<1>1. devices[k] \in Device
  OBVIOUS
<1>2. \A d \in Device : d.kind \in {"console", "block", "net", "fs"}
  BY DEF Device
<1> QED
  BY <1>1, <1>2

(* Two devices in one window are of one kind.                              *)
LEMMA OneWindowOneKind ==
  ASSUME devices \in Seq(Device), WindowInv,
         NEW k \in DOMAIN devices, NEW l \in DOMAIN devices
  PROVE  InWindow(devices[l], devices[k].base_addr)
           <=> devices[k].kind = devices[l].kind
<1>1. /\ devices[k].kind \in {"console", "block", "net", "fs"}
      /\ devices[l].kind \in {"console", "block", "net", "fs"}
  BY KindOfDevice
<1>2. /\ devices[k].base_addr = Base(devices[k].kind)
      /\ devices[l].base_addr = Base(devices[l].kind)
  BY DEF WindowInv
<1>3. /\ Base("console") = 4096 /\ Base("block") = 8192
      /\ Base("net") = 12288 /\ Base("fs") = 16384
  BY DEF Base
<1> QED
  BY <1>1, <1>2, <1>3 DEF InWindow, WindowSize

(* With up to one --share every device answers in a window of its own,     *)
(* whatever else the command line names; a machine that runs with two or   *)
(* more has two devices in one window.                                     *)
THEOREM SharesCollide == Spec => []OwnUpToOneShare
<1>1. ASSUME IInv, BootInv, WindowInv PROVE OwnUpToOneShare
  <2> DEFINE n == Len(FixedKinds)
             m == Len(devices)
  <2>1. /\ args \in Args /\ devices \in Seq(Device) /\ KindsInv
        /\ n \in Nat /\ args.shares \in Nat /\ m \in Nat
        /\ DOMAIN devices = 1 .. m /\ m <= n + args.shares
    BY <1>1, FixedFacts DEF IInv, TypeOK, BootInv, WindowInv
  <2>2. \A k, l \in DOMAIN devices :
          InWindow(devices[l], devices[k].base_addr) <=> Wanted(k) = Wanted(l)
    BY <1>1, <2>1, OneWindowOneKind DEF KindsInv
  <2>3. /\ \A k \in 1 .. n : Wanted(k) = FixedKinds[k] /\ Wanted(k) # "fs"
        /\ \A k \in 1 .. m : k > n => Wanted(k) = "fs"
    BY <2>1, FixedFacts DEF Wanted, Kinds
  <2>4. ASSUME args.shares <= 1, NEW k \in 1 .. m, NEW l \in 1 .. m,
               Wanted(k) = Wanted(l)
        PROVE  k = l
    <3>1. CASE k <= n /\ l <= n
      BY <2>1, <2>3, <2>4, <3>1, FixedDistinct
    <3>2. CASE k > n /\ l > n
      BY <2>1, <2>4, <3>2
    <3>3. ~(k <= n /\ l > n) /\ ~(k > n /\ l <= n)
      BY <2>1, <2>3, <2>4
    <3> QED
      BY <2>1, <3>1, <3>2, <3>3
  <2>5. args.shares <= 1 => DevicesHaveOwnWindows
    BY <2>1, <2>2, <2>4 DEF DevicesHaveOwnWindows
  <2>6. ASSUME stage = "running", args.shares > 1
        PROVE  ~DevicesHaveOwnWindows
    <3>1. m = n + args.shares
      BY <2>1, <2>6 DEF KindsInv
    <3> HIDE DEF n, m
    <3>2. n + 1 \in 1 .. m /\ n + 2 \in 1 .. m /\ n + 1 # n + 2
      BY <2>1, <2>6, <3>1
    <3>3. Wanted(n + 1) = Wanted(n + 2)
      BY <2>1, <2>3, <3>2
    <3> QED
      BY <2>1, <2>2, <3>2, <3>3 DEF DevicesHaveOwnWindows
  <2> QED
    BY <2>5, <2>6 DEF OwnUpToOneShare
<1> QED
  BY <1>1, WindowInvariant, PTL

(* The window of every device lies inside guest RAM, so that no access to  *)
(* it leaves KVM_RUN: what a run finds for one machine holds of all.       *)
THEOREM NoDeviceTraps ==
  Spec => [](\A k \in DOMAIN devices :
               devices[k].base_addr + WindowSize <= MEMORY_SIZE)
<1>1. ASSUME IInv, WindowInv, NEW k \in DOMAIN devices
      PROVE  devices[k].base_addr + WindowSize <= MEMORY_SIZE
  <2>1. /\ devices[k].kind \in {"console", "block", "net", "fs"}
        /\ devices[k].base_addr = Base(devices[k].kind)
    BY <1>1, KindOfDevice DEF IInv, TypeOK, WindowInv
  <2> QED
    BY <2>1 DEF Base, WindowSize, MEMORY_SIZE
<1>2. IInv /\ WindowInv =>
        \A k \in DOMAIN devices :
          devices[k].base_addr + WindowSize <= MEMORY_SIZE
  BY <1>1
<1> QED
  BY <1>2, WindowInvariant, PTL

-----------------------------------------------------------------------------
(* Ctrl+C.                                                                 *)

\* Drop runs only when main() returns or unwinds.
DropInv == status \in {"alive", "sigint"} => dropped = FALSE

LEMMA DropStep == ASSUME DropInv, Next PROVE DropInv'
<1>1. CASE status' \notin {"alive", "sigint"}
  BY <1>1 DEF DropInv
<1>2. CASE status \in {"alive", "sigint"} /\ UNCHANGED dropped
  BY <1>2 DEF DropInv
<1>3. CASE \/ New \/ NoBlock \/ NetNeedsPeer \/ NoNet \/ AllShared
           \/ RestoreState \/ NoRestore
  BY <1>1, <1>2, <1>3 DEF New, NoBlock, NetNeedsPeer, NoNet, AllShared,
     RestoreState, NoRestore, At, Goto, Exit1, LeaveMain
<1>4. CASE AddConsole \/ AddBlock \/ AddNet \/ AddFs
  BY <1>1, <1>2, <1>4 DEF AddConsole, AddBlock, AddNet, AddFs, Attach, At,
     Goto, LeaveMain
<1>5. CASE \/ LoadKernel \/ InitVcpu \/ KernelReady \/ NoBootloader
           \/ LoadBootloader \/ InitRealMode \/ BootloaderReady
  BY <1>1, <1>2, <1>5 DEF LoadKernel, InitVcpu, KernelReady, NoBootloader,
     LoadBootloader, InitRealMode, BootloaderReady, At, Goto, Exit1, LeaveMain
<1>6. CASE Run \/ Running \/ RunReturns \/ RunUnwinds
  BY <1>1, <1>2, <1>6 DEF Run, Running, RunReturns, RunUnwinds, At
<1>7. CASE SaveState \/ Sigint
  BY <1>1, <1>2, <1>7 DEF SaveState, Sigint, At, LeaveMain
<1>8. CASE Ended
  BY <1>8 DEF Ended, vars, DropInv
<1> QED
  BY <1>3, <1>4, <1>5, <1>6, <1>7, <1>8 DEF Next

(* A process ended by Ctrl+C has not dropped its VirtualMachine, at        *)
(* whatever stage of main() the signal came: no handler is installed.      *)
THEOREM CtrlCSkipsDrop == Spec => [](status = "sigint" => dropped = FALSE)
<1>1. Init => DropInv
  BY DEF Init, DropInv
<1>2. DropInv /\ [Next]_vars => DropInv'
  BY DropStep DEF DropInv, vars
<1>3. DropInv => (status = "sigint" => dropped = FALSE)
  BY DEF DropInv
<1> QED
  BY <1>1, <1>2, <1>3, PTL DEF Spec

=============================================================================
