------------------------------- MODULE VmRun -------------------------------
(***************************************************************************)
(* VirtualMachine::run, stop and drop (vm.rs), with the exits of Vcpu::run *)
(* (vcpu.rs) that decide what a vCPU thread does next.                     *)
(*                                                                         *)
(* run() spawns one scoped thread per vCPU and polls, in the calling       *)
(* thread, for an error.  A vCPU thread tests two atomic flags, polls its  *)
(* control channel, enters the guest with KVM_RUN and handles the exit.    *)
(* Every atomic load, store, channel operation, lock acquisition and       *)
(* KVM_RUN is a step of its own, so the threads interleave here as they do *)
(* in the program.                                                         *)
(***************************************************************************)
EXTENDS Naturals, Sequences

CONSTANTS
  NumCpus,   \* num_cpus: the --cpus argument, 0 included (it is not validated)
  MaxRuns    \* bound: how often the owner of the VirtualMachine calls run()

ASSUME NumCpusAssumption == NumCpus \in Nat
ASSUME MaxRunsAssumption == MaxRuns \in Nat

Vcpus == 0 .. (NumCpus - 1)

VARIABLES
  mainPc,          \* where the thread that owns the VirtualMachine is
  unwinding,       \* the scope closure of run() panicked (a spawn failed)
  spawned,         \* vCPU threads spawned so far by this run()
  runs,            \* calls of run() so far
  running,         \* the AtomicBool of the VirtualMachine
  error_occurred,  \* the AtomicBool of this run()
  error_rx,        \* vCPUs whose error message is in the error channel
  message_rx,      \* control channel of each vCPU thread
  pc,              \* where each vCPU thread is
  lateEntries      \* history: guest entries of a vCPU since error_occurred

mainVars == <<mainPc, unwinding, spawned, runs>>
vars == <<mainPc, unwinding, spawned, runs, running, error_occurred,
          error_rx, message_rx, pc, lateEntries>>

\* "idle": run() is not active; "spawn": the for loop that spawns threads;
\* "recv", "checkError", "checkRunning": the three tests of the monitor loop;
\* "join": the end of the scope; "unwound": run() panicked to its caller.
MainPc == {"idle", "spawn", "recv", "checkError", "checkRunning", "join",
           "unwound", "dropped"}

\* "none": not spawned in this run(); "lock": waits for the devices mutex;
\* "dispatch": holds it; "send" and "flag": the two steps of the error path.
VcpuPc == {"none", "checkRunning", "checkError", "poll", "guest", "lock",
           "dispatch", "send", "flag", "exited", "panicked"}

Message == {"Stop", "SnapshotRequest"}

Gone == {"none", "exited", "panicked"}

TypeOK ==
  /\ mainPc \in MainPc
  /\ unwinding \in BOOLEAN
  /\ spawned \in 0 .. NumCpus
  /\ runs \in 0 .. MaxRuns
  /\ running \in BOOLEAN
  /\ error_occurred \in BOOLEAN
  /\ error_rx \in SUBSET Vcpus
  /\ message_rx \in [Vcpus -> Seq(Message)]
  /\ pc \in [Vcpus -> VcpuPc]
  /\ lateEntries \in [Vcpus -> Nat]

\* VirtualMachine::new: nothing runs and no channel exists.
Init ==
  /\ mainPc = "idle"
  /\ unwinding = FALSE
  /\ spawned = 0
  /\ runs = 0
  /\ running = FALSE
  /\ error_occurred = FALSE
  /\ error_rx = {}
  /\ message_rx = [v \in Vcpus |-> <<>>]
  /\ pc = [v \in Vcpus |-> "none"]
  /\ lateEntries = [v \in Vcpus |-> 0]

-----------------------------------------------------------------------------
(* The calling thread.                                                     *)

\* run() up to the scope: set running, make fresh error and control channels.
BeginRun(flag) ==
  /\ mainPc = "idle" /\ runs < MaxRuns
  /\ mainPc' = "spawn"
  /\ spawned' = 0
  /\ runs' = runs + 1
  /\ running' = TRUE
  /\ error_occurred' = flag
  /\ error_rx' = {}
  /\ message_rx' = [v \in Vcpus |-> <<>>]
  /\ pc' = [v \in Vcpus |-> "none"]
  /\ lateEntries' = [v \in Vcpus |-> 0]
  /\ UNCHANGED unwinding

MutStartRunKeepsFlag == BeginRun(error_occurred)

\* AtomicBool::new(false): the error flag is fresh too.
StartRun == BeginRun(FALSE)

MutSpawnOneTooMany ==
  /\ mainPc = "spawn" /\ spawned <= NumCpus
  /\ pc' = [pc EXCEPT ![spawned] = "checkRunning"]
  /\ spawned' = spawned + 1
  /\ UNCHANGED <<mainPc, unwinding, runs, running, error_occurred, error_rx,
                 message_rx, lateEntries>>

\* One iteration of the spawning loop; the threads already spawned run.
Spawn ==
  /\ mainPc = "spawn" /\ spawned < NumCpus
  /\ pc' = [pc EXCEPT ![spawned] = "checkRunning"]
  /\ spawned' = spawned + 1
  /\ UNCHANGED <<mainPc, unwinding, runs, running, error_occurred, error_rx,
                 message_rx, lateEntries>>

\* Scope::spawn panics when the host refuses a thread; the scope then waits
\* for the threads that exist before it lets the panic go on.
SpawnFails ==
  /\ mainPc = "spawn" /\ spawned < NumCpus
  /\ mainPc' = "join"
  /\ unwinding' = TRUE
  /\ UNCHANGED <<spawned, runs, running, error_occurred, error_rx,
                 message_rx, pc, lateEntries>>

AllSpawned ==
  /\ mainPc = "spawn" /\ spawned = NumCpus
  /\ mainPc' = "recv"
  /\ UNCHANGED <<unwinding, spawned, runs, running, error_occurred, error_rx,
                 message_rx, pc, lateEntries>>

MutMonitorRecvKeepsRunning ==
  /\ mainPc = "recv"
  /\ \/ error_rx = {} /\ mainPc' = "checkError" /\ UNCHANGED error_rx
     \/ \E v \in error_rx : error_rx' = error_rx \ {v} /\ mainPc' = "join"
  /\ UNCHANGED <<unwinding, spawned, runs, running, error_occurred,
                 message_rx, pc, lateEntries>>

\* error_rx.try_recv(): an error message ends the loop.
MonitorRecv ==
  /\ mainPc = "recv"
  /\ \/ /\ error_rx = {}
        /\ mainPc' = "checkError"
        /\ UNCHANGED <<error_rx, running>>
     \/ \E v \in error_rx :
          /\ error_rx' = error_rx \ {v}
          /\ running' = FALSE
          /\ mainPc' = "join"
  /\ UNCHANGED <<unwinding, spawned, runs, error_occurred, message_rx, pc,
                 lateEntries>>

\* error_occurred.load(): the error that is flagged ends the loop.
MonitorCheckError ==
  /\ mainPc = "checkError"
  /\ \/ ~error_occurred /\ mainPc' = "checkRunning" /\ UNCHANGED running
     \/ error_occurred /\ running' = FALSE /\ mainPc' = "join"
  /\ UNCHANGED <<unwinding, spawned, runs, error_occurred, error_rx,
                 message_rx, pc, lateEntries>>

\* running.load(): a cleared flag ends the loop, else sleep and start over.
MonitorCheckRunning ==
  /\ mainPc = "checkRunning"
  /\ mainPc' = IF running THEN "recv" ELSE "join"
  /\ UNCHANGED <<unwinding, spawned, runs, running, error_occurred, error_rx,
                 message_rx, pc, lateEntries>>

\* VirtualMachine::stop.  A send to a channel whose receiver is gone fails,
\* and the result is ignored.
stop ==
  /\ running' = FALSE
  /\ message_rx' =
       [v \in Vcpus |-> IF running /\ pc[v] \notin Gone
                          THEN Append(message_rx[v], "Stop")
                          ELSE message_rx[v]]

\* stop(), after which its caller is at l.
StopThen(l) ==
  /\ stop
  /\ mainPc' = l
  /\ UNCHANGED <<unwinding, spawned, runs, error_occurred, error_rx, pc,
                 lateEntries>>

AllGone == \A v \in Vcpus : pc[v] \in Gone
SomePanicked == \E v \in Vcpus : pc[v] = "panicked"

MutReturnBeforeJoin ==
  /\ mainPc = "join" /\ ~unwinding /\ ~SomePanicked
  /\ StopThen("idle")

\* The scope has joined every thread and none panicked: stop(), Ok(()).
Return ==
  /\ mainPc = "join" /\ AllGone /\ ~unwinding /\ ~SomePanicked
  /\ StopThen("idle")

\* The scope has joined every thread and re-raises a panic: neither stop()
\* nor anything after it is reached.
Unwind ==
  /\ mainPc = "join" /\ AllGone /\ (unwinding \/ SomePanicked)
  /\ mainPc' = "unwound"
  /\ UNCHANGED <<unwinding, spawned, runs, running, error_occurred, error_rx,
                 message_rx, pc, lateEntries>>

\* Drop for VirtualMachine: stop() when running is still set.  (Shutting the
\* devices down is the default no-op of every device.)
Drop ==
  /\ mainPc \in {"idle", "unwound"}
  /\ StopThen("dropped")

-----------------------------------------------------------------------------
(* The thread of vCPU v.                                                   *)

Goto(v, l) == pc' = [pc EXCEPT ![v] = l]

\* A step that only takes the thread from one place to another.
Move(v, from, to) ==
  /\ pc[v] = from
  /\ Goto(v, to)
  /\ UNCHANGED <<mainVars, running, error_occurred, error_rx, message_rx,
                 lateEntries>>

\* First operand of the while condition: running.load().
CheckRunning(v) ==
  Move(v, "checkRunning", IF running THEN "checkError" ELSE "exited")

MutCheckErrorIgnored(v) == Move(v, "checkError", "poll")

MutCheckErrorContinues(v) ==
  Move(v, "checkError", IF error_occurred THEN "checkRunning" ELSE "poll")

\* Second operand of the while condition: !error_occurred.load().
CheckError(v) ==
  Move(v, "checkError", IF error_occurred THEN "exited" ELSE "poll")

\* message_rx.try_recv(): Stop leaves the loop, a snapshot request is
\* answered with an error and the loop goes on, no message enters the guest.
Poll(v) ==
  /\ pc[v] = "poll"
  /\ IF message_rx[v] = <<>>
       THEN /\ Goto(v, "guest")
            /\ lateEntries' = IF error_occurred
                                 THEN [lateEntries EXCEPT ![v] = @ + 1]
                                 ELSE lateEntries
            /\ UNCHANGED message_rx
       ELSE /\ Goto(v, IF Head(message_rx[v]) = "Stop" THEN "exited"
                                                       ELSE "checkRunning")
            /\ message_rx' = [message_rx EXCEPT ![v] = Tail(@)]
            /\ UNCHANGED lateEntries
  /\ UNCHANGED <<mainVars, running, error_occurred, error_rx>>

\* Port I/O and every exit that is only logged (halt and shutdown included):
\* the loop starts over.
ExitHandled(v) == Move(v, "guest", "checkRunning")

\* MmioRead, MmioWrite: the thread goes for the devices mutex.
ExitMmio(v) == Move(v, "guest", "lock")

\* KVM_RUN fails, or get_regs does after an exit that is only logged.
ExitError(v) == Move(v, "guest", "send")

\* A byte for port 0x3F8 that stdout refuses: unwrap() panics.
ExitPanics(v) == Move(v, "guest", "panicked")

\* devices.lock(): granted when no other thread dispatches.
LockDevices(v) ==
  Move(v, "lock", "dispatch") /\ \A u \in Vcpus : pc[u] # "dispatch"

\* Every device whose window holds the address is served, then the lock is
\* dropped and the loop starts over.
Dispatch(v) == Move(v, "dispatch", "checkRunning")

\* error_tx.send(Some(e)).
SendError(v) ==
  /\ pc[v] = "send"
  /\ error_rx' = error_rx \cup {v}
  /\ Goto(v, "flag")
  /\ UNCHANGED <<mainVars, running, error_occurred, message_rx, lateEntries>>

MutFlagErrorForgotten(v) == Move(v, "flag", "exited")

\* error_occurred.store(true); break.
FlagError(v) ==
  /\ pc[v] = "flag"
  /\ error_occurred' = TRUE
  /\ Goto(v, "exited")
  /\ UNCHANGED <<mainVars, running, error_rx, message_rx, lateEntries>>

-----------------------------------------------------------------------------
\* Steps the host takes by itself once run() has been called.
MainStep ==
  \/ Spawn \/ AllSpawned
  \/ MonitorRecv \/ MonitorCheckError \/ MonitorCheckRunning
  \/ Return \/ Unwind

\* Steps of a vCPU thread that run on the host.
VcpuStep(v) ==
  \/ CheckRunning(v) \/ CheckError(v) \/ Poll(v)
  \/ LockDevices(v) \/ Dispatch(v)
  \/ SendError(v) \/ FlagError(v)

\* How KVM_RUN comes back is up to the guest and the kernel.
GuestExit(v) ==
  ExitHandled(v) \/ ExitMmio(v) \/ ExitError(v) \/ ExitPanics(v)

Dropped == mainPc = "dropped" /\ UNCHANGED vars

Next ==
  \/ StartRun \/ SpawnFails \/ Drop \/ Dropped
  \/ MainStep
  \/ \E v \in Vcpus : VcpuStep(v) \/ GuestExit(v)

SafetySpec == Init /\ [][Next]_vars

\* The host schedules every runnable thread.  Nothing makes the guest leave
\* KVM_RUN: the code sends no signal to a vCPU thread.
Fairness ==
  /\ WF_vars(MainStep)
  /\ \A v \in Vcpus : WF_vars(VcpuStep(v))

Spec == SafetySpec /\ Fairness

-----------------------------------------------------------------------------
(* Safety.                                                                 *)

\* Whenever the owner of the VirtualMachine has control (before run(), after
\* it returned or unwound, in Drop) no vCPU thread exists.  vm.rs promises
\* that "all threads are guaranteed to exit before `scope` returns";
\* save_state, restore_state and Drop rely on it when they touch the vCPUs.
QuiescentOutsideRun ==
  mainPc \in {"idle", "unwound", "dropped"} => AllGone

\* run() returns normally only if a vCPU failed in this very call: it never
\* stops spontaneously, nor because of an error left from an earlier call,
\* although the monitor may act on the message before the flag is up.
\* Until then a vCPU thread leaves its loop for no other reason: the failed
\* one has flagged the error or is just about to.
RunEndsOnlyOnError ==
  /\ mainPc = "idle" /\ runs > 0 => error_occurred
  /\ (\E v \in Vcpus : pc[v] = "exited")
       => error_occurred \/ \E u \in Vcpus : pc[u] = "flag"

\* Once error_occurred is up, a vCPU enters the guest at most once more: the
\* entry of a thread that had already tested the flags.
OneLateEntry == \A v \in Vcpus : lateEntries[v] <= 1

-----------------------------------------------------------------------------
(* Liveness.                                                               *)

InRun == mainPc \notin {"idle", "unwound", "dropped"}

\* The environment's part: no vCPU stays inside KVM_RUN for ever.
GuestsKeepExiting == \A v \in Vcpus : []<>(pc[v] # "guest")

\* If every KVM_RUN comes back, an error on one vCPU ends run(): every other
\* thread sees the flag, waits for no lock for ever, and is joined.
ErrorEndsRun == GuestsKeepExiting => (error_occurred ~> ~InRun)

\* The monitor loop clears running after an error whatever the guests do;
\* the exception is a run() whose spawning loop panicked, which has no
\* monitor.
MonitorNotices == error_occurred ~> (~running \/ unwinding)

\* vm.rs says of the error path "Report error and signal other threads to
\* stop": an error on one vCPU ends run(), with no help from the guests.
ErrorStopsVm == error_occurred ~> ~InRun

\* vm.rs says that "the main thread monitors for errors": a run() left with
\* no vCPU thread, though it had some, comes to an end.
DeadVcpusEndRun == (InRun /\ spawned = NumCpus /\ AllGone) ~> ~InRun

-----------------------------------------------------------------------------
(* Refinement: run() keeps the contract its callers rely on.               *)

Stopping == error_occurred \/ unwinding \/ \E v \in Vcpus : pc[v] = "flag"

mode == IF ~InRun THEN mainPc ELSE IF Stopping THEN "stopping" ELSE "running"

thread == [v \in Vcpus |-> CASE pc[v] = "none" -> "out"
                             [] pc[v] \in {"exited", "panicked"} -> "left"
                             [] OTHER -> "live"]

poisoned == unwinding \/ SomePanicked

Contract == INSTANCE RunContract WITH
  Vcpus <- Vcpus, mode <- mode, thread <- thread, poisoned <- poisoned

\* Every step of the threads of run() is a step of the contract or none.
KeepsContract == Contract!ContractSpec

=============================================================================
