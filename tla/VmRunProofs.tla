---------------------------- MODULE VmRunProofs ----------------------------
(***************************************************************************)
(* Proofs about VmRun for every number of vCPUs and of calls of run().     *)
(***************************************************************************)
EXTENDS VmRun, TLAPS

-----------------------------------------------------------------------------
(* The inductive invariant, in parts.                                      *)

\* Threads are spawned in order: the ones not reached yet do not exist.
SpawnOrder == \A v \in Vcpus : v >= spawned => pc[v] = "none"

\* stop() never reaches a live thread, so no control channel holds a message.
ChannelsEmpty == \A v \in Vcpus : message_rx[v] = <<>>

\* Some vCPU failed in this run: it has flagged the error or is about to.
Failed == error_occurred \/ \E u \in Vcpus : pc[u] = "flag"

\* Whatever makes a thread or the monitor leave goes back to a failed vCPU.
LeaveReason ==
  /\ InRun /\ ~running => Failed
  /\ error_rx # {} => Failed
  /\ (\E v \in Vcpus : pc[v] = "exited") => Failed
  /\ mainPc = "join" /\ ~unwinding => Failed

\* A panicking scope closure is past its monitor loop, and run() cannot
\* return normally once anything panicked.
PanicPath ==
  /\ unwinding => mainPc \in {"join", "unwound", "dropped"}
  /\ mainPc = "idle" => ~unwinding /\ ~SomePanicked

\* A thread that has yet to enter the guest after testing the flags has not
\* entered since the error was flagged.
LateEntries ==
  \A v \in Vcpus : /\ lateEntries[v] <= 1
                   /\ pc[v] = "poll" \/ ~error_occurred => lateEntries[v] = 0

\* The flag goes up only in a thread that then leaves its loop.
FlagOwner == error_occurred => \E v \in Vcpus : pc[v] = "exited"

\* The devices mutex: one thread at a time dispatches.
DispatchAlone ==
  \A u, v \in Vcpus : pc[u] = "dispatch" /\ pc[v] = "dispatch" => u = v

\* A run() that has returned leaves the flag up.
FlagStays == mainPc = "idle" /\ runs > 0 => error_occurred

IInv ==
  /\ TypeOK
  /\ SpawnOrder
  /\ ChannelsEmpty
  /\ QuiescentOutsideRun
  /\ LeaveReason
  /\ PanicPath
  /\ FlagStays
  /\ LateEntries
  /\ FlagOwner
  /\ DispatchAlone

-----------------------------------------------------------------------------
(* Control channels carry sequences of messages.                           *)
LEMMA NoMessages == [v \in Vcpus |-> <<>>] \in [Vcpus -> Seq(Message)]
<1>1. <<>> \in Seq(Message)
  OBVIOUS
<1> QED
  BY <1>1

(* stop() appends messages and leaves running a Boolean.                   *)
LEMMA StopTypes ==
  ASSUME TypeOK, stop
  PROVE  running' \in BOOLEAN /\ message_rx' \in [Vcpus -> Seq(Message)]
<1>1. ASSUME NEW v \in Vcpus
      PROVE  Append(message_rx[v], "Stop") \in Seq(Message)
  BY DEF TypeOK, Message
<1> QED
  BY <1>1 DEF TypeOK, stop

(* Taking a message leaves a sequence of messages.                         *)
LEMMA TailTypes ==
  ASSUME TypeOK, NEW v \in Vcpus, message_rx[v] # <<>>
  PROVE  Tail(message_rx[v]) \in Seq(Message)
BY DEF TypeOK

-----------------------------------------------------------------------------
(* Every variable keeps its type.                                          *)
LEMMA NextTypeOK == TypeOK /\ [Next]_vars => TypeOK'
<1> USE NumCpusAssumption, MaxRunsAssumption DEF TypeOK, MainPc, VcpuPc
<1> SUFFICES ASSUME TypeOK, [Next]_vars PROVE TypeOK'
  OBVIOUS
<1>1. CASE StartRun
  <2>1. running' \in BOOLEAN /\ error_occurred' \in BOOLEAN
    BY <1>1 DEF StartRun, BeginRun
  <2>2. runs' \in 0 .. MaxRuns
    BY <1>1 DEF StartRun, BeginRun
  <2> QED
    BY <1>1, <2>1, <2>2, NoMessages DEF StartRun, BeginRun
<1>2. CASE Spawn
  BY <1>2 DEF Spawn, Vcpus
<1>3. CASE SpawnFails
  BY <1>3 DEF SpawnFails
<1>4. CASE AllSpawned
  BY <1>4 DEF AllSpawned
<1>5. CASE MonitorRecv
  <2>1. running' \in BOOLEAN
    BY <1>5 DEF MonitorRecv
  <2> QED
    BY <1>5, <2>1 DEF MonitorRecv
<1>6. CASE MonitorCheckError
  <2>1. running' \in BOOLEAN
    BY <1>6 DEF MonitorCheckError
  <2> QED
    BY <1>6, <2>1 DEF MonitorCheckError
<1>7. CASE MonitorCheckRunning
  BY <1>7 DEF MonitorCheckRunning
<1>8. CASE Return
  BY <1>8, StopTypes DEF Return, StopThen
<1>9. CASE Unwind
  BY <1>9 DEF Unwind
<1>10. CASE Drop
  BY <1>10, StopTypes DEF Drop, StopThen
<1>11. ASSUME NEW v \in Vcpus, VcpuStep(v) \/ GuestExit(v) PROVE TypeOK'
  <2>1. CASE CheckRunning(v)
    BY <2>1 DEF CheckRunning, Move, mainVars, Goto
  <2>2. CASE CheckError(v)
    BY <2>2 DEF CheckError, Move, mainVars, Goto
  <2>3. CASE Poll(v)
    <3>1. CASE message_rx[v] = <<>>
      <4>1. lateEntries' \in [Vcpus -> Nat]
        <5>1. CASE error_occurred
          <6>1. lateEntries' = [lateEntries EXCEPT ![v] = lateEntries[v] + 1]
            BY <2>3, <3>1, <5>1 DEF Poll
          <6>2. lateEntries[v] + 1 \in Nat
            OBVIOUS
          <6> QED
            BY <6>1, <6>2
        <5>2. CASE ~error_occurred
          BY <2>3, <3>1, <5>2 DEF Poll
        <5> QED
          BY <5>1, <5>2
      <4> QED
        BY <2>3, <3>1, <4>1 DEF Poll, mainVars, Goto
    <3>2. CASE message_rx[v] # <<>>
      <4>1. message_rx' \in [Vcpus -> Seq(Message)]
        BY <2>3, <3>2, TailTypes DEF Poll
      <4> QED
        BY <2>3, <3>2, <4>1 DEF Poll, mainVars, Goto
    <3> QED
      BY <3>1, <3>2
  <2>4. CASE ExitHandled(v)
    BY <2>4 DEF ExitHandled, mainVars, Goto, Move
  <2>5. CASE ExitMmio(v)
    BY <2>5 DEF ExitMmio, mainVars, Goto, Move
  <2>6. CASE ExitError(v)
    BY <2>6 DEF ExitError, mainVars, Goto, Move
  <2>7. CASE ExitPanics(v)
    BY <2>7 DEF ExitPanics, mainVars, Goto, Move
  <2>8. CASE LockDevices(v)
    BY <2>8 DEF LockDevices, Move, mainVars, Goto
  <2>9. CASE Dispatch(v)
    BY <2>9 DEF Dispatch, Move, mainVars, Goto
  <2>10. CASE SendError(v)
    BY <2>10 DEF SendError, mainVars, Goto
  <2>11. CASE FlagError(v)
    BY <2>11 DEF FlagError, mainVars, Goto
  <2> QED
    BY <1>11, <2>1, <2>2, <2>3, <2>4, <2>5, <2>6, <2>7, <2>8, <2>9, <2>10,
       <2>11 DEF VcpuStep, GuestExit
<1>12. CASE UNCHANGED vars
  BY <1>12 DEF vars
<1> QED
  BY <1>1, <1>2, <1>3, <1>4, <1>5, <1>6, <1>7, <1>8, <1>9, <1>10, <1>11, <1>12
     DEF Next, MainStep, Dropped

-----------------------------------------------------------------------------
(* The invariant holds initially.                                          *)
LEMMA InitIInv == Init => IInv
<1> SUFFICES ASSUME Init PROVE IInv
  OBVIOUS
<1>1. TypeOK
  <2>1. running \in BOOLEAN /\ error_occurred \in BOOLEAN /\ unwinding \in
  BOOLEAN
    BY DEF Init
  <2> QED
    BY <2>1, NumCpusAssumption, MaxRunsAssumption, NoMessages
       DEF Init, TypeOK, MainPc, VcpuPc
<1> QED
  BY <1>1 DEF Init, IInv, SpawnOrder, ChannelsEmpty, QuiescentOutsideRun,
       LeaveReason, PanicPath, FlagStays, LateEntries, FlagOwner,
       DispatchAlone, InRun, AllGone, Gone, SomePanicked, Failed

(* Every step of every thread preserves it.                                *)
LEMMA NextIInv == IInv /\ [Next]_vars => IInv'
<1> SUFFICES ASSUME IInv, [Next]_vars PROVE IInv'
  OBVIOUS
<1> TypeOK /\ TypeOK'
  BY NextTypeOK DEF IInv
<1> USE DEF IInv, SpawnOrder, ChannelsEmpty, QuiescentOutsideRun, LeaveReason,
            PanicPath, FlagStays, LateEntries, FlagOwner,
            DispatchAlone, InRun, AllGone, Gone, SomePanicked, Failed
<1>1. CASE StartRun
  BY <1>1 DEF StartRun, BeginRun, TypeOK, Vcpus
<1>2. CASE Spawn
  BY <1>2 DEF Spawn, TypeOK, Vcpus
<1>3. CASE SpawnFails
  BY <1>3 DEF SpawnFails, TypeOK, Vcpus
<1>4. CASE AllSpawned
  BY <1>4 DEF AllSpawned, TypeOK, Vcpus
<1>5. CASE MonitorRecv
  BY <1>5 DEF MonitorRecv, TypeOK, Vcpus
<1>6. CASE MonitorCheckError
  BY <1>6 DEF MonitorCheckError, TypeOK, Vcpus
<1>7. CASE MonitorCheckRunning
  BY <1>7 DEF MonitorCheckRunning, TypeOK, Vcpus
<1>8. CASE Return
  BY <1>8 DEF Return, StopThen, stop, TypeOK, Vcpus
<1>9. CASE Unwind
  BY <1>9 DEF Unwind, TypeOK, Vcpus
<1>10. CASE Drop
  BY <1>10 DEF Drop, StopThen, stop, TypeOK, Vcpus
<1>11. ASSUME NEW v \in Vcpus, VcpuStep(v) \/ GuestExit(v) PROVE IInv'
  <2>1. CASE CheckRunning(v)
    BY <2>1 DEF CheckRunning, Move, mainVars, Goto, TypeOK
  <2>2. CASE CheckError(v)
    BY <2>2 DEF CheckError, Move, mainVars, Goto, TypeOK
  <2>3. CASE Poll(v)
    <3>1. message_rx[v] = <<>>
      OBVIOUS
    <3>2. /\ pc' = [pc EXCEPT ![v] = "guest"] /\ pc[v] = "poll"
          /\ UNCHANGED <<mainVars, running, error_occurred, error_rx,
                         message_rx>>
      BY <2>3, <3>1 DEF Poll, Goto
    <3>3. \A u \in Vcpus :
            lateEntries'[u] = IF u = v /\ error_occurred
                                THEN lateEntries[u] + 1 ELSE lateEntries[u]
      BY <2>3, <3>1 DEF Poll, TypeOK
    <3>4. LateEntries'
      BY <3>2, <3>3 DEF TypeOK
    <3> QED
      BY <3>2, <3>4 DEF mainVars, TypeOK
  <2>4. CASE ExitHandled(v)
    BY <2>4 DEF ExitHandled, mainVars, Goto, Move, TypeOK
  <2>5. CASE ExitMmio(v)
    BY <2>5 DEF ExitMmio, mainVars, Goto, Move, TypeOK
  <2>6. CASE ExitError(v)
    BY <2>6 DEF ExitError, mainVars, Goto, Move, TypeOK
  <2>7. CASE ExitPanics(v)
    BY <2>7 DEF ExitPanics, mainVars, Goto, Move, TypeOK
  <2>8. CASE LockDevices(v)
    BY <2>8 DEF LockDevices, Move, mainVars, Goto, TypeOK
  <2>9. CASE Dispatch(v)
    BY <2>9 DEF Dispatch, Move, mainVars, Goto, TypeOK
  <2>10. CASE SendError(v)
    BY <2>10 DEF SendError, mainVars, Goto, TypeOK
  <2>11. CASE FlagError(v)
    BY <2>11 DEF FlagError, mainVars, Goto, TypeOK
  <2> QED
    BY <1>11, <2>1, <2>2, <2>3, <2>4, <2>5, <2>6, <2>7, <2>8, <2>9, <2>10,
       <2>11 DEF VcpuStep, GuestExit
<1>12. CASE UNCHANGED vars
  BY <1>12 DEF vars
<1> QED
  BY <1>1, <1>2, <1>3, <1>4, <1>5, <1>6, <1>7, <1>8, <1>9, <1>10, <1>11, <1>12
     DEF Next, MainStep, Dropped

(* IInv holds in every reachable state.                                    *)
LEMMA InvariantIInv == SafetySpec => []IInv
BY InitIInv, NextIInv, PTL DEF SafetySpec

(* The variables of run() keep their types, for every number of vCPUs.     *)
THEOREM TypeCorrect == Spec => []TypeOK
BY InvariantIInv, PTL DEF Spec, IInv

(* When run() has returned or unwound, all vCPU threads are gone: what the *)
(* scoped threads of vm.rs are there for.                                  *)
THEOREM Quiescence == Spec => []QuiescentOutsideRun
BY InvariantIInv, PTL DEF Spec, IInv

(* run() returns, and a vCPU thread leaves its loop, only after an error   *)
(* of one of the vCPUs of this very call.                                  *)
THEOREM OnlyErrorsEndRun == Spec => []RunEndsOnlyOnError
<1>1. IInv => RunEndsOnlyOnError
  BY DEF IInv, FlagStays, LeaveReason, Failed, RunEndsOnlyOnError
<1> QED
  BY InvariantIInv, <1>1, PTL DEF Spec

(* After the error flag is up, no vCPU enters the guest twice.             *)
THEOREM LateEntryBound == Spec => []OneLateEntry
<1>1. IInv => OneLateEntry
  BY DEF IInv, LateEntries, OneLateEntry
<1> QED
  BY InvariantIInv, <1>1, PTL DEF Spec

(* No two vCPU threads are at the devices at once: the mutex of vm.rs is   *)
(* what lets the device models take a handler as one sequential program.   *)
THEOREM OneAtTheDevices == Spec => []DispatchAlone
BY InvariantIInv, PTL DEF Spec, IInv

-----------------------------------------------------------------------------
(* Refinement: the steps of VmRun are steps of RunContract.                *)

(* Moving a live thread inside its loop is invisible in the contract.      *)
LEMMA ThreadKept ==
  ASSUME pc \in [Vcpus -> VcpuPc], NEW v \in Vcpus, NEW l \in VcpuPc \ Gone,
         pc[v] \notin Gone, Goto(v, l)
  PROVE  thread' = thread
<1>1. \A u \in Vcpus : pc'[u] = IF u = v THEN l ELSE pc[u]
  BY DEF Goto
<1> QED
  BY <1>1 DEF thread, Gone

(* A live thread that exits or panics has left.                            *)
LEMMA ThreadLeft ==
  ASSUME pc \in [Vcpus -> VcpuPc], NEW v \in Vcpus,
         NEW l \in {"exited", "panicked"}, pc[v] \notin Gone, Goto(v, l)
  PROVE  /\ thread[v] = "live"
         /\ thread' = [thread EXCEPT ![v] = "left"]
<1>1. \A u \in Vcpus : pc'[u] = IF u = v THEN l ELSE pc[u]
  BY DEF Goto
<1> QED
  BY <1>1 DEF thread, Gone

(* The initial state of VmRun is the initial state of the contract.        *)
LEMMA InitContract == Init => Contract!ContractInit
BY DEF Init, Contract!ContractInit, mode, thread, poisoned, InRun, SomePanicked

(* Every step of VmRun is a step of the contract or stutters.              *)
LEMMA NextContract ==
  IInv /\ IInv' /\ [Next]_vars
    => [Contract!ContractNext]_(Contract!contractVars)
<1> SUFFICES ASSUME IInv, IInv', [Next]_vars
             PROVE  Contract!ContractNext \/ UNCHANGED Contract!contractVars
  BY DEF Contract!contractVars
<1> TypeOK /\ TypeOK'
  BY DEF IInv
<1>1. CASE StartRun
  <2>1. Contract!Begin
    BY <1>1 DEF StartRun, BeginRun, Contract!Begin, mode, thread, poisoned,
                InRun, Stopping, SomePanicked, IInv, PanicPath
  <2> QED
    BY <2>1 DEF Contract!ContractNext
<1>2. CASE Spawn
  <2>1. spawned \in Vcpus /\ pc[spawned] = "none"
    BY <1>2, NumCpusAssumption DEF Spawn, Vcpus, TypeOK, IInv, SpawnOrder
  <2>2. \A u \in Vcpus :
          pc'[u] = IF u = spawned THEN "checkRunning" ELSE pc[u]
    BY <1>2, <2>1 DEF Spawn, TypeOK
  <2>3. thread[spawned] = "out" /\ thread' = [thread EXCEPT ![spawned] =
  "live"]
    BY <2>1, <2>2 DEF thread
  <2>4. UNCHANGED <<mode, poisoned>> /\ mode \in {"running", "stopping"}
    BY <1>2, <2>1, <2>2
       DEF Spawn, mode, InRun, Stopping, poisoned, SomePanicked
  <2>5. Contract!Enter(spawned)
    BY <2>3, <2>4 DEF Contract!Enter
  <2> QED
    BY <2>1, <2>5 DEF Contract!ContractNext
<1>3. CASE SpawnFails
  <2>1. thread' = thread
    BY <1>3 DEF SpawnFails, thread
  <2>2. Contract!Refuse
    BY <1>3, <2>1 DEF SpawnFails, Contract!Refuse, mode, InRun, Stopping,
       poisoned
  <2> QED
    BY <2>2 DEF Contract!ContractNext
<1>4. CASE AllSpawned \/ MonitorRecv \/ MonitorCheckError
            \/ MonitorCheckRunning
  BY <1>4 DEF AllSpawned, MonitorRecv, MonitorCheckError, MonitorCheckRunning,
              Contract!contractVars, mode, InRun, Stopping, thread, poisoned,
              SomePanicked
<1>5. CASE Return
  <2>1. mode = "stopping" /\ mode' = "idle" /\ ~poisoned
    BY <1>5 DEF Return, StopThen, mode, InRun, Stopping, poisoned,
                SomePanicked, IInv,
                LeaveReason, Failed
  <2>2. poisoned' = poisoned
    BY <1>5 DEF Return, StopThen, poisoned, SomePanicked
  <2>3. thread' = thread /\ Contract!NoneLive
    BY <1>5 DEF Return, StopThen, thread, Contract!NoneLive, AllGone, Gone
  <2>4. Contract!GiveBack
    BY <2>1, <2>2, <2>3 DEF Contract!GiveBack
  <2> QED
    BY <2>4 DEF Contract!ContractNext
<1>6. CASE Unwind
  <2>1. mode = "stopping" /\ mode' = "unwound" /\ poisoned /\ poisoned'
    BY <1>6 DEF Unwind, mode, InRun, Stopping, poisoned, SomePanicked, IInv,
                LeaveReason, Failed
  <2>2. thread' = thread /\ Contract!NoneLive
    BY <1>6 DEF Unwind, thread, Contract!NoneLive, AllGone, Gone
  <2>3. Contract!GiveBack
    BY <2>1, <2>2 DEF Contract!GiveBack
  <2> QED
    BY <2>3 DEF Contract!ContractNext
<1>7. CASE Drop
  <2>1. Contract!Discard
    BY <1>7 DEF Drop, StopThen, Contract!Discard, mode, InRun, thread,
                poisoned,
                SomePanicked
  <2> QED
    BY <2>1 DEF Contract!ContractNext
<1>8. ASSUME NEW v \in Vcpus, VcpuStep(v) \/ GuestExit(v)
      PROVE  Contract!ContractNext \/ UNCHANGED Contract!contractVars
  <2> pc \in [Vcpus -> VcpuPc]
    BY DEF TypeOK
  <2>0. InRun /\ pc[v] \notin Gone
    BY <1>8 DEF VcpuStep, GuestExit, CheckRunning, CheckError, Poll,
                LockDevices, Dispatch, SendError, FlagError, ExitHandled,
                ExitMmio, ExitError, ExitPanics, Move, IInv,
                QuiescentOutsideRun, InRun, AllGone, Gone
  <2>a. ASSUME NEW l \in {"checkRunning", "checkError", "poll", "guest",
                            "lock", "dispatch", "send"},
               Goto(v, l), pc[v] # "flag",
               UNCHANGED <<mainVars, error_occurred>>
        PROVE  UNCHANGED Contract!contractVars
    <3>1. thread' = thread
      BY <2>a, <2>0, ThreadKept DEF VcpuPc, Gone
    <3>2. \A u \in Vcpus : pc'[u] = IF u = v THEN l ELSE pc[u]
      BY <2>a DEF Goto
    <3>3. UNCHANGED <<mode, poisoned>>
      BY <2>a, <2>0, <3>2
         DEF mainVars, mode, InRun, Stopping, poisoned, SomePanicked, Gone
    <3> QED
      BY <3>1, <3>3 DEF Contract!contractVars
  <2>b. ASSUME Goto(v, "exited"), UNCHANGED mainVars, Stopping, Stopping'
        PROVE  Contract!Leave(v)
    <3>1. thread[v] = "live" /\ thread' = [thread EXCEPT ![v] = "left"]
      BY <2>b, <2>0, ThreadLeft
    <3>2. \A u \in Vcpus : pc'[u] = IF u = v THEN "exited" ELSE pc[u]
      BY <2>b DEF Goto
    <3>3. UNCHANGED <<mode, poisoned>> /\ mode = "stopping"
      BY <2>b, <2>0, <3>2
         DEF mainVars, mode, InRun, poisoned, SomePanicked, Gone
    <3> QED
      BY <3>1, <3>3 DEF Contract!Leave
  <2>1. CASE CheckRunning(v)
    <3>1. CASE running
      BY <2>a, <2>1, <3>1 DEF CheckRunning, Move
    <3>2. CASE ~running
      <4>1. Stopping /\ Stopping'
        BY <2>0, <2>1, <3>2
           DEF CheckRunning, Move, Goto, Stopping, IInv, LeaveReason, Failed,
               InRun
      <4> QED
        BY <2>b, <2>1, <3>2, <4>1 DEF CheckRunning, Move, Contract!ContractNext
    <3> QED
      BY <3>1, <3>2
  <2>2. CASE CheckError(v)
    <3>1. CASE ~error_occurred
      BY <2>a, <2>2, <3>1 DEF CheckError, Move
    <3>2. CASE error_occurred
      BY <2>b, <2>2, <3>2 DEF CheckError, Move, Stopping, Contract!ContractNext
    <3> QED
      BY <3>1, <3>2
  <2>3. CASE Poll(v)
    BY <2>a, <2>3 DEF Poll, IInv, ChannelsEmpty
  <2>4. CASE LockDevices(v) \/ Dispatch(v)
    BY <2>a, <2>4 DEF LockDevices, Dispatch, Move
  <2>5. CASE ExitHandled(v) \/ ExitMmio(v) \/ ExitError(v)
    BY <2>a, <2>5 DEF ExitHandled, ExitMmio, ExitError, Move
  <2>6. CASE ExitPanics(v)
    <3>1. thread[v] = "live" /\ thread' = [thread EXCEPT ![v] = "left"]
      BY <2>6, <2>0, ThreadLeft DEF ExitPanics, Move
    <3>2. \A u \in Vcpus : pc'[u] = IF u = v THEN "panicked" ELSE pc[u]
      BY <2>6 DEF ExitPanics, Move, Goto
    <3>3. mode' = mode /\ mode \in {"running", "stopping"} /\ poisoned' = TRUE
      BY <2>6, <2>0, <3>2 DEF ExitPanics, Move, mainVars, mode, InRun,
                              Stopping, poisoned, SomePanicked
    <3>4. Contract!Die(v)
      BY <3>1, <3>3 DEF Contract!Die
    <3> QED
      BY <3>4 DEF Contract!ContractNext
  <2>7. CASE SendError(v)
    <3>1. thread' = thread
      BY <2>7, <2>0, ThreadKept DEF SendError, VcpuPc, Gone
    <3>2. \A u \in Vcpus : pc'[u] = IF u = v THEN "flag" ELSE pc[u]
      BY <2>7 DEF SendError, Goto
    <3>3. poisoned' = poisoned /\ mode' = "stopping"
      BY <2>7, <2>0, <3>2 DEF SendError, mainVars, mode, InRun, Stopping,
                              poisoned, SomePanicked
    <3>4. mode \in {"running", "stopping"}
      BY <2>0 DEF mode
    <3> QED
      BY <3>1, <3>3, <3>4 DEF Contract!ContractNext, Contract!Fail,
                              Contract!contractVars
  <2>8. CASE FlagError(v)
    <3>1. Stopping /\ Stopping'
      BY <2>8 DEF FlagError, Stopping
    <3> QED
      BY <2>b, <2>8, <3>1 DEF FlagError, Contract!ContractNext
  <2> QED
    BY <1>8, <2>1, <2>2, <2>3, <2>4, <2>5, <2>6, <2>7, <2>8
       DEF VcpuStep, GuestExit
<1>9. CASE UNCHANGED vars
  BY <1>9 DEF vars, Contract!contractVars, mode, InRun, Stopping, thread,
              poisoned, SomePanicked
<1> QED
  BY <1>1, <1>2, <1>3, <1>4, <1>5, <1>6, <1>7, <1>8, <1>9
     DEF Next, MainStep, Dropped

(* run(), with its flags, channels and locks, keeps the contract that the  *)
(* rest of the program relies on.                                          *)
THEOREM RunKeepsContract == Spec => KeepsContract
BY InvariantIInv, InitContract, NextContract, PTL
   DEF Spec, SafetySpec, KeepsContract, Contract!ContractSpec

-----------------------------------------------------------------------------
(* What the liveness properties of VmRun rest on: after an error no thread *)
(* goes round its loop again.  How far each thread is from its end, and    *)
(* how far run() is from joining the threads.                              *)
Distance(l) ==
  CASE l = "poll" -> 8 [] l = "guest" -> 7 [] l = "lock" -> 6
    [] l = "dispatch" -> 5 [] l = "send" -> 5 [] l = "flag" -> 4
    [] l = "checkRunning" -> 3 [] l = "checkError" -> 2 [] OTHER -> 0

MainDistance ==
  CASE mainPc = "spawn" -> 5 + NumCpus - spawned
    [] mainPc = "checkRunning" -> 4
    [] mainPc = "recv" -> 3 [] mainPc = "checkError" -> 2
    [] mainPc = "join" -> 1 [] OTHER -> 0

\* A step in a run() whose error flag is up.
WindsDown ==
  error_occurred /\ InRun =>
    /\ error_occurred'
    /\ \A v \in Vcpus : \/ pc'[v] = pc[v]
                        \/ Distance(pc'[v]) < Distance(pc[v])
                        \/ mainPc = "spawn" /\ pc[v] = "none"
    /\ \/ UNCHANGED <<mainPc, spawned>>
       \/ MainDistance' < MainDistance

(* The steps of the calling thread come closer to the join.                *)
LEMMA MainWindsDown ==
  ASSUME IInv, IInv', SpawnFails \/ MainStep, error_occurred
  PROVE  WindsDown
<1> USE NumCpusAssumption DEF IInv, TypeOK, WindsDown
<1>1. CASE Spawn
  <2>1. MainDistance = 5 + NumCpus - spawned
    BY <1>1 DEF MainDistance, Spawn
  <2>2. MainDistance' = 5 + NumCpus - (spawned + 1)
    BY <1>1 DEF MainDistance, Spawn
  <2>3. MainDistance' < MainDistance
    BY <2>1, <2>2
  <2>4. pc[spawned] = "none" /\ spawned \in Vcpus
    BY <1>1 DEF Spawn, Vcpus, SpawnOrder
  <2> QED
    BY <1>1, <2>3, <2>4 DEF Spawn
<1>2. CASE SpawnFails \/ AllSpawned
  <2>1. MainDistance = 5 + NumCpus - spawned
    BY <1>2 DEF MainDistance, SpawnFails, AllSpawned
  <2>2. MainDistance' \in {1, 3}
    BY <1>2 DEF MainDistance, SpawnFails, AllSpawned
  <2>3. MainDistance' < MainDistance
    BY <2>1, <2>2
  <2> QED
    BY <1>2, <2>3 DEF SpawnFails, AllSpawned
<1>3. CASE MonitorRecv
  <2>1. MainDistance = 3 /\ MainDistance' \in {1, 2}
    BY <1>3 DEF MainDistance, MonitorRecv
  <2> QED
    BY <1>3, <2>1 DEF MonitorRecv
<1>4. CASE MonitorCheckError
  <2>1. MainDistance = 2 /\ MainDistance' = 1
    BY <1>4 DEF MainDistance, MonitorCheckError
  <2> QED
    BY <1>4, <2>1 DEF MonitorCheckError
<1>5. CASE MonitorCheckRunning
  <2>1. MainDistance = 4 /\ MainDistance' \in {1, 3}
    BY <1>5 DEF MainDistance, MonitorCheckRunning
  <2> QED
    BY <1>5, <2>1 DEF MonitorCheckRunning
<1>6. CASE Return \/ Unwind
  <2>1. MainDistance = 1 /\ MainDistance' = 0
    BY <1>6 DEF MainDistance, Return, StopThen, Unwind
  <2>2. error_occurred' /\ pc' = pc
    BY <1>6 DEF Return, StopThen, Unwind
  <2>3. MainDistance' < MainDistance
    BY <2>1
  <2> QED
    BY <2>2, <2>3
<1> QED
  BY <1>1, <1>2, <1>3, <1>4, <1>5, <1>6 DEF MainStep

(* So do the steps of a vCPU thread come closer to its end.                *)
LEMMA VcpuWindsDown ==
  ASSUME IInv, NEW v \in Vcpus, VcpuStep(v) \/ GuestExit(v), error_occurred
  PROVE  WindsDown
<1> USE DEF Move, Goto, mainVars
<1>1. TypeOK /\ message_rx[v] = <<>>
  BY DEF IInv, ChannelsEmpty
<1>2. /\ error_occurred' /\ UNCHANGED <<mainPc, spawned>>
      /\ \A u \in Vcpus : u # v => pc'[u] = pc[u]
  BY <1>1 DEF TypeOK, VcpuStep, GuestExit, CheckRunning, CheckError, Poll,
         LockDevices, Dispatch, SendError, FlagError, ExitHandled, ExitMmio,
         ExitError, ExitPanics
<1>3. Distance(pc'[v]) < Distance(pc[v])
  <2>1. \/ pc[v] = "checkRunning" /\ pc'[v] \in {"checkError", "exited"}
        \/ pc[v] = "checkError" /\ pc'[v] = "exited"
        \/ pc[v] = "poll" /\ pc'[v] = "guest"
        \/ /\ pc[v] = "guest"
           /\ pc'[v] \in {"checkRunning", "lock", "send", "panicked"}
        \/ pc[v] = "lock" /\ pc'[v] = "dispatch"
        \/ pc[v] = "dispatch" /\ pc'[v] = "checkRunning"
        \/ pc[v] = "send" /\ pc'[v] = "flag"
        \/ pc[v] = "flag" /\ pc'[v] = "exited"
    BY <1>1 DEF TypeOK, VcpuStep, GuestExit, CheckRunning, CheckError, Poll,
           LockDevices, Dispatch, SendError, FlagError, ExitHandled, ExitMmio,
           ExitError, ExitPanics
  <2> QED
    BY <2>1 DEF Distance
<1> QED
  BY <1>2, <1>3 DEF WindsDown

(* Once an error is flagged, the flag stays up until run() is over and     *)
(* every step of any thread brings that thread closer to its end: no       *)
(* thread tests the flags twice, and the monitor loop is not gone round    *)
(* more than once.  So only a guest that stays in KVM_RUN, or a wait for   *)
(* the devices mutex, can keep run() from ending.                          *)
THEOREM ErrorWindsDown == Spec => [][WindsDown]_vars
<1>1. ASSUME IInv, IInv', [Next]_vars PROVE [WindsDown]_vars
  <2> SUFFICES ASSUME error_occurred, InRun, Next PROVE WindsDown
    BY <1>1 DEF WindsDown
  <2>1. ~StartRun /\ ~Drop /\ ~Dropped
    BY DEF StartRun, BeginRun, Drop, Dropped, InRun
  <2> QED
    BY <1>1, <2>1, MainWindsDown, VcpuWindsDown DEF Next
<1> QED
  BY <1>1, InvariantIInv, PTL DEF Spec, SafetySpec

-----------------------------------------------------------------------------
(* A run() that nothing can end.                                           *)

\* The monitor loop runs and every vCPU thread has panicked, or there never
\* was one.
Forsaken ==
  /\ mainPc \in {"recv", "checkError", "checkRunning"}
  /\ \A v \in Vcpus : pc[v] = "panicked"

(* No step leads out of a forsaken run().                                  *)
LEMMA ForsakenStep == ASSUME IInv, [Next]_vars, Forsaken PROVE Forsaken'
<1>1. ~Failed /\ ~error_occurred
  BY DEF IInv, FlagOwner, Forsaken, Failed
<1>2. error_rx = {} /\ running
  BY <1>1 DEF IInv, LeaveReason, Forsaken, InRun
<1>3. ASSUME NEW v \in Vcpus PROVE ~VcpuStep(v) /\ ~GuestExit(v)
  BY <1>3
     DEF Forsaken, VcpuStep, GuestExit, CheckRunning, CheckError, Poll,
         LockDevices, Dispatch, SendError, FlagError, ExitHandled, ExitMmio,
         ExitError, ExitPanics, Move
<1>4. CASE MonitorRecv \/ MonitorCheckError \/ MonitorCheckRunning
  BY <1>1, <1>2, <1>4
     DEF Forsaken, MonitorRecv, MonitorCheckError, MonitorCheckRunning
<1>5. CASE UNCHANGED vars
  BY <1>5 DEF Forsaken, vars
<1> QED
  BY <1>3, <1>4, <1>5
     DEF Next, MainStep, Forsaken, StartRun, BeginRun, SpawnFails, Drop,
         Dropped, Spawn, AllSpawned, Return, Unwind

(* The monitor loop of vm.rs asks for an error and for the running flag,   *)
(* never for the threads: when they have all panicked no step of any       *)
(* thread leaves the loop, whatever the schedule.                          *)
THEOREM ForsakenForEver == Spec => [][Forsaken => Forsaken']_vars
<1>1. ASSUME IInv, [Next]_vars PROVE [Forsaken => Forsaken']_vars
  BY <1>1, ForsakenStep
<1> QED
  BY <1>1, InvariantIInv, PTL DEF Spec, SafetySpec

(* --cpus 0 is accepted, and a run() without vCPUs is such a run: once     *)
(* called it never returns.                                                *)
THEOREM NoVcpusNoEnd ==
  ASSUME NumCpus = 0
  PROVE  Spec => [](runs > 0 => InRun)
<1> DEFINE Calls == runs > 0 =>
             Forsaken \/ (mainPc = "spawn" /\ spawned = 0)
<1>1. Vcpus = {}
  BY DEF Vcpus
<1>2. Init => Calls
  BY DEF Init
<1>3. ASSUME IInv, Calls, [Next]_vars PROVE Calls'
  <2>1. CASE runs = 0
    <3>1. CASE StartRun
      BY <3>1 DEF StartRun, BeginRun
    <3>2. CASE UNCHANGED runs
      BY <2>1, <3>2
    <3>3. CASE SpawnFails \/ Drop \/ Dropped \/ UNCHANGED vars
      BY <3>2, <3>3 DEF SpawnFails, Drop, Dropped, StopThen, vars
    <3>4. CASE MainStep
      BY <3>2, <3>4
         DEF MainStep, Spawn, AllSpawned, MonitorRecv, MonitorCheckError,
             MonitorCheckRunning, Return, Unwind, StopThen
    <3> QED
      BY <1>1, <1>3, <3>1, <3>3, <3>4 DEF Next
  <2>2. CASE Forsaken
    BY <1>3, <2>2, ForsakenStep
  <2>3. CASE mainPc = "spawn" /\ spawned = 0
    BY <1>1, <1>3, <2>3
       DEF Forsaken, Next, MainStep, vars, StartRun, BeginRun, SpawnFails,
           Drop, Dropped, Spawn, AllSpawned, MonitorRecv, MonitorCheckError,
           MonitorCheckRunning, Return, Unwind
  <2> QED
    BY <1>3, <2>1, <2>2, <2>3 DEF IInv, TypeOK
<1>4. Calls => (runs > 0 => InRun)
  BY DEF Forsaken, InRun
<1> QED
  BY <1>2, <1>3, <1>4, InvariantIInv, PTL DEF Spec, SafetySpec

=============================================================================
