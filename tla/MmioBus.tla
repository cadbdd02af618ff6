------------------------------ MODULE MmioBus ------------------------------
(***************************************************************************)
(* From an MMIO exit to the device: the dispatch of vm.rs under the mutex  *)
(* of the device list, the registers of VirtioMmioDevice (virtio/mmio.rs)  *)
(* and, behind them, the console of VirtioConsole.tla.  A second device    *)
(* stands for the block device, whose handler may panic (VirtioBlock.tla). *)
(*                                                                         *)
(* mmio.rs has no register yet that sets a queue up, and QueueReady reads  *)
(* as 1 all the same: a driver may publish chains and notify a queue that  *)
(* is not ready, which is all that can happen at present.  SetUp is that   *)
(* of the "complete transport" the comments of mmio.rs speak of; it may    *)
(* come at any time, before or after a notification, or never.             *)
(***************************************************************************)
EXTENDS VirtioConsole

CONSTANT BusVcpus   \* the vCPUs at the bus

VARIABLES
  vpc,         \* where each vCPU thread is
  req,         \* the access each vCPU thread has exited for
  mutex_poisoned,   \* the devices mutex, after a panic
  queue_sel,   \* the console's QueueSel register
  seen         \* history: chains the device could see when a vCPU notified

busVars == <<vpc, req, mutex_poisoned, queue_sel, seen>>
deviceVars == <<consoleVars, busVars>>

Queues == 2           \* VirtioConsole::new

\* The accesses: reads of the console's registers and configuration space,
\* writes that only a later read of them would show, the selection of a queue
\* (or of none), notifications of its two queues and of the other device, an
\* address in no window.
NoAccess == [dev |-> "none", reg |-> "Read", val |-> 0]
Access ==
  [dev : {"console"}, reg : {"Read", "GuestFeatures"}, val : {0}]
    \cup [dev : {"console"}, reg : {"QueueSel"}, val : {1, Queues}]
    \cup [dev : {"console"}, reg : {"QueueNotify"}, val : {0, 1}]
    \cup [dev : {"block"}, reg : {"QueueNotify"}, val : {0}]
    \cup {NoAccess}

NotifiesTx(r) == r = [dev |-> "console", reg |-> "QueueNotify", val |-> 1]

BusTypeOK ==
  /\ ConsoleTypeOK
  /\ vpc \in [BusVcpus -> {"guest", "lock", "serve", "handler", "dead"}]
  /\ req \in [BusVcpus -> Access]
  /\ mutex_poisoned \in BOOLEAN
  /\ queue_sel \in 0 .. Queues
  /\ seen \in [BusVcpus -> 0 .. MaxChains]

BusInit ==
  /\ ConsoleInit
  /\ vpc = [v \in BusVcpus |-> "guest"]
  /\ req = [v \in BusVcpus |-> NoAccess]
  /\ mutex_poisoned = FALSE
  /\ queue_sel = 0
  /\ seen = [v \in BusVcpus |-> 0]

BusDriver == ConsoleDriver /\ UNCHANGED busVars

\* VcpuExit::MmioRead and MmioWrite.
Exit(v, r) ==
  /\ vpc[v] = "guest"
  /\ vpc' = [vpc EXCEPT ![v] = "lock"]
  /\ req' = [req EXCEPT ![v] = r]
  /\ seen' = [seen EXCEPT ![v] = IF NotifiesTx(r) THEN Visible ELSE 0]
  /\ UNCHANGED <<consoleVars, mutex_poisoned, queue_sel>>

Free == \A v \in BusVcpus : vpc[v] \notin {"serve", "handler"}

MutLock(v) ==
  /\ vpc[v] = "lock" /\ Free
  /\ vpc' = [vpc EXCEPT ![v] = "serve"]
  /\ UNCHANGED <<consoleVars, req, mutex_poisoned, queue_sel, seen>>

\* devices.lock().unwrap(): a poisoned mutex takes the thread down.
Lock(v) ==
  /\ vpc[v] = "lock" /\ Free
  /\ vpc' = [vpc EXCEPT ![v] = IF mutex_poisoned THEN "dead" ELSE "serve"]
  /\ UNCHANGED <<consoleVars, req, mutex_poisoned, queue_sel, seen>>

Serving(v, reg) ==
  vpc[v] = "serve" /\ req[v].dev = "console" /\ req[v].reg = reg

\* The mutex is released and the vCPU enters the guest again.
Done(v) ==
  /\ vpc' = [vpc EXCEPT ![v] = "guest"]
  /\ req' = [req EXCEPT ![v] = NoAccess]
  /\ seen' = [seen EXCEPT ![v] = 0]

\* 0x30.
QueueSel(v) ==
  /\ Serving(v, "QueueSel")
  /\ queue_sel' = req[v].val
  /\ Done(v)
  /\ UNCHANGED <<consoleVars, mutex_poisoned>>

\* mmio_read: what it answers is not kept, and nothing else changes.
ReadRegister(v) ==
  /\ Serving(v, "Read")
  /\ Done(v)
  /\ UNCHANGED <<consoleVars, mutex_poisoned, queue_sel>>

\* 0x20, configuration space, and offsets that are only warned about.
OtherWrite(v) ==
  /\ Serving(v, "GuestFeatures")
  /\ Done(v)
  /\ UNCHANGED <<consoleVars, mutex_poisoned, queue_sel>>

MutQueueNotify(v) ==
  /\ Serving(v, "QueueNotify")
  /\ IF req[v].val = queue_sel
       THEN /\ process_tx
            /\ vpc' = [vpc EXCEPT ![v] = "handler"]
            /\ UNCHANGED <<req, seen>>
       ELSE Done(v) /\ UNCHANGED consoleVars
  /\ UNCHANGED <<mutex_poisoned, queue_sel>>

\* 0x50: process_queue; queue 0 of the console does nothing.
QueueNotify(v) ==
  /\ Serving(v, "QueueNotify")
  /\ IF req[v].val = 1
       THEN /\ process_tx
            /\ vpc' = [vpc EXCEPT ![v] = "handler"]
            /\ UNCHANGED <<req, seen>>
       ELSE Done(v) /\ UNCHANGED consoleVars
  /\ UNCHANGED <<mutex_poisoned, queue_sel>>

\* A step of the console's handler; its result is dropped.
Handle(v) ==
  /\ vpc[v] = "handler"
  /\ Handler
  /\ IF handler' = "idle" THEN Done(v) ELSE UNCHANGED <<vpc, req, seen>>
  /\ UNCHANGED <<mutex_poisoned, queue_sel>>

\* The other device, and an address in no window.
ServeOther(v) ==
  /\ vpc[v] = "serve" /\ req[v].dev # "console"
  /\ Done(v)
  /\ UNCHANGED <<consoleVars, mutex_poisoned, queue_sel>>

\* The other device's handler panics: the mutex is poisoned, the thread gone.
Panic(v) ==
  /\ vpc[v] = "serve" /\ req[v].dev = "block"
  /\ mutex_poisoned' = TRUE
  /\ vpc' = [vpc EXCEPT ![v] = "dead"]
  /\ UNCHANGED <<consoleVars, req, queue_sel, seen>>

Serve(v) == QueueSel(v) \/ ReadRegister(v) \/ OtherWrite(v)
              \/ QueueNotify(v) \/ Handle(v) \/ ServeOther(v)

BusNext ==
  \/ BusDriver
  \/ \E v \in BusVcpus : \/ \E r \in Access : Exit(v, r)
                      \/ Lock(v) \/ Serve(v) \/ Panic(v)

\* The host runs the thread that is at the devices.  Nothing is assumed of
\* the threads that wait: a Mutex of Rust's promises them no turn.
BusFairness == \A v \in BusVcpus : WF_deviceVars(Serve(v))

BusSafetySpec == BusInit /\ [][BusNext]_deviceVars

BusSpec == BusSafetySpec /\ BusFairness

-----------------------------------------------------------------------------
(* What the run checks.                                                    *)

\* A vCPU comes back from its notification of the transmit queue only when
\* every chain that was in a queue set up when it exited has been handed back
\* and announced, even one that another vCPU's notification had been serving.
\* A notification of a queue that is not set up takes no chain from the ring:
\* all of them are there for a notification after the set-up.
NotifyServesAll ==
  [][\A v \in BusVcpus :
       NotifiesTx(req[v]) /\ vpc[v] # "guest" /\ vpc'[v] = "guest"
         => /\ 1 .. seen[v] \subseteq {used'[k].id : k \in DOMAIN used'}
            /\ interrupt_evt => announced' = Len(used')
            /\ ~ready' => next_avail' = 0 /\ used' = <<>>]_deviceVars

\* A vCPU at the devices leaves them again, whatever access it made and
\* whatever stdout refuses, unless the driver publishes one more chain while
\* the handler is in its loop: only a driver that publishes for ever keeps
\* the other vCPUs from the devices.
MutexReleased ==
  \A n \in 0 .. MaxChains :
    (~Free /\ avail_idx = n) ~> (Free \/ avail_idx # n)

\* After a panic in a handler the devices stay as the panic left them, with
\* the mutex poisoned: no other vCPU was in the middle of an access, and none
\* that comes later, or waited meanwhile, gets to a device.
PanicEndsService ==
  [][mutex_poisoned =>
       /\ mutex_poisoned'
       /\ UNCHANGED <<next_avail, used, output, handler, announced,
                      queue_sel>>]_deviceVars

=============================================================================
