------------------------------- MODULE Bringup -------------------------------
(***************************************************************************)
(* Power-on to the running logger: main and CanLoggerOs_Init create the    *)
(* queues and tasks one by one, the controller is live before any task     *)
(* exists, every allocation may fail, and CanLoggerOs_SafeState ends it    *)
(* all, at boot or when the kernel finds a stack overflow later.           *)
(*                                                                         *)
(* What runs once the scheduler has started is PassiveLogger. The UDS task *)
(* is created here and modelled in Tester.                                 *)
(***************************************************************************)
EXTENDS PassiveLogger

CONSTANT UdsEnabled    \* CANLOGGER_UDS_ENABLE

ASSUME BringupAssumption == UdsEnabled \in BOOLEAN

VARIABLES
  boot,       \* the step of main and CanLoggerOs_Init to be done next, "running" or "halted"
  created,    \* kernel objects that exist
  mcanOn      \* Mcal_C2000_Mcan_Start() was called: the receive interrupt is live

bootVars == <<boot, created, mcanOn>>
allVars == <<vars, bootVars>>

\* What takes memory of the heap: two queues, three tasks, and the kernel's idle task.
KernelObjects ==
  {"rxQueue", "drain", "sysmon", "idle"} \cup (IF UdsEnabled THEN {"reqQueue", "uds"} ELSE {})

BootInit ==
  /\ Init
  /\ boot = "host"
  /\ created = {}
  /\ mcanOn = FALSE

-----------------------------------------------------------------------------
(* Booting.                                                                *)

\* The order of the calls
After(step) ==
  CASE step = "host" -> "rxQueue"
    [] step = "rxQueue" -> "mcan"
    [] step = "mcan" -> "drain"
    [] step = "drain" -> "sysmon"
    [] step = "sysmon" -> IF UdsEnabled THEN "reqQueue" ELSE "idle"
    [] step = "reqQueue" -> "uds"
    [] step = "uds" -> "idle"
    [] OTHER -> "running"

\* CanLogger_HostStream_Init
HostStreamInit ==
  /\ boot = "host"
  /\ boot' = After(boot)
  /\ UNCHANGED <<vars, created, mcanOn>>

\* xQueueCreate for the capture queue: it is empty.
CreateRxQueue ==
  /\ boot = "rxQueue"
  /\ rxQueue' = <<>>
  /\ boot' = After(boot)
  /\ created' = created \cup {"rxQueue"}
  /\ UNCHANGED <<rxCount, dropCount, drainFrame, controllerVars, sysmonVars, arrivals, hostLog,
                 mcanOn>>

\* CanLogger_Mcan_Init
McanInit ==
  /\ boot = "mcan"
  /\ boot' = After(boot)
  /\ mcanOn' = TRUE
  /\ UNCHANGED <<vars, created>>

\* The UDS client's queue takes the handle of the capture queue.
Create_WrongHandle(object) ==
  /\ boot = object
  /\ object \in KernelObjects \ {"rxQueue"}
  /\ boot' = After(boot)
  /\ created' = created \cup {object}
  /\ rxQueue' = IF object = "reqQueue" THEN <<>> ELSE rxQueue
  /\ UNCHANGED <<rxCount, dropCount, drainFrame, controllerVars, sysmonVars, arrivals, hostLog,
                 mcanOn>>

\* xTaskCreate, CanLogger_UdsClient_Init and the idle task of vTaskStartScheduler
Create(object) ==
  /\ boot = object
  /\ object \in KernelObjects \ {"rxQueue"}
  /\ boot' = After(boot)
  /\ created' = created \cup {object}
  /\ UNCHANGED <<vars, mcanOn>>

\* The kernel has no hook for a failed allocation and nobody looks at what the call returned.
AllocationFails_Unchecked ==
  /\ boot \in KernelObjects
  /\ boot' = After(boot)
  /\ UNCHANGED <<vars, created, mcanOn>>

\* No memory: vApplicationMallocFailedHook, and each caller's own check behind it.
AllocationFails ==
  /\ boot \in KernelObjects
  /\ boot' = "halted"
  /\ UNCHANGED <<vars, created, mcanOn>>

\* vApplicationStackOverflowHook, called by the kernel when it switches tasks
StackOverflow ==
  /\ boot = "running"
  /\ boot' = "halted"
  /\ UNCHANGED <<vars, created, mcanOn>>

-----------------------------------------------------------------------------
(* What PassiveLogger does, where it may.                                  *)

\* portDISABLE_INTERRUPTS in CanLoggerOs_SafeState
InterruptsOn == boot # "halted"

ControllerStep ==
  /\ \/ FrameArrives /\ InterruptsOn
     \/ \E state \in BusStates : BusErrorStateChanges(state)
     \/ ControllerLeavesBusOff
  /\ mcanOn
  /\ UNCHANGED bootVars

\* The tasks run when the scheduler does: it switches tasks in interrupts.
DrainTask == Drain /\ boot = "running" /\ UNCHANGED bootVars
SysMonTask == SysMon /\ boot = "running" /\ UNCHANGED bootVars

-----------------------------------------------------------------------------
BootStep ==
  HostStreamInit \/ CreateRxQueue \/ McanInit \/ (\E object \in KernelObjects : Create(object))

BootNext == BootStep \/ AllocationFails \/ StackOverflow \/ ControllerStep \/ DrainTask \/ SysMonTask

BootSpec == BootInit /\ [][BootNext]_allVars

\* main goes on unless an allocation fails; the tasks and the controller as in PassiveLogger.
BootFairness ==
  /\ WF_allVars(BootStep)
  /\ WF_allVars(DrainTask)
  /\ WF_allVars(SysMonTask)
  /\ WF_allVars(ControllerLeavesBusOff /\ mcanOn /\ UNCHANGED bootVars)
BootFairSpec == BootSpec /\ BootFairness

-----------------------------------------------------------------------------
(* Properties.                                                             *)

BootTypeOK ==
  /\ TypeOK
  /\ boot \in KernelObjects \cup {"host", "mcan", "running", "halted"}
  /\ created \subseteq KernelObjects
  /\ mcanOn \in BOOLEAN

\* No silent partial bring-up, wherever an allocation fails: the interrupt finds its queue, and
\* when the first task runs every queue and every task is there.
NothingHalfBuilt ==
  /\ mcanOn => "rxQueue" \in created
  /\ boot = "running" => created = KernelObjects

\* The running system is PassiveLogger from its first frame on: what is captured while the
\* tasks are still being created is neither lost nor counted twice, and a halt freezes it.
BootsIntoLogger == Spec

\* Unless the system halts, every accepted frame reaches the host link, those captured before
\* the drain task existed too.
FramesReachHostOrHalt ==
  \A n \in 1 .. MaxFrames : Accepted >= n ~> (Len(hostLog) >= n \/ boot = "halted")

\* Unless the system halts, the monitor gets the node out of bus-off every time, out of a
\* bus-off during boot too.
BusOffRecoversOrHalt == busState = "busoff" ~> (busState # "busoff" \/ boot = "halted")

\* Unless the system halts, every loss is in a STATUS packet handed to the host link in the end.
LossReportedOrHalt ==
  \A n \in Counter : dropCount = n ~> (statusPkt.drops = dropCount \/ boot = "halted")
=============================================================================
