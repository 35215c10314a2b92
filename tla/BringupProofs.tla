---------------------------- MODULE BringupProofs ----------------------------
(***************************************************************************)
(* Theorems about Bringup, with and without the UDS client: the system     *)
(* that boots is PassiveLogger, so what is proved of PassiveLogger holds   *)
(* from power-on to the halt, wherever an allocation fails.                *)
(***************************************************************************)
EXTENDS Bringup, PassiveLoggerProofs

-----------------------------------------------------------------------------
(* The inductive invariant.                                                *)

\* The kernel objects that exist when a step is to be done.
Built(step) ==
  CASE step \in {"host", "rxQueue"} -> {}
    [] step \in {"mcan", "drain"} -> {"rxQueue"}
    [] step = "sysmon" -> {"rxQueue", "drain"}
    [] step = "reqQueue" -> {"rxQueue", "drain", "sysmon"}
    [] step = "uds" -> {"rxQueue", "drain", "sysmon", "reqQueue"}
    [] step = "idle" -> KernelObjects \ {"idle"}
    [] OTHER -> KernelObjects

BootSteps == KernelObjects \cup {"host", "mcan", "running", "halted"}

BootInv ==
  /\ boot \in BootSteps
  /\ mcanOn \in BOOLEAN
  /\ created \subseteq KernelObjects
  /\ boot # "halted" => created = Built(boot)
  /\ boot \in {"host", "rxQueue", "mcan"} => ~mcanOn
  /\ boot \in {"host", "rxQueue"} => rxQueue = <<>>
  /\ mcanOn => "rxQueue" \in created

-----------------------------------------------------------------------------
(* Steps.                                                                  *)

\* Power-on establishes the invariant.
LEMMA BootInitially == BootInit => BootInv
  BY DEF BootInit, Init, CaptureInit, BootInv, BootSteps, Built

\* The steps that create something, one by one.
LEMMA CreateStep ==
  ASSUME BootInv, NEW object \in KernelObjects, Create(object)
  PROVE  BootInv'
<1> USE BringupAssumption DEF BootInv, BootSteps, Built, Create, After, KernelObjects,
                              vars, captureVars
<1>1. CASE object = "drain"
  BY <1>1
<1>2. CASE object = "sysmon"
  BY <1>2
<1>3. CASE object = "reqQueue"
  BY <1>3
<1>4. CASE object = "uds"
  BY <1>4
<1>5. CASE object = "idle"
  BY <1>5
<1> QED
  BY <1>1, <1>2, <1>3, <1>4, <1>5

\* Every step of the start-up and of the started system preserves it.
LEMMA BootInductive == BootInv /\ [BootNext]_allVars => BootInv'
<1> SUFFICES ASSUME BootInv, [BootNext]_allVars
             PROVE  BootInv'
  OBVIOUS
<1>1. CASE HostStreamInit
  BY <1>1 DEF BootInv, BootSteps, Built, HostStreamInit, After, KernelObjects, vars, captureVars
<1>2. CASE CreateRxQueue
  BY <1>2 DEF BootInv, BootSteps, Built, CreateRxQueue, After, KernelObjects
<1>3. CASE McanInit
  BY <1>3 DEF BootInv, BootSteps, Built, McanInit, After, KernelObjects, vars, captureVars
<1>4. CASE \E object \in KernelObjects : Create(object)
  BY <1>4, CreateStep
<1>5. CASE AllocationFails
  BY <1>5 DEF BootInv, BootSteps, AllocationFails
<1>6. CASE StackOverflow
  BY <1>6 DEF BootInv, BootSteps, StackOverflow
<1>7. CASE ControllerStep
  BY <1>7 DEF BootInv, ControllerStep, bootVars
<1>8. CASE DrainTask
  BY <1>8 DEF BootInv, DrainTask, bootVars
<1>9. CASE SysMonTask
  BY <1>9 DEF BootInv, SysMonTask, bootVars
<1>10. CASE UNCHANGED allVars
  BY <1>10 DEF BootInv, allVars, bootVars, vars, captureVars
<1> QED
  BY <1>1, <1>2, <1>3, <1>4, <1>5, <1>6, <1>7, <1>8, <1>9, <1>10 DEF BootNext, BootStep

\* It holds in every state.
LEMMA BootInvariance == BootSpec => []BootInv
  BY BootInitially, BootInductive, PTL DEF BootSpec

\* Every step is a step of the logger or leaves it alone.
LEMMA LoggerStep == BootInv /\ [BootNext]_allVars => [Next]_vars
<1> SUFFICES ASSUME BootInv, [BootNext]_allVars
             PROVE  [Next]_vars
  OBVIOUS
<1>1. CASE CreateRxQueue
  <2>1. rxQueue' = rxQueue
    BY <1>1 DEF BootInv, CreateRxQueue
  <2> QED
    BY <1>1, <2>1 DEF CreateRxQueue, vars, captureVars
<1>2. CASE HostStreamInit \/ McanInit \/ AllocationFails \/ StackOverflow
  BY <1>2 DEF HostStreamInit, McanInit, AllocationFails, StackOverflow
<1>3. CASE \E object \in KernelObjects : Create(object)
  BY <1>3 DEF Create
<1>4. CASE ControllerStep
  BY <1>4 DEF ControllerStep, Next
<1>5. CASE DrainTask \/ SysMonTask
  BY <1>5 DEF DrainTask, SysMonTask, Next
<1>6. CASE UNCHANGED allVars
  BY <1>6 DEF allVars
<1> QED
  BY <1>1, <1>2, <1>3, <1>4, <1>5, <1>6 DEF BootNext, BootStep

-----------------------------------------------------------------------------
(* The theorems.                                                           *)

\* The system that boots is the plain logger from its first frame on: main and
\* CanLoggerOs_Init disturb neither what the interrupt queues meanwhile nor its counters.
THEOREM BootRefinesLogger == BootSpec => BootsIntoLogger
<1>1. BootInit => Init
  BY DEF BootInit
<1> QED
  BY <1>1, BootInvariance, LoggerStep, PTL DEF BootSpec, BootsIntoLogger, Spec

\* The interrupt never meets a queue that does not exist, and no task runs in a system that
\* CanLoggerOs_Init could not build to the end.
THEOREM NoPartialBringUp == BootSpec => []NothingHalfBuilt
<1>1. BootInv => NothingHalfBuilt
  BY DEF BootInv, NothingHalfBuilt, Built
<1> QED
  BY <1>1, BootInvariance, PTL

\* Types, the capacity of the capture queue included, from power-on.
THEOREM BootTypeCorrect == BootSpec => []BootTypeOK
<1>1. BootInv /\ TypeOK => BootTypeOK
  BY DEF BootInv, BootSteps, BootTypeOK
<1> QED
  BY <1>1, BootInvariance, BootRefinesLogger, TypeCorrect, PTL DEF BootsIntoLogger

\* Accounting holds from power-on to the halt: no accepted or lost frame is forgotten, those
\* before the first task ran included.
THEOREM NoFrameUnaccountedFromBoot == BootSpec => []Accounting
  BY BootRefinesLogger, NoFrameUnaccounted, PTL DEF BootsIntoLogger
=============================================================================
