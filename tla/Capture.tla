------------------------------- MODULE Capture -------------------------------
(***************************************************************************)
(* The capture path of the logger: the MCAN receive interrupt posts every  *)
(* frame of the bus to the queue g_hCanLoggerRxQueue and the drain task    *)
(* takes the frames off the queue and hands them to the host stream.       *)
(*                                                                         *)
(* The module is open: the frames that arrive, and what else the drain     *)
(* task does with a frame, are said by the modules that extend it          *)
(* (PassiveLogger, Tester).                                                *)
(***************************************************************************)
EXTENDS Integers, Sequences

CONSTANTS
  RxQueueDepth,    \* CANLOGGER_RXQUEUE_DEPTH
  CounterModulus   \* 2^32, the width of the two uint32_t counters

ASSUME CaptureAssumption ==
  /\ RxQueueDepth \in Nat \ {0}
  /\ CounterModulus \in Nat \ {0}

VARIABLES
  rxQueue,         \* g_hCanLoggerRxQueue: frames between the ISR and the drain task
  rxCount,         \* g_u32CanLoggerRxCount
  dropCount,       \* g_u32CanLoggerDropCount
  drainFrame       \* the drain task's local frame: <<f>> in hand, <<>> when blocked on the queue

captureVars == <<rxQueue, rxCount, dropCount, drainFrame>>

CaptureInit ==
  /\ rxQueue = <<>>
  /\ rxCount = 0
  /\ dropCount = 0
  /\ drainFrame = <<>>

-----------------------------------------------------------------------------
(* Interrupt context. The interrupt preempts every task and is never       *)
(* preempted by one, so the callback is a single step.                     *)

\* x++ on a uint32_t
Increment(x) == (x + 1) % CounterModulus

\* One frame more than the queue holds.
RxQueueFull_OffByOne == Len(rxQueue) > RxQueueDepth

RxQueueFull == Len(rxQueue) = RxQueueDepth

\* The queue's newest frame is overwritten when the queue is full.
RxIsrCb_OverwriteWhenFull(f) ==
  /\ IF RxQueueFull
     THEN rxQueue' = [rxQueue EXCEPT ![Len(rxQueue)] = f]
     ELSE rxQueue' = Append(rxQueue, f)
  /\ rxCount' = Increment(rxCount)
  /\ UNCHANGED <<dropCount, drainFrame>>

\* The frame is posted in front of the queue.
RxIsrCb_PostToFront(f) ==
  /\ ~RxQueueFull
  /\ rxQueue' = <<f>> \o rxQueue
  /\ rxCount' = Increment(rxCount)
  /\ UNCHANGED <<dropCount, drainFrame>>

RxIsrCb(f) ==
  /\ \/ /\ ~RxQueueFull
        /\ rxQueue' = Append(rxQueue, f)
        /\ rxCount' = Increment(rxCount)
        /\ UNCHANGED dropCount
     \/ /\ RxQueueFull
        /\ dropCount' = Increment(dropCount)
        /\ UNCHANGED <<rxQueue, rxCount>>
  /\ UNCHANGED drainFrame

-----------------------------------------------------------------------------
(* The drain task, the highest-priority task of the roster.                *)

\* The drain task waits for a full batch.
DrainReady_Batch == drainFrame = <<>> /\ RxQueueFull

\* The drain task has a frame to take: it preempts every other task.
DrainReady == drainFrame = <<>> /\ rxQueue # <<>>

DrainReceive ==
  /\ DrainReady
  /\ drainFrame' = <<Head(rxQueue)>>
  /\ rxQueue' = Tail(rxQueue)
  /\ UNCHANGED <<rxCount, dropCount>>

\* CanLogger_HostStream_SendFrame returns: the frame in hand is on the host link.
DrainSend(f) ==
  /\ drainFrame = <<f>>
  /\ drainFrame' = <<>>
  /\ UNCHANGED <<rxQueue, rxCount, dropCount>>
=============================================================================
