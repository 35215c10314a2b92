---------------------------- MODULE PassiveLogger ----------------------------
(***************************************************************************)
(* The plain line logger (CANLOGGER_UDS_ENABLE = 0): the capture path, the *)
(* system-monitor task that sends the periodic STATUS packet and leaves    *)
(* bus-off, and the CAN controller's error state.                          *)
(*                                                                         *)
(* A frame is its capture stamp. The monitor is the lowest-priority task:  *)
(* it takes a step only when the drain task is blocked on its queue or     *)
(* inside the serial write. Every step of the monitor is one access to     *)
(* state that an interrupt or the controller changes, so what it samples   *)
(* may be stale by the time it is used.                                    *)
(***************************************************************************)
EXTENDS Capture

CONSTANT
  MaxFrames    \* bound: frames the bus delivers in one behaviour

ASSUME LoggerAssumption == MaxFrames \in Nat

VARIABLES
  busState,    \* Mcal_C2000_Mcan_GetErrState(): "active", "passive", "busoff"
  leaving,     \* Mcal_C2000_Mcan_LeaveBusOff() was called in this bus-off
  sysmon,      \* program counter of the monitor's loop
  lastRx,      \* last_rx: rxCount at the previous period
  sample,      \* the loop's locals: [rx, win, state]
  statusPkt,   \* the last STATUS packet sent: [win, state, rx, drops]
  arrivals,    \* history: frames the bus has delivered
  hostLog,     \* history: frames handed to the host link, in order
  mark         \* history: frames [arrived, accepted] at this period's sample,
               \* accepted [before] at the last one's, arrived when STATUS was [sent]

controllerVars == <<busState, leaving>>
sysmonVars == <<sysmon, lastRx, sample, statusPkt, mark>>
vars == <<captureVars, controllerVars, sysmonVars, arrivals, hostLog>>

BusStates == {"active", "passive", "busoff"}

\* Every frame the queue accepted: logged, in hand, or queued.
Pipeline == hostLog \o drainFrame \o rxQueue
Accepted == Len(hostLog) + Len(drainFrame) + Len(rxQueue)
Dropped == arrivals - Accepted

Init ==
  /\ CaptureInit
  /\ busState = "active"
  /\ leaving = FALSE
  /\ sysmon = "delay"
  /\ lastRx = 0
  /\ sample = [rx |-> 0, win |-> 0, state |-> "active"]
  /\ statusPkt = [win |-> 0, state |-> "active", rx |-> 0, drops |-> 0]
  /\ arrivals = 0
  /\ hostLog = <<>>
  /\ mark = [arrived |-> 0, accepted |-> 0, before |-> 0, sent |-> 0]

-----------------------------------------------------------------------------
(* The bus and the controller.                                             *)

\* A frame arrives, stamped with its capture time; a node in bus-off receives nothing.
FrameArrives ==
  /\ busState # "busoff"
  /\ arrivals < MaxFrames
  /\ RxIsrCb(arrivals + 1)
  /\ arrivals' = arrivals + 1
  /\ UNCHANGED <<controllerVars, sysmonVars, hostLog>>

\* Error-active and error-passive alternate, bus-off is entered from error-passive;
\* CanLogger_BusOffCb ignores the event.
BusErrorStateChanges(state) ==
  /\ \/ busState = "active" /\ state = "passive"
     \/ busState = "passive" /\ state \in {"active", "busoff"}
  /\ busState' = state
  /\ UNCHANGED <<captureVars, leaving, sysmonVars, arrivals, hostLog>>

\* The recovery sequence ends some time after it was requested.
ControllerLeavesBusOff ==
  /\ busState = "busoff"
  /\ leaving
  /\ busState' = "active"
  /\ leaving' = FALSE
  /\ UNCHANGED <<captureVars, sysmonVars, arrivals, hostLog>>

-----------------------------------------------------------------------------
(* The drain task.                                                         *)

LoggerDrainReceive ==
  /\ DrainReceive
  /\ UNCHANGED <<controllerVars, sysmonVars, arrivals, hostLog>>

LoggerDrainSend(f) ==
  /\ DrainSend(f)
  /\ hostLog' = Append(hostLog, f)
  /\ UNCHANGED <<controllerVars, sysmonVars, arrivals>>

-----------------------------------------------------------------------------
(* The system monitor's loop.                                              *)

SysMonRuns(from, to) ==
  /\ ~DrainReady
  /\ sysmon = from
  /\ sysmon' = to
  /\ UNCHANGED <<captureVars, busState, arrivals, hostLog>>

\* The difference of two counters without the wrap.
WindowSince_NoWrap(now, last) == IF now >= last THEN now - last ELSE 0

\* The difference of two uint32_t counters.
WindowSince(now, last) == (now + CounterModulus - last) % CounterModulus

\* vTaskDelayUntil returns: the receive counter is read once for the whole period.
SysMonSample ==
  /\ SysMonRuns("delay", "error")
  /\ sample' = [sample EXCEPT !.rx = rxCount, !.win = WindowSince(rxCount, lastRx)]
  /\ lastRx' = rxCount
  /\ mark' = [mark EXCEPT !.arrived = arrivals, !.accepted = Accepted, !.before = mark.accepted]
  /\ UNCHANGED <<leaving, statusPkt>>

\* STATUS goes out with the error state of an earlier period.
SysMonReadError_Skipped ==
  /\ SysMonRuns("error", "status")
  /\ UNCHANGED <<leaving, lastRx, sample, statusPkt, mark>>

SysMonReadError ==
  /\ SysMonRuns("error", "status")
  /\ sample' = [sample EXCEPT !.state = busState]
  /\ UNCHANGED <<leaving, lastRx, statusPkt, mark>>

\* The drop counter is left as it was in the packet before.
SysMonSendStatus_StaleDrops ==
  /\ SysMonRuns("status", "recover")
  /\ statusPkt' = [statusPkt EXCEPT !.win = sample.win, !.state = sample.state, !.rx = sample.rx]
  /\ mark' = [mark EXCEPT !.sent = arrivals]
  /\ UNCHANGED <<leaving, lastRx, sample>>

\* The drop counter is read now, later than the receive counter it is sent with.
SysMonSendStatus ==
  /\ SysMonRuns("status", "recover")
  /\ statusPkt' = [win |-> sample.win, state |-> sample.state,
                   rx |-> sample.rx, drops |-> dropCount]
  /\ mark' = [mark EXCEPT !.sent = arrivals]
  /\ UNCHANGED <<leaving, lastRx, sample>>

\* Recovery is decided on the controller's state now, not on the one reported.
SysMonRecover_Rereads ==
  /\ SysMonRuns("recover", "delay")
  /\ leaving' = (leaving \/ busState = "busoff")
  /\ UNCHANGED <<lastRx, sample, statusPkt, mark>>

\* Recovery is requested on the state sampled earlier; out of bus-off the request is void.
SysMonRecover ==
  /\ SysMonRuns("recover", "delay")
  /\ leaving' = (leaving \/ (sample.state = "busoff" /\ busState = "busoff"))
  /\ UNCHANGED <<lastRx, sample, statusPkt, mark>>

-----------------------------------------------------------------------------
Drain == LoggerDrainReceive \/ \E i \in DOMAIN drainFrame : LoggerDrainSend(drainFrame[i])
SysMon == SysMonSample \/ SysMonReadError \/ SysMonSendStatus \/ SysMonRecover

Next ==
  \/ FrameArrives
  \/ \E state \in BusStates : BusErrorStateChanges(state)
  \/ ControllerLeavesBusOff
  \/ Drain
  \/ SysMon

Spec == Init /\ [][Next]_vars

-----------------------------------------------------------------------------
(* Properties.                                                             *)

Counter == 0 .. CounterModulus - 1

\* Type invariant; the queue never exceeds CANLOGGER_RXQUEUE_DEPTH.
TypeOK ==
  /\ rxQueue \in Seq(Nat) /\ Len(rxQueue) <= RxQueueDepth
  /\ drainFrame \in Seq(Nat) /\ Len(drainFrame) <= 1
  /\ rxCount \in Counter /\ dropCount \in Counter /\ lastRx \in Counter
  /\ busState \in BusStates
  /\ leaving \in BOOLEAN
  /\ sysmon \in {"delay", "error", "status", "recover"}
  /\ sample \in [rx : Counter, win : Counter, state : BusStates]
  /\ statusPkt \in [win : Counter, state : BusStates, rx : Counter, drops : Counter]
  /\ arrivals \in Nat
  /\ hostLog \in Seq(Nat)
  /\ mark \in [arrived : Nat, accepted : Nat, before : Nat, sent : Nat]

\* No frame is unaccounted for: at every moment, in the middle of a burst or of a serial
\* write too, the two counters are the accepted and the lost frames up to the wrap.
Accounting ==
  /\ Accepted <= arrivals
  /\ rxCount = Accepted % CounterModulus
  /\ dropCount = Dropped % CounterModulus

\* Frames pass the queue and the drain task in the order of their capture stamps, none
\* twice: what the host is sent is always a gap-tolerant prefix of the bus traffic.
Chronological ==
  /\ \A i, j \in 1 .. Len(Pipeline) : i < j => Pipeline[i] < Pipeline[j]
  /\ \A i \in 1 .. Len(Pipeline) : Pipeline[i] <= arrivals

\* The window of a STATUS packet counts the frames accepted between two samples of the
\* monitor, across a wrap of the 32-bit counter too.
WindowExact == sample.win = (mark.accepted - mark.before) % CounterModulus

\* The receive and the drop counter of one STATUS packet are read at different moments;
\* their sum is still the number of frames on the bus at some moment in between.
StatusBracketsArrivals ==
  sysmon = "recover" =>
    \E n \in mark.arrived .. mark.sent :
      (statusPkt.rx + statusPkt.drops) % CounterModulus = n % CounterModulus

\* The controller leaves bus-off only after the host was sent a STATUS that says bus-off.
RecoveryFollowsReport ==
  [][busState = "busoff" /\ busState' # "busoff" => statusPkt.state = "busoff"]_vars
=============================================================================
