------------------------- MODULE PassiveLoggerProofs -------------------------
(***************************************************************************)
(* Theorems about PassiveLogger, for every queue depth, every counter      *)
(* width and every number of frames.                                       *)
(***************************************************************************)
EXTENDS PassiveLogger, WrapArithmetic, SequenceTheorems, TLAPS

-----------------------------------------------------------------------------
(* The inductive invariant.                                                *)

\* The monitor's copies of the receive counter are the accepted frames of its last sample.
SampleIsMarked ==
  /\ lastRx = mark.accepted % CounterModulus
  /\ sample.rx = mark.accepted % CounterModulus

\* Frames only accumulate after the sample: accepted ones and lost ones.
MarkIsPast ==
  /\ mark.accepted <= Accepted
  /\ mark.arrived - mark.accepted <= Dropped

\* A requested recovery belongs to a bus-off that the last STATUS packet reported.
RecoveryIsReported ==
  /\ sysmon = "recover" => statusPkt.state = sample.state
  /\ leaving => /\ busState = "busoff"
                /\ statusPkt.state = "busoff"
                /\ sysmon = "status" => sample.state = "busoff"

IInv ==
  /\ TypeOK
  /\ Accounting
  /\ Chronological
  /\ WindowExact
  /\ StatusBracketsArrivals
  /\ SampleIsMarked
  /\ MarkIsPast
  /\ RecoveryIsReported

-----------------------------------------------------------------------------
(* What the actions do to the frames under way.                            *)

\* A frame that joins the queue joins the end of the pipeline.
LEMMA PostedLast ==
  ASSUME NEW h \in Seq(Nat), NEW d \in Seq(Nat), NEW q \in Seq(Nat), NEW x \in Nat
  PROVE  h \o d \o Append(q, x) = Append(h \o d \o q, x)
<1>1. h \o d \in Seq(Nat) /\ h \o d \o q \in Seq(Nat) /\ <<x>> \in Seq(Nat)
  BY ConcatProperties
<1>2. Append(q, x) = q \o <<x>> /\ Append(h \o d \o q, x) = (h \o d \o q) \o <<x>>
  BY <1>1, AppendIsConcat
<1> QED
  BY <1>1, <1>2, ConcatAssociative

\* Taking the oldest queued frame in hand keeps the pipeline.
LEMMA TakenFirst ==
  ASSUME NEW h \in Seq(Nat), NEW q \in Seq(Nat), q # <<>>
  PROVE  h \o <<Head(q)>> \o Tail(q) = h \o <<>> \o q
<1> DEFINE x == Head(q)
           t == Tail(q)
<1>1. x \in Nat /\ <<x>> \in Seq(Nat) /\ t \in Seq(Nat)
  OBVIOUS
<1>2. <<x>> \o t = q
  OBVIOUS
<1> HIDE DEF x, t
<1>3. (h \o <<x>>) \o t = h \o (<<x>> \o t)
  BY <1>1, ConcatAssociative, SMTT(30)
<1>4. h \o <<>> = h
  BY ConcatEmptySeq
<1> QED
  BY <1>2, <1>3, <1>4 DEF x, t

\* Logging the frame in hand keeps the pipeline.
LEMMA LoggedNext ==
  ASSUME NEW h \in Seq(Nat), NEW q \in Seq(Nat), NEW f \in Nat
  PROVE  Append(h, f) \o <<>> \o q = h \o <<f>> \o q
<1>1. Append(h, f) = h \o <<f>> /\ Append(h, f) \in Seq(Nat)
  BY AppendIsConcat, AppendProperties
<1>2. Append(h, f) \o <<>> = Append(h, f)
  BY <1>1, ConcatEmptySeq
<1> QED
  BY <1>1, <1>2

\* The next value of a counter is a counter value.
LEMMA IncrementIsCounter ==
  ASSUME NEW x \in Counter
  PROVE  Increment(x) \in Counter
  BY CaptureAssumption, RemainderBound DEF Increment, Counter

\* An arriving frame joins the end of the pipeline or is dropped; one counter says which.
LEMMA ArrivalStep ==
  ASSUME TypeOK, FrameArrives
  PROVE  /\ arrivals' = arrivals + 1
         /\ UNCHANGED <<controllerVars, sysmonVars, hostLog, drainFrame>>
         /\ \/ /\ Pipeline' = Append(Pipeline, arrivals + 1)
               /\ Accepted' = Accepted + 1
               /\ rxCount' = Increment(rxCount) /\ dropCount' = dropCount
               /\ rxQueue' = Append(rxQueue, arrivals + 1) /\ Len(rxQueue) < RxQueueDepth
            \/ /\ Pipeline' = Pipeline
               /\ Accepted' = Accepted
               /\ dropCount' = Increment(dropCount) /\ rxCount' = rxCount
               /\ rxQueue' = rxQueue
<1>1. /\ hostLog \in Seq(Nat) /\ drainFrame \in Seq(Nat) /\ rxQueue \in Seq(Nat)
      /\ arrivals + 1 \in Nat /\ Len(rxQueue) <= RxQueueDepth
  BY DEF TypeOK
<1>2. /\ RxIsrCb(arrivals + 1) /\ arrivals' = arrivals + 1 /\ drainFrame' = drainFrame
      /\ UNCHANGED <<controllerVars, sysmonVars, hostLog>>
  BY DEF FrameArrives, RxIsrCb
<1>3. CASE RxQueueFull
  <2>1. dropCount' = Increment(dropCount) /\ UNCHANGED <<rxQueue, rxCount>>
    BY <1>2, <1>3 DEF RxIsrCb
  <2> QED
    BY <1>2, <2>1 DEF Pipeline, Accepted
<1>4. CASE ~RxQueueFull
  <2>1. rxQueue' = Append(rxQueue, arrivals + 1) /\ Len(rxQueue) < RxQueueDepth
    BY <1>1, <1>2, <1>4, CaptureAssumption DEF RxIsrCb, RxQueueFull
  <2>2. rxCount' = Increment(rxCount) /\ dropCount' = dropCount
    BY <1>2, <1>4 DEF RxIsrCb
  <2>3. Accepted' = Accepted + 1
    BY <1>1, <1>2, <2>1 DEF Accepted
  <2>4. Pipeline' = hostLog \o drainFrame \o Append(rxQueue, arrivals + 1)
    BY <1>2, <2>1 DEF Pipeline
  <2>5. Pipeline' = Append(Pipeline, arrivals + 1)
    BY <1>1, <2>4, PostedLast DEF Pipeline
  <2> QED
    BY <1>2, <2>1, <2>2, <2>3, <2>5
<1> QED
  BY <1>3, <1>4

\* The drain task moves frames along the pipeline and changes nothing else.
LEMMA DrainStep ==
  ASSUME TypeOK, Drain
  PROVE  /\ Pipeline' = Pipeline
         /\ Accepted' = Accepted
         /\ rxQueue' \in Seq(Nat) /\ Len(rxQueue') <= Len(rxQueue)
         /\ drainFrame' \in Seq(Nat) /\ Len(drainFrame') <= 1
         /\ hostLog' \in Seq(Nat)
         /\ UNCHANGED <<rxCount, dropCount, controllerVars, sysmonVars, arrivals>>
<1> USE DEF TypeOK
<1>1. CASE LoggerDrainReceive
  <2> USE <1>1 DEF LoggerDrainReceive, DrainReceive, DrainReady
  <2>2. /\ drainFrame = <<>> /\ drainFrame' = <<Head(rxQueue)>>
        /\ rxQueue' = Tail(rxQueue) /\ hostLog' = hostLog
        /\ Head(rxQueue) \in Nat /\ Tail(rxQueue) \in Seq(Nat)
        /\ Len(Tail(rxQueue)) = Len(rxQueue) - 1
    OBVIOUS
  <2>3. Pipeline' = Pipeline
    BY <2>2, TakenFirst DEF Pipeline, DrainReady
  <2>4. Accepted' = Accepted
    BY <2>2 DEF Accepted
  <2> QED
    BY <2>2, <2>3, <2>4
<1>2. CASE \E i \in DOMAIN drainFrame : LoggerDrainSend(drainFrame[i])
  <2>1. PICK frame : LoggerDrainSend(frame)
    BY <1>2
  <2>2. drainFrame = <<frame>> /\ drainFrame' = <<>>
    BY <2>1 DEF LoggerDrainSend, DrainSend
  <2>3. frame \in Nat
    BY <2>2, ElementOfSeq, Len(<<frame>>) = 1, <<frame>>[1] = frame
  <2>4. /\ hostLog' = Append(hostLog, frame) /\ rxQueue' = rxQueue
        /\ UNCHANGED <<rxCount, dropCount, controllerVars, sysmonVars, arrivals>>
    BY <2>1 DEF LoggerDrainSend, DrainSend
  <2>5. hostLog' \in Seq(Nat) /\ Len(hostLog') = Len(hostLog) + 1
    BY <2>3, <2>4, AppendProperties
  <2>6. Pipeline' = Pipeline
    BY <2>2, <2>3, <2>4, LoggedNext DEF Pipeline
  <2>7. Accepted' = Accepted
    BY <2>2, <2>4, <2>5 DEF Accepted
  <2>8. Len(drainFrame') = 0 /\ drainFrame' \in Seq(Nat)
    BY <2>2, EmptySeq
  <2>9. rxQueue' \in Seq(Nat) /\ Len(rxQueue') <= Len(rxQueue)
    BY <2>4, LenProperties
  <2> QED
    BY <2>4, <2>5, <2>6, <2>7, <2>8, <2>9
<1> QED
  BY <1>1, <1>2 DEF Drain

\* The monitor and the controller leave the frames alone.
LEMMA OtherStep ==
  ASSUME \/ \E state \in BusStates : BusErrorStateChanges(state)
         \/ ControllerLeavesBusOff
         \/ SysMon
         \/ UNCHANGED vars
  PROVE  /\ UNCHANGED <<captureVars, arrivals, hostLog>>
         /\ Pipeline' = Pipeline /\ Accepted' = Accepted /\ Dropped' = Dropped
<1>1. UNCHANGED <<captureVars, arrivals, hostLog>>
  BY DEF BusErrorStateChanges, ControllerLeavesBusOff, SysMon, SysMonRuns, SysMonSample,
         SysMonReadError, SysMonSendStatus, SysMonRecover, vars
<1> QED
  BY <1>1 DEF captureVars, Pipeline, Accepted, Dropped

-----------------------------------------------------------------------------
(* Types.                                                                  *)

\* Every step preserves the types.
LEMMA TypeStep == TypeOK /\ [Next]_vars => TypeOK'
<1> SUFFICES ASSUME TypeOK, [Next]_vars
             PROVE  TypeOK'
  OBVIOUS
<1>1. CASE FrameArrives
  <2>1. Increment(rxCount) \in Counter /\ Increment(dropCount) \in Counter
    BY IncrementIsCounter DEF TypeOK
  <2>2. arrivals + 1 \in Nat /\ Len(rxQueue) \in Nat
    BY DEF TypeOK
  <2>3. rxCount' \in Counter /\ dropCount' \in Counter /\ arrivals' \in Nat
    BY <1>1, <2>1, <2>2, ArrivalStep DEF TypeOK
  <2>4. rxQueue' \in Seq(Nat) /\ Len(rxQueue') <= RxQueueDepth
    <3>1. /\ Append(rxQueue, arrivals + 1) \in Seq(Nat)
          /\ Len(Append(rxQueue, arrivals + 1)) = Len(rxQueue) + 1
      BY <2>2, AppendProperties DEF TypeOK
    <3>2. rxQueue \in Seq(Nat) /\ Len(rxQueue) <= RxQueueDepth
      BY DEF TypeOK
    <3> QED
      BY <1>1, <2>2, <3>1, <3>2, ArrivalStep, CaptureAssumption, SMTT(30)
  <2> QED
    BY <1>1, <2>3, <2>4, ArrivalStep DEF TypeOK, controllerVars, sysmonVars
<1>2. CASE Drain
  BY <1>2, DrainStep, CaptureAssumption, LenProperties DEF TypeOK, controllerVars, sysmonVars
<1>3. CASE \E state \in BusStates : BusErrorStateChanges(state)
  BY <1>3 DEF TypeOK, BusErrorStateChanges, captureVars, sysmonVars
<1>4. CASE ControllerLeavesBusOff
  BY <1>4 DEF TypeOK, ControllerLeavesBusOff, captureVars, sysmonVars, BusStates
<1>5. CASE SysMonSample
  <2>1. WindowSince(rxCount, lastRx) \in Counter
    <3>1. rxCount + CounterModulus - lastRx \in Int
      BY CaptureAssumption DEF TypeOK, Counter
    <3> QED
      BY <3>1, CaptureAssumption, RemainderBound DEF WindowSince, Counter
  <2>2. Accepted \in Nat
    BY DEF Accepted, TypeOK
  <2> QED
    BY <1>5, <2>1, <2>2 DEF TypeOK, SysMonSample, SysMonRuns, captureVars
<1>6. CASE SysMonReadError
  BY <1>6 DEF TypeOK, SysMonReadError, SysMonRuns, captureVars
<1>7. CASE SysMonSendStatus
  BY <1>7 DEF TypeOK, SysMonSendStatus, SysMonRuns, captureVars
<1>8. CASE SysMonRecover
  BY <1>8 DEF TypeOK, SysMonRecover, SysMonRuns, captureVars
<1>9. CASE UNCHANGED vars
  BY <1>9 DEF TypeOK, vars, captureVars, controllerVars, sysmonVars
<1> QED
  BY <1>1, <1>2, <1>3, <1>4, <1>5, <1>6, <1>7, <1>8, <1>9 DEF Next, SysMon

-----------------------------------------------------------------------------
(* Frames and counters.                                                    *)

\* The counters move with the frames.
LEMMA AccountingStep == TypeOK /\ Accounting /\ [Next]_vars => Accounting'
<1> SUFFICES ASSUME TypeOK, Accounting, [Next]_vars
             PROVE  Accounting'
  OBVIOUS
<1>1. Accepted \in Nat /\ arrivals \in Nat
  BY DEF Accepted, TypeOK
<1>2. CASE FrameArrives
  <2>1. CASE Accepted' = Accepted + 1 /\ rxCount' = Increment(rxCount) /\ dropCount' = dropCount
    <3>1. Dropped' = Dropped /\ Accepted' <= arrivals'
      BY <1>1, <1>2, <2>1, ArrivalStep DEF Dropped, Accounting
    <3>2. ((Accepted % CounterModulus) + 1) % CounterModulus = (Accepted + 1) % CounterModulus
      BY <1>1, Accepted \in Int, IncrementWraps, CaptureAssumption, Zenon
    <3>3. rxCount' = (Accepted + 1) % CounterModulus
      BY <2>1, <3>2 DEF Accounting, Increment
    <3> QED
      BY <2>1, <3>1, <3>3 DEF Accounting
  <2>2. CASE Accepted' = Accepted /\ dropCount' = Increment(dropCount) /\ rxCount' = rxCount
    <3>1. Dropped' = Dropped + 1 /\ Accepted' <= arrivals' /\ Dropped \in Int
      BY <1>1, <1>2, <2>2, ArrivalStep DEF Dropped, Accounting
    <3>2. dropCount' = (Dropped + 1) % CounterModulus
      BY <2>2, <3>1, IncrementWraps, CaptureAssumption DEF Accounting, Increment
    <3> QED
      BY <2>2, <3>1, <3>2 DEF Accounting
  <2> QED
    BY <1>2, <2>1, <2>2, ArrivalStep
<1>3. CASE Drain
  BY <1>3, DrainStep DEF Accounting, Dropped
<1>4. CASE ~FrameArrives /\ ~Drain
  BY <1>4, OtherStep DEF Next, Accounting, captureVars
<1> QED
  BY <1>2, <1>3, <1>4

\* An arriving frame is younger than the whole pipeline.
LEMMA ChronologicalStep == TypeOK /\ Chronological /\ [Next]_vars => Chronological'
<1> SUFFICES ASSUME TypeOK, Chronological, [Next]_vars
             PROVE  Chronological'
  OBVIOUS
<1>1. Pipeline \in Seq(Nat) /\ arrivals \in Nat
  BY ConcatProperties DEF Pipeline, TypeOK
<1>2. CASE FrameArrives /\ Pipeline' = Append(Pipeline, arrivals + 1)
  <2>1. /\ Len(Pipeline') = Len(Pipeline) + 1
        /\ \A i \in 1 .. Len(Pipeline) : Pipeline'[i] = Pipeline[i]
        /\ Pipeline'[Len(Pipeline) + 1] = arrivals + 1
    BY <1>1, <1>2, AppendProperties
  <2>2. arrivals' = arrivals + 1
    BY <1>2, ArrivalStep
  <2>3. \A i \in 1 .. Len(Pipeline) : Pipeline[i] \in Nat /\ Pipeline[i] <= arrivals
    BY <1>1, ElementOfSeq DEF Chronological
  <2>4. Len(Pipeline) \in Nat
    BY <1>1
  <2>5. ASSUME NEW i \in 1 .. Len(Pipeline')
        PROVE  Pipeline'[i] <= arrivals'
    BY <1>1, <2>1, <2>2, <2>3, <2>4
  <2>6. ASSUME NEW i \in 1 .. Len(Pipeline'), NEW j \in 1 .. Len(Pipeline'), i < j
        PROVE  Pipeline'[i] < Pipeline'[j]
    <3>1. i \in 1 .. Len(Pipeline) /\ Pipeline'[i] = Pipeline[i]
      BY <2>1, <2>4, <2>6
    <3>2. CASE j = Len(Pipeline) + 1
      BY <1>1, <2>1, <2>3, <3>1, <3>2
    <3>3. CASE j # Len(Pipeline) + 1
      <4>1. j \in 1 .. Len(Pipeline) /\ Pipeline'[j] = Pipeline[j]
        BY <2>1, <2>4, <3>3
      <4> QED
        BY <2>6, <3>1, <4>1 DEF Chronological
    <3> QED
      BY <3>2, <3>3
  <2> QED
    BY <2>5, <2>6 DEF Chronological
<1>3. CASE FrameArrives /\ Pipeline' = Pipeline
  <2>1. \A i \in 1 .. Len(Pipeline) : Pipeline[i] \in Nat
    BY <1>1, ElementOfSeq
  <2> QED
    BY <1>1, <1>3, <2>1, ArrivalStep DEF Chronological
<1>4. CASE Drain
  BY <1>4, DrainStep DEF Chronological
<1>5. CASE ~FrameArrives /\ ~Drain
  BY <1>5, OtherStep DEF Next, Chronological
<1> QED
  BY <1>2, <1>3, <1>4, <1>5, ArrivalStep

-----------------------------------------------------------------------------
(* The monitor.                                                            *)

\* What the bus and the drain task do between two steps of the monitor.
LEMMA FramesAccumulate ==
  ASSUME TypeOK, Accounting, FrameArrives \/ Drain
  PROVE  /\ Accepted <= Accepted' /\ Dropped <= Dropped'
         /\ UNCHANGED <<controllerVars, sysmonVars>>
<1>1. Accepted \in Nat /\ arrivals \in Nat
  BY DEF Accepted, TypeOK
<1>2. CASE FrameArrives
  BY <1>1, <1>2, ArrivalStep DEF Dropped
<1>3. CASE Drain
  BY <1>1, <1>3, DrainStep DEF Dropped
<1> QED
  BY <1>2, <1>3

\* The window is computed from two samples of a counter that may have wrapped in between.
LEMMA WindowStep ==
  TypeOK /\ Accounting /\ WindowExact /\ SampleIsMarked /\ MarkIsPast /\ [Next]_vars
    => WindowExact' /\ SampleIsMarked' /\ MarkIsPast'
<1> SUFFICES ASSUME TypeOK, Accounting, WindowExact, SampleIsMarked, MarkIsPast, [Next]_vars
             PROVE  WindowExact' /\ SampleIsMarked' /\ MarkIsPast'
  OBVIOUS
<1>1. /\ Accepted \in Nat /\ arrivals \in Nat
      /\ mark \in [arrived : Nat, accepted : Nat, before : Nat, sent : Nat]
      /\ sample \in [rx : Counter, win : Counter, state : BusStates]
  BY DEF Accepted, TypeOK
<1>2. CASE FrameArrives \/ Drain
  <2>1. Accepted' \in Int /\ Dropped' \in Int /\ Dropped \in Int
    BY <1>1, <1>2, ArrivalStep, DrainStep DEF Dropped
  <2> QED
    BY <1>1, <1>2, <2>1, FramesAccumulate
    DEF WindowExact, SampleIsMarked, MarkIsPast, sysmonVars
<1>3. CASE SysMonSample
  <2>1. /\ lastRx' = rxCount /\ sample'.rx = rxCount
        /\ sample'.win = WindowSince(rxCount, lastRx)
        /\ mark'.accepted = Accepted /\ mark'.before = mark.accepted /\ mark'.arrived = arrivals
    BY <1>1, <1>3 DEF SysMonSample
  <2>2. sample'.win = ((Accepted % CounterModulus) + CounterModulus
                        - (mark.accepted % CounterModulus)) % CounterModulus
    BY <2>1 DEF WindowSince, Accounting, SampleIsMarked
  <2>3. sample'.win = (Accepted - mark.accepted) % CounterModulus
    <3>1. Accepted \in Int /\ mark.accepted \in Int
      BY <1>1
    <3> QED
      BY <2>2, <3>1, DifferenceWraps, CaptureAssumption, Zenon
  <2>4. Accepted' = Accepted /\ Dropped' = Dropped
    BY <1>3, OtherStep DEF SysMon
  <2> QED
    BY <1>1, <2>1, <2>3, <2>4 DEF WindowExact, SampleIsMarked, MarkIsPast, Accounting, Dropped
<1>4. CASE SysMonReadError \/ SysMonSendStatus \/ SysMonRecover
  <2>1. /\ lastRx' = lastRx /\ sample'.rx = sample.rx /\ sample'.win = sample.win
        /\ mark'.accepted = mark.accepted /\ mark'.before = mark.before
        /\ mark'.arrived = mark.arrived
    BY <1>1, <1>4 DEF SysMonReadError, SysMonSendStatus, SysMonRecover
  <2> QED
    BY <1>4, <2>1, OtherStep DEF SysMon, WindowExact, SampleIsMarked, MarkIsPast
<1>5. CASE (\E state \in BusStates : BusErrorStateChanges(state)) \/ ControllerLeavesBusOff
           \/ UNCHANGED vars
  <2>1. UNCHANGED <<lastRx, sample, mark>>
    BY <1>5 DEF BusErrorStateChanges, ControllerLeavesBusOff, sysmonVars, vars
  <2> QED
    BY <1>5, <2>1, OtherStep DEF WindowExact, SampleIsMarked, MarkIsPast
<1> QED
  BY <1>2, <1>3, <1>4, <1>5 DEF Next, SysMon

\* Between the sample and the packet frames arrive; the drops are read last.
LEMMA StatusStep ==
  TypeOK /\ Accounting /\ SampleIsMarked /\ MarkIsPast /\ StatusBracketsArrivals /\ [Next]_vars
    => StatusBracketsArrivals'
<1> SUFFICES ASSUME TypeOK, Accounting, SampleIsMarked, MarkIsPast, StatusBracketsArrivals,
                    [Next]_vars
             PROVE  StatusBracketsArrivals'
  OBVIOUS
<1>1. CASE SysMonSendStatus
  <2>1. /\ statusPkt'.rx = sample.rx /\ statusPkt'.drops = dropCount
        /\ mark'.arrived = mark.arrived /\ mark'.sent = arrivals
    BY <1>1 DEF SysMonSendStatus, TypeOK
  <2> DEFINE n == mark.accepted + Dropped
  <2>2. Accepted \in Nat /\ Dropped \in Nat /\ mark.accepted \in Nat /\ mark.arrived \in Nat
        /\ arrivals = Accepted + Dropped
    BY DEF TypeOK, Accepted, Dropped, Accounting
  <2>3. n \in mark'.arrived .. mark'.sent
    BY <2>1, <2>2 DEF MarkIsPast
  <2>4. ((mark.accepted % CounterModulus) + (Dropped % CounterModulus)) % CounterModulus
          = n % CounterModulus
    <3>1. mark.accepted \in Int /\ Dropped \in Int
      BY <2>2
    <3> QED
      BY <3>1, SumWraps, CaptureAssumption, Zenon
  <2>5. (statusPkt'.rx + statusPkt'.drops) % CounterModulus = n % CounterModulus
    BY <2>1, <2>4 DEF SampleIsMarked, Accounting
  <2> QED
    BY <2>3, <2>5 DEF StatusBracketsArrivals
<1>2. CASE SysMonSample \/ SysMonReadError \/ SysMonRecover
  BY <1>2 DEF SysMonSample, SysMonReadError, SysMonRecover, SysMonRuns, StatusBracketsArrivals
<1>3. CASE \/ FrameArrives \/ Drain \/ ControllerLeavesBusOff \/ UNCHANGED vars
           \/ \E state \in BusStates : BusErrorStateChanges(state)
  <2>1. UNCHANGED sysmonVars
    BY <1>3, DrainStep DEF FrameArrives, ControllerLeavesBusOff, BusErrorStateChanges, vars
  <2> QED
    BY <2>1 DEF sysmonVars, StatusBracketsArrivals
<1> QED
  BY <1>1, <1>2, <1>3 DEF Next, SysMon

\* A recovery stays tied to the STATUS packet that reported its bus-off.
LEMMA RecoveryStep == TypeOK /\ RecoveryIsReported /\ [Next]_vars => RecoveryIsReported'
<1> SUFFICES ASSUME TypeOK, RecoveryIsReported, [Next]_vars
             PROVE  RecoveryIsReported'
  OBVIOUS
<1>1. CASE FrameArrives \/ Drain \/ UNCHANGED vars
  <2>1. UNCHANGED <<controllerVars, sysmonVars>>
    BY <1>1, DrainStep DEF FrameArrives, vars
  <2> QED
    BY <2>1 DEF controllerVars, sysmonVars, RecoveryIsReported
<1>2. CASE \E state \in BusStates : BusErrorStateChanges(state)
  BY <1>2 DEF BusErrorStateChanges, sysmonVars, RecoveryIsReported
<1>3. CASE ControllerLeavesBusOff
  BY <1>3 DEF ControllerLeavesBusOff, sysmonVars, RecoveryIsReported
<1>4. CASE SysMonSample
  BY <1>4 DEF SysMonSample, SysMonRuns, RecoveryIsReported
<1>5. CASE SysMonReadError
  BY <1>5 DEF SysMonReadError, SysMonRuns, RecoveryIsReported, TypeOK
<1>6. CASE SysMonSendStatus
  BY <1>6 DEF SysMonSendStatus, SysMonRuns, RecoveryIsReported
<1>7. CASE SysMonRecover
  BY <1>7 DEF SysMonRecover, SysMonRuns, RecoveryIsReported
<1> QED
  BY <1>1, <1>2, <1>3, <1>4, <1>5, <1>6, <1>7 DEF Next, SysMon

-----------------------------------------------------------------------------
(* The theorems.                                                           *)

\* The invariant holds at the start.
LEMMA Initially == Init => IInv
<1> SUFFICES ASSUME Init
             PROVE  IInv
  OBVIOUS
<1>1. 0 \in Counter /\ 0 % CounterModulus = 0
  BY CaptureAssumption DEF Counter
<1>2. TypeOK
  <2>1. <<>> \in Seq(Nat) /\ Len(<<>>) = 0
    BY EmptySeq
  <2>2. CaptureInit /\ RxQueueDepth >= 0
    BY CaptureAssumption DEF Init
  <2>3. /\ rxQueue \in Seq(Nat) /\ Len(rxQueue) <= RxQueueDepth
        /\ drainFrame \in Seq(Nat) /\ Len(drainFrame) <= 1
        /\ rxCount \in Counter /\ dropCount \in Counter
    BY <1>1, <2>1, <2>2 DEF CaptureInit
  <2>4. /\ sample \in [rx : Counter, win : Counter, state : BusStates]
        /\ statusPkt \in [win : Counter, state : BusStates, rx : Counter, drops : Counter]
        /\ mark \in [arrived : Nat, accepted : Nat, before : Nat, sent : Nat]
    BY <1>1 DEF Init, BusStates
  <2> QED
    BY <1>1, <2>1, <2>3, <2>4 DEF Init, TypeOK, BusStates
<1>3. Accepted = 0 /\ Dropped = 0 /\ Len(Pipeline) = 0
  <2>1. hostLog = <<>> /\ drainFrame = <<>> /\ rxQueue = <<>> /\ arrivals = 0
    BY DEF Init, CaptureInit
  <2>2. Pipeline = <<>> \o <<>> \o <<>>
    BY <2>1 DEF Pipeline
  <2>3. Pipeline = <<>>
    BY <2>2, EmptySeq, ConcatEmptySeq
  <2>4. Accepted = 0
    BY <2>1, Len(<<>>) = 0 DEF Accepted
  <2> QED
    BY <2>1, <2>3, <2>4, EmptySeq DEF Dropped
<1>4. Accounting /\ Chronological
  BY <1>1, <1>3 DEF Init, CaptureInit, Accounting, Chronological
<1>5. WindowExact /\ SampleIsMarked /\ MarkIsPast
  BY <1>1, <1>3 DEF Init, WindowExact, SampleIsMarked, MarkIsPast
<1>6. StatusBracketsArrivals /\ RecoveryIsReported
  BY DEF Init, StatusBracketsArrivals, RecoveryIsReported
<1> QED
  BY <1>2, <1>4, <1>5, <1>6 DEF IInv

\* Every step preserves it.
LEMMA Inductive == IInv /\ [Next]_vars => IInv'
  BY TypeStep, AccountingStep, ChronologicalStep, WindowStep, StatusStep, RecoveryStep DEF IInv

\* It holds in every state.
LEMMA Invariance == Spec => []IInv
  BY Initially, Inductive, PTL DEF Spec

\* The queue bound, the counters' range and the monitor's locals.
THEOREM TypeCorrect == Spec => []TypeOK
  BY Invariance, PTL DEF IInv

\* The receive and drop counters of CanLogger_RxIsrCb account for every frame of the bus.
THEOREM NoFrameUnaccounted == Spec => []Accounting
  BY Invariance, PTL DEF IInv

\* The host link carries the frames in capture order, none twice.
THEOREM CaptureOrder == Spec => []Chronological
  BY Invariance, PTL DEF IInv

\* A STATUS window counts the frames of its period, whatever the counter's width.
THEOREM WindowIsExact == Spec => []WindowExact
  BY Invariance, PTL DEF IInv

\* The two counters of a STATUS packet, read at different moments, add up to the traffic.
THEOREM StatusIsConsistent == Spec => []StatusBracketsArrivals
  BY Invariance, PTL DEF IInv

\* The node leaves bus-off only after a STATUS packet reported it.
THEOREM BusOffIsReported == Spec => RecoveryFollowsReport
<1>1. IInv /\ [Next]_vars
        => [busState = "busoff" /\ busState' # "busoff" => statusPkt.state = "busoff"]_vars
  BY DrainStep DEF IInv, RecoveryIsReported, Next, FrameArrives, BusErrorStateChanges,
     ControllerLeavesBusOff, SysMon, SysMonRuns, SysMonSample, SysMonReadError,
     SysMonSendStatus, SysMonRecover, controllerVars, vars
<1> QED
  BY <1>1, Invariance, PTL DEF Spec, RecoveryFollowsReport
=============================================================================
