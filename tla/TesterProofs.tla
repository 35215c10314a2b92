---------------------------- MODULE TesterProofs ----------------------------
(***************************************************************************)
(* Theorems about the tester on the bus of a conforming ECU, for every set *)
(* of requests and of answers, every queue, buffer and mailbox size.       *)
(*                                                                         *)
(* First what holds with any ECU: types, wakeups and the tester service.   *)
(* Then what the prompt ECU is promised. A request or its answer is at any *)
(* moment in one place at most (a mailbox, the ECU, the capture queue, the *)
(* drain task's hands, the client's slot), and while the task waits it is  *)
(* in one of them or was dropped; so the frame that the task takes is the  *)
(* answer, and a wait that expires has lost it to the full queue.          *)
(*                                                                         *)
(* Last whose answer a request is reported with, by any ECU that numbers   *)
(* its answers. They stay in the order of their requests on the whole way: *)
(* the mailboxes, the ECU, the capture queue, the drain task's hands and   *)
(* the client hold disjoint ranges of numbers, one above the other.        *)
(***************************************************************************)
EXTENDS Tester, UdsClientProofs

-----------------------------------------------------------------------------
(* The inductive invariant.                                                *)

\* What waits between the interrupt and the client are frames.
PipelineOK ==
  /\ rxQueue \in Seq(CapturedFrame)
  /\ drainFrame \in Seq(CapturedFrame)

\* The ECU sends bytes.
Transfer ==
  [pdu : Seq(Byte), sent : Nat, sn : 0 .. SnModulus - 1, state : {"none", "awaitFc", "sending"}]
EcuOK ==
  /\ ecuQueue \in Seq(Seq(Byte))
  /\ answers \in Seq(Seq(Byte))
  /\ ecuTransfer \in Transfer

IInv == UdsInv /\ PipelineOK /\ EcuOK

-----------------------------------------------------------------------------
(* Types.                                                                  *)

\* Whatever kind of answer the ECU picks is a sequence of bytes.
LEMMA ResponsePduType ==
  ASSUME NEW kind \in Kinds, NEW sid \in Byte, NEW n \in Nat
  PROVE  ResponsePdu(kind, sid, n) \in Seq(Byte)
<1> DEFINE start == <<(sid + PosRspOffset) % 256, n % 256>>
<1>1. NrSid \in Byte /\ NrcPending \in Byte /\ 49 \in Byte
  BY DEF NrSid, NrcPending, Byte
<1>2. start \in Seq(Byte)
  <2>1. (sid + PosRspOffset) % 256 \in Byte /\ n % 256 \in Byte
    BY DEF Byte, PosRspOffset
  <2> QED
    BY <2>1, FewBytes
<1>3. [i \in 1 .. 14 |-> 200 + i] \in Seq(Byte) /\ [i \in 1 .. RxBufBytes |-> 200] \in Seq(Byte)
  BY IsoTpAssumption DEF Byte
<1>4. CASE kind \in {"pending", "negative"}
  <2>1. ResponsePdu(kind, sid, n) \in {<<NrSid, sid, NrcPending>>, <<NrSid, sid, 49>>}
    BY <1>4 DEF ResponsePdu
  <2> QED
    BY <1>1, <2>1, FewBytes
<1>5. CASE kind = "positive"
  <2>1. ResponsePdu(kind, sid, n) = start
    BY <1>5 DEF ResponsePdu
  <2> QED
    BY <1>2, <2>1
<1>6. CASE kind = "long"
  <2>1. ResponsePdu(kind, sid, n) = start \o [i \in 1 .. 14 |-> 200 + i]
    BY <1>6 DEF ResponsePdu
  <2> HIDE DEF start
  <2> QED
    BY <1>2, <1>3, <2>1, ConcatProperties
<1>7. CASE kind = "oversize"
  <2>1. ResponsePdu(kind, sid, n) = start \o [i \in 1 .. RxBufBytes |-> 200]
    BY <1>7 DEF ResponsePdu
  <2> HIDE DEF start
  <2> QED
    BY <1>2, <1>3, <2>1, ConcatProperties
<1> QED
  BY <1>4, <1>5, <1>6, <1>7 DEF Kinds

\* A frame on the bus can be captured.
LEMMA BusFrameType ==
  ASSUME NEW id \in {RspId, OtherId}, NEW data \in Payload
  PROVE  BusFrame(id, data) \in CapturedFrame
  BY DEF BusFrame, CapturedFrame, TxDl

\* The interrupt keeps the pipeline well typed.
LEMMA RxIsrCbOK ==
  ASSUME PipelineOK, NEW frame \in CapturedFrame, RxIsrCb(frame)
  PROVE  PipelineOK'
  BY AppendProperties DEF PipelineOK, RxIsrCb

\* The ECU queues answers that are sequences of bytes.
LEMMA EcuServesOK ==
  ASSUME EcuOK, NEW sid \in Byte, NEW n \in Nat, EcuServes(sid, n)
  PROVE  ecuQueue' \in Seq(Seq(Byte)) /\ answers' \in Seq(Seq(Byte))
<1>1. PICK script \in Scripts :
        LET pdus == [i \in DOMAIN script |-> ResponsePdu(script[i], sid, n)] IN
          ecuQueue' = ecuQueue \o pdus /\ answers' = Append(answers, pdus[Len(pdus)])
  BY DEF EcuServes
<1> DEFINE pdus == [i \in DOMAIN script |-> ResponsePdu(script[i], sid, n)]
<1>2. script \in Seq(Kinds) /\ script # <<>>
  BY TesterAssumption
<1>3. pdus \in Seq(Seq(Byte)) /\ pdus[Len(pdus)] \in Seq(Byte)
  <2>1. \A i \in DOMAIN script : ResponsePdu(script[i], sid, n) \in Seq(Byte)
    BY <1>2, ResponsePduType
  <2>2. PICK m \in Nat \ {0} : m = Len(script)
    BY <1>2, EmptySeq
  <2>3. pdus \in [1 .. m -> Seq(Byte)]
    BY <1>2, <2>1, <2>2, LenProperties
  <2> HIDE DEF pdus
  <2>4. pdus \in Seq(Seq(Byte))
    BY <2>3, SeqDef
  <2>5. Len(pdus) \in Nat /\ 1 .. Len(pdus) = 1 .. m
    BY <2>3, <2>4, LenProperties
  <2>6. Len(pdus) = m
    BY <2>5, IntervalLength
  <2> QED
    BY <2>3, <2>4, <2>6
<1>4. ecuQueue' = ecuQueue \o pdus /\ answers' = Append(answers, pdus[Len(pdus)])
  BY <1>1
<1> HIDE DEF pdus
<1> QED
  BY <1>3, <1>4, ConcatProperties, AppendProperties DEF EcuOK

-----------------------------------------------------------------------------
(* Invariance.                                                             *)

\* An idle ECU is well formed.
LEMMA NoTransferType == NoTransfer \in Transfer
<1>1. <<>> \in Seq(Byte)
  BY EmptySeq
<1> QED
  BY <1>1 DEF NoTransfer, Transfer, SnModulus

\* The tester starts well formed.
LEMMA Initially == Init => IInv
<1> SUFFICES ASSUME Init PROVE IInv
  OBVIOUS
<1>1. UdsInv
  BY UdsInitOK DEF Init
<1>2. PipelineOK
  BY DEF Init, CaptureInit, PipelineOK
<1>3. EcuOK
  BY NoTransferType DEF Init, EcuOK
<1> QED
  BY <1>1, <1>2, <1>3 DEF IInv

\* Where no variable of the client changes, it stays well formed.
LEMMA UdsInvUnchanged ==
  ASSUME UdsInv, UNCHANGED udsVars
  PROVE  UdsInv'
  BY DEF udsVars, transactionVars, mailboxVars, UdsInv, UdsTypeOK, RecordsOK, WithinBudget,
         Notified, SilentEnds, Silence

\* Where no variable of the ECU changes, it stays well formed.
LEMMA EcuUnchanged ==
  ASSUME EcuOK, UNCHANGED ecuVars
  PROVE  EcuOK'
  BY DEF ecuVars, EcuOK

\* The ECU's steps and the controller's.
LEMMA BusStep ==
  ASSUME IInv, Bus
  PROVE  IInv'
<1> USE DEF IInv
<1>1. CASE BusCarries
  <2>1. UdsInv'
    BY <1>1, MailboxSentOK DEF BusCarries
  <2>2. PipelineOK'
    BY <1>1 DEF BusCarries, captureVars, PipelineOK
  <2>3. Head(txBox).data[2] \in Byte
    <3>1. txBox \in Seq(TxFrame) /\ txBox # <<>>
      BY <1>1 DEF BusCarries, UdsInv, UdsTypeOK, TxFrame
    <3>2. Head(txBox) \in TxFrame
      BY <3>1, HeadTailProperties
    <3> QED
      BY <3>2 DEF TxFrame, Payload, TxDl
  <2>4. Len(answers) + 1 \in Nat
    BY LenProperties DEF EcuOK
  <2>5. ecuQueue' \in Seq(Seq(Byte)) /\ answers' \in Seq(Seq(Byte))
    BY <1>1, <2>3, <2>4, EcuServesOK DEF BusCarries, EcuOK
  <2>6. ecuTransfer' \in Transfer
    BY <1>1 DEF BusCarries, EcuOK, Transfer
  <2> QED
    BY <2>1, <2>2, <2>5, <2>6 DEF EcuOK
<1>2. CASE EcuStarts
  <2> DEFINE pdu == Head(ecuQueue)
  <2>1. pdu \in Seq(Byte) /\ Tail(ecuQueue) \in Seq(Seq(Byte))
    BY <1>2, HeadTailProperties DEF EcuStarts, EcuOK
  <2>2. BusFrame(RspId, StartFrame(pdu)) \in CapturedFrame
    BY <2>1, StartFrameType, BusFrameType
  <2>3. PipelineOK'
    BY <1>2, <2>2, RxIsrCbOK DEF EcuStarts
  <2>4. ecuTransfer' \in {NoTransfer, [pdu |-> pdu, sent |-> FfFirstDl, sn |-> 1, state |-> "awaitFc"]}
        /\ ecuQueue' = Tail(ecuQueue)
    BY <1>2 DEF EcuStarts
  <2> HIDE DEF pdu
  <2>5. ecuTransfer' \in Transfer
    BY <2>1, <2>4, NoTransferType DEF Transfer, FfFirstDl, SnModulus
  <2> QED
    BY <1>2, <2>1, <2>3, <2>4, <2>5, UdsInvUnchanged DEF EcuStarts, EcuOK
<1>3. CASE EcuContinues
  <2> DEFINE pdu == ecuTransfer.pdu
             sent == ecuTransfer.sent
             next == sent + Chunk(pdu, sent)
  <2>1. pdu \in Seq(Byte) /\ sent \in Nat /\ ecuTransfer.sn \in 0 .. SnModulus - 1
    BY DEF EcuOK, Transfer
  <2>2. BusFrame(RspId, ConsecutiveFrame(pdu, sent, ecuTransfer.sn)) \in CapturedFrame
    BY <2>1, ConsecutiveFrameType, BusFrameType
  <2>3. PipelineOK'
    BY <1>3, <2>2, RxIsrCbOK DEF EcuContinues
  <2>4. next \in Nat
    <3>1. PICK n \in Nat : n = Len(pdu)
      BY <2>1, LenProperties
    <3>2. next = IF n - sent < CfDl THEN sent + (n - sent) ELSE sent + CfDl
      BY <3>1 DEF Chunk
    <3> QED
      BY <2>1, <3>2 DEF CfDl
  <2>5. NextSn(ecuTransfer.sn) \in 0 .. SnModulus - 1
    <3>1. PICK sn \in 0 .. SnModulus - 1 : sn = ecuTransfer.sn
      BY <2>1
    <3>2. (sn + 1) % SnModulus \in 0 .. SnModulus - 1
      BY DEF SnModulus
    <3> QED
      BY <3>1, <3>2 DEF NextSn
  <2>6. ecuTransfer' \in {NoTransfer, [ecuTransfer EXCEPT !.sent = next, !.sn = NextSn(@)]}
        /\ ecuQueue' = ecuQueue
    BY <1>3 DEF EcuContinues
  <2> HIDE DEF next
  <2>7. ecuTransfer' \in Transfer
    BY <2>4, <2>5, <2>6, NoTransferType DEF EcuOK, Transfer
  <2> QED
    BY <1>3, <2>3, <2>6, <2>7, UdsInvUnchanged DEF EcuContinues, EcuOK
<1>4. CASE EcuAbandons
  BY <1>4, NoTransferType, UdsInvUnchanged DEF EcuAbandons, captureVars, PipelineOK, EcuOK
<1> QED
  BY <1>1, <1>2, <1>3, <1>4 DEF Bus

\* What other nodes send is a frame.
LEMMA NoiseFrame == SingleFrame(<<NrSid, RDBI, 18>>) \in Payload
<1>1. NrSid \in Byte /\ RDBI \in Byte /\ 18 \in Byte
  BY DEF NrSid, RDBI, Byte
<1>2. <<NrSid, RDBI, 18>> \in Seq(Byte) /\ Len(<<NrSid, RDBI, 18>>) <= SfMaxDl
  BY <1>1, FewBytes DEF SfMaxDl
<1>3. StartFrame(<<NrSid, RDBI, 18>>) = SingleFrame(<<NrSid, RDBI, 18>>)
  BY <1>2, Zenon DEF StartFrame
<1> QED
  BY <1>2, <1>3, StartFrameType

\* The interrupt, the drain task, the application and the UDS task.
LEMMA OtherSteps ==
  ASSUME IInv, Noise \/ Drain \/ Application \/ UdsRuns
  PROVE  IInv'
<1> USE DEF IInv
<1>1. CASE Noise
  <2>2. BusFrame(OtherId, SingleFrame(<<NrSid, RDBI, 18>>)) \in CapturedFrame
    BY NoiseFrame, BusFrameType
  <2> QED
    BY <1>1, <2>2, RxIsrCbOK, UdsInvUnchanged, EcuUnchanged DEF Noise
<1>2. CASE Drain
  <2>1. CASE DrainReceive /\ UNCHANGED <<udsVars, ecuVars, historyVars>>
    <3>1. Head(rxQueue) \in CapturedFrame /\ Tail(rxQueue) \in Seq(CapturedFrame)
      BY <2>1, HeadTailProperties DEF DrainReceive, DrainReady, PipelineOK
    <3>2. PipelineOK'
      BY <2>1, <3>1 DEF DrainReceive, PipelineOK
    <3> QED
      BY <2>1, <3>2, UdsInvUnchanged, EcuUnchanged
  <2>2. ASSUME NEW i \in DOMAIN drainFrame, DrainSend(drainFrame[i]), OnCapturedFrame(drainFrame[i]),
               UNCHANGED <<reqQueue, task, transactionVars, sink, report, txBox, ecuVars, historyVars>>
        PROVE  IInv'
    <3>1. drainFrame[i] \in CapturedFrame
      BY <2>2, ElementOfSeq DEF PipelineOK
    <3>2. UdsInv'
      BY <2>2, <3>1, CapturedOK
    <3>3. PipelineOK'
      BY <2>2, EmptySeq DEF DrainSend, PipelineOK
    <3> QED
      BY <2>2, <3>2, <3>3, EcuUnchanged
  <2> QED
    BY <1>2, <2>1, <2>2 DEF Drain
<1>3. CASE Application
  <2>1. UdsInv'
    BY <1>3, TesterAssumption, SubmitOK, RegisterSinkOK DEF Application
  <2>2. UNCHANGED <<captureVars, ecuVars>>
    BY <1>3 DEF Application
  <2> QED
    BY <2>1, <2>2, EcuUnchanged DEF captureVars, PipelineOK
<1>4. CASE UdsRuns
  <2>1. UdsInv'
    BY <1>4, UdsTaskOK DEF UdsRuns, TimerExpires
  <2>2. UNCHANGED <<captureVars, ecuVars>>
    BY <1>4 DEF UdsRuns
  <2> QED
    BY <2>1, <2>2, EcuUnchanged DEF captureVars, PipelineOK
<1> QED
  BY <1>1, <1>2, <1>3, <1>4

\* The inductive invariant holds in every state.
LEMMA Invariance == Spec => []IInv
<1>1. ASSUME IInv, UNCHANGED vars
      PROVE  IInv'
  BY <1>1, UdsInvUnchanged, EcuUnchanged DEF vars, captureVars, IInv, PipelineOK
<1>2. IInv /\ [Next]_vars => IInv'
  BY <1>1, BusStep, OtherSteps DEF Next
<1> QED
  BY Initially, <1>2, PTL DEF Spec

-----------------------------------------------------------------------------
(* The theorems for any ECU.                                               *)

\* Whatever the ECU answers and whenever, every variable of the client keeps its type and its
\* bounds.
THEOREM TypeCorrect == Spec => []UdsTypeOK
<1>1. IInv => UdsTypeOK
  BY DEF IInv, UdsInv
<1> QED
  BY Invariance, <1>1, PTL

\* A frame that passes the interrupt, the queue and the drain task wakes the waiting UDS task,
\* whichever of its accesses to the mailbox the drain task preempts.
THEOREM NoWakeupLost == Spec => []NoLostWakeup
<1>1. IInv => NoLostWakeup
  BY DEF IInv, UdsInv, Notified, NoLostWakeup
<1> QED
  BY Invariance, <1>1, PTL

\* The tester starts as the service does.
LEMMA ServiceInit == Init => Service!Init
  BY DEF Init, UdsInit, Service!Init, InService, Transacting

\* A step of the UDS task takes the oldest request into service, ends the one in service with an
\* outcome of its kind, or is none of the service.
LEMMA ServiceTask ==
  ASSUME UdsInv, UdsTask \/ WaitExpires
  PROVE  Service!Next \/ UNCHANGED Service!vars
<1>1. CASE /\ InService = <<>> /\ reqQueue # <<>>
           /\ InService' = <<Head(reqQueue)>> /\ reqQueue' = Tail(reqQueue)
           /\ UNCHANGED <<sink, report>>
  BY <1>1 DEF Service!Next, Service!Begin
<1>2. CASE /\ InService = <<req>> /\ InService' = <<>>
           /\ report' = IF sink THEN [req |-> req, rsp |-> rsp] ELSE report
           /\ rsp.result \in {"OK", "NEGATIVE", "TIMEOUT", "TP_ERROR"}
           /\ Silence => rsp.result \in {"OK", "TP_ERROR"}
           /\ UNCHANGED <<reqQueue, sink>>
  <2>1. rsp.result \in Service!Outcomes(req)
    <3>1. CASE req \in Requests /\ Suppressed(req)
      BY <1>2, <3>1, TesterAssumption DEF Service!Outcomes, Silence
    <3>2. CASE ~ (req \in Requests /\ Suppressed(req))
      BY <1>2, <3>2 DEF Service!Outcomes
    <3> QED
      BY <3>1, <3>2
  <2>2. InService # <<>> /\ InService[1] = req
    BY <1>2
  <2>3. CASE sink
    <3>1. [req |-> report'.req, result |-> report'.rsp.result] = [req |-> req, result |-> rsp.result]
      BY <1>2, <2>3
    <3> QED
      BY <1>2, <2>1, <2>2, <2>3, <3>1 DEF Service!Next, Service!End
  <2>4. CASE ~ sink
    BY <1>2, <2>2, <2>4 DEF Service!Next, Service!End
  <2> QED
    BY <2>3, <2>4
<1>3. CASE UNCHANGED <<reqQueue, InService, sink, report>>
  BY <1>3 DEF Service!vars
<1> QED
  BY <1>1, <1>2, <1>3, UdsTaskServes

\* Every step is one of the service or none.
LEMMA ServiceStep ==
  ASSUME UdsInv, [Next]_vars
  PROVE  [Service!Next]_(Service!vars)
<1>1. ASSUME UNCHANGED <<reqQueue, task, transactionVars, sink, report>>
      PROVE  UNCHANGED Service!vars
  BY <1>1 DEF transactionVars, InService, Transacting, Service!vars
<1>2. CASE Bus
  BY <1>1, <1>2 DEF Bus, BusCarries, EcuStarts, EcuContinues, EcuAbandons, udsVars
<1>3. CASE Noise
  BY <1>1, <1>3 DEF Noise, udsVars
<1>4. CASE Drain
  BY <1>1, <1>4 DEF Drain, udsVars
<1>5. CASE Application
  <2>1. CASE \E given \in BOOLEAN : RegisterSink(given)
    BY <2>1 DEF RegisterSink, transactionVars, InService, Transacting,
                Service!Next, Service!RegisterSink
  <2>2. ASSUME NEW r \in Requests, Submit(r)
        PROVE  Service!Submit(r)
    BY <2>2 DEF Submit, transactionVars, InService, Transacting, Service!Submit
  <2> QED
    BY <1>5, <2>1, <2>2 DEF Application, Service!Next
<1>6. CASE UdsRuns
  BY <1>6, ServiceTask DEF UdsRuns, TimerExpires
<1>7. CASE UNCHANGED vars
  BY <1>1, <1>7 DEF vars, udsVars
<1> QED
  BY <1>2, <1>3, <1>4, <1>5, <1>6, <1>7 DEF Next

\* With any ECU the tester is the service that the application was promised.
THEOREM ServiceImplemented == Spec => Service!Spec
<1>1. IInv /\ [Next]_vars => [Service!Next]_(Service!vars)
  BY ServiceStep DEF IInv
<1> QED
  BY ServiceInit, Invariance, <1>1, PTL DEF Spec, Service!Spec

-----------------------------------------------------------------------------
(* What a frame says.                                                      *)

\* A request begins with its service and, for a TesterPresent, its sub-function.
LEMMA RequestBytes ==
  ASSUME NEW r \in RequestType
  PROVE  \E front \in Seq(Byte), k \in Nat \ {0} :
           /\ BuildPdu(r) = front \o r.extra
           /\ Len(front) = k /\ front[1] = r.sid
           /\ r.sid = TP => k >= 2 /\ front[2] = r.sub
<1> DEFINE body == CASE r.sid \in {DSC, TP, RDTCI} -> <<r.sub>>
                     [] r.sid = RDBI -> <<(r.did \div 256) % 256, r.did % 256>>
                     [] OTHER -> <<>>
           front == <<r.sid>> \o body
<1>1. r.sid \in Byte /\ r.sub \in Byte /\ r.did \in Nat /\ r.extra \in Seq(Byte)
  BY DEF RequestType
<1>2. (r.did \div 256) % 256 \in Byte /\ r.did % 256 \in Byte
  BY <1>1, LengthBytes, ZenonT(40)
<1>3. /\ <<r.sub>> \in Seq(Byte) /\ <<>> \in Seq(Byte)
      /\ <<(r.did \div 256) % 256, r.did % 256>> \in Seq(Byte)
  BY <1>1, <1>2, FewBytes, EmptySeq
<1>4. body \in Seq(Byte) /\ (r.sid = TP => body = <<r.sub>>)
  <2>1. CASE r.sid \in {DSC, TP, RDTCI}
    <3>1. r.sid # RDBI
      BY <2>1 DEF DSC, TP, RDTCI, RDBI
    <3>2. body = <<r.sub>>
      BY <2>1, <3>1
    <3> QED
      BY <1>3, <3>2
  <2>2. CASE r.sid = RDBI
    <3>1. r.sid \notin {DSC, TP, RDTCI}
      BY <2>2 DEF DSC, TP, RDTCI, RDBI
    <3>2. body = <<(r.did \div 256) % 256, r.did % 256>> /\ r.sid # TP
      BY <2>2, <3>1
    <3> QED
      BY <1>3, <3>2
  <2>3. CASE r.sid \notin {DSC, TP, RDTCI, RDBI}
    BY <1>3, <2>3
  <2> QED
    BY <2>1, <2>2, <2>3
<1>5. BuildPdu(r) = front \o r.extra
  BY Zenon DEF BuildPdu
<1> HIDE DEF body
<1>6. <<r.sid>> \in Seq(Byte) /\ Len(<<r.sid>>) = 1 /\ <<r.sid>>[1] = r.sid
  BY <1>1, FewBytes
<1>7. PICK b \in Nat : b = Len(body)
  BY <1>4, LenProperties
<1>8. /\ front \in Seq(Byte) /\ Len(front) = 1 + b
      /\ \A i \in 1 .. 1 + b : front[i] = IF i <= 1 THEN <<r.sid>>[i] ELSE body[i - 1]
  BY <1>4, <1>6, <1>7, ConcatProperties
<1>9. front[1] = r.sid
  BY <1>6, <1>8
<1>10. r.sid = TP => 1 + b >= 2 /\ front[2] = r.sub
  <2>1. r.sid = TP => b = 1 /\ body[1] = r.sub
    BY <1>4, <1>7
  <2> QED
    BY <1>8, <2>1
<1>11. 1 + b \in Nat \ {0}
  OBVIOUS
<1> HIDE DEF front
<1> QED
  BY <1>5, <1>8, <1>9, <1>10, <1>11, Zenon

\* What precedes the rest of a sequence is its beginning.
LEMMA Beginning ==
  ASSUME NEW s \in Seq(Byte), NEW t \in Seq(Byte), NEW k \in Nat, k = Len(s)
  PROVE  /\ s \o t \in Seq(Byte)
         /\ \E n \in Nat : n >= k /\ Len(s \o t) = n
         /\ \A i \in 1 .. k : (s \o t)[i] = s[i]
<1>1. PICK e \in Nat : e = Len(t)
  BY LenProperties
<1>2. /\ s \o t \in Seq(Byte) /\ Len(s \o t) = k + e
      /\ \A i \in 1 .. k + e : (s \o t)[i] = IF i <= k THEN s[i] ELSE t[i - k]
  BY <1>1, ConcatProperties, Zenon
<1>3. k + e \in Nat /\ k + e >= k /\ \A i \in 1 .. k : i \in 1 .. k + e /\ i <= k
  OBVIOUS
<1> QED
  BY <1>2, <1>3, Zenon

\* A PDU of which TxStart leaves nothing to send fits a single frame.
LEMMA FitsOneFrame ==
  ASSUME NEW n \in Nat, (IF n <= SfMaxDl THEN 0 ELSE n - FfFirstDl) = 0
  PROVE  n <= SfMaxDl
  BY DEF SfMaxDl, FfFirstDl

\* A request that fits one frame: its length, its service and its sub-function.
LEMMA ShortPdu ==
  ASSUME NEW r \in RequestType, Pending(BuildPdu(r)) = 0
  PROVE  \E n \in Nat :
           /\ BuildPdu(r) \in Seq(Byte) /\ Len(BuildPdu(r)) = n /\ 1 <= n /\ n <= SfMaxDl
           /\ BuildPdu(r)[1] = r.sid
           /\ r.sid = TP => n >= 2 /\ BuildPdu(r)[2] = r.sub
<1> DEFINE pdu == BuildPdu(r)
<1>1. PICK front \in Seq(Byte), k \in Nat \ {0} :
        /\ pdu = front \o r.extra
        /\ Len(front) = k /\ front[1] = r.sid
        /\ r.sid = TP => k >= 2 /\ front[2] = r.sub
  BY RequestBytes, Zenon
<1>2. r.extra \in Seq(Byte)
  BY DEF RequestType
<1>3. /\ pdu \in Seq(Byte)
      /\ \E n \in Nat : n >= k /\ Len(pdu) = n
      /\ \A i \in 1 .. k : pdu[i] = front[i]
  <2>1. k \in Nat /\ k = Len(front)
    BY <1>1
  <2>2. /\ front \o r.extra \in Seq(Byte)
        /\ \E n \in Nat : n >= k /\ Len(front \o r.extra) = n
        /\ \A i \in 1 .. k : (front \o r.extra)[i] = front[i]
    BY <1>2, <2>1, Beginning
  <2>3. pdu = front \o r.extra
    BY <1>1
  <2> HIDE DEF pdu
  <2> QED
    BY <2>2, <2>3, Zenon
<1>4. PICK n \in Nat : n >= k /\ Len(pdu) = n
  BY <1>3
<1>5. (IF n <= SfMaxDl THEN 0 ELSE n - FfFirstDl) = 0
  BY <1>4, Zenon DEF Pending
<1>6. n <= SfMaxDl
  BY <1>5, FitsOneFrame, Zenon
<1> HIDE DEF pdu
<1>7. 1 <= n /\ 1 \in 1 .. k /\ (k >= 2 => n >= 2 /\ 2 \in 1 .. k)
  BY <1>4
<1> QED
  BY <1>1, <1>3, <1>4, <1>6, <1>7, Zenon DEF pdu

\* The cells of a single frame behind its length.
LEMMA SingleFrameCells ==
  ASSUME NEW pdu \in Seq(Byte), NEW n \in Nat, n = Len(pdu), 1 <= n, n <= SfMaxDl, NEW i \in 1 .. n
  PROVE  StartFrame(pdu)[i + 1] = pdu[i]
<1> DEFINE data == StartFrame(pdu)
<1>1. SubSeq(data, 2, n + 1) = pdu /\ data \in Payload
  BY SingleFrameParts, StartFrameType, Zenon
<1> HIDE DEF data
<1>2. n + 1 <= 8
  BY DEF SfMaxDl
<1>3. \A k \in 2 .. n + 1 : data[k] \in Byte
  BY <1>1, <1>2 DEF Payload, TxDl
<1>4. \A k \in 1 .. (n + 1) - 2 + 1 : SubSeq(data, 2, n + 1)[k] = data[2 + k - 1]
  BY <1>3, SubSeqProperties
<1>5. i \in 1 .. (n + 1) - 2 + 1 /\ 2 + i - 1 = i + 1
  OBVIOUS
<1> QED
  BY <1>1, <1>4, <1>5 DEF data

\* What TxStart makes of a request says whose service it is and whether it wants an answer.
LEMMA RequestFrame ==
  ASSUME NEW r \in RequestType, Pending(BuildPdu(r)) = 0, r.sid = TP => r.sub \in {0, TpSuppress}
  PROVE  /\ Pci(StartFrame(BuildPdu(r))) = SF
         /\ StartFrame(BuildPdu(r))[2] = r.sid
         /\ Answerable(StartFrame(BuildPdu(r))) <=> ~ Suppressed(r)
<1> DEFINE pdu == BuildPdu(r)
           data == StartFrame(pdu)
<1>1. PICK n \in Nat :
        /\ pdu \in Seq(Byte) /\ Len(pdu) = n /\ 1 <= n /\ n <= SfMaxDl
        /\ pdu[1] = r.sid
        /\ r.sid = TP => n >= 2 /\ pdu[2] = r.sub
  BY ShortPdu, Zenon
<1>2. Pci(data) = SF
  BY <1>1, SingleFrameParts, Zenon
<1>3. 1 \in 1 .. n /\ 1 + 1 = 2 /\ (n >= 2 => 2 \in 1 .. n) /\ 2 + 1 = 3
  BY <1>1
<1>4. data[2] = r.sid
  <2>1. data[1 + 1] = pdu[1]
    BY <1>1, <1>3, SingleFrameCells, Zenon
  <2> QED
    BY <1>1, <1>3, <2>1, Zenon
<1>5. r.sid = TP => data[3] = r.sub
  <2>1. r.sid = TP => data[2 + 1] = pdu[2]
    BY <1>1, <1>3, SingleFrameCells, Zenon
  <2> QED
    BY <1>1, <1>3, <2>1, Zenon
<1> HIDE DEF pdu, data
<1>6. CASE r.sid = TP
  <2>1. Suppressed(r) <=> r.sub = TpSuppress
    BY <1>6 DEF Suppressed, TpSuppress
  <2>2. Answerable(data) <=> ~ (r.sub = TpSuppress)
    BY <1>4, <1>5, <1>6 DEF Answerable
  <2> QED
    BY <1>2, <1>4, <2>1, <2>2 DEF pdu, data
<1>7. CASE r.sid # TP
  BY <1>2, <1>4, <1>7 DEF Suppressed, Answerable, pdu, data
<1> QED
  BY <1>6, <1>7

-----------------------------------------------------------------------------
(* An ECU that answers every request with one frame in time.               *)

\* The two answers of that ECU to the n-th request.
PromptPdus(sid, n) == {ResponsePdu("positive", sid, n), ResponsePdu("negative", sid, n)}

\* They fit one frame, and neither asks for more time.
LEMMA PromptPdu ==
  ASSUME NEW sid \in Byte, NEW n \in Nat, NEW pdu \in PromptPdus(sid, n)
  PROVE  /\ pdu \in Seq(Byte)
         /\ \E m \in {2, 3} : Len(pdu) = m
         /\ Classify(sid, pdu).result # "BUSY"
<1>1. pdu \in Seq(Byte)
  BY ResponsePduType DEF PromptPdus, Kinds
<1>2. CASE pdu = ResponsePdu("positive", sid, n)
  <2>1. pdu = <<(sid + PosRspOffset) % 256, n % 256>>
    BY <1>2 DEF ResponsePdu
  <2>2. Len(pdu) = 2 /\ pdu[1] = (sid + PosRspOffset) % 256
    BY <2>1
  <2>3. Classify(sid, pdu).result = "OK"
    BY <2>2 DEF Classify
  <2> QED
    BY <1>1, <2>2, <2>3
<1>3. CASE pdu = ResponsePdu("negative", sid, n)
  <2>1. pdu = <<NrSid, sid, 49>>
    BY <1>3 DEF ResponsePdu
  <2>2. Len(pdu) = 3 /\ pdu[3] # NrcPending
    BY <2>1 DEF NrcPending
  <2>3. Classify(sid, pdu).result \in {"OK", "NEGATIVE", "TIMEOUT"}
    BY <2>2 DEF Classify
  <2> QED
    BY <1>1, <2>2, <2>3
<1> QED
  BY <1>2, <1>3 DEF PromptPdus

\* Fed to any context, its frame completes the answer.
LEMMA PromptFed ==
  ASSUME NEW c, ContextOK(c), NEW pdu \in Seq(Byte), NEW m \in Nat, m = Len(pdu),
         1 <= m, m <= SfMaxDl, m <= RxBufBytes
  PROVE  /\ RxFeed(c, TxDl, StartFrame(pdu)).result = "DONE"
         /\ RxFeed(c, TxDl, StartFrame(pdu)).rx.buf = pdu
<1> DEFINE data == StartFrame(pdu)
<1>2. Pci(data) = SF /\ LowNibble(data) = m /\ SubSeq(data, 2, m + 1) = pdu
  BY SingleFrameParts, Zenon
<1> HIDE DEF data
<1>3. c \in Context
  BY DEF ContextOK
<1>4. FeedSingle(c, data).rx.buf = pdu /\ FeedSingle(c, data).result = "DONE"
  BY <1>2, <1>3, FeedSingleTakes, Zenon
<1>5. RxFeed(c, TxDl, data) = FeedSingle(c, data)
  BY <1>2 DEF RxFeed, TxDl, SF, FF, CF
<1> QED
  BY <1>4, <1>5 DEF data

\* Functions with the same values are the same.
LEMMA SameCells ==
  ASSUME NEW S, NEW T
  PROVE  \A one, other \in [S -> T] : (\A i \in S : one[i] = other[i]) => one = other
  OBVIOUS

\* A payload cut in two and put together is the same payload.
LEMMA Reassembled ==
  ASSUME NEW data \in Payload, NEW n \in Nat, n <= TxDl, NEW head, head = SubSeq(data, 1, n)
  PROVE  /\ head \in Seq(Byte) /\ Len(head) = n
         /\ head \o SubSeq(data, n + 1, TxDl) = data
<1> DEFINE tail == SubSeq(data, n + 1, TxDl)
           whole == head \o tail
<1>1. /\ head \in Seq(Byte) /\ Len(head) = IF 1 <= n THEN n - 1 + 1 ELSE 0
      /\ \A i \in 1 .. n - 1 + 1 : head[i] = data[1 + i - 1]
  <2>1. \A i \in 1 .. n : data[i] \in Byte
    BY DEF Payload, TxDl
  <2> QED
    BY <2>1, SubSeqProperties
<1>2. /\ tail \in Seq(Byte) /\ Len(tail) = TxDl - n
      /\ \A i \in 1 .. TxDl - (n + 1) + 1 : tail[i] = data[(n + 1) + i - 1]
  <2>1. \A i \in n + 1 .. TxDl : data[i] \in Byte
    BY DEF Payload, TxDl
  <2>2. n + 1 \in Int /\ TxDl \in Int
    BY DEF TxDl
  <2> QED
    BY <2>1, <2>2, SubSeqProperties, PayloadRest
<1>3. Len(head) = n
  BY <1>1
<1> HIDE DEF tail
<1>4. /\ whole \in Seq(Byte) /\ Len(whole) = n + (TxDl - n)
      /\ \A i \in 1 .. n + (TxDl - n) : whole[i] = IF i <= n THEN head[i] ELSE tail[i - n]
  <2>1. /\ whole \in Seq(Byte) /\ Len(whole) = Len(head) + Len(tail)
        /\ \A i \in 1 .. Len(head) + Len(tail) :
             whole[i] = IF i <= Len(head) THEN head[i] ELSE tail[i - Len(head)]
    BY <1>1, <1>2, ConcatProperties, ZenonT(40)
  <2> QED
    BY <1>2, <1>3, <2>1, Zenon
<1>5. n + (TxDl - n) = TxDl
  BY DEF TxDl
<1> HIDE DEF whole
<1>6. whole \in [1 .. TxDl -> Byte]
  BY <1>4, <1>5, LenProperties
<1>7. ASSUME NEW i \in 1 .. TxDl
      PROVE  whole[i] = data[i]
  <2>1. whole[i] = IF i <= n THEN head[i] ELSE tail[i - n]
    BY <1>4, <1>5
  <2>2. CASE i <= n
    <3>1. i \in 1 .. n - 1 + 1 /\ 1 + i - 1 = i
      BY <2>2 DEF TxDl
    <3> QED
      BY <1>1, <2>1, <2>2, <3>1
  <2>3. CASE ~ (i <= n)
    <3>1. i - n \in 1 .. TxDl - (n + 1) + 1 /\ (n + 1) + (i - n) - 1 = i
      BY <2>3 DEF TxDl
    <3> QED
      BY <1>2, <2>1, <2>3, <3>1
  <2> QED
    BY <2>2, <2>3
<1>8. whole = data
  <2>1. data \in [1 .. TxDl -> Byte]
    BY DEF Payload
  <2>2. \A i \in 1 .. TxDl : whole[i] = data[i]
    BY <1>7
  <2>3. \A one, other \in [1 .. TxDl -> Byte] :
          (\A i \in 1 .. TxDl : one[i] = other[i]) => one = other
    BY SameCells
  <2> QED
    BY <1>6, <2>1, <2>2, <2>3, Zenon
<1> QED
  BY <1>1, <1>3, <1>8 DEF whole, tail

-----------------------------------------------------------------------------
(* Marked elements of a sequence.                                          *)

\* Some element of s is in M.
Carries(s, M) == \E i \in DOMAIN s : s[i] \in M

\* No two elements of s are in M, and the one that is belongs to G.
AtMostOne(s, M, G) ==
  /\ \A i, j \in DOMAIN s : s[i] \in M /\ s[j] \in M => i = j
  /\ \A i \in DOMAIN s : s[i] \in M => s[i] \in G

\* Where nothing is marked, nothing is wrong with it.
LEMMA NoneMarked ==
  ASSUME NEW s, NEW M, NEW G, ~ Carries(s, M)
  PROVE  AtMostOne(s, M, G)
  BY DEF Carries, AtMostOne

\* An element is added.
LEMMA AppendMarked ==
  ASSUME NEW E, NEW s \in Seq(E), NEW e \in E, NEW M, NEW G, AtMostOne(s, M, G)
  PROVE  /\ Carries(Append(s, e), M) <=> Carries(s, M) \/ e \in M
         /\ (e \in M => ~ Carries(s, M) /\ e \in G) => AtMostOne(Append(s, e), M, G)
<1> DEFINE t == Append(s, e)
<1>1. PICK n \in Nat : n = Len(s)
  BY LenProperties
<1>2. /\ t \in Seq(E) /\ Len(t) = n + 1 /\ t[n + 1] = e
      /\ \A i \in 1 .. n : t[i] = s[i]
  BY <1>1, AppendProperties
<1>3. DOMAIN t = 1 .. n + 1 /\ DOMAIN s = 1 .. n
  BY <1>1, <1>2, LenProperties
<1> HIDE DEF t
<1>4. \A i \in 1 .. n + 1 : i \in 1 .. n \/ i = n + 1
  OBVIOUS
<1>5. n + 1 \in 1 .. n + 1 /\ \A i \in 1 .. n : i \in 1 .. n + 1
  OBVIOUS
<1>6. Carries(t, M) <=> Carries(s, M) \/ e \in M
  BY <1>2, <1>3, <1>4, <1>5, Zenon DEF Carries
<1>7. (e \in M => ~ Carries(s, M) /\ e \in G) => AtMostOne(t, M, G)
  BY <1>2, <1>3, <1>4, <1>5, Zenon DEF Carries, AtMostOne
<1> QED
  BY <1>6, <1>7 DEF t

\* The first element is taken.
LEMMA TailMarked ==
  ASSUME NEW E, NEW s \in Seq(E), s # <<>>, NEW M, NEW G, AtMostOne(s, M, G)
  PROVE  /\ Carries(s, M) <=> Head(s) \in M \/ Carries(Tail(s), M)
         /\ Head(s) \in M => ~ Carries(Tail(s), M) /\ Head(s) \in G
         /\ AtMostOne(Tail(s), M, G)
<1> DEFINE t == Tail(s)
           h == Head(s)
<1>1. PICK n \in Nat \ {0} : n = Len(s)
  BY EmptySeq, LenProperties
<1>2. /\ t \in Seq(E) /\ Len(t) = n - 1
      /\ \A i \in 1 .. n - 1 : t[i] = s[i + 1]
  BY <1>1, HeadTailProperties
<1>3. h = s[1]
  OBVIOUS
<1>4. DOMAIN t = 1 .. n - 1 /\ DOMAIN s = 1 .. n
  BY <1>1, <1>2, LenProperties
<1> HIDE DEF t, h
<1>5. 1 \in 1 .. n /\ \A i \in 1 .. n - 1 : i + 1 \in 1 .. n /\ i + 1 # 1
  OBVIOUS
<1>6. \A i \in 1 .. n : i = 1 \/ \E j \in 1 .. n - 1 : i = j + 1
  <2>1. \A i \in 1 .. n : i = 1 \/ (i - 1 \in 1 .. n - 1 /\ i = (i - 1) + 1)
    OBVIOUS
  <2> QED
    BY <2>1
<1>7. \A i, j \in 1 .. n - 1 : i + 1 = j + 1 => i = j
  OBVIOUS
<1>8. Carries(s, M) <=> h \in M \/ Carries(t, M)
  <2>1. ASSUME NEW i \in 1 .. n, s[i] \in M
        PROVE  h \in M \/ Carries(t, M)
    <3>1. CASE i = 1
      BY <1>3, <2>1, <3>1
    <3>2. ASSUME NEW j \in 1 .. n - 1, i = j + 1
          PROVE  Carries(t, M)
      BY <1>2, <1>4, <2>1, <3>2, Zenon DEF Carries
    <3> QED
      BY <1>6, <3>1, <3>2
  <2>2. h \in M => Carries(s, M)
    BY <1>3, <1>4, <1>5, Zenon DEF Carries
  <2>3. Carries(t, M) => Carries(s, M)
    BY <1>2, <1>4, <1>5, Zenon DEF Carries
  <2> QED
    BY <1>4, <2>1, <2>2, <2>3 DEF Carries
<1>9. h \in M => ~ Carries(t, M) /\ h \in G
  BY <1>2, <1>3, <1>4, <1>5, Zenon DEF Carries, AtMostOne
<1>10. AtMostOne(t, M, G)
  BY <1>2, <1>4, <1>5, <1>7, ZenonT(40) DEF AtMostOne
<1> QED
  BY <1>8, <1>9, <1>10 DEF t, h

-----------------------------------------------------------------------------
(* The inductive invariant of the prompt ECU.                              *)

\* Every answer is a single frame and comes in time, the tester's buffer takes it, and the frames
\* that can be dropped in one behaviour do not make the drop counter wrap.
PromptEcu ==
  /\ Punctual
  /\ \A script \in Scripts : script \in {<<"positive">>, <<"negative">>}
  /\ RxBufBytes >= 3
  /\ MaxRequests + MaxNoise < CounterModulus

\* The requests that were answered, and those that wait.
AnswerCount == Len(answers)
Waiting == Len(reqQueue)

\* Frames of the tester and, of these, those that ask for an answer or are for r's service.
SfFrame == {f \in TxFrame : Pci(f.data) = SF}
Awaiting == {f \in SfFrame : Answerable(f.data)}
Asking(r) == {f \in SfFrame : f.data[2] = r.sid}

\* Frames that the client takes for an answer, and the one that it is to take.
Responses == {f \in CapturedFrame : IsResponse(f)}
Answer == BusFrame(RspId, StartFrame(answers[asked]))

\* Where a request or its answer may be.
InMailbox == Carries(txBox, Awaiting)
AtEcu == ecuQueue # <<>>
InQueue == Carries(rxQueue, Responses)
InHand == Carries(drainFrame, Responses)
Outstanding == InMailbox \/ AtEcu \/ InQueue \/ InHand \/ rxValid

\* It is in one place at most.
OnePlace ==
  /\ InMailbox => ~ (AtEcu \/ InQueue \/ InHand \/ rxValid)
  /\ AtEcu => ~ (InQueue \/ InHand \/ rxValid)
  /\ InQueue => ~ (InHand \/ rxValid)
  /\ InHand => ~ rxValid

\* Only what the application may ask is asked, and the keep-alive.
RequestsOK ==
  /\ reqQueue \in Seq(Requests)
  /\ Transacting => IF keepAlive THEN req = TesterPresentRequest(TRUE) ELSE req \in Requests

\* Every drop is of a frame of another node or of an answer that left the ECU.
Counts ==
  /\ asked \in Nat /\ submitted \in Nat /\ noise \in Nat /\ dropCount \in Nat
  /\ asked + Waiting + (IF task = "send" /\ ~ keepAlive THEN 1 ELSE 0) <= submitted
  /\ submitted <= MaxRequests /\ noise <= MaxNoise
  /\ dropCount + (IF AtEcu THEN 1 ELSE 0) <= noise + AnswerCount

\* In whatever place it is, it is the request of the transaction or the answer to it.
MailOK == txBox \in Seq(SfFrame) /\ AtMostOne(txBox, Awaiting, Asking(req))
QueueOK == ecuTransfer = NoTransfer /\ (AtEcu => ecuQueue = <<answers[asked]>>)
FramesOK ==
  /\ AtMostOne(rxQueue, Responses, {Answer})
  /\ AtMostOne(drainFrame, Responses, {Answer})
SlotOK ==
  /\ rxValid \/ task \in {"copyHead", "copyTail"} => rxFrame = Answer
  /\ task = "copyTail" =>
       \E n \in 0 .. TxDl : local = [dlen |-> TxDl, data |-> SubSeq(Answer.data, 1, n)]

\* How far the transaction is.
Stage ==
  /\ asked = AnswerCount + (IF InMailbox THEN 1 ELSE 0)
  /\ task \in {"wait", "check", "clear", "copyHead", "copyTail"} =>
       /\ onBus /\ asked > 0
       /\ ~ InMailbox => answers[asked] \in PromptPdus(req.sid, asked)
  /\ task = "wait" => Outstanding \/ dropCount > 0
  /\ task \in {"check", "clear"} => rxValid /\ ~ notified
  /\ task \notin {"wait", "check", "clear"} => ~ Outstanding
  /\ notified => task = "wait" /\ rxValid
  /\ phase = "rsp" /\ task # "continue"

PromptInv ==
  /\ RequestsOK /\ Counts
  /\ MailOK /\ QueueOK /\ FramesOK /\ SlotOK
  /\ OnePlace /\ Stage /\ AnswerIsHeard

-----------------------------------------------------------------------------
(* What a step that leaves something alone leaves true.                    *)

\* A request or an answer stays where it is unless that place changes.
LEMMA PlaceUnchanged ==
  /\ txBox' = txBox => (InMailbox' <=> InMailbox)
  /\ ecuQueue' = ecuQueue => (AtEcu' <=> AtEcu)
  /\ rxQueue' = rxQueue => (InQueue' <=> InQueue)
  /\ drainFrame' = drainFrame => (InHand' <=> InHand)
  BY DEF InMailbox, AtEcu, InQueue, InHand

\* It stays the right one as long as the transaction and the answer are the same.
LEMMA ContentUnchanged ==
  /\ MailOK /\ txBox' = txBox /\ (req' = req \/ ~ InMailbox) => MailOK'
  /\ UNCHANGED <<answers, asked>> => Answer' = Answer
  /\ FramesOK /\ UNCHANGED <<rxQueue, drainFrame>>
       /\ (UNCHANGED <<answers, asked>> \/ ~ (InQueue \/ InHand)) => FramesOK'
<1>1. ASSUME MailOK, txBox' = txBox, req' = req \/ ~ InMailbox
      PROVE  MailOK'
  BY <1>1, NoneMarked DEF MailOK, InMailbox
<1>2. ASSUME UNCHANGED <<answers, asked>>
      PROVE  Answer' = Answer
  BY <1>2 DEF Answer, BusFrame
<1>3. ASSUME FramesOK, UNCHANGED <<rxQueue, drainFrame>>,
             UNCHANGED <<answers, asked>> \/ ~ (InQueue \/ InHand)
      PROVE  FramesOK'
  <2>1. CASE UNCHANGED <<answers, asked>>
    BY <1>2, <1>3, <2>1 DEF FramesOK
  <2>2. CASE ~ (InQueue \/ InHand)
    BY <1>3, <2>2, NoneMarked DEF FramesOK, InQueue, InHand
  <2> QED
    BY <1>3, <2>1, <2>2
<1> QED
  BY <1>1, <1>2, <1>3

\* The counters are numbers.
LEMMA CountTypes ==
  ASSUME EcuOK, RequestsOK
  PROVE  AnswerCount \in Nat /\ Waiting \in Nat
  BY LenProperties DEF EcuOK, RequestsOK, AnswerCount, Waiting

\* There are never more answers than requests.
LEMMA AnswersAreAsked ==
  ASSUME EcuOK, RequestsOK, Counts, Stage
  PROVE  AnswerCount <= MaxRequests
<1>1. AnswerCount \in Nat /\ Waiting \in Nat /\ MaxRequests \in Nat
  BY CountTypes, TesterAssumption
<1>2. AnswerCount <= asked
  BY <1>1 DEF Stage
<1> QED
  BY <1>1, <1>2 DEF Counts

\* The drop counter does not wrap.
LEMMA DropIsCounted ==
  ASSUME PromptEcu, EcuOK, RequestsOK, Counts, Stage, dropCount + 1 <= MaxNoise + AnswerCount
  PROVE  Increment(dropCount) = dropCount + 1
<1>1. AnswerCount \in Nat /\ AnswerCount <= MaxRequests
  BY AnswersAreAsked, CountTypes
<1>2. dropCount \in Nat /\ MaxNoise \in Nat /\ MaxRequests \in Nat /\ CounterModulus \in Nat
      /\ MaxRequests + MaxNoise < CounterModulus
  BY TesterAssumption, CaptureAssumption DEF Counts, PromptEcu
<1>3. dropCount + 1 \in 0 .. CounterModulus - 1
  BY <1>1, <1>2
<1>4. (dropCount + 1) % CounterModulus = dropCount + 1
  BY <1>2, <1>3
<1> QED
  BY <1>4 DEF Increment

\* The interrupt queues the frame or counts it as dropped.
LEMMA Captured ==
  ASSUME PipelineOK, FramesOK, NEW frame \in CapturedFrame, RxIsrCb(frame),
         frame \in Responses => ~ InQueue /\ frame = Answer
  PROVE  /\ drainFrame' = drainFrame
         /\ AtMostOne(rxQueue', Responses, {Answer})
         /\ \/ dropCount' = dropCount /\ (InQueue' <=> InQueue \/ frame \in Responses)
            \/ dropCount' = Increment(dropCount) /\ (InQueue' <=> InQueue)
<1>1. rxQueue \in Seq(CapturedFrame) /\ AtMostOne(rxQueue, Responses, {Answer})
  BY DEF PipelineOK, FramesOK
<1>2. /\ Carries(Append(rxQueue, frame), Responses) <=> InQueue \/ frame \in Responses
      /\ AtMostOne(Append(rxQueue, frame), Responses, {Answer})
  BY <1>1, AppendMarked DEF InQueue
<1>3. CASE rxQueue' = Append(rxQueue, frame) /\ dropCount' = dropCount /\ drainFrame' = drainFrame
  BY <1>2, <1>3 DEF InQueue
<1>4. CASE rxQueue' = rxQueue /\ dropCount' = Increment(dropCount) /\ drainFrame' = drainFrame
  BY <1>1, <1>4 DEF InQueue
<1> QED
  BY <1>3, <1>4 DEF RxIsrCb

-----------------------------------------------------------------------------
(* The steps of the bus.                                                   *)

\* A request that reaches the prompt ECU is answered by one PDU.
LEMMA PromptServes ==
  ASSUME PromptEcu, ecuQueue = <<>>, EcuOK, NEW sid \in Byte, NEW n \in Nat, EcuServes(sid, n)
  PROVE  \E pdu \in PromptPdus(sid, n) :
           ecuQueue' = <<pdu>> /\ answers' = Append(answers, pdu)
<1>1. PICK script \in Scripts :
        LET pdus == [i \in DOMAIN script |-> ResponsePdu(script[i], sid, n)] IN
          ecuQueue' = ecuQueue \o pdus /\ answers' = Append(answers, pdus[Len(pdus)])
  BY DEF EcuServes
<1>2. PICK kind \in {"positive", "negative"} : script = <<kind>>
  BY DEF PromptEcu
<1> DEFINE pdu == ResponsePdu(kind, sid, n)
           pdus == [i \in DOMAIN script |-> ResponsePdu(script[i], sid, n)]
<1>3. pdus = <<pdu>>
  BY <1>2
<1>4. pdu \in PromptPdus(sid, n)
  BY <1>2 DEF PromptPdus
<1>5. ecuQueue' = ecuQueue \o pdus /\ answers' = Append(answers, pdus[Len(pdus)])
  BY <1>1
<1> HIDE DEF pdus, pdu
<1>6. <<>> \o <<pdu>> = <<pdu>> /\ <<pdu>>[Len(<<pdu>>)] = pdu
  OBVIOUS
<1> QED
  BY <1>3, <1>4, <1>5, <1>6

\* The last of the answers.
LEMMA LastAnswer ==
  ASSUME EcuOK, NEW pdu \in Seq(Byte), answers' = Append(answers, pdu)
  PROVE  AnswerCount' = AnswerCount + 1 /\ answers'[AnswerCount + 1] = pdu
  BY AppendProperties DEF EcuOK, AnswerCount

\* A frame of the tester gets on the bus.
LEMMA PromptBusCarries ==
  ASSUME PromptEcu, IInv, PromptInv, BusCarries
  PROVE  PromptInv'
<1> DEFINE frame == Head(txBox)
<1>1. /\ txBox \in Seq(SfFrame) /\ AtMostOne(txBox, Awaiting, Asking(req)) /\ txBox # <<>>
      /\ txBox' = Tail(txBox)
      /\ UNCHANGED <<captureVars, reqQueue, task, transactionVars, mailboxVars, historyVars>>
  BY DEF PromptInv, MailOK, BusCarries
<1>2. frame \in SfFrame /\ Tail(txBox) \in Seq(SfFrame)
  BY <1>1, HeadTailProperties
<1>3. /\ InMailbox <=> frame \in Awaiting \/ InMailbox'
      /\ frame \in Awaiting => ~ InMailbox' /\ frame \in Asking(req)
      /\ MailOK'
  <2>1. /\ InMailbox <=> frame \in Awaiting \/ Carries(Tail(txBox), Awaiting)
        /\ frame \in Awaiting => ~ Carries(Tail(txBox), Awaiting) /\ frame \in Asking(req)
        /\ AtMostOne(Tail(txBox), Awaiting, Asking(req))
    BY <1>1, TailMarked DEF InMailbox
  <2>2. req' = req
    BY <1>1 DEF transactionVars
  <2> QED
    BY <1>1, <1>2, <2>1, <2>2 DEF InMailbox, MailOK
<1>4. Pci(frame.data) # FC
  BY <1>2 DEF SfFrame, SF, FC
<1>5. /\ ecuTransfer' = ecuTransfer
      /\ IF Answerable(frame.data) THEN EcuServes(frame.data[2], AnswerCount + 1)
         ELSE UNCHANGED <<ecuQueue, answers>>
  BY <1>4 DEF BusCarries, AnswerCount
<1>6. frame \in Awaiting <=> Answerable(frame.data)
  BY <1>2 DEF Awaiting
<1>7. AnswerCount \in Nat /\ Waiting \in Nat /\ Waiting' = Waiting
  BY <1>1, CountTypes DEF IInv, PromptInv, Waiting
<1> HIDE DEF frame
<1>8. UNCHANGED <<rxQueue, drainFrame, dropCount, reqQueue, task, req, keepAlive, phase, local, rsp,
                  rxFrame, rxValid, notified, submitted, noise, asked, onBus>>
  BY <1>1 DEF captureVars, transactionVars, mailboxVars, historyVars
<1>9. CASE frame \in Awaiting
  <2>1. InMailbox /\ ~ InMailbox' /\ ~ (AtEcu \/ InQueue \/ InHand \/ rxValid)
    BY <1>3, <1>9 DEF PromptInv, OnePlace
  <2>2. frame.data[2] = req.sid /\ req.sid \in Byte
    BY <1>3, <1>9 DEF Asking, IInv, UdsInv, UdsTypeOK, RequestType
  <2>3. asked = AnswerCount + 1 /\ ~ AtEcu
    BY <2>1 DEF PromptInv, Stage
  <2>4. PICK pdu \in PromptPdus(req.sid, asked) :
          ecuQueue' = <<pdu>> /\ answers' = Append(answers, pdu)
    <3>1. ecuQueue = <<>> /\ EcuServes(req.sid, asked) /\ asked \in Nat
      BY <1>5, <1>6, <1>7, <1>9, <2>2, <2>3 DEF AtEcu
    <3> QED
      BY <2>2, <3>1, PromptServes DEF IInv
  <2>5. AnswerCount' = asked /\ answers'[asked] = pdu
    <3>1. pdu \in Seq(Byte)
      BY <1>7, <2>2, <2>3, PromptPdu
    <3> QED
      BY <2>3, <2>4, <3>1, LastAnswer DEF IInv
  <2>6. AtEcu' /\ ~ InQueue' /\ ~ InHand' /\ ~ rxValid'
    BY <1>8, <2>1, <2>4, PlaceUnchanged DEF AtEcu
  <2>7. task = "wait" /\ ~ notified
    BY <2>1 DEF PromptInv, Stage, Outstanding
  <2>8. RequestsOK' /\ FramesOK' /\ OnePlace'
    BY <1>3, <1>8, <2>1, <2>6, <2>7, ContentUnchanged, NoneMarked
       DEF PromptInv, RequestsOK, Transacting, FramesOK, OnePlace, InQueue, InHand
  <2>9. QueueOK'
    BY <1>5, <1>8, <2>4, <2>5 DEF PromptInv, QueueOK
  <2>10. SlotOK'
    BY <1>8, <2>1, <2>7 DEF SlotOK
  <2>11. Counts'
    BY <1>7, <1>8, <2>3, <2>5, <2>6, <2>1 DEF PromptInv, Counts
  <2>12. Stage'
    <3>1. asked' = AnswerCount' + (IF InMailbox' THEN 1 ELSE 0) /\ asked' > 0
      BY <1>7, <1>8, <2>1, <2>3, <2>5
    <3>2. answers'[asked'] \in PromptPdus(req'.sid, asked')
      BY <1>8, <2>4, <2>5
    <3>3. onBus' /\ task' = "wait" /\ ~ notified' /\ phase' = "rsp" /\ Outstanding'
      BY <1>8, <2>6, <2>7 DEF PromptInv, Stage, Outstanding
    <3> QED
      BY <3>1, <3>2, <3>3 DEF Stage
  <2>13. AnswerIsHeard'
    BY <1>8, <2>7 DEF AnswerIsHeard, Reporting
  <2> QED
    BY <1>3, <2>8, <2>9, <2>10, <2>11, <2>12, <2>13 DEF PromptInv
<1>10. CASE frame \notin Awaiting
  <2>1. UNCHANGED <<ecuQueue, answers, ecuTransfer>>
    BY <1>5, <1>6, <1>10
  <2>2. /\ InMailbox' <=> InMailbox
        /\ AtEcu' <=> AtEcu
        /\ InQueue' <=> InQueue
        /\ InHand' <=> InHand
    BY <1>3, <1>8, <1>10, <2>1, PlaceUnchanged
  <2>3. AnswerCount' = AnswerCount /\ Answer' = Answer
    BY <1>8, <2>1, ContentUnchanged DEF AnswerCount
  <2>4. RequestsOK' /\ FramesOK' /\ OnePlace' /\ QueueOK' /\ SlotOK'
    BY <1>8, <2>1, <2>2, <2>3, ContentUnchanged
       DEF PromptInv, RequestsOK, Transacting, OnePlace, QueueOK, SlotOK
  <2>5. Counts' /\ Stage'
    BY <1>7, <1>8, <2>1, <2>2, <2>3 DEF PromptInv, Counts, Stage, Outstanding
  <2>6. AnswerIsHeard'
    BY <1>8, <2>1 DEF PromptInv, AnswerIsHeard, Reporting, ResponseFor
  <2> QED
    BY <1>3, <2>4, <2>5, <2>6 DEF PromptInv
<1> QED
  BY <1>9, <1>10

\* The answer to the request is one frame of the ECU.
LEMMA AnswerFrame ==
  ASSUME PromptEcu, IInv, PromptInv, Outstanding, ~ InMailbox
  PROVE  /\ answers[asked] \in PromptPdus(req.sid, asked) /\ answers[asked] \in Seq(Byte)
         /\ Pending(answers[asked]) = 0
         /\ StartFrame(answers[asked]) \in Payload
         /\ Answer \in Responses
<1>1. task \in {"wait", "check", "clear"}
  BY DEF PromptInv, Stage
<1>2. answers[asked] \in PromptPdus(req.sid, asked)
  BY <1>1 DEF PromptInv, Stage
<1>3. req.sid \in Byte /\ asked \in Nat
  BY DEF IInv, UdsInv, UdsTypeOK, RequestType, PromptInv, Counts
<1> DEFINE pdu == answers[asked]
<1>4. pdu \in Seq(Byte) /\ \E m \in {2, 3} : Len(pdu) = m
  BY <1>2, <1>3, PromptPdu
<1>5. Pending(pdu) = 0
  BY <1>4 DEF Pending, SfMaxDl
<1>6. StartFrame(pdu) \in Payload
  BY <1>4, StartFrameType
<1> HIDE DEF pdu
<1>7. BusFrame(RspId, StartFrame(pdu)) \in Responses
  BY <1>6, BusFrameType DEF Responses, IsResponse, BusFrame
<1> QED
  BY <1>2, <1>4, <1>5, <1>6, <1>7 DEF pdu, Answer

\* The ECU sends its answer: the frame is queued or dropped.
LEMMA PromptEcuStarts ==
  ASSUME PromptEcu, IInv, PromptInv, EcuStarts
  PROVE  PromptInv'
<1>1. AtEcu /\ Outstanding /\ ~ (InMailbox \/ InQueue \/ InHand \/ rxValid)
  BY DEF EcuStarts, AtEcu, Outstanding, PromptInv, OnePlace
<1>2. ecuQueue = <<answers[asked]>>
  BY <1>1 DEF PromptInv, QueueOK
<1>3. Head(ecuQueue) = answers[asked] /\ Tail(ecuQueue) = <<>>
  BY <1>2
<1>4. Answer \in Responses /\ Answer \in CapturedFrame /\ Pending(answers[asked]) = 0
  BY <1>1, AnswerFrame DEF Responses
<1>5. /\ RxIsrCb(Answer) /\ ecuTransfer' = NoTransfer /\ ecuQueue' = <<>>
      /\ UNCHANGED <<udsVars, answers, historyVars>>
  BY <1>3, <1>4 DEF EcuStarts, Answer
<1>6. UNCHANGED <<reqQueue, task, req, keepAlive, phase, local, rsp, txBox, rxFrame, rxValid,
                  notified, answers, submitted, noise, asked, onBus>>
  BY <1>5 DEF udsVars, transactionVars, mailboxVars, historyVars
<1>7. /\ drainFrame' = drainFrame
      /\ AtMostOne(rxQueue', Responses, {Answer})
      /\ \/ dropCount' = dropCount /\ InQueue'
         \/ dropCount' = Increment(dropCount) /\ ~ InQueue'
  BY <1>1, <1>4, <1>5, Captured DEF IInv, PromptInv
<1>8. /\ InMailbox' <=> InMailbox
      /\ InHand' <=> InHand
      /\ ~ AtEcu' /\ ~ rxValid'
  BY <1>1, <1>5, <1>6, <1>7, PlaceUnchanged DEF AtEcu
<1>9. Answer' = Answer /\ AnswerCount' = AnswerCount /\ Waiting' = Waiting
      /\ AnswerCount \in Nat /\ Waiting \in Nat
  BY <1>6, ContentUnchanged, CountTypes DEF AnswerCount, Waiting, IInv, PromptInv
<1>10. task = "wait"
  BY <1>1 DEF PromptInv, Stage, Outstanding
<1>11. dropCount \in Nat /\ Increment(dropCount) = dropCount + 1
       /\ dropCount + 1 <= noise + AnswerCount
  <2>1. /\ dropCount \in Nat /\ noise \in Nat /\ noise <= MaxNoise /\ MaxNoise \in Nat
        /\ dropCount + 1 <= noise + AnswerCount
    BY <1>1, TesterAssumption DEF PromptInv, Counts
  <2>2. dropCount + 1 <= MaxNoise + AnswerCount
    BY <1>9, <2>1
  <2> QED
    BY <2>1, <2>2, DropIsCounted DEF IInv, PromptInv
<1>12. MailOK' /\ RequestsOK' /\ QueueOK' /\ SlotOK'
  BY <1>1, <1>5, <1>6, <1>8, <1>10, ContentUnchanged
     DEF PromptInv, RequestsOK, Transacting, QueueOK, SlotOK
<1>13. FramesOK'
  BY <1>7, <1>9 DEF PromptInv, FramesOK
<1>14. OnePlace'
  BY <1>1, <1>8 DEF OnePlace
<1>15. Counts'
  BY <1>1, <1>6, <1>7, <1>8, <1>9, <1>11 DEF PromptInv, Counts
<1>16. Stage'
  <2>1. Outstanding' \/ dropCount' > 0
    BY <1>7, <1>11 DEF Outstanding
  <2> QED
    BY <1>6, <1>8, <1>9, <1>10, <2>1 DEF PromptInv, Stage
<1>17. AnswerIsHeard'
  BY <1>6, <1>10 DEF AnswerIsHeard, Reporting
<1> QED
  BY <1>12, <1>13, <1>14, <1>15, <1>16, <1>17 DEF PromptInv

\* A frame of another node is queued or dropped.
LEMMA PromptNoise ==
  ASSUME PromptEcu, IInv, PromptInv, Noise
  PROVE  PromptInv'
<1> DEFINE frame == BusFrame(OtherId, SingleFrame(<<NrSid, RDBI, 18>>))
<1>1. frame \in CapturedFrame /\ frame \notin Responses
  BY NoiseFrame, BusFrameType DEF Responses, IsResponse, BusFrame, OtherId, RspId
<1>2. /\ noise < MaxNoise /\ noise' = noise + 1 /\ RxIsrCb(frame)
      /\ UNCHANGED <<udsVars, ecuVars, submitted, asked, onBus>>
  BY DEF Noise
<1> HIDE DEF frame
<1>3. UNCHANGED <<reqQueue, task, req, keepAlive, phase, local, rsp, txBox, rxFrame, rxValid,
                  notified, ecuQueue, ecuTransfer, answers, submitted, asked, onBus>>
  BY <1>2 DEF udsVars, transactionVars, mailboxVars, ecuVars
<1>4. /\ drainFrame' = drainFrame
      /\ AtMostOne(rxQueue', Responses, {Answer})
      /\ dropCount' \in {dropCount, Increment(dropCount)}
      /\ InQueue' <=> InQueue
  BY <1>1, <1>2, Captured DEF IInv, PromptInv
<1>5. /\ InMailbox' <=> InMailbox
      /\ AtEcu' <=> AtEcu
      /\ InHand' <=> InHand
      /\ Outstanding' <=> Outstanding
  BY <1>3, <1>4, PlaceUnchanged DEF Outstanding
<1>6. Answer' = Answer /\ AnswerCount' = AnswerCount /\ Waiting' = Waiting
      /\ AnswerCount \in Nat /\ Waiting \in Nat
  BY <1>3, ContentUnchanged, CountTypes DEF AnswerCount, Waiting, IInv, PromptInv
<1>7. dropCount \in Nat /\ Increment(dropCount) = dropCount + 1
  <2>1. /\ dropCount \in Nat /\ noise \in Nat /\ MaxNoise \in Nat
        /\ dropCount <= noise + AnswerCount
    BY <1>6, TesterAssumption DEF PromptInv, Counts
  <2>2. dropCount + 1 <= MaxNoise + AnswerCount
    BY <1>2, <1>6, <2>1
  <2> QED
    BY <2>1, <2>2, DropIsCounted DEF IInv, PromptInv
<1>8. MailOK' /\ RequestsOK' /\ QueueOK' /\ SlotOK' /\ OnePlace'
  BY <1>3, <1>4, <1>5, <1>6, ContentUnchanged
     DEF PromptInv, RequestsOK, Transacting, QueueOK, SlotOK, OnePlace
<1>9. FramesOK'
  BY <1>4, <1>6 DEF PromptInv, FramesOK
<1>10. Counts'
  <2>1. MaxNoise \in Nat
    BY TesterAssumption
  <2>2. noise' \in Nat /\ noise' <= MaxNoise /\ dropCount' \in Nat
        /\ dropCount' + (IF AtEcu' THEN 1 ELSE 0) <= noise' + AnswerCount'
    <3>1. PICK e \in {0, 1} : e = IF AtEcu THEN 1 ELSE 0
      OBVIOUS
    <3>2. noise \in Nat /\ dropCount + e <= noise + AnswerCount
      BY <3>1 DEF PromptInv, Counts
    <3>3. (IF AtEcu' THEN 1 ELSE 0) = e
      BY <1>5, <3>1
    <3>4. dropCount' \in {dropCount, dropCount + 1}
      BY <1>4, <1>7
    <3>5. noise < MaxNoise /\ noise' = noise + 1 /\ dropCount \in Nat
          /\ AnswerCount \in Nat /\ AnswerCount' = AnswerCount
      BY <1>2, <1>6, <1>7
    <3>6. noise' \in Nat /\ noise' <= MaxNoise /\ dropCount' \in Nat
      BY <2>1, <3>2, <3>4, <3>5
    <3>7. dropCount' + e <= noise' + AnswerCount'
      <4>1. e \in Nat
        BY <3>1
      <4>2. \A d \in {dropCount, dropCount + 1} : d + e <= (noise + 1) + AnswerCount
        BY <3>2, <3>5, <4>1
      <4> QED
        BY <3>4, <3>5, <4>2
    <3> QED
      BY <3>3, <3>6, <3>7
  <2> QED
    BY <1>3, <1>6, <2>2 DEF PromptInv, Counts
<1>11. Stage'
  <2>1. dropCount > 0 => dropCount' > 0
    BY <1>4, <1>7
  <2> QED
    BY <1>3, <1>5, <1>6, <2>1 DEF PromptInv, Stage
<1>12. AnswerIsHeard'
  <2>1. dropCount > 0 => dropCount' > 0
    BY <1>4, <1>7
  <2> QED
    BY <1>3, <2>1 DEF PromptInv, AnswerIsHeard, Reporting, ResponseFor
<1> QED
  BY <1>8, <1>9, <1>10, <1>11, <1>12 DEF PromptInv

\* The prompt ECU segments nothing.
LEMMA PromptBus ==
  ASSUME PromptEcu, IInv, PromptInv, Bus
  PROVE  PromptInv'
<1>1. ~ EcuContinues /\ ~ EcuAbandons
  BY DEF EcuContinues, EcuAbandons, PromptInv, QueueOK, NoTransfer
<1> QED
  BY <1>1, PromptBusCarries, PromptEcuStarts DEF Bus

-----------------------------------------------------------------------------
(* The steps of the drain task and of the application.                     *)

\* A sequence of one element carries that element, an empty one nothing.
LEMMA OneElement ==
  ASSUME NEW h, NEW M, NEW G
  PROVE  /\ Carries(<<h>>, M) <=> h \in M
         /\ ~ Carries(<<>>, M)
         /\ (h \in M => h \in G) => AtMostOne(<<h>>, M, G)
<1>1. DOMAIN <<h>> = 1 .. 1 /\ <<h>>[1] = h /\ DOMAIN <<>> = 1 .. 0
  OBVIOUS
<1>2. 1 \in 1 .. 1 /\ \A i \in 1 .. 1 : i = 1
  OBVIOUS
<1>3. \A i \in 1 .. 0 : FALSE
  OBVIOUS
<1> DEFINE s == <<h>>
           t == <<>>
<1>4. DOMAIN s = 1 .. 1 /\ s[1] = h /\ DOMAIN t = 1 .. 0
  BY <1>1
<1> HIDE DEF s, t
<1>5. /\ Carries(s, M) <=> h \in M
      /\ ~ Carries(t, M)
      /\ (h \in M => h \in G) => AtMostOne(s, M, G)
  BY <1>2, <1>3, <1>4, Zenon DEF Carries, AtMostOne
<1> QED
  BY <1>5 DEF s, t

\* The drain task takes a frame off the queue.
LEMMA PromptDrainReceive ==
  ASSUME IInv, PromptInv, DrainReceive, UNCHANGED <<udsVars, ecuVars, historyVars>>
  PROVE  PromptInv'
<1> DEFINE frame == Head(rxQueue)
<1>1. /\ drainFrame = <<>> /\ rxQueue # <<>>
      /\ drainFrame' = <<frame>> /\ rxQueue' = Tail(rxQueue) /\ dropCount' = dropCount
  BY DEF DrainReceive, DrainReady
<1>2. rxQueue \in Seq(CapturedFrame) /\ AtMostOne(rxQueue, Responses, {Answer})
  BY DEF IInv, PipelineOK, PromptInv, FramesOK
<1>3. /\ InQueue <=> frame \in Responses \/ InQueue'
      /\ frame \in Responses => ~ InQueue' /\ frame \in {Answer}
      /\ AtMostOne(rxQueue', Responses, {Answer})
  <2>1. /\ InQueue <=> frame \in Responses \/ Carries(Tail(rxQueue), Responses)
        /\ frame \in Responses => ~ Carries(Tail(rxQueue), Responses) /\ frame \in {Answer}
        /\ AtMostOne(Tail(rxQueue), Responses, {Answer})
    BY <1>1, <1>2, TailMarked DEF InQueue
  <2> QED
    BY <1>1, <2>1 DEF InQueue
<1> HIDE DEF frame
<1>4. /\ InHand' <=> frame \in Responses
      /\ ~ InHand
      /\ AtMostOne(drainFrame', Responses, {Answer})
  BY <1>1, <1>3, OneElement DEF InHand
<1>5. UNCHANGED <<reqQueue, task, req, keepAlive, phase, local, rsp, txBox, rxFrame, rxValid,
                  notified, ecuQueue, ecuTransfer, answers, submitted, noise, asked, onBus>>
  BY DEF udsVars, transactionVars, mailboxVars, ecuVars, historyVars
<1>6. /\ InMailbox' <=> InMailbox
      /\ AtEcu' <=> AtEcu
  BY <1>5, PlaceUnchanged
<1>7. Answer' = Answer /\ AnswerCount' = AnswerCount /\ Waiting' = Waiting
  BY <1>5, ContentUnchanged DEF AnswerCount, Waiting
<1>8. FramesOK'
  BY <1>3, <1>4, <1>7 DEF FramesOK
<1>9. Outstanding' <=> Outstanding
  BY <1>3, <1>4, <1>5, <1>6 DEF Outstanding
<1>10. OnePlace'
  BY <1>3, <1>4, <1>5, <1>6 DEF PromptInv, OnePlace
<1>11. MailOK' /\ RequestsOK' /\ QueueOK' /\ SlotOK'
  BY <1>5, <1>6, <1>7, ContentUnchanged
     DEF PromptInv, RequestsOK, Transacting, QueueOK, SlotOK
<1>12. Counts' /\ Stage'
  BY <1>1, <1>5, <1>6, <1>7, <1>9 DEF PromptInv, Counts, Stage
<1>13. AnswerIsHeard'
  BY <1>1, <1>5 DEF PromptInv, AnswerIsHeard, Reporting, ResponseFor
<1> QED
  BY <1>8, <1>10, <1>11, <1>12, <1>13 DEF PromptInv

\* The drain task has logged the frame and hands it to the client.
LEMMA PromptDrainSend ==
  ASSUME IInv, PromptInv, NEW frame, DrainSend(frame), OnCapturedFrame(frame),
         UNCHANGED <<reqQueue, task, transactionVars, sink, report, txBox, ecuVars, historyVars>>
  PROVE  PromptInv'
<1>1. /\ drainFrame = <<frame>> /\ drainFrame' = <<>>
      /\ UNCHANGED <<rxQueue, dropCount>>
  BY DEF DrainSend
<1>2. frame \in CapturedFrame /\ (frame \in Responses <=> Addressed(frame))
  <2>1. frame \in CapturedFrame
    BY <1>1 DEF IInv, PipelineOK
  <2> QED
    BY <2>1 DEF Responses, IsResponse, Addressed
<1>3. /\ InHand <=> frame \in Responses
      /\ ~ InHand'
  BY <1>1, OneElement DEF InHand
<1>4. frame \in Responses => frame = Answer
  <2>1. AtMostOne(<<frame>>, Responses, {Answer})
    BY <1>1 DEF PromptInv, FramesOK
  <2>2. DOMAIN <<frame>> = 1 .. 1 /\ <<frame>>[1] = frame /\ 1 \in 1 .. 1
    OBVIOUS
  <2> QED
    BY <2>1, <2>2 DEF AtMostOne
<1>5. UNCHANGED <<reqQueue, task, req, keepAlive, phase, local, rsp, txBox, ecuQueue, ecuTransfer,
                  answers, submitted, noise, asked, onBus, rxQueue, dropCount>>
  BY <1>1 DEF transactionVars, ecuVars, historyVars
<1>6. /\ InMailbox' <=> InMailbox
      /\ AtEcu' <=> AtEcu
      /\ InQueue' <=> InQueue
  BY <1>5, PlaceUnchanged
<1>7. Answer' = Answer /\ AnswerCount' = AnswerCount /\ Waiting' = Waiting
  BY <1>5, ContentUnchanged DEF AnswerCount, Waiting
<1>8. FramesOK'
  BY <1>3, <1>5, <1>7, NoneMarked DEF PromptInv, FramesOK, InHand
<1>9. MailOK' /\ RequestsOK' /\ QueueOK' /\ Counts' /\ AnswerIsHeard'
  BY <1>5, <1>6, <1>7, ContentUnchanged
     DEF PromptInv, RequestsOK, Transacting, QueueOK, Counts, AnswerIsHeard, Reporting, ResponseFor
<1>10. CASE frame \in Responses
  <2>1. rxFrame' = frame /\ rxValid' = TRUE /\ notified' = (notified \/ task # "boot")
    BY <1>2, <1>10 DEF OnCapturedFrame
  <2>2. task = "wait"
    BY <1>3, <1>10 DEF PromptInv, Stage, OnePlace, Outstanding
  <2>3. SlotOK'
    BY <1>4, <1>5, <1>7, <1>10, <2>1, <2>2 DEF SlotOK
  <2>4. OnePlace'
    BY <1>3, <1>6, <1>10 DEF PromptInv, OnePlace
  <2>5. Stage'
    BY <1>5, <1>6, <1>7, <2>1, <2>2 DEF PromptInv, Stage, Outstanding
  <2> QED
    BY <1>8, <1>9, <2>3, <2>4, <2>5 DEF PromptInv
<1>11. CASE frame \notin Responses
  <2>1. UNCHANGED <<rxFrame, rxValid, notified>>
    BY <1>2, <1>11 DEF OnCapturedFrame, mailboxVars
  <2>2. SlotOK' /\ OnePlace'
    BY <1>3, <1>5, <1>6, <1>7, <1>11, <2>1 DEF PromptInv, SlotOK, OnePlace
  <2>3. Outstanding' <=> Outstanding
    BY <1>3, <1>6, <1>11, <2>1 DEF Outstanding
  <2>4. Stage'
    BY <1>5, <1>6, <1>7, <2>1, <2>3 DEF PromptInv, Stage
  <2> QED
    BY <1>8, <1>9, <2>2, <2>4 DEF PromptInv
<1> QED
  BY <1>10, <1>11

\* The application submits a request or registers its sink.
LEMMA PromptApplication ==
  ASSUME IInv, PromptInv, Application
  PROVE  PromptInv'
<1>1. UNCHANGED <<task, req, keepAlive, phase, local, rsp, txBox, rxFrame, rxValid, notified,
                  ecuQueue, ecuTransfer, answers, noise, asked, onBus, rxQueue, drainFrame,
                  dropCount>>
  BY DEF Application, Submit, RegisterSink, captureVars, transactionVars, mailboxVars, ecuVars,
         historyVars
<1>2. /\ InMailbox' <=> InMailbox
      /\ AtEcu' <=> AtEcu
      /\ InQueue' <=> InQueue
      /\ InHand' <=> InHand
      /\ Outstanding' <=> Outstanding
  BY <1>1, PlaceUnchanged DEF Outstanding
<1>3. Answer' = Answer /\ AnswerCount' = AnswerCount
  BY <1>1, ContentUnchanged DEF AnswerCount
<1>4. MailOK' /\ QueueOK' /\ FramesOK' /\ SlotOK' /\ OnePlace'
  BY <1>1, <1>2, <1>3, ContentUnchanged DEF PromptInv, QueueOK, SlotOK, OnePlace
<1>5. Stage' /\ AnswerIsHeard'
  BY <1>1, <1>2, <1>3 DEF PromptInv, Stage, AnswerIsHeard, Reporting, ResponseFor
<1>6. CASE (\E given \in BOOLEAN : RegisterSink(given)) /\ UNCHANGED historyVars
  <2>1. UNCHANGED <<reqQueue, submitted>> /\ Waiting' = Waiting
    BY <1>6 DEF RegisterSink, historyVars, Waiting
  <2>2. RequestsOK' /\ Counts'
    BY <1>1, <1>2, <1>3, <2>1 DEF PromptInv, RequestsOK, Transacting, Counts
  <2> QED
    BY <1>4, <1>5, <2>2 DEF PromptInv
<1>7. ASSUME NEW r \in Requests, Submit(r), submitted < MaxRequests, submitted' = submitted + 1
      PROVE  PromptInv'
  <2>1. reqQueue \in Seq(Requests) /\ reqQueue' = Append(reqQueue, r)
    BY <1>7 DEF Submit, PromptInv, RequestsOK
  <2>2. reqQueue' \in Seq(Requests) /\ Waiting' = Waiting + 1 /\ Waiting \in Nat
    BY <2>1, AppendProperties, LenProperties DEF Waiting
  <2>3. RequestsOK'
    BY <1>1, <2>2 DEF PromptInv, RequestsOK, Transacting
  <2>4. Counts'
    <3>1. PICK e \in {0, 1} : e = IF task = "send" /\ ~ keepAlive THEN 1 ELSE 0
      OBVIOUS
    <3>2. (IF task' = "send" /\ ~ keepAlive' THEN 1 ELSE 0) = e
      BY <1>1, <3>1
    <3>3. asked \in Nat /\ submitted \in Nat /\ asked + Waiting + e <= submitted
          /\ MaxRequests \in Nat
      BY <3>1, TesterAssumption DEF PromptInv, Counts
    <3>4. submitted' \in Nat /\ submitted' <= MaxRequests /\ asked + Waiting' + e <= submitted'
      <4>1. e \in Nat
        BY <3>1
      <4> QED
        BY <1>7, <2>2, <3>3, <4>1
    <3> QED
      BY <1>1, <1>2, <1>3, <3>2, <3>4 DEF PromptInv, Counts
  <2> QED
    BY <1>4, <1>5, <2>3, <2>4 DEF PromptInv
<1> QED
  BY <1>6, <1>7 DEF Application

-----------------------------------------------------------------------------
(* The steps of the UDS task.                                              *)

\* What a step that sends nothing leaves alone.
LEMMA TaskLeaves ==
  ASSUME IInv, PromptInv, UdsRuns, task # "send", txBox' = txBox, req' = req \/ ~ InMailbox
  PROVE  /\ InMailbox' <=> InMailbox
         /\ AtEcu' <=> AtEcu
         /\ InQueue' <=> InQueue
         /\ InHand' <=> InHand
         /\ MailOK' /\ QueueOK' /\ FramesOK'
         /\ Answer' = Answer /\ AnswerCount' = AnswerCount
         /\ UNCHANGED <<answers, asked, onBus, submitted, noise, dropCount>>
<1>1. UNCHANGED <<rxQueue, drainFrame, dropCount, ecuQueue, ecuTransfer, answers, submitted, noise>>
      /\ asked' = asked /\ onBus' = onBus
  BY DEF UdsRuns, Asks, captureVars, ecuVars
<1>2. /\ InMailbox' <=> InMailbox
      /\ AtEcu' <=> AtEcu
      /\ InQueue' <=> InQueue
      /\ InHand' <=> InHand
  BY <1>1, PlaceUnchanged
<1>3. Answer' = Answer /\ AnswerCount' = AnswerCount
  BY <1>1, ContentUnchanged DEF AnswerCount
<1>4. MailOK' /\ QueueOK' /\ FramesOK'
  BY <1>1, <1>2, <1>3, ContentUnchanged DEF PromptInv, QueueOK
<1> QED
  BY <1>1, <1>2, <1>3, <1>4

\* The counts hold where no request is taken or sent.
LEMMA CountsLeft ==
  ASSUME Counts, UNCHANGED <<reqQueue, asked, submitted, noise, dropCount>>,
         AnswerCount' = AnswerCount, AtEcu' <=> AtEcu, task # "send", task' # "send"
  PROVE  Counts'
  BY DEF Counts, Waiting

\* The task starts, or has reported.
LEMMA PromptIdles ==
  ASSUME IInv, PromptInv, UdsRuns, Boot \/ Report
  PROVE  PromptInv'
<1>1. task \in {"boot", "report"} /\ task' = "idle"
      /\ UNCHANGED <<reqQueue, req, keepAlive, phase, local, txBox, rxFrame, rxValid, notified>>
  BY DEF Boot, Report, UdsStep, transactionVars
<1>2. /\ InMailbox' <=> InMailbox
      /\ AtEcu' <=> AtEcu
      /\ InQueue' <=> InQueue
      /\ InHand' <=> InHand
      /\ MailOK' /\ QueueOK' /\ FramesOK'
      /\ Answer' = Answer /\ AnswerCount' = AnswerCount
      /\ UNCHANGED <<answers, asked, onBus, submitted, noise, dropCount>>
  BY <1>1, TaskLeaves
<1>3. ~ Outstanding /\ ~ Outstanding'
  BY <1>1, <1>2 DEF PromptInv, Stage, Outstanding
<1>4. RequestsOK' /\ SlotOK' /\ OnePlace' /\ Counts'
  BY <1>1, <1>2, <1>3, CountsLeft
     DEF PromptInv, RequestsOK, Transacting, SlotOK, OnePlace, Outstanding
<1>5. Stage' /\ AnswerIsHeard'
  BY <1>1, <1>2, <1>3 DEF PromptInv, Stage, AnswerIsHeard, Reporting
<1> QED
  BY <1>2, <1>4, <1>5 DEF PromptInv

\* A transaction begins: nothing is under way.
LEMMA PromptBegins ==
  ASSUME IInv, PromptInv, UdsRuns, ReceiveRequest \/ KeepAliveDue
  PROVE  PromptInv'
<1>1. task = "idle" /\ task' = "send" /\ phase' = "rsp" /\ rxValid' = FALSE
      /\ UNCHANGED <<txBox, rxFrame, notified>>
  BY DEF ReceiveRequest, KeepAliveDue, BeginTransaction, UdsStep
<1>2. ~ Outstanding /\ ~ InMailbox /\ ~ notified
  BY <1>1 DEF PromptInv, Stage, Outstanding
<1>3. /\ InMailbox' <=> InMailbox
      /\ AtEcu' <=> AtEcu
      /\ InQueue' <=> InQueue
      /\ InHand' <=> InHand
      /\ MailOK' /\ QueueOK' /\ FramesOK'
      /\ Answer' = Answer /\ AnswerCount' = AnswerCount
      /\ UNCHANGED <<answers, asked, onBus, submitted, noise, dropCount>>
  BY <1>1, <1>2, TaskLeaves
<1>4. ~ Outstanding'
  BY <1>1, <1>2, <1>3 DEF Outstanding
<1>5. SlotOK' /\ OnePlace' /\ Stage' /\ AnswerIsHeard'
  BY <1>1, <1>2, <1>3, <1>4
     DEF PromptInv, SlotOK, OnePlace, Outstanding, Stage, AnswerIsHeard, Reporting
<1>6. CASE ReceiveRequest
  <2>1. reqQueue \in Seq(Requests) /\ reqQueue # <<>>
        /\ req' = Head(reqQueue) /\ reqQueue' = Tail(reqQueue) /\ keepAlive' = FALSE
    BY <1>6 DEF ReceiveRequest, BeginTransaction, PromptInv, RequestsOK
  <2>2. req' \in Requests /\ reqQueue' \in Seq(Requests)
        /\ Waiting \in Nat /\ Waiting' = Waiting - 1
    BY <2>1, HeadTailProperties, LenProperties DEF Waiting
  <2>3. RequestsOK'
    BY <2>1, <2>2 DEF RequestsOK
  <2>4. Counts'
    BY <1>1, <1>3, <2>1, <2>2 DEF PromptInv, Counts
  <2> QED
    BY <1>3, <1>5, <2>3, <2>4 DEF PromptInv
<1>7. CASE KeepAliveDue
  <2>1. reqQueue' = reqQueue /\ Waiting' = Waiting /\ keepAlive' = TRUE
        /\ req' = TesterPresentRequest(TRUE)
    BY <1>7 DEF KeepAliveDue, BeginTransaction, Waiting
  <2>2. RequestsOK' /\ Counts'
    BY <1>1, <1>3, <2>1 DEF PromptInv, RequestsOK, Counts
  <2> QED
    BY <1>3, <1>5, <2>2 DEF PromptInv
<1> QED
  BY <1>6, <1>7

\* The task is notified, finds a frame in the slot and takes it.
LEMMA PromptTakes ==
  ASSUME IInv, PromptInv, UdsRuns, NotifyWait \/ CheckValid \/ ClearValid
  PROVE  PromptInv'
<1>1. \/ /\ task = "wait" /\ notified /\ rxValid /\ task' = "check" /\ ~ notified'
         /\ rxValid' = rxValid
      \/ /\ task = "check" /\ rxValid /\ task' = "clear" /\ UNCHANGED <<rxValid, notified>>
      \/ /\ task = "clear" /\ rxValid /\ task' = "copyHead" /\ ~ rxValid' /\ notified' = notified
  BY DEF NotifyWait, CheckValid, ClearValid, UdsStep, PromptInv, Stage
<1>2. UNCHANGED <<reqQueue, req, keepAlive, phase, local, txBox, rxFrame>>
  BY DEF NotifyWait, CheckValid, ClearValid, UdsStep, transactionVars
<1>3. /\ InMailbox' <=> InMailbox
      /\ AtEcu' <=> AtEcu
      /\ InQueue' <=> InQueue
      /\ InHand' <=> InHand
      /\ MailOK' /\ QueueOK' /\ FramesOK'
      /\ Answer' = Answer /\ AnswerCount' = AnswerCount
      /\ UNCHANGED <<answers, asked, onBus, submitted, noise, dropCount>>
  BY <1>1, <1>2, TaskLeaves
<1>4. ~ (InMailbox \/ AtEcu \/ InQueue \/ InHand)
  BY <1>1 DEF PromptInv, OnePlace
<1>5. RequestsOK' /\ Counts'
  BY <1>1, <1>2, <1>3, CountsLeft DEF PromptInv, RequestsOK, Transacting
<1>6. SlotOK' /\ OnePlace'
  BY <1>1, <1>2, <1>3, <1>4 DEF PromptInv, SlotOK, OnePlace
<1>7. Stage' /\ AnswerIsHeard'
  BY <1>1, <1>2, <1>3, <1>4 DEF PromptInv, Stage, Outstanding, AnswerIsHeard, Reporting
<1> QED
  BY <1>3, <1>5, <1>6, <1>7 DEF PromptInv

\* The task copies the first part of the frame.
LEMMA PromptCopies ==
  ASSUME IInv, PromptInv, UdsRuns, NEW cut \in CopyCuts, CopyHead(cut)
  PROVE  PromptInv'
<1>1. /\ task = "copyHead" /\ task' = "copyTail"
      /\ local' = [dlen |-> rxFrame.dlen, data |-> SubSeq(rxFrame.data, 1, cut)]
      /\ UNCHANGED <<reqQueue, req, keepAlive, phase, txBox, rxFrame, rxValid, notified>>
  BY DEF CopyHead, UdsStep
<1>2. /\ InMailbox' <=> InMailbox
      /\ AtEcu' <=> AtEcu
      /\ InQueue' <=> InQueue
      /\ InHand' <=> InHand
      /\ MailOK' /\ QueueOK' /\ FramesOK'
      /\ Answer' = Answer /\ AnswerCount' = AnswerCount
      /\ UNCHANGED <<answers, asked, onBus, submitted, noise, dropCount>>
  BY <1>1, TaskLeaves
<1>3. ~ Outstanding /\ ~ Outstanding'
  BY <1>1, <1>2 DEF PromptInv, Stage, Outstanding
<1>4. RequestsOK' /\ Counts' /\ OnePlace'
  BY <1>1, <1>2, <1>3, CountsLeft
     DEF PromptInv, RequestsOK, Transacting, OnePlace, Outstanding
<1>5. SlotOK'
  <2>1. rxFrame = Answer /\ Answer.dlen = TxDl /\ cut \in 0 .. TxDl
    BY <1>1, UdsAssumption DEF PromptInv, SlotOK, Answer, BusFrame
  <2> QED
    BY <1>1, <1>2, <2>1 DEF SlotOK
<1>6. Stage' /\ AnswerIsHeard'
  BY <1>1, <1>2, <1>3 DEF PromptInv, Stage, Outstanding, AnswerIsHeard, Reporting
<1> QED
  BY <1>2, <1>4, <1>5, <1>6 DEF PromptInv

\* A payload copied up to n and on to the cut is copied up to the cut.
LEMMA CopiedOn ==
  ASSUME NEW data \in Payload, NEW n \in Nat, NEW cut \in 0 .. TxDl, n < cut
  PROVE  SubSeq(data, 1, n) \o SubSeq(data, n + 1, cut) = SubSeq(data, 1, cut)
<1>1. data \in Seq(Byte) /\ Len(data) = 8
  BY PayloadIsSeq DEF TxDl
<1>2. cut <= 8
  BY DEF TxDl
<1>3. 1 \in 1 .. Len(data) + 1 /\ n \in 1 - 1 .. Len(data) /\ cut \in n .. Len(data)
  BY <1>1, <1>2
<1> QED
  BY <1>1, <1>3, ConcatAdjacentSubSeq

\* The task copies more of the frame.
LEMMA PromptCopiesOn ==
  ASSUME IInv, PromptInv, UdsRuns, NEW cut \in CopyCuts, CopyOn(cut)
  PROVE  PromptInv'
<1>1. /\ task = "copyTail" /\ task' = "copyTail" /\ Len(local.data) < cut
      /\ local' = [local EXCEPT !.data = local.data \o SubSeq(rxFrame.data, Len(local.data) + 1, cut)]
      /\ UNCHANGED <<reqQueue, req, keepAlive, phase, txBox, rxFrame, rxValid, notified>>
  BY DEF CopyOn, UdsStep
<1>2. /\ InMailbox' <=> InMailbox
      /\ AtEcu' <=> AtEcu
      /\ InQueue' <=> InQueue
      /\ InHand' <=> InHand
      /\ MailOK' /\ QueueOK' /\ FramesOK'
      /\ Answer' = Answer /\ AnswerCount' = AnswerCount
      /\ UNCHANGED <<answers, asked, onBus, submitted, noise, dropCount>>
  BY <1>1, TaskLeaves
<1>3. ~ Outstanding /\ ~ Outstanding'
  BY <1>1, <1>2 DEF PromptInv, Stage, Outstanding
<1>4. RequestsOK' /\ Counts' /\ OnePlace'
  BY <1>1, <1>2, <1>3, CountsLeft
     DEF PromptInv, RequestsOK, Transacting, OnePlace, Outstanding
<1>5. SlotOK'
  <2>1. PICK n \in 0 .. TxDl : local = [dlen |-> TxDl, data |-> SubSeq(Answer.data, 1, n)]
    BY <1>1 DEF PromptInv, SlotOK
  <2>2. rxFrame = Answer /\ Answer.data \in Payload
    <3>1. rxFrame = Answer
      BY <1>1 DEF PromptInv, SlotOK
    <3>2. rxFrame.data \in Payload
      BY DEF IInv, UdsInv, UdsTypeOK, CapturedFrame
    <3> QED
      BY <3>1, <3>2
  <2>3. n \in Nat /\ n <= TxDl /\ cut \in 0 .. TxDl
    BY UdsAssumption DEF TxDl
  <2>4. local.data = SubSeq(Answer.data, 1, n)
    BY <2>1
  <2>5. Len(local.data) = n
    BY <2>2, <2>3, <2>4, Reassembled
  <2>6. local.data \o SubSeq(rxFrame.data, Len(local.data) + 1, cut) = SubSeq(Answer.data, 1, cut)
    <3>1. n < cut
      BY <1>1, <2>5
    <3> QED
      BY <2>2, <2>3, <2>4, <2>5, <3>1, CopiedOn
  <2>7. local' = [dlen |-> TxDl, data |-> SubSeq(Answer.data, 1, cut)]
    BY <1>1, <2>1, <2>6
  <2> QED
    BY <1>1, <1>2, <2>2, <2>3, <2>7 DEF SlotOK
<1>6. Stage' /\ AnswerIsHeard'
  BY <1>1, <1>2, <1>3 DEF PromptInv, Stage, Outstanding, AnswerIsHeard, Reporting
<1> QED
  BY <1>2, <1>4, <1>5, <1>6 DEF PromptInv

\* P2 is over: nothing is under way, so the answer was dropped.
LEMMA PromptExpires ==
  ASSUME PromptEcu, IInv, PromptInv, UdsRuns, TimerExpires
  PROVE  PromptInv'
<1>1. /\ task = "wait" /\ ~ notified /\ task' = "report" /\ rsp'.result = "TIMEOUT"
      /\ UNCHANGED <<reqQueue, req, keepAlive, phase, local, txBox, rxFrame, rxValid, notified>>
  BY DEF TimerExpires, WaitExpires, UdsStep, Finish
<1>2. /\ InMailbox' <=> InMailbox
      /\ AtEcu' <=> AtEcu
      /\ InQueue' <=> InQueue
      /\ InHand' <=> InHand
      /\ MailOK' /\ QueueOK' /\ FramesOK'
      /\ Answer' = Answer /\ AnswerCount' = AnswerCount
      /\ UNCHANGED <<answers, asked, onBus, submitted, noise, dropCount>>
  BY <1>1, TaskLeaves
<1>3. ~ Outstanding
  <2>1. ~ Underway
    BY DEF TimerExpires, PromptEcu
  <2>2. ~ InMailbox
    BY <2>1, OneElement DEF Underway, InMailbox
  <2>3. ~ AtEcu
    BY <2>1 DEF Underway, AtEcu, PromptInv, QueueOK, NoTransfer
  <2>4. ~ InQueue /\ ~ InHand
    BY <2>1 DEF Underway, InQueue, InHand, Carries, Responses
  <2>5. ~ rxValid
    BY <1>1 DEF IInv, UdsInv, Notified, UdsTypeOK
  <2> QED
    BY <2>2, <2>3, <2>4, <2>5 DEF Outstanding
<1>4. ~ Outstanding' /\ dropCount' > 0 /\ onBus'
  BY <1>1, <1>2, <1>3 DEF PromptInv, Stage, Outstanding
<1>5. RequestsOK' /\ Counts' /\ SlotOK' /\ OnePlace'
  BY <1>1, <1>2, <1>3, CountsLeft
     DEF PromptInv, RequestsOK, Transacting, SlotOK, OnePlace, Outstanding
<1>6. Stage' /\ AnswerIsHeard'
  BY <1>1, <1>2, <1>4 DEF PromptInv, Stage, AnswerIsHeard
<1> QED
  BY <1>2, <1>5, <1>6 DEF PromptInv

\* The keep-alive is a request of two bytes that nobody answers.
LEMMA KeepAliveRequest ==
  ASSUME NEW r, r = TesterPresentRequest(TRUE)
  PROVE  r \in RequestType /\ r.sid = TP /\ r.sub = TpSuppress /\ Pending(BuildPdu(r)) = 0
<1>1. r \in RequestType
  BY TesterPresentType
<1>2. r.sid = TP /\ r.sub = TpSuppress /\ r.extra = <<>>
  BY DEF TesterPresentRequest, NoRequest
<1> DEFINE body == CASE r.sid \in {DSC, TP, RDTCI} -> <<r.sub>>
                     [] r.sid = RDBI -> <<(r.did \div 256) % 256, r.did % 256>>
                     [] OTHER -> <<>>
<1>3. body = <<r.sub>>
  <2>1. r.sid \in {DSC, TP, RDTCI}
    BY <1>2
  <2>2. TP # RDBI
    BY DEF TP, RDBI
  <2>3. r.sid # RDBI
    BY <1>2, <2>2
  <2> QED
    BY <2>1, <2>3
<1>4. BuildPdu(r) = <<r.sid>> \o body \o r.extra
  BY Zenon DEF BuildPdu
<1> HIDE DEF body
<1>5. Len(BuildPdu(r)) = 2
  <2>1. \A a, b : Len(<<a>> \o <<b>> \o <<>>) = 2
    OBVIOUS
  <2> QED
    BY <1>2, <1>3, <1>4, <2>1, Zenon
<1>6. Pending(BuildPdu(r)) = 0
  <2>1. 2 <= SfMaxDl
    BY DEF SfMaxDl
  <2> QED
    BY <1>5, <2>1, Zenon DEF Pending
<1> QED
  BY <1>1, <1>2, <1>6

\* Every request of the tester fits one frame; the keep-alive's wants no answer.
LEMMA RequestFits ==
  ASSUME RequestsOK, Transacting
  PROVE  /\ req \in RequestType /\ Pending(BuildPdu(req)) = 0
         /\ req.sid = TP => req.sub \in {0, TpSuppress}
         /\ keepAlive => Suppressed(req)
<1>1. CASE keepAlive
  <2>1. req = TesterPresentRequest(TRUE)
    BY <1>1 DEF RequestsOK
  <2>2. req \in RequestType /\ req.sid = TP /\ req.sub = TpSuppress /\ Pending(BuildPdu(req)) = 0
    BY <2>1, KeepAliveRequest
  <2>3. Suppressed(req)
    BY <2>2 DEF Suppressed, TpSuppress
  <2> QED
    BY <2>2, <2>3
<1>2. CASE ~ keepAlive
  <2>1. req \in Requests
    BY <1>2 DEF RequestsOK
  <2> QED
    BY <1>2, <2>1, TesterAssumption
<1> QED
  BY <1>1, <1>2

\* The request is sent, or finds no mailbox.
LEMMA PromptSends ==
  ASSUME IInv, PromptInv, UdsRuns, SendRequest
  PROVE  PromptInv'
<1> DEFINE data == StartFrame(BuildPdu(req))
           frame == [id |-> RequestId(req), data |-> data]
<1>1. /\ task = "send" /\ Transacting
      /\ UNCHANGED <<reqQueue, req, keepAlive, local, rxFrame, rxValid, notified>>
      /\ txBox' = IF MailboxFree THEN Append(txBox, frame) ELSE txBox
  BY DEF SendRequest, UdsStep, Transmit, Transacting
<1>2. /\ req \in RequestType /\ Pending(BuildPdu(req)) = 0
      /\ req.sid = TP => req.sub \in {0, TpSuppress}
      /\ keepAlive => Suppressed(req)
  BY <1>1, RequestFits DEF PromptInv
<1>3. Pci(data) = SF /\ data[2] = req.sid /\ (Answerable(data) <=> ~ Suppressed(req))
      /\ data \in Payload
  BY <1>2, RequestFrame, BuildPduType, StartFrameType
<1>4. /\ phase' = "rsp"
      /\ \/ ~ MailboxFree /\ task' = "report" /\ rsp'.result = "TP_ERROR"
         \/ MailboxFree /\ Suppressed(req) /\ task' = "report"
         \/ MailboxFree /\ ~ Suppressed(req) /\ task' = "wait"
  BY <1>2 DEF SendRequest, Finish
<1>5. /\ asked' = IF MailboxFree /\ ~ Suppressed(req) THEN asked + 1 ELSE asked
      /\ onBus' = (MailboxFree /\ ~ Suppressed(req))
      /\ UNCHANGED <<rxQueue, drainFrame, dropCount, ecuQueue, ecuTransfer, answers,
                     submitted, noise>>
  BY <1>1 DEF UdsRuns, Asks, captureVars, ecuVars
<1> HIDE DEF data
<1>6. frame \in SfFrame /\ frame \in Asking(req) /\ (frame \in Awaiting <=> ~ Suppressed(req))
  <2>1. frame \in TxFrame /\ frame.data = data
    BY <1>3 DEF TxFrame, RequestId
  <2> QED
    BY <1>3, <2>1 DEF SfFrame, Asking, Awaiting
<1> HIDE DEF frame
<1>7. ~ Outstanding /\ ~ (InMailbox \/ AtEcu \/ InQueue \/ InHand \/ rxValid) /\ ~ notified
  BY <1>1 DEF PromptInv, Stage, Outstanding
<1>8. MailOK' /\ (InMailbox' <=> MailboxFree /\ ~ Suppressed(req))
  <2>1. txBox \in Seq(SfFrame) /\ AtMostOne(txBox, Awaiting, Asking(req))
    BY DEF PromptInv, MailOK
  <2>2. /\ Append(txBox, frame) \in Seq(SfFrame)
        /\ AtMostOne(Append(txBox, frame), Awaiting, Asking(req))
        /\ Carries(Append(txBox, frame), Awaiting) <=> ~ Suppressed(req)
    BY <1>6, <1>7, <2>1, AppendMarked, AppendProperties DEF InMailbox
  <2>3. CASE MailboxFree
    BY <1>1, <2>2, <2>3 DEF MailOK, InMailbox
  <2>4. CASE ~ MailboxFree
    BY <1>1, <1>7, <2>1, <2>4 DEF MailOK, InMailbox
  <2> QED
    BY <2>3, <2>4
<1>9. ~ AtEcu' /\ ~ InQueue' /\ ~ InHand' /\ ~ rxValid'
  BY <1>1, <1>5, <1>7, PlaceUnchanged
<1>10. AnswerCount' = AnswerCount /\ Waiting' = Waiting /\ AnswerCount \in Nat /\ Waiting \in Nat
       /\ asked \in Nat /\ asked = AnswerCount
  BY <1>1, <1>5, <1>7, CountTypes DEF IInv, PromptInv, AnswerCount, Waiting, Counts, Stage
<1>11. RequestsOK' /\ QueueOK' /\ SlotOK' /\ OnePlace'
  BY <1>1, <1>4, <1>5, <1>9
     DEF PromptInv, RequestsOK, Transacting, QueueOK, SlotOK, OnePlace
<1>12. FramesOK'
  BY <1>9, NoneMarked DEF FramesOK, InQueue, InHand
<1>13. Counts'
  <2>1. PICK e \in {0, 1} : e = IF keepAlive THEN 0 ELSE 1
    OBVIOUS
  <2>2. asked + Waiting + e <= submitted
    BY <1>1, <2>1 DEF PromptInv, Counts
  <2>3. asked' = asked \/ (asked' = asked + 1 /\ e = 1)
    BY <1>2, <1>5, <2>1
  <2>4. asked' \in Nat /\ submitted \in Nat /\ asked' + Waiting <= submitted
    <3>1. submitted \in Nat /\ asked \in Nat /\ Waiting \in Nat
      BY <1>10 DEF PromptInv, Counts
    <3>2. CASE asked' = asked
      BY <2>2, <3>1, <3>2
    <3>3. CASE asked' = asked + 1 /\ e = 1
      BY <2>2, <3>1, <3>3
    <3> QED
      BY <2>3, <3>2, <3>3
  <2>5. dropCount' + (IF AtEcu' THEN 1 ELSE 0) <= noise' + AnswerCount'
    BY <1>5, <1>7, <1>9, <1>10 DEF PromptInv, Counts
  <2> QED
    <3>1. task' # "send"
      BY <1>4
    <3>2. asked' + Waiting' + 0 <= submitted'
      BY <1>5, <1>10, <2>4
    <3>3. (IF task' = "send" /\ ~ keepAlive' THEN 1 ELSE 0) = 0
      BY <3>1
    <3> QED
      BY <1>5, <2>4, <2>5, <3>2, <3>3 DEF PromptInv, Counts
<1>14. Stage'
  <2>1. asked' = AnswerCount' + (IF InMailbox' THEN 1 ELSE 0)
    BY <1>5, <1>8, <1>10
  <2>2. task' = "wait" => onBus' /\ asked' > 0 /\ InMailbox'
    <3> SUFFICES ASSUME task' = "wait" PROVE onBus' /\ asked' > 0 /\ InMailbox'
      OBVIOUS
    <3>1. MailboxFree /\ ~ Suppressed(req)
      BY <1>4
    <3>2. asked' = asked + 1 /\ asked \in Nat
      BY <1>5, <1>10, <3>1
    <3>3. asked' > 0
      BY <3>2
    <3> QED
      BY <1>5, <1>8, <3>1, <3>3
  <2>3. task' # "wait" => ~ Outstanding'
    BY <1>4, <1>8, <1>9 DEF Outstanding
  <2> QED
    BY <1>1, <1>4, <1>7, <2>1, <2>2, <2>3 DEF Stage, Outstanding
<1>15. AnswerIsHeard'
  <2>1. Suppressed(req') <=> Suppressed(req)
    BY <1>1
  <2> QED
    BY <1>4, <1>5, <2>1 DEF AnswerIsHeard, Reporting
<1> QED
  BY <1>8, <1>11, <1>12, <1>13, <1>14, <1>15 DEF PromptInv

\* The frame is put together, reassembled and classified: it is the answer.
LEMMA PromptFeeds ==
  ASSUME PromptEcu, IInv, PromptInv, UdsRuns, FeedFrame
  PROVE  PromptInv'
<1> DEFINE pdu == answers[asked]
           fed == RxFeed(rx, local.dlen, Snapshot)
<1>1. /\ task = "copyTail" /\ phase = "rsp" /\ HandleFed(fed)
      /\ UNCHANGED <<reqQueue, req, keepAlive, phase, rxFrame, rxValid, notified>>
  BY DEF FeedFrame, UdsStep, PromptInv, Stage
<1>2. ~ Outstanding /\ ~ InMailbox /\ ~ notified /\ onBus /\ asked > 0
      /\ pdu \in PromptPdus(req.sid, asked)
  BY <1>1 DEF PromptInv, Stage, Outstanding
<1>3. req.sid \in Byte /\ asked \in Nat /\ ContextOK(rx)
  BY DEF IInv, UdsInv, UdsTypeOK, RecordsOK, RequestType, PromptInv, Counts
<1>4. /\ pdu \in Seq(Byte)
      /\ \E m \in {2, 3} : Len(pdu) = m
      /\ Classify(req.sid, pdu).result # "BUSY"
  BY <1>2, <1>3, PromptPdu
<1> HIDE DEF pdu
<1>5. rxFrame = Answer /\ Answer.data = StartFrame(pdu) /\ StartFrame(pdu) \in Payload
  BY <1>1, <1>4, StartFrameType DEF PromptInv, SlotOK, Answer, BusFrame, pdu
<1>6. local.dlen = TxDl /\ Snapshot = StartFrame(pdu)
  <2>1. PICK n \in 0 .. TxDl : local = [dlen |-> TxDl, data |-> SubSeq(Answer.data, 1, n)]
    BY <1>1 DEF PromptInv, SlotOK
  <2>2. n \in Nat /\ n <= TxDl
    BY DEF TxDl
  <2>3. local.dlen = TxDl /\ local.data = SubSeq(StartFrame(pdu), 1, n)
    BY <1>5, <2>1
  <2>4. Len(local.data) = n /\ local.data \o SubSeq(StartFrame(pdu), n + 1, TxDl) = StartFrame(pdu)
    BY <1>5, <2>2, <2>3, Reassembled
  <2>5. Snapshot = local.data \o SubSeq(StartFrame(pdu), n + 1, TxDl)
    BY <1>5, <2>4 DEF Snapshot
  <2> QED
    BY <2>3, <2>4, <2>5
<1>7. fed.result = "DONE" /\ fed.rx.buf = pdu
  <2>1. PICK m \in {2, 3} : m = Len(pdu)
    BY <1>4
  <2>2. m \in Nat /\ 1 <= m /\ m <= SfMaxDl /\ m <= RxBufBytes
    <3>1. m \in {2, 3}
      OBVIOUS
    <3>2. RxBufBytes \in Nat /\ RxBufBytes >= 3
      BY IsoTpAssumption DEF PromptEcu
    <3> QED
      BY <3>1, <3>2 DEF SfMaxDl
  <2>3. RxFeed(rx, TxDl, StartFrame(pdu)).result = "DONE"
        /\ RxFeed(rx, TxDl, StartFrame(pdu)).rx.buf = pdu
    BY <1>3, <1>4, <2>1, <2>2, PromptFed
  <2> QED
    BY <1>6, <2>3
<1> HIDE DEF fed
<1>8. /\ task' = "report" /\ rsp' = ResponseFor(pdu) /\ txBox' = txBox
  <2>1. HandlePdu(pdu, Classify(req.sid, pdu)) /\ txBox' = txBox
    BY <1>1, <1>7 DEF HandleFed
  <2> QED
    BY <1>4, <2>1 DEF HandlePdu, Finish, ResponseFor
<1>9. /\ InMailbox' <=> InMailbox
      /\ AtEcu' <=> AtEcu
      /\ InQueue' <=> InQueue
      /\ InHand' <=> InHand
      /\ MailOK' /\ QueueOK' /\ FramesOK'
      /\ Answer' = Answer /\ AnswerCount' = AnswerCount
      /\ UNCHANGED <<answers, asked, onBus, submitted, noise, dropCount>>
  BY <1>1, <1>8, TaskLeaves
<1>10. ~ Outstanding'
  BY <1>1, <1>2, <1>9 DEF Outstanding
<1>11. RequestsOK' /\ Counts' /\ SlotOK' /\ OnePlace'
  BY <1>1, <1>2, <1>8, <1>9, <1>10, CountsLeft
     DEF PromptInv, RequestsOK, Transacting, SlotOK, OnePlace, Outstanding
<1>12. Stage'
  BY <1>1, <1>2, <1>8, <1>9, <1>10 DEF PromptInv, Stage
<1>13. AnswerIsHeard'
  <2>1. asked' \in DOMAIN answers'
    <3>1. asked = AnswerCount
      BY <1>2, <1>3 DEF PromptInv, Stage, IInv, EcuOK, AnswerCount
    <3>2. DOMAIN answers = 1 .. AnswerCount
      BY LenProperties DEF IInv, EcuOK, AnswerCount
    <3> QED
      BY <1>2, <1>3, <1>9, <3>1, <3>2
  <2>2. rsp' = ResponseFor(answers[asked])'
    BY <1>1, <1>8, <1>9 DEF ResponseFor, pdu
  <2> QED
    BY <1>2, <1>9, <2>1, <2>2 DEF AnswerIsHeard
<1> QED
  BY <1>9, <1>11, <1>12, <1>13 DEF PromptInv

-----------------------------------------------------------------------------
(* The theorem for the prompt ECU.                                         *)

\* The invariant holds in the beginning.
LEMMA PromptInit == Init => PromptInv
<1> SUFFICES ASSUME Init PROVE PromptInv
  OBVIOUS
<1>1. /\ reqQueue = <<>> /\ txBox = <<>> /\ rxQueue = <<>> /\ drainFrame = <<>>
      /\ ecuQueue = <<>> /\ answers = <<>> /\ ecuTransfer = NoTransfer
      /\ task = "boot" /\ phase = "rsp" /\ ~ rxValid /\ ~ notified
      /\ asked = 0 /\ submitted = 0 /\ noise = 0 /\ dropCount = 0
  BY DEF Init, UdsInit, CaptureInit
<1>2. ~ InMailbox /\ ~ AtEcu /\ ~ InQueue /\ ~ InHand
  BY <1>1, OneElement DEF InMailbox, AtEcu, InQueue, InHand
<1>3. MailOK /\ FramesOK /\ QueueOK /\ SlotOK /\ OnePlace
  BY <1>1, <1>2, NoneMarked, EmptySeq
     DEF MailOK, FramesOK, QueueOK, SlotOK, OnePlace, InMailbox, InQueue, InHand
<1>4. AnswerCount = 0 /\ Waiting = 0
  BY <1>1, EmptySeq DEF AnswerCount, Waiting
<1>5. RequestsOK
  BY <1>1, EmptySeq DEF RequestsOK, Transacting
<1>6. Counts /\ Stage /\ AnswerIsHeard
  <2>1. MaxRequests \in 0 .. 255 /\ MaxNoise \in Nat
    BY TesterAssumption
  <2>2. /\ (IF task = "send" /\ ~ keepAlive THEN 1 ELSE 0) = 0
        /\ (IF InMailbox THEN 1 ELSE 0) = 0
        /\ (IF AtEcu THEN 1 ELSE 0) = 0
    BY <1>1, <1>2
  <2>3. Counts
    BY <1>1, <1>2, <1>4, <2>1, <2>2 DEF Counts
  <2>4. Stage
    BY <1>1, <1>2, <1>4, <2>2 DEF Stage, Outstanding
  <2>5. AnswerIsHeard
    BY <1>1 DEF AnswerIsHeard, Reporting
  <2> QED
    BY <2>3, <2>4, <2>5
<1> QED
  BY <1>3, <1>5, <1>6 DEF PromptInv

\* Every step keeps it.
LEMMA PromptStep ==
  ASSUME PromptEcu, IInv, PromptInv, [Next]_vars
  PROVE  PromptInv'
<1>1. CASE Bus
  BY <1>1, PromptBus
<1>2. CASE Noise
  BY <1>2, PromptNoise
<1>3. CASE Drain
  BY <1>3, PromptDrainReceive, PromptDrainSend DEF Drain
<1>4. CASE Application
  BY <1>4, PromptApplication
<1>5. CASE UdsRuns
  <2>1. ~ SendConsecutive
    BY DEF SendConsecutive, UdsStep, PromptInv, Stage
  <2> QED
    BY <1>5, <2>1, PromptIdles, PromptBegins, PromptTakes, PromptCopies, PromptCopiesOn,
       PromptExpires, PromptSends, PromptFeeds DEF UdsRuns, UdsTask
<1>6. CASE UNCHANGED vars
  <2>1. UNCHANGED <<reqQueue, task, req, keepAlive, phase, local, rsp, txBox, rxFrame, rxValid,
                    notified, ecuQueue, ecuTransfer, answers, submitted, noise, asked, onBus,
                    rxQueue, drainFrame, dropCount>>
    BY <1>6 DEF vars, captureVars, udsVars, transactionVars, mailboxVars, ecuVars, historyVars
  <2>2. /\ InMailbox' <=> InMailbox
        /\ AtEcu' <=> AtEcu
        /\ InQueue' <=> InQueue
        /\ InHand' <=> InHand
        /\ Answer' = Answer /\ AnswerCount' = AnswerCount /\ Waiting' = Waiting
    BY <2>1, PlaceUnchanged, ContentUnchanged DEF AnswerCount, Waiting
  <2>3. MailOK' /\ QueueOK' /\ FramesOK' /\ SlotOK' /\ OnePlace' /\ RequestsOK'
    BY <2>1, <2>2, ContentUnchanged
       DEF PromptInv, QueueOK, SlotOK, OnePlace, RequestsOK, Transacting
  <2>4. Counts' /\ Stage' /\ AnswerIsHeard'
    BY <2>1, <2>2
       DEF PromptInv, Counts, Stage, Outstanding, AnswerIsHeard, Reporting, ResponseFor
  <2> QED
    BY <2>3, <2>4 DEF PromptInv
<1> QED
  BY <1>1, <1>2, <1>3, <1>4, <1>5, <1>6 DEF Next

\* With an ECU that answers every request with one frame in time, the outcome of a request is
\* that ECU's answer to this very request, unless the queue dropped a frame or no mailbox was
\* free: whatever the requests, the traffic of other nodes, the size of the queue and of the
\* mailboxes, and the places where the drain task preempts the copy.
THEOREM AnswersAreHeard ==
  ASSUME PromptEcu
  PROVE  Spec => []AnswerIsHeard
<1>1. Init => PromptInv
  BY PromptInit
<1>2. IInv /\ PromptInv /\ [Next]_vars => PromptInv'
  BY PromptStep
<1>3. PromptInv => AnswerIsHeard
  BY DEF PromptInv
<1> QED
  BY <1>1, <1>2, <1>3, Invariance, PTL DEF Spec
-----------------------------------------------------------------------------
(* Sequences whose elements carry rising numbers.                          *)

\* By ser, every element of s carries at most one number; the numbers lie above lo and up to hi,
\* and each is greater than those before it.
Rising(s, ser, lo, hi) ==
  /\ \A i \in 1 .. Len(s) : ser[s[i]] \subseteq lo + 1 .. hi
  /\ \A i, j \in 1 .. Len(s) : i < j => \A x \in ser[s[i]], y \in ser[s[j]] : x < y

\* Nothing is in order.
LEMMA RisingEmpty ==
  ASSUME NEW ser, NEW lo, NEW hi
  PROVE  Rising(<<>>, ser, lo, hi)
  BY DEF Rising

\* The bounds may be wider.
LEMMA RisingWider ==
  ASSUME NEW s, NEW ser, NEW lo \in Nat, NEW hi \in Nat, Rising(s, ser, lo, hi),
         NEW low \in Nat, NEW high \in Nat, low <= lo, hi <= high
  PROVE  Rising(s, ser, low, high)
<1>1. lo + 1 .. hi \subseteq low + 1 .. high
  OBVIOUS
<1> QED
  BY <1>1, Zenon DEF Rising

\* An element with a greater number is added.
LEMMA RisingAppend ==
  ASSUME NEW E, NEW s \in Seq(E), NEW e \in E, NEW ser, NEW lo \in Nat, NEW mid \in Nat,
         NEW hi \in Nat, lo <= mid, mid <= hi, Rising(s, ser, lo, mid),
         ser[e] \subseteq mid + 1 .. hi
  PROVE  Rising(Append(s, e), ser, lo, hi)
<1> DEFINE t == Append(s, e)
<1>1. PICK n \in Nat : n = Len(s)
  BY LenProperties
<1>2. Len(t) = n + 1 /\ t[n + 1] = e /\ \A i \in 1 .. n : t[i] = s[i]
  BY <1>1, AppendProperties
<1> HIDE DEF t
<1>3. \A i \in 1 .. n : ser[t[i]] \subseteq lo + 1 .. mid
  BY <1>1, <1>2, Zenon DEF Rising
<1>4. \A i, j \in 1 .. n : i < j => \A x \in ser[t[i]], y \in ser[t[j]] : x < y
  BY <1>1, <1>2, Zenon DEF Rising
<1>5. lo + 1 .. mid \subseteq lo + 1 .. hi /\ mid + 1 .. hi \subseteq lo + 1 .. hi
      /\ \A x \in lo + 1 .. mid, y \in mid + 1 .. hi : x < y
  OBVIOUS
<1>6. \A i \in 1 .. n + 1 : i \in 1 .. n \/ i = n + 1
  OBVIOUS
<1>7. \A i \in 1 .. n + 1 : ser[t[i]] \subseteq lo + 1 .. hi
  BY <1>2, <1>3, <1>5, <1>6, Zenon
<1>8. ASSUME NEW i \in 1 .. n + 1, NEW j \in 1 .. n + 1, i < j
      PROVE  \A x \in ser[t[i]], y \in ser[t[j]] : x < y
  <2>1. i \in 1 .. n /\ (j \in 1 .. n \/ j = n + 1)
    BY <1>8
  <2>2. CASE j \in 1 .. n
    BY <1>4, <1>8, <2>1, <2>2, Zenon
  <2>3. CASE j = n + 1
    BY <1>2, <1>3, <1>5, <2>1, <2>3, Zenon
  <2> QED
    BY <2>1, <2>2, <2>3
<1> QED
  BY <1>2, <1>7, <1>8, Zenon DEF Rising, t

\* The first element is taken: its number, if it has one, lies below the others.
LEMMA RisingHead ==
  ASSUME NEW E, NEW s \in Seq(E), s # <<>>, NEW ser, NEW lo \in Nat, NEW hi \in Nat, lo <= hi,
         Rising(s, ser, lo, hi), \A x, y \in ser[Head(s)] : x = y
  PROVE  \E mid \in Nat : /\ lo <= mid /\ mid <= hi
                          /\ ser[Head(s)] \subseteq lo + 1 .. mid
                          /\ Rising(Tail(s), ser, mid, hi)
<1> DEFINE t == Tail(s)
           first == Head(s)
<1>1. PICK n \in Nat \ {0} : n = Len(s)
  BY EmptySeq, LenProperties
<1>2. Len(t) = n - 1 /\ \A i \in 1 .. n - 1 : t[i] = s[i + 1]
  BY <1>1, HeadTailProperties
<1>3. first = s[1]
  OBVIOUS
<1> HIDE DEF t, first
<1>4. 1 \in 1 .. n /\ \A i \in 1 .. n - 1 : i + 1 \in 1 .. n /\ 1 < i + 1
  OBVIOUS
<1>5. ser[first] \subseteq lo + 1 .. hi /\ \A i \in 1 .. n - 1 : ser[t[i]] \subseteq lo + 1 .. hi
  BY <1>1, <1>2, <1>3, <1>4, Zenon DEF Rising
<1>6. \A i \in 1 .. n - 1 : \A x \in ser[first], y \in ser[t[i]] : x < y
  BY <1>1, <1>2, <1>3, <1>4, Zenon DEF Rising
<1>7. ASSUME NEW i \in 1 .. n - 1, NEW j \in 1 .. n - 1, i < j
      PROVE  \A x \in ser[t[i]], y \in ser[t[j]] : x < y
  <2>1. i + 1 < j + 1
    BY <1>7
  <2>2. i + 1 \in 1 .. n /\ j + 1 \in 1 .. n /\ t[i] = s[i + 1] /\ t[j] = s[j + 1]
    BY <1>2, <1>4
  <2> QED
    BY <1>1, <2>1, <2>2, Zenon DEF Rising
<1>8. CASE ser[first] = {}
  <2>1. Rising(t, ser, lo, hi)
    BY <1>2, <1>5, <1>7, Zenon DEF Rising
  <2>2. lo <= lo /\ ser[first] \subseteq lo + 1 .. lo
    BY <1>8
  <2> QED
    BY <2>1, <2>2, Zenon DEF t, first
<1>9. ASSUME NEW x \in ser[first]
      PROVE  \E mid \in Nat : /\ lo <= mid /\ mid <= hi
                              /\ ser[first] \subseteq lo + 1 .. mid
                              /\ Rising(t, ser, mid, hi)
  <2>1. x \in Nat /\ lo <= x /\ x <= hi /\ x \in lo + 1 .. x
    <3>1. x \in lo + 1 .. hi
      BY <1>5
    <3> QED
      BY <3>1
  <2>2. ser[first] \subseteq lo + 1 .. x
    BY <2>1 DEF first
  <2>3. \A y \in lo + 1 .. hi : x < y => y \in x + 1 .. hi
    BY <2>1
  <2>4. \A i \in 1 .. n - 1 : ser[t[i]] \subseteq x + 1 .. hi
    BY <1>5, <1>6, <2>3, Zenon
  <2>5. Rising(t, ser, x, hi)
    BY <1>2, <1>7, <2>4, Zenon DEF Rising
  <2> QED
    BY <2>1, <2>2, <2>5, Zenon
<1> QED
  BY <1>8, <1>9 DEF t, first

\* Two sequences are put together, the second with the greater numbers.
LEMMA RisingConcat ==
  ASSUME NEW E, NEW s \in Seq(E), NEW t \in Seq(E), NEW ser, NEW lo \in Nat, NEW mid \in Nat,
         NEW hi \in Nat, lo <= mid, mid <= hi, Rising(s, ser, lo, mid), Rising(t, ser, mid, hi)
  PROVE  Rising(s \o t, ser, lo, hi)
<1> DEFINE u == s \o t
<1>1. PICK n \in Nat : n = Len(s)
  BY LenProperties
<1>2. PICK m \in Nat : m = Len(t)
  BY LenProperties
<1>3. Len(u) = n + m /\ \A i \in 1 .. n + m : u[i] = IF i <= n THEN s[i] ELSE t[i - n]
  BY <1>1, <1>2, ConcatProperties, Zenon
<1> HIDE DEF u
<1>4. \A i \in 1 .. n + m : \/ i \in 1 .. n /\ i <= n
                            \/ i - n \in 1 .. m /\ ~ (i <= n)
  OBVIOUS
<1>5. \A i \in 1 .. n + m : \/ i \in 1 .. n /\ i <= n /\ u[i] = s[i]
                            \/ i - n \in 1 .. m /\ ~ (i <= n) /\ u[i] = t[i - n]
  BY <1>3, <1>4, Zenon
<1>6. lo + 1 .. mid \subseteq lo + 1 .. hi /\ mid + 1 .. hi \subseteq lo + 1 .. hi
      /\ \A x \in lo + 1 .. mid, y \in mid + 1 .. hi : x < y
  OBVIOUS
<1>7. /\ \A i \in 1 .. n : ser[s[i]] \subseteq lo + 1 .. mid
      /\ \A i \in 1 .. m : ser[t[i]] \subseteq mid + 1 .. hi
  BY <1>1, <1>2, Zenon DEF Rising
<1>8. \A i \in 1 .. n + m : ser[u[i]] \subseteq lo + 1 .. hi
  BY <1>5, <1>6, <1>7, Zenon
<1>9. ASSUME NEW i \in 1 .. n + m, NEW j \in 1 .. n + m, i < j
      PROVE  \A x \in ser[u[i]], y \in ser[u[j]] : x < y
  <2>1. CASE j \in 1 .. n /\ j <= n
    <3>1. i \in 1 .. n /\ i <= n
      BY <1>9, <2>1
    <3>2. u[i] = s[i] /\ u[j] = s[j]
      BY <1>5, <2>1, <3>1, Zenon
    <3> QED
      BY <1>1, <1>9, <2>1, <3>1, <3>2, Zenon DEF Rising
  <2>2. CASE i \in 1 .. n /\ i <= n /\ j - n \in 1 .. m /\ ~ (j <= n)
    <3>1. u[i] = s[i] /\ u[j] = t[j - n]
      BY <1>5, <2>2, Zenon
    <3> QED
      BY <1>6, <1>7, <2>2, <3>1, Zenon
  <2>3. CASE i - n \in 1 .. m /\ ~ (i <= n) /\ j - n \in 1 .. m /\ ~ (j <= n)
    <3>1. i - n < j - n
      BY <1>9
    <3>2. u[i] = t[i - n] /\ u[j] = t[j - n]
      BY <1>5, <2>3, Zenon
    <3> QED
      BY <1>2, <2>3, <3>1, <3>2, Zenon DEF Rising
  <2> QED
    BY <1>4, <2>1, <2>2, <2>3, Zenon
<1> QED
  BY <1>3, <1>8, <1>9, Zenon DEF Rising, u

-----------------------------------------------------------------------------
(* Whose answer a PDU or a frame carries.                                  *)

\* A PDU the ECU may send has a second byte. If it is positive, that is the serial number of the
\* request it answers.
AnswerPdu == {p \in Seq(Byte) : Len(p) >= 2}
PduSerials == [p \in Seq(Byte) |-> {n \in Byte : Len(p) >= 2 /\ p[1] # NrSid /\ n = p[2]}]

\* The same of the single and first frames that the ECU sends.
Whole(data) == Pci(data) = SF => LowNibble(data) >= 2
Serials(data) ==
  {n \in Byte : \/ Pci(data) = SF /\ data[2] # NrSid /\ n = data[3]
                \/ Pci(data) = FF /\ data[3] # NrSid /\ n = data[4]}
AnswerFrames == {f \in CapturedFrame : Whole(f.data)}
FrameSerials == [f \in CapturedFrame |-> Serials(f.data)]

\* There is one serial number at most.
LEMMA OneSerial ==
  /\ \A p \in Seq(Byte) : \A x, y \in PduSerials[p] : x = y
  /\ \A f \in CapturedFrame : \A x, y \in FrameSerials[f] : x = y
  BY DEF PduSerials, FrameSerials, Serials, SF, FF

\* The ECU's PDUs carry the number of the request, unless they refuse it or ask for time.
LEMMA ResponseSerials ==
  ASSUME NEW kind \in Kinds, NEW sid \in Byte, NEW n \in 1 .. 255
  PROVE  /\ ResponsePdu(kind, sid, n) \in AnswerPdu
         /\ PduSerials[ResponsePdu(kind, sid, n)] \subseteq {n}
         /\ kind = "pending" => PduSerials[ResponsePdu(kind, sid, n)] = {}
<1> DEFINE first == (sid + PosRspOffset) % 256
           start == <<first, n>>
           pdu == ResponsePdu(kind, sid, n)
<1>1. first \in Byte /\ n \in Byte /\ n % 256 = n
  BY DEF Byte, PosRspOffset
<1>2. start \in Seq(Byte) /\ Len(start) = 2 /\ start[2] = n
  BY <1>1, FewBytes
<1>3. pdu \in Seq(Byte)
  <2>1. n \in Nat
    OBVIOUS
  <2> QED
    BY <2>1, ResponsePduType, Zenon
<1>4. ASSUME NEW t \in Seq(Byte), pdu = start \o t
      PROVE  Len(pdu) >= 2 /\ pdu[2] = n
  <2> HIDE DEF start, pdu
  <2>1. 2 \in Nat /\ 2 = Len(start)
    BY <1>2
  <2>2. /\ \E m \in Nat : m >= 2 /\ Len(start \o t) = m
        /\ \A i \in 1 .. 2 : (start \o t)[i] = start[i]
    BY <1>2, <2>1, Beginning, Zenon
  <2> QED
    BY <1>2, <1>4, <2>2
<1>5. CASE kind \in {"pending", "negative"}
  <2>1. pdu \in {<<NrSid, sid, NrcPending>>, <<NrSid, sid, 49>>}
    BY <1>5 DEF ResponsePdu
  <2>2. Len(pdu) >= 2 /\ pdu[1] = NrSid
    BY <2>1
  <2> HIDE DEF pdu
  <2>3. pdu \in AnswerPdu /\ PduSerials[pdu] = {}
    BY <1>3, <2>2 DEF AnswerPdu, PduSerials
  <2> QED
    BY <2>3 DEF pdu
<1>6. CASE kind \in {"positive", "long", "oversize"}
  <2>1. Len(pdu) >= 2 /\ pdu[2] = n
    <3>1. CASE kind = "positive"
      <4>1. pdu = <<first, n>>
        BY <1>1, <3>1 DEF ResponsePdu
      <4> QED
        BY <4>1
    <3>2. CASE kind = "long"
      <4>1. pdu = start \o [i \in 1 .. 14 |-> 200 + i]
        BY <1>1, <3>2 DEF ResponsePdu
      <4>2. [i \in 1 .. 14 |-> 200 + i] \in Seq(Byte)
        BY DEF Byte
      <4> HIDE DEF pdu, start
      <4> QED
        BY <1>4, <4>1, <4>2
    <3>3. CASE kind = "oversize"
      <4>1. pdu = start \o [i \in 1 .. RxBufBytes |-> 200]
        BY <1>1, <3>3 DEF ResponsePdu
      <4>2. [i \in 1 .. RxBufBytes |-> 200] \in Seq(Byte)
        BY IsoTpAssumption DEF Byte
      <4> HIDE DEF pdu, start
      <4> QED
        BY <1>4, <4>1, <4>2
    <3> QED
      BY <1>6, <3>1, <3>2, <3>3
  <2> HIDE DEF pdu
  <2>2. pdu \in AnswerPdu /\ PduSerials[pdu] \subseteq {n}
    BY <1>3, <2>1 DEF AnswerPdu, PduSerials
  <2> QED
    BY <1>6, <2>2 DEF pdu
<1> QED
  BY <1>5, <1>6 DEF Kinds

\* What a first frame says of the high bits of a length is half a byte.
LEMMA HighNibble == \A n \in Nat : (n \div 256) % 16 \in 0 .. 15
  OBVIOUS

\* The first two bytes of a PDU that takes several frames follow the length.
LEMMA FirstFrameCells ==
  ASSUME NEW pdu \in Seq(Byte), NEW n \in Nat, n = Len(pdu), SfMaxDl < n
  PROVE  /\ Pci(StartFrame(pdu)) = FF
         /\ StartFrame(pdu)[3] = pdu[1] /\ StartFrame(pdu)[4] = pdu[2]
<1> DEFINE high == 16 * FF + ((n \div 256) % 16)
           low == n % 256
           head == <<high, low>>
           body == SubSeq(pdu, 1, FfFirstDl)
           data == StartFrame(pdu)
<1>1. high \in Byte /\ low \in Byte /\ high \div 16 = FF
  <2>1. \A x \in 0 .. 15 : 16 * FF + x \in Byte /\ (16 * FF + x) \div 16 = FF
    BY DEF FF, Byte
  <2>2. (n \div 256) % 16 \in 0 .. 15 /\ n % 256 \in Byte
    BY HighNibble, LengthBytes, ZenonT(40)
  <2> QED
    BY <2>1, <2>2
<1>2. head \in Seq(Byte) /\ Len(head) = 2 /\ head[1] = high
  BY <1>1, FewBytes
<1>3. body \in Seq(Byte) /\ Len(body) = 6
  <2>1. 6 <= Len(pdu) /\ 1 \in Nat \ {0} /\ 6 \in Nat /\ 6 = 1 + 6 - 1
    BY DEF SfMaxDl
  <2> QED
    BY <2>1, PartBytes DEF FfFirstDl
<1>4. body[1] = pdu[1] /\ body[2] = pdu[2]
  <2>1. \A i \in 1 .. 6 : pdu[i] \in Byte
    BY ElementOfSeq DEF SfMaxDl
  <2>2. \A i \in 1 .. 6 - 1 + 1 : SubSeq(pdu, 1, 6)[i] = pdu[1 + i - 1]
    BY <2>1, SubSeqProperties
  <2> QED
    BY <2>2 DEF FfFirstDl
<1>5. data = Padded(head \o body)
  BY DEF StartFrame, FirstFrame, SfMaxDl
<1> HIDE DEF high, low, head, body, data
<1>6. /\ head \o body \in Seq(Byte) /\ Len(head \o body) = 8
      /\ \A i \in 1 .. 8 : (head \o body)[i] = IF i <= 2 THEN head[i] ELSE body[i - 2]
  <2>1. /\ head \o body \in Seq(Byte) /\ Len(head \o body) = Len(head) + Len(body)
        /\ \A i \in 1 .. Len(head) + Len(body) :
             (head \o body)[i] = IF i <= Len(head) THEN head[i] ELSE body[i - Len(head)]
    BY <1>2, <1>3, ConcatProperties, Zenon
  <2>2. Len(head) + Len(body) = 8
    BY <1>2, <1>3
  <2> QED
    BY <1>2, <2>1, <2>2
<1>7. \A i \in 1 .. 8 : data[i] = (head \o body)[i]
  <2> SUFFICES ASSUME NEW i \in 1 .. 8 PROVE data[i] = (head \o body)[i]
    OBVIOUS
  <2>1. i \in Nat /\ 1 <= i /\ i <= TxDl /\ i <= Len(head \o body)
    BY <1>6 DEF TxDl
  <2> QED
    BY <1>5, <1>6, <2>1, PaddedCell, Zenon
<1>8. data[1] = high /\ data[3] = pdu[1] /\ data[4] = pdu[2]
  BY <1>2, <1>4, <1>6, <1>7, SMTT(30)
<1> QED
  BY <1>1, <1>8 DEF Pci, data

\* The frame that starts a PDU says whose answer it is.
LEMMA StartSerials ==
  ASSUME NEW pdu \in AnswerPdu
  PROVE  /\ Whole(StartFrame(pdu))
         /\ Serials(StartFrame(pdu)) \subseteq PduSerials[pdu]
<1>1. pdu \in Seq(Byte) /\ StartFrame(pdu) \in Payload
  BY StartFrameType DEF AnswerPdu
<1>2. PICK n \in Nat : n = Len(pdu) /\ n >= 2
  BY LenProperties DEF AnswerPdu
<1> DEFINE data == StartFrame(pdu)
<1>3. CASE n <= SfMaxDl
  <2>1. Pci(data) = SF /\ LowNibble(data) = n
    BY <1>1, <1>2, <1>3, SingleFrameParts
  <2>2. data[2] = pdu[1] /\ data[3] = pdu[2]
    <3>1. 1 <= n /\ 1 \in 1 .. n /\ 2 \in 1 .. n /\ 1 + 1 = 2 /\ 2 + 1 = 3
      BY <1>2
    <3>2. data[1 + 1] = pdu[1] /\ data[2 + 1] = pdu[2]
      BY <1>1, <1>2, <1>3, <3>1, SingleFrameCells, Zenon
    <3> QED
      BY <3>1, <3>2
  <2> HIDE DEF data
  <2>3. Serials(data) \subseteq PduSerials[pdu]
    BY <1>1, <1>2, <2>1, <2>2 DEF Serials, PduSerials, SF, FF
  <2>4. Whole(data)
    BY <1>2, <2>1 DEF Whole
  <2> QED
    BY <2>3, <2>4 DEF data
<1>4. CASE SfMaxDl < n
  <2>1. Pci(data) = FF /\ data[3] = pdu[1] /\ data[4] = pdu[2]
    BY <1>1, <1>2, <1>4, FirstFrameCells
  <2> HIDE DEF data
  <2>2. Serials(data) \subseteq PduSerials[pdu]
    BY <1>1, <1>2, <2>1 DEF Serials, PduSerials, SF, FF
  <2>3. Whole(data)
    BY <2>1 DEF Whole, SF, FF
  <2> QED
    BY <2>2, <2>3 DEF data
<1>5. n <= SfMaxDl \/ SfMaxDl < n
  BY DEF SfMaxDl
<1> QED
  BY <1>3, <1>4, <1>5

\* A consecutive frame does not, wherever the cursor stands.
LEMMA ContinueSerials ==
  ASSUME NEW pdu \in Seq(Byte), NEW sent \in Nat, NEW sn \in 0 .. SnModulus - 1
  PROVE  /\ Whole(ConsecutiveFrame(pdu, sent, sn))
         /\ Serials(ConsecutiveFrame(pdu, sent, sn)) = {}
<1> DEFINE pci == 16 * CF + sn
           head == <<pci>>
           body == SubSeq(pdu, sent + 1, sent + Chunk(pdu, sent))
           data == ConsecutiveFrame(pdu, sent, sn)
<1>1. pci \in Byte /\ pci \div 16 = CF
  BY PciCoding DEF SnModulus
<1>2. head \in Seq(Byte) /\ Len(head) = 1 /\ head[1] = pci
  BY <1>1, FewBytes
<1>3. body \in Seq(Byte)
  <2>1. sent + Chunk(pdu, sent) \in Int /\ sent + Chunk(pdu, sent) <= Len(pdu)
    BY DEF Chunk, CfDl
  <2> QED
    BY <2>1, SubSeqBytes
<1>4. data = Padded(head \o body)
  BY DEF ConsecutiveFrame
<1> HIDE DEF pci, head, body, data
<1>5. 0 \in Nat /\ 0 <= Len(body) /\ 0 < TxDl
  BY <1>3, LenProperties DEF TxDl
<1>6. data[1] = pci
  BY <1>2, <1>3, <1>4, <1>5, OneByteHeader
<1>7. Pci(data) = CF
  BY <1>1, <1>6 DEF Pci
<1> QED
  BY <1>7 DEF Whole, Serials, CF, SF, FF, data

\* Nor does the frame of another node.
LEMMA NoiseSerials ==
  /\ Whole(SingleFrame(<<NrSid, RDBI, 18>>))
  /\ Serials(SingleFrame(<<NrSid, RDBI, 18>>)) = {}
<1> DEFINE pdu == <<NrSid, RDBI, 18>>
<1>1. NrSid \in Byte /\ RDBI \in Byte /\ 18 \in Byte
  BY DEF NrSid, RDBI, Byte
<1>2. pdu \in Seq(Byte) /\ Len(pdu) = 3 /\ pdu[1] = NrSid
  BY <1>1, FewBytes
<1>3. StartFrame(pdu) = SingleFrame(pdu)
  <2>1. Len(pdu) <= SfMaxDl
    BY <1>2 DEF SfMaxDl
  <2> QED
    BY <2>1, Zenon DEF StartFrame
<1> HIDE DEF pdu
<1>4. pdu \in AnswerPdu /\ PduSerials[pdu] = {}
  <2>1. pdu \in AnswerPdu
    BY <1>2 DEF AnswerPdu
  <2>2. PduSerials[pdu] = {}
    BY <1>2, Zenon DEF PduSerials
  <2> QED
    BY <2>1, <2>2
<1>5. Whole(StartFrame(pdu)) /\ Serials(StartFrame(pdu)) \subseteq PduSerials[pdu]
  BY <1>4, StartSerials
<1> QED
  BY <1>3, <1>4, <1>5 DEF pdu

\* Only the first four cells of a frame matter.
LEMMA SameHead ==
  ASSUME NEW one, NEW other, \A i \in 1 .. 4 : one[i] = other[i]
  PROVE  (Whole(one) <=> Whole(other)) /\ Serials(one) = Serials(other)
<1>1. one[1] = other[1] /\ one[2] = other[2] /\ one[3] = other[3] /\ one[4] = other[4]
  OBVIOUS
<1> QED
  BY <1>1 DEF Whole, Serials, Pci, LowNibble

\* A context or a PDU with the serial numbers of the set S.
Carried(buf, S) == Len(buf) >= 2 /\ PduSerials[buf] \subseteq S

\* A part of a payload's cells as a PDU.
LEMMA PayloadPart ==
  ASSUME NEW data \in Payload, NEW m \in 1 .. 3, NEW n \in 1 .. TxDl, m < n
  PROVE  /\ SubSeq(data, m, n) \in AnswerPdu
         /\ SubSeq(data, m, n)[1] = data[m] /\ SubSeq(data, m, n)[2] = data[m + 1]
<1> DEFINE part == SubSeq(data, m, n)
<1>1. \A i \in m .. n : data[i] \in Byte
  BY DEF Payload, TxDl
<1>2. /\ part \in Seq(Byte) /\ Len(part) = IF m <= n THEN n - m + 1 ELSE 0
      /\ \A i \in 1 .. n - m + 1 : part[i] = data[m + i - 1]
  BY <1>1, SubSeqProperties
<1>3. m <= n /\ n - m + 1 >= 2 /\ 1 \in 1 .. n - m + 1 /\ 2 \in 1 .. n - m + 1
      /\ m + 1 - 1 = m /\ m + 2 - 1 = m + 1
  BY DEF TxDl
<1> HIDE DEF part
<1>4. Len(part) >= 2
  BY <1>2, <1>3
<1>5. part[1] = data[m] /\ part[2] = data[m + 1]
  <2>1. part[1] = data[m + 1 - 1] /\ part[2] = data[m + 2 - 1]
    BY <1>2, <1>3, Zenon
  <2> QED
    BY <1>3, <2>1
<1> QED
  BY <1>2, <1>4, <1>5 DEF AnswerPdu, part

\* RxFeed leaves in an active context, or in a complete PDU, what was in the context or in the frame.
LEMMA FedSerials ==
  ASSUME NEW c, ContextOK(c), NEW dlen, NEW data \in Payload, Whole(data), NEW S,
         Serials(data) \subseteq S, c.active => Carried(c.buf, S)
  PROVE  LET fed == RxFeed(c, dlen, data)
         IN  fed.rx.active \/ fed.result = "DONE" => Carried(fed.rx.buf, S)
<1> DEFINE fed == RxFeed(c, dlen, data)
           Goal(f) == f.rx.active \/ f.result = "DONE" => Carried(f.rx.buf, S)
<1>0. c \in Context
  BY DEF ContextOK
<1>1. ASSUME NEW result \in {"IDLE", "ERROR"}
      PROVE  Goal(Outcome(c, result))
  BY DEF Outcome
<1>2. CASE dlen = 0
  BY <1>1, <1>2 DEF RxFeed
<1>3. CASE dlen # 0 /\ Pci(data) = SF
  <2>1. fed = FeedSingle(c, data)
    BY <1>3 DEF RxFeed, SF, FF, CF
  <2>2. PICK len \in 2 .. 15 : LowNibble(data) = len
    <3>1. LowNibble(data) \in 0 .. 15
      BY Nibbles
    <3> QED
      BY <1>3, <3>1 DEF Whole
  <2>3. CASE len > SfMaxDl \/ len > RxBufBytes
    <3>1. FeedSingle(c, data) = Outcome(c, "ERROR")
      BY <2>2, <2>3, Zenon DEF FeedSingle
    <3> QED
      BY <1>1, <2>1, <3>1
  <2>4. CASE len <= SfMaxDl /\ len <= RxBufBytes
    <3> DEFINE buf == SubSeq(data, 2, len + 1)
    <3>1. buf \in AnswerPdu /\ buf[1] = data[2] /\ buf[2] = data[3]
      <4>1. 2 \in 1 .. 3 /\ len + 1 \in 1 .. TxDl /\ 2 < len + 1 /\ 2 + 1 = 3
        BY <2>4 DEF SfMaxDl, TxDl
      <4> QED
        BY <4>1, PayloadPart
    <3>2. FeedSingle(c, data).rx.buf = buf
      <4>1. len \in Nat /\ 1 <= len /\ buf = SubSeq(data, 2, len + 1)
        OBVIOUS
      <4> HIDE DEF buf
      <4> QED
        BY <1>0, <2>2, <2>4, <4>1, FeedSingleTakes, Zenon
    <3> HIDE DEF buf
    <3>3. PduSerials[buf] \subseteq S
      BY <1>3, <3>1 DEF PduSerials, AnswerPdu, Serials
    <3> QED
      BY <2>1, <3>1, <3>2, <3>3 DEF Carried, AnswerPdu
  <2>5. \/ len > SfMaxDl \/ len > RxBufBytes
        \/ len <= SfMaxDl /\ len <= RxBufBytes
    BY IsoTpAssumption DEF SfMaxDl
  <2> QED
    BY <2>3, <2>4, <2>5
<1>4. CASE dlen # 0 /\ Pci(data) = FF
  <2>1. fed = FeedFirst(c, data)
    BY <1>4 DEF RxFeed, SF, FF, CF
  <2> DEFINE buf == SubSeq(data, 3, FfFirstDl + 2)
  <2>2. \/ FeedFirst(c, data) = Outcome(c, "ERROR")
        \/ FeedFirst(c, data).rx.buf = buf
    BY DEF FeedFirst, Outcome
  <2>3. buf \in AnswerPdu /\ buf[1] = data[3] /\ buf[2] = data[4]
    <3>1. 3 \in 1 .. 3 /\ FfFirstDl + 2 \in 1 .. TxDl /\ 3 < FfFirstDl + 2 /\ 3 + 1 = 4
      BY DEF FfFirstDl, TxDl
    <3> QED
      BY <3>1, PayloadPart
  <2> HIDE DEF buf
  <2>4. Carried(buf, S)
    BY <1>4, <2>3 DEF PduSerials, AnswerPdu, Serials, Carried
  <2> QED
    BY <1>1, <2>1, <2>2, <2>4
<1>5. CASE dlen # 0 /\ Pci(data) = CF
  <2>1. fed = FeedConsecutive(c, data)
    BY <1>5 DEF RxFeed, SF, FF, CF
  <2>2. CASE ~ c.active
    <3>1. FeedConsecutive(c, data) = Outcome(c, "IDLE")
      BY <2>2 DEF FeedConsecutive
    <3> QED
      BY <1>1, <2>1, <3>1
  <2>3. CASE c.active /\ ~ AcceptsConsecutive(c, data)
    <3> DEFINE left == [c EXCEPT !.active = FALSE]
    <3>1. left.active = FALSE
      BY <1>0 DEF Context
    <3>2. FeedConsecutive(c, data).rx = left /\ FeedConsecutive(c, data).result = "ERROR"
      BY <2>3 DEF FeedConsecutive, Outcome
    <3> HIDE DEF left
    <3> QED
      BY <2>1, <3>1, <3>2
  <2>4. CASE c.active /\ AcceptsConsecutive(c, data)
    <3> DEFINE part == SubSeq(data, 2, Wanted(c) + 1)
               buf == c.buf \o part
    <3>1. c.buf \in Seq(Byte) /\ Len(c.buf) >= 2 /\ part \in Seq(Byte)
      BY <1>0, <2>4, WantedBytes DEF Context, Carried
    <3>2. FeedConsecutive(c, data).rx.buf = buf
      <4>1. LowNibble(data) = c.next_sn
        BY <2>4 DEF AcceptsConsecutive
      <4> QED
        BY <1>0, <2>4, <4>1, FeedConsecutiveTakes
    <3>3. PICK k \in Nat : k = Len(c.buf) /\ k >= 2
      BY <3>1, LenProperties
    <3>4. /\ buf \in Seq(Byte) /\ \E n \in Nat : n >= k /\ Len(buf) = n
          /\ \A i \in 1 .. k : buf[i] = c.buf[i]
      <4> HIDE DEF part
      <4> QED
        BY <3>1, <3>3, Beginning, Zenon
    <3> HIDE DEF buf
    <3>5. buf[1] = c.buf[1] /\ buf[2] = c.buf[2] /\ Len(buf) >= 2
      BY <3>3, <3>4
    <3>6. PduSerials[buf] \subseteq PduSerials[c.buf]
      BY <3>1, <3>4, <3>5 DEF PduSerials
    <3> QED
      BY <2>1, <2>4, <3>2, <3>5, <3>6 DEF Carried
  <2> QED
    BY <2>2, <2>3, <2>4
<1>6. CASE dlen # 0 /\ Pci(data) \notin {SF, FF, CF}
  <2>1. fed = Outcome(c, "IDLE")
    BY <1>6 DEF RxFeed, SF, FF, CF
  <2> QED
    BY <1>1, <2>1
<1> QED
  BY <1>2, <1>3, <1>4, <1>5, <1>6

-----------------------------------------------------------------------------
(* The inductive invariant of the credits.                                 *)

\* No more is asked than the application may ask, and every request fits one frame.
Budget ==
  /\ RequestsOK
  /\ asked \in Nat /\ submitted \in Nat
  /\ asked + Waiting + (IF task = "send" /\ ~ keepAlive THEN 1 ELSE 0) <= submitted
  /\ submitted <= MaxRequests
  /\ phase = "rsp" /\ task # "continue"

-----------------------------------------------------------------------------
(* The budget.                                                             *)

\* The bus, the interrupt and the drain task do not spend it.
LEMMA BudgetUnspent ==
  ASSUME Budget, UNCHANGED <<reqQueue, task, req, keepAlive, phase, asked, submitted>>
  PROVE  Budget'
  BY DEF Budget, RequestsOK, Transacting, Waiting

\* The application spends what it has.
LEMMA BudgetApplication ==
  ASSUME Budget, Application
  PROVE  Budget'
<1>1. UNCHANGED <<task, req, keepAlive, phase, asked>>
  BY DEF Application, Submit, RegisterSink, transactionVars, historyVars
<1>2. CASE (\E given \in BOOLEAN : RegisterSink(given)) /\ UNCHANGED historyVars
  BY <1>1, <1>2, BudgetUnspent DEF RegisterSink, historyVars
<1>3. ASSUME NEW r \in Requests, Submit(r), submitted < MaxRequests, submitted' = submitted + 1
      PROVE  Budget'
  <2>1. reqQueue \in Seq(Requests) /\ reqQueue' = Append(reqQueue, r)
    BY <1>3 DEF Submit, Budget, RequestsOK
  <2>2. reqQueue' \in Seq(Requests) /\ Waiting' = Waiting + 1 /\ Waiting \in Nat
    BY <2>1, AppendProperties, LenProperties DEF Waiting
  <2>3. RequestsOK'
    BY <1>1, <2>2 DEF Budget, RequestsOK, Transacting
  <2>4. PICK e \in {0, 1} : e = IF task = "send" /\ ~ keepAlive THEN 1 ELSE 0
    OBVIOUS
  <2>5. (IF task' = "send" /\ ~ keepAlive' THEN 1 ELSE 0) = e /\ e \in Nat
    BY <1>1, <2>4
  <2>6. asked \in Nat /\ submitted \in Nat /\ asked + Waiting + e <= submitted /\ MaxRequests \in Nat
    BY <2>4, TesterAssumption DEF Budget
  <2>7. submitted' \in Nat /\ submitted' <= MaxRequests /\ asked + Waiting' + e <= submitted'
    BY <1>3, <2>2, <2>5, <2>6
  <2> QED
    BY <1>1, <2>3, <2>5, <2>7 DEF Budget
<1> QED
  BY <1>2, <1>3 DEF Application

\* Nor does a step of the task, unless it takes or sends a request; and it never waits for the
\* flow control of a request.
LEMMA QuietTask ==
  ASSUME Budget, UdsRuns, task \notin {"idle", "send"}
  PROVE  /\ UNCHANGED <<reqQueue, req, keepAlive, phase, asked, onBus>>
         /\ task' \notin {"boot", "send", "continue"} /\ (Transacting' => Transacting)
<1>1. asked' = asked /\ onBus' = onBus
  BY DEF UdsRuns, Asks
<1>2. CASE Boot \/ NotifyWait \/ CheckValid \/ ClearValid \/ Report \/ WaitExpires
  BY <1>1, <1>2 DEF Boot, NotifyWait, CheckValid, ClearValid, Report, WaitExpires, Finish,
                    transactionVars, UdsStep, Transacting
<1>3. CASE \E cut \in CopyCuts : CopyHead(cut) \/ CopyOn(cut)
  BY <1>1, <1>3 DEF CopyHead, CopyOn, UdsStep, Transacting
<1>4. CASE FeedFrame
  <2>1. task' \in {"wait", "report"}
    BY <1>4 DEF FeedFrame, Budget, HandleFed, HandlePdu, Finish
  <2> QED
    BY <1>1, <1>4, <2>1 DEF FeedFrame, UdsStep, Transacting
<1>5. CASE ReceiveRequest \/ KeepAliveDue \/ SendRequest \/ SendConsecutive
  BY <1>5 DEF ReceiveRequest, KeepAliveDue, BeginTransaction, SendRequest, SendConsecutive, UdsStep,
              Budget
<1> QED
  BY <1>2, <1>3, <1>4, <1>5 DEF UdsRuns, UdsTask, TimerExpires

\* What is taken from the queue is sent at most once.
LEMMA BudgetTask ==
  ASSUME Budget, UdsRuns
  PROVE  Budget'
<1>0. submitted' = submitted /\ asked \in Nat /\ submitted \in Nat /\ Waiting \in Nat
  BY LenProperties DEF UdsRuns, Budget, RequestsOK, Waiting
<1>1. CASE task \notin {"idle", "send"}
  <2>1. /\ UNCHANGED <<reqQueue, req, keepAlive, phase, asked>>
        /\ task' \notin {"send", "continue"} /\ (Transacting' => Transacting)
    BY <1>1, QuietTask
  <2> QED
    BY <1>0, <1>1, <2>1 DEF Budget, RequestsOK, Waiting
<1>2. CASE task = "idle"
  <2>1. /\ task' = "send" /\ phase' = "rsp" /\ asked' = asked
        /\ \/ /\ reqQueue # <<>> /\ req' = Head(reqQueue) /\ reqQueue' = Tail(reqQueue)
              /\ ~ keepAlive'
           \/ reqQueue' = reqQueue /\ req' = TesterPresentRequest(TRUE) /\ keepAlive'
    <3>1. ReceiveRequest \/ KeepAliveDue
      BY <1>2 DEF UdsRuns, UdsTask, TimerExpires, WaitExpires, Boot, SendRequest, NotifyWait,
                  CheckValid, ClearValid, CopyHead, CopyOn, FeedFrame, SendConsecutive, Report,
                  UdsStep
    <3> QED
      BY <1>2, <3>1 DEF ReceiveRequest, KeepAliveDue, BeginTransaction, UdsRuns, Asks
  <2>2. CASE /\ reqQueue # <<>> /\ req' = Head(reqQueue) /\ reqQueue' = Tail(reqQueue)
             /\ ~ keepAlive'
    <3>1. req' \in Requests /\ reqQueue' \in Seq(Requests) /\ Waiting' = Waiting - 1
      BY <2>2, HeadTailProperties, LenProperties DEF Waiting, Budget, RequestsOK
    <3>2. RequestsOK'
      BY <2>2, <3>1 DEF RequestsOK
    <3>3. asked + Waiting <= submitted
      <4>1. (IF task = "send" /\ ~ keepAlive THEN 1 ELSE 0) = 0
        BY <1>2
      <4>2. asked + Waiting + 0 <= submitted
        BY <4>1 DEF Budget
      <4> QED
        BY <1>0, <4>2
    <3>4. asked' + Waiting' + 1 <= submitted'
      BY <1>0, <2>1, <3>1, <3>3
    <3> QED
      BY <1>0, <2>1, <2>2, <3>2, <3>4 DEF Budget
  <2>3. CASE reqQueue' = reqQueue /\ req' = TesterPresentRequest(TRUE) /\ keepAlive'
    BY <1>0, <1>2, <2>1, <2>3 DEF Budget, RequestsOK, Waiting
  <2> QED
    BY <2>1, <2>2, <2>3
<1>3. CASE task = "send"
  <2>1. SendRequest /\ RequestsOK /\ Transacting
    BY <1>3 DEF UdsRuns, UdsTask, TimerExpires, WaitExpires, Boot, ReceiveRequest, KeepAliveDue,
                BeginTransaction, NotifyWait, CheckValid, ClearValid, CopyHead, CopyOn, FeedFrame,
                SendConsecutive, Report, UdsStep, Budget, Transacting
  <2>2. Pending(BuildPdu(req)) = 0 /\ (keepAlive => Suppressed(req))
    BY <2>1, RequestFits
  <2>3. /\ phase' = "rsp" /\ task' \in {"report", "wait"}
        /\ UNCHANGED <<reqQueue, req, keepAlive>>
    BY <2>1, <2>2 DEF SendRequest, Finish
  <2>4. RequestsOK' /\ Waiting' = Waiting
    BY <2>1, <2>3 DEF RequestsOK, Transacting, Waiting
  <2>5. PICK e \in {0, 1} : e = IF keepAlive THEN 0 ELSE 1
    OBVIOUS
  <2>6. asked + Waiting + e <= submitted
    BY <1>3, <2>5 DEF Budget
  <2>7. asked' = asked \/ (asked' = asked + 1 /\ e = 1)
    BY <2>2, <2>5 DEF UdsRuns, Asks
  <2>8. asked' \in Nat /\ asked' + Waiting' + 0 <= submitted'
    <3>1. CASE asked' = asked
      BY <1>0, <2>4, <2>5, <2>6, <3>1
    <3>2. CASE asked' = asked + 1 /\ e = 1
      BY <1>0, <2>4, <2>6, <3>2
    <3> QED
      BY <2>7, <3>1, <3>2
  <2>9. (IF task' = "send" /\ ~ keepAlive' THEN 1 ELSE 0) = 0 /\ task' # "continue"
    BY <2>3
  <2> QED
    BY <1>0, <2>3, <2>4, <2>8, <2>9 DEF Budget
<1> QED
  BY <1>1, <1>2, <1>3

-----------------------------------------------------------------------------
(* The requests under way.                                                 *)

\* Every request with an answer was reported, or is the one of this transaction.
Reported == Len(credit)
Turns ==
  /\ credit \in Seq(Nat) /\ onBus \in BOOLEAN
  /\ asked = Reported + (IF onBus /\ task \notin {"boot", "idle", "send"} THEN 1 ELSE 0)

\* The mailboxes hold, in their order, the requests that the ECU has not seen yet: they can be
\* given different numbers above those it has answered.
Wants(frame) == Pci(frame.data) # FC /\ Answerable(frame.data)
Tag == {t \in SUBSET Nat : \A x, y \in t : x = y}
TagSerials == [t \in Tag |-> t]
Tagged(tags) ==
  /\ tags \in Seq(Tag)
  /\ Len(tags) = Len(txBox)
  /\ \A i \in 1 .. Len(txBox) : Wants(txBox[i]) => tags[i] # {}
  /\ Rising(tags, TagSerials, AnswerCount, asked)
Mail == AnswerCount <= asked /\ \E tags : Tagged(tags)

\* Tags are sets of numbers.
LEMMA TagTypes ==
  /\ {} \in Tag /\ TagSerials[{}] = {}
  /\ \A n \in Nat : {n} \in Tag /\ TagSerials[{n}] = {n}
  /\ \A t \in Tag : TagSerials[t] = t /\ \A x, y \in TagSerials[t] : x = y
  BY DEF Tag, TagSerials

\* The mailboxes stay in order where they stay alone.
LEMMA MailUnchanged ==
  ASSUME Mail, UNCHANGED <<txBox, answers, asked>>
  PROVE  Mail'
  BY DEF Mail, Tagged, AnswerCount

\* A frame that wants an answer is a further request; any other changes nothing.
LEMMA MailAppend ==
  ASSUME Mail, txBox \in Seq(TxFrame), AnswerCount \in Nat, asked \in Nat, NEW frame \in TxFrame,
         txBox' = Append(txBox, frame), answers' = answers,
         asked' \in Nat, asked <= asked', Wants(frame) => asked + 1 <= asked'
  PROVE  Mail'
<1>1. PICK tags : Tagged(tags)
  BY DEF Mail
<1>2. PICK n \in Nat : n = Len(txBox)
  BY LenProperties
<1>3. tags \in Seq(Tag) /\ Len(tags) = n /\ (\A i \in 1 .. n : Wants(txBox[i]) => tags[i] # {})
      /\ Rising(tags, TagSerials, AnswerCount, asked)
  BY <1>1, <1>2 DEF Tagged
<1>4. Len(txBox') = n + 1 /\ txBox'[n + 1] = frame /\ \A i \in 1 .. n : txBox'[i] = txBox[i]
  BY <1>2, AppendProperties
<1>5. AnswerCount' = AnswerCount /\ AnswerCount <= asked
  BY DEF AnswerCount, Mail
<1>6. \E t \in Tag : (Wants(frame) => t # {}) /\ TagSerials[t] \subseteq asked + 1 .. asked'
  <2>1. CASE Wants(frame)
    <3>1. asked + 1 \in Nat /\ asked + 1 \in asked + 1 .. asked'
      BY <2>1
    <3>2. {asked + 1} \in Tag /\ TagSerials[{asked + 1}] = {asked + 1}
      BY <3>1, TagTypes
    <3> QED
      BY <3>1, <3>2
  <2>2. CASE ~ Wants(frame)
    BY <2>2, TagTypes
  <2> QED
    BY <2>1, <2>2
<1>7. PICK t \in Tag : (Wants(frame) => t # {}) /\ TagSerials[t] \subseteq asked + 1 .. asked'
  BY <1>6
<1> DEFINE more == Append(tags, t)
<1>8. more \in Seq(Tag) /\ Len(more) = n + 1 /\ more[n + 1] = t /\ \A i \in 1 .. n : more[i] = tags[i]
  BY <1>3, AppendProperties
<1>9. Rising(more, TagSerials, AnswerCount, asked')
  BY <1>3, <1>5, <1>7, RisingAppend
<1> HIDE DEF more
<1>10. ASSUME NEW i \in 1 .. n + 1, Wants(txBox'[i])
       PROVE  more[i] # {}
  <2>1. i \in 1 .. n \/ i = n + 1
    OBVIOUS
  <2> QED
    BY <1>3, <1>4, <1>7, <1>8, <1>10, <2>1, Zenon
<1>11. Tagged(more)'
  <2>1. Wants(frame)' <=> Wants(frame)
    OBVIOUS
  <2> QED
    BY <1>4, <1>5, <1>8, <1>9, <1>10 DEF Tagged, Wants
<1>12. AnswerCount' <= asked'
  BY <1>5
<1> QED
  BY <1>11, <1>12 DEF Mail

\* The first frame leaves: if it wants an answer, it is the request after the last answered one.
LEMMA MailHead ==
  ASSUME Mail, txBox \in Seq(TxFrame), txBox # <<>>, AnswerCount \in Nat, asked \in Nat,
         txBox' = Tail(txBox), asked' = asked, AnswerCount' \in Nat,
         Wants(Head(txBox)) => AnswerCount' = AnswerCount + 1,
         ~ Wants(Head(txBox)) => AnswerCount' = AnswerCount
  PROVE  Mail'
<1>1. PICK tags : Tagged(tags)
  BY DEF Mail
<1>2. PICK n \in Nat \ {0} : n = Len(txBox)
  BY EmptySeq, LenProperties
<1>3. /\ tags \in Seq(Tag) /\ Len(tags) = n
      /\ \A i \in 1 .. n : Wants(txBox[i]) => tags[i] # {}
      /\ Rising(tags, TagSerials, AnswerCount, asked)
  BY <1>1, <1>2 DEF Tagged
<1>4. AnswerCount <= asked /\ tags # <<>>
  BY <1>2, <1>3 DEF Mail
<1> DEFINE first == Head(tags)
           rest == Tail(tags)
<1>5. /\ first \in Tag /\ first = tags[1] /\ TagSerials[first] = first
      /\ \A x, y \in TagSerials[first] : x = y
  BY <1>3, <1>4, HeadTailProperties, TagTypes
<1>6. rest \in Seq(Tag) /\ Len(rest) = n - 1 /\ \A i \in 1 .. n - 1 : rest[i] = tags[i + 1]
  BY <1>3, <1>4, HeadTailProperties
<1>7. Len(txBox') = n - 1 /\ Head(txBox) = txBox[1] /\ \A i \in 1 .. n - 1 : txBox'[i] = txBox[i + 1]
  BY <1>2, HeadTailProperties
<1>8. PICK mid \in Nat : /\ AnswerCount <= mid /\ mid <= asked
                         /\ TagSerials[first] \subseteq AnswerCount + 1 .. mid
                         /\ Rising(rest, TagSerials, mid, asked)
  BY <1>3, <1>4, <1>5, RisingHead
<1> HIDE DEF first, rest
<1>9. AnswerCount' <= mid
  <2>1. CASE Wants(Head(txBox))
    <3>1. 1 \in 1 .. n
      OBVIOUS
    <3>2. first # {}
      BY <1>3, <1>5, <1>7, <2>1, <3>1, Zenon
    <3>3. AnswerCount + 1 <= mid
      BY <1>5, <1>8, <3>2
    <3> QED
      BY <2>1, <3>3
  <2>2. CASE ~ Wants(Head(txBox))
    BY <1>8, <2>2
  <2> QED
    BY <2>1, <2>2
<1>10. Rising(rest, TagSerials, AnswerCount', asked)
  <2>1. asked <= asked
    OBVIOUS
  <2> QED
    BY <1>8, <1>9, <2>1, RisingWider
<1>11. ASSUME NEW i \in 1 .. n - 1, Wants(txBox'[i])
       PROVE  rest[i] # {}
  <2>1. i + 1 \in 1 .. n
    OBVIOUS
  <2> QED
    BY <1>3, <1>6, <1>7, <1>11, <2>1, Zenon
<1>12. Tagged(rest)'
  BY <1>6, <1>7, <1>10, <1>11 DEF Tagged, Wants
<1>13. AnswerCount' <= asked'
  BY <1>8, <1>9
<1> QED
  BY <1>12, <1>13 DEF Mail

-----------------------------------------------------------------------------
(* The answers under way.                                                  *)

\* Between the stages of the pipeline lie four numbers: the answers up to c are credited, those
\* up to h are in the client's hands, those up to q have left the capture queue, and those up
\* to e the ECU. Every stage holds its answers in the order of their numbers.
Position(c, h, q, e) ==
  /\ c \in Nat /\ h \in Nat /\ q \in Nat /\ e \in Nat
  /\ c <= h /\ h <= q /\ q <= e /\ e <= AnswerCount

AtEcuFrom(e) == ecuQueue \in Seq(AnswerPdu) /\ Rising(ecuQueue, PduSerials, e, AnswerCount)
InQueueFrom(q, e) == rxQueue \in Seq(AnswerFrames) /\ Rising(rxQueue, FrameSerials, q, e)
InHandFrom(h, q) == drainFrame \in Seq(AnswerFrames) /\ Rising(drainFrame, FrameSerials, h, q)

\* What the client holds within a transaction: in the slot, in the copy, in the reassembly
\* context, in the outcome.
Active == task \notin {"boot", "idle", "report"}
Told(data, S) == Whole(data) /\ Serials(data) \subseteq S
SlotFrom(S) ==
  Active /\ (rxValid \/ task \in {"clear", "copyHead", "copyTail"}) => Told(rxFrame.data, S)
CopyFrom(S) == task = "copyTail" /\ Len(local.data) = TxDl => Told(local.data, S)
ContextFrom(S) == Active /\ rx.active => Carried(rx.buf, S)
OutcomeFrom(S) ==
  task = "report" /\ onBus /\ rsp.result = "OK" => Carried(rsp.data, S) /\ rsp.data[1] # NrSid
ReadFrom(S) == CopyFrom(S) /\ ContextFrom(S) /\ OutcomeFrom(S)

\* What was read counts as long as the transaction read no torn frame.
InClientFrom(S) == SlotFrom(S) /\ (torn \/ ReadFrom(S))

CreditedTo(c) == \A k \in 1 .. Reported : credit[k] <= c

Ordered(c, h, q, e) ==
  /\ Position(c, h, q, e)
  /\ AtEcuFrom(e) /\ InQueueFrom(q, e) /\ InHandFrom(h, q) /\ InClientFrom(c + 1 .. h)
  /\ CreditedTo(c)

InOrder == \E c, h, q, e : Ordered(c, h, q, e)

OrderInv == Budget /\ Turns /\ Mail /\ InOrder /\ EachWholeAnswerOnce

-----------------------------------------------------------------------------
(* What a step that leaves something alone leaves in order.                *)

\* The stages before the client.
LEMMA StagesUnchanged ==
  ASSUME NEW c \in Nat, NEW h \in Nat, NEW q \in Nat, NEW e \in Nat
  PROVE  /\ AtEcuFrom(e) /\ UNCHANGED <<ecuQueue, answers>> => AtEcuFrom(e)'
         /\ InQueueFrom(q, e) /\ rxQueue' = rxQueue => InQueueFrom(q, e)'
         /\ InHandFrom(h, q) /\ drainFrame' = drainFrame => InHandFrom(h, q)'
         /\ CreditedTo(c) /\ credit' = credit => CreditedTo(c)'
         /\ Position(c, h, q, e) /\ answers' = answers => Position(c, h, q, e)'
  BY DEF AtEcuFrom, InQueueFrom, InHandFrom, CreditedTo, Reported, Position, AnswerCount

\* The client.
LEMMA ClientUnchanged ==
  ASSUME NEW S, InClientFrom(S), UNCHANGED <<task, rx, rxFrame, rxValid, local, rsp, onBus, torn>>
  PROVE  InClientFrom(S)'
  BY DEF InClientFrom, SlotFrom, ReadFrom, CopyFrom, ContextFrom, OutcomeFrom, Active

\* The counts and the credits.
LEMMA TurnsUnchanged ==
  ASSUME Turns, EachWholeAnswerOnce, UNCHANGED <<asked, onBus, credit, task>>
  PROVE  Turns' /\ EachWholeAnswerOnce'
  BY DEF Turns, EachWholeAnswerOnce, Reported

\* What the client holds may be more.
LEMMA ClientWider ==
  ASSUME NEW S, NEW T, S \subseteq T, InClientFrom(S)
  PROVE  InClientFrom(T)
  BY Zenon DEF InClientFrom, SlotFrom, ReadFrom, CopyFrom, ContextFrom, OutcomeFrom, Told, Carried

\* What is in the client is above the credits.
LEMMA OrderTypes ==
  ASSUME IInv, OrderInv
  PROVE  /\ AnswerCount \in Nat /\ asked \in Nat /\ AnswerCount <= asked
         /\ asked <= MaxRequests /\ asked <= 255
         /\ txBox \in Seq(TxFrame)
<1>1. AnswerCount \in Nat /\ Waiting \in Nat
  BY CountTypes DEF IInv, OrderInv, Budget
<1>2. asked \in Nat /\ submitted \in Nat /\ submitted <= MaxRequests /\ MaxRequests \in 0 .. 255
      /\ asked + Waiting + (IF task = "send" /\ ~ keepAlive THEN 1 ELSE 0) <= submitted
  BY TesterAssumption DEF OrderInv, Budget
<1>3. PICK n \in {0, 1} : n = IF task = "send" /\ ~ keepAlive THEN 1 ELSE 0
  OBVIOUS
<1>4. asked + Waiting + n <= submitted
  BY <1>2, <1>3
<1>5. asked <= MaxRequests /\ asked <= 255
  BY <1>1, <1>2, <1>4
<1> QED
  BY <1>1, <1>2, <1>5 DEF OrderInv, Mail, IInv, UdsInv, UdsTypeOK, TxFrame

-----------------------------------------------------------------------------
(* The steps of the bus.                                                   *)

\* The answer to the n-th request carries n, and only in its last PDU.
LEMMA ScriptSerials ==
  ASSUME NEW script \in Scripts, NEW sid \in Byte, NEW m \in Nat, NEW n \in 1 .. 255, n = m + 1
  PROVE  LET pdus == [i \in DOMAIN script |-> ResponsePdu(script[i], sid, n)]
         IN  pdus \in Seq(AnswerPdu) /\ Rising(pdus, PduSerials, m, n)
<1>1. script \in Seq(Kinds) /\ script # <<>> /\ \A i \in 1 .. Len(script) - 1 : script[i] = "pending"
  BY TesterAssumption
<1>2. PICK l \in Nat : l = Len(script)
  BY <1>1, LenProperties
<1>3. DOMAIN script = 1 .. l /\ \A i \in 1 .. l : script[i] \in Kinds
  BY <1>1, <1>2, LenProperties
<1>4. \A i \in 1 .. l : ResponsePdu(script[i], sid, n) \in AnswerPdu
                        /\ PduSerials[ResponsePdu(script[i], sid, n)] \subseteq {n}
                        /\ (script[i] = "pending" => PduSerials[ResponsePdu(script[i], sid, n)] = {})
  BY <1>3, ResponseSerials, ZenonT(40)
<1> DEFINE pdus == [i \in DOMAIN script |-> ResponsePdu(script[i], sid, n)]
<1>5. pdus = [i \in 1 .. l |-> ResponsePdu(script[i], sid, n)]
  BY <1>3
<1>6. pdus \in Seq(AnswerPdu) /\ Len(pdus) = l
  BY <1>4, <1>5
<1>7. \A i \in 1 .. l : PduSerials[pdus[i]] \subseteq {n}
                        /\ (script[i] = "pending" => PduSerials[pdus[i]] = {})
  BY <1>4, <1>5
<1> HIDE DEF pdus
<1>8. \A i \in 1 .. l : PduSerials[pdus[i]] \subseteq m + 1 .. n
  <2>1. {n} \subseteq m + 1 .. n
    OBVIOUS
  <2> QED
    BY <1>7, <2>1
<1>9. ASSUME NEW i \in 1 .. l, NEW j \in 1 .. l, i < j
      PROVE  \A x \in PduSerials[pdus[i]], y \in PduSerials[pdus[j]] : x < y
  <2>1. i \in 1 .. l - 1
    BY <1>9
  <2>2. script[i] = "pending"
    BY <1>1, <1>2, <2>1
  <2> QED
    BY <1>7, <2>2, Zenon
<1>10. Rising(pdus, PduSerials, m, n)
  BY <1>6, <1>8, <1>9, Zenon DEF Rising
<1> QED
  BY <1>6, <1>10 DEF pdus

\* A request that reaches the ECU adds its answer behind the others.
LEMMA OrderBusCarries ==
  ASSUME IInv, OrderInv, BusCarries
  PROVE  OrderInv'
<1> DEFINE frame == Head(txBox)
<1>1. /\ txBox # <<>> /\ txBox' = Tail(txBox)
      /\ UNCHANGED <<rxQueue, drainFrame, reqQueue, task, req, keepAlive, phase, rx, local, rsp,
                     rxFrame, rxValid, submitted, asked, onBus, torn, credit>>
  BY DEF BusCarries, captureVars, transactionVars, mailboxVars, historyVars
<1>2. IF Wants(frame) THEN EcuServes(frame.data[2], AnswerCount + 1)
      ELSE UNCHANGED <<ecuQueue, answers>>
  BY DEF BusCarries, Wants, AnswerCount
<1>3. /\ AnswerCount \in Nat /\ asked \in Nat /\ AnswerCount <= asked /\ asked <= 255
      /\ txBox \in Seq(TxFrame)
  BY OrderTypes
<1>4. frame.data[2] \in Byte
  <2>1. frame \in TxFrame
    BY <1>1, <1>3, HeadTailProperties
  <2> QED
    BY <2>1 DEF TxFrame, Payload, TxDl
<1> HIDE DEF frame
<1>5. PICK c, h, q, e : Ordered(c, h, q, e)
  BY DEF OrderInv, InOrder
<1>6. c \in Nat /\ h \in Nat /\ q \in Nat /\ e \in Nat /\ e <= AnswerCount
  BY <1>5 DEF Ordered, Position
<1>7. CASE Wants(frame)
  <2>1. PICK script \in Scripts :
          LET pdus == [i \in DOMAIN script |-> ResponsePdu(script[i], frame.data[2], AnswerCount + 1)]
          IN  ecuQueue' = ecuQueue \o pdus /\ answers' = Append(answers, pdus[Len(pdus)])
    BY <1>2, <1>7 DEF EcuServes
  <2> DEFINE pdus == [i \in DOMAIN script |-> ResponsePdu(script[i], frame.data[2], AnswerCount + 1)]
  <2>2. AnswerCount + 1 <= asked
    <3>1. PICK tags : Tagged(tags)
      BY DEF OrderInv, Mail
    <3>2. PICK n \in Nat \ {0} : n = Len(txBox)
      BY <1>1, <1>3, EmptySeq, LenProperties
    <3>3. 1 \in 1 .. n /\ frame = txBox[1] /\ tags \in Seq(Tag) /\ Len(tags) = n
      BY <3>1, <3>2 DEF Tagged, frame
    <3>4. tags[1] # {} /\ TagSerials[tags[1]] \subseteq AnswerCount + 1 .. asked /\ tags[1] \in Tag
      BY <1>7, <3>1, <3>2, <3>3, ElementOfSeq DEF Tagged, Rising
    <3>5. TagSerials[tags[1]] # {}
      BY <3>4, TagTypes
    <3>6. PICK x : x \in AnswerCount + 1 .. asked
      BY <3>4, <3>5
    <3> QED
      BY <1>3, <3>6
  <2>3. AnswerCount + 1 \in 1 .. 255
    BY <1>3, <2>2
  <2>4. pdus \in Seq(AnswerPdu) /\ Rising(pdus, PduSerials, AnswerCount, AnswerCount + 1)
    BY <1>3, <1>4, <2>3, ScriptSerials
  <2>5. ecuQueue' = ecuQueue \o pdus /\ AnswerCount' = AnswerCount + 1
    <3>1. answers' = Append(answers, pdus[Len(pdus)]) /\ ecuQueue' = ecuQueue \o pdus
      BY <2>1
    <3> HIDE DEF pdus
    <3> QED
      BY <3>1, AppendProperties DEF AnswerCount, IInv, EcuOK
  <2> HIDE DEF pdus
  <2>6. AtEcuFrom(e)'
    <3>1. ecuQueue \in Seq(AnswerPdu) /\ Rising(ecuQueue, PduSerials, e, AnswerCount)
      BY <1>5 DEF Ordered, AtEcuFrom
    <3>2. AnswerCount + 1 \in Nat /\ AnswerCount <= AnswerCount + 1
      BY <1>3
    <3>3. Rising(ecuQueue \o pdus, PduSerials, e, AnswerCount + 1)
      BY <1>3, <1>6, <2>4, <3>1, <3>2, RisingConcat
    <3>4. ecuQueue \o pdus \in Seq(AnswerPdu)
      BY <2>4, <3>1, ConcatProperties
    <3> QED
      BY <2>5, <3>3, <3>4 DEF AtEcuFrom
  <2>7. Position(c, h, q, e)'
    <3>1. e <= AnswerCount'
      BY <1>3, <1>6, <2>5
    <3> QED
      BY <1>5, <3>1 DEF Ordered, Position
  <2>8. InQueueFrom(q, e)' /\ InHandFrom(h, q)' /\ CreditedTo(c)'
    BY <1>1, <1>5, <1>6, StagesUnchanged DEF Ordered
  <2>9. InClientFrom(c + 1 .. h)'
    BY <1>1, <1>5, ClientUnchanged DEF Ordered
  <2>10. InOrder'
    BY <2>6, <2>7, <2>8, <2>9 DEF InOrder, Ordered
  <2>11. Mail'
    BY <1>1, <1>3, <1>7, <2>3, <2>5, MailHead DEF OrderInv, frame
  <2> QED
    BY <1>1, <2>10, <2>11, BudgetUnspent, TurnsUnchanged DEF OrderInv
<1>8. CASE ~ Wants(frame)
  <2>1. UNCHANGED <<ecuQueue, answers>> /\ AnswerCount' = AnswerCount
    BY <1>2, <1>8 DEF AnswerCount
  <2>2. /\ Position(c, h, q, e)' /\ AtEcuFrom(e)' /\ InQueueFrom(q, e)' /\ InHandFrom(h, q)'
        /\ CreditedTo(c)'
    BY <1>1, <1>5, <1>6, <2>1, StagesUnchanged DEF Ordered
  <2>3. InClientFrom(c + 1 .. h)'
    BY <1>1, <1>5, ClientUnchanged DEF Ordered
  <2>4. InOrder'
    BY <2>2, <2>3 DEF InOrder, Ordered
  <2>5. Mail'
    BY <1>1, <1>3, <1>8, <2>1, MailHead DEF OrderInv, frame
  <2> QED
    BY <1>1, <2>4, <2>5, BudgetUnspent, TurnsUnchanged DEF OrderInv
<1> QED
  BY <1>7, <1>8

\* What a frame of the bus does not touch.
OffBus == <<reqQueue, task, req, keepAlive, phase, rx, local, rsp, rxFrame, rxValid, txBox,
            answers, submitted, asked, onBus, torn, credit>>

\* A captured frame is queued behind the others, or dropped.
LEMMA CapturedInOrder ==
  ASSUME NEW q \in Nat, NEW e \in Nat, NEW mid \in Nat, q <= e, e <= mid, InQueueFrom(q, e),
         NEW frame \in AnswerFrames, FrameSerials[frame] \subseteq e + 1 .. mid, RxIsrCb(frame)
  PROVE  InQueueFrom(q, mid)' /\ drainFrame' = drainFrame
<1>1. /\ rxQueue \in Seq(AnswerFrames) /\ Rising(rxQueue, FrameSerials, q, e)
      /\ drainFrame' = drainFrame
  BY DEF InQueueFrom, RxIsrCb
<1>2. CASE rxQueue' = Append(rxQueue, frame)
  <2>1. Rising(Append(rxQueue, frame), FrameSerials, q, mid)
    BY <1>1, RisingAppend
  <2> QED
    BY <1>1, <1>2, <2>1, AppendProperties DEF InQueueFrom
<1>3. CASE rxQueue' = rxQueue
  <2>1. q <= q
    OBVIOUS
  <2>2. Rising(rxQueue, FrameSerials, q, mid)
    BY <1>1, <2>1, RisingWider
  <2> QED
    BY <1>1, <1>3, <2>2 DEF InQueueFrom
<1> QED
  BY <1>2, <1>3 DEF RxIsrCb

\* A frame on the bus is captured; the ECU may have moved on to the answers above mid.
LEMMA OrderCaptured ==
  ASSUME OrderInv, NEW c, NEW h, NEW q, NEW e, Ordered(c, h, q, e),
         NEW mid \in Nat, e <= mid, mid <= AnswerCount, AtEcuFrom(mid)',
         NEW frame \in AnswerFrames, FrameSerials[frame] \subseteq e + 1 .. mid, RxIsrCb(frame),
         UNCHANGED OffBus
  PROVE  OrderInv'
<1>0. UNCHANGED <<reqQueue, task, req, keepAlive, phase, rx, local, rsp, rxFrame, rxValid, txBox,
                  answers, submitted, asked, onBus, torn, credit>>
  BY DEF OffBus
<1>1. c \in Nat /\ h \in Nat /\ q \in Nat /\ e \in Nat /\ c <= h /\ h <= q /\ q <= e
  BY DEF Ordered, Position
<1>2. InQueueFrom(q, mid)' /\ drainFrame' = drainFrame
  BY <1>1, CapturedInOrder DEF Ordered
<1>3. Position(c, h, q, mid)'
  <2>1. q <= mid
    BY <1>1
  <2> QED
    BY <1>0, <1>1, <2>1 DEF Position, AnswerCount
<1>4. InHandFrom(h, q)' /\ CreditedTo(c)'
  BY <1>0, <1>1, <1>2, StagesUnchanged DEF Ordered
<1>5. InClientFrom(c + 1 .. h)'
  BY <1>0, ClientUnchanged DEF Ordered
<1>6. InOrder'
  BY <1>2, <1>3, <1>4, <1>5 DEF InOrder, Ordered
<1> QED
  BY <1>0, <1>6, BudgetUnspent, MailUnchanged, TurnsUnchanged DEF OrderInv

\* A frame of the ECU's or of another node's that is whole.
LEMMA AnswerFrameType ==
  ASSUME NEW id \in {RspId, OtherId}, NEW data \in Payload, Whole(data)
  PROVE  BusFrame(id, data) \in AnswerFrames /\ FrameSerials[BusFrame(id, data)] = Serials(data)
<1>1. BusFrame(id, data) \in CapturedFrame /\ BusFrame(id, data).data = data
  BY BusFrameType DEF BusFrame
<1> QED
  BY <1>1 DEF AnswerFrames, FrameSerials

\* The ECU's steps and the noise.
LEMMA OrderBus ==
  ASSUME IInv, OrderInv, Bus \/ Noise
  PROVE  OrderInv'
<1>0. PICK c, h, q, e : Ordered(c, h, q, e)
  BY DEF OrderInv, InOrder
<1>1. /\ c \in Nat /\ h \in Nat /\ q \in Nat /\ e \in Nat /\ e <= AnswerCount /\ AnswerCount \in Nat
      /\ AtEcuFrom(e) /\ e <= e
  BY <1>0, OrderTypes DEF Ordered, Position
<1>2. CASE BusCarries
  BY <1>2, OrderBusCarries
<1>3. CASE EcuStarts
  <2> DEFINE pdu == Head(ecuQueue)
             data == StartFrame(pdu)
             frame == BusFrame(RspId, data)
  <2>1. ecuQueue # <<>> /\ RxIsrCb(frame) /\ ecuQueue' = Tail(ecuQueue) /\ UNCHANGED OffBus
    BY <1>3 DEF EcuStarts, OffBus, udsVars, transactionVars, mailboxVars, historyVars
  <2>2. ecuQueue \in Seq(AnswerPdu) /\ Rising(ecuQueue, PduSerials, e, AnswerCount)
    BY <1>1 DEF AtEcuFrom
  <2>3. pdu \in AnswerPdu /\ Tail(ecuQueue) \in Seq(AnswerPdu) /\ pdu \in Seq(Byte)
    BY <2>1, <2>2, HeadTailProperties DEF AnswerPdu
  <2>4. \A x, y \in PduSerials[pdu] : x = y
    BY <2>3, OneSerial
  <2>5. PICK mid \in Nat : /\ e <= mid /\ mid <= AnswerCount
                           /\ PduSerials[pdu] \subseteq e + 1 .. mid
                           /\ Rising(Tail(ecuQueue), PduSerials, mid, AnswerCount)
    BY <1>1, <2>1, <2>2, <2>4, RisingHead
  <2> HIDE DEF pdu
  <2>6. data \in Payload /\ Whole(data) /\ Serials(data) \subseteq PduSerials[pdu]
    BY <2>3, StartFrameType, StartSerials
  <2> HIDE DEF data
  <2>7. frame \in AnswerFrames /\ FrameSerials[frame] \subseteq e + 1 .. mid
    BY <2>5, <2>6, AnswerFrameType
  <2> HIDE DEF frame
  <2>8. AtEcuFrom(mid)'
    <3>1. answers' = answers
      BY <2>1 DEF OffBus
    <3> QED
      BY <2>1, <2>3, <2>5, <3>1 DEF AtEcuFrom, AnswerCount
  <2> QED
    BY <1>0, <2>1, <2>5, <2>7, <2>8, OrderCaptured
<1>4. CASE EcuContinues
  <2> DEFINE data == ConsecutiveFrame(ecuTransfer.pdu, ecuTransfer.sent, ecuTransfer.sn)
             frame == BusFrame(RspId, data)
  <2>1. RxIsrCb(frame) /\ UNCHANGED <<ecuQueue, answers>> /\ UNCHANGED OffBus
    BY <1>4 DEF EcuContinues, OffBus, udsVars, transactionVars, mailboxVars, historyVars
  <2>2. data \in Payload /\ Whole(data) /\ Serials(data) = {}
    BY ConsecutiveFrameType, ContinueSerials DEF IInv, EcuOK, Transfer
  <2> HIDE DEF data
  <2>3. frame \in AnswerFrames /\ FrameSerials[frame] \subseteq e + 1 .. e
    BY <2>2, AnswerFrameType
  <2> HIDE DEF frame
  <2>4. AtEcuFrom(e)'
    BY <1>1, <2>1, StagesUnchanged
  <2> QED
    BY <1>0, <1>1, <2>1, <2>3, <2>4, OrderCaptured
<1>5. CASE EcuAbandons
  <2>1. UNCHANGED <<rxQueue, drainFrame, ecuQueue>> /\ UNCHANGED OffBus
    BY <1>5 DEF EcuAbandons, OffBus, captureVars, udsVars, transactionVars, mailboxVars, historyVars
  <2>2. UNCHANGED <<reqQueue, task, req, keepAlive, phase, rx, local, rsp, rxFrame, rxValid, txBox,
                    answers, submitted, asked, onBus, torn, credit>>
    BY <2>1 DEF OffBus
  <2>3. Ordered(c, h, q, e)'
    BY <1>0, <1>1, <2>1, <2>2, StagesUnchanged, ClientUnchanged DEF Ordered
  <2>4. InOrder'
    BY <2>3 DEF InOrder
  <2> QED
    BY <2>2, <2>4, BudgetUnspent, MailUnchanged, TurnsUnchanged DEF OrderInv
<1>6. CASE Noise
  <2> DEFINE data == SingleFrame(<<NrSid, RDBI, 18>>)
             frame == BusFrame(OtherId, data)
  <2>1. RxIsrCb(frame) /\ UNCHANGED <<ecuQueue, answers>> /\ UNCHANGED OffBus
    BY <1>6 DEF Noise, OffBus, udsVars, transactionVars, mailboxVars, ecuVars
  <2>2. data \in Payload /\ Whole(data) /\ Serials(data) = {}
    BY NoiseFrame, NoiseSerials
  <2> HIDE DEF data
  <2>3. frame \in AnswerFrames /\ FrameSerials[frame] \subseteq e + 1 .. e
    BY <2>2, AnswerFrameType
  <2> HIDE DEF frame
  <2>4. AtEcuFrom(e)'
    BY <1>1, <2>1, StagesUnchanged
  <2> QED
    BY <1>0, <1>1, <2>1, <2>3, <2>4, OrderCaptured
<1> QED
  BY <1>2, <1>3, <1>4, <1>5, <1>6 DEF Bus

-----------------------------------------------------------------------------
(* The steps of the drain task.                                            *)

\* The first frame of the queue is the next in hand.
LEMMA OrderDrainReceive ==
  ASSUME OrderInv, DrainReceive, UNCHANGED <<udsVars, ecuVars, historyVars>>
  PROVE  OrderInv'
<1>0. PICK c, h, q, e : Ordered(c, h, q, e)
  BY DEF OrderInv, InOrder
<1>1. /\ c \in Nat /\ h \in Nat /\ q \in Nat /\ e \in Nat /\ c <= h /\ h <= q /\ q <= e
      /\ e <= AnswerCount
  BY <1>0 DEF Ordered, Position
<1>2. UNCHANGED <<reqQueue, task, req, keepAlive, phase, rx, local, rsp, rxFrame, rxValid, txBox,
                  ecuQueue, answers, submitted, asked, onBus, torn, credit>>
  BY DEF udsVars, transactionVars, mailboxVars, ecuVars, historyVars
<1> DEFINE frame == Head(rxQueue)
<1>3. rxQueue # <<>> /\ rxQueue' = Tail(rxQueue) /\ drainFrame' = <<frame>>
  BY DEF DrainReceive, DrainReady
<1>4. rxQueue \in Seq(AnswerFrames) /\ Rising(rxQueue, FrameSerials, q, e)
  BY <1>0 DEF Ordered, InQueueFrom
<1>5. frame \in AnswerFrames /\ Tail(rxQueue) \in Seq(AnswerFrames)
  BY <1>3, <1>4, HeadTailProperties
<1>6. \A x, y \in FrameSerials[frame] : x = y
  BY <1>5, OneSerial DEF AnswerFrames
<1>7. PICK mid \in Nat : /\ q <= mid /\ mid <= e
                         /\ FrameSerials[frame] \subseteq q + 1 .. mid
                         /\ Rising(Tail(rxQueue), FrameSerials, mid, e)
  BY <1>1, <1>3, <1>4, <1>6, RisingHead
<1> HIDE DEF frame
<1>8. InHandFrom(h, mid)'
  <2>1. <<>> \in Seq(AnswerFrames) /\ Append(<<>>, frame) = <<frame>> /\ <<frame>> \in Seq(AnswerFrames)
    BY <1>5
  <2>2. Rising(Append(<<>>, frame), FrameSerials, h, mid)
    BY <1>1, <1>5, <1>7, <2>1, RisingEmpty, RisingAppend
  <2> QED
    BY <1>3, <2>1, <2>2 DEF InHandFrom
<1>9. InQueueFrom(mid, e)'
  BY <1>3, <1>5, <1>7 DEF InQueueFrom
<1>10. Position(c, h, mid, e)'
  <2>1. h <= mid
    BY <1>1, <1>7
  <2> QED
    BY <1>1, <1>2, <1>7, <2>1 DEF Position, AnswerCount
<1>11. AtEcuFrom(e)' /\ CreditedTo(c)' /\ InClientFrom(c + 1 .. h)'
  BY <1>0, <1>1, <1>2, StagesUnchanged, ClientUnchanged DEF Ordered
<1>12. InOrder'
  BY <1>8, <1>9, <1>10, <1>11 DEF InOrder, Ordered
<1> QED
  BY <1>2, <1>12, BudgetUnspent, MailUnchanged, TurnsUnchanged DEF OrderInv

\* The frame in hand goes to the slot, or is not addressed to the client.
LEMMA OrderDrainSend ==
  ASSUME OrderInv, NEW frame, DrainSend(frame), OnCapturedFrame(frame),
         UNCHANGED <<reqQueue, task, transactionVars, sink, report, txBox, ecuVars, historyVars>>
  PROVE  OrderInv'
<1>0. PICK c, h, q, e : Ordered(c, h, q, e)
  BY DEF OrderInv, InOrder
<1>1. /\ c \in Nat /\ h \in Nat /\ q \in Nat /\ e \in Nat /\ c <= h /\ h <= q /\ q <= e
      /\ e <= AnswerCount
  BY <1>0 DEF Ordered, Position
<1>2. UNCHANGED <<reqQueue, task, req, keepAlive, phase, rx, local, rsp, txBox,
                  rxQueue, ecuQueue, answers, submitted, asked, onBus, torn, credit>>
  BY DEF DrainSend, transactionVars, ecuVars, historyVars
<1>3. drainFrame = <<frame>> /\ drainFrame' = <<>>
  BY DEF DrainSend
<1>4. frame \in AnswerFrames /\ FrameSerials[frame] \subseteq h + 1 .. q
  <2>1. drainFrame \in Seq(AnswerFrames) /\ Rising(drainFrame, FrameSerials, h, q)
    BY <1>0 DEF Ordered, InHandFrom
  <2>2. Len(drainFrame) = 1 /\ drainFrame[1] = frame /\ 1 \in 1 .. 1
    BY <1>3
  <2> QED
    BY <2>1, <2>2, ElementOfSeq DEF Rising
<1>5. Told(frame.data, c + 1 .. q)
  <2>1. frame \in CapturedFrame /\ Whole(frame.data) /\ FrameSerials[frame] = Serials(frame.data)
    BY <1>4 DEF AnswerFrames, FrameSerials
  <2>2. h + 1 .. q \subseteq c + 1 .. q
    BY <1>1
  <2> QED
    BY <1>4, <2>1, <2>2, Zenon DEF Told
<1>6. InClientFrom(c + 1 .. q)
  <2>1. c + 1 .. h \subseteq c + 1 .. q
    BY <1>1
  <2> QED
    BY <1>0, <2>1, ClientWider DEF Ordered
<1>7. rxFrame' = frame \/ UNCHANGED <<rxFrame, rxValid>>
  BY DEF OnCapturedFrame, mailboxVars
<1>8. InClientFrom(c + 1 .. q)'
  <2>1. torn' \/ ReadFrom(c + 1 .. q)'
    BY <1>2, <1>6 DEF InClientFrom, ReadFrom, CopyFrom, ContextFrom, OutcomeFrom, Active
  <2>2. SlotFrom(c + 1 .. q)'
    BY <1>2, <1>5, <1>6, <1>7 DEF InClientFrom, SlotFrom, Active
  <2> QED
    BY <2>1, <2>2 DEF InClientFrom
<1>9. InHandFrom(q, q)'
  BY <1>3, RisingEmpty, EmptySeq DEF InHandFrom
<1>10. Position(c, q, q, e)'
  <2>1. c <= q /\ q <= q
    BY <1>1
  <2> QED
    BY <1>1, <1>2, <2>1 DEF Position, AnswerCount
<1>11. AtEcuFrom(e)' /\ InQueueFrom(q, e)' /\ CreditedTo(c)'
  BY <1>0, <1>1, <1>2, StagesUnchanged DEF Ordered
<1>12. InOrder'
  BY <1>8, <1>9, <1>10, <1>11 DEF InOrder, Ordered
<1> QED
  BY <1>2, <1>12, BudgetUnspent, MailUnchanged, TurnsUnchanged DEF OrderInv

\* The application submits or registers.
LEMMA OrderApplication ==
  ASSUME OrderInv, Application
  PROVE  OrderInv'
<1>0. PICK c, h, q, e : Ordered(c, h, q, e)
  BY DEF OrderInv, InOrder
<1>1. c \in Nat /\ h \in Nat /\ q \in Nat /\ e \in Nat
  BY <1>0 DEF Ordered, Position
<1>2. UNCHANGED <<task, rx, local, rsp, rxFrame, rxValid, txBox, rxQueue, drainFrame,
                  ecuQueue, answers, asked, onBus, torn, credit>>
  BY DEF Application, Submit, RegisterSink, captureVars, transactionVars, mailboxVars, ecuVars,
         historyVars
<1>3. Ordered(c, h, q, e)'
  BY <1>0, <1>1, <1>2, StagesUnchanged, ClientUnchanged DEF Ordered
<1>4. InOrder'
  BY <1>3 DEF InOrder
<1> QED
  BY <1>2, <1>4, BudgetApplication, MailUnchanged, TurnsUnchanged DEF OrderInv

-----------------------------------------------------------------------------
(* The steps of the UDS task.                                              *)

\* Every step of the task that does not report leaves the credits and the stages before it.
LEMMA OrderTask ==
  ASSUME IInv, OrderInv, UdsRuns, task # "report", Turns', Mail',
         \A S : InClientFrom(S) => InClientFrom(S)'
  PROVE  OrderInv'
<1>0. PICK c, h, q, e : Ordered(c, h, q, e)
  BY DEF OrderInv, InOrder
<1>1. c \in Nat /\ h \in Nat /\ q \in Nat /\ e \in Nat
  BY <1>0 DEF Ordered, Position
<1>2. UNCHANGED <<rxQueue, drainFrame, ecuQueue, answers, credit>>
  BY DEF UdsRuns, captureVars, ecuVars
<1>3. Ordered(c, h, q, e)'
  BY <1>0, <1>1, <1>2, StagesUnchanged DEF Ordered
<1>4. InOrder' /\ EachWholeAnswerOnce'
  BY <1>2, <1>3 DEF InOrder, OrderInv, EachWholeAnswerOnce
<1> QED
  BY <1>4, BudgetTask DEF OrderInv

\* A frame that tears excuses the transaction from then on, and nothing else does.
LEMMA ClientStep ==
  ASSUME UdsRuns, task # "report", NEW S, SlotFrom(S)',
         ~ torn /\ ~ Tears /\ ReadFrom(S) => ReadFrom(S)', InClientFrom(S)
  PROVE  InClientFrom(S)'
<1>1. torn' <=> torn \/ Tears
  BY DEF UdsRuns
<1> QED
  BY <1>1 DEF InClientFrom

\* Inside a transaction whose request is sent, no turn passes before the report.
LEMMA TurnKept ==
  ASSUME OrderInv, UdsRuns, task \notin {"boot", "idle", "send", "report"}
  PROVE  Turns' /\ asked' = asked /\ onBus' = onBus /\ answers' = answers
<1>1. asked' = asked /\ onBus' = onBus /\ credit' = credit /\ answers' = answers
  BY DEF UdsRuns, Asks, ecuVars
<1>2. task' \notin {"boot", "idle", "send"}
  <2>1. NotifyWait \/ CheckValid \/ ClearValid \/ FeedFrame
        \/ SendConsecutive \/ WaitExpires \/ (\E cut \in CopyCuts : CopyHead(cut) \/ CopyOn(cut))
    BY DEF UdsRuns, UdsTask, TimerExpires, Boot, ReceiveRequest, KeepAliveDue, BeginTransaction,
           SendRequest, Report, UdsStep
  <2>2. CASE FeedFrame
    BY <2>2, FeedLeavesCopy
  <2>3. CASE ~ FeedFrame
    BY <2>1, <2>3 DEF NotifyWait, CheckValid, ClearValid, CopyHead, CopyOn, SendConsecutive,
                      WaitExpires, Finish, UdsStep
  <2> QED
    BY <2>2, <2>3
<1> QED
  BY <1>1, <1>2 DEF OrderInv, Turns, Reported

\* The task starts.
LEMMA OrderBoots ==
  ASSUME IInv, OrderInv, UdsRuns, Boot
  PROVE  OrderInv'
<1>1. task = "boot" /\ task' = "idle" /\ UNCHANGED <<asked, onBus, credit, txBox, answers>>
  BY DEF Boot, UdsStep, UdsRuns, Asks, ecuVars
<1>2. Turns'
  BY <1>1 DEF OrderInv, Turns, Reported
<1>3. ASSUME NEW S, InClientFrom(S)
      PROVE  InClientFrom(S)'
  BY <1>1 DEF InClientFrom, SlotFrom, ReadFrom, CopyFrom, ContextFrom, OutcomeFrom, Active
<1> QED
  BY <1>1, <1>2, <1>3, MailUnchanged, OrderTask DEF OrderInv

\* A transaction begins with an empty slot and an empty context.
LEMMA OrderBegins ==
  ASSUME IInv, OrderInv, UdsRuns, ReceiveRequest \/ KeepAliveDue
  PROVE  OrderInv'
<1>1. /\ task = "idle" /\ task' = "send" /\ rxValid' = FALSE /\ rx' = RxInit
      /\ UNCHANGED <<asked, onBus, credit, txBox, answers>>
  BY DEF ReceiveRequest, KeepAliveDue, BeginTransaction, UdsStep, UdsRuns, Asks, ecuVars
<1>2. Turns'
  BY <1>1 DEF OrderInv, Turns, Reported
<1>3. ASSUME NEW S, InClientFrom(S)
      PROVE  InClientFrom(S)'
  BY <1>1 DEF InClientFrom, SlotFrom, ReadFrom, CopyFrom, ContextFrom, OutcomeFrom, Active, RxInit
<1> QED
  BY <1>1, <1>2, <1>3, MailUnchanged, OrderTask DEF OrderInv

\* A request that goes into a mailbox and wants an answer takes the next turn.
LEMMA OrderSends ==
  ASSUME IInv, OrderInv, UdsRuns, SendRequest
  PROVE  OrderInv'
<1> DEFINE data == StartFrame(BuildPdu(req))
           frame == [id |-> RequestId(req), data |-> data]
<1>1. /\ task = "send" /\ Transacting
      /\ UNCHANGED <<rx, local, rxFrame, rxValid, answers, credit>>
      /\ txBox' = IF MailboxFree THEN Append(txBox, frame) ELSE txBox
  BY DEF SendRequest, UdsStep, Transmit, Transacting, UdsRuns, ecuVars
<1>2. /\ req \in RequestType /\ Pending(BuildPdu(req)) = 0
      /\ req.sid = TP => req.sub \in {0, TpSuppress}
  BY <1>1, RequestFits DEF OrderInv, Budget
<1>3. (Answerable(data) <=> ~ Suppressed(req)) /\ data \in Payload
  BY <1>2, RequestFrame, BuildPduType, StartFrameType
<1>4. \/ ~ MailboxFree /\ task' = "report"
      \/ MailboxFree /\ Suppressed(req) /\ task' = "report"
      \/ MailboxFree /\ ~ Suppressed(req) /\ task' = "wait"
  BY <1>2 DEF SendRequest, Finish
<1>5. /\ asked' = IF MailboxFree /\ ~ Suppressed(req) THEN asked + 1 ELSE asked
      /\ onBus' = (MailboxFree /\ ~ Suppressed(req))
  BY <1>1 DEF UdsRuns, Asks
<1> HIDE DEF data
<1>6. frame \in TxFrame /\ (Wants(frame) => ~ Suppressed(req))
  BY <1>3 DEF TxFrame, RequestId, Wants
<1> HIDE DEF frame
<1>7. AnswerCount \in Nat /\ asked \in Nat /\ txBox \in Seq(TxFrame)
  BY OrderTypes
<1>8. Turns'
  <2>1. credit \in Seq(Nat) /\ asked = Reported + 0 /\ Reported \in Nat
    <3>1. (IF onBus /\ task \notin {"boot", "idle", "send"} THEN 1 ELSE 0) = 0
      BY <1>1
    <3> QED
      BY <3>1, LenProperties DEF OrderInv, Turns, Reported
  <2>2. Reported' = Reported
    BY <1>1 DEF Reported
  <2>3. onBus' \in BOOLEAN
    BY <1>5
  <2>4. CASE MailboxFree /\ ~ Suppressed(req)
    <3>1. task' = "wait" /\ onBus' /\ asked' = asked + 1
      BY <1>4, <1>5, <2>4
    <3>2. (IF onBus' /\ task' \notin {"boot", "idle", "send"} THEN 1 ELSE 0) = 1
      BY <3>1
    <3>3. asked' = Reported' + 1
      BY <2>1, <2>2, <3>1
    <3> QED
      BY <1>1, <2>1, <2>3, <3>2, <3>3 DEF Turns
  <2>5. CASE ~ (MailboxFree /\ ~ Suppressed(req))
    <3>1. ~ onBus' /\ asked' = asked
      BY <1>5, <2>5
    <3>2. (IF onBus' /\ task' \notin {"boot", "idle", "send"} THEN 1 ELSE 0) = 0
      BY <3>1
    <3>3. asked' = Reported' + 0
      BY <2>1, <2>2, <3>1
    <3> QED
      BY <1>1, <2>1, <2>3, <3>2, <3>3 DEF Turns
  <2> QED
    BY <2>4, <2>5
<1>9. Mail'
  <2>1. CASE ~ MailboxFree
    <3>1. UNCHANGED <<txBox, answers, asked>>
      BY <1>1, <1>5, <2>1
    <3> QED
      BY <3>1, MailUnchanged DEF OrderInv
  <2>2. CASE MailboxFree
    <3>1. txBox' = Append(txBox, frame) /\ answers' = answers
      BY <1>1, <2>2
    <3>2. asked' \in Nat /\ asked <= asked' /\ (Wants(frame) => asked + 1 <= asked')
      BY <1>5, <1>6, <1>7, <2>2
    <3> QED
      BY <1>6, <1>7, <3>1, <3>2, MailAppend DEF OrderInv
  <2> QED
    BY <2>1, <2>2
<1>10. ASSUME NEW S, InClientFrom(S)
       PROVE  InClientFrom(S)'
  <2>1. Active /\ task' \in {"wait", "report"} /\ (task' = "report" => ~ onBus')
    BY <1>1, <1>4, <1>5 DEF Active
  <2>2. SlotFrom(S)'
    BY <1>1, <1>10, <2>1 DEF InClientFrom, SlotFrom, Active
  <2>3. ReadFrom(S) => ReadFrom(S)'
    BY <1>1, <2>1 DEF ReadFrom, CopyFrom, ContextFrom, OutcomeFrom, Active
  <2> QED
    BY <1>1, <1>10, <2>2, <2>3, ClientStep
<1> QED
  BY <1>1, <1>8, <1>9, <1>10, OrderTask

\* The task is notified, finds a frame in the slot and takes it; or it gives up.
LEMMA OrderTakes ==
  ASSUME IInv, OrderInv, UdsRuns, NotifyWait \/ CheckValid \/ ClearValid \/ WaitExpires
  PROVE  OrderInv'
<1>1. /\ \/ task = "wait" /\ task' = "check" /\ rxValid' = rxValid
         \/ task = "check" /\ rxValid /\ task' = "clear" /\ rxValid' = rxValid
         \/ task = "clear" /\ task' = "copyHead" /\ rxValid' = FALSE
         \/ task' = "report" /\ rsp'.result = "TIMEOUT"
      /\ task \in {"wait", "check", "clear"}
      /\ UNCHANGED <<rx, local, rxFrame, txBox>>
  BY DEF NotifyWait, CheckValid, ClearValid, WaitExpires, UdsStep, Finish, transactionVars
<1>2. Turns' /\ Mail'
  BY <1>1, TurnKept, MailUnchanged DEF OrderInv
<1>3. ASSUME NEW S, InClientFrom(S)
      PROVE  InClientFrom(S)'
  <2>1. SlotFrom(S)'
    BY <1>1, <1>3 DEF InClientFrom, SlotFrom, Active
  <2>2. ReadFrom(S) => ReadFrom(S)'
    BY <1>1 DEF ReadFrom, CopyFrom, ContextFrom, OutcomeFrom, Active
  <2> QED
    BY <1>1, <1>3, <2>1, <2>2, ClientStep
<1> QED
  BY <1>1, <1>2, <1>3, OrderTask

\* The first cells of the frame are copied; if that is all of them, they tell whose answer it is.
LEMMA OrderCopies ==
  ASSUME IInv, OrderInv, UdsRuns, NEW cut \in CopyCuts, CopyHead(cut)
  PROVE  OrderInv'
<1> DEFINE head == SubSeq(rxFrame.data, 1, cut)
<1>1. /\ task = "copyHead" /\ task' = "copyTail"
      /\ local' = [dlen |-> rxFrame.dlen, data |-> head]
      /\ UNCHANGED <<rx, rxFrame, rxValid, txBox>>
  BY DEF CopyHead, UdsStep
<1>2. Turns' /\ Mail'
  BY <1>1, TurnKept, MailUnchanged DEF OrderInv
<1>3. cut \in Nat /\ cut <= TxDl
  BY UdsAssumption DEF TxDl
<1>4. rxFrame.data \in Payload
  BY DEF IInv, UdsInv, UdsTypeOK, CapturedFrame
<1>5. Len(head) = cut
  BY <1>3, <1>4, Reassembled
<1>6. cut = TxDl => \A i \in 1 .. 4 : head[i] = rxFrame.data[i]
  <2> SUFFICES ASSUME cut = TxDl, NEW i \in 1 .. 4
               PROVE  head[i] = rxFrame.data[i]
    OBVIOUS
  <2>1. \A j \in 1 .. cut : rxFrame.data[j] \in Byte
    BY <1>3, <1>4 DEF Payload, TxDl
  <2>2. \A j \in 1 .. cut - 1 + 1 : head[j] = rxFrame.data[1 + j - 1]
    BY <1>3, <2>1, SubSeqProperties
  <2>3. i \in 1 .. cut - 1 + 1 /\ 1 + i - 1 = i
    BY <1>3 DEF TxDl
  <2> QED
    BY <2>2, <2>3
<1> HIDE DEF head
<1>7. local'.data = head
  BY <1>1
<1>8. ASSUME NEW S, InClientFrom(S)
      PROVE  InClientFrom(S)'
  <2>1. Told(rxFrame.data, S)
    BY <1>1, <1>8 DEF InClientFrom, SlotFrom, Active
  <2>2. cut = TxDl => Told(head, S)
    BY <1>6, <2>1, SameHead DEF Told
  <2>3. CopyFrom(S)'
    BY <1>5, <1>7, <2>2 DEF CopyFrom, Told
  <2>4. SlotFrom(S)'
    BY <1>1, <2>1 DEF SlotFrom, Told
  <2>5. ReadFrom(S) => ReadFrom(S)'
    BY <1>1, <2>3 DEF ReadFrom, ContextFrom, OutcomeFrom, Active
  <2> QED
    BY <1>1, <1>8, <2>4, <2>5, ClientStep
<1> QED
  BY <1>1, <1>2, <1>8, OrderTask

\* What was copied and what is copied next are parts of the frame in the slot, or it tears.
LEMMA WholeSoFar ==
  ASSUME IInv, task = "copyTail", ~ Tears, Len(local.data) < TxDl
  PROVE  /\ Len(local.data) \in Nat
         /\ local.data \o SubSeq(rxFrame.data, Len(local.data) + 1, TxDl) = rxFrame.data
<1>1. local.data \in Seq(Byte) /\ rxFrame.data \in Payload
  BY DEF IInv, UdsInv, UdsTypeOK, CapturedFrame
<1>2. PICK n \in Nat : n = Len(local.data)
  BY <1>1, LenProperties
<1>3. local = [dlen |-> rxFrame.dlen, data |-> SubSeq(rxFrame.data, 1, n)]
  BY <1>2 DEF Tears
<1>4. local.data = SubSeq(rxFrame.data, 1, n)
  BY <1>3
<1>5. n <= TxDl
  BY <1>2 DEF TxDl
<1>6. local.data \o SubSeq(rxFrame.data, n + 1, TxDl) = rxFrame.data
  BY <1>1, <1>4, <1>5, Reassembled
<1> QED
  BY <1>2, <1>6

\* More cells are copied; with the last of them they tell whose answer it is.
LEMMA OrderCopiesOn ==
  ASSUME IInv, OrderInv, UdsRuns, NEW cut \in CopyCuts, CopyOn(cut)
  PROVE  OrderInv'
<1> DEFINE more == local.data \o SubSeq(rxFrame.data, Len(local.data) + 1, cut)
<1>1. /\ task = "copyTail" /\ task' = "copyTail" /\ Len(local.data) < cut
      /\ local' = [local EXCEPT !.data = more]
      /\ UNCHANGED <<rx, rxFrame, rxValid, txBox>>
  BY DEF CopyOn, UdsStep
<1>2. Turns' /\ Mail'
  BY <1>1, TurnKept, MailUnchanged DEF OrderInv
<1>3. cut \in 0 .. TxDl
  BY UdsAssumption
<1>4. /\ local \in [dlen : 0 .. 64, data : Seq(Byte)]
      /\ local.data \in Seq(Byte) /\ rxFrame.data \in Payload
  <2>1. local \in [dlen : 0 .. 64, data : Seq(Byte)]
    BY DEF IInv, UdsInv, RecordsOK
  <2>2. rxFrame.data \in Payload
    BY DEF IInv, UdsInv, UdsTypeOK, CapturedFrame
  <2> QED
    BY <2>1, <2>2
<1>5. Len(more) = cut
  BY <1>1, <1>3, <1>4, CopiedFurther
<1>6. ~ Tears /\ cut = TxDl => more = rxFrame.data
  BY <1>1, WholeSoFar
<1> HIDE DEF more
<1>7. local'.data = more
  BY <1>1, <1>4
<1>8. ASSUME NEW S, InClientFrom(S)
      PROVE  InClientFrom(S)'
  <2>1. Told(rxFrame.data, S)
    BY <1>1, <1>8 DEF InClientFrom, SlotFrom, Active
  <2>2. ~ Tears => CopyFrom(S)'
    BY <1>5, <1>6, <1>7, <2>1 DEF CopyFrom, Told
  <2>3. SlotFrom(S)'
    BY <1>1, <2>1 DEF SlotFrom, Told
  <2>4. ~ Tears /\ ReadFrom(S) => ReadFrom(S)'
    BY <1>1, <2>2 DEF ReadFrom, ContextFrom, OutcomeFrom, Active
  <2> QED
    BY <1>1, <1>8, <2>3, <2>4, ClientStep
<1> QED
  BY <1>1, <1>2, <1>8, OrderTask

\* However the copy is preempted, unless the frame tears the result is the frame of which the
\* first or of which the last part was copied.
LEMMA SnapshotTold ==
  ASSUME IInv, NEW S, InClientFrom(S), task = "copyTail", ~ torn, ~ Tears
  PROVE  Snapshot \in Payload /\ Told(Snapshot, S)
<1>1. /\ local.data \in Seq(Byte) /\ Len(local.data) <= TxDl /\ rxFrame \in CapturedFrame
      /\ rxFrame.data \in Payload
  BY DEF IInv, UdsInv, UdsTypeOK, CapturedFrame
<1>2. Snapshot \in Payload
  BY <1>1, SnapshotType
<1>3. PICK n \in Nat : n = Len(local.data)
  BY <1>1, LenProperties
<1>4. /\ Told(rxFrame.data, S)
      /\ n = TxDl => Told(local.data, S)
  BY <1>3 DEF InClientFrom, SlotFrom, ReadFrom, CopyFrom, Active
<1>5. CASE n < TxDl
  <2>1. Snapshot = rxFrame.data
    BY <1>3, <1>5, WholeSoFar DEF Snapshot
  <2> QED
    BY <1>2, <1>4, <2>1
<1>6. CASE n = TxDl
  <2> DEFINE rest == SubSeq(rxFrame.data, n + 1, TxDl)
  <2>1. rest \in Seq(Byte)
    <3>1. n <= TxDl
      BY <1>1, <1>3
    <3> QED
      BY <1>1, <3>1, PayloadRest
  <2>2. \A i \in 1 .. n : (local.data \o rest)[i] = local.data[i]
    BY <1>1, <1>3, <2>1, Beginning, Zenon
  <2>3. Snapshot = local.data \o rest
    BY <1>3 DEF Snapshot
  <2> HIDE DEF rest
  <2>4. \A i \in 1 .. 4 : i \in 1 .. n
    BY <1>6 DEF TxDl
  <2>5. \A i \in 1 .. 4 : Snapshot[i] = local.data[i]
    BY <2>2, <2>3, <2>4
  <2> QED
    BY <1>2, <1>4, <1>6, <2>5, SameHead DEF Told
<1>7. n < TxDl \/ n = TxDl
  <2>1. n <= TxDl
    BY <1>1, <1>3
  <2> QED
    BY <2>1 DEF TxDl
<1> QED
  BY <1>5, <1>6, <1>7

\* A PDU that Classify takes for the answer does not begin as the negative ones do.
LEMMA PositiveTold ==
  ASSUME IInv, OrderInv, Transacting, NEW pdu, Classify(req.sid, pdu).result = "OK"
  PROVE  pdu[1] # NrSid
<1>1. req \in RequestType /\ req.sid \in Byte
  BY DEF IInv, UdsInv, UdsTypeOK, RequestType
<1>2. req.sid # NrSid - PosRspOffset
  <2>1. CASE keepAlive
    <3>1. req = TesterPresentRequest(TRUE)
      BY <2>1 DEF OrderInv, Budget, RequestsOK
    <3>2. req.sid = TP
      BY <3>1, KeepAliveRequest
    <3> QED
      BY <3>2 DEF TP, NrSid, PosRspOffset
  <2>2. CASE ~ keepAlive
    <3>1. req \in Requests
      BY <2>2 DEF OrderInv, Budget, RequestsOK
    <3>2. req.sid \in {DSC, CDTCI, RDTCI, RDBI, TP}
      BY <3>1, TesterAssumption
    <3> QED
      BY <3>2 DEF DSC, CDTCI, RDTCI, RDBI, TP, NrSid, PosRspOffset
  <2> QED
    BY <2>1, <2>2
<1>3. pdu[1] = (req.sid + PosRspOffset) % 256
  BY DEF Classify
<1>4. \A sid \in 0 .. 255 : (sid + 64) % 256 = 127 => sid = 127 - 64
  OBVIOUS
<1> QED
  BY <1>1, <1>2, <1>3, <1>4 DEF Byte, NrSid, PosRspOffset

\* The flow control asks for no answer.
LEMMA GrantIsFlowControl == GrantData \in Payload /\ Pci(GrantData) = FC
<1>1. CTS \in {CTS, WAIT, OVFLW} /\ FcBlockSize \in Byte /\ FcStMin \in Byte
  BY UdsAssumption
<1>2. GrantData \in Payload
  BY <1>1, FlowControlType DEF GrantData
<1>3. GrantData[1] = 48
  <2>1. 1 \in 1 .. TxDl /\ 1 <= 3
    BY DEF TxDl
  <2>2. Len(<<16 * FC + CTS, FcBlockSize, FcStMin>>) = 3
        /\ <<16 * FC + CTS, FcBlockSize, FcStMin>>[1] = 16 * FC + CTS
    OBVIOUS
  <2>3. GrantData[1] = 16 * FC + CTS
    BY <2>1, <2>2 DEF GrantData, FlowControl, Padded
  <2> QED
    BY <2>3 DEF FC, CTS
<1> QED
  BY <1>2, <1>3 DEF Pci, FC

\* The frame is fed to the context; a complete PDU ends the transaction or extends its wait.
LEMMA OrderFeeds ==
  ASSUME IInv, OrderInv, UdsRuns, FeedFrame
  PROVE  OrderInv'
<1> DEFINE fed == RxFeed(rx, local.dlen, Snapshot)
<1>1. /\ task = "copyTail" /\ Transacting /\ HandleFed(fed)
      /\ UNCHANGED <<rxFrame, rxValid>> /\ local' = NoCopy
  BY DEF FeedFrame, UdsStep, OrderInv, Budget, Transacting
<1>2. Turns' /\ UNCHANGED <<asked, onBus, answers>>
  BY <1>1, TurnKept
<1>3. /\ AnswerCount \in Nat /\ asked \in Nat /\ txBox \in Seq(TxFrame)
  BY OrderTypes
<1>4. ContextOK(rx)
  BY DEF IInv, UdsInv, RecordsOK
<1>5. ASSUME NEW S, InClientFrom(S), ~ torn, ~ Tears
      PROVE  fed.rx.active \/ fed.result = "DONE" => Carried(fed.rx.buf, S)
  <2>1. Snapshot \in Payload /\ Whole(Snapshot) /\ Serials(Snapshot) \subseteq S
    BY <1>1, <1>5, SnapshotTold DEF Told
  <2>2. rx.active => Carried(rx.buf, S)
    BY <1>1, <1>5 DEF InClientFrom, ReadFrom, ContextFrom, Active
  <2> QED
    BY <1>4, <2>1, <2>2, FedSerials
<1> HIDE DEF fed
<1>6. Mail'
  <2>1. CASE txBox' = txBox
    BY <1>2, <2>1, MailUnchanged DEF OrderInv
  <2>2. CASE txBox' = Append(txBox, [id |-> ReqId, data |-> GrantData])
    <3> DEFINE frame == [id |-> ReqId, data |-> GrantData]
    <3>1. frame \in TxFrame /\ ~ Wants(frame)
      BY GrantIsFlowControl DEF TxFrame, Wants
    <3> HIDE DEF frame
    <3>2. asked <= asked' /\ asked' \in Nat
      BY <1>2, <1>3
    <3>3. txBox' = Append(txBox, frame)
      BY <2>2 DEF frame
    <3> QED
      BY <1>2, <1>3, <3>1, <3>2, <3>3, MailAppend DEF OrderInv
  <2> QED
    BY <1>1, <2>1, <2>2 DEF HandleFed, Transmit
<1>7. \/ task' = "wait"
      \/ task' = "report" /\ rsp'.result # "OK"
      \/ /\ task' = "report" /\ fed.result = "DONE" /\ rsp'.data = fed.rx.buf
         /\ Classify(req.sid, fed.rx.buf).result = "OK"
  BY <1>1 DEF HandleFed, HandlePdu, Finish
<1>8. rx' = RxInit \/ rx' = fed.rx
  BY <1>1 DEF HandleFed
<1>9. ASSUME NEW S, InClientFrom(S)
      PROVE  InClientFrom(S)'
  <2>1. SlotFrom(S)'
    BY <1>1, <1>7, <1>9 DEF InClientFrom, SlotFrom, Active
  <2>2. CopyFrom(S)'
    BY <1>7 DEF CopyFrom
  <2>3. ~ torn /\ ~ Tears => ContextFrom(S)'
    BY <1>5, <1>8, <1>9 DEF ContextFrom, RxInit
  <2>4. ~ torn /\ ~ Tears => OutcomeFrom(S)'
    BY <1>1, <1>5, <1>7, <1>9, PositiveTold DEF OutcomeFrom
  <2>5. ~ torn /\ ~ Tears => ReadFrom(S)'
    BY <2>2, <2>3, <2>4 DEF ReadFrom
  <2> QED
    BY <1>1, <1>9, <2>1, <2>5, ClientStep
<1> QED
  BY <1>1, <1>2, <1>6, <1>9, OrderTask

\* A further credit, above those before it and not above its request's number.
LEMMA CreditOnce ==
  ASSUME EachWholeAnswerOnce, credit \in Seq(Nat), NEW c \in Nat, CreditedTo(c), NEW x \in Nat,
         x # 0 => c < x /\ x <= Reported + 1, credit' = Append(credit, x)
  PROVE  EachWholeAnswerOnce' /\ credit' \in Seq(Nat) /\ Reported' = Reported + 1
<1>1. PICK n \in Nat : n = Reported
  BY LenProperties DEF Reported
<1>2. /\ credit' \in Seq(Nat) /\ Len(credit') = n + 1 /\ credit'[n + 1] = x
      /\ \A i \in 1 .. n : credit'[i] = credit[i]
  BY <1>1, AppendProperties DEF Reported
<1>3. DOMAIN credit = 1 .. n /\ DOMAIN credit' = 1 .. n + 1
  BY <1>1, <1>2, LenProperties DEF Reported
<1>4. \A i \in 1 .. n : credit[i] \in Nat /\ credit[i] <= c
  BY <1>1, <1>3, ElementOfSeq DEF CreditedTo
<1>5. ASSUME NEW k \in 1 .. n + 1, credit'[k] # 0
      PROVE  credit'[k] <= k /\ \A j \in 1 .. k - 1 : credit'[j] # credit'[k]
  <2>1. \A j \in 1 .. k - 1 : j \in 1 .. n
    OBVIOUS
  <2>2. CASE k \in 1 .. n
    <3>1. credit[k] # 0 /\ credit'[k] = credit[k]
      BY <1>2, <1>5, <2>2
    <3>2. credit[k] <= k /\ \A j \in 1 .. k - 1 : credit[j] # credit[k]
      BY <1>3, <2>2, <3>1, Zenon DEF EachWholeAnswerOnce
    <3> QED
      BY <1>2, <2>1, <3>1, <3>2, Zenon
  <2>3. CASE k = n + 1
    <3>1. credit'[k] = x /\ c < x /\ x <= k
      BY <1>1, <1>2, <1>5, <2>3
    <3>2. \A j \in 1 .. k - 1 : credit'[j] <= c /\ credit'[j] \in Nat
      BY <1>2, <1>4, <2>1, Zenon
    <3>3. \A j \in 1 .. k - 1 : credit'[j] # x
      BY <3>1, <3>2
    <3> QED
      BY <3>1, <3>3
  <2>4. k \in 1 .. n \/ k = n + 1
    OBVIOUS
  <2> QED
    BY <2>2, <2>3, <2>4
<1>6. EachWholeAnswerOnce'
  BY <1>3, <1>5, Zenon DEF EachWholeAnswerOnce
<1> QED
  BY <1>1, <1>2, <1>6 DEF Reported

\* The request is credited with the answer it was reported with, if any; then nothing is left in
\* the client that would count.
LEMMA OrderReports ==
  ASSUME IInv, OrderInv, UdsRuns, Report
  PROVE  OrderInv'
<1>0. PICK c, h, q, e : Ordered(c, h, q, e)
  BY DEF OrderInv, InOrder
<1>1. /\ c \in Nat /\ h \in Nat /\ q \in Nat /\ e \in Nat /\ c <= h /\ h <= q /\ q <= e
      /\ e <= AnswerCount /\ CreditedTo(c)
  BY <1>0 DEF Ordered, Position
<1>2. /\ task = "report" /\ task' = "idle"
      /\ UNCHANGED <<asked, onBus, answers, rxQueue, drainFrame, ecuQueue, txBox>>
  BY DEF Report, UdsStep, UdsRuns, Asks, captureVars, ecuVars
<1>3. AnswerCount \in Nat /\ asked \in Nat /\ AnswerCount <= asked
  BY OrderTypes
<1>4. credit \in Seq(Nat) /\ Reported \in Nat /\ onBus \in BOOLEAN
  BY LenProperties DEF OrderInv, Turns, Reported
<1>5. Mail'
  BY <1>2, MailUnchanged DEF OrderInv
<1>6. ASSUME NEW S
      PROVE  InClientFrom(S)'
  BY <1>2 DEF InClientFrom, SlotFrom, ReadFrom, CopyFrom, ContextFrom, OutcomeFrom, Active
<1>7. (IF onBus' /\ task' \notin {"boot", "idle", "send"} THEN 1 ELSE 0) = 0
  BY <1>2
<1>8. CASE ~ onBus
  <2>1. credit' = credit
    BY <1>8 DEF UdsRuns
  <2>2. Ordered(c, h, q, e)'
    BY <1>0, <1>1, <1>2, <1>6, <2>1, StagesUnchanged DEF Ordered
  <2>3. Turns'
    BY <1>2, <1>8, <2>1 DEF OrderInv, Turns, Reported
  <2>4. InOrder' /\ EachWholeAnswerOnce'
    BY <2>1, <2>2 DEF InOrder, OrderInv, EachWholeAnswerOnce
  <2> QED
    BY <1>5, <2>3, <2>4, BudgetTask DEF OrderInv
<1>9. CASE onBus
  <2> DEFINE x == Credited
  <2>1. credit' = Append(credit, x)
    BY <1>2, <1>9 DEF UdsRuns
  <2>2. asked = Reported + 1
    <3>1. (IF onBus /\ task \notin {"boot", "idle", "send"} THEN 1 ELSE 0) = 1
      BY <1>2, <1>9
    <3> QED
      BY <3>1 DEF OrderInv, Turns
  <2>3. x \in Nat /\ (x # 0 => x \in c + 1 .. h)
    <3>1. CASE rsp.result = "OK" /\ ~ torn
      <4>1. Carried(rsp.data, c + 1 .. h) /\ rsp.data[1] # NrSid
        BY <1>0, <1>2, <1>9, <3>1 DEF Ordered, InClientFrom, ReadFrom, OutcomeFrom
      <4>2. rsp.data \in Seq(Byte)
        BY DEF IInv, UdsInv, UdsTypeOK, Response
      <4>3. PICK n \in Nat : n = Len(rsp.data) /\ n >= 2
        BY <4>1, <4>2, LenProperties DEF Carried
      <4>4. 2 \in 1 .. n
        BY <4>3
      <4>5. rsp.data[2] \in Byte
        BY <4>2, <4>3, <4>4, ElementOfSeq
      <4>6. rsp.data[2] \in PduSerials[rsp.data]
        BY <4>1, <4>2, <4>5 DEF PduSerials, Carried
      <4>7. rsp.data[2] \in c + 1 .. h
        BY <4>1, <4>6 DEF Carried
      <4>8. x = rsp.data[2]
        BY <3>1 DEF Credited
      <4> QED
        BY <1>1, <4>7, <4>8
    <3>2. CASE ~ (rsp.result = "OK" /\ ~ torn)
      <4>1. x = 0
        BY <3>2 DEF Credited
      <4> QED
        BY <4>1
    <3> QED
      BY <3>1, <3>2
  <2> HIDE DEF x
  <2>4. x # 0 => c < x /\ x <= Reported + 1 /\ x <= h
    BY <1>1, <1>3, <2>2, <2>3
  <2>5. EachWholeAnswerOnce' /\ credit' \in Seq(Nat) /\ Reported' = Reported + 1
    BY <1>1, <1>4, <2>1, <2>3, <2>4, CreditOnce DEF OrderInv
  <2>6. CreditedTo(h)'
    <3>1. PICK n \in Nat : n = Reported
      BY <1>4
    <3>2. Len(credit) = n /\ credit'[n + 1] = x /\ \A i \in 1 .. n : credit'[i] = credit[i]
      BY <1>4, <2>1, <3>1, AppendProperties DEF Reported
    <3>3. ASSUME NEW k \in 1 .. n + 1
          PROVE  credit'[k] <= h
      <4>1. CASE k \in 1 .. n
        <5>1. credit[k] <= c /\ credit[k] \in Nat
          BY <1>1, <1>4, <3>1, <3>2, <4>1, ElementOfSeq DEF CreditedTo
        <5> QED
          BY <1>1, <3>2, <4>1, <5>1
      <4>2. CASE k = n + 1
        BY <1>1, <2>3, <2>4, <3>2, <4>2
      <4> QED
        BY <4>1, <4>2
    <3> QED
      BY <2>5, <3>1, <3>3 DEF CreditedTo
  <2>7. Position(h, h, q, e)'
    <3>1. h <= h
      BY <1>1
    <3> QED
      BY <1>1, <1>2, <3>1 DEF Position, AnswerCount
  <2>8. AtEcuFrom(e)' /\ InQueueFrom(q, e)' /\ InHandFrom(h, q)'
    BY <1>0, <1>1, <1>2, StagesUnchanged DEF Ordered
  <2>9. InOrder'
    BY <1>6, <2>6, <2>7, <2>8 DEF InOrder, Ordered
  <2>10. Turns'
    <3>1. asked' = Reported' + 0
      BY <1>2, <1>4, <2>2, <2>5
    <3> QED
      BY <1>2, <1>4, <1>7, <2>5, <3>1 DEF Turns
  <2> QED
    BY <1>5, <2>5, <2>9, <2>10, BudgetTask DEF OrderInv
<1> QED
  BY <1>4, <1>8, <1>9

-----------------------------------------------------------------------------
(* The theorem for any ECU that numbers its answers.                       *)

\* Nothing is under way in the beginning.
LEMMA OrderInit == Init => OrderInv
<1> SUFFICES ASSUME Init PROVE OrderInv
  OBVIOUS
<1>1. /\ reqQueue = <<>> /\ txBox = <<>> /\ rxQueue = <<>> /\ drainFrame = <<>>
      /\ ecuQueue = <<>> /\ answers = <<>> /\ credit = <<>>
      /\ task = "boot" /\ phase = "rsp" /\ asked = 0 /\ submitted = 0 /\ onBus = FALSE
  BY DEF Init, UdsInit, CaptureInit
<1>2. AnswerCount = 0 /\ Waiting = 0 /\ Reported = 0
  BY <1>1, EmptySeq DEF AnswerCount, Waiting, Reported
<1>3. Budget
  BY <1>1, <1>2, EmptySeq, TesterAssumption DEF Budget, RequestsOK, Transacting
<1>4. Turns
  <2>1. (IF onBus /\ task \notin {"boot", "idle", "send"} THEN 1 ELSE 0) = 0
    BY <1>1
  <2>2. asked = Reported + 0
    BY <1>1, <1>2
  <2> QED
    BY <1>1, <2>1, <2>2, EmptySeq DEF Turns
<1>5. Mail
  <2>1. Tagged(<<>>)
    BY <1>1, RisingEmpty, EmptySeq DEF Tagged
  <2> QED
    BY <1>1, <1>2, <2>1 DEF Mail
<1>6. Ordered(0, 0, 0, 0)
  <2>1. AtEcuFrom(0) /\ InQueueFrom(0, 0) /\ InHandFrom(0, 0)
    BY <1>1, RisingEmpty, EmptySeq DEF AtEcuFrom, InQueueFrom, InHandFrom
  <2>2. InClientFrom(0 + 1 .. 0)
    BY <1>1 DEF InClientFrom, SlotFrom, ReadFrom, CopyFrom, ContextFrom, OutcomeFrom, Active
  <2>3. Position(0, 0, 0, 0) /\ CreditedTo(0)
    BY <1>2 DEF Position, CreditedTo
  <2> QED
    BY <2>1, <2>2, <2>3 DEF Ordered
<1>7. EachWholeAnswerOnce
  BY <1>1, EmptySeq DEF EachWholeAnswerOnce
<1> QED
  BY <1>3, <1>4, <1>5, <1>6, <1>7 DEF OrderInv, InOrder

\* Every step keeps the order.
LEMMA OrderStep ==
  ASSUME IInv, OrderInv, [Next]_vars
  PROVE  OrderInv'
<1>1. CASE Bus \/ Noise
  BY <1>1, OrderBus
<1>2. CASE Drain
  BY <1>2, OrderDrainReceive, OrderDrainSend DEF Drain
<1>3. CASE Application
  BY <1>3, OrderApplication
<1>4. CASE UdsRuns
  <2>1. ~ SendConsecutive
    BY DEF SendConsecutive, UdsStep, OrderInv, Budget
  <2> QED
    BY <1>4, <2>1, OrderBoots, OrderBegins, OrderSends, OrderTakes, OrderCopies,
       OrderCopiesOn, OrderFeeds, OrderReports DEF UdsRuns, UdsTask, TimerExpires
<1>5. CASE UNCHANGED vars
  <2>1. UNCHANGED <<reqQueue, task, req, keepAlive, phase, rx, local, rsp, rxFrame, rxValid, txBox,
                    rxQueue, drainFrame, ecuQueue, answers, submitted, asked, onBus, torn, credit>>
    BY <1>5 DEF vars, captureVars, udsVars, transactionVars, mailboxVars, ecuVars, historyVars
  <2>2. PICK c, h, q, e : Ordered(c, h, q, e)
    BY DEF OrderInv, InOrder
  <2>3. c \in Nat /\ h \in Nat /\ q \in Nat /\ e \in Nat
    BY <2>2 DEF Ordered, Position
  <2>4. Ordered(c, h, q, e)'
    BY <2>1, <2>2, <2>3, StagesUnchanged, ClientUnchanged DEF Ordered
  <2>5. InOrder'
    BY <2>4 DEF InOrder
  <2> QED
    BY <2>1, <2>5, BudgetUnspent, MailUnchanged, TurnsUnchanged DEF OrderInv
<1> QED
  BY <1>1, <1>2, <1>3, <1>4, <1>5 DEF Next

\* Whatever the ECU answers and however late, whatever is dropped, fails in the transport or is
\* overwritten in the slot, and wherever the copy is preempted: of what was read from whole
\* frames no answer is reported twice, and none to a request that was asked before its own.
THEOREM AnswersCreditedOnce == Spec => []EachWholeAnswerOnce
<1>1. Init => OrderInv
  BY OrderInit
<1>2. IInv /\ OrderInv /\ [Next]_vars => OrderInv'
  BY OrderStep
<1>3. OrderInv => EachWholeAnswerOnce
  BY DEF OrderInv
<1> QED
  BY <1>1, <1>2, <1>3, Invariance, PTL DEF Spec
=============================================================================
