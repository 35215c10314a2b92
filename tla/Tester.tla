------------------------------- MODULE Tester -------------------------------
(***************************************************************************)
(* The logger as an active tester (CANLOGGER_UDS_ENABLE = 1): the capture  *)
(* path and the UDS client, composed as CanLogger_Drain_Task composes      *)
(* them, with a conforming ECU on the bus.                                 *)
(*                                                                         *)
(* Every response travels ISR - capture queue - drain task - mailbox - UDS *)
(* task. The UDS task has the lower priority: it takes a step only when    *)
(* the drain task is blocked on its queue or inside the serial write.      *)
(*                                                                         *)
(* The ECU answers its requests in order; each answer is a script of zero  *)
(* or more responsePending PDUs and a final PDU that carries the serial    *)
(* number of the request, so that an answer tells whose it is.             *)
(***************************************************************************)
EXTENDS Capture, UdsClient

CONSTANTS
  Requests,      \* requests the application submits; single frames
  Scripts,       \* the ECU's answers: sequences over Kinds
  Punctual,      \* the ECU answers within P2 and P2*
  MaxRequests,   \* bound: requests submitted in one behaviour
  MaxNoise       \* bound: frames of other nodes in one behaviour

\* The ECU is not done, it refuses, or it answers: in one frame, in three, or in more bytes than
\* the tester's buffer holds.
Kinds == {"pending", "negative", "positive", "long", "oversize"}

ASSUME TesterAssumption ==
  /\ Requests \subseteq RequestType
  /\ \A r \in Requests : Pending(BuildPdu(r)) = 0
  /\ \A r \in Requests : r.sid \in {DSC, CDTCI, RDTCI, RDBI, TP}
  /\ \A r \in Requests : r.sid = TP => r.sub \in {0, TpSuppress}
  /\ \A script \in Scripts : script \in Seq(Kinds) /\ script # <<>>
  /\ \A script \in Scripts : \A i \in 1 .. Len(script) - 1 : script[i] = "pending"
  /\ Punctual \in BOOLEAN
  /\ MaxRequests \in 0 .. 255
  /\ MaxNoise \in Nat

VARIABLES
  ecuQueue,     \* response PDUs the ECU has yet to start
  ecuTransfer,  \* the response it is segmenting: [pdu, sent, sn, state]
  submitted,    \* bounded count of requests
  noise,        \* bounded count of foreign frames
  asked,        \* history: requests with an answer handed to the controller
  onBus,        \* history: the current transaction's request was one of them
  answers,      \* history: the final answer to each of them that reached the ECU
  torn,         \* history: the current transaction read a frame of which it got one part
                \* before and one after the slot was overwritten
  credit        \* history: per request with an answer, whose positive answer it was reported
                \* with; 0 for none, and for what was read from a torn frame

ecuVars == <<ecuQueue, ecuTransfer, answers>>
historyVars == <<submitted, noise, asked, onBus, torn, credit>>
vars == <<captureVars, udsVars, ecuVars, historyVars>>

NoTransfer == [pdu |-> <<>>, sent |-> 0, sn |-> 1, state |-> "none"]

Init ==
  /\ CaptureInit
  /\ UdsInit
  /\ ecuQueue = <<>>
  /\ ecuTransfer = NoTransfer
  /\ submitted = 0
  /\ noise = 0
  /\ asked = 0
  /\ onBus = FALSE
  /\ torn = FALSE
  /\ answers = <<>>
  /\ credit = <<>>

-----------------------------------------------------------------------------
(* The ECU and the bus.                                                    *)

\* The PDU of a kind, in answer to the service sid and the n-th request.
ResponsePdu(kind, sid, n) ==
  LET start == <<(sid + PosRspOffset) % 256, n % 256>> IN
    CASE kind = "pending"  -> <<NrSid, sid, NrcPending>>
      [] kind = "negative" -> <<NrSid, sid, 49>>
      [] kind = "positive" -> start
      [] kind = "long"     -> start \o [i \in 1 .. 14 |-> 200 + i]
      [] kind = "oversize" -> start \o [i \in 1 .. RxBufBytes |-> 200]

BusFrame(id, data) == [id |-> id, dlen |-> TxDl, data |-> data]

\* The n-th request reaches the ECU, which picks its answer.
EcuServes(sid, n) ==
  \E script \in Scripts :
    LET pdus == [i \in DOMAIN script |-> ResponsePdu(script[i], sid, n)] IN
      /\ ecuQueue' = ecuQueue \o pdus
      /\ answers' = Append(answers, pdus[Len(pdus)])

\* Every request is answered, but for the TesterPresent that suppresses its answer.
Answerable(data) == ~(data[2] = TP /\ data[3] = TpSuppress)

\* The controller puts a frame of the tester on the bus.
BusCarries ==
  /\ txBox # <<>>
  /\ txBox' = Tail(txBox)
  /\ LET frame == Head(txBox) IN
       IF Pci(frame.data) = FC
       THEN /\ ecuTransfer' = IF ecuTransfer.state = "awaitFc"
                              THEN [ecuTransfer EXCEPT !.state = "sending"] ELSE ecuTransfer
            /\ UNCHANGED <<ecuQueue, answers>>
       ELSE /\ IF Answerable(frame.data)
               THEN EcuServes(frame.data[2], Len(answers) + 1)
               ELSE UNCHANGED <<ecuQueue, answers>>
            /\ UNCHANGED ecuTransfer
  /\ UNCHANGED <<captureVars, reqQueue, task, transactionVars, mailboxVars, sink, report,
                 historyVars>>

\* A response's single or first frame is captured.
EcuStarts ==
  /\ ecuTransfer.state = "none"
  /\ ecuQueue # <<>>
  /\ LET pdu == Head(ecuQueue) IN
       /\ RxIsrCb(BusFrame(RspId, StartFrame(pdu)))
       /\ ecuTransfer' = IF Pending(pdu) = 0 THEN NoTransfer
                         ELSE [pdu |-> pdu, sent |-> FfFirstDl, sn |-> 1, state |-> "awaitFc"]
  /\ ecuQueue' = Tail(ecuQueue)
  /\ UNCHANGED <<udsVars, answers, historyVars>>

\* A consecutive frame is captured; the granted block size and separation time are 0.
EcuContinues ==
  /\ ecuTransfer.state = "sending"
  /\ LET pdu == ecuTransfer.pdu
         sent == ecuTransfer.sent + Chunk(pdu, ecuTransfer.sent)
     IN  /\ RxIsrCb(BusFrame(RspId, ConsecutiveFrame(pdu, ecuTransfer.sent, ecuTransfer.sn)))
         /\ ecuTransfer' = IF sent >= Len(pdu) THEN NoTransfer
                           ELSE [ecuTransfer EXCEPT !.sent = sent, !.sn = NextSn(@)]
  /\ UNCHANGED <<udsVars, ecuQueue, answers, historyVars>>

\* The ECU gives up a transfer that was granted no flow control; a punctual one does not
\* while the tester still serves the request.
EcuAbandons ==
  /\ ecuTransfer.state = "awaitFc"
  /\ \A i \in DOMAIN txBox : Pci(txBox[i].data) # FC
  /\ Punctual => task \in {"idle", "report"}
  /\ ecuTransfer' = NoTransfer
  /\ UNCHANGED <<captureVars, udsVars, ecuQueue, answers, historyVars>>

\* A frame of another node is captured.
Noise ==
  /\ noise < MaxNoise
  /\ noise' = noise + 1
  /\ RxIsrCb(BusFrame(OtherId, SingleFrame(<<NrSid, RDBI, 18>>)))
  /\ UNCHANGED <<udsVars, ecuVars, submitted, asked, onBus, torn, credit>>

-----------------------------------------------------------------------------
(* The tasks.                                                              *)

\* CanLogger_Drain_Task: receive, then log and demultiplex.
Drain ==
  \/ /\ DrainReceive
     /\ UNCHANGED <<udsVars, ecuVars, historyVars>>
  \/ /\ \E i \in DOMAIN drainFrame : DrainSend(drainFrame[i]) /\ OnCapturedFrame(drainFrame[i])
     /\ UNCHANGED <<reqQueue, task, transactionVars, sink, report, txBox, ecuVars, historyVars>>

Application ==
  \/ /\ submitted < MaxRequests
     /\ submitted' = submitted + 1
     /\ \E r \in Requests : Submit(r)
     /\ UNCHANGED <<captureVars, ecuVars, noise, asked, onBus, torn, credit>>
  \/ /\ \E given \in BOOLEAN : RegisterSink(given)
     /\ UNCHANGED <<captureVars, ecuVars, historyVars>>

\* A frame of the ECU, or a request to it, is on its way.
IsResponse(f) == f.id = RspId
Underway ==
  \/ txBox # <<>>
  \/ ecuTransfer.state = "sending"
  \/ ecuTransfer.state = "none" /\ ecuQueue # <<>>
  \/ \E i \in DOMAIN rxQueue : IsResponse(rxQueue[i])
  \/ \E i \in DOMAIN drainFrame : IsResponse(drainFrame[i])

\* The timer runs out; not while the answer of a punctual ECU is under way.
TimerExpires == WaitExpires /\ (Punctual => ~Underway)

Asks == task = "send" /\ MailboxFree /\ ~Suppressed(req)

\* More of the slot is copied although it was overwritten since the copy began.
Tears ==
  /\ task = "copyTail" /\ Len(local.data) < TxDl
  /\ local # [dlen |-> rxFrame.dlen, data |-> SubSeq(rxFrame.data, 1, Len(local.data))]

Credited == IF rsp.result = "OK" /\ ~torn THEN rsp.data[2] ELSE 0

UdsRuns ==
  /\ ~DrainReady
  /\ UdsTask \/ TimerExpires
  /\ asked' = IF Asks THEN asked + 1 ELSE asked
  /\ onBus' = IF task = "send" THEN Asks ELSE onBus
  /\ torn' = (task # "report" /\ (torn \/ Tears))
  /\ credit' = IF task = "report" /\ onBus THEN Append(credit, Credited) ELSE credit
  /\ UNCHANGED <<captureVars, ecuVars, submitted, noise>>

Bus == BusCarries \/ EcuStarts \/ EcuContinues \/ EcuAbandons

Next ==
  \/ Bus
  \/ Noise
  \/ Drain
  \/ Application
  \/ UdsRuns

Spec == Init /\ [][Next]_vars

\* The serial write returns; the UDS task runs when the drain task leaves it the processor,
\* and its waits end; frames in the mailboxes get on the bus.
Fairness == WF_vars(Drain) /\ WF_vars(UdsRuns) /\ WF_vars(Bus)
FairSpec == Spec /\ Fairness

-----------------------------------------------------------------------------
(* Properties.                                                             *)

Reporting == task = "report" /\ ~Suppressed(req)

\* What Transact makes of a final PDU.
ResponseFor(pdu) ==
  LET class == Classify(req.sid, pdu) IN
    [result |-> class.result, nrc |-> class.nrc, data |-> IF class.result = "OK" THEN pdu ELSE <<>>]

\* An ECU that answers every request with one frame in time is always heard: the outcome is
\* its answer to this very request, unless the capture queue dropped a frame or the request
\* found no mailbox.
AnswerIsHeard ==
  Reporting =>
    \/ onBus /\ asked \in DOMAIN answers /\ rsp = ResponseFor(answers[asked])
    \/ onBus /\ rsp.result = "TIMEOUT" /\ dropCount > 0
    \/ ~onBus /\ rsp.result = "TP_ERROR"

\* Answers are matched to requests by their service only, so a late answer may be reported as
\* the answer to a later request. Of what was read from whole frames no answer is reported
\* twice, and none to a request that was asked before its own. Of what was read from a torn
\* frame, which the single slot does not exclude, nothing is claimed (credit is 0).
EachWholeAnswerOnce ==
  \A k \in DOMAIN credit :
    credit[k] # 0 => credit[k] <= k /\ \A j \in 1 .. k - 1 : credit[j] # credit[k]

Service == INSTANCE TesterService WITH
  queue <- reqQueue,
  inService <- InService,
  report <- [req |-> report.req, result |-> report.rsp.result],
  Silent <- {r \in Requests : Suppressed(r)},
  Depth <- ReqQueueDepth

\* Every accepted request comes to its outcome, with an ECU that answers late, in several
\* frames, after responsePending or not at all, and with a queue that drops frames.
ServesEveryRequest == Service!FairSpec

-----------------------------------------------------------------------------
(* What the code's comments say and this composition refutes.              *)

\* A single slot suffices: a multi-frame answer of a punctual ECU, none of whose frames the
\* capture queue drops, does not fail in the transport.
SingleSlotSuffices == Reporting /\ onBus /\ dropCount = 0 => rsp.result # "TP_ERROR"

\* CANLOGGER_UDS_TIMEOUT means that P2 or P2* passed, or that the ECU was pending too often.
TimeoutMeansWaited ==
  [][task # "report" /\ task' = "report" /\ rsp'.result = "TIMEOUT"
       => task = "wait" \/ pendingCount' > MaxPending]_vars

\* The snapshot is one frame: a positive response is one that the ECU sent.
SnapshotIsOneFrame ==
  Reporting /\ rsp.result = "OK" => \E i \in DOMAIN answers : rsp.data = answers[i]
=============================================================================
