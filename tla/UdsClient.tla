------------------------------ MODULE UdsClient ------------------------------
(***************************************************************************)
(* The UDS tester (CanLogger_UdsClient.c): the request queue, the UDS task *)
(* with its transactions, and the single-slot mailbox that the drain task  *)
(* fills through CanLogger_UdsClient_OnCapturedFrame.                      *)
(*                                                                         *)
(* The drain task has the higher priority, so OnCapturedFrame is one step  *)
(* and may come between any two accesses of the UDS task to the mailbox;   *)
(* each of these accesses is an action of its own. Time is abstract: a     *)
(* wait expires when the environment says so.                              *)
(*                                                                         *)
(* The module is open: who submits requests, what is captured and who      *)
(* empties the transmit mailboxes is said by AnyBus and Tester.            *)
(***************************************************************************)
EXTENDS IsoTp

CONSTANTS
  ReqQueueDepth,   \* CANLOGGER_UDS_REQ_QUEUE_DEPTH
  MaxPending,      \* CANLOGGER_UDS_MAX_PENDING
  FcBlockSize,     \* CANLOGGER_UDS_FC_BS
  FcStMin,         \* CANLOGGER_UDS_FC_STMIN_MS
  Mailboxes,       \* transmit mailboxes of the controller
  CopyCuts         \* where the drain task may interrupt the copy of a frame's payload

ASSUME UdsAssumption ==
  /\ ReqQueueDepth \in Nat \ {0}
  /\ MaxPending \in Nat
  /\ FcBlockSize \in Byte /\ FcStMin \in Byte
  /\ Mailboxes \in Nat \ {0}
  /\ CopyCuts \subseteq 0 .. TxDl

VARIABLES
  reqQueue,      \* g_hCanLoggerUdsReqQueue
  task,          \* program counter of CanLogger_UdsClient_Task
  req,           \* the request of the current transaction
  keepAlive,     \* the transaction is the periodic TesterPresent, not a queued request
  phase,         \* what the transaction waits for: "fc" or "rsp"
  waitTime,      \* wait_ms: "P2" or "P2star"
  pendingCount,  \* pending_count
  rx,            \* s_rx with s_rxBuf
  rxFrame,       \* s_rxFrame
  rxValid,       \* s_rxValid
  notified,      \* a notification of the UDS task is outstanding
  local,         \* AwaitFrame's local, as far as it is copied
  rsp,           \* the response of the transaction: [result, nrc, data]
  sink,          \* s_sink # NULL
  report,        \* what the sink was called with last: [req, rsp]
  txBox          \* frames in the transmit mailboxes: [id, data]

mailboxVars == <<rxFrame, rxValid, notified>>
transactionVars == <<req, keepAlive, phase, waitTime, pendingCount, rx, local, rsp>>
udsVars == <<reqQueue, task, transactionVars, mailboxVars, sink, report, txBox>>

-----------------------------------------------------------------------------
(* Requests.                                                               *)

\* Service identifiers, result codes and addresses.
DSC == 16
CDTCI == 20
RDTCI == 25
RDBI == 34
TP == 62
PosRspOffset == 64
NrSid == 127
NrcPending == 120
TpSuppress == 128
RdtciByStatus == 2

ReqId == "req"
RspId == "rsp"
FuncId == "func"

\* The identifier of every frame that is not a response, and of the slot before the first one.
OtherId == "other"

NoRequest == [sid |-> 0, sub |-> 0, did |-> 0, extra |-> <<>>, functional |-> FALSE]

SessionRequest(session) == [NoRequest EXCEPT !.sid = DSC, !.sub = session]
ReadDidRequest(did) == [NoRequest EXCEPT !.sid = RDBI, !.did = did]
ReadDtcRequest(mask) == [NoRequest EXCEPT !.sid = RDTCI, !.sub = RdtciByStatus, !.extra = <<mask>>]
ClearDtcRequest(group) ==
  [NoRequest EXCEPT !.sid = CDTCI,
                    !.extra = <<(group \div 65536) % 256, (group \div 256) % 256, group % 256>>]
TesterPresentRequest(suppress) ==
  [NoRequest EXCEPT !.sid = TP, !.sub = IF suppress THEN TpSuppress ELSE 0, !.functional = TRUE]

\* CanLogger_UdsClient_BuildPdu
BuildPdu(r) ==
  <<r.sid>> \o (CASE r.sid \in {DSC, TP, RDTCI} -> <<r.sub>>
                  [] r.sid = RDBI -> <<(r.did \div 256) % 256, r.did % 256>>
                  [] OTHER -> <<>>)
            \o r.extra

RequestId(r) == IF r.functional THEN FuncId ELSE ReqId
Suppressed(r) == r.sid = TP /\ (r.sub \div TpSuppress) % 2 = 1

\* CanLogger_UdsClient_Classify; BUSY stands for a responsePending.
Classify(sid, pdu) ==
  IF Len(pdu) > 0 /\ pdu[1] = (sid + PosRspOffset) % 256
  THEN [result |-> "OK", nrc |-> 0]
  ELSE IF Len(pdu) >= 3 /\ pdu[1] = NrSid /\ pdu[2] = sid
       THEN [result |-> IF pdu[3] = NrcPending THEN "BUSY" ELSE "NEGATIVE", nrc |-> pdu[3]]
       ELSE [result |-> "TIMEOUT", nrc |-> 0]

-----------------------------------------------------------------------------
NoResponse == [result |-> "OK", nrc |-> 0, data |-> <<>>]
NoFrame == [id |-> OtherId, dlen |-> 0, data |-> [i \in 1 .. TxDl |-> 0]]
NoCopy == [dlen |-> 0, data |-> <<>>]

UdsInit ==
  /\ reqQueue = <<>>
  /\ task = "boot"
  /\ req = NoRequest
  /\ keepAlive = FALSE
  /\ phase = "rsp"
  /\ waitTime = "P2"
  /\ pendingCount = 0
  /\ rx = RxInit
  /\ rxFrame = NoFrame
  /\ rxValid = FALSE
  /\ notified = FALSE
  /\ local = NoCopy
  /\ rsp = NoResponse
  /\ sink = FALSE
  /\ report = [req |-> NoRequest, rsp |-> NoResponse]
  /\ txBox = <<>>

-----------------------------------------------------------------------------
(* The application.                                                        *)

\* A Submit* call that finds room; one that does not returns false and changes nothing.
Submit(r) ==
  /\ Len(reqQueue) < ReqQueueDepth
  /\ reqQueue' = Append(reqQueue, r)
  /\ UNCHANGED <<task, transactionVars, mailboxVars, sink, report, txBox>>

\* A sink is given, replaced, or withdrawn with NULL.
RegisterSink(given) ==
  /\ sink' = given
  /\ UNCHANGED <<reqQueue, task, transactionVars, mailboxVars, report, txBox>>

-----------------------------------------------------------------------------
(* The drain task's context.                                               *)

\* Every captured frame is taken for a response.
Addressed_Promiscuous(frame) == TRUE

Addressed(frame) == frame.id = RspId

\* The slot is overwritten; the UDS task is notified once its handle is known.
OnCapturedFrame(frame) ==
  IF Addressed(frame)
  THEN /\ rxFrame' = frame
       /\ rxValid' = TRUE
       /\ notified' = (notified \/ task # "boot")
  ELSE UNCHANGED mailboxVars

-----------------------------------------------------------------------------
(* The UDS task: the transaction, one action per access to shared state.   *)

UdsStep(from) == task = from /\ UNCHANGED <<sink, rxFrame>>

\* The transaction ends; the sink is called next.
Finish(result, nrc, data) ==
  /\ task' = "report"
  /\ rsp' = [result |-> result, nrc |-> nrc, data |-> data]

MailboxFree == Len(txBox) < Mailboxes

\* Bsp_CanFd_Transmit queues the frame, or fails and leaves the mailboxes as they are.
Transmit(id, data) ==
  txBox' = IF MailboxFree THEN Append(txBox, [id |-> id, data |-> data]) ELSE txBox

\* The task's first step stores the handle that OnCapturedFrame notifies.
Boot ==
  /\ UdsStep("boot")
  /\ task' = "idle"
  /\ UNCHANGED <<reqQueue, transactionVars, rxValid, notified, report, txBox>>

\* A response left over in the slot is not discarded.
BeginTransaction_KeepsSlot(r, periodic) ==
  /\ UdsStep("idle")
  /\ task' = "send"
  /\ req' = r
  /\ keepAlive' = periodic
  /\ phase' = "rsp" /\ waitTime' = "P2" /\ pendingCount' = 0
  /\ rx' = RxInit
  /\ local' = NoCopy
  /\ rsp' = NoResponse
  /\ UNCHANGED <<rxValid, notified, report, txBox>>

\* The top of CanLogger_UdsClient_Transact, up to the first transmission.
BeginTransaction(r, periodic) ==
  /\ UdsStep("idle")
  /\ task' = "send"
  /\ req' = r
  /\ keepAlive' = periodic
  /\ phase' = "rsp" /\ waitTime' = "P2" /\ pendingCount' = 0
  /\ rx' = RxInit
  /\ rxValid' = FALSE
  /\ local' = NoCopy
  /\ rsp' = NoResponse
  /\ UNCHANGED <<notified, report, txBox>>

ReceiveRequest ==
  /\ reqQueue # <<>>
  /\ BeginTransaction(Head(reqQueue), FALSE)
  /\ reqQueue' = Tail(reqQueue)

\* No request for CANLOGGER_UDS_TP_PERIOD_MS.
KeepAliveDue ==
  /\ reqQueue = <<>>
  /\ BeginTransaction(TesterPresentRequest(TRUE), TRUE)
  /\ UNCHANGED reqQueue

\* TxStart: the single or first frame of the request.
SendRequest ==
  /\ UdsStep("send")
  /\ Transmit(RequestId(req), StartFrame(BuildPdu(req)))
  /\ phase' = IF MailboxFree /\ Pending(BuildPdu(req)) > 0 THEN "fc" ELSE "rsp"
  /\ IF ~MailboxFree THEN Finish("TP_ERROR", 0, <<>>)
     ELSE IF Suppressed(req) /\ Pending(BuildPdu(req)) = 0 THEN Finish("OK", 0, <<>>)
     ELSE task' = "wait" /\ UNCHANGED rsp
  /\ UNCHANGED <<reqQueue, req, keepAlive, waitTime, pendingCount, rx, local,
                 rxValid, notified, report>>

\* xTaskNotifyWait returns at once on a notification, however old.
NotifyWait ==
  /\ UdsStep("wait")
  /\ notified
  /\ notified' = FALSE
  /\ task' = "check"
  /\ UNCHANGED <<reqQueue, transactionVars, rxValid, report, txBox>>

\* A wait for P2* that is over begins anew.
WaitExpires_Again ==
  /\ UdsStep("wait")
  /\ ~notified
  /\ IF waitTime = "P2star" THEN UNCHANGED <<task, rsp>> ELSE Finish("TIMEOUT", 0, <<>>)
  /\ UNCHANGED <<reqQueue, req, keepAlive, phase, waitTime, pendingCount, rx, local,
                 rxValid, notified, report, txBox>>

\* P2 or P2* is over and nothing was notified.
WaitExpires ==
  /\ UdsStep("wait")
  /\ ~notified
  /\ Finish("TIMEOUT", 0, <<>>)
  /\ UNCHANGED <<reqQueue, req, keepAlive, phase, waitTime, pendingCount, rx, local,
                 rxValid, notified, report, txBox>>

\* The slot is read on every notification.
CheckValid_IgnoresFlag ==
  /\ UdsStep("check")
  /\ task' = "clear"
  /\ UNCHANGED <<reqQueue, transactionVars, rxValid, notified, report, txBox>>

\* A notification without a frame in the slot counts as a timeout.
CheckValid ==
  /\ UdsStep("check")
  /\ IF rxValid THEN task' = "clear" /\ UNCHANGED rsp ELSE Finish("TIMEOUT", 0, <<>>)
  /\ UNCHANGED <<reqQueue, req, keepAlive, phase, waitTime, pendingCount, rx, local,
                 rxValid, notified, report, txBox>>

ClearValid ==
  /\ UdsStep("clear")
  /\ rxValid' = FALSE
  /\ task' = "copyHead"
  /\ UNCHANGED <<reqQueue, transactionVars, notified, report, txBox>>

\* Notifications that came in meanwhile are thrown away as stale.
CopyHead_DiscardsNotification(cut) ==
  /\ UdsStep("copyHead")
  /\ local' = [dlen |-> rxFrame.dlen, data |-> SubSeq(rxFrame.data, 1, cut)]
  /\ task' = "copyTail"
  /\ notified' = FALSE
  /\ UNCHANGED <<reqQueue, req, keepAlive, phase, waitTime, pendingCount, rx, rsp,
                 rxValid, report, txBox>>

\* The length and the first cells of the frame; the rest is copied in later steps.
CopyHead(cut) ==
  /\ UdsStep("copyHead")
  /\ local' = [dlen |-> rxFrame.dlen, data |-> SubSeq(rxFrame.data, 1, cut)]
  /\ task' = "copyTail"
  /\ UNCHANGED <<reqQueue, req, keepAlive, phase, waitTime, pendingCount, rx, rsp,
                 rxValid, notified, report, txBox>>

\* More cells: the drain task may come in several times.
CopyOn(cut) ==
  /\ UdsStep("copyTail")
  /\ Len(local.data) < cut
  /\ local' = [local EXCEPT !.data = @ \o SubSeq(rxFrame.data, Len(@) + 1, cut)]
  /\ UNCHANGED <<reqQueue, task, req, keepAlive, phase, waitTime, pendingCount, rx, rsp,
                 rxValid, notified, report, txBox>>

\* The payload the task ends up with.
Snapshot == local.data \o SubSeq(rxFrame.data, Len(local.data) + 1, TxDl)

GrantData == FlowControl(CTS, FcBlockSize, FcStMin)

\* A complete PDU is classified; a responsePending extends the wait, a bounded number of times.
HandlePdu_Unbounded(pdu, class) ==
  IF class.result = "BUSY"
  THEN /\ pendingCount' = pendingCount + 1
       /\ task' = "wait" /\ waitTime' = "P2star" /\ UNCHANGED rsp
  ELSE /\ Finish(class.result, class.nrc, IF class.result = "OK" THEN pdu ELSE <<>>)
       /\ UNCHANGED <<pendingCount, waitTime>>

HandlePdu(pdu, class) ==
  IF class.result = "BUSY"
  THEN /\ pendingCount' = pendingCount + 1
       /\ IF pendingCount' > MaxPending
          THEN Finish("TIMEOUT", 0, <<>>) /\ UNCHANGED waitTime
          ELSE task' = "wait" /\ waitTime' = "P2star" /\ UNCHANGED rsp
  ELSE /\ Finish(class.result, class.nrc, IF class.result = "OK" THEN pdu ELSE <<>>)
       /\ UNCHANGED <<pendingCount, waitTime>>

\* What the response loop does with the result of RxFeed.
HandleFed(fed) ==
  /\ \/ /\ fed.result = "SENDFC"
        /\ Transmit(ReqId, GrantData)
        /\ task' = "wait"
        /\ UNCHANGED <<waitTime, pendingCount, rsp>>
     \/ /\ fed.result = "INPROGRESS"
        /\ task' = "wait"
        /\ UNCHANGED <<waitTime, pendingCount, rsp, txBox>>
     \/ /\ fed.result \in {"ERROR", "IDLE"}
        /\ Finish("TP_ERROR", 0, <<>>)
        /\ UNCHANGED <<waitTime, pendingCount, txBox>>
     \/ /\ fed.result = "DONE"
        /\ HandlePdu(fed.rx.buf, Classify(req.sid, fed.rx.buf))
        /\ UNCHANGED txBox
  /\ rx' = IF fed.result = "DONE" /\ task' = "wait" THEN RxInit ELSE fed.rx

\* The copy ends and RxFeed runs; while the flow control of a request is awaited its result
\* is ignored.
FeedFrame ==
  /\ UdsStep("copyTail")
  /\ LET fed == RxFeed(rx, local.dlen, Snapshot) IN
       \/ /\ phase = "fc"
          /\ rx' = fed.rx
          /\ task' = "continue"
          /\ UNCHANGED <<waitTime, pendingCount, rsp, txBox>>
       \/ /\ phase = "rsp"
          /\ HandleFed(fed)
  /\ local' = NoCopy
  /\ UNCHANGED <<reqQueue, req, keepAlive, phase, rxValid, notified, report>>

\* TxContinue: a request has at most 9 bytes, so one consecutive frame is left.
SendConsecutive ==
  /\ UdsStep("continue")
  /\ Transmit(RequestId(req), ConsecutiveFrame(BuildPdu(req), FfFirstDl, 1))
  /\ IF ~MailboxFree THEN Finish("TP_ERROR", 0, <<>>)
     ELSE IF Suppressed(req) THEN Finish("OK", 0, <<>>)
     ELSE task' = "wait" /\ UNCHANGED rsp
  /\ phase' = "rsp"
  /\ UNCHANGED <<reqQueue, req, keepAlive, waitTime, pendingCount, rx, local,
                 rxValid, notified, report>>

\* The outcome of every transaction is handed to the sink, the keep-alive's as well.
Report_KeepAlive ==
  /\ UdsStep("report")
  /\ task' = "idle"
  /\ report' = IF sink THEN [req |-> req, rsp |-> rsp] ELSE report
  /\ UNCHANGED <<reqQueue, transactionVars, rxValid, notified, txBox>>

\* The sink gets the response of a queued request; the keep-alive's is dropped.
Report ==
  /\ UdsStep("report")
  /\ task' = "idle"
  /\ report' = IF sink /\ ~keepAlive THEN [req |-> req, rsp |-> rsp] ELSE report
  /\ UNCHANGED <<reqQueue, transactionVars, rxValid, notified, txBox>>

UdsTask ==
  \/ Boot
  \/ ReceiveRequest
  \/ KeepAliveDue
  \/ SendRequest
  \/ NotifyWait
  \/ CheckValid
  \/ ClearValid
  \/ \E cut \in CopyCuts : CopyHead(cut)
  \/ \E cut \in CopyCuts : CopyOn(cut)
  \/ FeedFrame
  \/ SendConsecutive
  \/ Report

\* The UDS task is inside a transaction, and the requests it still owes an outcome.
Transacting == task \notin {"boot", "idle"}
InService == IF Transacting /\ ~keepAlive THEN <<req>> ELSE <<>>

-----------------------------------------------------------------------------
(* Properties of the component.                                            *)

RequestType == [sid : Byte, sub : Byte, did : Nat, extra : Seq(Byte), functional : BOOLEAN]
CapturedFrame == [id : {RspId, OtherId}, dlen : 0 .. 64, data : Payload]
Response == [result : {"OK", "NEGATIVE", "TIMEOUT", "TP_ERROR"}, nrc : Byte, data : Seq(Byte)]

\* Type invariant, with the bounds of the queue, the mailboxes, the reassembly buffer and the
\* number of responsePending answers.
UdsTypeOK ==
  /\ reqQueue \in Seq(RequestType) /\ Len(reqQueue) <= ReqQueueDepth
  /\ task \in {"boot", "idle", "send", "wait", "check", "clear", "copyHead", "copyTail",
                "continue", "report"}
  /\ req \in RequestType
  /\ keepAlive \in BOOLEAN
  /\ phase \in {"fc", "rsp"}
  /\ waitTime \in {"P2", "P2star"}
  /\ pendingCount \in 0 .. MaxPending + 1
  /\ rx.buf \in Seq(Byte) /\ Len(rx.buf) <= RxBufBytes
  /\ rxFrame \in CapturedFrame
  /\ rxValid \in BOOLEAN /\ notified \in BOOLEAN /\ sink \in BOOLEAN
  /\ local.dlen \in 0 .. 64 /\ local.data \in Seq(Byte) /\ Len(local.data) <= TxDl
  /\ rsp \in Response
  /\ report \in [req : RequestType, rsp : Response]
  /\ txBox \in Seq([id : {ReqId, FuncId}, data : Payload]) /\ Len(txBox) <= Mailboxes

\* No wakeup is lost: a task that waits with a frame in the slot has been notified of it,
\* whichever access of the task the frame's arrival preempted.
NoLostWakeup == task = "wait" /\ rxValid => notified
=============================================================================
