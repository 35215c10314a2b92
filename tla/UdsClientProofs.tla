-------------------------- MODULE UdsClientProofs --------------------------
(***************************************************************************)
(* What each operation of the UDS client preserves, whoever submits        *)
(* requests, captures frames and empties the mailboxes: the lemmas the     *)
(* compositions' theorems rest on, for every queue depth, buffer size,     *)
(* number of mailboxes and bound on responsePending answers.               *)
(***************************************************************************)
EXTENDS UdsClient, IsoTpProofs

-----------------------------------------------------------------------------
(* The inductive invariant.                                                *)

\* The reassembly context and the copy of the frame are well formed, not only their buffers.
RecordsOK ==
  /\ ContextOK(rx)
  /\ local \in [dlen : 0 .. 64, data : Seq(Byte)]

\* As long as the transaction can still take an answer, its budget is not overdrawn.
WithinBudget == task \notin {"boot", "idle", "report"} => pendingCount <= MaxPending

\* Within a transaction a frame in the slot has been notified, save between the end of the
\* wait and the moment the slot is taken.
Notified == task \notin {"boot", "idle", "check", "clear"} => (rxValid => notified)

\* A request that nobody answers is never waited for, and ends sent or not sent.
Silence == Suppressed(req) /\ Pending(BuildPdu(req)) = 0
SilentEnds ==
  /\ task \in {"wait", "check", "clear", "copyHead", "copyTail", "continue"} => ~ Silence
  /\ task = "report" /\ Silence => rsp.result \in {"OK", "TP_ERROR"}

UdsInv ==
  /\ UdsTypeOK
  /\ RecordsOK
  /\ WithinBudget
  /\ Notified
  /\ SilentEnds

-----------------------------------------------------------------------------
(* The data the operations work on.                                        *)

\* A request becomes a sequence of bytes.
LEMMA BuildPduType ==
  ASSUME NEW r \in RequestType
  PROVE  BuildPdu(r) \in Seq(Byte)
<1> DEFINE body == CASE r.sid \in {DSC, TP, RDTCI} -> <<r.sub>>
                     [] r.sid = RDBI -> <<(r.did \div 256) % 256, r.did % 256>>
                     [] OTHER -> <<>>
<1>1. r.sid \in Byte /\ r.sub \in Byte /\ r.did \in Nat /\ r.extra \in Seq(Byte)
  BY DEF RequestType
<1>2. (r.did \div 256) % 256 \in Byte /\ r.did % 256 \in Byte
  BY <1>1, LengthBytes, ZenonT(40)
<1>3. CASE r.sid \in {DSC, TP, RDTCI}
  <2>0. r.sid # RDBI
    BY <1>3 DEF DSC, TP, RDTCI, RDBI
  <2>1. body = <<r.sub>>
    BY <1>3, <2>0
  <2>2. <<r.sub>> \in Seq(Byte)
    BY <1>1, FewBytes
  <2>3. body \in Seq(Byte)
    BY <2>1, <2>2
  <2> HIDE DEF body
  <2>4. <<r.sid>> \o body \in Seq(Byte)
    BY <1>1, <2>3, FewBytes, ConcatProperties
  <2> QED
    BY <1>1, <2>4, ConcatProperties DEF BuildPdu, body
<1>4. CASE r.sid = RDBI
  <2>0. r.sid \notin {DSC, TP, RDTCI}
    BY <1>4 DEF DSC, TP, RDTCI, RDBI
  <2>1. body = <<(r.did \div 256) % 256, r.did % 256>>
    BY <1>4, <2>0
  <2>2. body \in Seq(Byte)
    BY <1>2, <2>1, FewBytes
  <2> HIDE DEF body
  <2>3. <<r.sid>> \o body \in Seq(Byte)
    BY <1>1, <2>2, FewBytes, ConcatProperties
  <2> QED
    BY <1>1, <2>3, ConcatProperties DEF BuildPdu, body
<1>5. CASE r.sid \notin {DSC, TP, RDTCI, RDBI}
  <2>1. body = <<>>
    BY <1>5
  <2>2. body \in Seq(Byte)
    BY <2>1, EmptySeq
  <2> HIDE DEF body
  <2>3. <<r.sid>> \o body \in Seq(Byte)
    BY <1>1, <2>2, FewBytes, ConcatProperties
  <2> QED
    BY <1>1, <2>3, ConcatProperties DEF BuildPdu, body
<1> QED
  BY <1>3, <1>4, <1>5

\* The rest of a payload after the first n cells.
LEMMA PayloadRest ==
  ASSUME NEW data \in Payload, NEW n \in Nat, n <= TxDl
  PROVE  /\ SubSeq(data, n + 1, TxDl) \in Seq(Byte)
         /\ Len(SubSeq(data, n + 1, TxDl)) = TxDl - n
<1>1. data \in Seq(Byte) /\ TxDl <= Len(data)
  <2>1. TxDl <= TxDl
    BY DEF TxDl
  <2> QED
    BY <2>1, PayloadIsSeq
<1>2. n + 1 \in Nat \ {0} /\ TxDl \in Int
  BY DEF TxDl
<1>3. /\ SubSeq(data, n + 1, TxDl) \in Seq(Byte)
      /\ Len(SubSeq(data, n + 1, TxDl)) = IF n + 1 <= TxDl THEN TxDl - (n + 1) + 1 ELSE 0
  BY <1>1, <1>2, SubSeqBytes
<1>4. (IF n + 1 <= TxDl THEN TxDl - (n + 1) + 1 ELSE 0) = TxDl - n
  BY DEF TxDl
<1> QED
  BY <1>3, <1>4

\* The head of one payload and the rest of another make a payload.
LEMMA JoinedPayload ==
  ASSUME NEW head \in Seq(Byte), Len(head) <= TxDl, NEW data \in Payload
  PROVE  head \o SubSeq(data, Len(head) + 1, TxDl) \in Payload
<1>1. PICK n \in Nat : n = Len(head)
  BY LenProperties
<1> DEFINE tail == SubSeq(data, n + 1, TxDl)
<1>2. tail \in Seq(Byte) /\ Len(tail) = TxDl - n
  BY <1>1, PayloadRest
<1> HIDE DEF tail
<1>3. head \o tail \in Seq(Byte) /\ Len(head \o tail) = Len(head) + Len(tail)
  BY <1>2, ConcatProperties
<1>4. Len(head \o tail) = TxDl
  BY <1>1, <1>2, <1>3 DEF TxDl
<1>5. head \o tail \in [1 .. TxDl -> Byte]
  BY <1>3, <1>4, LenProperties
<1> QED
  BY <1>1, <1>5 DEF Payload, tail

\* More cells of a payload after a shorter head reach as far as the cut.
LEMMA CopiedFurther ==
  ASSUME NEW head \in Seq(Byte), NEW data \in Payload, NEW cut \in 0 .. TxDl, Len(head) < cut
  PROVE  /\ head \o SubSeq(data, Len(head) + 1, cut) \in Seq(Byte)
         /\ Len(head \o SubSeq(data, Len(head) + 1, cut)) = cut
<1>1. PICK n \in Nat : n = Len(head)
  BY LenProperties
<1> DEFINE more == SubSeq(data, n + 1, cut)
<1>2. data \in Seq(Byte) /\ cut <= Len(data) /\ cut \in Int
  <2>1. cut <= TxDl /\ cut \in Int
    BY DEF TxDl
  <2> QED
    BY <2>1, PayloadIsSeq
<1>3. n + 1 \in Nat \ {0}
  OBVIOUS
<1>4. more \in Seq(Byte) /\ Len(more) = IF n + 1 <= cut THEN cut - (n + 1) + 1 ELSE 0
  BY <1>2, <1>3, SubSeqBytes
<1>5. n + ((IF n + 1 <= cut THEN cut - (n + 1) + 1 ELSE 0)) = cut
  BY <1>1, <1>2
<1> HIDE DEF more
<1>6. head \o more \in Seq(Byte) /\ Len(head \o more) = Len(head) + Len(more)
  BY <1>4, ConcatProperties
<1> QED
  BY <1>1, <1>4, <1>5, <1>6 DEF more

\* What the task copies in parts is a payload, even if the frame changed in between.
LEMMA SnapshotType ==
  ASSUME local.data \in Seq(Byte), Len(local.data) <= TxDl, rxFrame \in CapturedFrame
  PROVE  Snapshot \in Payload
<1>1. rxFrame.data \in Payload
  BY DEF CapturedFrame
<1> QED
  BY <1>1, JoinedPayload DEF Snapshot

\* A complete PDU is classified as one of four outcomes.
LEMMA ClassifyType ==
  ASSUME NEW sid \in Byte, NEW pdu \in Seq(Byte)
  PROVE  /\ Classify(sid, pdu).result \in {"OK", "BUSY", "NEGATIVE", "TIMEOUT"}
         /\ Classify(sid, pdu).nrc \in Byte
<1>1. 0 \in Byte
  BY DEF Byte
<1>2. CASE Len(pdu) > 0 /\ pdu[1] = (sid + PosRspOffset) % 256
  BY <1>1, <1>2 DEF Classify
<1>3. CASE ~ (Len(pdu) > 0 /\ pdu[1] = (sid + PosRspOffset) % 256)
           /\ (Len(pdu) >= 3 /\ pdu[1] = NrSid /\ pdu[2] = sid)
  <2>1. 3 \in 1 .. Len(pdu)
    BY <1>3, LenProperties
  <2>2. pdu[3] \in Byte
    BY <2>1, ElementOfSeq
  <2>3. Classify(sid, pdu) = [result |-> IF pdu[3] = NrcPending THEN "BUSY" ELSE "NEGATIVE", nrc |-> pdu[3]]
    BY <1>3 DEF Classify
  <2> QED
    BY <2>2, <2>3
<1>4. CASE ~ (Len(pdu) > 0 /\ pdu[1] = (sid + PosRspOffset) % 256)
           /\ ~ (Len(pdu) >= 3 /\ pdu[1] = NrSid /\ pdu[2] = sid)
  BY <1>1, <1>4 DEF Classify
<1> QED
  BY <1>2, <1>3, <1>4

-----------------------------------------------------------------------------
(* What each operation preserves.                                          *)

TxFrame == [id : {ReqId, FuncId}, data : Payload]

\* A transmission puts at most one frame into the mailboxes, and only where there is room.
LEMMA TransmitOK ==
  ASSUME txBox \in Seq(TxFrame), Len(txBox) <= Mailboxes,
         NEW id \in {ReqId, FuncId}, NEW data \in Payload, Transmit(id, data)
  PROVE  txBox' \in Seq(TxFrame) /\ Len(txBox') <= Mailboxes
<1> DEFINE frame == [id |-> id, data |-> data]
<1>0. frame \in TxFrame
  BY DEF TxFrame
<1> HIDE DEF frame
<1>1. CASE MailboxFree
  <2>1. txBox' = Append(txBox, frame)
    BY <1>1 DEF Transmit, frame
  <2>2. txBox' \in Seq(TxFrame) /\ Len(txBox') = Len(txBox) + 1
    BY <1>0, <2>1, AppendProperties
  <2>3. PICK n \in Nat : n = Len(txBox)
    BY LenProperties
  <2>4. n < Mailboxes
    BY <1>1, <2>3 DEF MailboxFree
  <2>5. n + 1 <= Mailboxes
    BY <2>4, UdsAssumption
  <2> QED
    BY <2>2, <2>3, <2>5
<1>2. CASE ~ MailboxFree
  BY <1>2 DEF Transmit
<1> QED
  BY <1>1, <1>2

\* A Submit* call of the application.
LEMMA SubmitOK ==
  ASSUME UdsInv, NEW r \in RequestType, Submit(r)
  PROVE  UdsInv'
<1>1. reqQueue' \in Seq(RequestType) /\ Len(reqQueue') <= ReqQueueDepth
  <2>1. reqQueue' \in Seq(RequestType) /\ Len(reqQueue') = Len(reqQueue) + 1
    BY AppendProperties DEF Submit, UdsInv, UdsTypeOK
  <2>2. PICK n \in Nat : n = Len(reqQueue)
    BY LenProperties DEF UdsInv, UdsTypeOK
  <2>3. n + 1 <= ReqQueueDepth
    BY <2>2, UdsAssumption DEF Submit
  <2> QED
    BY <2>1, <2>2, <2>3
<1>2. UNCHANGED <<task, transactionVars, mailboxVars, sink, report, txBox>>
  BY DEF Submit
<1> QED
  BY <1>1, <1>2 DEF UdsInv, UdsTypeOK, RecordsOK, WithinBudget, Notified, SilentEnds, Silence,
                    transactionVars, mailboxVars

\* The application gives, replaces or withdraws its sink.
LEMMA RegisterSinkOK ==
  ASSUME UdsInv, NEW given \in BOOLEAN, RegisterSink(given)
  PROVE  UdsInv'
  BY DEF RegisterSink, UdsInv, UdsTypeOK, RecordsOK, WithinBudget, Notified, SilentEnds, Silence,
         transactionVars, mailboxVars

\* The drain task hands a captured frame to the client.
LEMMA CapturedOK ==
  ASSUME UdsInv, NEW frame \in CapturedFrame, OnCapturedFrame(frame),
         UNCHANGED <<reqQueue, task, transactionVars, sink, report, txBox>>
  PROVE  UdsInv'
<1>1. rxFrame' \in CapturedFrame /\ rxValid' \in BOOLEAN /\ notified' \in BOOLEAN
  BY DEF OnCapturedFrame, mailboxVars, UdsInv, UdsTypeOK
<1>2. Notified'
  BY DEF OnCapturedFrame, mailboxVars, UdsInv, Notified
<1> QED
  BY <1>1, <1>2 DEF UdsInv, UdsTypeOK, RecordsOK, WithinBudget, SilentEnds, Silence, transactionVars

\* The controller sends the oldest frame of the mailboxes.
LEMMA MailboxSentOK ==
  ASSUME UdsInv, txBox # <<>>, txBox' = Tail(txBox),
         UNCHANGED <<reqQueue, task, transactionVars, mailboxVars, sink, report>>
  PROVE  UdsInv'
<1>1. txBox' \in Seq(TxFrame) /\ Len(txBox') <= Mailboxes
  <2>0. txBox \in Seq(TxFrame) /\ Len(txBox) <= Mailboxes
    BY DEF UdsInv, UdsTypeOK, TxFrame
  <2>1. txBox' \in Seq(TxFrame) /\ Len(txBox') = Len(txBox) - 1
    BY <2>0, HeadTailProperties
  <2>2. PICK n \in Nat : n = Len(txBox)
    BY <2>0, LenProperties
  <2>3. n - 1 <= Mailboxes
    BY <2>0, <2>2, UdsAssumption
  <2> QED
    BY <2>1, <2>2, <2>3
<1> QED
  BY <1>1 DEF UdsInv, UdsTypeOK, RecordsOK, WithinBudget, Notified, SilentEnds, Silence,
              transactionVars, mailboxVars, TxFrame

\* A well-formed context respects the buffer.
LEMMA ContextBounds ==
  ASSUME NEW c, ContextOK(c)
  PROVE  c.buf \in Seq(Byte) /\ Len(c.buf) <= RxBufBytes
<1>1. c.buf \in Seq(Byte) /\ c.len \in Nat /\ Len(c.buf) <= c.len /\ c.len <= RxBufBytes
  BY DEF ContextOK, Context
<1>2. PICK n \in Nat : n = Len(c.buf)
  BY <1>1, LenProperties
<1>3. n <= RxBufBytes
  BY <1>1, <1>2, IsoTpAssumption
<1> QED
  BY <1>1, <1>2, <1>3

\* The empty copy is well typed.
LEMMA NoCopyType ==
  /\ NoCopy \in [dlen : 0 .. 64, data : Seq(Byte)]
  /\ NoCopy.dlen \in 0 .. 64 /\ NoCopy.data \in Seq(Byte) /\ Len(NoCopy.data) <= TxDl
<1>1. NoCopy.dlen = 0 /\ NoCopy.data = <<>>
  BY DEF NoCopy
<1>2. <<>> \in Seq(Byte) /\ Len(<<>>) <= TxDl
  BY EmptySeq DEF TxDl
<1> QED
  BY <1>1, <1>2 DEF NoCopy

\* The task stores its handle.
LEMMA BootOK ==
  ASSUME UdsInv, Boot
  PROVE  UdsInv'
  BY DEF Boot, UdsStep, UdsInv, UdsTypeOK, RecordsOK, WithinBudget, Notified, SilentEnds, Silence,
         transactionVars

\* A transaction begins from a clean state.
LEMMA BeginOK ==
  ASSUME UdsInv, NEW r \in RequestType, NEW periodic \in BOOLEAN, BeginTransaction(r, periodic),
         reqQueue' \in Seq(RequestType), Len(reqQueue') <= ReqQueueDepth
  PROVE  UdsInv'
<1>1. ContextOK(rx') /\ rx'.buf \in Seq(Byte) /\ Len(rx'.buf) <= RxBufBytes
  BY RxInitOK, ContextBounds DEF BeginTransaction
<1>2. local' \in [dlen : 0 .. 64, data : Seq(Byte)] /\ local'.dlen \in 0 .. 64
      /\ local'.data \in Seq(Byte) /\ Len(local'.data) <= TxDl
  BY NoCopyType DEF BeginTransaction
<1>3. rsp' \in Response
  BY EmptySeq DEF BeginTransaction, NoResponse, Response, Byte
<1>4. pendingCount' \in 0 .. MaxPending + 1 /\ pendingCount' <= MaxPending
  BY UdsAssumption DEF BeginTransaction
<1>5. UdsTypeOK'
  BY <1>1, <1>2, <1>3, <1>4 DEF BeginTransaction, UdsStep, UdsInv, UdsTypeOK
<1>6. RecordsOK'
  BY <1>1, <1>2 DEF RecordsOK
<1>7. WithinBudget' /\ Notified' /\ SilentEnds'
  BY <1>4 DEF BeginTransaction, UdsStep, WithinBudget, Notified, SilentEnds
<1> QED
  BY <1>5, <1>6, <1>7 DEF UdsInv

\* A queued request is taken.
LEMMA ReceiveRequestOK ==
  ASSUME UdsInv, ReceiveRequest
  PROVE  UdsInv'
<1>1. reqQueue \in Seq(RequestType) /\ reqQueue # <<>> /\ Len(reqQueue) <= ReqQueueDepth
  BY DEF UdsInv, UdsTypeOK, ReceiveRequest
<1>2. Head(reqQueue) \in RequestType /\ Tail(reqQueue) \in Seq(RequestType)
      /\ Len(Tail(reqQueue)) = Len(reqQueue) - 1
  BY <1>1, HeadTailProperties
<1>3. PICK n \in Nat : n = Len(reqQueue)
  BY <1>1, LenProperties
<1>4. n - 1 <= ReqQueueDepth
  BY <1>1, <1>3, UdsAssumption
<1> QED
  BY <1>2, <1>3, <1>4, BeginOK DEF ReceiveRequest

\* The request of the keep-alive.
LEMMA TesterPresentType ==
  TesterPresentRequest(TRUE) \in RequestType
<1>1. TP \in Byte /\ TpSuppress \in Byte /\ 0 \in Byte /\ <<>> \in Seq(Byte)
  BY EmptySeq DEF TP, TpSuppress, Byte
<1>2. NoRequest \in RequestType
  BY <1>1 DEF NoRequest, RequestType
<1>3. \A r \in RequestType, sid \in Byte, sub \in Byte :
        [r EXCEPT !.sid = sid, !.sub = sub, !.functional = TRUE] \in RequestType
  BY DEF RequestType
<1> QED
  BY <1>1, <1>2, <1>3 DEF TesterPresentRequest

\* The keep-alive is due.
LEMMA KeepAliveDueOK ==
  ASSUME UdsInv, KeepAliveDue
  PROVE  UdsInv'
  BY TesterPresentType, BeginOK DEF KeepAliveDue, UdsInv, UdsTypeOK

\* A transaction ends with one of the four outcomes.
LEMMA FinishOK ==
  ASSUME NEW result \in {"OK", "NEGATIVE", "TIMEOUT", "TP_ERROR"}, NEW nrc \in Byte,
         NEW data \in Seq(Byte), Finish(result, nrc, data)
  PROVE  task' = "report" /\ rsp' \in Response /\ rsp'.result = result
  BY DEF Finish, Response

\* So does one that ends without data.
LEMMA FinishEmptyOK ==
  ASSUME NEW result \in {"OK", "NEGATIVE", "TIMEOUT", "TP_ERROR"}, Finish(result, 0, <<>>)
  PROVE  task' = "report" /\ rsp' \in Response /\ rsp'.result = result
<1>1. 0 \in Byte /\ <<>> \in Seq(Byte)
  BY EmptySeq DEF Byte
<1> QED
  BY <1>1, FinishOK

\* Requests carry an address.
LEMMA AddressType ==
  RequestId(req) \in {ReqId, FuncId}
  BY DEF RequestId

\* The request is sent, or finds no mailbox.
LEMMA SendRequestOK ==
  ASSUME UdsInv, SendRequest
  PROVE  UdsInv'
<1>1. req \in RequestType /\ rsp \in Response /\ txBox \in Seq(TxFrame) /\ Len(txBox) <= Mailboxes
  BY DEF UdsInv, UdsTypeOK, TxFrame
<1>2. txBox' \in Seq(TxFrame) /\ Len(txBox') <= Mailboxes
  <2>1. StartFrame(BuildPdu(req)) \in Payload
    BY <1>1, BuildPduType, StartFrameType
  <2>2. RequestId(req) \in {ReqId, FuncId}
    BY AddressType
  <2>3. Transmit(RequestId(req), StartFrame(BuildPdu(req)))
    BY DEF SendRequest
  <2> QED
    BY <1>1, <2>1, <2>2, <2>3, TransmitOK
<1>3. \/ /\ task' = "report" /\ rsp' \in Response
         /\ rsp'.result \in {"OK", "TP_ERROR"}
      \/ /\ task' = "wait" /\ rsp' = rsp
         /\ ~ Silence
  BY FinishEmptyOK DEF SendRequest, Silence
<1>4. UdsTypeOK'
  BY <1>1, <1>2, <1>3 DEF SendRequest, UdsStep, UdsInv, UdsTypeOK, TxFrame
<1>5. RecordsOK' /\ WithinBudget' /\ Notified' /\ SilentEnds'
  BY <1>3 DEF SendRequest, UdsStep, UdsInv, RecordsOK, WithinBudget, Notified, SilentEnds, Silence
<1> QED
  BY <1>4, <1>5 DEF UdsInv

\* The wait ends with a notification.
LEMMA NotifyWaitOK ==
  ASSUME UdsInv, NotifyWait
  PROVE  UdsInv'
  BY DEF NotifyWait, UdsStep, UdsInv, UdsTypeOK, RecordsOK, WithinBudget, Notified, SilentEnds,
         Silence, transactionVars

\* The wait ends without one.
LEMMA WaitExpiresOK ==
  ASSUME UdsInv, WaitExpires
  PROVE  UdsInv'
<1>1. task' = "report" /\ rsp' \in Response
  BY FinishEmptyOK DEF WaitExpires
<1>2. ~ Silence
  BY DEF WaitExpires, UdsStep, UdsInv, SilentEnds
<1>3. UdsTypeOK'
  BY <1>1 DEF WaitExpires, UdsStep, UdsInv, UdsTypeOK
<1>4. RecordsOK' /\ WithinBudget' /\ Notified' /\ SilentEnds'
  BY <1>1, <1>2 DEF WaitExpires, UdsStep, UdsInv, RecordsOK, WithinBudget, Notified, SilentEnds,
                    Silence
<1> QED
  BY <1>3, <1>4 DEF UdsInv

\* The flag of the slot is read.
LEMMA CheckValidOK ==
  ASSUME UdsInv, CheckValid
  PROVE  UdsInv'
<1>1. \/ task' = "clear" /\ rsp' = rsp
      \/ task' = "report" /\ rsp' \in Response /\ ~ rxValid
  BY FinishEmptyOK DEF CheckValid
<1>2. ~ Silence
  BY DEF CheckValid, UdsStep, UdsInv, SilentEnds
<1>3. UdsTypeOK'
  BY <1>1 DEF CheckValid, UdsStep, UdsInv, UdsTypeOK
<1>4. RecordsOK' /\ WithinBudget' /\ Notified' /\ SilentEnds'
  BY <1>1, <1>2 DEF CheckValid, UdsStep, UdsInv, RecordsOK, WithinBudget, Notified, SilentEnds,
                    Silence
<1> QED
  BY <1>3, <1>4 DEF UdsInv

\* The flag is cleared.
LEMMA ClearValidOK ==
  ASSUME UdsInv, ClearValid
  PROVE  UdsInv'
  BY DEF ClearValid, UdsStep, UdsInv, UdsTypeOK, RecordsOK, WithinBudget, Notified, SilentEnds,
         Silence, transactionVars

\* The head of the frame is copied; it fits the local, wherever the copy is cut.
LEMMA CopyHeadOK ==
  ASSUME UdsInv, NEW cut \in CopyCuts, CopyHead(cut)
  PROVE  UdsInv'
<1>1. /\ local' \in [dlen : 0 .. 64, data : Seq(Byte)]
      /\ Len(local'.data) <= TxDl
  <2> DEFINE head == SubSeq(rxFrame.data, 1, cut)
  <2>1. rxFrame.dlen \in 0 .. 64 /\ rxFrame.data \in Payload
    BY DEF UdsInv, UdsTypeOK, CapturedFrame
  <2>2. cut \in Nat /\ cut <= 8
    BY UdsAssumption DEF TxDl
  <2>3. head \in Seq(Byte) /\ Len(head) = IF 1 <= cut THEN cut - 1 + 1 ELSE 0
    <3>1. rxFrame.data \in Seq(Byte) /\ Len(rxFrame.data) = 8
      BY <2>1, PayloadIsSeq DEF TxDl
    <3>2. cut <= Len(rxFrame.data) /\ 1 \in Nat \ {0} /\ cut \in Int
      BY <2>2, <3>1
    <3> QED
      BY <3>1, <3>2, SubSeqBytes
  <2>4. (IF 1 <= cut THEN cut - 1 + 1 ELSE 0) <= 8
    BY <2>2
  <2>5. Len(head) <= TxDl
    BY <2>3, <2>4 DEF TxDl
  <2>6. local' = [dlen |-> rxFrame.dlen, data |-> head]
    BY DEF CopyHead
  <2> HIDE DEF head
  <2>7. local'.data = head
    BY <2>6
  <2> QED
    BY <2>1, <2>3, <2>5, <2>6, <2>7
<1>2. UdsTypeOK'
  BY <1>1 DEF CopyHead, UdsStep, UdsInv, UdsTypeOK
<1>3. RecordsOK' /\ WithinBudget' /\ Notified' /\ SilentEnds'
  BY <1>1 DEF CopyHead, UdsStep, UdsInv, RecordsOK, WithinBudget, Notified, SilentEnds, Silence
<1> QED
  BY <1>2, <1>3 DEF UdsInv

\* More cells are copied; the local never holds more than a frame has.
LEMMA CopyOnOK ==
  ASSUME UdsInv, NEW cut \in CopyCuts, CopyOn(cut)
  PROVE  UdsInv'
<1>1. /\ local' \in [dlen : 0 .. 64, data : Seq(Byte)]
      /\ Len(local'.data) <= TxDl
  <2> DEFINE more == local.data \o SubSeq(rxFrame.data, Len(local.data) + 1, cut)
  <2>1. local \in [dlen : 0 .. 64, data : Seq(Byte)] /\ rxFrame.data \in Payload
    <3>1. local \in [dlen : 0 .. 64, data : Seq(Byte)]
      BY DEF UdsInv, RecordsOK
    <3>2. rxFrame.data \in Payload
      BY DEF UdsInv, UdsTypeOK, CapturedFrame
    <3> QED
      BY <3>1, <3>2
  <2>2. cut \in 0 .. TxDl
    BY UdsAssumption
  <2>3. Len(local.data) < cut
    BY DEF CopyOn
  <2>4. more \in Seq(Byte) /\ Len(more) = cut
    BY <2>1, <2>2, <2>3, CopiedFurther
  <2>5. local' = [local EXCEPT !.data = more]
    BY DEF CopyOn
  <2> HIDE DEF more
  <2>6. local'.data = more /\ local' \in [dlen : 0 .. 64, data : Seq(Byte)]
    BY <2>1, <2>4, <2>5
  <2>7. Len(local'.data) <= TxDl
    BY <2>2, <2>4, <2>6 DEF TxDl
  <2> QED
    BY <2>6, <2>7
<1>2. UdsTypeOK'
  BY <1>1 DEF CopyOn, UdsStep, UdsInv, UdsTypeOK
<1>3. RecordsOK' /\ WithinBudget' /\ Notified' /\ SilentEnds'
  BY <1>1 DEF CopyOn, UdsStep, UdsInv, RecordsOK, WithinBudget, Notified, SilentEnds, Silence
<1> QED
  BY <1>2, <1>3 DEF UdsInv

\* The rest of a long request is sent.
LEMMA SendConsecutiveOK ==
  ASSUME UdsInv, SendConsecutive
  PROVE  UdsInv'
<1>1. req \in RequestType /\ rsp \in Response /\ txBox \in Seq(TxFrame) /\ Len(txBox) <= Mailboxes
  BY DEF UdsInv, UdsTypeOK, TxFrame
<1>2. txBox' \in Seq(TxFrame) /\ Len(txBox') <= Mailboxes
  <2>1. FfFirstDl \in Nat /\ 1 \in 0 .. SnModulus - 1
    BY DEF FfFirstDl, SnModulus
  <2>2. ConsecutiveFrame(BuildPdu(req), FfFirstDl, 1) \in Payload
    BY <1>1, <2>1, BuildPduType, ConsecutiveFrameType
  <2>3. Transmit(RequestId(req), ConsecutiveFrame(BuildPdu(req), FfFirstDl, 1))
    BY DEF SendConsecutive
  <2> QED
    BY <1>1, <2>2, <2>3, AddressType, TransmitOK
<1>3. \/ task' = "report" /\ rsp' \in Response
      \/ task' = "wait" /\ rsp' = rsp
  BY FinishEmptyOK DEF SendConsecutive
<1>4. ~ Silence
  BY DEF SendConsecutive, UdsStep, UdsInv, SilentEnds
<1>5. UdsTypeOK'
  BY <1>1, <1>2, <1>3 DEF SendConsecutive, UdsStep, UdsInv, UdsTypeOK, TxFrame
<1>6. RecordsOK' /\ WithinBudget' /\ Notified' /\ SilentEnds'
  BY <1>3, <1>4 DEF SendConsecutive, UdsStep, UdsInv, RecordsOK, WithinBudget, Notified,
                    SilentEnds, Silence
<1> QED
  BY <1>5, <1>6 DEF UdsInv

\* The outcome is reported.
LEMMA ReportOK ==
  ASSUME UdsInv, Report
  PROVE  UdsInv'
<1>1. report' \in [req : RequestType, rsp : Response]
  BY DEF Report, UdsInv, UdsTypeOK
<1> QED
  BY <1>1 DEF Report, UdsStep, UdsInv, UdsTypeOK, RecordsOK, WithinBudget, Notified, SilentEnds,
              Silence, transactionVars

\* A complete PDU ends the transaction or lets it wait on, within its budget.
LEMMA HandlePduOK ==
  ASSUME UdsInv, pendingCount <= MaxPending, NEW pdu \in Seq(Byte),
         HandlePdu(pdu, Classify(req.sid, pdu))
  PROVE  /\ \/ task' = "report" /\ rsp' \in Response
            \/ task' = "wait" /\ rsp' = rsp /\ pendingCount' <= MaxPending
         /\ waitTime' \in {"P2", "P2star"}
         /\ pendingCount' \in 0 .. MaxPending + 1
<1> DEFINE class == Classify(req.sid, pdu)
<1>1. req.sid \in Byte
  BY DEF UdsInv, UdsTypeOK, RequestType
<1>2. class.result \in {"OK", "BUSY", "NEGATIVE", "TIMEOUT"} /\ class.nrc \in Byte
  BY <1>1, ClassifyType
<1>3. HandlePdu(pdu, class)
  OBVIOUS
<1> HIDE DEF class
<1>4. pendingCount \in 0 .. MaxPending + 1 /\ waitTime \in {"P2", "P2star"} /\ MaxPending \in Nat
  BY UdsAssumption DEF UdsInv, UdsTypeOK
<1>5. CASE class.result = "BUSY" /\ pendingCount + 1 > MaxPending
  <2>1. pendingCount' = pendingCount + 1 /\ Finish("TIMEOUT", 0, <<>>) /\ waitTime' = waitTime
    BY <1>3, <1>5 DEF HandlePdu
  <2> QED
    BY <1>4, <2>1, FinishEmptyOK
<1>6. CASE class.result = "BUSY" /\ ~ (pendingCount + 1 > MaxPending)
  <2>1. pendingCount' = pendingCount + 1 /\ task' = "wait" /\ waitTime' = "P2star" /\ rsp' = rsp
    BY <1>3, <1>6 DEF HandlePdu
  <2> QED
    BY <1>4, <1>6, <2>1
<1>7. CASE class.result # "BUSY"
  <2> DEFINE data == IF class.result = "OK" THEN pdu ELSE <<>>
  <2>1. data \in Seq(Byte)
    BY EmptySeq
  <2>2. /\ Finish(class.result, class.nrc, data)
        /\ pendingCount' = pendingCount /\ waitTime' = waitTime
    BY <1>3, <1>7 DEF HandlePdu
  <2>3. class.result \in {"OK", "NEGATIVE", "TIMEOUT", "TP_ERROR"}
    BY <1>2, <1>7
  <2> HIDE DEF data
  <2>4. task' = "report" /\ rsp' \in Response
    BY <1>2, <2>1, <2>2, <2>3, FinishOK
  <2> QED
    BY <1>4, <2>2, <2>4
<1> QED
  BY <1>5, <1>6, <1>7

\* So does any frame the response loop takes.
LEMMA HandleFedOK ==
  ASSUME UdsInv, pendingCount <= MaxPending, NEW fed, HandleFed(fed), ContextOK(fed.rx)
  PROVE  /\ \/ task' = "report" /\ rsp' \in Response
            \/ task' = "wait" /\ rsp' = rsp /\ pendingCount' <= MaxPending
         /\ waitTime' \in {"P2", "P2star"}
         /\ pendingCount' \in 0 .. MaxPending + 1
         /\ txBox' \in Seq(TxFrame) /\ Len(txBox') <= Mailboxes
         /\ ContextOK(rx')
<1>1. /\ pendingCount \in 0 .. MaxPending + 1 /\ waitTime \in {"P2", "P2star"}
      /\ txBox \in Seq(TxFrame) /\ Len(txBox) <= Mailboxes
  BY DEF UdsInv, UdsTypeOK, TxFrame
<1>2. ContextOK(rx')
  BY RxInitOK DEF HandleFed
<1>3. CASE /\ fed.result = "SENDFC"
           /\ Transmit(ReqId, GrantData)
           /\ task' = "wait"
           /\ UNCHANGED <<waitTime, pendingCount, rsp>>
  <2>1. GrantData \in Payload
    BY UdsAssumption, FlowControlType DEF GrantData
  <2>2. txBox' \in Seq(TxFrame) /\ Len(txBox') <= Mailboxes
    BY <1>1, <1>3, <2>1, TransmitOK
  <2> QED
    BY <1>1, <1>2, <1>3, <2>2
<1>4. CASE /\ fed.result = "INPROGRESS"
           /\ task' = "wait"
           /\ UNCHANGED <<waitTime, pendingCount, rsp, txBox>>
  BY <1>1, <1>2, <1>4
<1>5. CASE /\ fed.result \in {"ERROR", "IDLE"}
           /\ Finish("TP_ERROR", 0, <<>>)
           /\ UNCHANGED <<waitTime, pendingCount, txBox>>
  BY <1>1, <1>2, <1>5, FinishEmptyOK
<1>6. CASE /\ fed.result = "DONE"
           /\ HandlePdu(fed.rx.buf, Classify(req.sid, fed.rx.buf))
           /\ UNCHANGED txBox
  <2>1. fed.rx.buf \in Seq(Byte)
    BY DEF ContextOK, Context
  <2> QED
    BY <1>1, <1>2, <1>6, <2>1, HandlePduOK
<1> QED
  BY <1>3, <1>4, <1>5, <1>6 DEF HandleFed

\* Where the transaction goes on once a frame was fed.
LEMMA FeedLeavesCopy ==
  ASSUME FeedFrame
  PROVE  task' \in {"continue", "wait", "report"}
<1>1. ASSUME NEW fed, HandleFed(fed)
      PROVE  task' \in {"wait", "report"}
  BY <1>1 DEF HandleFed, HandlePdu, Finish
<1> QED
  BY <1>1 DEF FeedFrame

\* A frame is fed, whatever the two parts of its copy contain.
LEMMA FeedFrameOK ==
  ASSUME UdsInv, FeedFrame
  PROVE  UdsInv'
<1> DEFINE fed == RxFeed(rx, local.dlen, Snapshot)
<1>1. /\ local.data \in Seq(Byte) /\ Len(local.data) <= TxDl /\ rxFrame \in CapturedFrame
      /\ ContextOK(rx) /\ pendingCount <= MaxPending /\ rsp \in Response
      /\ pendingCount \in 0 .. MaxPending + 1 /\ waitTime \in {"P2", "P2star"}
      /\ txBox \in Seq(TxFrame) /\ Len(txBox) <= Mailboxes /\ ~ Silence
  BY DEF FeedFrame, UdsStep, UdsInv, UdsTypeOK, RecordsOK, WithinBudget, SilentEnds, TxFrame
<1>2. ContextOK(fed.rx)
  BY <1>1, SnapshotType, RxFeedOK
<1>3. /\ task = "copyTail" /\ UNCHANGED <<sink, rxFrame>>
      /\ \/ /\ phase = "fc" /\ rx' = fed.rx /\ task' = "continue"
            /\ UNCHANGED <<waitTime, pendingCount, rsp, txBox>>
         \/ phase = "rsp" /\ HandleFed(fed)
      /\ local' = NoCopy
      /\ UNCHANGED <<reqQueue, req, keepAlive, phase, rxValid, notified, report>>
  BY DEF FeedFrame, UdsStep
<1> HIDE DEF fed
<1>4. /\ \/ task' = "report" /\ rsp' \in Response
         \/ task' \in {"wait", "continue"} /\ rsp' = rsp /\ pendingCount' <= MaxPending
      /\ waitTime' \in {"P2", "P2star"}
      /\ pendingCount' \in 0 .. MaxPending + 1
      /\ txBox' \in Seq(TxFrame) /\ Len(txBox') <= Mailboxes
      /\ ContextOK(rx')
  BY <1>1, <1>2, <1>3, HandleFedOK
<1>5. rx'.buf \in Seq(Byte) /\ Len(rx'.buf) <= RxBufBytes
  BY <1>4, ContextBounds
<1>6. /\ local' \in [dlen : 0 .. 64, data : Seq(Byte)]
      /\ local'.dlen \in 0 .. 64 /\ local'.data \in Seq(Byte) /\ Len(local'.data) <= TxDl
  BY <1>3, NoCopyType
<1>7. UdsTypeOK'
  BY <1>1, <1>3, <1>4, <1>5, <1>6 DEF UdsInv, UdsTypeOK, TxFrame
<1>8. RecordsOK' /\ WithinBudget' /\ Notified' /\ SilentEnds'
  BY <1>1, <1>3, <1>4, <1>6 DEF UdsInv, RecordsOK, WithinBudget, Notified, SilentEnds, Silence
<1> QED
  BY <1>7, <1>8 DEF UdsInv

-----------------------------------------------------------------------------
(* What the compositions use.                                              *)

\* The client starts well formed.
LEMMA UdsInitOK == UdsInit => UdsInv
<1> SUFFICES ASSUME UdsInit PROVE UdsInv
  OBVIOUS
<1>1. 0 \in Byte /\ <<>> \in Seq(Byte)
  BY EmptySeq DEF Byte
<1>2. NoRequest \in RequestType
  BY <1>1 DEF NoRequest, RequestType
<1>3. NoResponse \in Response
  BY <1>1 DEF NoResponse, Response
<1>4. NoFrame \in CapturedFrame
  BY <1>1 DEF NoFrame, CapturedFrame, Payload, TxDl
<1>5. reqQueue \in Seq(RequestType) /\ Len(reqQueue) <= ReqQueueDepth
  BY EmptySeq, UdsAssumption DEF UdsInit
<1>6. txBox \in Seq(TxFrame) /\ Len(txBox) <= Mailboxes
  BY EmptySeq, UdsAssumption DEF UdsInit
<1>7. ContextOK(rx) /\ rx.buf \in Seq(Byte) /\ Len(rx.buf) <= RxBufBytes
  BY RxInitOK, ContextBounds DEF UdsInit
<1>8. pendingCount \in 0 .. MaxPending + 1
  BY UdsAssumption DEF UdsInit
<1>9. UdsTypeOK
  BY <1>2, <1>3, <1>4, <1>5, <1>6, <1>7, <1>8, NoCopyType DEF UdsInit, UdsTypeOK, TxFrame
<1> QED
  BY <1>7, <1>9, NoCopyType
     DEF UdsInit, UdsInv, RecordsOK, WithinBudget, Notified, SilentEnds

\* Every step of the UDS task preserves the invariant.
LEMMA UdsTaskOK ==
  ASSUME UdsInv, UdsTask \/ WaitExpires
  PROVE  UdsInv'
  BY BootOK, ReceiveRequestOK, KeepAliveDueOK, SendRequestOK, NotifyWaitOK, WaitExpiresOK,
     CheckValidOK, ClearValidOK, CopyHeadOK, CopyOnOK, FeedFrameOK, SendConsecutiveOK, ReportOK
  DEF UdsTask

\* In the application's eyes a step of the UDS task takes the oldest request into service, ends
\* the one in service with an outcome, or does nothing.
LEMMA UdsTaskServes ==
  ASSUME UdsInv, UdsTask \/ WaitExpires
  PROVE  \/ /\ InService = <<>> /\ reqQueue # <<>>
            /\ InService' = <<Head(reqQueue)>> /\ reqQueue' = Tail(reqQueue)
            /\ UNCHANGED <<sink, report>>
         \/ /\ InService = <<req>> /\ InService' = <<>>
            /\ report' = IF sink THEN [req |-> req, rsp |-> rsp] ELSE report
            /\ rsp.result \in {"OK", "NEGATIVE", "TIMEOUT", "TP_ERROR"}
            /\ Silence => rsp.result \in {"OK", "TP_ERROR"}
            /\ UNCHANGED <<reqQueue, sink>>
         \/ UNCHANGED <<reqQueue, InService, sink, report>>
<1>1. CASE ReceiveRequest
  BY <1>1 DEF ReceiveRequest, BeginTransaction, UdsStep, InService, Transacting
<1>2. CASE KeepAliveDue
  BY <1>2 DEF KeepAliveDue, BeginTransaction, UdsStep, InService, Transacting
<1>3. CASE Report
  <2>1. task = "report" /\ task' = "idle"
        /\ report' = (IF sink /\ ~ keepAlive THEN [req |-> req, rsp |-> rsp] ELSE report)
        /\ UNCHANGED <<reqQueue, sink, req, keepAlive>>
    BY <1>3 DEF Report, UdsStep, transactionVars
  <2>2. rsp \in Response /\ (Silence => rsp.result \in {"OK", "TP_ERROR"})
    BY <2>1 DEF UdsInv, UdsTypeOK, SilentEnds
  <2>3. CASE keepAlive
    BY <2>1, <2>3 DEF InService, Transacting
  <2>4. CASE ~ keepAlive
    BY <2>1, <2>2, <2>4 DEF InService, Transacting, Response
  <2> QED
    BY <2>3, <2>4
<1>4. CASE Boot
  BY <1>4 DEF Boot, UdsStep, InService, Transacting, transactionVars
<1>5. ASSUME /\ Transacting /\ Transacting'
             /\ UNCHANGED <<reqQueue, req, keepAlive, sink, report>>
      PROVE  UNCHANGED <<reqQueue, InService, sink, report>>
  BY <1>5 DEF InService
<1>6. CASE SendRequest
  BY <1>5, <1>6 DEF SendRequest, UdsStep, Finish, Transacting
<1>7. CASE NotifyWait \/ ClearValid
  BY <1>5, <1>7 DEF NotifyWait, ClearValid, UdsStep, Transacting, transactionVars
<1>8. CASE CheckValid \/ WaitExpires
  BY <1>5, <1>8 DEF CheckValid, WaitExpires, UdsStep, Finish, Transacting
<1>9. CASE \E cut \in CopyCuts : CopyHead(cut) \/ CopyOn(cut)
  BY <1>5, <1>9 DEF CopyHead, CopyOn, UdsStep, Transacting
<1>10. CASE SendConsecutive
  BY <1>5, <1>10 DEF SendConsecutive, UdsStep, Finish, Transacting
<1>11. CASE FeedFrame
  <2>1. task' \in {"continue", "wait", "report"}
    BY <1>11, FeedLeavesCopy
  <2> QED
    BY <1>5, <1>11, <2>1 DEF FeedFrame, UdsStep, Transacting
<1> QED
  BY <1>1, <1>2, <1>3, <1>4, <1>6, <1>7, <1>8, <1>9, <1>10, <1>11 DEF UdsTask
=============================================================================
