---------------------------- MODULE AnyBusProofs ----------------------------
(***************************************************************************)
(* Theorems about the UDS client on any bus, for every set of requests and *)
(* of frames, every queue, buffer and mailbox size.                        *)
(***************************************************************************)
EXTENDS AnyBus, UdsClientProofs

\* A frame in the slot, or one being taken out of it, was captured within the transaction.
SlotIsFresh ==
  /\ task \notin {"boot", "idle"} /\ rxValid => slotFresh
  /\ task \in {"clear", "copyHead", "copyTail"} => slotFresh

IInv == UdsInv /\ SlotIsFresh

-----------------------------------------------------------------------------
(* Invariance.                                                             *)

\* The client starts with nothing in the slot.
LEMMA Initially == Init => IInv
  BY UdsInitOK DEF Init, UdsInit, IInv, SlotIsFresh

\* The requests and the frames of this bus are of the types the client expects.
LEMMA BusTypes ==
  /\ \A r \in Requests : r \in RequestType
  /\ \A frame \in CapturedFrames : frame \in CapturedFrame
  BY BusAssumption

\* Whatever the bus and the application do, the client stays well formed.
LEMMA UdsInvStep ==
  ASSUME UdsInv, [Next]_vars
  PROVE  UdsInv'
<1>1. CASE Application
  BY <1>1, BusTypes, SubmitOK, RegisterSinkOK DEF Application
<1>2. ASSUME NEW frame \in CapturedFrames, Capture(frame)
      PROVE  UdsInv'
  BY <1>2, BusTypes, CapturedOK DEF Capture
<1>3. CASE MailboxSent
  BY <1>3, MailboxSentOK DEF MailboxSent
<1>4. CASE Task
  BY <1>4, UdsTaskOK DEF Task
<1>5. CASE UNCHANGED vars
  BY <1>5 DEF vars, udsVars, transactionVars, mailboxVars, UdsInv, UdsTypeOK, RecordsOK,
              WithinBudget, Notified, SilentEnds, Silence
<1> QED
  BY <1>1, <1>2, <1>3, <1>4, <1>5 DEF Next

\* The UDS task takes a frame out of the slot only where it found one.
LEMMA SlotStep ==
  ASSUME SlotIsFresh, [Next]_vars
  PROVE  SlotIsFresh'
<1>1. CASE Application
  BY <1>1 DEF Application, Submit, RegisterSink, mailboxVars, SlotIsFresh
<1>2. ASSUME NEW frame \in CapturedFrames, Capture(frame)
      PROVE  SlotIsFresh'
  BY <1>2 DEF Capture, OnCapturedFrame, mailboxVars, SlotIsFresh
<1>3. CASE MailboxSent
  BY <1>3 DEF MailboxSent, mailboxVars, SlotIsFresh
<1>4. CASE Task
  <2>1. (task # "idle" /\ slotFresh => slotFresh') /\ (UdsTask \/ WaitExpires)
    BY <1>4 DEF Task
  <2>2. CASE Boot \/ Report
    BY <2>2 DEF Boot, Report, UdsStep, SlotIsFresh
  <2>3. CASE ReceiveRequest \/ KeepAliveDue
    <3>1. task' = "send" /\ ~ rxValid'
      BY <2>3 DEF ReceiveRequest, KeepAliveDue, BeginTransaction
    <3> QED
      BY <3>1 DEF SlotIsFresh
  <2>4. CASE SendRequest \/ SendConsecutive
    BY <2>1, <2>4 DEF SendRequest, SendConsecutive, Finish, UdsStep, SlotIsFresh
  <2>5. CASE NotifyWait \/ WaitExpires \/ ClearValid
    BY <2>1, <2>5 DEF NotifyWait, WaitExpires, ClearValid, Finish, UdsStep, SlotIsFresh
  <2>6. CASE CheckValid
    <3>1. task = "check" /\ rxValid' = rxValid
          /\ ((task' = "clear" /\ rxValid) \/ task' = "report")
      BY <2>6 DEF CheckValid, Finish, UdsStep
    <3> QED
      BY <2>1, <3>1 DEF SlotIsFresh
  <2>7. CASE \E cut \in CopyCuts : CopyHead(cut) \/ CopyOn(cut)
    BY <2>1, <2>7 DEF CopyHead, CopyOn, UdsStep, SlotIsFresh
  <2>8. CASE FeedFrame
    <3>1. task' \in {"continue", "wait", "report"}
      BY <2>8, FeedLeavesCopy
    <3> QED
      BY <2>1, <2>8, <3>1 DEF FeedFrame, UdsStep, SlotIsFresh
  <2> QED
    BY <2>1, <2>2, <2>3, <2>4, <2>5, <2>6, <2>7, <2>8 DEF UdsTask
<1>5. CASE UNCHANGED vars
  BY <1>5 DEF vars, udsVars, mailboxVars, SlotIsFresh
<1> QED
  BY <1>1, <1>2, <1>3, <1>4, <1>5 DEF Next

\* The inductive invariant holds in every state.
LEMMA Invariance == Spec => []IInv
<1>1. IInv /\ [Next]_vars => IInv'
  BY UdsInvStep, SlotStep DEF IInv
<1> QED
  BY Initially, <1>1, PTL DEF Spec

-----------------------------------------------------------------------------
(* The theorems.                                                           *)

\* Whatever is captured and whenever, every variable keeps its type, the queue, the mailboxes
\* and the reassembly buffer their bounds, and a transaction its number of responsePending
\* answers.
THEOREM TypeCorrect == Spec => []UdsTypeOK
<1>1. IInv => UdsTypeOK
  BY DEF IInv, UdsInv
<1> QED
  BY Invariance, <1>1, PTL

\* A waiting task with a frame in the slot has been notified: clearing the flag and taking the
\* notification in two steps loses no frame that comes in between.
THEOREM NoWakeupLost == Spec => []NoLostWakeup
<1>1. IInv => NoLostWakeup
  BY DEF IInv, UdsInv, Notified, NoLostWakeup
<1> QED
  BY Invariance, <1>1, PTL

\* Only frames captured since the transaction began are read as its answer.
THEOREM AnswersAreFresh == Spec => []FreshFramesOnly
<1>1. IInv => FreshFramesOnly
  BY DEF IInv, SlotIsFresh, FreshFramesOnly
<1> QED
  BY Invariance, <1>1, PTL

-----------------------------------------------------------------------------
(* The client implements the tester service.                               *)

\* The client starts as the service does.
LEMMA ServiceInit == Init => Service!Init
  BY DEF Init, UdsInit, Service!Init, InService, Transacting

\* Every step is one of the service or none.
LEMMA ServiceStep ==
  ASSUME UdsInv, [Next]_vars
  PROVE  [Service!Next]_(Service!vars)
<1>1. CASE Application
  <2>1. CASE \E given \in BOOLEAN : RegisterSink(given)
    BY <2>1 DEF RegisterSink, transactionVars, InService, Transacting,
                Service!Next, Service!RegisterSink
  <2>2. ASSUME NEW r \in Requests, Submit(r)
        PROVE  Service!Submit(r)
    BY <2>2 DEF Submit, transactionVars, InService, Transacting, Service!Submit
  <2> QED
    BY <1>1, <2>1, <2>2 DEF Application, Service!Next
<1>2. ASSUME NEW frame \in CapturedFrames, Capture(frame)
      PROVE  UNCHANGED Service!vars
  BY <1>2 DEF Capture, transactionVars, InService, Transacting, Service!vars
<1>3. CASE MailboxSent
  BY <1>3 DEF MailboxSent, transactionVars, InService, Transacting, Service!vars
<1>4. CASE Task
  <2>1. UdsTask \/ WaitExpires
    BY <1>4 DEF Task
  <2>2. CASE /\ InService = <<>> /\ reqQueue # <<>>
             /\ InService' = <<Head(reqQueue)>> /\ reqQueue' = Tail(reqQueue)
             /\ UNCHANGED <<sink, report>>
    BY <2>2 DEF Service!Next, Service!Begin
  <2>3. CASE /\ InService = <<req>> /\ InService' = <<>>
             /\ report' = IF sink THEN [req |-> req, rsp |-> rsp] ELSE report
             /\ rsp.result \in {"OK", "NEGATIVE", "TIMEOUT", "TP_ERROR"}
             /\ Silence => rsp.result \in {"OK", "TP_ERROR"}
             /\ UNCHANGED <<reqQueue, sink>>
    <3>1. rsp.result \in Service!Outcomes(req)
      BY <2>3 DEF Service!Outcomes, Silence
    <3>2. InService # <<>> /\ InService[1] = req
      BY <2>3
    <3>3. CASE sink
      <4>1. [req |-> report'.req, result |-> report'.rsp.result] = [req |-> req, result |-> rsp.result]
        BY <2>3, <3>3
      <4> QED
        BY <2>3, <3>1, <3>2, <3>3, <4>1 DEF Service!Next, Service!End
    <3>4. CASE ~ sink
      BY <2>3, <3>2, <3>4 DEF Service!Next, Service!End
    <3> QED
      BY <3>3, <3>4
  <2>4. CASE UNCHANGED <<reqQueue, InService, sink, report>>
    BY <2>4 DEF Service!vars
  <2> QED
    BY <2>1, <2>2, <2>3, <2>4, UdsTaskServes
<1>5. CASE UNCHANGED vars
  BY <1>5 DEF vars, udsVars, transactionVars, InService, Transacting, Service!vars
<1> QED
  BY <1>1, <1>2, <1>3, <1>4, <1>5 DEF Next

\* On any bus the client is the tester service: accepted requests are served one at a time and
\* in their order, each ends once and with an outcome of its own kind, and the keep-alive is
\* never reported.
THEOREM ServiceImplemented == Spec => ImplementsService
<1>1. IInv /\ [Next]_vars => [Service!Next]_(Service!vars)
  BY ServiceStep DEF IInv
<1> QED
  BY ServiceInit, Invariance, <1>1, PTL DEF Spec, ImplementsService, Service!Spec
=============================================================================
