------------------------------- MODULE AnyBus -------------------------------
(***************************************************************************)
(* The UDS client on a bus that follows no protocol: any frame may be      *)
(* captured at any moment, any wait may expire, the mailboxes are emptied  *)
(* at the bus's pace. What holds here holds whatever the ECU does.         *)
(***************************************************************************)
EXTENDS UdsClient

CONSTANTS
  Requests,        \* requests the application may submit
  CapturedFrames   \* frames the drain task may hand to the client

ASSUME BusAssumption ==
  /\ Requests \subseteq RequestType
  /\ \A r \in Requests : Len(r.extra) <= 6
  /\ CapturedFrames \subseteq CapturedFrame

VARIABLE
  slotFresh        \* history: the slot was written after the transaction began

vars == <<udsVars, slotFresh>>

Init == UdsInit /\ slotFresh = FALSE

Application ==
  /\ (\E given \in BOOLEAN : RegisterSink(given)) \/ \E r \in Requests : Submit(r)
  /\ UNCHANGED slotFresh

Capture(frame) ==
  /\ OnCapturedFrame(frame)
  /\ slotFresh' = (slotFresh \/ Addressed(frame))
  /\ UNCHANGED <<reqQueue, task, transactionVars, sink, report, txBox>>

MailboxSent ==
  /\ txBox # <<>>
  /\ txBox' = Tail(txBox)
  /\ UNCHANGED <<reqQueue, task, transactionVars, mailboxVars, sink, report, slotFresh>>

Task ==
  /\ UdsTask \/ WaitExpires
  /\ slotFresh' = (slotFresh /\ task # "idle")

Next ==
  \/ Application
  \/ \E frame \in CapturedFrames : Capture(frame)
  \/ MailboxSent
  \/ Task

Spec == Init /\ [][Next]_vars

-----------------------------------------------------------------------------
(* Properties.                                                             *)

\* The answer to one request is never read out of a frame that was captured before the
\* request: what an earlier transaction left in the slot is discarded.
FreshFramesOnly == task \in {"copyHead", "copyTail"} => slotFresh

Service == INSTANCE TesterService WITH
  queue <- reqQueue,
  inService <- InService,
  report <- [req |-> report.req, result |-> report.rsp.result],
  Silent <- {r \in Requests : Suppressed(r) /\ Pending(BuildPdu(r)) = 0},
  Depth <- ReqQueueDepth

\* The client is the tester service on any bus: no request is served twice, out of order or
\* reported as another, and the keep-alive reports nothing.
ImplementsService == Service!Spec

-----------------------------------------------------------------------------
(* What the code's comments say and this bus refutes.                      *)

\* CANLOGGER_ISOTP_RX_IDLE means that the frame was ignored: the transaction goes on.
IgnoredFramesAreHarmless ==
  [][task = "copyTail" /\ phase = "rsp" /\ RxFeed(rx, local.dlen, Snapshot).result = "IDLE"
       => task' # "report"]_vars
=============================================================================
