------------------------------ MODULE IsoTpLink ------------------------------
(***************************************************************************)
(* One transfer of a PDU from an ISO-TP sender to an ISO-TP receiver, both *)
(* run by the shim: the sender as CanLogger_UdsClient_Transact drives      *)
(* TxStart and TxContinue, the receiver as it drives RxFeed and SendFc.    *)
(* The frames of the sender wait in the transmit mailboxes and reach the   *)
(* receiver in order; the bus may lose one or deliver it twice.            *)
(***************************************************************************)
EXTENDS IsoTp

CONSTANTS
  Pdus,        \* the PDUs that may be sent, at least one byte each
  BlockSize,   \* CANLOGGER_UDS_FC_BS
  Mailboxes,   \* transmit mailboxes of the controller
  MaxFaults    \* bound: losses and duplications in one behaviour

ASSUME LinkAssumption ==
  /\ \A pdu \in Pdus : pdu \in Seq(Byte) /\ Len(pdu) \in 1 .. LongestPdu
  /\ BlockSize \in Nat
  /\ Mailboxes \in Nat
  /\ MaxFaults \in Nat

VARIABLES
  pdu,        \* the PDU of this transfer
  sender,     \* "start", "awaitFc", "sending", "sent", "stopped", "failed"
  sent, sn,   \* the cursor of TxContinue
  blocks,     \* frames sent by this call of TxContinue
  wire,       \* frames in the mailboxes: [data, ordinal]; the ordinal (0 for the
              \* first frame of the PDU, n for the n-th consecutive one) is history
  rx,         \* the receiver's context
  result,     \* what RxFeed returned last
  granted,    \* a flow control is on its way to the sender
  delivered,  \* history: ordinal of the last frame fed, -1 before the first
  faults      \* bounded count of bus faults

senderVars == <<pdu, sender, sent, sn, blocks>>
receiverVars == <<rx, result, delivered>>
vars == <<senderVars, wire, receiverVars, granted, faults>>

Init ==
  /\ pdu \in Pdus
  /\ sender = "start"
  /\ sent = 0
  /\ sn = 1
  /\ blocks = 0
  /\ wire = <<>>
  /\ rx = RxInit
  /\ result = "NONE"
  /\ granted = FALSE
  /\ delivered = -1
  /\ faults = 0

-----------------------------------------------------------------------------
(* The sender.                                                             *)

MailboxFree == Len(wire) < Mailboxes

\* Ordinal of the consecutive frame that starts after so many bytes.
Ordinal(bytes) == ((bytes - FfFirstDl) \div CfDl) + 1

SendStart ==
  /\ sender = "start"
  /\ MailboxFree
  /\ wire' = Append(wire, [data |-> StartFrame(pdu), ordinal |-> 0])
  /\ sender' = IF Pending(pdu) = 0 THEN "sent" ELSE "awaitFc"
  /\ sent' = Len(pdu) - Pending(pdu)
  /\ UNCHANGED <<pdu, sn, blocks, receiverVars, granted, faults>>

\* Any flow control lets TxContinue run.
FcReceived ==
  /\ granted
  /\ granted' = FALSE
  /\ IF sender = "awaitFc"
     THEN sender' = "sending" /\ blocks' = 0
     ELSE UNCHANGED <<sender, blocks>>
  /\ UNCHANGED <<pdu, sent, sn, wire, receiverVars, faults>>

\* Where TxContinue's loop stands after one more frame; it is called once per PDU, so an
\* exhausted block ends the transfer.
AfterFrame(bytes, count) ==
  IF bytes >= Len(pdu) THEN "sent"
  ELSE IF BlockSize # 0 /\ count >= BlockSize THEN "stopped" ELSE "sending"

SendConsecutive ==
  /\ sender = "sending"
  /\ MailboxFree
  /\ wire' = Append(wire, [data |-> ConsecutiveFrame(pdu, sent, sn), ordinal |-> Ordinal(sent)])
  /\ sent' = sent + Chunk(pdu, sent)
  /\ sn' = NextSn(sn)
  /\ blocks' = blocks + 1
  /\ sender' = AfterFrame(sent', blocks')
  /\ UNCHANGED <<pdu, receiverVars, granted, faults>>

\* Bsp_CanFd_Transmit finds no free mailbox: the transfer is given up.
SendFails ==
  /\ sender \in {"start", "sending"}
  /\ ~MailboxFree
  /\ sender' = "failed"
  /\ UNCHANGED <<pdu, sent, sn, blocks, wire, receiverVars, granted, faults>>

-----------------------------------------------------------------------------
(* The receiver and the bus.                                               *)

\* A frame is fed to the receiver, which answers a first frame with a flow control.
Feed(frame) ==
  LET outcome == RxFeed(rx, TxDl, frame.data) IN
    /\ rx' = outcome.rx
    /\ result' = outcome.result
    /\ granted' = (granted \/ outcome.result = "SENDFC")
    /\ delivered' = frame.ordinal

\* The receiver's transaction is over once a PDU, an error or an ignored frame is reported.
Receiving == result \notin {"DONE", "ERROR", "IDLE"}

Deliver ==
  /\ Receiving
  /\ wire # <<>>
  /\ Feed(Head(wire))
  /\ wire' = Tail(wire)
  /\ UNCHANGED <<senderVars, faults>>

\* The frame reaches the receiver and is still there to be delivered again.
Duplicate ==
  /\ Receiving
  /\ wire # <<>>
  /\ faults < MaxFaults
  /\ faults' = faults + 1
  /\ Feed(Head(wire))
  /\ UNCHANGED <<senderVars, wire>>

Lose ==
  /\ wire # <<>>
  /\ faults < MaxFaults
  /\ faults' = faults + 1
  /\ wire' = Tail(wire)
  /\ UNCHANGED <<senderVars, receiverVars, granted>>

-----------------------------------------------------------------------------
Next ==
  \/ SendStart
  \/ FcReceived
  \/ SendConsecutive
  \/ SendFails
  \/ Deliver
  \/ Duplicate
  \/ Lose

Spec == Init /\ [][Next]_vars

\* The sender and the receiver take their steps; the bus need not be faulty.
Fairness == WF_vars(SendStart \/ FcReceived \/ SendConsecutive \/ SendFails) /\ WF_vars(Deliver)
FairSpec == Spec /\ Fairness

-----------------------------------------------------------------------------
(* Properties.                                                             *)

Results == {"NONE", "IDLE", "INPROGRESS", "DONE", "SENDFC", "ERROR"}

\* Type invariant: the bytes accumulated never exceed what the first frame announced, which
\* never exceeds the buffer, and the sender's cursor stays inside the PDU.
TypeOK ==
  /\ pdu \in Pdus
  /\ sender \in {"start", "awaitFc", "sending", "sent", "stopped", "failed"}
  /\ sent \in 0 .. Len(pdu)
  /\ sn \in 0 .. SnModulus - 1
  /\ blocks \in Nat
  /\ wire \in Seq([data : Payload, ordinal : Nat]) /\ Len(wire) <= Mailboxes
  /\ rx.buf \in Seq(Byte) /\ Len(rx.buf) <= rx.len /\ (rx.len > 0 => rx.len <= RxBufBytes)
  /\ rx.next_sn \in 0 .. SnModulus - 1 /\ rx.active \in BOOLEAN
  /\ result \in Results
  /\ granted \in BOOLEAN
  /\ delivered \in Int
  /\ faults \in Nat

\* Whatever the bus loses or repeats, also a whole turn of the sequence number: a PDU that
\* RxFeed reports complete is, byte for byte, the PDU that was sent.
Integrity == result = "DONE" => rx.buf = pdu

\* The receiver is never ahead of the bus: it has taken no more consecutive frames than were
\* delivered, and a gap the sequence number hides is a multiple of its period.
Taken == (Len(rx.buf) - FfFirstDl) \div CfDl
NoFrameInvented ==
  rx.active => Taken \in 0 .. delivered /\ (delivered - Taken) % SnModulus = 0

\* A PDU the buffer can hold arrives unless the bus was faulty or a mailbox full, however
\* sender and receiver interleave and however often the sequence number wraps.
Completion == <>(result = "DONE" \/ faults > 0 \/ sender = "failed")
=============================================================================
