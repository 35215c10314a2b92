-------------------------------- MODULE IsoTp --------------------------------
(***************************************************************************)
(* The ISO-TP shim (CanLogger_IsoTp.c) as operators: what frames a PDU is  *)
(* sent as, and what one received frame does to a reassembly context.      *)
(*                                                                         *)
(* A frame's payload is a function from cells to bytes; cell 1 is B0. The  *)
(* context's buf holds the bytes accumulated so far, so the field got of   *)
(* the code is Len(rx.buf).                                                *)
(***************************************************************************)
EXTENDS Integers, Sequences

CONSTANT
  RxBufBytes     \* CANLOGGER_UDS_RX_BUF_BYTES, the cap every context is given

ASSUME IsoTpAssumption == RxBufBytes \in Nat

SfMaxDl == 7     \* ISOTP_SF_MAX_DL
FfFirstDl == 6   \* ISOTP_FF_FIRST_DL
CfDl == 7        \* ISOTP_CF_DL
SnModulus == 16  \* ISOTP_SN_MASK + 1
PadByte == 170   \* ISOTP_PAD_BYTE
TxDl == 8        \* CANLOGGER_UDS_TX_DL
LongestPdu == 4095   \* what the 12 bits of a first frame's length can announce

Byte == 0 .. 255
Payload == [1 .. TxDl -> Byte]

\* CanLogger_IsoTp_Pci_e and CanLogger_IsoTp_Fs_e
SF == 0
FF == 1
CF == 2
FC == 3
CTS == 0
WAIT == 1
OVFLW == 2

-----------------------------------------------------------------------------
(* Transmission.                                                           *)

\* CanLogger_IsoTp_TxRaw: the given bytes, padded to the transmit length.
Padded(bytes) == [i \in 1 .. TxDl |-> IF i <= Len(bytes) THEN bytes[i] ELSE PadByte]

SingleFrame(pdu) == Padded(<<16 * SF + Len(pdu)>> \o pdu)

\* The high nibble of the 12-bit length is lost.
FirstFrame_LowLength(pdu) ==
  Padded(<<16 * FF, Len(pdu) % 256>> \o SubSeq(pdu, 1, FfFirstDl))

FirstFrame(pdu) ==
  Padded(<<16 * FF + ((Len(pdu) \div 256) % 16), Len(pdu) % 256>> \o SubSeq(pdu, 1, FfFirstDl))

\* The frame CanLogger_IsoTp_TxStart sends, and the bytes it leaves for TxContinue.
StartFrame(pdu) == IF Len(pdu) <= SfMaxDl THEN SingleFrame(pdu) ELSE FirstFrame(pdu)
Pending(pdu) == IF Len(pdu) <= SfMaxDl THEN 0 ELSE Len(pdu) - FfFirstDl

\* The bytes of one round of TxContinue's loop.
Chunk(pdu, sent) == IF Len(pdu) - sent < CfDl THEN Len(pdu) - sent ELSE CfDl

ConsecutiveFrame(pdu, sent, sn) ==
  Padded(<<16 * CF + sn>> \o SubSeq(pdu, sent + 1, sent + Chunk(pdu, sent)))

FlowControl(fs, bs, stmin) == Padded(<<16 * FC + fs, bs, stmin>>)

\* The sequence number runs on to 16.
NextSn_NoMask(sn) == sn + 1

NextSn(sn) == (sn + 1) % SnModulus

-----------------------------------------------------------------------------
(* Reception: the context and the result after one frame.                  *)

RxInit == [buf |-> <<>>, len |-> 0, next_sn |-> 1, active |-> FALSE]

Pci(data) == data[1] \div 16
LowNibble(data) == data[1] % 16

Outcome(rx, result) == [rx |-> rx, result |-> result]

FeedSingle(rx, data) ==
  LET len == LowNibble(data) IN
    IF len = 0 \/ len > SfMaxDl \/ len > RxBufBytes
    THEN Outcome(rx, "ERROR")
    ELSE Outcome([rx EXCEPT !.buf = SubSeq(data, 2, len + 1), !.len = len, !.active = FALSE], "DONE")

FeedFirst(rx, data) ==
  LET len == 256 * LowNibble(data) + data[2] IN
    IF len <= SfMaxDl \/ len > RxBufBytes
    THEN Outcome(rx, "ERROR")
    ELSE Outcome([buf |-> SubSeq(data, 3, FfFirstDl + 2), len |-> len, next_sn |-> 1, active |-> TRUE],
                 "SENDFC")

\* The bytes of a consecutive frame that the announced length still wants.
Wanted(rx) == IF rx.len - Len(rx.buf) < CfDl THEN rx.len - Len(rx.buf) ELSE CfDl

\* A consecutive frame is taken whatever its sequence number.
AcceptsConsecutive_AnySn(rx, data) == rx.active

AcceptsConsecutive(rx, data) == rx.active /\ LowNibble(data) = rx.next_sn

FeedConsecutive(rx, data) ==
  LET buf == rx.buf \o SubSeq(data, 2, Wanted(rx) + 1)
      complete == Len(buf) >= rx.len
  IN  IF ~rx.active
      THEN Outcome(rx, "IDLE")
      ELSE IF ~AcceptsConsecutive(rx, data)
           THEN Outcome([rx EXCEPT !.active = FALSE], "ERROR")
           ELSE Outcome([rx EXCEPT !.buf = buf, !.next_sn = NextSn(rx.next_sn), !.active = ~complete],
                        IF complete THEN "DONE" ELSE "INPROGRESS")

\* CanLogger_IsoTp_RxFeed for a frame of dlen bytes
RxFeed(rx, dlen, data) ==
  IF dlen = 0 THEN Outcome(rx, "IDLE")
  ELSE CASE Pci(data) = SF -> FeedSingle(rx, data)
         [] Pci(data) = FF -> FeedFirst(rx, data)
         [] Pci(data) = CF -> FeedConsecutive(rx, data)
         [] OTHER -> Outcome(rx, "IDLE")
=============================================================================
