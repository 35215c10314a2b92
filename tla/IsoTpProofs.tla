---------------------------- MODULE IsoTpProofs ----------------------------
(***************************************************************************)
(* Lemmas about the ISO-TP shim's operators, for the proofs about the UDS  *)
(* client and about a transfer between two shims: what frames are made of, *)
(* and what one frame does to a reassembly context, for every buffer size. *)
(***************************************************************************)
EXTENDS IsoTp, SequenceTheorems, TLAPS

-----------------------------------------------------------------------------
(* Frames.                                                                 *)

\* Whatever bytes it is given, TxRaw sends a full payload.
LEMMA PaddedType ==
  ASSUME NEW bytes \in Seq(Byte)
  PROVE  Padded(bytes) \in Payload
<1>1. PadByte \in Byte
  BY DEF PadByte, Byte
<1>2. ASSUME NEW i \in 1 .. TxDl, i <= Len(bytes)
      PROVE  bytes[i] \in Byte
  <2>1. i \in 1 .. Len(bytes)
    BY <1>2, LenProperties DEF TxDl
  <2> QED
    BY <2>1, ElementOfSeq
<1> QED
  BY <1>1, <1>2 DEF Padded, Payload

\* A part of a sequence of bytes that stays inside it.
LEMMA SubSeqBytes ==
  ASSUME NEW s \in Seq(Byte), NEW m \in Nat \ {0}, NEW n \in Int, n <= Len(s)
  PROVE  /\ SubSeq(s, m, n) \in Seq(Byte)
         /\ Len(SubSeq(s, m, n)) = IF m <= n THEN n - m + 1 ELSE 0
         /\ \A i \in 1 .. n - m + 1 : SubSeq(s, m, n)[i] = s[m + i - 1]
<1>1. \A i \in m .. n : i \in 1 .. Len(s)
  BY LenProperties
<1>2. \A i \in m .. n : s[i] \in Byte
  BY <1>1, ElementOfSeq
<1> QED
  BY <1>2, SubSeqProperties

\* An interval tells its length.
LEMMA IntervalLength ==
  ASSUME NEW m \in Nat, NEW n \in Nat, 1 .. m = 1 .. n
  PROVE  m = n
<1>1. (m # 0 => m \in 1 .. m) /\ (n # 0 => n \in 1 .. n)
  OBVIOUS
<1>2. (m # 0 => m \in 1 .. n) /\ (n # 0 => n \in 1 .. m)
  BY <1>1
<1> QED
  BY <1>2

\* A payload is a sequence of bytes.
LEMMA PayloadIsSeq ==
  ASSUME NEW data \in Payload
  PROVE  data \in Seq(Byte) /\ Len(data) = TxDl
<1>1. TxDl \in Nat /\ data \in [1 .. TxDl -> Byte]
  BY DEF Payload, TxDl
<1>2. data \in Seq(Byte)
  BY <1>1, SeqDef
<1>3. Len(data) \in Nat /\ 1 .. Len(data) = 1 .. TxDl
  BY <1>1, <1>2, LenProperties
<1> QED
  BY <1>1, <1>2, <1>3, IntervalLength

\* Sequences of one, two and three bytes.
LEMMA FewBytes ==
  ASSUME NEW a \in Byte, NEW b \in Byte, NEW c \in Byte
  PROVE  <<a>> \in Seq(Byte) /\ <<a, b>> \in Seq(Byte) /\ <<a, b, c>> \in Seq(Byte)
  OBVIOUS

\* The bytes that announce a PDU's length.
LEMMA LengthBytes ==
  ASSUME NEW n \in Nat
  PROVE  /\ n <= SfMaxDl => 16 * SF + n \in Byte
         /\ 16 * FF + ((n \div 256) % 16) \in Byte
         /\ (n \div 256) % 256 \in Byte
         /\ n % 256 \in Byte
  BY DEF SfMaxDl, SF, FF, Byte

\* The first frame of a PDU is a payload.
LEMMA StartFrameType ==
  ASSUME NEW pdu \in Seq(Byte)
  PROVE  StartFrame(pdu) \in Payload
<1>0. Len(pdu) \in Nat
  OBVIOUS
<1>1. CASE Len(pdu) <= SfMaxDl
  <2>1. 16 * SF + Len(pdu) \in Byte
    BY <1>0, <1>1, LengthBytes
  <2>2. <<16 * SF + Len(pdu)>> \o pdu \in Seq(Byte)
    BY <2>1, FewBytes, ConcatProperties
  <2> QED
    BY <1>1, <2>2, PaddedType DEF StartFrame, SingleFrame
<1>2. CASE ~ (Len(pdu) <= SfMaxDl)
  <2>1. 16 * FF + ((Len(pdu) \div 256) % 16) \in Byte /\ Len(pdu) % 256 \in Byte
    BY <1>0, LengthBytes
  <2>2. SubSeq(pdu, 1, FfFirstDl) \in Seq(Byte)
    BY <1>2, SubSeqBytes DEF SfMaxDl, FfFirstDl
  <2>3. <<16 * FF + ((Len(pdu) \div 256) % 16), Len(pdu) % 256>> \in Seq(Byte)
    BY <2>1, FewBytes
  <2>4. FirstFrame(pdu) \in Payload
    BY <2>2, <2>3, ConcatProperties, PaddedType, ZenonT(40) DEF FirstFrame
  <2> QED
    BY <1>2, <2>4 DEF StartFrame
<1> QED
  BY <1>1, <1>2

\* A consecutive frame is a payload, wherever the cursor stands.
LEMMA ConsecutiveFrameType ==
  ASSUME NEW pdu \in Seq(Byte), NEW sent \in Nat, NEW sn \in 0 .. SnModulus - 1
  PROVE  ConsecutiveFrame(pdu, sent, sn) \in Payload
<1>1. 16 * CF + sn \in Byte
  BY DEF CF, SnModulus, Byte
<1>2. sent + Chunk(pdu, sent) \in Int /\ sent + Chunk(pdu, sent) <= Len(pdu)
  BY DEF Chunk, CfDl
<1>3. SubSeq(pdu, sent + 1, sent + Chunk(pdu, sent)) \in Seq(Byte)
  BY <1>2, SubSeqBytes
<1> QED
  BY <1>1, <1>3, FewBytes, ConcatProperties, PaddedType DEF ConsecutiveFrame

\* A flow control is a payload.
LEMMA FlowControlType ==
  ASSUME NEW fs \in {CTS, WAIT, OVFLW}, NEW bs \in Byte, NEW stmin \in Byte
  PROVE  FlowControl(fs, bs, stmin) \in Payload
<1>1. 16 * FC + fs \in Byte
  BY DEF FC, CTS, WAIT, OVFLW, Byte
<1> QED
  BY <1>1, FewBytes, PaddedType DEF FlowControl

-----------------------------------------------------------------------------
(* The reassembly context.                                                 *)

\* A context holds no more than it was promised, what it was promised fits the buffer, and
\* one that is active still lacks bytes.
Context == [buf : Seq(Byte), len : Nat, next_sn : 0 .. SnModulus - 1, active : BOOLEAN]

ContextOK(rx) ==
  /\ rx \in Context
  /\ Len(rx.buf) <= rx.len
  /\ rx.len <= RxBufBytes
  /\ rx.active => Len(rx.buf) < rx.len

\* The reset context.
LEMMA RxInitOK == ContextOK(RxInit)
  BY IsoTpAssumption DEF ContextOK, Context, RxInit, SnModulus

\* The two halves of the PCI byte.
LEMMA Nibbles ==
  ASSUME NEW data \in Payload
  PROVE  Pci(data) \in 0 .. 15 /\ LowNibble(data) \in 0 .. 15
<1>1. data[1] \in 0 .. 255
  BY DEF Payload, TxDl, Byte
<1> QED
  BY <1>1 DEF Pci, LowNibble

\* The contexts the three kinds of frames leave behind.
LEMMA FilledContextOK ==
  ASSUME NEW rx \in Context, NEW buf \in Seq(Byte), NEW len \in Nat,
         Len(buf) = len, len <= RxBufBytes
  PROVE  ContextOK([rx EXCEPT !.buf = buf, !.len = len, !.active = FALSE])
<1> DEFINE next == [rx EXCEPT !.buf = buf, !.len = len, !.active = FALSE]
<1>1. next \in Context /\ next.buf = buf /\ next.len = len /\ next.active = FALSE
  BY DEF Context
<1> HIDE DEF next
<1>2. Len(next.buf) = next.len
  BY <1>1
<1> QED
  BY <1>1, <1>2 DEF ContextOK, next

\* A first frame starts a context that lacks bytes.
LEMMA StartedContextOK ==
  ASSUME NEW buf \in Seq(Byte), NEW len \in Nat, Len(buf) < len, len <= RxBufBytes
  PROVE  ContextOK([buf |-> buf, len |-> len, next_sn |-> 1, active |-> TRUE])
<1> DEFINE next == [buf |-> buf, len |-> len, next_sn |-> 1, active |-> TRUE]
<1>1. next \in Context /\ next.buf = buf /\ next.len = len /\ next.active = TRUE
  BY DEF Context, SnModulus
<1> HIDE DEF next
<1>2. Len(next.buf) < next.len /\ Len(next.buf) \in Nat
  BY <1>1
<1> QED
  BY <1>1, <1>2 DEF ContextOK, next

\* A consecutive frame extends one, and ends it with the last byte.
LEMMA ExtendedContextOK ==
  ASSUME NEW rx, ContextOK(rx), NEW buf \in Seq(Byte), NEW sn \in 0 .. SnModulus - 1,
         Len(buf) <= rx.len
  PROVE  ContextOK([rx EXCEPT !.buf = buf, !.next_sn = sn, !.active = ~ (Len(buf) >= rx.len)])
<1> DEFINE next == [rx EXCEPT !.buf = buf, !.next_sn = sn, !.active = ~ (Len(buf) >= rx.len)]
<1>0. rx \in Context /\ rx.len \in Nat /\ Len(buf) \in Nat /\ rx.len <= RxBufBytes
  BY DEF ContextOK, Context
<1>1. /\ next \in Context
      /\ next.buf = buf
      /\ next.len = rx.len
      /\ next.active = ~ (Len(buf) >= rx.len)
  BY <1>0 DEF Context
<1> HIDE DEF next
<1>2. Len(next.buf) = Len(buf) /\ (next.active => ~ (Len(buf) >= rx.len))
  BY <1>1
<1>3. Len(next.buf) <= next.len /\ next.len <= RxBufBytes /\ (next.active => Len(next.buf) < next.len)
  BY <1>0, <1>1, <1>2
<1> QED
  BY <1>1, <1>3 DEF ContextOK, next

\* A single frame completes a PDU or is refused.
LEMMA FeedSingleOK ==
  ASSUME NEW rx, ContextOK(rx), NEW data \in Payload
  PROVE  /\ ContextOK(FeedSingle(rx, data).rx)
         /\ FeedSingle(rx, data).result \in {"ERROR", "DONE"}
<1> DEFINE len == LowNibble(data)
<1>0. rx \in Context
  BY DEF ContextOK
<1>1. len \in 0 .. 15
  BY Nibbles
<1>2. CASE len = 0 \/ len > SfMaxDl \/ len > RxBufBytes
  BY <1>2 DEF FeedSingle, Outcome
<1>3. CASE ~ (len = 0 \/ len > SfMaxDl \/ len > RxBufBytes)
  <2> DEFINE buf == SubSeq(data, 2, len + 1)
             next == [rx EXCEPT !.buf = buf, !.len = len, !.active = FALSE]
  <2>1. len \in 1 .. 7 /\ len <= RxBufBytes
    BY <1>1, <1>3, IsoTpAssumption DEF SfMaxDl
  <2>2. buf \in Seq(Byte) /\ Len(buf) = len
    BY <2>1, PayloadIsSeq, SubSeqBytes DEF TxDl
  <2>3. FeedSingle(rx, data) = [rx |-> next, result |-> "DONE"]
    BY <1>3 DEF FeedSingle, Outcome
  <2> HIDE DEF buf, len
  <2>4. ContextOK(next)
    <3>1. len \in Nat /\ len <= RxBufBytes /\ buf \in Seq(Byte) /\ Len(buf) = len
      BY <2>1, <2>2
    <3> QED
      BY <1>0, <3>1, FilledContextOK
  <2> QED
    BY <2>3, <2>4
<1> QED
  BY <1>2, <1>3

\* A first frame starts a PDU or is refused.
LEMMA FeedFirstOK ==
  ASSUME NEW rx, ContextOK(rx), NEW data \in Payload
  PROVE  /\ ContextOK(FeedFirst(rx, data).rx)
         /\ FeedFirst(rx, data).result \in {"ERROR", "SENDFC"}
<1> DEFINE len == 256 * LowNibble(data) + data[2]
<1>1. len \in Nat
  <2>1. PICK nibble \in 0 .. 15 : nibble = LowNibble(data)
    BY Nibbles
  <2>2. PICK byte \in 0 .. 255 : byte = data[2]
    BY DEF Payload, TxDl, Byte
  <2>3. 256 * nibble + byte \in Nat
    OBVIOUS
  <2> QED
    BY <2>1, <2>2, <2>3
<1>2. CASE len <= SfMaxDl \/ len > RxBufBytes
  BY <1>2 DEF FeedFirst, Outcome
<1>3. CASE ~ (len <= SfMaxDl \/ len > RxBufBytes)
  <2> DEFINE buf == SubSeq(data, 3, FfFirstDl + 2)
             next == [buf |-> buf, len |-> len, next_sn |-> 1, active |-> TRUE]
  <2>1. len > 7 /\ len <= RxBufBytes
    BY <1>1, <1>3, IsoTpAssumption DEF SfMaxDl
  <2>2. buf \in Seq(Byte) /\ Len(buf) = 6
    BY PayloadIsSeq, SubSeqBytes DEF TxDl, FfFirstDl
  <2>3. FeedFirst(rx, data) = [rx |-> next, result |-> "SENDFC"]
    BY <1>3 DEF FeedFirst, Outcome
  <2> HIDE DEF buf, len
  <2>4. ContextOK(next)
    <3>1. len \in Nat /\ len <= RxBufBytes /\ buf \in Seq(Byte) /\ Len(buf) < len
      BY <1>1, <2>1, <2>2
    <3> QED
      BY <3>1, StartedContextOK
  <2> QED
    BY <2>3, <2>4
<1> QED
  BY <1>2, <1>3

\* The bytes a consecutive frame adds, never more than are wanted.
LEMMA WantedBytes ==
  ASSUME NEW rx, ContextOK(rx), rx.active, NEW data \in Payload
  PROVE  /\ Wanted(rx) \in 1 .. CfDl
         /\ Len(rx.buf) + Wanted(rx) <= rx.len
         /\ SubSeq(data, 2, Wanted(rx) + 1) \in Seq(Byte)
         /\ Len(SubSeq(data, 2, Wanted(rx) + 1)) = Wanted(rx)
<1>1. rx.buf \in Seq(Byte) /\ rx.len \in Nat /\ Len(rx.buf) < rx.len
  BY DEF ContextOK, Context
<1>2. Wanted(rx) \in 1 .. CfDl /\ Len(rx.buf) + Wanted(rx) <= rx.len
  BY <1>1 DEF Wanted, CfDl
<1>3. /\ SubSeq(data, 2, Wanted(rx) + 1) \in Seq(Byte)
      /\ Len(SubSeq(data, 2, Wanted(rx) + 1)) = Wanted(rx)
  BY <1>2, PayloadIsSeq, SubSeqBytes DEF CfDl, TxDl
<1> QED
  BY <1>2, <1>3

\* A consecutive frame extends or completes a PDU, is refused or ignored.
LEMMA FeedConsecutiveOK ==
  ASSUME NEW rx, ContextOK(rx), NEW data \in Payload
  PROVE  /\ ContextOK(FeedConsecutive(rx, data).rx)
         /\ FeedConsecutive(rx, data).result \in {"IDLE", "ERROR", "DONE", "INPROGRESS"}
<1>0. rx \in Context
  BY DEF ContextOK
<1>1. CASE ~ rx.active
  BY <1>1 DEF FeedConsecutive, Outcome
<1>2. CASE rx.active /\ ~ AcceptsConsecutive(rx, data)
  <2>1. FeedConsecutive(rx, data) = [rx |-> [rx EXCEPT !.active = FALSE], result |-> "ERROR"]
    BY <1>2 DEF FeedConsecutive, Outcome
  <2>2. ContextOK([rx EXCEPT !.active = FALSE])
    BY <1>0 DEF ContextOK, Context
  <2> QED
    BY <2>1, <2>2
<1>3. CASE rx.active /\ AcceptsConsecutive(rx, data)
  <2> DEFINE buf == rx.buf \o SubSeq(data, 2, Wanted(rx) + 1)
             complete == Len(buf) >= rx.len
             next == [rx EXCEPT !.buf = buf, !.next_sn = NextSn(rx.next_sn), !.active = ~complete]
  <2>1. buf \in Seq(Byte) /\ Len(buf) <= rx.len
    BY <1>0, <1>3, WantedBytes, ConcatProperties DEF Context, CfDl
  <2>2. NextSn(rx.next_sn) \in 0 .. SnModulus - 1
    BY <1>0 DEF Context, NextSn, SnModulus
  <2>3. /\ FeedConsecutive(rx, data).rx = next
        /\ FeedConsecutive(rx, data).result \in {"DONE", "INPROGRESS"}
    BY <1>3 DEF FeedConsecutive, Outcome
  <2> HIDE DEF buf
  <2>4. ContextOK(next)
    BY <2>1, <2>2, ExtendedContextOK
  <2> QED
    BY <2>3, <2>4
<1> QED
  BY <1>1, <1>2, <1>3

FeedResults == {"IDLE", "INPROGRESS", "DONE", "SENDFC", "ERROR"}

\* One frame, whatever is in it, leaves the context within its bounds.
LEMMA RxFeedOK ==
  ASSUME NEW rx, ContextOK(rx), NEW dlen, NEW data \in Payload
  PROVE  ContextOK(RxFeed(rx, dlen, data).rx) /\ RxFeed(rx, dlen, data).result \in FeedResults
<1>1. CASE dlen = 0
  BY <1>1 DEF RxFeed, Outcome, FeedResults
<1>2. CASE dlen # 0 /\ Pci(data) = SF
  <2>1. RxFeed(rx, dlen, data) = FeedSingle(rx, data)
    BY <1>2 DEF RxFeed, SF, FF, CF
  <2> QED
    BY <2>1, FeedSingleOK DEF FeedResults
<1>3. CASE dlen # 0 /\ Pci(data) = FF
  <2>1. RxFeed(rx, dlen, data) = FeedFirst(rx, data)
    BY <1>3 DEF RxFeed, SF, FF, CF
  <2> QED
    BY <2>1, FeedFirstOK DEF FeedResults
<1>4. CASE dlen # 0 /\ Pci(data) = CF
  <2>1. RxFeed(rx, dlen, data) = FeedConsecutive(rx, data)
    BY <1>4 DEF RxFeed, SF, FF, CF
  <2> QED
    BY <2>1, FeedConsecutiveOK DEF FeedResults
<1>5. CASE dlen # 0 /\ Pci(data) \notin {SF, FF, CF}
  <2>1. RxFeed(rx, dlen, data) = Outcome(rx, "IDLE")
    BY <1>5 DEF RxFeed, SF, FF, CF
  <2> QED
    BY <2>1 DEF Outcome, FeedResults
<1> QED
  BY <1>1, <1>2, <1>3, <1>4, <1>5

-----------------------------------------------------------------------------
(* What a receiver finds in the frames of a PDU.                           *)

\* A part of k bytes.
LEMMA PartBytes ==
  ASSUME NEW s \in Seq(Byte), NEW m \in Nat \ {0}, NEW k \in Nat, NEW n \in Nat,
         n = m + k - 1, n <= Len(s)
  PROVE  SubSeq(s, m, n) \in Seq(Byte) /\ Len(SubSeq(s, m, n)) = k
<1>1. n \in Int /\ (IF m <= n THEN n - m + 1 ELSE 0) = k
  OBVIOUS
<1> QED
  BY <1>1, SubSeqBytes

\* What the PCI byte and the length bytes encode.
LEMMA PciCoding ==
  ASSUME NEW kind \in {SF, CF}, NEW x \in 0 .. 15
  PROVE  16 * kind + x \in Byte /\ (16 * kind + x) \div 16 = kind /\ (16 * kind + x) % 16 = x
  BY DEF SF, CF, Byte

\* The two bytes of a first frame that announce the length, and how they are read.
LEMMA LengthCoding ==
  ASSUME NEW n \in Nat, n <= 4095
  PROVE  /\ 16 * FF + ((n \div 256) % 16) \in Byte
         /\ n % 256 \in Byte
         /\ (16 * FF + ((n \div 256) % 16)) \div 16 = FF
         /\ 256 * ((16 * FF + ((n \div 256) % 16)) % 16) + (n % 256) = n
<1>1. n \div 256 \in 0 .. 15 /\ n % 256 \in 0 .. 255 /\ n = 256 * (n \div 256) + (n % 256)
  OBVIOUS
<1>2. (n \div 256) % 16 = n \div 256
  BY <1>1
<1>3. \A x \in 0 .. 15 : 16 * FF + x \in Byte /\ (16 * FF + x) \div 16 = FF /\ (16 * FF + x) % 16 = x
  BY DEF FF, Byte
<1> QED
  BY <1>1, <1>2, <1>3 DEF Byte

\* Padding keeps the bytes it is given.
LEMMA PaddedCell ==
  ASSUME NEW bytes \in Seq(Byte), NEW i \in Nat, 1 <= i, i <= TxDl, i <= Len(bytes)
  PROVE  Padded(bytes)[i] = bytes[i]
<1>1. i \in 1 .. TxDl
  BY DEF TxDl
<1> QED
  BY <1>1 DEF Padded

\* The header and the body of a padded frame.
LEMMA PaddedParts ==
  ASSUME NEW head \in Seq(Byte), NEW body \in Seq(Byte),
         NEW h \in Nat, NEW w \in Nat, NEW first \in Nat, NEW last \in Nat,
         h = Len(head), first = h + 1, last = h + w, w <= Len(body), last <= TxDl
  PROVE  /\ Padded(head \o body) \in Payload
         /\ \A i \in 1 .. h : Padded(head \o body)[i] = head[i]
         /\ SubSeq(Padded(head \o body), first, last) = SubSeq(body, 1, w)
<1>0. PICK b \in Nat : b = Len(body)
  BY LenProperties
<1> DEFINE bytes == head \o body
           data == Padded(bytes)
<1>1. /\ bytes \in Seq(Byte) /\ Len(bytes) = h + b
      /\ \A i \in 1 .. h + b : bytes[i] = IF i <= h THEN head[i] ELSE body[i - h]
  BY <1>0, ConcatProperties
<1> HIDE DEF bytes
<1>2. data \in Payload /\ data \in Seq(Byte) /\ Len(data) = TxDl
  BY <1>1, PaddedType, PayloadIsSeq
<1>3. ASSUME NEW i \in Nat, 1 <= i, i <= h + w
      PROVE  data[i] = IF i <= h THEN head[i] ELSE body[i - h]
  <2>1. i <= TxDl /\ i <= h + b /\ i \in 1 .. h + b
    BY <1>0, <1>3 DEF TxDl
  <2>2. data[i] = bytes[i]
    BY <1>1, <1>3, <2>1, PaddedCell
  <2> QED
    BY <1>1, <2>1, <2>2
<1> HIDE DEF data
<1>4. ASSUME NEW i \in 1 .. h
      PROVE  data[i] = head[i]
  <2>1. i \in Nat /\ 1 <= i /\ i <= h + w /\ i <= h
    BY <1>0
  <2> QED
    BY <1>3, <2>1
<1>5. SubSeq(data, first, last) = SubSeq(body, 1, w)
  <2> DEFINE s == SubSeq(data, h + 1, h + w)
             t == SubSeq(body, 1, w)
  <2>0. first = h + 1 /\ last = h + w
    BY <1>0
  <2>1. h + w <= Len(data) /\ h + 1 \in Nat \ {0} /\ h + w \in Int /\ 1 \in Nat \ {0} /\ w <= Len(body)
    BY <1>0, <1>2
  <2>2. /\ s \in Seq(Byte)
        /\ Len(s) = IF h + 1 <= h + w THEN h + w - (h + 1) + 1 ELSE 0
        /\ \A i \in 1 .. h + w - (h + 1) + 1 : s[i] = data[h + 1 + i - 1]
    BY <1>2, <2>1, SubSeqBytes
  <2>3. /\ t \in Seq(Byte)
        /\ Len(t) = IF 1 <= w THEN w - 1 + 1 ELSE 0
        /\ \A i \in 1 .. w - 1 + 1 : t[i] = body[1 + i - 1]
    BY <2>1, SubSeqBytes
  <2>4. /\ (IF h + 1 <= h + w THEN h + w - (h + 1) + 1 ELSE 0) = w
        /\ (IF 1 <= w THEN w - 1 + 1 ELSE 0) = w
        /\ 1 .. h + w - (h + 1) + 1 = 1 .. w
        /\ 1 .. w - 1 + 1 = 1 .. w
    OBVIOUS
  <2> HIDE DEF s, t
  <2>5. Len(s) = w /\ Len(t) = w
    BY <2>2, <2>3, <2>4
  <2>6. ASSUME NEW i \in 1 .. w
        PROVE  s[i] = t[i]
    <3>1. h + i \in Nat /\ 1 <= h + i /\ h + i <= h + w /\ ~ (h + i <= h)
          /\ h + i - h = i /\ h + 1 + i - 1 = h + i /\ 1 + i - 1 = i
      OBVIOUS
    <3>2. s[i] = data[h + i] /\ t[i] = body[i]
      BY <2>2, <2>3, <2>4, <3>1
    <3>3. data[h + i] = body[i]
      BY <1>3, <3>1
    <3> QED
      BY <3>2, <3>3
  <2> QED
    BY <2>0, <2>2, <2>3, <2>5, <2>6, SeqEqual DEF s, t
<1> QED
  BY <1>0, <1>2, <1>4, <1>5 DEF data, bytes

\* The same, with the places of the body's bytes written out.
LEMMA PaddedPartsAt ==
  ASSUME NEW head \in Seq(Byte), NEW body \in Seq(Byte), NEW h \in Nat, NEW w \in Nat,
         Len(head) = h, w <= Len(body), h + w <= TxDl
  PROVE  /\ \A i \in 1 .. h : Padded(head \o body)[i] = head[i]
         /\ SubSeq(Padded(head \o body), h + 1, h + w) = SubSeq(body, 1, w)
<1>1. h + 1 \in Nat /\ h + w \in Nat
  OBVIOUS
<1> DEFINE first == h + 1
           last == h + w
<1>2. first \in Nat /\ last \in Nat /\ first = h + 1 /\ last = h + w /\ last <= TxDl
  BY <1>1
<1> HIDE DEF first, last
<1>3. /\ \A i \in 1 .. h : Padded(head \o body)[i] = head[i]
      /\ SubSeq(Padded(head \o body), first, last) = SubSeq(body, 1, w)
  BY <1>2, PaddedParts
<1> QED
  BY <1>3 DEF first, last

\* A header of one byte.
LEMMA OneByteHeader ==
  ASSUME NEW head \in Seq(Byte), NEW body \in Seq(Byte), NEW w \in Nat,
         Len(head) = 1, w <= Len(body), w < TxDl
  PROVE  /\ Padded(head \o body)[1] = head[1]
         /\ SubSeq(Padded(head \o body), 2, w + 1) = SubSeq(body, 1, w)
<1> DEFINE h == 1
<1>1. h \in Nat /\ Len(head) = h /\ h + w <= TxDl
  BY DEF TxDl
<1>2. h \in 1 .. h /\ h + 1 = 2 /\ h + w = w + 1
  OBVIOUS
<1> HIDE DEF h
<1>3. /\ \A i \in 1 .. h : Padded(head \o body)[i] = head[i]
      /\ SubSeq(Padded(head \o body), h + 1, h + w) = SubSeq(body, 1, w)
  BY <1>1, PaddedPartsAt
<1> QED
  BY <1>2, <1>3 DEF h

\* A PDU that fits a single frame is found there, whole.
LEMMA SingleFrameParts ==
  ASSUME NEW pdu \in Seq(Byte), NEW n \in Nat, n = Len(pdu), 1 <= n, n <= SfMaxDl
  PROVE  /\ Pci(StartFrame(pdu)) = SF
         /\ LowNibble(StartFrame(pdu)) = n
         /\ SubSeq(StartFrame(pdu), 2, n + 1) = pdu
<1> DEFINE pci == 16 * SF + n
           head == <<pci>>
           data == StartFrame(pdu)
<1>1. pci \in Byte /\ pci \div 16 = SF /\ pci % 16 = n
  BY PciCoding DEF SfMaxDl
<1>2. head \in Seq(Byte) /\ Len(head) = 1 /\ head[1] = pci
  BY <1>1, FewBytes
<1>3. data = Padded(head \o pdu)
  BY DEF StartFrame, SingleFrame
<1> HIDE DEF pci, head, data
<1>4. data[1] = pci /\ SubSeq(data, 2, n + 1) = SubSeq(pdu, 1, n)
  <2>1. n <= Len(pdu) /\ n < TxDl
    BY DEF TxDl, SfMaxDl
  <2> QED
    BY <1>2, <1>3, <2>1, OneByteHeader, Zenon
<1>5. SubSeq(pdu, 1, n) = pdu
  BY SubSeqFull
<1> QED
  BY <1>1, <1>4, <1>5 DEF Pci, LowNibble, data

\* The length a first frame announces.
Announced(data) == 256 * LowNibble(data) + data[2]

\* The first frame of a longer PDU announces its length and carries its first six bytes.
LEMMA FirstFrameParts ==
  ASSUME NEW pdu \in Seq(Byte), NEW n \in Nat, n = Len(pdu), SfMaxDl < n, n <= LongestPdu
  PROVE  /\ Pci(StartFrame(pdu)) = FF
         /\ Announced(StartFrame(pdu)) = n
         /\ SubSeq(StartFrame(pdu), 3, FfFirstDl + 2) = SubSeq(pdu, 1, FfFirstDl)
<1> DEFINE high == 16 * FF + ((n \div 256) % 16)
           low == n % 256
           head == <<high, low>>
           body == SubSeq(pdu, 1, FfFirstDl)
           data == StartFrame(pdu)
<1>1. /\ high \in Byte /\ low \in Byte
      /\ high \div 16 = FF /\ 256 * (high % 16) + low = n
  BY LengthCoding, SMTT(30) DEF LongestPdu
<1>2. head \in Seq(Byte) /\ Len(head) = 2 /\ head[1] = high /\ head[2] = low
  BY <1>1, FewBytes
<1>3. body \in Seq(Byte) /\ Len(body) = 6
  <2>1. 6 <= Len(pdu) /\ 1 \in Nat \ {0} /\ 6 \in Nat /\ 6 = 1 + 6 - 1
    BY DEF SfMaxDl
  <2> QED
    BY <2>1, PartBytes DEF FfFirstDl
<1>4. data = Padded(head \o body)
  BY DEF StartFrame, FirstFrame, SfMaxDl
<1> HIDE DEF high, low, head, body, data
<1>5. data[1] = high /\ data[2] = low /\ SubSeq(data, 3, 8) = SubSeq(body, 1, 6)
  <2>1. 2 \in Nat /\ 6 \in Nat /\ 6 <= Len(body) /\ 2 + 6 <= TxDl
    BY <1>3 DEF TxDl
  <2>2. /\ \A i \in 1 .. 2 : Padded(head \o body)[i] = head[i]
        /\ SubSeq(Padded(head \o body), 2 + 1, 2 + 6) = SubSeq(body, 1, 6)
    BY <1>2, <1>3, <2>1, PaddedPartsAt, ZenonT(40)
  <2> QED
    BY <1>2, <1>4, <2>1, <2>2
<1>6. SubSeq(body, 1, 6) = body
  BY <1>3, SubSeqFull
<1>7. SubSeq(data, 3, FfFirstDl + 2) = body
  <2>1. FfFirstDl + 2 = 8
    BY DEF FfFirstDl
  <2> QED
    BY <1>5, <1>6, <2>1
<1>8. Pci(data) = FF /\ Announced(data) = n
  BY <1>1, <1>5 DEF Pci, LowNibble, Announced
<1>9. SubSeq(StartFrame(pdu), 3, FfFirstDl + 2) = SubSeq(pdu, 1, FfFirstDl)
  BY <1>7 DEF data, body
<1>10. Pci(StartFrame(pdu)) = FF
  BY <1>8 DEF data
<1>11. Announced(StartFrame(pdu)) = n
  BY <1>8 DEF data
<1> QED
  BY <1>9, <1>10, <1>11, Zenon

\* A consecutive frame carries its sequence number ...
LEMMA ConsecutiveFrameHeader ==
  ASSUME NEW pdu \in Seq(Byte), NEW sent \in Nat, NEW sn \in 0 .. SnModulus - 1, sent < Len(pdu)
  PROVE  /\ Pci(ConsecutiveFrame(pdu, sent, sn)) = CF
         /\ LowNibble(ConsecutiveFrame(pdu, sent, sn)) = sn
<1> DEFINE pci == 16 * CF + sn
           head == <<pci>>
           chunk == Chunk(pdu, sent)
           body == SubSeq(pdu, sent + 1, sent + chunk)
           data == ConsecutiveFrame(pdu, sent, sn)
<1>1. pci \in Byte /\ pci \div 16 = CF /\ pci % 16 = sn
  BY PciCoding, SMTT(30) DEF SnModulus
<1>2. head \in Seq(Byte) /\ Len(head) = 1 /\ head[1] = pci
  BY <1>1, FewBytes
<1>3. chunk \in Nat /\ sent + chunk <= Len(pdu)
  BY DEF Chunk, CfDl
<1>4. data = Padded(head \o body)
  BY DEF ConsecutiveFrame
<1> HIDE DEF pci, head, chunk, data
<1>5. body \in Seq(Byte)
  BY <1>3, SubSeqBytes
<1> HIDE DEF body
<1>6. 0 \in Nat /\ 0 <= Len(body) /\ 0 < TxDl
  BY <1>5, LenProperties DEF TxDl
<1>7. data[1] = pci
  BY <1>2, <1>4, <1>5, <1>6, OneByteHeader
<1> QED
  BY <1>1, <1>7 DEF Pci, LowNibble, data

\* ... and the bytes after the cursor.
LEMMA ConsecutiveFrameParts ==
  ASSUME NEW pdu \in Seq(Byte), NEW sent \in Nat,
         NEW sn \in 0 .. SnModulus - 1, NEW w \in Nat, 1 <= w, w <= CfDl, sent + w <= Len(pdu)
  PROVE  SubSeq(ConsecutiveFrame(pdu, sent, sn), 2, w + 1) = SubSeq(pdu, sent + 1, sent + w)
<1> DEFINE pci == 16 * CF + sn
           head == <<pci>>
           chunk == Chunk(pdu, sent)
           body == SubSeq(pdu, sent + 1, sent + chunk)
           data == ConsecutiveFrame(pdu, sent, sn)
<1>1. pci \in Byte
  BY PciCoding, SMTT(30) DEF SnModulus
<1>2. head \in Seq(Byte) /\ Len(head) = 1 /\ head[1] = pci
  BY <1>1, FewBytes
<1>3. chunk \in Nat /\ w <= chunk /\ sent + chunk <= Len(pdu) /\ chunk <= 7
  BY DEF Chunk, CfDl
<1>4. data = Padded(head \o body)
  BY DEF ConsecutiveFrame
<1> HIDE DEF pci, head, chunk, data
<1>5. body \in Seq(Byte) /\ Len(body) = chunk
  <2>1. sent + chunk <= Len(pdu) /\ sent + 1 \in Nat \ {0} /\ sent + chunk \in Nat
        /\ sent + chunk = sent + 1 + chunk - 1
    BY <1>3
  <2> QED
    BY <1>3, <2>1, PartBytes
<1>6. SubSeq(body, 1, w) = SubSeq(pdu, sent + 1, sent + w)
  <2> DEFINE from == sent + 1
             to == sent + chunk
             end == sent + w
  <2>1. /\ from \in 1 .. Len(pdu) /\ to \in 1 .. Len(pdu)
        /\ 1 \in 1 .. to - from + 1 /\ w \in 1 .. to - from + 1
        /\ from + 1 - 1 = from /\ from + w - 1 = end
    BY <1>3
  <2>2. body = SubSeq(pdu, from, to)
    OBVIOUS
  <2> HIDE DEF from, to, end, body
  <2>3. SubSeq(body, 1, w) = SubSeq(pdu, from, end)
    BY <2>1, <2>2, SubSeqOfSubSeq
  <2> QED
    BY <2>3 DEF from, end
<1> HIDE DEF body
<1>7. SubSeq(data, 2, w + 1) = SubSeq(body, 1, w)
  <2>1. w <= Len(body) /\ w < TxDl
    BY <1>3, <1>5 DEF TxDl, CfDl
  <2> QED
    BY <1>2, <1>4, <1>5, <2>1, OneByteHeader, Zenon
<1> QED
  BY <1>6, <1>7 DEF data

\* A single frame whose length fits completes a PDU.
LEMMA FeedSingleTakes ==
  ASSUME NEW r \in Context, NEW data, NEW len \in Nat, NEW buf,
         LowNibble(data) = len, SubSeq(data, 2, len + 1) = buf,
         1 <= len, len <= SfMaxDl, len <= RxBufBytes
  PROVE  /\ FeedSingle(r, data).rx.buf = buf /\ FeedSingle(r, data).rx.active = FALSE
         /\ FeedSingle(r, data).result = "DONE"
<1> DEFINE next == [r EXCEPT !.buf = buf, !.len = len, !.active = FALSE]
<1>1. ~ (len = 0 \/ len > SfMaxDl \/ len > RxBufBytes)
  BY IsoTpAssumption DEF SfMaxDl
<1>2. FeedSingle(r, data) = [rx |-> next, result |-> "DONE"]
  BY <1>1, Zenon DEF FeedSingle, Outcome
<1>3. next.buf = buf /\ next.active = FALSE
  BY DEF Context
<1> HIDE DEF next
<1> QED
  BY <1>2, <1>3

\* A consecutive frame with the sequence number that is due adds the bytes that are wanted.
LEMMA FeedConsecutiveTakes ==
  ASSUME NEW r \in Context, NEW data, NEW buf,
         r.active, LowNibble(data) = r.next_sn, buf = r.buf \o SubSeq(data, 2, Wanted(r) + 1)
  PROVE  /\ FeedConsecutive(r, data).rx.buf = buf
         /\ FeedConsecutive(r, data).rx.len = r.len
         /\ FeedConsecutive(r, data).rx.next_sn = NextSn(r.next_sn)
         /\ Len(buf) >= r.len => ~FeedConsecutive(r, data).rx.active
         /\ ~(Len(buf) >= r.len) => FeedConsecutive(r, data).result = "INPROGRESS"
<1> DEFINE outcome == FeedConsecutive(r, data)
           complete == Len(buf) >= r.len
           sn1 == NextSn(r.next_sn)
           next == [r EXCEPT !.buf = buf, !.next_sn = sn1, !.active = ~complete]
<1>1. outcome.rx = next /\ outcome.result = IF complete THEN "DONE" ELSE "INPROGRESS"
  BY DEF FeedConsecutive, AcceptsConsecutive, Outcome
<1> HIDE DEF complete, sn1
<1>2. next.buf = buf /\ next.len = r.len /\ next.next_sn = sn1 /\ next.active = ~complete
  BY DEF Context
<1> HIDE DEF next, outcome
<1>3. /\ outcome.rx.buf = buf /\ outcome.rx.len = r.len /\ outcome.rx.next_sn = sn1
      /\ complete => ~outcome.rx.active
      /\ ~complete => outcome.result = "INPROGRESS"
  BY <1>1, <1>2
<1> QED
  BY <1>3 DEF outcome, complete, sn1
=============================================================================
