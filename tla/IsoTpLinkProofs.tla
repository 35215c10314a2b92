-------------------------- MODULE IsoTpLinkProofs --------------------------
(***************************************************************************)
(* Theorems about a transfer between two shims, for every set of PDUs,     *)
(* every buffer and block size, any number of mailboxes and of bus faults. *)
(***************************************************************************)
EXTENDS IsoTpLink, IsoTpProofs, WrapArithmetic

-----------------------------------------------------------------------------
(* The inductive invariant.                                                *)

\* Bytes of the PDU that go before its n-th consecutive frame.
Offset(n) == FfFirstDl + CfDl * (n - 1)

\* The frames of a PDU by their ordinals: the first one, and then a consecutive one for every
\* seven bytes left.
IsOrdinal(p, n) == n = 0 \/ (n > 0 /\ Len(p) > SfMaxDl /\ Offset(n) < Len(p))
FrameOf(p, n) == IF n = 0 THEN StartFrame(p) ELSE ConsecutiveFrame(p, Offset(n), n % SnModulus)

\* Ordinal of the last frame sent, -1 before the first.
LastSent == IF sent = 0 THEN -1 ELSE IF Len(pdu) <= SfMaxDl THEN 0 ELSE sent \div CfDl

\* While TxContinue has more to send, its cursor stands between two consecutive frames, and the
\* sequence number is that of the next one.
CursorOK ==
  /\ sender = "start" => sent = 0 /\ sn = 1
  /\ sender \in {"awaitFc", "sending"} =>
       /\ Len(pdu) > SfMaxDl
       /\ sent < Len(pdu)
       /\ LastSent >= 0
       /\ sent = Offset(LastSent + 1)
       /\ sn = (LastSent + 1) % SnModulus

\* The mailboxes hold the last frames sent, in their order and as they were built.
WireOK ==
  /\ Len(wire) <= LastSent + 1
  /\ \A i \in 1 .. Len(wire) :
       /\ wire[i].ordinal = LastSent - Len(wire) + i
       /\ IsOrdinal(pdu, wire[i].ordinal)
       /\ wire[i].data = FrameOf(pdu, wire[i].ordinal)

\* The bus never goes back behind a frame it has delivered.
DeliveryOK ==
  /\ -1 <= delivered
  /\ delivered <= LastSent
  /\ delivered <= LastSent - Len(wire) + 1

\* A receiver that was last fed frame d of PDU p has taken its first frame and n consecutive
\* ones. They were the first n or, by a multiple of the sequence number's period, later ones;
\* if the first n, the receiver holds the PDU up to there.
HasTaken(p, r, d, n) ==
  /\ Len(r.buf) = Offset(n + 1)
  /\ Offset(n + 1) < Len(p)
  /\ r.next_sn = (n + 1) % SnModulus
  /\ n <= d
  /\ (d - n) % SnModulus = 0
  /\ d = n => r.buf = SubSeq(p, 1, Offset(n + 1))

Holds(p, r, d) ==
  /\ ContextOK(r)
  /\ r.active => Len(p) > SfMaxDl /\ r.len = Len(p) /\ \E n \in Nat : HasTaken(p, r, d, n)

ReceiverOK == Holds(pdu, rx, delivered)

IInv ==
  /\ TypeOK
  /\ CursorOK
  /\ WireOK
  /\ DeliveryOK
  /\ ReceiverOK
  /\ Integrity

-----------------------------------------------------------------------------
(* What a frame of the PDU does to the receiver.                           *)

\* A first frame whose length fits starts a PDU.
LEMMA FeedFirstTakes ==
  ASSUME NEW r, NEW data, NEW len \in Nat, NEW buf,
         Announced(data) = len, SubSeq(data, 3, FfFirstDl + 2) = buf,
         SfMaxDl < len, len <= RxBufBytes
  PROVE  FeedFirst(r, data) =
           [rx |-> [buf |-> buf, len |-> len, next_sn |-> 1, active |-> TRUE], result |-> "SENDFC"]
<1>1. ~ (len <= SfMaxDl \/ len > RxBufBytes)
  BY IsoTpAssumption DEF SfMaxDl
<1>2. 256 * LowNibble(data) + data[2] = len
  BY DEF Announced
<1>3. FeedFirst(r, data) =
        Outcome([buf |-> SubSeq(data, 3, FfFirstDl + 2), len |-> len, next_sn |-> 1, active |-> TRUE],
                "SENDFC")
  BY <1>1, <1>2, Zenon DEF FeedFirst
<1> QED
  BY <1>3 DEF Outcome

\* A frame whose length does not fit changes nothing.
LEMMA FeedRefuses ==
  ASSUME NEW r, NEW data, NEW len \in Nat, len > RxBufBytes
  PROVE  /\ LowNibble(data) = len => FeedSingle(r, data) = Outcome(r, "ERROR")
         /\ Announced(data) = len => FeedFirst(r, data) = Outcome(r, "ERROR")
  BY Zenon DEF FeedSingle, FeedFirst, Announced

\* A single frame is the whole PDU, a first frame starts one that is held up to its sixth byte.
LEMMA StartHolds ==
  ASSUME NEW p \in Seq(Byte), NEW len \in Nat, len = Len(p), 1 <= len, len <= LongestPdu,
         NEW r, NEW d \in Int, d <= 0, Holds(p, r, d)
  PROVE  /\ Holds(p, RxFeed(r, TxDl, StartFrame(p)).rx, 0)
         /\ RxFeed(r, TxDl, StartFrame(p)).result = "DONE" =>
              RxFeed(r, TxDl, StartFrame(p)).rx.buf = p
<1> DEFINE data == StartFrame(p)
           outcome == RxFeed(r, TxDl, data)
<1>0. /\ data \in Payload /\ ContextOK(r) /\ r \in Context
      /\ ContextOK(outcome.rx)
  BY StartFrameType, RxFeedOK DEF Holds, ContextOK
<1>1. ASSUME r.active, NEW n \in Nat, HasTaken(p, r, d, n)
      PROVE  HasTaken(p, r, 0, n)
  <2>1. n <= d
    BY <1>1 DEF HasTaken
  <2>2. d = 0
    BY <2>1
  <2> QED
    BY <1>1, <2>2
<1>2. Holds(p, r, 0)
  BY <1>1 DEF Holds
<1>3. CASE len <= SfMaxDl
  <2>1. Pci(data) = SF /\ LowNibble(data) = len /\ SubSeq(data, 2, len + 1) = p
    BY <1>3, SingleFrameParts
  <2> HIDE DEF data
  <2>2. outcome = FeedSingle(r, data)
    BY <2>1 DEF RxFeed, TxDl, SF, FF, CF
  <2>3. CASE len > RxBufBytes
    <3>1. outcome.rx = r /\ outcome.result = "ERROR"
      BY <2>1, <2>2, <2>3, FeedRefuses DEF Outcome
    <3> QED
      BY <1>2, <3>1 DEF data
  <2>4. CASE len <= RxBufBytes
    <3>1. FeedSingle(r, data).rx.buf = p /\ FeedSingle(r, data).rx.active = FALSE
      BY <1>0, <1>3, <2>1, <2>4, FeedSingleTakes, Zenon
    <3>2. outcome.rx.buf = p /\ outcome.rx.active = FALSE
      BY <2>2, <3>1
    <3> QED
      BY <1>0, <3>2 DEF Holds, data
  <2>5. len > RxBufBytes \/ len <= RxBufBytes
    BY IsoTpAssumption
  <2> QED
    BY <2>3, <2>4, <2>5
<1>4. CASE SfMaxDl < len
  <2> DEFINE buf == SubSeq(p, 1, FfFirstDl)
  <2>1. /\ Pci(data) = FF
        /\ Announced(data) = len
        /\ SubSeq(data, 3, FfFirstDl + 2) = buf
    <3>1. SfMaxDl < len /\ len = Len(p) /\ len <= LongestPdu
      BY <1>4
    <3> QED
      BY <3>1, FirstFrameParts, Zenon
  <2>2. buf \in Seq(Byte) /\ Len(buf) = 6
    <3>1. 6 <= Len(p) /\ 1 \in Nat \ {0} /\ 6 \in Nat /\ 6 = 1 + 6 - 1
      BY <1>4 DEF SfMaxDl
    <3> QED
      BY <3>1, PartBytes DEF FfFirstDl
  <2> HIDE DEF data
  <2>3. outcome = FeedFirst(r, data)
    BY <2>1 DEF RxFeed, TxDl, SF, FF, CF
  <2>4. CASE len > RxBufBytes
    <3>1. outcome.rx = r /\ outcome.result = "ERROR"
      BY <2>1, <2>3, <2>4, FeedRefuses DEF Outcome
    <3> QED
      BY <1>2, <3>1 DEF data
  <2>5. CASE len <= RxBufBytes
    <3> HIDE DEF buf
    <3>1. outcome = [rx |-> [buf |-> buf, len |-> len, next_sn |-> 1, active |-> TRUE],
                     result |-> "SENDFC"]
      BY <1>4, <2>1, <2>3, <2>5, FeedFirstTakes, ZenonT(40)
    <3>2. /\ outcome.rx.buf = buf /\ outcome.rx.len = len /\ outcome.rx.next_sn = 1
          /\ outcome.result # "DONE"
      BY <3>1
    <3>3. HasTaken(p, outcome.rx, 0, 0)
      <4>1. Offset(0 + 1) = 6 /\ 6 < Len(p) /\ (0 + 1) % SnModulus = 1 /\ (0 - 0) % SnModulus = 0
        BY <1>4 DEF Offset, FfFirstDl, CfDl, SfMaxDl, SnModulus
      <4>2. buf = SubSeq(p, 1, 6)
        BY DEF buf, FfFirstDl
      <4> HIDE DEF outcome
      <4>3. Len(outcome.rx.buf) = 6
        BY <2>2, <3>2
      <4> QED
        BY <3>2, <4>1, <4>2, <4>3 DEF HasTaken
    <3> HIDE DEF outcome
    <3>4. Holds(p, outcome.rx, 0)
      BY <1>0, <1>4, <3>2, <3>3 DEF Holds
    <3> QED
      BY <3>2, <3>4 DEF outcome, data
  <2>6. len > RxBufBytes \/ len <= RxBufBytes
    BY IsoTpAssumption
  <2> QED
    BY <2>4, <2>5, <2>6
<1>5. len <= SfMaxDl \/ SfMaxDl < len
  BY DEF SfMaxDl
<1> QED
  BY <1>3, <1>4, <1>5

\* A frame accepted by its sequence number is the next one or, by a multiple of the period, a
\* later one; if it is the next one, so were all before it.
LEMMA SequenceGap ==
  ASSUME NEW n \in Nat, NEW d \in Int, NEW h \in Nat, n <= d, d <= h,
         (d - n) % SnModulus = 0, h % SnModulus = (n + 1) % SnModulus
  PROVE  /\ n + 1 <= h
         /\ (h - (n + 1)) % SnModulus = 0
         /\ h = n + 1 => d = n
<1>1. h # n
  BY DEF SnModulus
<1>2. (h - (n + 1)) % SnModulus = 0
  BY DEF SnModulus
<1>3. h = n + 1 => d = n
  BY DEF SnModulus
<1> QED
  BY <1>1, <1>2, <1>3

\* Two parts of a PDU that meet.
LEMMA JoinParts ==
  ASSUME NEW s \in Seq(Byte), NEW o \in Nat, NEW end \in Nat, o <= end, end <= Len(s)
  PROVE  SubSeq(s, 1, o) \o SubSeq(s, o + 1, end) = SubSeq(s, 1, end)
<1>1. PICK len \in Nat : len = Len(s)
  BY LenProperties
<1>2. 1 \in 1 .. Len(s) + 1 /\ o \in 1 - 1 .. Len(s) /\ end \in o .. Len(s)
  BY <1>1
<1> QED
  BY <1>2, ConcatAdjacentSubSeq, Zenon

\* A consecutive frame that is not the next one is refused, or changes a reassembly that can no
\* longer complete; the next one extends what the receiver holds.
LEMMA ContinueHolds ==
  ASSUME NEW p \in Seq(Byte), NEW len \in Nat, len = Len(p), SfMaxDl < len,
         NEW h \in Nat, h > 0, Offset(h) < len,
         NEW r, NEW d \in Int, d <= h, Holds(p, r, d)
  PROVE  LET outcome == RxFeed(r, TxDl, ConsecutiveFrame(p, Offset(h), h % SnModulus))
         IN  Holds(p, outcome.rx, h) /\ (outcome.result = "DONE" => outcome.rx.buf = p)
<1> DEFINE at == Offset(h)
           sn1 == h % SnModulus
           data == ConsecutiveFrame(p, at, sn1)
           outcome == RxFeed(r, TxDl, data)
<1>1. at \in Nat /\ at < len /\ sn1 \in 0 .. SnModulus - 1
  BY DEF Offset, FfFirstDl, CfDl, SnModulus
<1> HIDE DEF at, sn1
<1>2. data \in Payload /\ r \in Context /\ ContextOK(r)
  BY <1>1, ConsecutiveFrameType DEF Holds, ContextOK
<1>3. ASSUME NEW w \in Nat, 1 <= w, w <= CfDl, at + w <= Len(p)
      PROVE  SubSeq(data, 2, w + 1) = SubSeq(p, at + 1, at + w)
  BY <1>1, <1>3, ConsecutiveFrameParts
<1>4. Pci(data) = CF /\ LowNibble(data) = sn1
  BY <1>1, ConsecutiveFrameHeader
<1> HIDE DEF data
<1>5. outcome = FeedConsecutive(r, data)
  BY <1>4 DEF RxFeed, TxDl, SF, FF, CF
<1>5a. ContextOK(outcome.rx)
  BY <1>2, RxFeedOK
<1>6. CASE ~r.active
  <2>1. outcome = [rx |-> r, result |-> "IDLE"]
    BY <1>5, <1>6 DEF FeedConsecutive, Outcome
  <2>2. outcome.rx.active = FALSE /\ outcome.result # "DONE"
    BY <1>2, <1>6, <2>1 DEF Context
  <2> HIDE DEF outcome
  <2> QED
    BY <1>5a, <2>2 DEF Holds, outcome, data, at, sn1
<1>7. CASE r.active /\ LowNibble(data) # r.next_sn
  <2>1. outcome = [rx |-> [r EXCEPT !.active = FALSE], result |-> "ERROR"]
    BY <1>5, <1>7 DEF FeedConsecutive, AcceptsConsecutive, Outcome
  <2>2. outcome.rx.active = FALSE /\ outcome.result # "DONE"
    BY <1>2, <2>1 DEF Context
  <2> HIDE DEF outcome
  <2> QED
    BY <1>5a, <2>2 DEF Holds, outcome, data, at, sn1
<1>8. CASE r.active /\ LowNibble(data) = r.next_sn
  <2>1. PICK n \in Nat : HasTaken(p, r, d, n) /\ r.len = len
    BY <1>8 DEF Holds
  <2> DEFINE o == Offset(n + 1)
             w == Wanted(r)
             part == SubSeq(data, 2, w + 1)
             buf == r.buf \o part
  <2>2. o \in Nat /\ o < len /\ Len(r.buf) = o
    BY <2>1 DEF HasTaken, Offset, FfFirstDl, CfDl
  <2>3. w \in Nat /\ 1 <= w /\ w <= CfDl /\ o + w <= len /\ (o + w = len \/ w = CfDl)
    BY <2>1, <2>2 DEF Wanted, CfDl
  <2>4. /\ n + 1 <= h /\ (h - (n + 1)) % SnModulus = 0 /\ (h = n + 1 => d = n)
        /\ r.next_sn = (n + 1) % SnModulus
    <3>1. n <= d /\ (d - n) % SnModulus = 0 /\ r.next_sn = (n + 1) % SnModulus
      BY <2>1 DEF HasTaken
    <3>2. h % SnModulus = (n + 1) % SnModulus
      BY <1>4, <1>8, <3>1 DEF sn1
    <3> QED
      BY <3>1, <3>2, SequenceGap, Zenon
  <2>5. part \in Seq(Byte) /\ Len(part) = w
    BY <1>2, <1>8, WantedBytes, Zenon
  <2>5a. r.buf \in Seq(Byte)
    BY <1>2 DEF Context
  <2>6. /\ outcome.rx.buf = buf
        /\ outcome.rx.len = r.len
        /\ outcome.rx.next_sn = NextSn(r.next_sn)
        /\ Len(buf) >= r.len => ~outcome.rx.active
        /\ ~(Len(buf) >= r.len) => outcome.result = "INPROGRESS"
    <3>1. buf = r.buf \o SubSeq(data, 2, Wanted(r) + 1)
      OBVIOUS
    <3> HIDE DEF buf, part, w, o, outcome
    <3>2. /\ FeedConsecutive(r, data).rx.buf = buf
          /\ FeedConsecutive(r, data).rx.len = r.len
          /\ FeedConsecutive(r, data).rx.next_sn = NextSn(r.next_sn)
          /\ Len(buf) >= r.len => ~FeedConsecutive(r, data).rx.active
          /\ ~(Len(buf) >= r.len) => FeedConsecutive(r, data).result = "INPROGRESS"
      BY <1>2, <1>8, <3>1, FeedConsecutiveTakes, Zenon
    <3> QED
      BY <1>5, <3>2, Zenon
  <2> HIDE DEF outcome, part, w, o
  <2>6a. buf \in Seq(Byte) /\ Len(buf) = o + w
    BY <2>2, <2>5, <2>5a, ConcatProperties
  <2> HIDE DEF buf
  <2>7. ASSUME h = n + 1
        PROVE  d = n /\ buf = SubSeq(p, 1, o + w)
    <3>1. at = o
      BY <2>7 DEF at, o
    <3>2. part = SubSeq(p, o + 1, o + w)
      BY <1>3, <2>3, <3>1, at + w <= Len(p) DEF part
    <3>3. d = n /\ r.buf = SubSeq(p, 1, o)
      BY <2>1, <2>4, <2>7 DEF HasTaken, o
    <3>4. o + w \in Nat /\ o <= o + w /\ o + w <= Len(p)
      BY <2>2, <2>3
    <3>5. SubSeq(p, 1, o) \o SubSeq(p, o + 1, o + w) = SubSeq(p, 1, o + w)
      BY <2>2, <3>4, JoinParts
    <3> QED
      BY <3>2, <3>3, <3>5 DEF buf
  <2>8. CASE o + w = len
    <3>0. Len(buf) >= r.len
      BY <2>1, <2>2, <2>3, <2>6a, <2>8
    <3>1. ~outcome.rx.active
      BY <2>6, <3>0, Zenon
    <3>2. h = n + 1
      BY <1>1, <2>3, <2>4, <2>8 DEF at, o, Offset, FfFirstDl, CfDl
    <3>3. buf = p
      BY <2>7, <2>8, <3>2, SubSeqFull
    <3> QED
      BY <1>5a, <2>6, <3>1, <3>3 DEF Holds, outcome, data, at, sn1
  <2>9. CASE o + w < len
    <3>1. outcome.result # "DONE"
      BY <2>1, <2>2, <2>3, <2>6, <2>6a, <2>9
    <3>2. o + w = Offset(n + 2) /\ w = CfDl
      BY <2>3, <2>9 DEF o, Offset, FfFirstDl, CfDl
    <3>3. NextSn(r.next_sn) = (n + 2) % SnModulus
      BY <2>4 DEF NextSn, SnModulus
    <3>4. Len(outcome.rx.buf) = o + w
      BY <2>6, <2>6a
    <3>5. HasTaken(p, outcome.rx, h, n + 1)
      <4>1. n + 1 + 1 = n + 2
        OBVIOUS
      <4> QED
        BY <2>4, <2>6, <2>7, <2>9, <3>2, <3>3, <3>4, <4>1 DEF HasTaken
    <3> QED
      BY <1>5a, <2>1, <2>6, <3>1, <3>5, n + 1 \in Nat DEF Holds, outcome, data, at, sn1
  <2> QED
    BY <2>2, <2>3, <2>8, <2>9
<1> QED
  BY <1>6, <1>7, <1>8

\* Any frame of the PDU, at any distance from the one before it.
LEMMA FrameHolds ==
  ASSUME NEW p \in Seq(Byte), NEW len \in Nat, len = Len(p), 1 <= len, len <= LongestPdu,
         NEW h \in Nat, IsOrdinal(p, h), NEW r, NEW d \in Int, d <= h, Holds(p, r, d)
  PROVE  /\ Holds(p, RxFeed(r, TxDl, FrameOf(p, h)).rx, h)
         /\ RxFeed(r, TxDl, FrameOf(p, h)).result = "DONE" =>
              RxFeed(r, TxDl, FrameOf(p, h)).rx.buf = p
<1>1. CASE h = 0
  <2>1. FrameOf(p, h) = StartFrame(p) /\ d <= 0
    BY <1>1 DEF FrameOf
  <2> QED
    BY <1>1, <2>1, StartHolds
<1>2. CASE h > 0
  <2>1. FrameOf(p, h) = ConsecutiveFrame(p, Offset(h), h % SnModulus)
    BY <1>2 DEF FrameOf
  <2>2. SfMaxDl < len /\ Offset(h) < len
    BY <1>2 DEF IsOrdinal
  <2> QED
    BY <1>2, <2>1, <2>2, ContinueHolds
<1> QED
  BY <1>1, <1>2

-----------------------------------------------------------------------------
(* The steps.                                                              *)

\* The PDU of the transfer is one of those the assumption describes.
LEMMA PduOK ==
  ASSUME TypeOK
  PROVE  pdu \in Seq(Byte) /\ Len(pdu) \in Nat /\ 1 <= Len(pdu) /\ Len(pdu) <= LongestPdu
<1>1. pdu \in Seq(Byte) /\ Len(pdu) \in 1 .. LongestPdu
  BY LinkAssumption, Zenon DEF TypeOK
<1>2. \A n \in 1 .. LongestPdu : n \in Nat /\ 1 <= n /\ n <= LongestPdu
  BY DEF LongestPdu
<1> QED
  BY <1>1, <1>2, Zenon

\* A frame enters the last mailbox: the wire still holds the last frames sent, in order.
LEMMA WireGrows ==
  ASSUME TypeOK, WireOK, DeliveryOK, LastSent \in Int, pdu' = pdu,
         NEW frame, wire' = Append(wire, frame), delivered' = delivered,
         LastSent' = LastSent + 1, frame.ordinal = LastSent + 1,
         IsOrdinal(pdu, frame.ordinal), frame.data = FrameOf(pdu, frame.ordinal),
         frame \in [data : Payload, ordinal : Nat]
  PROVE  /\ WireOK' /\ DeliveryOK'
         /\ wire' \in Seq([data : Payload, ordinal : Nat]) /\ Len(wire') = Len(wire) + 1
<1> DEFINE Frame == [data : Payload, ordinal : Nat]
<1>1. wire \in Seq(Frame) /\ frame \in Frame
  BY DEF TypeOK
<1> HIDE DEF Frame
<1>2. PICK n \in Nat, l \in Int : n = Len(wire) /\ l = LastSent
  BY <1>1, LenProperties
<1>3. /\ wire' \in Seq(Frame) /\ Len(wire') = n + 1
      /\ \A i \in 1 .. n : wire'[i] = wire[i]
      /\ wire'[n + 1] = frame
  BY <1>1, <1>2, AppendProperties
<1>4. /\ n <= l + 1
      /\ \A i \in 1 .. n : /\ wire[i].ordinal = l - n + i
                           /\ IsOrdinal(pdu, wire[i].ordinal)
                           /\ wire[i].data = FrameOf(pdu, wire[i].ordinal)
  BY <1>2 DEF WireOK
<1>5. ASSUME NEW i \in 1 .. n + 1
      PROVE  /\ wire'[i].ordinal = l + 1 - (n + 1) + i
             /\ IsOrdinal(pdu, wire'[i].ordinal)
             /\ wire'[i].data = FrameOf(pdu, wire'[i].ordinal)
  <2>1. CASE i \in 1 .. n
    <3>1. wire'[i] = wire[i] /\ l - n + i = l + 1 - (n + 1) + i
      BY <1>3, <2>1
    <3> QED
      BY <1>4, <2>1, <3>1, Zenon
  <2>2. CASE i = n + 1
    <3>1. l + 1 = l + 1 - (n + 1) + i
      BY <2>2
    <3> QED
      BY <1>2, <1>3, <2>2, <3>1, Zenon
  <2>3. i \in 1 .. n \/ i = n + 1
    OBVIOUS
  <2> QED
    BY <2>1, <2>2, <2>3
<1>7. WireOK'
  BY <1>2, <1>3, <1>4, <1>5 DEF WireOK, IsOrdinal, FrameOf
<1>8. DeliveryOK'
  <2>1. delivered \in Int
    BY DEF TypeOK
  <2> QED
    BY <1>2, <1>3, <2>1 DEF DeliveryOK
<1> QED
  BY <1>2, <1>3, <1>7, <1>8 DEF Frame

\* The frame at the head of the wire: the next one the bus has to deliver.
LEMMA HeadOfWire ==
  ASSUME TypeOK, WireOK, DeliveryOK, wire # <<>>
  PROVE  /\ Head(wire) \in [data : Payload, ordinal : Nat]
         /\ Head(wire).ordinal = LastSent - Len(wire) + 1
         /\ IsOrdinal(pdu, Head(wire).ordinal)
         /\ Head(wire).data = FrameOf(pdu, Head(wire).ordinal)
         /\ Len(wire) \in Nat /\ 1 <= Len(wire)
<1> DEFINE Frame == [data : Payload, ordinal : Nat]
<1>1. wire \in Seq(Frame)
  BY DEF TypeOK
<1> HIDE DEF Frame
<1>2. Head(wire) = wire[1] /\ Head(wire) \in Frame /\ 1 \in 1 .. Len(wire)
  BY <1>1, EmptySeq, LenProperties, HeadTailProperties
<1>3. Len(wire) \in Nat /\ 1 <= Len(wire)
  BY <1>1, <1>2, LenProperties
<1>4. /\ wire[1].ordinal = LastSent - Len(wire) + 1
      /\ IsOrdinal(pdu, wire[1].ordinal)
      /\ wire[1].data = FrameOf(pdu, wire[1].ordinal)
  BY <1>2, Zenon DEF WireOK
<1> QED
  BY <1>2, <1>3, <1>4, Zenon DEF Frame

\* A frame leaves the wire: the others move up.
LEMMA WireShrinks ==
  ASSUME TypeOK, WireOK, wire # <<>>, LastSent \in Int,
         pdu' = pdu, wire' = Tail(wire), LastSent' = LastSent
  PROVE  /\ WireOK'
         /\ wire' \in Seq([data : Payload, ordinal : Nat]) /\ Len(wire') = Len(wire) - 1
<1> DEFINE Frame == [data : Payload, ordinal : Nat]
<1>1. wire \in Seq(Frame)
  BY DEF TypeOK
<1> HIDE DEF Frame
<1>2. PICK n \in Nat, l \in Int : n = Len(wire) /\ l = LastSent
  BY <1>1, LenProperties
<1>3. /\ wire' \in Seq(Frame) /\ Len(wire') = n - 1
      /\ \A i \in 1 .. n - 1 : wire'[i] = wire[i + 1]
  BY <1>1, <1>2, HeadTailProperties
<1>4. /\ n <= l + 1
      /\ \A i \in 1 .. n : /\ wire[i].ordinal = l - n + i
                           /\ IsOrdinal(pdu, wire[i].ordinal)
                           /\ wire[i].data = FrameOf(pdu, wire[i].ordinal)
  BY <1>2 DEF WireOK
<1>5. ASSUME NEW i \in 1 .. n - 1
      PROVE  /\ wire'[i].ordinal = l - (n - 1) + i
             /\ IsOrdinal(pdu, wire'[i].ordinal)
             /\ wire'[i].data = FrameOf(pdu, wire'[i].ordinal)
  <2>1. i + 1 \in 1 .. n /\ l - n + (i + 1) = l - (n - 1) + i
    OBVIOUS
  <2>2. wire'[i] = wire[i + 1]
    BY <1>3
  <2> QED
    BY <1>4, <2>1, <2>2, Zenon
<1>6. WireOK'
  BY <1>2, <1>3, <1>4, <1>5 DEF WireOK, IsOrdinal, FrameOf
<1> QED
  BY <1>2, <1>3, <1>6 DEF Frame

\* What feeding the frame at the head of the wire establishes.
LEMMA HeadIsFed ==
  ASSUME IInv, wire # <<>>, Feed(Head(wire)), pdu' = pdu
  PROVE  /\ delivered' = LastSent - Len(wire) + 1 /\ delivered' \in Nat
         /\ ReceiverOK' /\ Integrity'
         /\ result' \in Results /\ granted' \in BOOLEAN
<1> DEFINE frame == Head(wire)
           outcome == RxFeed(rx, TxDl, frame.data)
<1>1. /\ pdu \in Seq(Byte) /\ Len(pdu) \in Nat /\ 1 <= Len(pdu) /\ Len(pdu) <= LongestPdu
      /\ TypeOK /\ delivered \in Int /\ granted \in BOOLEAN
  BY PduOK DEF IInv, TypeOK
<1>2. /\ frame \in [data : Payload, ordinal : Nat]
      /\ frame.ordinal = LastSent - Len(wire) + 1
      /\ IsOrdinal(pdu, frame.ordinal)
      /\ frame.data = FrameOf(pdu, frame.ordinal)
  BY HeadOfWire DEF IInv
<1>3. /\ rx' = outcome.rx /\ result' = outcome.result
      /\ granted' = (granted \/ outcome.result = "SENDFC")
      /\ delivered' = frame.ordinal
  BY DEF Feed
<1> HIDE DEF frame
<1>4. delivered <= frame.ordinal /\ frame.ordinal \in Nat /\ frame.data \in Payload
  BY <1>2 DEF IInv, DeliveryOK
<1>5. Holds(pdu, rx, delivered)
  BY DEF IInv, ReceiverOK
<1>6. Holds(pdu, outcome.rx, frame.ordinal) /\ (outcome.result = "DONE" => outcome.rx.buf = pdu)
  BY <1>1, <1>2, <1>4, <1>5, FrameHolds
<1>7. outcome.result \in FeedResults
  BY <1>4, <1>5, RxFeedOK DEF Holds
<1> HIDE DEF outcome
<1>8. ReceiverOK' /\ Integrity'
  BY <1>3, <1>6 DEF ReceiverOK, Integrity
<1>9. result' \in Results
  BY <1>3, <1>7 DEF Results, FeedResults
<1>10. granted' \in BOOLEAN
  BY <1>3, Zenon
<1> QED
  BY <1>2, <1>3, <1>4, <1>8, <1>9, <1>10 DEF frame

\* The receiver's part of the type invariant.
LEMMA ReceiverType ==
  ASSUME ReceiverOK
  PROVE  /\ rx.buf \in Seq(Byte) /\ Len(rx.buf) <= rx.len /\ (rx.len > 0 => rx.len <= RxBufBytes)
         /\ rx.next_sn \in 0 .. SnModulus - 1 /\ rx.active \in BOOLEAN
  BY DEF ReceiverOK, Holds, ContextOK, Context

\* The same, of the state after a step.
LEMMA ReceiverTypeNext ==
  ASSUME ReceiverOK'
  PROVE  /\ rx'.buf \in Seq(Byte) /\ Len(rx'.buf) <= rx'.len /\ (rx'.len > 0 => rx'.len <= RxBufBytes)
         /\ rx'.next_sn \in 0 .. SnModulus - 1 /\ rx'.active \in BOOLEAN
  BY DEF ReceiverOK, Holds, ContextOK, Context

\* The last ordinal is a number.
LEMMA LastSentType ==
  ASSUME TypeOK
  PROVE  sent \in Nat /\ sent <= Len(pdu) /\ LastSent \in Int
<1>1. sent \in Nat /\ sent <= Len(pdu)
  BY PduOK DEF TypeOK
<1>2. CfDl \in Nat \ {0}
  BY DEF CfDl
<1>3. sent \div CfDl \in Int
  BY <1>1 DEF CfDl
<1> QED
  BY <1>1, <1>3 DEF LastSent

\* A transfer that has not begun.
LEMMA InitOK == Init => IInv
<1> SUFFICES ASSUME Init PROVE IInv
  OBVIOUS
<1>1. pdu \in Pdus /\ pdu \in Seq(Byte)
  BY LinkAssumption, Zenon DEF Init
<1>2. sent \in 0 .. Len(pdu)
  BY <1>1, LenProperties DEF Init
<1>3. ReceiverOK
  BY RxInitOK DEF Init, ReceiverOK, Holds, RxInit
<1>4. wire = <<>> /\ Len(wire) = 0 /\ wire \in Seq([data : Payload, ordinal : Nat])
  BY DEF Init
<1>5. TypeOK
  <2>1. Len(wire) <= Mailboxes
    BY <1>4, LinkAssumption
  <2>2. /\ sender \in {"start", "awaitFc", "sending", "sent", "stopped", "failed"}
        /\ result \in Results
    BY DEF Init, Results
  <2>3. sn \in 0 .. SnModulus - 1
    BY DEF Init, SnModulus
  <2>4. blocks \in Nat /\ faults \in Nat /\ delivered \in Int
    BY DEF Init
  <2>5. granted \in BOOLEAN
    BY Zenon DEF Init
  <2>6. /\ rx.buf \in Seq(Byte) /\ Len(rx.buf) <= rx.len /\ (rx.len > 0 => rx.len <= RxBufBytes)
        /\ rx.next_sn \in 0 .. SnModulus - 1 /\ rx.active \in BOOLEAN
    BY <1>3, ReceiverType
  <2> QED
    BY <1>1, <1>2, <1>4, <2>1, <2>2, <2>3, <2>4, <2>5, <2>6, Zenon DEF TypeOK
<1>6. LastSent = -1
  BY DEF Init, LastSent
<1>7. CursorOK /\ WireOK /\ DeliveryOK /\ Integrity
  BY <1>4, <1>6 DEF Init, CursorOK, WireOK, DeliveryOK, Integrity
<1> QED
  BY <1>3, <1>5, <1>7 DEF IInv

\* A step of the sender leaves the receiver alone.
LEMMA ReceiverUntouched ==
  ASSUME IInv, UNCHANGED <<pdu, receiverVars>>
  PROVE  ReceiverOK' /\ Integrity'
  BY DEF IInv, ReceiverOK, Holds, HasTaken, Integrity, receiverVars

\* A step that moves neither the cursor nor the wire.
LEMMA WireUntouched ==
  ASSUME IInv, UNCHANGED <<pdu, sent, wire, delivered>>
  PROVE  LastSent' = LastSent /\ WireOK' /\ DeliveryOK'
<1>1. LastSent' = LastSent
  BY DEF LastSent
<1> QED
  BY <1>1 DEF IInv, WireOK, DeliveryOK, IsOrdinal, FrameOf

\* TxStart sends the only frame of a short PDU or the first one of a longer one.
LEMMA SendStartOK == ASSUME IInv, SendStart PROVE IInv'
<1>1. /\ TypeOK /\ CursorOK /\ WireOK /\ DeliveryOK
      /\ pdu' = pdu /\ sn' = sn /\ sn = 1 /\ sent = 0 /\ delivered' = delivered
  BY DEF IInv, SendStart, CursorOK, receiverVars
<1>2. PICK len \in Nat : len = Len(pdu) /\ 1 <= len /\ len <= LongestPdu
  BY <1>1, PduOK
<1>3. LastSent = -1
  BY <1>1 DEF LastSent
<1>4. sent' = (IF len <= 7 THEN len ELSE 6) /\ sent' \in 0 .. len
  BY <1>2 DEF SendStart, Pending, SfMaxDl, FfFirstDl
<1>5. LastSent' = 0
  BY <1>1, <1>2, <1>4 DEF LastSent, SfMaxDl, CfDl
<1> DEFINE frame == [data |-> StartFrame(pdu), ordinal |-> 0]
<1>6. wire' = Append(wire, frame) /\ frame \in [data : Payload, ordinal : Nat]
  BY <1>1, PduOK, StartFrameType DEF SendStart
<1>7. frame.ordinal = 0 /\ frame.data = StartFrame(pdu)
  OBVIOUS
<1> HIDE DEF frame
<1>8. /\ WireOK' /\ DeliveryOK'
      /\ wire' \in Seq([data : Payload, ordinal : Nat]) /\ Len(wire') = Len(wire) + 1
  <2>1. LastSent' = LastSent + 1 /\ frame.ordinal = LastSent + 1 /\ LastSent \in Int
    BY <1>3, <1>5, <1>7
  <2>2. IsOrdinal(pdu, frame.ordinal) /\ frame.data = FrameOf(pdu, frame.ordinal)
    BY <1>7 DEF IsOrdinal, FrameOf
  <2> QED
    BY <1>1, <1>6, <2>1, <2>2, WireGrows
<1>9. ReceiverOK' /\ Integrity'
  BY <1>1, ReceiverUntouched DEF SendStart
<1>10. sender' = (IF len <= 7 THEN "sent" ELSE "awaitFc")
  BY <1>2 DEF SendStart, Pending, SfMaxDl, FfFirstDl
<1>11. CursorOK'
  BY <1>1, <1>2, <1>4, <1>5, <1>10 DEF CursorOK, SfMaxDl, Offset, FfFirstDl, CfDl, SnModulus
<1>12. TypeOK'
  <2>1. Len(wire') <= Mailboxes
    BY <1>1, <1>8, LinkAssumption DEF SendStart, MailboxFree, TypeOK
  <2>2. sender' \in {"start", "awaitFc", "sending", "sent", "stopped", "failed"}
    BY <1>10
  <2>3. sent' \in 0 .. Len(pdu')
    BY <1>1, <1>2, <1>4
  <2>4. UNCHANGED <<pdu, sn, blocks, rx, result, delivered, granted, faults>>
    BY DEF SendStart, receiverVars
  <2> QED
    BY <1>1, <1>8, <2>1, <2>2, <2>3, <2>4 DEF TypeOK
<1> QED
  BY <1>8, <1>9, <1>11, <1>12 DEF IInv

\* A flow control arrives.
LEMMA FcReceivedOK == ASSUME IInv, FcReceived PROVE IInv'
<1>1. /\ TypeOK /\ CursorOK
      /\ UNCHANGED <<pdu, sent, sn, wire, rx, result, delivered, faults>>
      /\ granted' = FALSE
      /\ \/ sender = "awaitFc" /\ sender' = "sending" /\ blocks' = 0
         \/ sender # "awaitFc" /\ sender' = sender /\ blocks' = blocks
  BY DEF IInv, FcReceived, receiverVars
<1>2. LastSent' = LastSent /\ WireOK' /\ DeliveryOK' /\ ReceiverOK' /\ Integrity'
  BY <1>1, WireUntouched, ReceiverUntouched DEF receiverVars
<1>3. CursorOK'
  BY <1>1, <1>2 DEF CursorOK
<1>4. TypeOK'
  <2>1. sender' \in {"start", "awaitFc", "sending", "sent", "stopped", "failed"}
    BY <1>1 DEF TypeOK
  <2>2. blocks' \in Nat
    BY <1>1 DEF TypeOK
  <2> QED
    BY <1>1, <2>1, <2>2 DEF TypeOK
<1> QED
  BY <1>2, <1>3, <1>4 DEF IInv

\* The transfer is given up.
LEMMA SendFailsOK == ASSUME IInv, SendFails PROVE IInv'
<1>1. /\ TypeOK /\ sender' = "failed"
      /\ UNCHANGED <<pdu, sent, sn, blocks, wire, rx, result, delivered, granted, faults>>
  BY DEF IInv, SendFails, receiverVars
<1>2. WireOK' /\ DeliveryOK' /\ ReceiverOK' /\ Integrity'
  BY <1>1, WireUntouched, ReceiverUntouched DEF receiverVars
<1>3. CursorOK' /\ TypeOK'
  BY <1>1 DEF CursorOK, TypeOK
<1> QED
  BY <1>2, <1>3 DEF IInv

\* TxContinue sends the next consecutive frame.
LEMMA SendConsecutiveOK == ASSUME IInv, SendConsecutive PROVE IInv'
<1>1. /\ TypeOK /\ CursorOK /\ WireOK /\ DeliveryOK
      /\ pdu' = pdu /\ delivered' = delivered /\ sender = "sending"
      /\ UNCHANGED <<rx, result, granted, faults>>
      /\ sn' = NextSn(sn) /\ blocks' = blocks + 1
  BY DEF IInv, SendConsecutive, receiverVars
<1>2. PICK len \in Nat : len = Len(pdu) /\ 1 <= len /\ len <= LongestPdu
  BY <1>1, PduOK
<1>3. PICK k \in Nat : k = LastSent
  BY <1>1, LastSentType DEF CursorOK
<1>4. /\ sent \in Nat /\ sent < len /\ SfMaxDl < len
      /\ sent = Offset(k + 1) /\ sn = (k + 1) % SnModulus
  BY <1>1, <1>2, <1>3, LastSentType DEF CursorOK
<1> DEFINE c == Chunk(pdu, sent)
<1>5. c \in Int /\ c = IF len - sent < CfDl THEN len - sent ELSE CfDl
  BY <1>2, <1>4 DEF Chunk, CfDl
<1>6. sent' = sent + c
  BY DEF SendConsecutive
<1> HIDE DEF c
<1>7. /\ 1 <= c /\ sent + c <= len
      /\ sent + c < len => sent + c = Offset(k + 2)
      /\ (sent - FfFirstDl) \div CfDl = k
      /\ (sent + c) \div CfDl = k + 1
  <2>1. sent = 6 + 7 * k /\ Offset(k + 2) = 13 + 7 * k
    BY <1>4 DEF Offset, FfFirstDl, CfDl
  <2>2. 1 <= c /\ c <= 7 /\ sent + c <= len /\ (sent + c < len => c = 7)
    BY <1>4, <1>5 DEF CfDl
  <2>3. (sent - 6) \div 7 = k /\ (sent + c) \div 7 = k + 1
    BY <1>5, <2>1, <2>2
  <2> QED
    BY <1>4, <1>5, <2>1, <2>2, <2>3 DEF FfFirstDl, CfDl
<1>8. LastSent' = k + 1
  <2>1. sent' # 0 /\ sent' \div CfDl = k + 1 /\ ~(Len(pdu') <= SfMaxDl)
    BY <1>1, <1>2, <1>4, <1>5, <1>6, <1>7, SMTT(30) DEF SfMaxDl
  <2> QED
    BY <2>1, Zenon DEF LastSent
<1> DEFINE frame == [data |-> ConsecutiveFrame(pdu, sent, sn), ordinal |-> Ordinal(sent)]
<1>9. /\ frame.data = ConsecutiveFrame(pdu, Offset(k + 1), (k + 1) % SnModulus)
      /\ frame.ordinal = k + 1
      /\ frame \in [data : Payload, ordinal : Nat]
  <2>1. Ordinal(sent) = k + 1
    BY <1>7 DEF Ordinal
  <2>2. ConsecutiveFrame(pdu, sent, sn) \in Payload
    <3>1. sn \in 0 .. SnModulus - 1
      BY <1>1 DEF TypeOK
    <3> QED
      BY <1>1, <1>4, <3>1, PduOK, ConsecutiveFrameType
  <2> QED
    BY <1>4, <2>1, <2>2
<1>10. wire' = Append(wire, frame)
  BY DEF SendConsecutive
<1> HIDE DEF frame
<1>11. /\ WireOK' /\ DeliveryOK'
       /\ wire' \in Seq([data : Payload, ordinal : Nat]) /\ Len(wire') = Len(wire) + 1
  <2>1. LastSent' = LastSent + 1 /\ frame.ordinal = LastSent + 1 /\ LastSent \in Int
    BY <1>3, <1>8, <1>9
  <2>2. IsOrdinal(pdu, frame.ordinal)
    BY <1>2, <1>4, <1>9 DEF IsOrdinal
  <2>3. frame.data = FrameOf(pdu, frame.ordinal)
    BY <1>9 DEF FrameOf
  <2> QED
    BY <1>1, <1>9, <1>10, <2>1, <2>2, <2>3, WireGrows
<1>12. ReceiverOK' /\ Integrity'
  BY <1>1, ReceiverUntouched DEF SendConsecutive
<1>13. sender' \in {"sent", "stopped", "sending"} /\ (sender' = "sending" => sent' < len)
  BY <1>1, <1>2, <1>5, <1>6, <1>4 DEF SendConsecutive, AfterFrame
<1>14. sn' = (k + 2) % SnModulus
  BY <1>1, <1>4 DEF NextSn, SnModulus
<1>15. CursorOK'
  <2>1. k + 1 + 1 = k + 2 /\ k + 1 >= 0
    OBVIOUS
  <2>2. sender' # "start" /\ sender' # "awaitFc"
    BY <1>13
  <2>3. sender' = "sending" =>
          Len(pdu') > SfMaxDl /\ sent' < Len(pdu') /\ sent' = Offset(k + 2)
    BY <1>1, <1>2, <1>4, <1>6, <1>7, <1>13
  <2> QED
    BY <1>8, <1>14, <2>1, <2>2, <2>3, Zenon DEF CursorOK
<1>16. TypeOK'
  <2>1. Len(wire') <= Mailboxes
    BY <1>1, <1>11, LinkAssumption DEF SendConsecutive, MailboxFree, TypeOK
  <2>2. sender' \in {"start", "awaitFc", "sending", "sent", "stopped", "failed"}
    BY <1>13
  <2>3. sent' \in 0 .. Len(pdu')
    BY <1>1, <1>2, <1>4, <1>5, <1>6, <1>7
  <2>4. sn' \in 0 .. SnModulus - 1
    BY <1>14 DEF SnModulus
  <2>5. blocks' \in Nat
    BY <1>1 DEF TypeOK
  <2> QED
    BY <1>1, <1>11, <2>1, <2>2, <2>3, <2>4, <2>5 DEF TypeOK
<1> QED
  BY <1>11, <1>12, <1>15, <1>16 DEF IInv

\* The bus delivers the frame at the head of the wire.
LEMMA DeliverOK == ASSUME IInv, Deliver PROVE IInv'
<1>1. /\ TypeOK /\ WireOK /\ CursorOK /\ DeliveryOK /\ wire # <<>> /\ Feed(Head(wire)) /\ wire' = Tail(wire)
      /\ UNCHANGED <<pdu, sender, sent, sn, blocks, faults>>
  BY DEF IInv, Deliver, senderVars
<1>2. LastSent' = LastSent /\ LastSent \in Int
  BY <1>1, LastSentType DEF LastSent
<1>3. /\ delivered' = LastSent - Len(wire) + 1 /\ delivered' \in Nat
      /\ ReceiverOK' /\ Integrity' /\ result' \in Results /\ granted' \in BOOLEAN
  BY <1>1, HeadIsFed
<1>4. Len(wire) \in Nat /\ 1 <= Len(wire)
  BY <1>1, HeadOfWire
<1>5. /\ WireOK' /\ wire' \in Seq([data : Payload, ordinal : Nat]) /\ Len(wire') = Len(wire) - 1
  BY <1>1, <1>2, WireShrinks
<1>6. DeliveryOK'
  BY <1>2, <1>3, <1>4, <1>5 DEF DeliveryOK
<1>7. CursorOK'
  BY <1>1, <1>2 DEF CursorOK
<1>8. Len(wire') <= Mailboxes
  BY <1>1, <1>4, <1>5, LinkAssumption DEF TypeOK
<1>9. TypeOK'
  BY <1>1, <1>3, <1>5, <1>8, ReceiverTypeNext DEF TypeOK
<1> QED
  BY <1>3, <1>5, <1>6, <1>7, <1>9 DEF IInv

\* The bus delivers it and will deliver it again.
LEMMA DuplicateOK == ASSUME IInv, Duplicate PROVE IInv'
<1>1. /\ TypeOK /\ WireOK /\ CursorOK /\ DeliveryOK /\ wire # <<>> /\ Feed(Head(wire)) /\ wire' = wire
      /\ UNCHANGED <<pdu, sender, sent, sn, blocks>> /\ faults' = faults + 1
  BY DEF IInv, Duplicate, senderVars
<1>2. LastSent' = LastSent /\ LastSent \in Int
  BY <1>1, LastSentType DEF LastSent
<1>3. /\ delivered' = LastSent - Len(wire) + 1 /\ delivered' \in Nat
      /\ ReceiverOK' /\ Integrity' /\ result' \in Results /\ granted' \in BOOLEAN
  BY <1>1, HeadIsFed
<1>4. Len(wire) \in Nat /\ 1 <= Len(wire)
  BY <1>1, HeadOfWire
<1>5. WireOK'
  BY <1>1, <1>2 DEF WireOK, IsOrdinal, FrameOf
<1>6. DeliveryOK'
  BY <1>1, <1>2, <1>3, <1>4 DEF DeliveryOK
<1>7. CursorOK'
  BY <1>1, <1>2 DEF CursorOK
<1>8. faults' \in Nat
  BY <1>1 DEF TypeOK
<1>9. TypeOK'
  BY <1>1, <1>3, <1>8, ReceiverTypeNext DEF TypeOK
<1> QED
  BY <1>3, <1>5, <1>6, <1>7, <1>9 DEF IInv

\* The bus loses it.
LEMMA LoseOK == ASSUME IInv, Lose PROVE IInv'
<1>1. /\ TypeOK /\ WireOK /\ CursorOK /\ DeliveryOK /\ wire # <<>> /\ wire' = Tail(wire)
      /\ UNCHANGED <<pdu, sender, sent, sn, blocks, rx, result, delivered, granted>>
      /\ faults' = faults + 1
  BY DEF IInv, Lose, senderVars, receiverVars
<1>2. LastSent' = LastSent /\ LastSent \in Int
  BY <1>1, LastSentType DEF LastSent
<1>3. Len(wire) \in Nat /\ 1 <= Len(wire)
  BY <1>1, HeadOfWire
<1>4. /\ WireOK' /\ wire' \in Seq([data : Payload, ordinal : Nat]) /\ Len(wire') = Len(wire) - 1
  BY <1>1, <1>2, WireShrinks
<1>5. DeliveryOK'
  <2>1. delivered \in Int
    BY <1>1 DEF TypeOK
  <2> QED
    BY <1>1, <1>2, <1>3, <1>4, <2>1 DEF DeliveryOK
<1>6. CursorOK'
  BY <1>1, <1>2 DEF CursorOK
<1>7. ReceiverOK' /\ Integrity'
  BY <1>1, ReceiverUntouched DEF receiverVars
<1>8. Len(wire') <= Mailboxes /\ faults' \in Nat
  BY <1>1, <1>3, <1>4, LinkAssumption DEF TypeOK
<1>9. TypeOK'
  BY <1>1, <1>4, <1>8 DEF TypeOK
<1> QED
  BY <1>4, <1>5, <1>6, <1>7, <1>9 DEF IInv

-----------------------------------------------------------------------------
(* The theorems.                                                           *)

\* Every step of the link preserves the inductive invariant.
LEMMA NextOK == ASSUME IInv, [Next]_vars PROVE IInv'
<1>1. CASE SendStart
  BY <1>1, SendStartOK
<1>2. CASE FcReceived
  BY <1>2, FcReceivedOK
<1>3. CASE SendConsecutive
  BY <1>3, SendConsecutiveOK
<1>4. CASE SendFails
  BY <1>4, SendFailsOK
<1>5. CASE Deliver
  BY <1>5, DeliverOK
<1>6. CASE Duplicate
  BY <1>6, DuplicateOK
<1>7. CASE Lose
  BY <1>7, LoseOK
<1>8. CASE UNCHANGED vars
  <2>1. UNCHANGED <<pdu, sender, sent, sn, blocks, wire, rx, result, delivered, granted, faults>>
    BY <1>8 DEF vars, senderVars, receiverVars
  <2>2. LastSent' = LastSent /\ WireOK' /\ DeliveryOK' /\ ReceiverOK' /\ Integrity'
    BY <2>1, WireUntouched, ReceiverUntouched DEF receiverVars
  <2>3. CursorOK' /\ TypeOK'
    BY <2>1, <2>2 DEF IInv, CursorOK, TypeOK
  <2> QED
    BY <2>2, <2>3 DEF IInv
<1> QED
  BY <1>1, <1>2, <1>3, <1>4, <1>5, <1>6, <1>7, <1>8 DEF Next

\* The inductive invariant holds in every state.
LEMMA Invariance == Spec => []IInv
<1>1. Init => IInv
  BY InitOK
<1>2. IInv /\ [Next]_vars => IInv'
  BY NextOK
<1> QED
  BY <1>1, <1>2, PTL DEF Spec

\* The bytes the receiver has accumulated never exceed what the first frame announced, which
\* never exceeds CANLOGGER_UDS_RX_BUF_BYTES, and TxContinue's cursor stays inside the PDU.
THEOREM TypeCorrect == Spec => []TypeOK
<1>1. IInv => TypeOK
  BY DEF IInv
<1> QED
  BY <1>1, Invariance, PTL

\* Whatever frames the bus loses or repeats, and however many turns of the sequence number they
\* amount to, a PDU that CanLogger_IsoTp_RxFeed reports complete is the one that was sent.
THEOREM IntegrityHolds == Spec => []Integrity
<1>1. IInv => Integrity
  BY DEF IInv
<1> QED
  BY <1>1, Invariance, PTL

\* An active receiver has taken no more consecutive frames than were delivered, and the
\* difference is a multiple of the sequence number's period.
THEOREM ReceiverNotAhead == Spec => []NoFrameInvented
<1>1. ASSUME IInv, rx.active
      PROVE  Taken \in 0 .. delivered /\ (delivered - Taken) % SnModulus = 0
  <2>1. PICK n \in Nat : HasTaken(pdu, rx, delivered, n)
    BY <1>1 DEF IInv, ReceiverOK, Holds
  <2>2. Len(rx.buf) = 6 + 7 * n /\ n <= delivered /\ (delivered - n) % SnModulus = 0
    BY <2>1 DEF HasTaken, Offset, FfFirstDl, CfDl
  <2>3. Taken = n
    BY <2>2 DEF Taken, FfFirstDl, CfDl
  <2>4. n \in 0 .. delivered
    <3>1. delivered \in Int
      BY <1>1 DEF IInv, TypeOK
    <3> QED
      BY <2>2, <3>1
  <2> QED
    BY <2>2, <2>3, <2>4, Zenon
<1>2. IInv => NoFrameInvented
  BY <1>1 DEF NoFrameInvented
<1> QED
  BY <1>2, Invariance, PTL
=============================================================================
