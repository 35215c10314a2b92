----------------------------- MODULE WireFormat -----------------------------
(***************************************************************************)
(* The packets of the host link: how CanLogger_HostStream.c lays them out  *)
(* and how the Parser of can_logger_host.py takes them apart again.        *)
(*                                                                         *)
(* On the C28x a char has 16 bits: a uint8_t is a cell of 16 bits, a       *)
(* uint64_t takes four of them, and memcpy counts cells. The serial write  *)
(* sends the low octet of each cell. Numbers of more than 16 bits are      *)
(* sequences of cells here, and of octets on the host, low end first.      *)
(***************************************************************************)
EXTENDS Integers, SequencesExt, Bitwise

CellModulus == 65536
OctetModulus == 256
Cell == 0 .. CellModulus - 1
Octet == 0 .. OctetModulus - 1

Sync0 == 170
Sync1 == 85
FrameType == 0
StatusType == 1

\* The packet around a payload: two sync octets, type, length, payload, CRC.
Overhead == 5

OctetsOf(cells) == [i \in DOMAIN cells |-> cells[i] % OctetModulus]

-----------------------------------------------------------------------------
(* CRC-8, polynomial 0x07, in registers of the given width.                *)

ShiftOut(c, modulus) ==
  LET shifted == (2 * c) % modulus IN
    IF (c \div 128) % 2 = 1 THEN shifted ^^ 7 ELSE shifted

Crc8(values, modulus) ==
  LET
    shift[c \in 0 .. modulus - 1, k \in 0 .. 8] ==
      IF k = 0 THEN c ELSE ShiftOut(shift[c, k - 1], modulus)
    crc[n \in 0 .. Len(values)] ==
      IF n = 0 THEN 0 ELSE shift[crc[n - 1] ^^ values[n], 8]
  IN crc[Len(values)]

-----------------------------------------------------------------------------
(* The firmware: payloads in cells, packets as a sequence of serial writes. *)

\* A frame as it lies in memory, up to its data.
Image(f) == f.ts \o f.id \o <<f.flags, f.dlen, f.chan>>

\* The length is copied before the flags.
FramePayload_Swapped(f) ==
  SubSeq(Image(f), 1, 8) \o SubSeq(Image(f), 5, 8) \o <<f.dlen, f.flags, f.chan>> \o f.data

\* CanLogger_HostStream_SendFrame: 8 cells from ts_us on, 4 cells from id on.
FramePayload(f) ==
  SubSeq(Image(f), 1, 8) \o SubSeq(Image(f), 5, 8) \o <<f.flags, f.dlen, f.chan>> \o f.data

\* CanLogger_HostStream_SendStatus: ts, rx and drops are copied with the cells that happen to
\* lie behind them.
StatusPayload(s, stray) ==
  s.ts \o stray \o <<s.busload, s.errstate, s.tec, s.rec>>
    \o s.rx \o SubSeq(stray, 1, 2) \o s.drops \o SubSeq(stray, 3, 4)

\* CanLogger_SendPacket: its four serial writes.
SendPacket(type, payload) ==
  <<<<Sync0, Sync1>>, <<type, Len(payload)>>, OctetsOf(payload),
    <<Crc8(<<type, Len(payload)>> \o payload, CellModulus) % OctetModulus>>>>

-----------------------------------------------------------------------------
(* The host: Parser.feed and parse_frame.                                  *)

IsSync(b, i) == b[i] = Sync0 /\ b[i + 1] = Sync1

\* A packet with a wrong CRC is skipped as a whole.
AfterBadCrc_SkipsPacket(i, end) == end

\* Only the sync of a packet with a wrong CRC is skipped.
AfterBadCrc(i, end) == i + 2

\* An octet that ends the buffer cannot begin a sync.
Skippable_LastToo(b, i) == i <= Len(b) /\ (i = Len(b) \/ ~IsSync(b, i))

\* The search for a sync passes over this octet.
Skippable(b, i) == i < Len(b) /\ ~IsSync(b, i)

\* A packet that ends the buffer is waited for as well.
Incomplete_LastToo(b, last) == last >= Len(b)

\* The packet goes on behind the buffer.
Incomplete(b, last) == last > Len(b)

\* Parser.feed on the buffer: the packets found, and what is kept for the next call.
Parse(b) ==
  LET
    Stop(i) == [packets |-> <<>>, rest |-> SubSeq(b, i, Len(b))]
    found[i \in 1 .. Len(b) + 1] == IF Skippable(b, i) THEN found[i + 1] ELSE i
    scan[from \in 1 .. Len(b) + 1] ==
      LET i == found[from] IN
      IF i + 3 > Len(b) THEN Stop(i)
      ELSE LET last == i + 4 + b[i + 3]
               body == SubSeq(b, i + 2, last - 1)
           IN  IF Incomplete(b, last) THEN Stop(i)
               ELSE IF Crc8(body, OctetModulus) # b[last] THEN scan[AfterBadCrc(i, last + 1)]
               ELSE [scan[last + 1] EXCEPT !.packets =
                       <<[type |-> body[1], payload |-> SubSeq(body, 3, Len(body))]>> \o @]
  IN scan[1]

\* parse_frame, with ts and id as their octets
ParseFrame(p) ==
  [ts |-> SubSeq(p, 1, 8), id |-> SubSeq(p, 9, 12),
   flags |-> p[13], dlen |-> p[14], chan |-> p[15], data |-> SubSeq(p, 16, Min({15 + p[14], Len(p)}))]
=============================================================================
