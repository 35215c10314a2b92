------------------------------ MODULE HostLink ------------------------------
(***************************************************************************)
(* The host link: the drain task writes FRAME packets and the monitor      *)
(* writes STATUS packets to the one serial port, and the parser of the     *)
(* host tool reads what comes out of it in chunks of any length.           *)
(*                                                                         *)
(* A packet is four serial writes without a lock around them. The drain    *)
(* task has the higher priority and the port is written without a call of  *)
(* the kernel, so a FRAME packet may come between any two octets of a      *)
(* STATUS packet and never the other way round. The cable may lose octets. *)
(***************************************************************************)
EXTENDS WireFormat

CONSTANTS
  Frames,     \* the frames of one behaviour, in the order of capture
  Statuses,   \* the STATUS values of one behaviour, in order
  Strays,     \* what may lie in memory behind the locals of SendStatus: four cells
  Cuts,       \* octets of a serial write still to come where it may be interrupted
  MaxLost     \* bound: octets the cable loses in one behaviour

ASSUME HostLinkAssumption ==
  /\ \A n \in DOMAIN Frames : Frames[n].dlen = Len(Frames[n].data) /\ Frames[n].dlen <= 64
  /\ \A stray \in Strays : Len(stray) = 4
  /\ Cuts \subseteq Nat \ {0}
  /\ MaxLost \in Nat

VARIABLES
  drain,      \* the drain task's packet: its serial writes still to be done, octets done
  monitor,    \* the monitor's packet, likewise
  link,       \* octets between the serial port and the host: [octet, id]
  lost,       \* bounded count of lost octets
  buf,        \* Parser.buf
  log,        \* the packets the parser has returned
  heard,      \* history: every octet the host has read
  sent,       \* history: the packets begun, in order; the index of a packet is its id
  written,    \* history: ids of the packets written to their last octet, in that order
  spoiled     \* history: ids of the packets cut in two or hit by a loss

hostVars == <<buf, log, heard>>
vars == <<drain, monitor, link, lost, hostVars, sent, written, spoiled>>

Idle == [id |-> 0, writes |-> <<>>, done |-> 0]
Busy(task) == task.writes # <<>>

Init ==
  /\ drain = Idle
  /\ monitor = Idle
  /\ link = <<>>
  /\ lost = 0
  /\ buf = <<>>
  /\ log = <<>>
  /\ heard = <<>>
  /\ sent = <<>>
  /\ written = <<>>
  /\ spoiled = {}

-----------------------------------------------------------------------------
(* The two tasks.                                                          *)

SentOf(type) == SelectSeq(sent, LAMBDA p : p.type = type)

\* A task enters CanLogger_SendPacket.
Packet(type, payload) == [id |-> Len(sent) + 1, writes |-> SendPacket(type, payload), done |-> 0]
Begins(type, payload) == sent' = Append(sent, [type |-> type, payload |-> OctetsOf(payload)])

\* The drain task preempts the monitor wherever that is; a packet under way is cut in two.
DrainSendsFrame ==
  /\ ~Busy(drain)
  /\ Len(SentOf(FrameType)) < Len(Frames)
  /\ LET payload == FramePayload(Frames[Len(SentOf(FrameType)) + 1]) IN
       drain' = Packet(FrameType, payload) /\ Begins(FrameType, payload)
  /\ spoiled' = IF monitor.done > 0 THEN spoiled \cup {monitor.id} ELSE spoiled
  /\ UNCHANGED <<monitor, link, lost, hostVars, written>>

MonitorSendsStatus(stray) ==
  /\ ~Busy(drain) /\ ~Busy(monitor)
  /\ Len(SentOf(StatusType)) < Len(Statuses)
  /\ LET payload == StatusPayload(Statuses[Len(SentOf(StatusType)) + 1], stray) IN
       monitor' = Packet(StatusType, payload) /\ Begins(StatusType, payload)
  /\ UNCHANGED <<drain, link, lost, hostVars, written, spoiled>>

\* A serial write goes on for n octets: to its end or to a cut.
Portions(task) ==
  {n \in 1 .. Len(Head(task.writes)) : Len(Head(task.writes)) - n \in Cuts \cup {0}}
After(task, n) ==
  LET left == SelectSeq(<<SubSeq(Head(task.writes), n + 1, Len(Head(task.writes)))>>
                          \o Tail(task.writes), LAMBDA w : w # <<>>)
  IN  IF left = <<>> THEN Idle ELSE [task EXCEPT !.writes = left, !.done = @ + n]
Writes(task, n) ==
  /\ link' = link \o [i \in 1 .. n |-> [octet |-> Head(task.writes)[i], id |-> task.id]]
  /\ written' = IF Busy(After(task, n)) THEN written ELSE Append(written, task.id)

DrainWrites ==
  /\ Busy(drain)
  /\ \E n \in Portions(drain) : Writes(drain, n) /\ drain' = After(drain, n)
  /\ UNCHANGED <<monitor, lost, hostVars, sent, spoiled>>

MonitorWrites ==
  /\ ~Busy(drain) /\ Busy(monitor)
  /\ \E n \in Portions(monitor) : Writes(monitor, n) /\ monitor' = After(monitor, n)
  /\ UNCHANGED <<drain, lost, hostVars, sent, spoiled>>

-----------------------------------------------------------------------------
(* The cable and the host.                                                 *)

CableLoses(i) ==
  /\ lost < MaxLost
  /\ lost' = lost + 1
  /\ link' = RemoveAt(link, i)
  /\ spoiled' = spoiled \cup {link[i].id}
  /\ UNCHANGED <<drain, monitor, hostVars, sent, written>>

\* ser.read returns what has arrived; Parser.feed takes it.
HostReads ==
  /\ link # <<>>
  /\ LET chunk == [i \in DOMAIN link |-> link[i].octet]
         parsed == Parse(buf \o chunk)
     IN  /\ buf' = parsed.rest
         /\ log' = log \o parsed.packets
         /\ heard' = heard \o chunk
  /\ link' = <<>>
  /\ UNCHANGED <<drain, monitor, lost, sent, written, spoiled>>

Next ==
  \/ DrainSendsFrame
  \/ \E stray \in Strays : MonitorSendsStatus(stray)
  \/ DrainWrites
  \/ MonitorWrites
  \/ \E i \in DOMAIN link : CableLoses(i)
  \/ HostReads

Spec == Init /\ [][Next]_vars

-----------------------------------------------------------------------------
(* Properties.                                                             *)

\* Type invariant. What the parser keeps is always less than the packet that its first octets
\* announce, so it never grows beyond 259 octets.
TypeOK ==
  /\ \A task \in {drain, monitor} : \A i \in DOMAIN task.writes : task.writes[i] \in Seq(Octet)
  /\ link \in Seq([octet : Octet, id : DOMAIN sent])
  /\ lost \in 0 .. MaxLost
  /\ buf \in Seq(Octet)
  /\ Len(buf) >= 4 => IsSync(buf, 1) /\ Len(buf) < Overhead + buf[4]
  /\ log \in Seq([type : Octet, payload : Seq(Octet)])
  /\ spoiled \subseteq DOMAIN sent

\* The packets written in full, in order, without those of a set of ids.
WrittenBut(ids) ==
  LET others == SelectSeq(written, LAMBDA id : id \notin ids) IN
    [i \in DOMAIN others |-> sent[others[i]]]
SizeOf(packets) == FoldLeft(LAMBDA n, p : n + Overhead + Len(p.payload), 0, packets)

\* One CRC of 8 bits in 256 is right by chance: a packet that lost an octet may be taken for a
\* packet nobody sent, and with it the octets of the next one. Nothing is claimed from there on.
Undeceived == lost = 0 \/ \A i \in DOMAIN log : \E id \in DOMAIN sent : log[i] = sent[id]

\* Whatever is cut or lost before it, between it and the next one or inside another packet,
\* every packet that stays in one piece reaches the host's log, once and in order, and no octet
\* of it is thrown away before: what is not in the log yet is on the cable or held back. Of the
\* packets cut in two or hit by a loss a few may still arrive.
WholePacketsArrive ==
  Undeceived =>
    \E dropped \in SUBSET spoiled :
      LET due == WrittenBut(dropped) IN
        /\ IsPrefix(log, due)
        /\ SizeOf(SubSeq(due, Len(log) + 1, Len(due))) <= Len(link) + Len(buf)

\* How the serial port cuts the stream into chunks makes no difference: log and buffer are
\* what one call with everything heard so far would give.
ChunksDoNotMatter == [packets |-> log, rest |-> buf] = Parse(heard)

\* What the host's log says of a frame's flags, length, channel and data is what was captured.
DataSurvives == Undeceived =>
  \A i \in DOMAIN log : log[i].type = FrameType =>
    \E f \in {Frames[n] : n \in DOMAIN Frames} :
      LET record == ParseFrame(log[i].payload) IN
        /\ <<record.flags, record.dlen, record.chan, record.data>> = <<f.flags, f.dlen, f.chan, f.data>>
        /\ record.ts[1] = f.ts[1] % 256

-----------------------------------------------------------------------------
(* What the README says of the wire format and the C28x refutes.           *)

\* The little-endian octets of a number of 16-bit cells.
LittleEndian(cells) == FlattenSeq([i \in DOMAIN cells |-> <<cells[i] % 256, cells[i] \div 256>>])

\* The wire format matches the host tool: the host logs the frame that was captured.
HostLogsWhatWasCaptured ==
  \A i \in DOMAIN log : log[i].type = FrameType =>
    \E f \in {Frames[n] : n \in DOMAIN Frames} :
      ParseFrame(log[i].payload) = [f EXCEPT !.ts = LittleEndian(f.ts), !.id = LittleEndian(f.id)]
=============================================================================
