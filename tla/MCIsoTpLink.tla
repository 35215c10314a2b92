----------------------------- MODULE MCIsoTpLink -----------------------------
(* IsoTpLink on PDUs whose bytes tell their position. *)
EXTENDS IsoTpLink

PduOfLength(n) == [i \in 1 .. n |-> (i * 7) % 256]

\* The smallest and the largest single frame, the borders of the first consecutive frame, a wrap
\* of the sequence number (from 6 + 7 * 16 bytes on), and a full buffer, whose length needs the
\* high nibble.
SomePdus == {PduOfLength(n) : n \in {1, 7, 8, 13, 14, 132, 256}}
=============================================================================
