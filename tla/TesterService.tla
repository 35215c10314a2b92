---------------------------- MODULE TesterService ----------------------------
(***************************************************************************)
(* What the UDS client promises the application: requests are served one   *)
(* at a time in the order they were accepted, each ends with exactly one   *)
(* outcome, which is reported if a sink is registered, and the keep-alive  *)
(* of the client is never seen.                                            *)
(***************************************************************************)
EXTENDS Naturals, Sequences

CONSTANTS
  Requests,   \* what the application may ask
  Silent,     \* the requests that no ECU answers
  Depth       \* requests that may wait

VARIABLES
  queue,      \* accepted requests
  inService,  \* <<r>> while r is served, <<>> otherwise
  sink,       \* the application wants reports
  report      \* the last report: [req, result]

vars == <<queue, inService, sink, report>>

\* A silent request never times out: it is sent or it is not.
Outcomes(r) ==
  IF r \in Silent THEN {"OK", "TP_ERROR"} ELSE {"OK", "NEGATIVE", "TIMEOUT", "TP_ERROR"}

Init ==
  /\ queue = <<>>
  /\ inService = <<>>
  /\ sink = FALSE

Submit(r) ==
  /\ Len(queue) < Depth
  /\ queue' = Append(queue, r)
  /\ UNCHANGED <<inService, sink, report>>

RegisterSink ==
  /\ sink' \in BOOLEAN
  /\ UNCHANGED <<queue, inService, report>>

Begin ==
  /\ inService = <<>>
  /\ queue # <<>>
  /\ inService' = <<Head(queue)>>
  /\ queue' = Tail(queue)
  /\ UNCHANGED <<sink, report>>

End ==
  /\ inService # <<>>
  /\ inService' = <<>>
  /\ IF sink
     THEN \E result \in Outcomes(inService[1]) :
            report' = [req |-> inService[1], result |-> result]
     ELSE UNCHANGED report
  /\ UNCHANGED <<queue, sink>>

Next ==
  \/ \E r \in Requests : Submit(r)
  \/ RegisterSink
  \/ Begin
  \/ End

Spec == Init /\ [][Next]_vars

\* Every accepted request is served and ended.
FairSpec == Spec /\ WF_vars(Begin) /\ WF_vars(End)
=============================================================================
