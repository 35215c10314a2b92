------------------------------ MODULE MCAnyBus ------------------------------
(* AnyBus on a handful of requests and of frames, one of each kind. *)
EXTENDS AnyBus

ReadVin == ReadDidRequest(61840)
ReadLong == [ReadVin EXCEPT !.extra = <<1, 2, 3, 4, 5, 6>>]
ShortAndLong == {ReadVin, ReadLong, TesterPresentRequest(TRUE)}

Frame(id, data) == [id |-> id, dlen |-> TxDl, data |-> data]

PositiveSF == Frame(RspId, SingleFrame(<<98, 1>>))
NegativeSF == Frame(RspId, SingleFrame(<<NrSid, RDBI, 49>>))
PendingSF == Frame(RspId, SingleFrame(<<NrSid, RDBI, NrcPending>>))
LongPdu == <<98, 2, 3, 4, 5, 6, 7, 8>>
PositiveFF == Frame(RspId, FirstFrame(LongPdu))
PositiveCF == Frame(RspId, ConsecutiveFrame(LongPdu, FfFirstDl, 1))
HoldOn == Frame(RspId, FlowControl(WAIT, 0, 0))
Empty == [PositiveSF EXCEPT !.dlen = 0]
Foreign == Frame(OtherId, PositiveSF.data)

AnswerFrames == {PositiveSF, NegativeSF, PendingSF, PositiveFF, PositiveCF, HoldOn, Foreign}
OddFrames == {PositiveSF, PositiveCF, HoldOn, Empty}
=============================================================================
