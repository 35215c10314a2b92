------------------------------ MODULE MCTester ------------------------------
(* Tester with the requests of the helpers and the ECU's kinds of answers. *)
EXTENDS Tester

ReadOnly == {ReadDidRequest(61840)}
Codes == {ReadDtcRequest(255), ClearDtcRequest(16777215), TesterPresentRequest(FALSE)}
Session == {SessionRequest(3), TesterPresentRequest(TRUE)}

OneFrame == {<<"positive">>, <<"negative">>}
PendingFirst == {<<"pending", "positive">>}
LongAnswer == {<<"long">>}
AnyAnswer == {<<"positive">>, <<"pending", "positive">>, <<"long">>, <<"oversize">>}
=============================================================================
