----------------------------- MODULE MCHostLink -----------------------------
(* HostLink on a frame and STATUS values whose octets look like packets. *)
EXTENDS HostLink

\* A frame that carries a sync.
OneFrame ==
  <<[ts |-> <<1002, 2, 0, 0>>, id |-> <<1952, 0>>, flags |-> 3, dlen |-> 2, chan |-> 0,
     data |-> <<170, 85>>]>>

\* The low octets of the time stamp are a sync that announces 200 octets.
OneStatus ==
  <<[ts |-> <<43690, 21845, 1, 200>>, busload |-> 40, errstate |-> 0, tec |-> 0, rec |-> 0,
     rx |-> <<7, 0>>, drops |-> <<1, 0>>]>>

Noisy == {<<0, 0, 0, 0>>, <<43690, 85, 1, 20>>}
=============================================================================
