--------------------------------- MODULE MCSmt ---------------------------------
(* Six keys of four bits: a pair that parts at the last bit, and keys that  *)
(* part from it at each bit above.                                          *)
EXTENDS Smt

MCKeys ==
  {[bits |-> <<0, 0, 0, 0>>, tail |-> 1], [bits |-> <<0, 0, 0, 1>>, tail |-> 2],
   [bits |-> <<0, 0, 1, 0>>, tail |-> 3], [bits |-> <<0, 1, 0, 1>>, tail |-> 4],
   [bits |-> <<1, 0, 0, 0>>, tail |-> 5], [bits |-> <<1, 1, 0, 0>>, tail |-> 6]}
=============================================================================
