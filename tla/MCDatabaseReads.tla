--------------------------- MODULE MCDatabaseReads ---------------------------
(* Two nodes, of which a has b below it, that do not fit into the cache    *)
(* together, one program, and two connections: for two threads that read   *)
(* and write anything, or for three that ask for the program at the same   *)
(* time.                                                                   *)
EXTENDS DatabaseReads, TLC

CONSTANTS a, b, p, t1, t2, t3

MCPath == (a :> <<a, b>>) @@ (b :> <<b>>)
MCSize == (a :> 3) @@ (b :> 2) @@ (p :> 2)

MCInitialRows == {{a}, Nodes \cup Programs}

Pair == [threads |-> {t1, t2}, keys |-> Keys, calls |-> 2, troubles |-> 1]
Outage == [threads |-> {t1, t2}, keys |-> {b}, calls |-> 2, troubles |-> 2]
Rush == [threads |-> {t1, t2, t3}, keys |-> Programs, calls |-> 3, troubles |-> 0]
MCWorkloads == {Pair, Outage, Rush}
=============================================================================
