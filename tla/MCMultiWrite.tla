----------------------------- MODULE MCMultiWrite -----------------------------
(* Small instances of MultiWrite for TLC. *)
EXTENDS MultiWrite, TLC

CONSTANTS n1, p1, t1
===============================================================================
