------------------------- MODULE MCAggregatorStream -------------------------
(* A small instance of AggregatorStream for TLC. *)
EXTENDS AggregatorStream

CONSTANTS r1, r2, r3, r4, j1, j2

\* Two jobs with one fault or failure, and one job with two of them.
SmallWorkloads == {[jobs |-> {j1, j2}, troubles |-> 1],
                   [jobs |-> {j1}, troubles |-> 2]}
=============================================================================
