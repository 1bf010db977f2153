---------------------------- MODULE MCNodeCaches ----------------------------
(* Four nodes that share the places of the table with each other and with  *)
(* the state root, whose four elements are the same place.  The list has   *)
(* room for three records of a node, or four when one of them is small.    *)
EXTENDS NodeCaches, TLC

CONSTANTS w, x, y, z, root

MCPlace == (w :> <<0, 1, 0, 1>>) @@ (x :> <<1, 0, 2, 1>>) @@ (y :> <<0, 2, 3, 0>>)
           @@ (z :> <<3, 1, 4, 4>>) @@ (root :> <<4, 4, 4, 4>>)

MCSize == (w :> 2) @@ (x :> 3) @@ (y :> 3) @@ (z :> 3) @@ (root :> 3)
=============================================================================
