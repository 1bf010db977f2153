----------------------------- MODULE MCStateManager -----------------------------
(* The trees of two keys that part at the second bit, with the value 1: what *)
(* Smt::set does to them is what SmtTree computes, and the four roots and    *)
(* the nodes under them are known by their numbers.                          *)
EXTENDS StateManager, TLC

KeyA == [bits |-> <<0, 0>>, tail |-> 1]
KeyB == [bits |-> <<0, 1>>, tail |-> 2]

T == INSTANCE SmtTree WITH Keys <- {KeyA, KeyB}, Values <- {1}

LeafAt(key, level) == T!Leaf(T!RemoveKeyBits(key, level), T!Value(1))
Fork == T!Branch(LeafAt(KeyA, 2), LeafAt(KeyB, 2))
Trees == <<T!Zero, LeafAt(KeyA, 0), LeafAt(KeyB, 0), T!Branch(Fork, T!Zero)>>
AllNodes == Tail(Trees) \o <<Fork, LeafAt(KeyA, 2), LeafAt(KeyB, 2), T!Value(1)>>

Number(seq, x) == CHOOSE i \in DOMAIN seq : seq[i] = x
Numbers(nodes) == {Number(AllNodes, node) : node \in nodes}

Contents == [i \in DOMAIN Trees |-> Numbers(T!NodesOf(Trees[i]))]
Results ==
  [i \in DOMAIN Trees |->
     {LET r == T!Set(Trees[i], key, value)
      IN  [newRoot |-> Number(Trees, r.newRoot), writes |-> Numbers(r.writes),
           deletes |-> Numbers(r.deletes)] :
        key \in {KeyA, KeyB}, value \in {0, 1}}]

MCRoots == DOMAIN Trees
MCNodesUnder(root) == Contents[root]
MCSetsOf(root) == Results[root]

Symmetry == Permutations(Batches)
=============================================================================
