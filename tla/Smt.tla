---------------------------------- MODULE Smt ----------------------------------
(***************************************************************************)
(* A state tree under any sequence of sets, and the contents it stands for.*)
(* Reads and writes go through the state manager (bUseStateManager).       *)
(***************************************************************************)
EXTENDS StorageMachine

VARIABLES root,      \* the current state root
          contents   \* the value of every key, 0 when it has none

vars == <<root, contents>>

Init ==
  /\ root = Zero
  /\ contents = [key \in Keys |-> 0]

SetKey(key, value) ==
  /\ root' = Set(root, key, value).newRoot
  /\ contents' = [contents EXCEPT ![key] = value]

Next == \E key \in Keys, value \in Values \cup {0} : SetKey(key, value)

Spec == Init /\ [][Next]_vars

-----------------------------------------------------------------------------
(* The reference: the one tree of some contents. *)

Present(prefix) ==
  {key \in Keys : /\ contents[key] # 0
                  /\ SubSeq(key.bits, 1, Len(prefix)) = prefix}

CanonicalTree ==
  LET tree[prefix \in UNION {[1 .. n -> {0, 1}] : n \in 0 .. Depth}] ==
        LET keys == Present(prefix) IN
        IF keys = {} THEN Zero
        ELSE IF \E key \in keys : keys = {key}
        THEN LET key == CHOOSE key \in keys : TRUE
             IN  Leaf(RemoveKeyBits(key, Len(prefix)), Value(contents[key]))
        ELSE Branch(tree[Append(prefix, 0)], tree[Append(prefix, 1)])
  IN  tree[<<>>]

Sets == {Set(root, key, value) : key \in Keys, value \in Values \cup {0}}
Gets == {Get(root, key) : key \in Keys}

-----------------------------------------------------------------------------
(* Properties. *)

\* The root depends on the contents alone, not on the sets, inserts and
\* deletes that led to them (Smt::set, all seven modes): two provers that
\* reach the same contents by other ways agree on the state root.
RootIsCanonical == root = CanonicalTree

\* Smt::get returns the value last set, and 0 for a key never set or
\* deleted, whatever other leaf stands on its way.
GetsAreRight == \A get \in Gets : get.value = contents[get.key]

\* What Smt::set reads is a node of the old tree, and every node of the new
\* tree is one that set saved or one of the old tree: nothing is missing
\* when the new root is read later.
NewTreeIsCovered ==
  \A set \in Sets :
    /\ set.reads \subseteq NodesOf(root)
    /\ NodesOf(set.newRoot) \subseteq NodesOf(root) \cup set.writes

\* What Smt::set gives to deleteNode() is a node of the old tree that the
\* new tree does not use: the purge of StateManager::flush may drop it.
FreedNodesAreUnused ==
  \A set \in Sets :
    /\ set.deletes \subseteq NodesOf(root)
    /\ set.deletes \cap NodesOf(set.newRoot) = {}

\* The result of every set and get latches in the storage machine, which
\* rebuilds both roots from the mode, the siblings and the other key.
LatchesHold == \A action \in Sets \cup Gets : Latches(action)
=============================================================================
