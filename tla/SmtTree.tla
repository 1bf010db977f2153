-------------------------------- MODULE SmtTree --------------------------------
(***************************************************************************)
(* The sparse Merkle tree algorithms of src/src/hashdb/smt.cpp: Smt::set   *)
(* and Smt::get, as operators on trees.                                    *)
(*                                                                         *)
(* Poseidon is taken to be injective, so the hash of a node is the node:   *)
(* a root is a tree, and a node is stored under itself.  A key is its bits *)
(* in the order of splitKey() and a tail that stands for the bits beyond   *)
(* the depth of the model; keys have distinct tails, as hashes have.       *)
(***************************************************************************)
EXTENDS Naturals, Sequences

CONSTANTS Keys,      \* records [bits, tail]
          Values     \* the values other than 0

Depth == Len((CHOOSE key \in Keys : TRUE).bits)

ASSUME KeysAssumption ==
  /\ Keys # {} /\ 0 \notin Values
  /\ \A key \in Keys : /\ key = [bits |-> key.bits, tail |-> key.tail]
                       /\ key.bits \in Seq({0, 1}) /\ Len(key.bits) = Depth
  /\ \A key, other \in Keys :
       key.bits = other.bits \/ key.tail = other.tail => key = other

Zero == <<>>
Value(v) == <<"value", v>>
Leaf(rkey, valueHash) == <<"leaf", rkey, valueHash>>
Branch(left, right) == <<"branch", left, right>>

IsLeaf(node) == node # Zero /\ node[1] = "leaf"
IsBranch(node) == node # Zero /\ node[1] = "branch"
Child(node, bit) == node[bit + 2]
Join(bit, node, sibling) ==
  IF bit = 0 THEN Branch(node, sibling) ELSE Branch(sibling, node)

NoKey == [bits |-> <<>>, tail |-> 0]

RemoveKeyBits(key, n) == [key EXCEPT !.bits = SubSeq(@, n + 1, Len(@))]

JoinKey(bits, rkey) == [rkey EXCEPT !.bits = bits \o @]

\* getUniqueSibling() finds one child that is not zero.
HasUniqueSibling(node) == (Child(node, 0) = Zero) # (Child(node, 1) = Zero)

Children(node) == IF IsLeaf(node) THEN {node[3]}
                  ELSE IF IsBranch(node) THEN {node[2], node[3]} \ {Zero} ELSE {}

\* Every node under a root, the values included.
NodesOf(root) ==
  LET upTo[n \in 0 .. Depth + 1] ==
        IF n = 0 THEN {root} \ {Zero}
        ELSE upTo[n - 1] \cup UNION {Children(node) : node \in upTo[n - 1]}
  IN  upTo[Depth + 1]

-----------------------------------------------------------------------------
(* Going down. *)

\* path[i] is the node at level i on the way to the key.
Path(root, key) ==
  LET path[i \in 0 .. Len(key.bits)] ==
        IF i = 0 THEN root
        ELSE IF IsBranch(path[i - 1]) THEN Child(path[i - 1], key.bits[i])
        ELSE Zero
  IN  path

\* Where the way ends: at a leaf, or at an empty place.
Descent(root, key) ==
  LET path  == Path(root, key)
      level == CHOOSE i \in DOMAIN path :
                 /\ ~IsBranch(path[i])
                 /\ \A j \in DOMAIN path : j < i => IsBranch(path[j])
      found == IsLeaf(path[level])
  IN  [path |-> path, level |-> level, end |-> path[level], found |-> found,
       key |-> IF found THEN JoinKey(SubSeq(key.bits, 1, level), path[level][2])
                        ELSE NoKey,
       value |-> IF found THEN path[level][3][2] ELSE 0]

\* The nodes that the way down reads from the database.
ReadOnTheWay(d) ==
  {d.path[i] : i \in {j \in 0 .. d.level : d.path[j] # Zero}}
    \cup (IF d.found THEN {d.end[3]} ELSE {})

\* Mutant: a leaf found is taken for the key's without comparing the keys.
HitsAnyLeaf(d, key) == d.found

Hits(d, key) == d.found /\ d.key = key

\* The siblings kept in a result: the other child of each level above n.
Siblings(d, key, n) ==
  [i \in 1 .. n |-> Child(d.path[i - 1], 1 - key.bits[i])]

Get(root, key) ==
  LET d   == Descent(root, key)
      ins == d.found /\ ~Hits(d, key)
  IN  [isSet |-> FALSE, mode |-> "get", key |-> key, oldRoot |-> root,
       value |-> IF Hits(d, key) THEN d.value ELSE 0,
       isOld0 |-> ~ins,
       insKey |-> IF ins THEN d.key ELSE NoKey,
       insValue |-> IF ins THEN d.value ELSE 0,
       siblings |-> Siblings(d, key, d.level),
       reads |-> ReadOnTheWay(d)]

-----------------------------------------------------------------------------
(* What a set puts in place of which node.  A change is the level where    *)
(* the tree changes, the new branch there, the nodes saved for it and the  *)
(* nodes that deleteNode() is told of.                                     *)

Change(mode, level, branch, saved, freed, reads, insKey, insValue, isOld0) ==
  [mode |-> mode, level |-> level, branch |-> branch, saved |-> saved,
   freed |-> freed, reads |-> reads, insKey |-> insKey, insValue |-> insValue,
   isOld0 |-> isOld0]

\* Nothing is freed at the top of the tree, nor an empty place.
Freed(d) == IF d.level = 0 THEN {} ELSE {d.end} \ {Zero}

Update(d, key, value) ==
  LET leaf == Leaf(d.end[2], Value(value))
  IN  Change("update", d.level, leaf, {Value(value), leaf},
             Freed(d) \ {leaf}, {}, NoKey, 0, TRUE)

\* The leaf found moves down to where the two keys part; the leaf that it
\* was is not freed.
InsertFound(d, key, value) ==
  LET part == CHOOSE i \in d.level .. Len(key.bits) - 1 :
                /\ key.bits[i + 1] # d.key.bits[i + 1]
                /\ \A j \in d.level .. i - 1 :
                     key.bits[j + 1] = d.key.bits[j + 1]
      new  == Leaf(RemoveKeyBits(key, part + 1), Value(value))
      old  == Leaf(RemoveKeyBits(d.key, part + 1), d.end[3])
      fork[i \in d.level .. part] ==
        Join(key.bits[i + 1], IF i = part THEN new ELSE fork[i + 1],
                              IF i = part THEN old ELSE Zero)
  IN  Change("insertFound", d.level, fork[d.level],
             {Value(value), new, old} \cup {fork[i] : i \in d.level .. part},
             {}, {}, d.key, d.value, FALSE)

InsertNotFound(d, key, value) ==
  LET leaf == Leaf(RemoveKeyBits(key, d.level), Value(value))
  IN  Change("insertNotFound", d.level, leaf, {Value(value), leaf},
             Freed(d), {}, NoKey, 0, TRUE)

DeleteLast(d, key) ==
  Change("deleteLast", 0, Zero, {}, {}, {}, NoKey, 0, TRUE)

\* Mutant: the leaf that is left alone moves up one level only.
TopOfOneLevel(d) == d.level - 1

\* The leaf left alone climbs while the nodes above have no other child.
TopOfLoneLeaf(d) ==
  CHOOSE n \in 0 .. d.level - 1 :
    /\ n = 0 \/ ~HasUniqueSibling(d.path[n - 1])
    /\ \A j \in n + 1 .. d.level - 1 : HasUniqueSibling(d.path[j - 1])

DeleteFound(d, key) ==
  LET bit  == 1 - key.bits[d.level]
      lone == Child(d.path[d.level - 1], bit)
      insKey == JoinKey(Append(SubSeq(key.bits, 1, d.level - 1), bit), lone[2])
      leaf == Leaf(RemoveKeyBits(insKey, TopOfLoneLeaf(d)), lone[3])
  IN  Change("deleteFound", TopOfLoneLeaf(d), leaf, {leaf}, {d.end},
             {lone, lone[3]}, insKey, lone[3][2], FALSE)

DeleteNotFound(d, key) ==
  Change("deleteNotFound", d.level, Zero, {}, {d.end},
         {Child(d.path[d.level - 1], 1 - key.bits[d.level])} \ {Zero},
         NoKey, 0, TRUE)

\* Mutant: isOld0 is left true where another leaf was found.
ZeroToZeroOld0(d, key) ==
  Change("zeroToZero", d.level, d.end, {}, {}, {}, d.key, d.value, TRUE)

ZeroToZero(d, key) ==
  Change("zeroToZero", d.level, d.end, {}, {}, {},
         d.key, d.value, ~d.found)

ChangeOf(d, key, value) ==
  IF value # 0
  THEN IF ~d.found THEN InsertNotFound(d, key, value)
       ELSE IF Hits(d, key) THEN Update(d, key, value)
       ELSE InsertFound(d, key, value)
  ELSE IF ~Hits(d, key) THEN ZeroToZero(d, key)
       ELSE IF d.level = 0 THEN DeleteLast(d, key)
       ELSE IF IsLeaf(Child(d.path[d.level - 1], 1 - key.bits[d.level]))
            THEN DeleteFound(d, key) ELSE DeleteNotFound(d, key)

\* The nodes of the path above a change, from its level to the root.
Climb(d, key, c) ==
  LET up[i \in 0 .. c.level] ==
        IF i = c.level THEN c.branch
        ELSE Join(key.bits[i + 1], up[i + 1],
                  Child(d.path[i], 1 - key.bits[i + 1]))
  IN  up

\* Mutant: the sibling of the path is freed instead of the node replaced.
ReplacedSiblings(d, key, up, n) ==
  {Child(d.path[i - 1], 1 - key.bits[i]) : i \in 1 .. n - 1} \ {Zero}

\* The nodes below the root that the climb replaces by others.
Replaced(d, key, up, n) ==
  {d.path[i] : i \in {j \in 1 .. n - 1 : d.path[j] # up[j]}}

\* Mutant: the new root is not saved.
SavedButTheRoot(c, up) == c.saved \cup {up[i] : i \in 1 .. c.level - 1}

\* The nodes given to hashSave().
Saved(c, up) == c.saved \cup {up[i] : i \in 0 .. c.level - 1}

Set(root, key, value) ==
  LET d  == Descent(root, key)
      c  == ChangeOf(d, key, value)
      up == Climb(d, key, c)
  IN  [isSet |-> TRUE, mode |-> c.mode, key |-> key, oldRoot |-> root,
       newRoot |-> up[0],
       oldValue |-> IF Hits(d, key) THEN d.value ELSE 0,
       newValue |-> value,
       isOld0 |-> c.isOld0, insKey |-> c.insKey, insValue |-> c.insValue,
       siblings |-> Siblings(d, key, c.level),
       reads |-> ReadOnTheWay(d) \cup c.reads,
       writes |-> Saved(c, up),
       deletes |-> c.freed \cup Replaced(d, key, up, c.level)]
=============================================================================
