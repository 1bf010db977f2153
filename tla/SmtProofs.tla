------------------------------ MODULE SmtProofs ------------------------------
(***************************************************************************)
(* Proofs about the state tree (Smt.tla), for any keys, depth and values:  *)
(* the tree that Smt::set leads to is the one tree of its contents,        *)
(* Smt::get reads them back, the nodes saved and freed are the right ones, *)
(* and the storage machine rebuilds both roots from every result.          *)
(*                                                                         *)
(* Throughout, TreeOf(c) is the tree of contents c by prefix, and what the *)
(* code meets on the way of a key is the tree at its prefixes.             *)
(***************************************************************************)
EXTENDS Smt, FiniteSetTheorems, WellFoundedInduction, TLAPS

-----------------------------------------------------------------------------
(* The tree of some contents, by prefix. *)

Prefixes == UNION {[1 .. n -> {0, 1}] : n \in 0 .. Depth}

\* The keys that some contents c have below a prefix.
PresentIn(c, p) == {key \in Keys : c[key] # 0 /\ SubSeq(key.bits, 1, Len(p)) = p}

NodeAt(t, c, p) ==
  LET keys == PresentIn(c, p) IN
  IF keys = {} THEN Zero
  ELSE IF \E key \in keys : keys = {key}
  THEN LET key == CHOOSE key \in keys : TRUE
       IN  Leaf(RemoveKeyBits(key, Len(p)), Value(c[key]))
  ELSE Branch(t[Append(p, 0)], t[Append(p, 1)])

IsTree(t, c) == t = [p \in Prefixes |-> NodeAt(t, c, p)]

TreeOf(c) == CHOOSE t : IsTree(t, c)

Contents == [Keys -> Values \cup {0}]

\* The invariant of Smt.
SmtInv == contents \in Contents /\ root = TreeOf(contents)[<<>>]

-----------------------------------------------------------------------------
(* Nodes. *)

LEMMA NodeFacts ==
  /\ ~IsLeaf(Zero) /\ ~IsBranch(Zero)
  /\ \A r, v : /\ Leaf(r, v) # Zero /\ IsLeaf(Leaf(r, v)) /\ ~IsBranch(Leaf(r, v))
               /\ Leaf(r, v)[2] = r /\ Leaf(r, v)[3] = v
  /\ \A a, b : /\ Branch(a, b) # Zero /\ IsBranch(Branch(a, b)) /\ ~IsLeaf(Branch(a, b))
               /\ Child(Branch(a, b), 0) = a /\ Child(Branch(a, b), 1) = b
  /\ \A v : Value(v)[2] = v
BY DEF Zero, Leaf, Branch, IsLeaf, IsBranch, Child, Value

LEMMA LeastNumber ==
  ASSUME NEW S \in SUBSET Nat, S # {}
  PROVE  \E x \in S : \A y \in S : x <= y
<1>1. PICK x \in S : \A y \in S : <<y, x>> \notin OpToRel(<, Nat)
  BY NatLessThanWellFounded, WFMin
<1>2. \A y \in S : ~ (y < x)
  BY <1>1 DEF OpToRel
<1> QED
  BY <1>2

-----------------------------------------------------------------------------
(* Prefixes. *)

Prefix(key, n) == SubSeq(key.bits, 1, n)

LEMMA DepthIsNat == Depth \in Nat
<1>1. PICK key \in Keys : TRUE
  BY KeysAssumption
<1>2. key.bits \in Seq({0, 1}) /\ Len(key.bits) = Depth
  BY KeysAssumption
<1> QED
  BY <1>2

LEMMA BitsOf ==
  ASSUME NEW key \in Keys
  PROVE  /\ key.bits \in Seq({0, 1}) /\ Len(key.bits) = Depth /\ DOMAIN key.bits = 1 .. Depth
         /\ \A i \in 1 .. Depth : key.bits[i] \in {0, 1}
<1>1. key.bits \in Seq({0, 1}) /\ Len(key.bits) = Depth
  BY KeysAssumption
<1> QED
  BY <1>1

LEMMA PrefixesAre ==
  ASSUME NEW p
  PROVE  p \in Prefixes <=> p \in Seq({0, 1}) /\ Len(p) \in 0 .. Depth
<1>1. ASSUME p \in Prefixes PROVE p \in Seq({0, 1}) /\ Len(p) \in 0 .. Depth
  <2>1. PICK n \in 0 .. Depth : p \in [1 .. n -> {0, 1}]
    BY <1>1 DEF Prefixes
  <2> QED
    BY <2>1, DepthIsNat
<1>2. ASSUME p \in Seq({0, 1}), Len(p) \in 0 .. Depth PROVE p \in Prefixes
  <2>1. p \in [1 .. Len(p) -> {0, 1}]
    BY <1>2
  <2> QED
    BY <1>2, <2>1 DEF Prefixes
<1> QED
  BY <1>1, <1>2

LEMMA PrefixFacts ==
  ASSUME NEW key \in Keys, NEW n \in 0 .. Depth
  PROVE  /\ Prefix(key, n) \in Prefixes /\ Prefix(key, n) \in Seq({0, 1}) /\ Len(Prefix(key, n)) = n
         /\ \A i \in 1 .. n : Prefix(key, n)[i] = key.bits[i]
<1> DEFINE b == key.bits
           q == SubSeq(b, 1, n)
<1>1. b \in Seq({0, 1}) /\ Len(b) = Depth /\ Depth \in Nat
  BY BitsOf, DepthIsNat
<1> HIDE DEF b
<1>2. q \in Seq({0, 1}) /\ Len(q) = n /\ \A i \in 1 .. n : q[i] = b[i]
  BY <1>1
<1>3. q \in Prefixes
  <2> HIDE DEF q
  <2> QED
    BY <1>2, PrefixesAre
<1> QED
  BY <1>2, <1>3 DEF Prefix, b

\* Sequences of bits are equal when their elements are.
LEMMA SameBits ==
  ASSUME NEW p \in Seq({0, 1}), NEW q \in Seq({0, 1}), Len(p) = Len(q),
         \A i \in 1 .. Len(p) : p[i] = q[i]
  PROVE  p = q
<1>1. p = [i \in 1 .. Len(p) |-> p[i]] /\ q = [i \in 1 .. Len(q) |-> q[i]]
  OBVIOUS
<1> QED
  BY <1>1

LEMMA NextPrefix ==
  ASSUME NEW p \in Prefixes, Len(p) < Depth, NEW b \in {0, 1}
  PROVE  /\ Append(p, b) \in Prefixes /\ Len(Append(p, b)) = Len(p) + 1
         /\ Append(p, b)[Len(p) + 1] = b
         /\ \A i \in 1 .. Len(p) : Append(p, b)[i] = p[i]
<1> DEFINE q == Append(p, b)
<1>1. p \in Seq({0, 1}) /\ Len(p) \in 0 .. Depth
  BY PrefixesAre
<1>2. /\ q \in Seq({0, 1}) /\ Len(q) = Len(p) + 1 /\ q[Len(p) + 1] = b
      /\ \A i \in 1 .. Len(p) : q[i] = p[i]
  BY <1>1
<1>3. q \in Prefixes
  <2> HIDE DEF q
  <2>1. Len(q) \in 0 .. Depth
    BY <1>1, <1>2, DepthIsNat
  <2> QED
    BY <1>2, <2>1, PrefixesAre
<1> QED
  BY <1>2, <1>3

LEMMA LongerPrefix ==
  ASSUME NEW key \in Keys, NEW n \in 0 .. Depth - 1
  PROVE  /\ n + 1 \in 0 .. Depth /\ n \in 0 .. Depth /\ n + 1 \in 1 .. Depth
         /\ key.bits[n + 1] \in {0, 1} /\ Len(Prefix(key, n)) = n
         /\ Append(Prefix(key, n), key.bits[n + 1]) = Prefix(key, n + 1)
<1> DEFINE p == Prefix(key, n)
           r == Prefix(key, n + 1)
           b == key.bits[n + 1]
<1>1. n + 1 \in 0 .. Depth /\ n \in 0 .. Depth /\ n < Depth /\ n + 1 \in 1 .. Depth /\ n \in Nat
  BY DepthIsNat
<1>2. b \in {0, 1}
  BY <1>1, BitsOf
<1>3. p \in Prefixes /\ Len(p) = n /\ \A i \in 1 .. n : p[i] = key.bits[i]
  BY <1>1, PrefixFacts
<1>4. r \in Seq({0, 1}) /\ Len(r) = n + 1 /\ \A i \in 1 .. n + 1 : r[i] = key.bits[i]
  BY <1>1, PrefixFacts
<1> HIDE DEF p, r
<1>5. /\ Append(p, b) \in Prefixes /\ Len(Append(p, b)) = n + 1
      /\ Append(p, b)[n + 1] = b /\ \A i \in 1 .. n : Append(p, b)[i] = p[i]
  <2> HIDE DEF b
  <2> QED
    BY <1>1, <1>2, <1>3, NextPrefix
<1> DEFINE q == Append(p, b)
<1>6. q \in Seq({0, 1})
  BY <1>5, PrefixesAre
<1> HIDE DEF q
<1>7. q = r
  <2>1. \A i \in 1 .. n + 1 : i = n + 1 \/ i \in 1 .. n
    BY <1>1
  <2>2. \A i \in 1 .. n + 1 : q[i] = r[i]
    BY <1>3, <1>4, <1>5, <2>1 DEF q
  <2> QED
    BY <1>4, <1>5, <1>6, <2>2, SameBits DEF q
<1> QED
  BY <1>1, <1>2, <1>3, <1>7 DEF p, q, r

\* A key is below a longer prefix when it is below the shorter one, and goes on
\* with its bit.
LEMMA BelowLonger ==
  ASSUME NEW key \in Keys, NEW p \in Prefixes, Len(p) < Depth, NEW b \in {0, 1}
  PROVE  Prefix(key, Len(p) + 1) = Append(p, b) <=> Prefix(key, Len(p)) = p /\ key.bits[Len(p) + 1] = b
<1> DEFINE n == Len(p)
<1>1. n \in 0 .. Depth - 1 /\ n \in Nat /\ p \in Seq({0, 1})
  BY PrefixesAre, DepthIsNat
<1>2. /\ Append(Prefix(key, n), key.bits[n + 1]) = Prefix(key, n + 1)
      /\ n + 1 \in 0 .. Depth /\ n \in 0 .. Depth
  <2> HIDE DEF n
  <2> QED
    BY <1>1, LongerPrefix
<1>3. ASSUME Prefix(key, n + 1) = Append(p, b) PROVE Prefix(key, n) = p /\ key.bits[n + 1] = b
  <2>1. /\ Append(p, b)[n + 1] = b /\ \A i \in 1 .. n : Append(p, b)[i] = p[i]
    BY NextPrefix
  <2> HIDE DEF n
  <2>2. \A i \in 1 .. n + 1 : Prefix(key, n + 1)[i] = key.bits[i]
    BY <1>2, PrefixFacts
  <2>3. /\ Prefix(key, n) \in Seq({0, 1}) /\ Len(Prefix(key, n)) = n
        /\ \A i \in 1 .. n : Prefix(key, n)[i] = key.bits[i]
    BY <1>2, PrefixFacts
  <2>4. n + 1 \in 1 .. n + 1 /\ \A i \in 1 .. n : i \in 1 .. n + 1
    BY <1>1
  <2>5. key.bits[n + 1] = b /\ \A i \in 1 .. n : Prefix(key, n)[i] = p[i]
    BY <1>3, <2>1, <2>2, <2>3, <2>4
  <2>6. Prefix(key, n) = p
    BY <1>1, <2>3, <2>5, SameBits DEF n
  <2> QED
    BY <2>5, <2>6
<1>4. ASSUME Prefix(key, n) = p, key.bits[n + 1] = b PROVE Prefix(key, n + 1) = Append(p, b)
  BY <1>2, <1>4
<1> QED
  BY <1>3, <1>4

-----------------------------------------------------------------------------
(* Keys below prefixes. *)

LEMMA PresentBelow ==
  ASSUME NEW c, NEW p \in Prefixes, Len(p) < Depth, NEW b \in {0, 1}
  PROVE  PresentIn(c, Append(p, b)) = {key \in PresentIn(c, p) : key.bits[Len(p) + 1] = b}
<1>1. Len(Append(p, b)) = Len(p) + 1
  BY NextPrefix
<1>2. \A key \in Keys : SubSeq(key.bits, 1, Len(p) + 1) = Append(p, b) <=>
                        SubSeq(key.bits, 1, Len(p)) = p /\ key.bits[Len(p) + 1] = b
  BY BelowLonger DEF Prefix
<1> QED
  BY <1>1, <1>2 DEF PresentIn

\* No two keys are below a prefix that has all their bits.
LEMMA OneKeyInTheEnd ==
  ASSUME NEW c, NEW p \in Prefixes, Len(p) = Depth, NEW k \in PresentIn(c, p)
  PROVE  PresentIn(c, p) = {k}
<1>1. \A key \in Keys : SubSeq(key.bits, 1, Depth) = key.bits
  <2> SUFFICES ASSUME NEW key \in Keys PROVE SubSeq(key.bits, 1, Depth) = key.bits
    OBVIOUS
  <2>1. key.bits \in Seq({0, 1}) /\ Len(key.bits) = Depth
    BY BitsOf
  <2>2. \A s \in Seq({0, 1}) : SubSeq(s, 1, Len(s)) = s
    OBVIOUS
  <2> QED
    BY <2>1, <2>2
<1>2. \A key \in PresentIn(c, p) : key \in Keys /\ key.bits = p
  BY <1>1 DEF PresentIn
<1> QED
  BY <1>2, KeysAssumption

Many(c, p) == PresentIn(c, p) # {} /\ \A k \in Keys : PresentIn(c, p) # {k}

LEMMA ManyAreAbove ==
  ASSUME NEW c, NEW p \in Prefixes, Many(c, p)
  PROVE  /\ Len(p) < Depth /\ Append(p, 0) \in Prefixes /\ Append(p, 1) \in Prefixes
         /\ Len(Append(p, 0)) = Len(p) + 1 /\ Len(Append(p, 1)) = Len(p) + 1
<1>1. PICK k \in PresentIn(c, p) : k \in Keys
  BY DEF Many, PresentIn
<1>2. Len(p) # Depth
  BY <1>1, OneKeyInTheEnd DEF Many
<1>3. Len(p) < Depth
  <2>1. Len(p) \in 0 .. Depth
    BY PrefixesAre
  <2> QED
    BY <1>2, <2>1, DepthIsNat
<1> QED
  BY <1>3, NextPrefix

-----------------------------------------------------------------------------
(* The tree exists, and what stands in it. *)

\* The prefixes at a level and below it.
From(n) == {p \in Prefixes : Len(p) >= n}

LEMMA NodeCases ==
  ASSUME NEW t, NEW c, NEW p \in Prefixes
  PROVE  /\ PresentIn(c, p) = {} => NodeAt(t, c, p) = Zero
         /\ \A k \in Keys : PresentIn(c, p) = {k} =>
              NodeAt(t, c, p) = Leaf(RemoveKeyBits(k, Len(p)), Value(c[k]))
         /\ Many(c, p) => NodeAt(t, c, p) = Branch(t[Append(p, 0)], t[Append(p, 1)])
         /\ PresentIn(c, p) = {} \/ (\E k \in Keys : PresentIn(c, p) = {k}) \/ Many(c, p)
<1> DEFINE K == PresentIn(c, p)
<1>1. K \subseteq Keys
  BY DEF PresentIn
<1> HIDE DEF K
<1>2. ASSUME K = {} PROVE NodeAt(t, c, p) = Zero
  BY <1>2 DEF NodeAt, K
<1>3. ASSUME NEW k \in Keys, K = {k}
      PROVE  NodeAt(t, c, p) = Leaf(RemoveKeyBits(k, Len(p)), Value(c[k]))
  <2>1. (CHOOSE key \in K : TRUE) = k /\ K # {} /\ \E key \in K : K = {key}
    BY <1>3
  <2> QED
    BY <2>1 DEF NodeAt, K
<1>4. ASSUME Many(c, p) PROVE NodeAt(t, c, p) = Branch(t[Append(p, 0)], t[Append(p, 1)])
  <2>1. K # {} /\ ~ \E key \in K : K = {key}
    BY <1>1, <1>4 DEF Many, K
  <2> QED
    BY <2>1 DEF NodeAt, K
<1>5. K = {} \/ (\E k \in Keys : K = {k}) \/ Many(c, p)
  BY DEF Many, K
<1> QED
  BY <1>2, <1>3, <1>4, <1>5 DEF K

LEMMA SameNode ==
  ASSUME NEW t, NEW u, NEW c, NEW p \in Prefixes,
         Many(c, p) => t[Append(p, 0)] = u[Append(p, 0)] /\ t[Append(p, 1)] = u[Append(p, 1)]
  PROVE  NodeAt(t, c, p) = NodeAt(u, c, p)
<1>1. CASE PresentIn(c, p) = {}
  BY <1>1, NodeCases
<1>2. CASE \E k \in Keys : PresentIn(c, p) = {k}
  BY <1>2, NodeCases
<1>3. CASE Many(c, p)
  BY <1>3, NodeCases
<1> QED
  BY <1>1, <1>2, <1>3, NodeCases

\* The tree below a level.
TreeFrom(t, c, n) == t = [p \in From(n) |-> NodeAt(t, c, p)]

LEMMA TreeGrows ==
  ASSUME NEW c, NEW n \in 0 .. Depth, NEW t, TreeFrom(t, c, n + 1)
  PROVE  \E u : TreeFrom(u, c, n)
<1> DEFINE u == [p \in From(n) |-> IF p \in From(n + 1) THEN t[p] ELSE NodeAt(t, c, p)]
<1>1. \A p \in Prefixes : Len(p) \in Nat
  BY PrefixesAre, DepthIsNat
<1>2. n \in Nat
  BY DepthIsNat
<1>3. ASSUME NEW p \in From(n), Many(c, p), NEW b \in {0, 1}
      PROVE  Append(p, b) \in From(n + 1) /\ u[Append(p, b)] = t[Append(p, b)]
  <2>1. p \in Prefixes /\ Len(p) >= n
    BY DEF From
  <2>2. Append(p, b) \in Prefixes /\ Len(Append(p, b)) = Len(p) + 1
    BY <1>3, <2>1, ManyAreAbove
  <2> DEFINE q == Append(p, b)
  <2>3. q \in Prefixes /\ Len(q) >= n + 1 /\ Len(q) >= n
    BY <1>1, <1>2, <2>1, <2>2
  <2> HIDE DEF q
  <2>4. q \in From(n + 1) /\ q \in From(n)
    BY <2>3 DEF From
  <2>5. u[q] = t[q]
    BY <2>4
  <2> QED
    BY <2>4, <2>5 DEF q
<1>4. ASSUME NEW p \in From(n) PROVE NodeAt(t, c, p) = NodeAt(u, c, p)
  <2>1. p \in Prefixes
    BY DEF From
  <2> HIDE DEF u
  <2>2. Many(c, p) => t[Append(p, 0)] = u[Append(p, 0)] /\ t[Append(p, 1)] = u[Append(p, 1)]
    BY <1>3
  <2> QED
    BY <2>1, <2>2, SameNode
<1>5. \A p \in From(n) : u[p] = NodeAt(t, c, p)
  <2> SUFFICES ASSUME NEW p \in From(n) PROVE u[p] = NodeAt(t, c, p)
    OBVIOUS
  <2>1. p \in From(n + 1) => t[p] = NodeAt(t, c, p)
    BY DEF TreeFrom
  <2> QED
    BY <2>1
<1>6. u = [p \in From(n) |-> u[p]]
  OBVIOUS
<1> HIDE DEF u
<1>7. u = [p \in From(n) |-> NodeAt(u, c, p)]
  BY <1>4, <1>5, <1>6
<1> QED
  BY <1>7 DEF TreeFrom

LEMMA TreeExists ==
  ASSUME NEW c
  PROVE  IsTree(TreeOf(c), c)
<1> DEFINE Bad == {m \in Nat : m <= Depth + 1 /\ ~ \E t : TreeFrom(t, c, Depth + 1 - m)}
<1>1. Depth \in Nat
  BY DepthIsNat
<1>2. Bad = {}
  <2> SUFFICES ASSUME Bad # {} PROVE FALSE
    OBVIOUS
  <2>1. Bad \in SUBSET Nat
    OBVIOUS
  <2> HIDE DEF Bad
  <2>2. PICK m \in Bad : \A k \in Bad : m <= k
    BY <2>1, LeastNumber
  <2>3. m \in Nat /\ m <= Depth + 1 /\ ~ \E t : TreeFrom(t, c, Depth + 1 - m)
    BY DEF Bad
  <2>4. m # 0
    <3>1. From(Depth + 1) = {}
      <4>1. \A p \in Prefixes : Len(p) \in 0 .. Depth
        BY PrefixesAre
      <4> QED
        BY <1>1, <4>1 DEF From
    <3>2. TreeFrom([p \in {} |-> 0], c, Depth + 1)
      BY <3>1 DEF TreeFrom
    <3>3. Depth + 1 - 0 = Depth + 1
      BY <1>1
    <3> QED
      BY <2>3, <3>2, <3>3
  <2>5. m - 1 \in Nat /\ m - 1 <= Depth + 1 /\ ~ (m <= m - 1)
    BY <1>1, <2>3, <2>4
  <2>6. m - 1 \notin Bad
    BY <2>2, <2>5
  <2>7. \E t : TreeFrom(t, c, Depth + 1 - (m - 1))
    BY <2>5, <2>6 DEF Bad
  <2>8. Depth + 1 - (m - 1) = (Depth + 1 - m) + 1 /\ Depth + 1 - m \in 0 .. Depth
    BY <1>1, <2>3, <2>4
  <2> QED
    BY <2>3, <2>7, <2>8, TreeGrows
<1>3. \E t : TreeFrom(t, c, 0)
  <2>1. Depth + 1 \in Nat /\ Depth + 1 <= Depth + 1 /\ Depth + 1 - (Depth + 1) = 0
    BY <1>1
  <2>2. Depth + 1 \notin Bad
    BY <1>2
  <2> QED
    BY <2>1, <2>2
<1>4. From(0) = Prefixes
  BY PrefixesAre, DepthIsNat DEF From
<1>5. \E t : IsTree(t, c)
  BY <1>3, <1>4 DEF TreeFrom, IsTree
<1> QED
  BY <1>5 DEF TreeOf

LEMMA TreeFacts ==
  ASSUME NEW c, NEW p \in Prefixes
  PROVE  /\ PresentIn(c, p) = {} => TreeOf(c)[p] = Zero
         /\ \A k \in Keys : PresentIn(c, p) = {k} =>
              TreeOf(c)[p] = Leaf(RemoveKeyBits(k, Len(p)), Value(c[k]))
         /\ Many(c, p) => TreeOf(c)[p] = Branch(TreeOf(c)[Append(p, 0)], TreeOf(c)[Append(p, 1)])
         /\ PresentIn(c, p) = {} \/ (\E k \in Keys : PresentIn(c, p) = {k}) \/ Many(c, p)
<1> DEFINE t == TreeOf(c)
<1>1. t = [q \in Prefixes |-> NodeAt(t, c, q)]
  BY TreeExists DEF IsTree
<1> HIDE DEF t
<1>2. t[p] = NodeAt(t, c, p)
  BY <1>1
<1> QED
  BY <1>2, NodeCases DEF t

\* What a node of the tree is tells what is below it.
LEMMA NodeTells ==
  ASSUME NEW c, NEW p \in Prefixes
  PROVE  /\ IsBranch(TreeOf(c)[p]) <=> Many(c, p)
         /\ IsLeaf(TreeOf(c)[p]) <=> \E k \in Keys : PresentIn(c, p) = {k}
         /\ TreeOf(c)[p] = Zero <=> PresentIn(c, p) = {}
<1>1. CASE PresentIn(c, p) = {}
  BY <1>1, TreeFacts, NodeFacts DEF Many
<1>2. CASE \E k \in Keys : PresentIn(c, p) = {k}
  BY <1>2, TreeFacts, NodeFacts DEF Many
<1>3. CASE Many(c, p)
  BY <1>3, TreeFacts, NodeFacts DEF Many
<1> QED
  BY <1>1, <1>2, <1>3, TreeFacts

\* The same keys with the same values make the same tree.
LEMMA SameTree ==
  ASSUME NEW c, NEW e, NEW p \in Prefixes,
         PresentIn(c, p) = PresentIn(e, p), \A k \in PresentIn(c, p) : c[k] = e[k]
  PROVE  TreeOf(c)[p] = TreeOf(e)[p]
<1> DEFINE t == TreeOf(c)
           u == TreeOf(e)
           same(q) == PresentIn(c, q) = PresentIn(e, q) /\ \A k \in PresentIn(c, q) : c[k] = e[k]
           Bad == {m \in Nat : \E q \in Prefixes : m = Depth - Len(q) /\ same(q) /\ t[q] # u[q]}
<1>1. Depth \in Nat /\ \A q \in Prefixes : Len(q) \in 0 .. Depth
  BY DepthIsNat, PrefixesAre
<1>2. Bad = {}
  <2> SUFFICES ASSUME Bad # {} PROVE FALSE
    OBVIOUS
  <2>1. Bad \in SUBSET Nat
    OBVIOUS
  <2>2. PICK m \in Bad : \A k \in Bad : m <= k
    <3> HIDE DEF Bad
    <3> QED
      BY <2>1, LeastNumber
  <2>3. PICK q \in Prefixes : m = Depth - Len(q) /\ same(q) /\ t[q] # u[q]
    OBVIOUS
  <2>4. ASSUME NEW b \in {0, 1}, Many(c, q) PROVE t[Append(q, b)] = u[Append(q, b)]
    <3> DEFINE r == Append(q, b)
    <3>1. Len(q) < Depth /\ r \in Prefixes /\ Len(r) = Len(q) + 1
      BY <2>4, ManyAreAbove
    <3>2. PresentIn(c, r) = {key \in PresentIn(c, q) : key.bits[Len(q) + 1] = b}
      BY <3>1, PresentBelow
    <3>3. PresentIn(e, r) = {key \in PresentIn(e, q) : key.bits[Len(q) + 1] = b}
      BY <3>1, PresentBelow
    <3>4. same(r)
      BY <2>3, <3>2, <3>3
    <3>5. Depth - Len(r) \in Nat /\ ~ (m <= Depth - Len(r))
      <4> HIDE DEF r
      <4> QED
        BY <1>1, <2>3, <3>1
    <3> HIDE DEF r, same, t, u
    <3>6. Depth - Len(r) \notin Bad
      <4> HIDE DEF Bad
      <4> QED
        BY <2>2, <3>5
    <3>7. t[r] = u[r]
      BY <3>1, <3>4, <3>5, <3>6
    <3> QED
      BY <3>7 DEF r
  <2>5. t[q] = u[q]
    <3>1. CASE PresentIn(c, q) = {}
      <4>1. PresentIn(e, q) = {}
        BY <2>3, <3>1
      <4>2. TreeOf(c)[q] = Zero /\ TreeOf(e)[q] = Zero
        BY <3>1, <4>1, TreeFacts
      <4> QED
        BY <4>2
    <3>2. CASE \E k \in Keys : PresentIn(c, q) = {k}
      <4>1. PICK k \in Keys : PresentIn(c, q) = {k}
        BY <3>2
      <4>2. PresentIn(e, q) = {k} /\ c[k] = e[k]
        BY <2>3, <4>1
      <4>3. /\ TreeOf(c)[q] = Leaf(RemoveKeyBits(k, Len(q)), Value(c[k]))
            /\ TreeOf(e)[q] = Leaf(RemoveKeyBits(k, Len(q)), Value(e[k]))
        BY <4>1, <4>2, TreeFacts
      <4> QED
        BY <4>2, <4>3
    <3>3. CASE Many(c, q)
      <4>1. Many(e, q)
        BY <2>3, <3>3 DEF Many
      <4> QED
        BY <2>4, <3>3, <4>1, TreeFacts
    <3> QED
      BY <3>1, <3>2, <3>3, TreeFacts
  <2> QED
    BY <2>3, <2>5
<1>3. Depth - Len(p) \in Nat /\ same(p)
  BY <1>1
<1> QED
  BY <1>2, <1>3

-----------------------------------------------------------------------------
(* Keys, their bits, and what is present below the prefixes of a key. *)

LEMMA BitsJoined ==
  ASSUME NEW b \in Seq({0, 1}), NEW n \in 0 .. Len(b)
  PROVE  SubSeq(b, 1, n) \o SubSeq(b, n + 1, Len(b)) = b
<1> DEFINE s == SubSeq(b, 1, n)
           r == SubSeq(b, n + 1, Len(b))
<1>1. /\ n \in Nat /\ Len(b) \in Nat /\ n <= Len(b)
  OBVIOUS
<1>2. s \in Seq({0, 1}) /\ Len(s) = n /\ \A i \in 1 .. n : s[i] = b[i]
  BY <1>1
<1>3. r \in Seq({0, 1}) /\ Len(r) = Len(b) - n /\ \A i \in 1 .. Len(b) - n : r[i] = b[n + i]
  BY <1>1
<1> HIDE DEF s, r
<1>4. s \o r \in Seq({0, 1}) /\ Len(s \o r) = Len(b)
  <2>1. s \in Seq({0, 1}) /\ r \in Seq({0, 1})
    BY <1>2, <1>3
  <2>2. s \o r \in Seq({0, 1}) /\ Len(s \o r) = Len(s) + Len(r)
    BY <2>1
  <2>3. Len(s) + Len(r) = Len(b)
    BY <1>1, <1>2, <1>3
  <2> QED
    BY <2>2, <2>3
<1>5. \A i \in 1 .. Len(b) : (s \o r)[i] = b[i]
  <2> SUFFICES ASSUME NEW i \in 1 .. Len(b) PROVE (s \o r)[i] = b[i]
    OBVIOUS
  <2>1. CASE i <= n
    BY <1>1, <1>2, <1>3, <2>1
  <2>2. CASE i > n
    <3>1. i - n \in 1 .. Len(b) - n /\ n + (i - n) = i
      BY <1>1, <2>2
    <3>2. (s \o r)[i] = r[i - n]
      BY <1>1, <1>2, <1>3, <2>2
    <3>3. r[i - n] = b[n + (i - n)]
      BY <1>3, <3>1
    <3> QED
      BY <3>1, <3>2, <3>3
  <2>3. i <= n \/ i > n
    BY <1>1
  <2> QED
    BY <2>1, <2>2, <2>3
<1>6. s \o r = b
  BY <1>4, <1>5, SameBits
<1> QED
  BY <1>6 DEF s, r

LEMMA KeyRemoved ==
  ASSUME NEW key \in Keys, NEW n \in Nat
  PROVE  /\ RemoveKeyBits(key, n).bits = SubSeq(key.bits, n + 1, Len(key.bits))
         /\ RemoveKeyBits(key, n).tail = key.tail
         /\ RemoveKeyBits(key, n) = [bits |-> SubSeq(key.bits, n + 1, Len(key.bits)), tail |-> key.tail]
<1>1. key = [bits |-> key.bits, tail |-> key.tail]
  BY KeysAssumption
<1> DEFINE r == SubSeq(key.bits, n + 1, Len(key.bits))
<1>2. RemoveKeyBits(key, n) = [key EXCEPT !.bits = r]
  BY DEF RemoveKeyBits
<1> HIDE DEF r
<1>3. [key EXCEPT !.bits = r] = [bits |-> r, tail |-> key.tail]
  BY <1>1
<1> QED
  BY <1>2, <1>3 DEF r

\* JoinKey() undoes RemoveKeyBits().
LEMMA KeyJoined ==
  ASSUME NEW key \in Keys, NEW n \in 0 .. Depth
  PROVE  JoinKey(Prefix(key, n), RemoveKeyBits(key, n)) = key
<1>1. n \in Nat /\ n \in 0 .. Len(key.bits) /\ key.bits \in Seq({0, 1})
  BY BitsOf, DepthIsNat
<1> DEFINE r == SubSeq(key.bits, n + 1, Len(key.bits))
           b == Prefix(key, n) \o r
<1>2. b = key.bits
  BY <1>1, BitsJoined DEF Prefix
<1>3. RemoveKeyBits(key, n) = [bits |-> r, tail |-> key.tail]
  BY <1>1, KeyRemoved
<1>4. JoinKey(Prefix(key, n), RemoveKeyBits(key, n))
        = [[bits |-> r, tail |-> key.tail] EXCEPT !.bits = b]
  BY <1>3 DEF JoinKey
<1> HIDE DEF b, r
<1>5. [[bits |-> r, tail |-> key.tail] EXCEPT !.bits = b] = [bits |-> b, tail |-> key.tail]
  OBVIOUS
<1>6. key = [bits |-> key.bits, tail |-> key.tail]
  BY KeysAssumption
<1> QED
  BY <1>2, <1>4, <1>5, <1>6

\* What is below the prefixes of a key.
LEMMA BelowPrefix ==
  ASSUME NEW c, NEW key \in Keys, NEW n \in 0 .. Depth
  PROVE  /\ PresentIn(c, Prefix(key, n)) = {k \in Keys : c[k] # 0 /\ Prefix(k, n) = Prefix(key, n)}
         /\ key \in PresentIn(c, Prefix(key, n)) <=> c[key] # 0
<1>1. Len(Prefix(key, n)) = n
  BY PrefixFacts
<1> QED
  BY <1>1 DEF PresentIn, Prefix

LEMMA BelowIs ==
  ASSUME NEW c, NEW key \in Keys, NEW n \in 0 .. Depth, NEW k \in PresentIn(c, Prefix(key, n))
  PROVE  k \in Keys /\ c[k] # 0 /\ Prefix(k, n) = Prefix(key, n)
BY BelowPrefix

LEMMA IsBelow ==
  ASSUME NEW c, NEW key \in Keys, NEW n \in 0 .. Depth, NEW k \in Keys,
         c[k] # 0, Prefix(k, n) = Prefix(key, n)
  PROVE  k \in PresentIn(c, Prefix(key, n))
BY BelowPrefix

LEMMA Shorter ==
  ASSUME NEW key \in Keys, NEW k \in Keys, NEW n \in 0 .. Depth, NEW m \in 0 .. n,
         Prefix(k, n) = Prefix(key, n)
  PROVE  /\ Prefix(k, m) = Prefix(key, m)
         /\ \A i \in 1 .. n : k.bits[i] = key.bits[i]
<1>1. m \in 0 .. Depth /\ \A i \in 1 .. m : i \in 1 .. n
  BY DepthIsNat
<1>2. \A i \in 1 .. n : k.bits[i] = key.bits[i]
  <2>1. /\ \A i \in 1 .. n : Prefix(key, n)[i] = key.bits[i]
        /\ \A i \in 1 .. n : Prefix(k, n)[i] = k.bits[i]
    BY PrefixFacts
  <2> QED
    BY <2>1
<1>3. /\ Prefix(key, m) \in Seq({0, 1}) /\ Len(Prefix(key, m)) = m
      /\ \A i \in 1 .. m : Prefix(key, m)[i] = key.bits[i]
  BY <1>1, PrefixFacts
<1>4. /\ Prefix(k, m) \in Seq({0, 1}) /\ Len(Prefix(k, m)) = m
      /\ \A i \in 1 .. m : Prefix(k, m)[i] = k.bits[i]
  BY <1>1, PrefixFacts
<1>5. \A i \in 1 .. m : Prefix(k, m)[i] = Prefix(key, m)[i]
  BY <1>1, <1>2, <1>3, <1>4
<1>6. Prefix(k, m) = Prefix(key, m)
  BY <1>3, <1>4, <1>5, SameBits
<1> QED
  BY <1>2, <1>6

LEMMA AgreeingBits ==
  ASSUME NEW key \in Keys, NEW k \in Keys, NEW n \in 0 .. Depth,
         \A i \in 1 .. n : k.bits[i] = key.bits[i]
  PROVE  Prefix(k, n) = Prefix(key, n)
<1>1. /\ Prefix(key, n) \in Seq({0, 1}) /\ Len(Prefix(key, n)) = n
      /\ \A i \in 1 .. n : Prefix(key, n)[i] = key.bits[i]
  BY PrefixFacts
<1>2. /\ Prefix(k, n) \in Seq({0, 1}) /\ Len(Prefix(k, n)) = n
      /\ \A i \in 1 .. n : Prefix(k, n)[i] = k.bits[i]
  BY PrefixFacts
<1>3. \A i \in 1 .. n : Prefix(k, n)[i] = Prefix(key, n)[i]
  BY <1>1, <1>2
<1> QED
  BY <1>1, <1>2, <1>3, SameBits

\* Less is present below a longer prefix.
LEMMA PresentShrinks ==
  ASSUME NEW c, NEW key \in Keys, NEW n \in 0 .. Depth, NEW m \in 0 .. n
  PROVE  PresentIn(c, Prefix(key, n)) \subseteq PresentIn(c, Prefix(key, m))
<1>1. m \in 0 .. Depth
  BY DepthIsNat
<1> QED
  BY <1>1, BelowPrefix, Shorter

\* Two keys make many, and many are two.
LEMMA ManyAreTwo ==
  ASSUME NEW c, NEW p
  PROVE  Many(c, p) <=> \E k, l \in PresentIn(c, p) : k # l
BY DEF Many, PresentIn

LEMMA ManyAbove ==
  ASSUME NEW c, NEW key \in Keys, NEW n \in 0 .. Depth, NEW m \in 0 .. n, Many(c, Prefix(key, n))
  PROVE  Many(c, Prefix(key, m))
BY PresentShrinks, ManyAreTwo

\* All the bits of a key are below no other key.
LEMMA OneInTheEnd ==
  ASSUME NEW c, NEW key \in Keys
  PROVE  ~Many(c, Prefix(key, Depth))
<1>1. Depth \in 0 .. Depth
  BY DepthIsNat
<1>2. Prefix(key, Depth) \in Prefixes /\ Len(Prefix(key, Depth)) = Depth
  BY <1>1, PrefixFacts
<1> QED
  BY <1>2, OneKeyInTheEnd, ManyAreTwo

-----------------------------------------------------------------------------
(* Going down the tree of some contents. *)

\* The prefix beside the way of a key, one bit below level n.
Beside(key, n) == Append(Prefix(key, n), 1 - key.bits[n + 1])

LEMMA NoBits ==
  ASSUME NEW key \in Keys
  PROVE  Prefix(key, 0) = <<>> /\ <<>> \in Prefixes
<1>1. Prefix(key, 0) = <<>>
  BY BitsOf DEF Prefix
<1>2. Prefix(key, 0) \in Prefixes
  BY DepthIsNat, PrefixFacts
<1> QED
  BY <1>1, <1>2

\* The level of a branch is not the last one.
LEMMA BranchLevel ==
  ASSUME NEW c, NEW key \in Keys, NEW n \in 0 .. Depth, Many(c, Prefix(key, n))
  PROVE  n \in 0 .. Depth - 1 /\ n + 1 \in 1 .. Depth /\ n + 1 \in 0 .. Depth /\ n \in Nat
<1>1. n # Depth
  BY OneInTheEnd
<1> QED
  BY <1>1, DepthIsNat

LEMMA BesideFacts ==
  ASSUME NEW key \in Keys, NEW n \in 0 .. Depth - 1
  PROVE  /\ Beside(key, n) \in Prefixes /\ Len(Beside(key, n)) = n + 1
         /\ 1 - key.bits[n + 1] \in {0, 1} /\ key.bits[n + 1] \in {0, 1}
         /\ 1 - key.bits[n + 1] # key.bits[n + 1]
<1>1. n \in 0 .. Depth /\ n + 1 \in 1 .. Depth /\ n < Depth
  BY DepthIsNat
<1>2. key.bits[n + 1] \in {0, 1}
  BY <1>1, BitsOf
<1>3. 1 - key.bits[n + 1] \in {0, 1} /\ 1 - key.bits[n + 1] # key.bits[n + 1]
  BY <1>2
<1>4. Prefix(key, n) \in Prefixes /\ Len(Prefix(key, n)) = n
  BY <1>1, PrefixFacts
<1> QED
  BY <1>1, <1>2, <1>3, <1>4, NextPrefix DEF Beside

LEMMA PresentBeside ==
  ASSUME NEW c, NEW key \in Keys, NEW n \in 0 .. Depth - 1
  PROVE  /\ PresentIn(c, Prefix(key, n + 1)) = {k \in PresentIn(c, Prefix(key, n)) : k.bits[n + 1] = key.bits[n + 1]}
         /\ PresentIn(c, Beside(key, n)) = {k \in PresentIn(c, Prefix(key, n)) : k.bits[n + 1] # key.bits[n + 1]}
         /\ PresentIn(c, Prefix(key, n)) = PresentIn(c, Prefix(key, n + 1)) \cup PresentIn(c, Beside(key, n))
         /\ key \notin PresentIn(c, Beside(key, n))
<1> DEFINE p == Prefix(key, n)
           b == key.bits[n + 1]
<1>1. n \in 0 .. Depth /\ n + 1 \in 1 .. Depth /\ n < Depth /\ n \in Nat
  BY DepthIsNat
<1>2. p \in Prefixes /\ Len(p) = n
  BY <1>1, PrefixFacts
<1>3. b \in {0, 1} /\ 1 - b \in {0, 1} /\ 1 - b # b
  BY BesideFacts
<1>4. Append(p, b) = Prefix(key, n + 1)
  BY LongerPrefix
<1>5. \A k \in PresentIn(c, p) : k.bits[n + 1] \in {0, 1}
  BY <1>1, BitsOf DEF PresentIn
<1> HIDE DEF p, b
<1>6. PresentIn(c, Append(p, b)) = {k \in PresentIn(c, p) : k.bits[n + 1] = b}
  BY <1>1, <1>2, <1>3, PresentBelow
<1>7. PresentIn(c, Append(p, 1 - b)) = {k \in PresentIn(c, p) : k.bits[n + 1] = 1 - b}
  BY <1>1, <1>2, <1>3, PresentBelow
<1>8. \A k \in PresentIn(c, p) : k.bits[n + 1] = 1 - b <=> k.bits[n + 1] # b
  BY <1>3, <1>5
<1>9. PresentIn(c, Append(p, 1 - b)) = {k \in PresentIn(c, p) : k.bits[n + 1] # b}
  BY <1>7, <1>8
<1>10. key \notin PresentIn(c, Append(p, 1 - b))
  BY <1>9 DEF b
<1>11. PresentIn(c, p) = PresentIn(c, Append(p, b)) \cup PresentIn(c, Append(p, 1 - b))
  BY <1>6, <1>9
<1>12. Append(p, 1 - b) = Beside(key, n)
  BY DEF p, b, Beside
<1> QED
  BY <1>4, <1>6, <1>9, <1>10, <1>11, <1>12 DEF p, b

LEMMA ChildrenOnTheWay ==
  ASSUME NEW c, NEW key \in Keys, NEW n \in 0 .. Depth, Many(c, Prefix(key, n))
  PROVE  /\ IsBranch(TreeOf(c)[Prefix(key, n)])
         /\ Child(TreeOf(c)[Prefix(key, n)], key.bits[n + 1]) = TreeOf(c)[Prefix(key, n + 1)]
         /\ Child(TreeOf(c)[Prefix(key, n)], 1 - key.bits[n + 1]) = TreeOf(c)[Beside(key, n)]
         /\ TreeOf(c)[Prefix(key, n)]
              = Join(key.bits[n + 1], TreeOf(c)[Prefix(key, n + 1)], TreeOf(c)[Beside(key, n)])
<1> DEFINE t == TreeOf(c)
           p == Prefix(key, n)
           b == key.bits[n + 1]
<1>1. n \in 0 .. Depth - 1
  BY BranchLevel
<1>2. Append(p, b) = Prefix(key, n + 1) /\ Append(p, 1 - b) = Beside(key, n) /\ b \in {0, 1}
  BY <1>1, LongerPrefix DEF Beside
<1>3. t[p] = Branch(t[Append(p, 0)], t[Append(p, 1)])
  BY PrefixFacts, TreeFacts
<1> HIDE DEF t, p, b
<1>4. CASE b = 0
  <2>1. 1 - b = 1
    BY <1>4
  <2>2. Append(p, 0) = Prefix(key, n + 1) /\ Append(p, 1) = Beside(key, n)
    BY <1>2, <1>4, <2>1
  <2>3. t[p] = Branch(t[Prefix(key, n + 1)], t[Beside(key, n)])
    BY <1>3, <2>2
  <2>4. t[p] = Join(b, t[Prefix(key, n + 1)], t[Beside(key, n)])
    BY <1>4, <2>3 DEF Join
  <2>5. Child(t[p], b) = t[Prefix(key, n + 1)] /\ Child(t[p], 1 - b) = t[Beside(key, n)] /\ IsBranch(t[p])
    BY <1>4, <2>1, <2>3, NodeFacts
  <2> QED
    BY <2>4, <2>5 DEF t, p, b
<1>5. CASE b = 1
  <2>1. 1 - b = 0
    BY <1>5
  <2>2. Append(p, 1) = Prefix(key, n + 1) /\ Append(p, 0) = Beside(key, n)
    BY <1>2, <1>5, <2>1
  <2>3. t[p] = Branch(t[Beside(key, n)], t[Prefix(key, n + 1)])
    BY <1>3, <2>2
  <2>4. t[p] = Join(b, t[Prefix(key, n + 1)], t[Beside(key, n)])
    BY <1>5, <2>3 DEF Join
  <2>5. Child(t[p], b) = t[Prefix(key, n + 1)] /\ Child(t[p], 1 - b) = t[Beside(key, n)] /\ IsBranch(t[p])
    BY <1>5, <2>1, <2>3, NodeFacts
  <2> QED
    BY <2>4, <2>5 DEF t, p, b
<1> QED
  BY <1>2, <1>4, <1>5

\* What Path() stands for.
IsPath(f, r, key) ==
  f = [i \in 0 .. Len(key.bits) |->
        IF i = 0 THEN r
        ELSE IF IsBranch(f[i - 1]) THEN Child(f[i - 1], key.bits[i])
        ELSE Zero]

\* The keys above level n part further down.
Open(c, key, n) == \A j \in 0 .. n - 1 : Many(c, Prefix(key, j))

LEMMA OpenFurther ==
  ASSUME NEW c, NEW key \in Keys, NEW n \in Nat
  PROVE  Open(c, key, n + 1) <=> Open(c, key, n) /\ Many(c, Prefix(key, n))
<1>1. \A j \in 0 .. n : j = n \/ j \in 0 .. n - 1
  OBVIOUS
<1>2. (n + 1) - 1 = n /\ n \in 0 .. n /\ \A j \in 0 .. n - 1 : j \in 0 .. n
  OBVIOUS
<1> QED
  BY <1>1, <1>2 DEF Open

LEMMA PathExists ==
  ASSUME NEW c, NEW key \in Keys
  PROVE  IsPath(Path(TreeOf(c)[<<>>], key), TreeOf(c)[<<>>], key)
<1> DEFINE t == TreeOf(c)
           f == [i \in 0 .. Depth |-> IF Open(c, key, i) THEN t[Prefix(key, i)] ELSE Zero]
<1>1. Len(key.bits) = Depth /\ Depth \in Nat
  BY BitsOf, DepthIsNat
<1>2. f[0] = t[<<>>]
  <2>1. Open(c, key, 0)
    BY DEF Open
  <2> QED
    BY <1>1, <2>1, NoBits
<1>3. ASSUME NEW i \in 0 .. Depth, i # 0
      PROVE  f[i] = IF IsBranch(f[i - 1]) THEN Child(f[i - 1], key.bits[i]) ELSE Zero
  <2> DEFINE n == i - 1
  <2>1. n \in 0 .. Depth /\ n \in Nat /\ n + 1 = i
    BY <1>1, <1>3
  <2>2. f[i] = IF Open(c, key, i) THEN t[Prefix(key, i)] ELSE Zero
    OBVIOUS
  <2>3. f[n] = IF Open(c, key, n) THEN t[Prefix(key, n)] ELSE Zero
    BY <2>1
  <2>4. Prefix(key, n) \in Prefixes
    BY <2>1, PrefixFacts
  <2> HIDE DEF f, n
  <2>5. CASE Open(c, key, i)
    <3>1. Open(c, key, n) /\ Many(c, Prefix(key, n))
      BY <2>1, <2>5, OpenFurther
    <3>2. IsBranch(t[Prefix(key, n)]) /\ Child(t[Prefix(key, n)], key.bits[i]) = t[Prefix(key, i)]
      BY <2>1, <3>1, ChildrenOnTheWay
    <3> QED
      BY <2>2, <2>3, <2>5, <3>1, <3>2 DEF n
  <2>6. CASE ~Open(c, key, i) /\ Open(c, key, n)
    <3>1. ~Many(c, Prefix(key, n))
      BY <2>1, <2>6, OpenFurther
    <3>2. ~IsBranch(f[n])
      BY <2>3, <2>4, <2>6, <3>1, NodeTells
    <3> QED
      BY <2>2, <2>6, <3>2 DEF n
  <2>7. CASE ~Open(c, key, i) /\ ~Open(c, key, n)
    <3>1. ~IsBranch(f[n])
      BY <2>3, <2>7, NodeFacts
    <3> QED
      BY <2>2, <2>7, <3>1 DEF n
  <2> QED
    BY <2>5, <2>6, <2>7
<1>4. f = [i \in 0 .. Depth |-> f[i]]
  OBVIOUS
<1> HIDE DEF f, t
<1>5. IsPath(f, t[<<>>], key)
  BY <1>1, <1>2, <1>3, <1>4 DEF IsPath
<1> DEFINE g == CHOOSE g : IsPath(g, t[<<>>], key)
<1>6. IsPath(g, t[<<>>], key)
  BY <1>5
<1>7. Path(t[<<>>], key) = g
  BY DEF Path, IsPath
<1> QED
  BY <1>6, <1>7 DEF t

LEMMA PathIs ==
  ASSUME NEW c, NEW key \in Keys, NEW n \in 0 .. Depth, Open(c, key, n)
  PROVE  Path(TreeOf(c)[<<>>], key)[n] = TreeOf(c)[Prefix(key, n)]
<1> DEFINE t == TreeOf(c)
           f == Path(t[<<>>], key)
           Bad == {i \in 0 .. n : f[i] # t[Prefix(key, i)]}
<1>1. Len(key.bits) = Depth /\ Depth \in Nat
  BY BitsOf, DepthIsNat
<1>2. f = [i \in 0 .. Depth |->
             IF i = 0 THEN t[<<>>]
             ELSE IF IsBranch(f[i - 1]) THEN Child(f[i - 1], key.bits[i])
             ELSE Zero]
  BY <1>1, PathExists DEF IsPath
<1> HIDE DEF f, t
<1>3. Bad = {}
  <2> SUFFICES ASSUME Bad # {} PROVE FALSE
    OBVIOUS
  <2>1. Bad \in SUBSET Nat
    BY <1>1
  <2>2. PICK i \in Bad : \A k \in Bad : i <= k
    <3> HIDE DEF Bad
    <3> QED
      BY <2>1, LeastNumber
  <2>3. i \in 0 .. n /\ f[i] # t[Prefix(key, i)] /\ i \in 0 .. Depth
    BY <1>1
  <2>4. i # 0
    <3>1. f[0] = t[<<>>]
      BY <1>1, <1>2
    <3> QED
      BY <2>3, <3>1, NoBits
  <2> DEFINE m == i - 1
  <2>5. m \in 0 .. n - 1 /\ m \in 0 .. n /\ m + 1 = i /\ ~ (i <= m) /\ m \in 0 .. Depth
    BY <1>1, <2>3, <2>4
  <2>6. f[i] = IF IsBranch(f[m]) THEN Child(f[m], key.bits[i]) ELSE Zero
    BY <1>2, <2>3, <2>4
  <2> HIDE DEF m
  <2>7. f[m] = t[Prefix(key, m)]
    BY <2>2, <2>5
  <2>8. Many(c, Prefix(key, m))
    BY <2>5 DEF Open
  <2>9. IsBranch(t[Prefix(key, m)]) /\ Child(t[Prefix(key, m)], key.bits[i]) = t[Prefix(key, i)]
    BY <2>5, <2>8, ChildrenOnTheWay DEF t
  <2> QED
    BY <2>3, <2>6, <2>7, <2>9
<1>4. n \in 0 .. n
  BY <1>1
<1> QED
  BY <1>3, <1>4 DEF f, t

-----------------------------------------------------------------------------
(* Where the way ends. *)

\* What Descent() finds in the tree of some contents.
Descends(d, c, key) ==
  /\ d.level \in 0 .. Depth
  /\ \A i \in 0 .. d.level : d.path[i] = TreeOf(c)[Prefix(key, i)]
  /\ Open(c, key, d.level) /\ ~Many(c, Prefix(key, d.level))
  /\ d.end = TreeOf(c)[Prefix(key, d.level)]
  /\ d.found => /\ d.key \in Keys /\ PresentIn(c, Prefix(key, d.level)) = {d.key}
                /\ d.value = c[d.key]
                /\ d.end = Leaf(RemoveKeyBits(d.key, d.level), Value(c[d.key]))
  /\ ~d.found => PresentIn(c, Prefix(key, d.level)) = {} /\ d.end = Zero

\* The end of the way is the first place that is not above many.
LEMMA WayEnds ==
  ASSUME NEW c, NEW key \in Keys
  PROVE  \E n \in 0 .. Depth : Open(c, key, n) /\ ~Many(c, Prefix(key, n))
<1> DEFINE S == {n \in 0 .. Depth : ~Many(c, Prefix(key, n))}
<1>1. S \in SUBSET Nat /\ S # {}
  BY OneInTheEnd, DepthIsNat
<1>2. PICK n \in S : \A k \in S : n <= k
  <2> HIDE DEF S
  <2> QED
    BY <1>1, LeastNumber
<1>3. Open(c, key, n)
  <2> SUFFICES ASSUME NEW j \in 0 .. n - 1 PROVE Many(c, Prefix(key, j))
    BY DEF Open
  <2>1. j \in 0 .. Depth /\ ~ (n <= j)
    BY DepthIsNat
  <2> QED
    BY <1>2, <2>1
<1> QED
  BY <1>2, <1>3

LEMMA DescentIs ==
  ASSUME NEW c, NEW key \in Keys
  PROVE  Descends(Descent(TreeOf(c)[<<>>], key), c, key)
<1> DEFINE t == TreeOf(c)
           r == t[<<>>]
           f == Path(r, key)
           Ends(i) == /\ ~IsBranch(f[i]) /\ \A j \in DOMAIN f : j < i => IsBranch(f[j])
           n == CHOOSE i \in DOMAIN f : Ends(i)
           end == f[n]
           found == IsLeaf(end)
           k == JoinKey(SubSeq(key.bits, 1, n), end[2])
           d == Descent(r, key)
<1>1. /\ d.path = f /\ d.level = n /\ d.end = end /\ d.found = found
      /\ found => d.key = k /\ d.value = end[3][2]
  BY DEF Descent
<1>2. DOMAIN f = 0 .. Depth
  <2>1. IsPath(f, r, key) /\ Len(key.bits) = Depth
    BY PathExists, BitsOf
  <2> HIDE DEF f
  <2> QED
    BY <2>1 DEF IsPath
<1>3. \A i \in 0 .. Depth : Open(c, key, i) => f[i] = t[Prefix(key, i)]
  BY PathIs
<1>4. \A i \in 0 .. Depth : IsBranch(t[Prefix(key, i)]) <=> Many(c, Prefix(key, i))
  BY PrefixFacts, NodeTells
<1>5. \A i \in 0 .. Depth : Open(c, key, i) /\ ~Many(c, Prefix(key, i)) => Ends(i)
  <2> SUFFICES ASSUME NEW i \in 0 .. Depth, Open(c, key, i), ~Many(c, Prefix(key, i)) PROVE Ends(i)
    OBVIOUS
  <2>1. ~IsBranch(f[i])
    BY <1>3, <1>4
  <2>2. ASSUME NEW j \in 0 .. Depth, j < i PROVE IsBranch(f[j])
    <3>1. j \in 0 .. i - 1 /\ \A m \in 0 .. j - 1 : m \in 0 .. i - 1
      BY <2>2, DepthIsNat
    <3>2. Open(c, key, j) /\ Many(c, Prefix(key, j))
      BY <3>1 DEF Open
    <3> QED
      BY <1>3, <1>4, <3>2
  <2> HIDE DEF f
  <2> QED
    BY <1>2, <2>1, <2>2
<1>6. \E i \in 0 .. Depth : Open(c, key, i) /\ ~Many(c, Prefix(key, i)) /\ Ends(i)
  BY <1>5, WayEnds
<1>7. n \in 0 .. Depth /\ Open(c, key, n) /\ ~Many(c, Prefix(key, n))
  <2>1. PICK m \in 0 .. Depth : Open(c, key, m) /\ ~Many(c, Prefix(key, m)) /\ Ends(m)
    BY <1>6
  <2> HIDE DEF f
  <2>2. n \in 0 .. Depth /\ Ends(n)
    BY <1>2, <2>1
  <2> HIDE DEF n
  <2>3. ~ (m < n) /\ ~ (n < m)
    <3>1. ASSUME m < n PROVE FALSE
      BY <1>2, <2>1, <2>2, <3>1
    <3>2. ASSUME n < m PROVE FALSE
      BY <1>2, <2>1, <2>2, <3>2
    <3> QED
      BY <3>1, <3>2
  <2>4. m = n
    BY <2>2, <2>3, DepthIsNat
  <2> QED
    BY <2>1, <2>4
<1> HIDE DEF f, n, Ends
<1>8. \A i \in 0 .. n : f[i] = t[Prefix(key, i)]
  <2> SUFFICES ASSUME NEW i \in 0 .. n PROVE f[i] = t[Prefix(key, i)]
    OBVIOUS
  <2>1. i \in 0 .. Depth /\ \A j \in 0 .. i - 1 : j \in 0 .. n - 1
    BY <1>7, DepthIsNat
  <2>2. Open(c, key, i)
    BY <1>7, <2>1 DEF Open
  <2> QED
    BY <1>3, <2>1, <2>2
<1>9. end = t[Prefix(key, n)]
  BY <1>3, <1>7
<1>10. Prefix(key, n) \in Prefixes /\ Len(Prefix(key, n)) = n
  BY <1>7, PrefixFacts
<1>11. ASSUME found
       PROVE  /\ d.key \in Keys /\ PresentIn(c, Prefix(key, n)) = {d.key}
              /\ d.value = c[d.key] /\ end = Leaf(RemoveKeyBits(d.key, n), Value(c[d.key]))
  <2>1. \E m \in Keys : PresentIn(c, Prefix(key, n)) = {m}
    BY <1>9, <1>10, <1>11, NodeTells
  <2>2. PICK m \in Keys : PresentIn(c, Prefix(key, n)) = {m}
    BY <2>1
  <2>3. end = Leaf(RemoveKeyBits(m, n), Value(c[m]))
    BY <1>9, <1>10, <2>2, TreeFacts
  <2>4. Prefix(m, n) = Prefix(key, n)
    <3>1. PresentIn(c, Prefix(key, n)) = {l \in Keys : c[l] # 0 /\ Prefix(l, n) = Prefix(key, n)}
      BY <1>7, BelowPrefix
    <3> QED
      BY <2>2, <3>1
  <2> HIDE DEF end
  <2>5. end[2] = RemoveKeyBits(m, n) /\ end[3][2] = c[m]
    BY <2>3, NodeFacts
  <2>6. k = m
    BY <1>7, <2>4, <2>5, KeyJoined DEF Prefix
  <2> QED
    BY <1>1, <1>11, <2>2, <2>3, <2>5, <2>6
<1>12. ASSUME ~found PROVE PresentIn(c, Prefix(key, n)) = {} /\ end = Zero
  <2>1. ~ \E m \in Keys : PresentIn(c, Prefix(key, n)) = {m}
    BY <1>9, <1>10, <1>12, NodeTells
  <2>2. PresentIn(c, Prefix(key, n)) = {}
    BY <1>7, <1>10, <2>1, TreeFacts
  <2> QED
    BY <1>9, <1>10, <2>2, TreeFacts
<1> HIDE DEF d, end, found, t
<1> QED
  BY <1>1, <1>7, <1>8, <1>9, <1>11, <1>12 DEF Descends, d, r, t

\* The key is found just when it has a value.
LEMMA HitsWhenPresent ==
  ASSUME NEW c, NEW key \in Keys, NEW d, Descends(d, c, key)
  PROVE  /\ Hits(d, key) <=> c[key] # 0
         /\ Hits(d, key) => /\ d.key = key /\ PresentIn(c, Prefix(key, d.level)) = {key}
                            /\ d.value = c[key]
                            /\ d.end = Leaf(RemoveKeyBits(key, d.level), Value(c[key]))
<1>1. key \in PresentIn(c, Prefix(key, d.level)) <=> c[key] # 0
  BY BelowPrefix DEF Descends
<1>2. Hits(d, key) <=> d.found /\ d.key = key
  BY DEF Hits
<1>3. ASSUME c[key] # 0 PROVE d.found /\ d.key = key
  BY <1>1, <1>3 DEF Descends
<1> QED
  BY <1>1, <1>2, <1>3 DEF Descends

LEMMA GetIsRight ==
  ASSUME NEW c, NEW key \in Keys
  PROVE  Get(TreeOf(c)[<<>>], key).value = c[key] /\ Get(TreeOf(c)[<<>>], key).key = key
<1> DEFINE d == Descent(TreeOf(c)[<<>>], key)
<1>1. Descends(d, c, key)
  BY DescentIs
<1>2. /\ Get(TreeOf(c)[<<>>], key).value = IF Hits(d, key) THEN d.value ELSE 0
      /\ Get(TreeOf(c)[<<>>], key).key = key
  BY DEF Get
<1> HIDE DEF d
<1>3. Hits(d, key) <=> c[key] # 0
  BY <1>1, HitsWhenPresent
<1>4. Hits(d, key) => d.value = c[key]
  BY <1>1, HitsWhenPresent
<1> QED
  BY <1>2, <1>3, <1>4

-----------------------------------------------------------------------------
(* Climbing back to the root. *)

\* The contents after a set.
After(c, key, value) == [c EXCEPT ![key] = value]

LEMMA AfterFacts ==
  ASSUME NEW c \in Contents, NEW key \in Keys, NEW value \in Values \cup {0}
  PROVE  /\ After(c, key, value) \in Contents /\ After(c, key, value)[key] = value
         /\ \A k \in Keys : k # key => After(c, key, value)[k] = c[k]
BY DEF After, Contents

LEMMA PresentAfter ==
  ASSUME NEW c \in Contents, NEW key \in Keys, NEW value \in Values \cup {0}, NEW n \in 0 .. Depth
  PROVE  PresentIn(After(c, key, value), Prefix(key, n))
           = IF value # 0 THEN PresentIn(c, Prefix(key, n)) \cup {key}
                          ELSE PresentIn(c, Prefix(key, n)) \ {key}
<1> DEFINE e == After(c, key, value)
           below == {k \in Keys : Prefix(k, n) = Prefix(key, n)}
<1>1. /\ PresentIn(c, Prefix(key, n)) = {k \in below : c[k] # 0}
      /\ PresentIn(e, Prefix(key, n)) = {k \in below : e[k] # 0}
  <2> HIDE DEF e
  <2>1. PresentIn(c, Prefix(key, n)) = {k \in Keys : c[k] # 0 /\ Prefix(k, n) = Prefix(key, n)}
    BY BelowPrefix
  <2>2. PresentIn(e, Prefix(key, n)) = {k \in Keys : e[k] # 0 /\ Prefix(k, n) = Prefix(key, n)}
    BY BelowPrefix
  <2> QED
    BY <2>1, <2>2
<1>2. e[key] = value /\ \A k \in Keys : k # key => e[k] = c[k]
  BY AfterFacts
<1>3. key \in below /\ below \subseteq Keys
  OBVIOUS
<1> HIDE DEF e, below
<1>4. \A k \in below : e[k] # 0 <=> IF k = key THEN value # 0 ELSE c[k] # 0
  BY <1>2, <1>3
<1>5. CASE value # 0
  <2>1. {k \in below : e[k] # 0} = {k \in below : c[k] # 0} \cup {key}
    BY <1>3, <1>4, <1>5
  <2> QED
    BY <1>1, <1>5, <2>1 DEF e
<1>6. CASE value = 0
  <2>1. {k \in below : e[k] # 0} = {k \in below : c[k] # 0} \ {key}
    BY <1>3, <1>4, <1>6
  <2> QED
    BY <1>1, <1>6, <2>1 DEF e
<1> QED
  BY <1>5, <1>6

\* A set changes nothing beside the way of its key.
LEMMA Elsewhere ==
  ASSUME NEW c \in Contents, NEW key \in Keys, NEW value \in Values \cup {0}, NEW n \in 0 .. Depth - 1
  PROVE  /\ PresentIn(After(c, key, value), Beside(key, n)) = PresentIn(c, Beside(key, n))
         /\ TreeOf(After(c, key, value))[Beside(key, n)] = TreeOf(c)[Beside(key, n)]
<1> DEFINE e == After(c, key, value)
           p == Beside(key, n)
<1>1. n \in 0 .. Depth
  BY DepthIsNat
<1>2. PresentIn(e, Prefix(key, n)) = IF value # 0 THEN PresentIn(c, Prefix(key, n)) \cup {key}
                                                 ELSE PresentIn(c, Prefix(key, n)) \ {key}
  BY <1>1, PresentAfter
<1>3. /\ PresentIn(c, p) = {k \in PresentIn(c, Prefix(key, n)) : k.bits[n + 1] # key.bits[n + 1]}
      /\ PresentIn(e, p) = {k \in PresentIn(e, Prefix(key, n)) : k.bits[n + 1] # key.bits[n + 1]}
  BY PresentBeside
<1>4. \A k \in Keys : k # key => e[k] = c[k]
  BY AfterFacts
<1>5. p \in Prefixes /\ PresentIn(c, p) \subseteq Keys /\ key \notin PresentIn(c, p)
  BY BesideFacts, PresentBeside DEF PresentIn
<1> HIDE DEF e, p
<1>6. PresentIn(e, p) = PresentIn(c, p)
  BY <1>2, <1>3
<1>7. \A k \in PresentIn(c, p) : c[k] = e[k]
  BY <1>4, <1>5
<1>8. TreeOf(c)[p] = TreeOf(e)[p]
  BY <1>5, <1>6, <1>7, SameTree
<1> QED
  BY <1>6, <1>8 DEF e, p

\* A change puts the right node at a level that is still above many.
Changes(ch, d, key, e) ==
  /\ ch.level \in 0 .. d.level
  /\ ch.branch = TreeOf(e)[Prefix(key, ch.level)]
  /\ Open(e, key, ch.level)

\* What Climb() stands for.
IsClimb(f, d, key, ch) ==
  f = [i \in 0 .. ch.level |->
        IF i = ch.level THEN ch.branch
        ELSE Join(key.bits[i + 1], f[i + 1], Child(d.path[i], 1 - key.bits[i + 1]))]

\* The sibling that a climb takes from the path is the one of the new tree.
LEMMA SiblingOfNew ==
  ASSUME NEW c \in Contents, NEW key \in Keys, NEW value \in Values \cup {0},
         NEW d, Descends(d, c, key), NEW n \in 0 .. Depth, n < d.level
  PROVE  Child(d.path[n], 1 - key.bits[n + 1]) = TreeOf(After(c, key, value))[Beside(key, n)]
<1>1. n \in 0 .. d.level - 1 /\ n \in 0 .. d.level
  BY DepthIsNat DEF Descends
<1>2. d.path[n] = TreeOf(c)[Prefix(key, n)] /\ Many(c, Prefix(key, n))
  BY <1>1 DEF Descends, Open
<1>3. Child(d.path[n], 1 - key.bits[n + 1]) = TreeOf(c)[Beside(key, n)]
  BY <1>2, ChildrenOnTheWay
<1>4. n \in 0 .. Depth - 1
  BY <1>2, BranchLevel
<1> QED
  BY <1>3, <1>4, Elsewhere

\* The climb rebuilds the new tree along the way of the key.
LEMMA ClimbIs ==
  ASSUME NEW c \in Contents, NEW key \in Keys, NEW value \in Values \cup {0},
         NEW d, Descends(d, c, key), NEW ch, Changes(ch, d, key, After(c, key, value))
  PROVE  \A i \in 0 .. ch.level :
           Climb(d, key, ch)[i] = TreeOf(After(c, key, value))[Prefix(key, i)]
<1> DEFINE e == After(c, key, value)
           u == TreeOf(e)
           n == ch.level
           f == [i \in 0 .. n |-> u[Prefix(key, i)]]
           g == Climb(d, key, ch)
           Bad == {m \in 0 .. n : g[n - m] # u[Prefix(key, n - m)]}
<1>1. n \in 0 .. Depth /\ n \in Nat /\ d.level \in Nat /\ n <= d.level /\ Depth \in Nat
  BY DepthIsNat DEF Descends, Changes
<1>2. ch.branch = u[Prefix(key, n)] /\ \A i \in 0 .. n - 1 : Many(e, Prefix(key, i))
  BY DEF Changes, Open
<1>3. ASSUME NEW i \in 0 .. n - 1
      PROVE  u[Prefix(key, i)] = Join(key.bits[i + 1], u[Prefix(key, i + 1)], Child(d.path[i], 1 - key.bits[i + 1]))
  <2>1. i \in 0 .. Depth /\ i < d.level
    BY <1>1
  <2>2. Child(d.path[i], 1 - key.bits[i + 1]) = u[Beside(key, i)]
    BY <2>1, SiblingOfNew
  <2>3. u[Prefix(key, i)] = Join(key.bits[i + 1], u[Prefix(key, i + 1)], u[Beside(key, i)])
    BY <1>2, <2>1, ChildrenOnTheWay
  <2> QED
    BY <2>2, <2>3
<1> HIDE DEF e, u, n, g
<1>4. IsClimb(f, d, key, ch)
  <2>1. \A i \in 0 .. n : f[i] = u[Prefix(key, i)]
    OBVIOUS
  <2>2. f = [i \in 0 .. n |-> f[i]]
    OBVIOUS
  <2> HIDE DEF f
  <2>3. ASSUME NEW i \in 0 .. n, i # n
        PROVE  f[i] = Join(key.bits[i + 1], f[i + 1], Child(d.path[i], 1 - key.bits[i + 1]))
    <3>1. i \in 0 .. n - 1 /\ i + 1 \in 0 .. n
      BY <1>1, <2>3
    <3> QED
      BY <1>3, <2>1, <3>1
  <2>4. f[n] = ch.branch
    BY <1>1, <1>2, <2>1
  <2> QED
    BY <2>2, <2>3, <2>4 DEF IsClimb, n
<1>5. IsClimb(g, d, key, ch)
  <2>1. g = CHOOSE x : IsClimb(x, d, key, ch)
    BY DEF Climb, IsClimb, g
  <2> QED
    BY <1>4, <2>1
<1>6. g = [i \in 0 .. n |->
             IF i = n THEN ch.branch
             ELSE Join(key.bits[i + 1], g[i + 1], Child(d.path[i], 1 - key.bits[i + 1]))]
  BY <1>5 DEF IsClimb, n
<1>7. Bad = {}
  <2> SUFFICES ASSUME Bad # {} PROVE FALSE
    OBVIOUS
  <2>1. Bad \in SUBSET Nat
    BY <1>1
  <2>2. PICK m \in Bad : \A k \in Bad : m <= k
    <3> HIDE DEF Bad
    <3> QED
      BY <2>1, LeastNumber
  <2>3. m \in 0 .. n /\ g[n - m] # u[Prefix(key, n - m)]
    OBVIOUS
  <2>4. m # 0
    <3>1. g[n] = u[Prefix(key, n)] /\ n - 0 = n
      BY <1>1, <1>2, <1>6
    <3> QED
      BY <2>3, <3>1
  <2> DEFINE i == n - m
  <2>5. i \in 0 .. n - 1 /\ i \in 0 .. n /\ i # n /\ n - (m - 1) = i + 1 /\ m - 1 \in 0 .. n /\ ~ (m <= m - 1)
    BY <1>1, <2>3, <2>4
  <2>6. g[n - (m - 1)] = u[Prefix(key, n - (m - 1))]
    BY <2>2, <2>5
  <2> HIDE DEF i
  <2>7. g[i] = Join(key.bits[i + 1], g[i + 1], Child(d.path[i], 1 - key.bits[i + 1]))
    BY <1>6, <2>5
  <2>8. g[i] = u[Prefix(key, i)]
    BY <1>3, <2>5, <2>6, <2>7
  <2> QED
    BY <2>3, <2>8 DEF i
<1>8. \A i \in 0 .. n : n - i \in 0 .. n /\ n - (n - i) = i
  BY <1>1
<1>9. \A i \in 0 .. n : g[i] = u[Prefix(key, i)]
  BY <1>7, <1>8
<1> QED
  BY <1>9 DEF g, u, e, n

LEMMA ClimbToRoot ==
  ASSUME NEW c \in Contents, NEW key \in Keys, NEW value \in Values \cup {0},
         NEW d, Descends(d, c, key), NEW ch, Changes(ch, d, key, After(c, key, value))
  PROVE  Climb(d, key, ch)[0] = TreeOf(After(c, key, value))[<<>>]
<1>1. 0 \in 0 .. ch.level
  BY DepthIsNat DEF Descends, Changes
<1>2. Climb(d, key, ch)[0] = TreeOf(After(c, key, value))[Prefix(key, 0)]
  BY <1>1, ClimbIs
<1> QED
  BY <1>2, NoBits

-----------------------------------------------------------------------------
(* The seven changes of Smt::set. *)

LEMMA DescentLevel ==
  ASSUME NEW c, NEW key \in Keys, NEW d, Descends(d, c, key)
  PROVE  /\ d.level \in 0 .. Depth /\ d.level \in Nat /\ Depth \in Nat
         /\ d.level \in 0 .. d.level
         /\ Prefix(key, d.level) \in Prefixes /\ Len(Prefix(key, d.level)) = d.level
         /\ \A i \in 0 .. d.level - 1 : i \in 0 .. Depth /\ i \in 0 .. Depth - 1
                                        /\ i < d.level /\ Many(c, Prefix(key, i))
<1>1. d.level \in 0 .. Depth /\ Depth \in Nat
  BY DepthIsNat DEF Descends
<1>2. \A i \in 0 .. d.level - 1 : i \in 0 .. Depth /\ i \in 0 .. Depth - 1 /\ i < d.level
  BY <1>1
<1>3. Prefix(key, d.level) \in Prefixes /\ Len(Prefix(key, d.level)) = d.level
  BY <1>1, PrefixFacts
<1> QED
  BY <1>1, <1>2, <1>3 DEF Descends, Open

LEMMA HitIs ==
  ASSUME NEW c, NEW key \in Keys, NEW d, Descends(d, c, key), Hits(d, key)
  PROVE  PresentIn(c, Prefix(key, d.level)) = {key}
<1>1. /\ PresentIn(c, Prefix(key, d.level)) = {key}
      /\ d.end = Leaf(RemoveKeyBits(key, d.level), Value(c[key]))
  BY HitsWhenPresent
<1> QED
  BY <1>1

\* Where a value is set, what was above many stays so.
LEMMA StaysOpen ==
  ASSUME NEW c \in Contents, NEW key \in Keys, NEW value \in Values,
         NEW d, Descends(d, c, key)
  PROVE  Open(After(c, key, value), key, d.level)
<1> SUFFICES ASSUME NEW j \in 0 .. d.level - 1 PROVE Many(After(c, key, value), Prefix(key, j))
  BY DEF Open
<1>1. j \in 0 .. Depth /\ Many(c, Prefix(key, j))
  BY DescentLevel
<1>2. value # 0
  BY KeysAssumption
<1>3. PresentIn(After(c, key, value), Prefix(key, j)) = PresentIn(c, Prefix(key, j)) \cup {key}
  BY <1>1, <1>2, PresentAfter
<1> QED
  BY <1>1, <1>3, ManyAreTwo

LEMMA OnlyKeyLeft ==
  ASSUME NEW c \in Contents, NEW key \in Keys, NEW value \in Values,
         NEW n \in 0 .. Depth, PresentIn(c, Prefix(key, n)) \subseteq {key}
  PROVE  TreeOf(After(c, key, value))[Prefix(key, n)] = Leaf(RemoveKeyBits(key, n), Value(value))
<1> DEFINE e == After(c, key, value)
<1>1. value # 0
  BY KeysAssumption
<1>2. PresentIn(e, Prefix(key, n)) = {key}
  BY <1>1, PresentAfter
<1>3. e[key] = value
  BY AfterFacts
<1>4. Prefix(key, n) \in Prefixes /\ Len(Prefix(key, n)) = n
  BY PrefixFacts
<1> HIDE DEF e
<1>5. TreeOf(e)[Prefix(key, n)] = Leaf(RemoveKeyBits(key, Len(Prefix(key, n))), Value(e[key]))
  BY <1>2, <1>4, TreeFacts
<1> QED
  BY <1>3, <1>4, <1>5 DEF e

LEMMA InsertNotFoundChanges ==
  ASSUME NEW c \in Contents, NEW key \in Keys, NEW value \in Values,
         NEW d, Descends(d, c, key), ~d.found
  PROVE  Changes(InsertNotFound(d, key, value), d, key, After(c, key, value))
<1> DEFINE ch == InsertNotFound(d, key, value)
<1>1. ch.level = d.level /\ ch.branch = Leaf(RemoveKeyBits(key, d.level), Value(value))
  BY DEF InsertNotFound, Change
<1>2. PresentIn(c, Prefix(key, d.level)) \subseteq {key}
  BY DEF Descends
<1>3. d.level \in 0 .. d.level /\ d.level \in 0 .. Depth
  BY DescentLevel
<1>4. ch.branch = TreeOf(After(c, key, value))[Prefix(key, d.level)]
  BY <1>1, <1>2, <1>3, OnlyKeyLeft
<1>5. Open(After(c, key, value), key, d.level)
  BY StaysOpen
<1> HIDE DEF ch
<1>6. Changes(ch, d, key, After(c, key, value))
  BY <1>1, <1>3, <1>4, <1>5 DEF Changes
<1> QED
  BY <1>6 DEF ch

LEMMA UpdateChanges ==
  ASSUME NEW c \in Contents, NEW key \in Keys, NEW value \in Values,
         NEW d, Descends(d, c, key), Hits(d, key)
  PROVE  Changes(Update(d, key, value), d, key, After(c, key, value))
<1> DEFINE ch == Update(d, key, value)
<1>1. ch.level = d.level /\ ch.branch = Leaf(d.end[2], Value(value))
  BY DEF Update, Change
<1>2. /\ PresentIn(c, Prefix(key, d.level)) = {key}
      /\ d.end = Leaf(RemoveKeyBits(key, d.level), Value(c[key]))
  BY HitsWhenPresent
<1>3. d.level \in 0 .. d.level /\ d.level \in 0 .. Depth
  BY DescentLevel
<1>4. d.end[2] = RemoveKeyBits(key, d.level)
  BY <1>2, NodeFacts
<1>5. ch.branch = TreeOf(After(c, key, value))[Prefix(key, d.level)]
  <2>1. TreeOf(After(c, key, value))[Prefix(key, d.level)] = Leaf(RemoveKeyBits(key, d.level), Value(value))
    BY <1>2, <1>3, OnlyKeyLeft
  <2> QED
    BY <1>1, <1>4, <2>1
<1>6. Open(After(c, key, value), key, d.level)
  BY StaysOpen
<1> HIDE DEF ch
<1>7. Changes(ch, d, key, After(c, key, value))
  BY <1>1, <1>3, <1>5, <1>6 DEF Changes
<1> QED
  BY <1>7 DEF ch

\* Nothing changes where a key without a value is set to 0.
LEMMA ZeroToZeroChanges ==
  ASSUME NEW c \in Contents, NEW key \in Keys, NEW d, Descends(d, c, key), ~Hits(d, key)
  PROVE  Changes(ZeroToZero(d, key), d, key, After(c, key, 0)) /\ After(c, key, 0) = c
<1> DEFINE ch == ZeroToZero(d, key)
<1>1. ch.level = d.level /\ ch.branch = d.end
  BY DEF ZeroToZero, Change
<1>2. After(c, key, 0) = c
  <2>1. c[key] = 0
    BY HitsWhenPresent
  <2> QED
    BY <2>1 DEF After, Contents
<1>3. d.level \in 0 .. d.level
  BY DescentLevel
<1> HIDE DEF ch
<1>4. Changes(ch, d, key, c)
  BY <1>1, <1>3 DEF Changes, Descends
<1> QED
  BY <1>2, <1>4 DEF ch

LEMMA KeyGone ==
  ASSUME NEW c \in Contents, NEW key \in Keys, NEW n \in 0 .. Depth,
         PresentIn(c, Prefix(key, n)) = {key}
  PROVE  /\ PresentIn(After(c, key, 0), Prefix(key, n)) = {}
         /\ TreeOf(After(c, key, 0))[Prefix(key, n)] = Zero
<1>1. PresentIn(After(c, key, 0), Prefix(key, n)) = PresentIn(c, Prefix(key, n)) \ {key}
  BY PresentAfter
<1>2. Prefix(key, n) \in Prefixes
  BY PrefixFacts
<1>3. PresentIn(After(c, key, 0), Prefix(key, n)) = {}
  BY <1>1
<1> QED
  BY <1>2, <1>3, TreeFacts

LEMMA DeleteLastChanges ==
  ASSUME NEW c \in Contents, NEW key \in Keys, NEW d, Descends(d, c, key), Hits(d, key), d.level = 0
  PROVE  Changes(DeleteLast(d, key), d, key, After(c, key, 0))
<1> DEFINE ch == DeleteLast(d, key)
<1>1. ch.level = 0 /\ ch.branch = Zero
  BY DEF DeleteLast, Change
<1>2. PresentIn(c, Prefix(key, 0)) = {key} /\ 0 \in 0 .. Depth /\ 0 \in 0 .. d.level
  <2>1. PresentIn(c, Prefix(key, d.level)) = {key}
    BY HitIs
  <2> QED
    BY <2>1, DescentLevel
<1>3. Open(After(c, key, 0), key, 0)
  BY DEF Open
<1>4. TreeOf(After(c, key, 0))[Prefix(key, 0)] = Zero
  BY <1>2, KeyGone
<1> HIDE DEF ch
<1>5. Changes(ch, d, key, After(c, key, 0))
  BY <1>1, <1>2, <1>3, <1>4 DEF Changes
<1> QED
  BY <1>5 DEF ch

\* The place beside a leaf that is found below the root.
LEMMA BesideFound ==
  ASSUME NEW c \in Contents, NEW key \in Keys, NEW d, Descends(d, c, key), Hits(d, key), d.level # 0
  PROVE  /\ d.level - 1 \in 0 .. d.level - 1 /\ d.level - 1 \in 0 .. Depth - 1
         /\ (d.level - 1) + 1 = d.level /\ Beside(key, d.level - 1) \in Prefixes
         /\ Child(d.path[d.level - 1], 1 - key.bits[d.level]) = TreeOf(c)[Beside(key, d.level - 1)]
         /\ PresentIn(c, Prefix(key, d.level - 1)) = {key} \cup PresentIn(c, Beside(key, d.level - 1))
         /\ PresentIn(c, Beside(key, d.level - 1)) # {}
         /\ key \notin PresentIn(c, Beside(key, d.level - 1))
<1> DEFINE n == d.level - 1
<1>1. n \in 0 .. d.level - 1 /\ n \in 0 .. d.level /\ n + 1 = d.level
  <2>1. d.level \in Nat
    BY DescentLevel
  <2> QED
    BY <2>1
<1>2. n \in 0 .. Depth /\ n \in 0 .. Depth - 1 /\ Many(c, Prefix(key, n))
  BY <1>1, DescentLevel
<1>3. d.path[n] = TreeOf(c)[Prefix(key, n)]
  BY <1>1 DEF Descends
<1>4. PresentIn(c, Prefix(key, d.level)) = {key}
  BY HitIs
<1> HIDE DEF n
<1>5. Child(d.path[n], 1 - key.bits[n + 1]) = TreeOf(c)[Beside(key, n)]
  BY <1>2, <1>3, ChildrenOnTheWay
<1>6. /\ PresentIn(c, Prefix(key, n)) = PresentIn(c, Prefix(key, n + 1)) \cup PresentIn(c, Beside(key, n))
      /\ key \notin PresentIn(c, Beside(key, n))
  BY <1>2, PresentBeside
<1>7. PresentIn(c, Prefix(key, n)) = {key} \cup PresentIn(c, Beside(key, n))
  BY <1>1, <1>4, <1>6
<1>8. PresentIn(c, Beside(key, n)) # {}
  BY <1>2, <1>7, ManyAreTwo
<1>9. Beside(key, n) \in Prefixes
  BY <1>2, BesideFacts
<1> QED
  BY <1>1, <1>2, <1>5, <1>6, <1>7, <1>8, <1>9 DEF n

LEMMA DeleteNotFoundChanges ==
  ASSUME NEW c \in Contents, NEW key \in Keys, NEW d, Descends(d, c, key), Hits(d, key), d.level # 0,
         ~IsLeaf(Child(d.path[d.level - 1], 1 - key.bits[d.level]))
  PROVE  Changes(DeleteNotFound(d, key), d, key, After(c, key, 0))
<1> DEFINE ch == DeleteNotFound(d, key)
           n == d.level - 1
           e == After(c, key, 0)
           s == PresentIn(c, Beside(key, n))
<1>1. ch.level = d.level /\ ch.branch = Zero
  BY DEF DeleteNotFound, Change
<1>2. d.level \in 0 .. d.level /\ d.level \in 0 .. Depth /\ PresentIn(c, Prefix(key, d.level)) = {key}
  BY HitIs, DescentLevel
<1>3. TreeOf(e)[Prefix(key, d.level)] = Zero
  BY <1>2, KeyGone
<1>4. /\ n \in 0 .. d.level - 1 /\ n \in 0 .. Depth - 1 /\ n \in 0 .. Depth /\ s # {} /\ key \notin s
      /\ PresentIn(c, Prefix(key, n)) = {key} \cup s /\ Beside(key, n) \in Prefixes
      /\ ~IsLeaf(TreeOf(c)[Beside(key, n)])
  <2>1. n \in 0 .. d.level - 1
    BY BesideFound
  <2>2. n \in 0 .. Depth
    BY <2>1, DescentLevel
  <2> QED
    BY <2>2, BesideFound
<1>5. \E k, l \in s : k # l
  <2>1. Many(c, Beside(key, n))
    BY <1>4, NodeTells, TreeFacts
  <2> QED
    BY <2>1, ManyAreTwo
<1>6. PresentIn(e, Prefix(key, n)) = PresentIn(c, Prefix(key, n)) \ {key}
  BY <1>4, PresentAfter
<1>7. PresentIn(e, Prefix(key, n)) = s
  BY <1>4, <1>6
<1> HIDE DEF ch, e, s
<1>8. Many(e, Prefix(key, n))
  BY <1>5, <1>7, ManyAreTwo
<1>9. Open(e, key, d.level)
  <2> SUFFICES ASSUME NEW j \in 0 .. d.level - 1 PROVE Many(e, Prefix(key, j))
    BY DEF Open
  <2>1. j \in 0 .. n
    OBVIOUS
  <2> QED
    BY <1>4, <1>8, <2>1, ManyAbove
<1>10. Changes(ch, d, key, e)
  BY <1>1, <1>2, <1>3, <1>9 DEF Changes
<1> QED
  BY <1>10 DEF ch, e


\* The leaf left alone by DeleteFound(), the key it is of, and where it goes.
LoneLeafOf(d, key) == Child(d.path[d.level - 1], 1 - key.bits[d.level])
LoneKeyOf(d, key) ==
  JoinKey(Append(SubSeq(key.bits, 1, d.level - 1), 1 - key.bits[d.level]), LoneLeafOf(d, key)[2])
LiftedLeaf(d, key) ==
  Leaf(RemoveKeyBits(LoneKeyOf(d, key), TopOfLoneLeaf(d)), LoneLeafOf(d, key)[3])

LEMMA DeleteFoundIs ==
  ASSUME NEW d, NEW key, NEW ch, ch = DeleteFound(d, key)
  PROVE  /\ ch.mode = "deleteFound" /\ ch.level = TopOfLoneLeaf(d)
         /\ ch.branch = LiftedLeaf(d, key) /\ ch.saved = {LiftedLeaf(d, key)} /\ ch.freed = {d.end}
         /\ ch.reads = {LoneLeafOf(d, key), LoneLeafOf(d, key)[3]}
         /\ ch.insKey = LoneKeyOf(d, key) /\ ch.insValue = LoneLeafOf(d, key)[3][2]
         /\ ch.branch # Zero /\ IsLeaf(ch.branch)
<1>1. ch = Change("deleteFound", TopOfLoneLeaf(d), LiftedLeaf(d, key), {LiftedLeaf(d, key)}, {d.end},
                  {LoneLeafOf(d, key), LoneLeafOf(d, key)[3]}, LoneKeyOf(d, key),
                  LoneLeafOf(d, key)[3][2], FALSE)
  BY Zenon DEF DeleteFound, LiftedLeaf, LoneKeyOf, LoneLeafOf
<1>2. IsLeaf(LiftedLeaf(d, key)) /\ LiftedLeaf(d, key) # Zero
  BY NodeFacts DEF LiftedLeaf
<1> QED
  BY <1>1, <1>2 DEF Change

LEMMA UniqueSibling ==
  ASSUME NEW c, NEW key \in Keys, NEW n \in 0 .. Depth, Many(c, Prefix(key, n)), c[key] # 0
  PROVE  HasUniqueSibling(TreeOf(c)[Prefix(key, n)]) <=> PresentIn(c, Beside(key, n)) = {}
<1> DEFINE t == TreeOf(c)
           node == t[Prefix(key, n)]
           b == key.bits[n + 1]
<1>1. n \in 0 .. Depth - 1 /\ n + 1 \in 0 .. Depth
  BY BranchLevel
<1>2. Child(node, b) = t[Prefix(key, n + 1)] /\ Child(node, 1 - b) = t[Beside(key, n)]
  BY ChildrenOnTheWay
<1>3. t[Prefix(key, n + 1)] # Zero
  <2>1. key \in PresentIn(c, Prefix(key, n + 1))
    BY <1>1, BelowPrefix
  <2>2. Prefix(key, n + 1) \in Prefixes
    BY <1>1, PrefixFacts
  <2> QED
    BY <2>1, <2>2, NodeTells
<1>4. t[Beside(key, n)] = Zero <=> PresentIn(c, Beside(key, n)) = {}
  BY <1>1, BesideFacts, NodeTells
<1>5. b \in {0, 1}
  BY <1>1, BesideFacts
<1> HIDE DEF node, b, t
<1>6. HasUniqueSibling(node) <=> Child(node, 1 - b) = Zero
  <2>1. CASE b = 0
    <3>1. 1 - b = 1
      BY <2>1
    <3> QED
      BY <1>2, <1>3, <2>1, <3>1 DEF HasUniqueSibling
  <2>2. CASE b = 1
    <3>1. 1 - b = 0
      BY <2>2
    <3> QED
      BY <1>2, <1>3, <2>2, <3>1 DEF HasUniqueSibling
  <2> QED
    BY <1>5, <2>1, <2>2
<1> QED
  BY <1>2, <1>4, <1>6 DEF node, t

\* Where the lone leaf stops.
StopsAt(d, n) ==
  /\ n \in 0 .. d.level - 1
  /\ n = 0 \/ ~HasUniqueSibling(d.path[n - 1])
  /\ \A j \in n + 1 .. d.level - 1 : HasUniqueSibling(d.path[j - 1])

LEMMA LoneLeafStops ==
  ASSUME NEW d, d.level \in Nat, d.level # 0
  PROVE  StopsAt(d, TopOfLoneLeaf(d))
<1> DEFINE n == d.level - 1
           S == {x \in 0 .. n : n - x = 0 \/ ~HasUniqueSibling(d.path[(n - x) - 1])}
<1>1. n \in Nat /\ n - n = 0 /\ n \in 0 .. n
  OBVIOUS
<1>2. S \in SUBSET Nat /\ S # {}
  <2> HIDE DEF n
  <2> QED
    BY <1>1
<1>3. PICK x \in S : \A y \in S : x <= y
  <2> HIDE DEF S
  <2> QED
    BY <1>2, LeastNumber
<1> HIDE DEF n
<1>4. n - x \in 0 .. n /\ x \in 0 .. n
  BY <1>1
<1>5. \A j \in (n - x) + 1 .. n : HasUniqueSibling(d.path[j - 1])
  <2> SUFFICES ASSUME NEW j \in (n - x) + 1 .. n PROVE HasUniqueSibling(d.path[j - 1])
    OBVIOUS
  <2>1. n - j \in 0 .. n /\ ~ (x <= n - j) /\ n - (n - j) = j
    BY <1>1, <1>4
  <2>2. n - j \notin S
    BY <1>3, <2>1
  <2> QED
    BY <2>1, <2>2
<1>6. n - x = 0 \/ ~HasUniqueSibling(d.path[(n - x) - 1])
  OBVIOUS
<1> DEFINE m == n - x
<1> HIDE DEF m, S
<1>7. StopsAt(d, m)
  BY <1>4, <1>5, <1>6 DEF StopsAt, m, n
<1>8. \E i \in 0 .. d.level - 1 :
        /\ i = 0 \/ ~HasUniqueSibling(d.path[i - 1])
        /\ \A j \in i + 1 .. d.level - 1 : HasUniqueSibling(d.path[j - 1])
  BY <1>7 DEF StopsAt
<1> QED
  BY <1>8 DEF StopsAt, TopOfLoneLeaf

\* From where it stops, the key and the lone one are all there is.
LEMMA TwoFromTheStop ==
  ASSUME NEW c \in Contents, NEW key \in Keys, NEW d, Descends(d, c, key), Hits(d, key), d.level # 0,
         NEW k \in Keys, PresentIn(c, Beside(key, d.level - 1)) = {k},
         NEW m, StopsAt(d, m)
  PROVE  PresentIn(c, Prefix(key, m)) = {key, k}
<1> DEFINE n == d.level - 1
           Bad == {x \in 0 .. n - m : PresentIn(c, Prefix(key, n - x)) # {key, k}}
<1>1. /\ n \in 0 .. d.level - 1 /\ n \in Nat /\ m \in 0 .. n /\ m \in Nat
      /\ \A j \in m + 1 .. n : HasUniqueSibling(d.path[j - 1])
  <2>1. d.level \in Nat
    BY DescentLevel
  <2>2. m \in 0 .. n /\ \A j \in m + 1 .. n : HasUniqueSibling(d.path[j - 1])
    BY DEF StopsAt
  <2>3. n \in 0 .. d.level - 1 /\ n \in Nat
    BY <2>1
  <2> HIDE DEF n
  <2> QED
    BY <2>2, <2>3
<1>2. PresentIn(c, Prefix(key, n)) = {key, k}
  BY BesideFound
<1>3. c[key] # 0
  BY HitsWhenPresent
<1> HIDE DEF n
<1>4. Bad = {}
  <2> SUFFICES ASSUME Bad # {} PROVE FALSE
    OBVIOUS
  <2>1. Bad \in SUBSET Nat
    BY <1>1
  <2>2. PICK x \in Bad : \A y \in Bad : x <= y
    <3> HIDE DEF Bad
    <3> QED
      BY <2>1, LeastNumber
  <2>3. x \in 0 .. n - m /\ PresentIn(c, Prefix(key, n - x)) # {key, k}
    OBVIOUS
  <2>4. x # 0
    <3>1. n - 0 = n
      BY <1>1
    <3> QED
      BY <1>2, <2>3, <3>1
  <2> DEFINE i == n - x
  <2>5. /\ i \in 0 .. n - 1 /\ i \in 0 .. d.level - 1 /\ i \in 0 .. d.level /\ i + 1 \in m + 1 .. n
        /\ (i + 1) - 1 = i
        /\ x - 1 \in 0 .. n - m /\ ~ (x <= x - 1) /\ n - (x - 1) = i + 1
    <3>1. d.level \in Nat /\ n = d.level - 1
      BY DescentLevel DEF n
    <3>2. x \in Nat /\ x > 0 /\ x <= n - m /\ m \in Nat /\ n \in Nat
      BY <1>1, <2>3, <2>4
    <3> QED
      BY <3>1, <3>2
  <2>6. PresentIn(c, Prefix(key, i + 1)) = {key, k}
    BY <2>2, <2>5
  <2> HIDE DEF i
  <2>7. HasUniqueSibling(d.path[i])
    BY <1>1, <2>5
  <2>8. i \in 0 .. Depth /\ i \in 0 .. Depth - 1 /\ Many(c, Prefix(key, i))
    BY <2>5, DescentLevel
  <2>9. d.path[i] = TreeOf(c)[Prefix(key, i)]
    BY <2>5 DEF Descends
  <2>10. PresentIn(c, Beside(key, i)) = {}
    BY <1>3, <2>7, <2>8, <2>9, UniqueSibling
  <2>11. PresentIn(c, Prefix(key, i)) = PresentIn(c, Prefix(key, i + 1)) \cup PresentIn(c, Beside(key, i))
    BY <2>8, PresentBeside
  <2>12. PresentIn(c, Prefix(key, i)) = {key, k}
    BY <2>6, <2>10, <2>11
  <2> QED
    BY <2>3, <2>12 DEF i
<1>5. n - m \in 0 .. n - m /\ n - (n - m) = m
  BY <1>1
<1> QED
  BY <1>4, <1>5

LEMMA DeleteFoundChanges ==
  ASSUME NEW c \in Contents, NEW key \in Keys, NEW d, Descends(d, c, key), Hits(d, key), d.level # 0,
         IsLeaf(Child(d.path[d.level - 1], 1 - key.bits[d.level]))
  PROVE  Changes(DeleteFound(d, key), d, key, After(c, key, 0))
<1> DEFINE ch == DeleteFound(d, key)
           n == d.level - 1
           e == After(c, key, 0)
           bit == 1 - key.bits[d.level]
           lone == Child(d.path[n], bit)
           insKey == JoinKey(Append(SubSeq(key.bits, 1, n), bit), lone[2])
           m == TopOfLoneLeaf(d)
<1>1. ch.level = m /\ ch.branch = Leaf(RemoveKeyBits(insKey, m), lone[3])
  BY DeleteFoundIs DEF LiftedLeaf, LoneKeyOf, LoneLeafOf
<1>2. /\ n \in 0 .. d.level - 1 /\ n \in 0 .. Depth - 1 /\ n + 1 = d.level
      /\ lone = TreeOf(c)[Beside(key, n)] /\ Beside(key, n) \in Prefixes /\ d.level \in Nat
      /\ key \notin PresentIn(c, Beside(key, n))
  BY BesideFound, DescentLevel
<1>3. Append(SubSeq(key.bits, 1, n), bit) = Beside(key, n)
  BY <1>2 DEF Beside, Prefix
<1>4. IsLeaf(TreeOf(c)[Beside(key, n)])
  BY <1>2
<1>5. \E k \in Keys : PresentIn(c, Beside(key, n)) = {k}
  BY <1>2, <1>4, NodeTells
<1>6. PICK k \in Keys : PresentIn(c, Beside(key, n)) = {k}
  BY <1>5
<1>7. Len(Beside(key, n)) = d.level /\ d.level \in 0 .. Depth
  BY <1>2, BesideFacts, DescentLevel
<1>8. TreeOf(c)[Beside(key, n)] = Leaf(RemoveKeyBits(k, d.level), Value(c[k]))
  BY <1>2, <1>6, <1>7, TreeFacts
<1>9. Prefix(k, d.level) = Beside(key, n) /\ c[k] # 0 /\ k # key
  <2>1. k \in PresentIn(c, Beside(key, n))
    BY <1>6
  <2> QED
    BY <1>2, <1>7, <2>1 DEF PresentIn, Prefix
<1>10. StopsAt(d, m)
  BY <1>2, LoneLeafStops
<1> HIDE DEF m, n, lone, bit, e
<1>11. lone[2] = RemoveKeyBits(k, d.level) /\ lone[3] = Value(c[k])
  BY <1>2, <1>8, NodeFacts
<1>12. insKey = k
  BY <1>3, <1>7, <1>9, <1>11, KeyJoined
<1> HIDE DEF insKey, ch
<1>13. m \in 0 .. d.level - 1 /\ m \in 0 .. d.level /\ m \in 0 .. Depth /\ m \in Nat
  <2>1. d.level \in Nat /\ Depth \in Nat /\ d.level \in 0 .. Depth
    BY DescentLevel
  <2>2. m \in 0 .. d.level - 1
    BY <1>10 DEF StopsAt
  <2> QED
    BY <2>1, <2>2
<1>14. PresentIn(c, Prefix(key, m)) = {key, k}
  BY <1>6, <1>10, TwoFromTheStop DEF n
<1>15. ch.branch = TreeOf(e)[Prefix(key, m)]
  <2>1. PresentIn(e, Prefix(key, m)) = PresentIn(c, Prefix(key, m)) \ {key}
    BY <1>13, PresentAfter DEF e
  <2>2. PresentIn(e, Prefix(key, m)) = {k}
    BY <1>9, <1>14, <2>1
  <2>3. e[k] = c[k]
    BY <1>9, AfterFacts DEF e
  <2>4. Prefix(key, m) \in Prefixes /\ Len(Prefix(key, m)) = m
    BY <1>13, PrefixFacts
  <2>5. TreeOf(e)[Prefix(key, m)] = Leaf(RemoveKeyBits(k, m), Value(e[k]))
    BY <2>2, <2>4, TreeFacts
  <2> QED
    BY <1>1, <1>11, <1>12, <2>3, <2>5
<1>16. Open(e, key, m)
  <2>1. CASE m = 0
    BY <2>1 DEF Open
  <2>2. CASE m # 0
    <3> DEFINE i == m - 1
    <3>1. /\ i + 1 = m /\ i \in 0 .. d.level - 1 /\ i \in 0 .. d.level
          /\ \A j \in 0 .. m - 1 : j \in 0 .. i
      BY <1>2, <1>13, <2>2
    <3>2. ~HasUniqueSibling(d.path[i])
      BY <1>10, <2>2 DEF StopsAt
    <3> HIDE DEF i
    <3>3. i \in 0 .. Depth /\ i \in 0 .. Depth - 1 /\ Many(c, Prefix(key, i))
      BY <3>1, DescentLevel
    <3>4. d.path[i] = TreeOf(c)[Prefix(key, i)] /\ c[key] # 0
      BY <3>1, HitsWhenPresent DEF Descends
    <3>5. PresentIn(c, Beside(key, i)) # {}
      BY <3>2, <3>3, <3>4, UniqueSibling
    <3>6. PICK l \in PresentIn(c, Beside(key, i)) : TRUE
      BY <3>5
    <3>7. /\ l \in PresentIn(c, Prefix(key, i)) /\ l.bits[i + 1] # key.bits[i + 1]
          /\ PresentIn(c, Prefix(key, i + 1)) = {h \in PresentIn(c, Prefix(key, i)) : h.bits[i + 1] = key.bits[i + 1]}
      BY <3>3, PresentBeside
    <3>8. k \in PresentIn(c, Prefix(key, i)) /\ k.bits[i + 1] = key.bits[i + 1]
      BY <1>14, <3>1, <3>7
    <3>9. k # l /\ l # key
      BY <3>7, <3>8
    <3>10. PresentIn(e, Prefix(key, i)) = PresentIn(c, Prefix(key, i)) \ {key}
      BY <3>3, PresentAfter DEF e
    <3>11. k \in PresentIn(e, Prefix(key, i)) /\ l \in PresentIn(e, Prefix(key, i))
      BY <1>9, <3>7, <3>8, <3>9, <3>10
    <3>12. Many(e, Prefix(key, i))
      BY <3>9, <3>11, ManyAreTwo
    <3>13. \A j \in 0 .. i : Many(e, Prefix(key, j))
      BY <3>3, <3>12, ManyAbove
    <3> QED
      BY <3>1, <3>13 DEF Open
  <2> QED
    BY <2>1, <2>2
<1>17. Changes(ch, d, key, e)
  BY <1>1, <1>13, <1>15, <1>16 DEF Changes
<1> QED
  BY <1>17 DEF ch, e

\* Where two keys part.
PartAt(m, d, key) ==
  /\ m \in d.level .. Len(key.bits) - 1
  /\ key.bits[m + 1] # d.key.bits[m + 1]
  /\ \A j \in d.level .. m - 1 : key.bits[j + 1] = d.key.bits[j + 1]

LEMMA KeysPart ==
  ASSUME NEW c \in Contents, NEW key \in Keys, NEW d, Descends(d, c, key), d.found, ~Hits(d, key)
  PROVE  /\ d.key \in Keys /\ d.key # key /\ c[d.key] # 0
         /\ Prefix(d.key, d.level) = Prefix(key, d.level)
         /\ \E m : PartAt(m, d, key)
<1> DEFINE k == d.key
           n == d.level
           S == {i \in n .. Depth - 1 : key.bits[i + 1] # k.bits[i + 1]}
<1>1. k \in Keys /\ PresentIn(c, Prefix(key, n)) = {k}
  BY DEF Descends
<1>2. n \in 0 .. Depth /\ n \in Nat /\ Depth \in Nat
  BY DescentLevel
<1>3. c[k] # 0 /\ Prefix(k, n) = Prefix(key, n)
  <2>1. PresentIn(c, Prefix(key, n)) = {l \in Keys : c[l] # 0 /\ Prefix(l, n) = Prefix(key, n)}
    BY <1>2, BelowPrefix
  <2> QED
    BY <1>1, <2>1
<1>4. k # key
  BY DEF Hits
<1>5. Len(key.bits) = Depth /\ key.bits \in Seq({0, 1})
  BY BitsOf
<1>6. Len(k.bits) = Depth /\ k.bits \in Seq({0, 1})
  BY <1>1, BitsOf
<1> HIDE DEF k, n
<1>7. S # {}
  <2> SUFFICES ASSUME S = {} PROVE FALSE
    OBVIOUS
  <2>1. \A i \in 1 .. n : k.bits[i] = key.bits[i]
    <3>1. n \in 0 .. n
      BY <1>2
    <3> QED
      BY <1>1, <1>2, <1>3, <3>1, Shorter
  <2>2. ASSUME NEW i \in 1 .. Depth PROVE key.bits[i] = k.bits[i]
    <3>1. CASE i <= n
      BY <1>2, <2>1, <3>1
    <3>2. CASE i > n
      <4>1. i - 1 \in n .. Depth - 1 /\ (i - 1) + 1 = i
        BY <1>2, <3>2
      <4>2. i - 1 \notin S
        OBVIOUS
      <4> QED
        BY <4>1, <4>2
    <3> QED
      BY <1>2, <3>1, <3>2
  <2>3. key.bits = k.bits
    BY <1>5, <1>6, <2>2, SameBits
  <2> QED
    BY <1>1, <1>4, <2>3, KeysAssumption
<1>8. S \in SUBSET Nat
  BY <1>2
<1>9. PICK m \in S : \A i \in S : m <= i
  <2> HIDE DEF S
  <2> QED
    BY <1>7, <1>8, LeastNumber
<1>10. \A j \in n .. m - 1 : key.bits[j + 1] = k.bits[j + 1]
  <2> SUFFICES ASSUME NEW j \in n .. m - 1 PROVE key.bits[j + 1] = k.bits[j + 1]
    OBVIOUS
  <2>1. j \in n .. Depth - 1 /\ ~ (m <= j)
    BY <1>2
  <2>2. j \notin S
    BY <1>9, <2>1
  <2> QED
    BY <2>1, <2>2
<1>11. m \in n .. Depth - 1 /\ key.bits[m + 1] # k.bits[m + 1]
  OBVIOUS
<1> HIDE DEF S
<1>12. PartAt(m, d, key)
  BY <1>5, <1>10, <1>11 DEF PartAt, k, n
<1> QED
  BY <1>1, <1>3, <1>4, <1>12 DEF k, n

\* What is below the way of two keys down to where they part.
LEMMA TwoToThePart ==
  ASSUME NEW c \in Contents, NEW key \in Keys, NEW value \in Values,
         NEW d, Descends(d, c, key), d.found, ~Hits(d, key),
         NEW m, PartAt(m, d, key), NEW i \in d.level .. m
  PROVE  /\ i \in 0 .. Depth - 1 /\ i \in 0 .. Depth
         /\ PresentIn(c, Prefix(key, i)) = {d.key}
         /\ Many(After(c, key, value), Prefix(key, i))
         /\ i # m => TreeOf(After(c, key, value))[Beside(key, i)] = Zero
         /\ i = m => TreeOf(After(c, key, value))[Beside(key, i)]
                       = Leaf(RemoveKeyBits(d.key, i + 1), Value(c[d.key]))
<1> DEFINE k == d.key
           n == d.level
           e == After(c, key, value)
<1>1. k \in Keys /\ k # key /\ c[k] # 0 /\ Prefix(k, n) = Prefix(key, n)
  BY KeysPart
<1>2. n \in 0 .. Depth /\ n \in Nat /\ Depth \in Nat
  BY DescentLevel
<1>3. /\ m \in n .. Depth - 1 /\ key.bits[m + 1] # k.bits[m + 1]
      /\ \A j \in n .. m - 1 : key.bits[j + 1] = k.bits[j + 1]
  <2>1. Len(key.bits) = Depth
    BY BitsOf
  <2> QED
    BY <2>1 DEF PartAt
<1>4. PresentIn(c, Prefix(key, n)) = {k}
  BY DEF Descends
<1> HIDE DEF k, n, e
<1>5. i \in n .. m
  BY DEF n
<1>6. i \in 0 .. Depth - 1 /\ i \in 0 .. Depth /\ n \in 0 .. i
  BY <1>2, <1>3, <1>5
<1>7. \A j \in 1 .. n : k.bits[j] = key.bits[j]
  <2>1. n \in 0 .. n
    BY <1>2
  <2> QED
    BY <1>1, <1>2, <2>1, Shorter
<1>8. \A j \in 1 .. i : k.bits[j] = key.bits[j]
  <2> SUFFICES ASSUME NEW j \in 1 .. i PROVE k.bits[j] = key.bits[j]
    OBVIOUS
  <2>1. CASE j <= n
    BY <1>2, <1>7, <2>1
  <2>2. CASE j > n
    <3>1. j - 1 \in n .. m - 1 /\ (j - 1) + 1 = j
      BY <1>2, <1>3, <1>5, <2>2
    <3>2. key.bits[(j - 1) + 1] = k.bits[(j - 1) + 1]
      BY <1>3, <3>1
    <3> QED
      BY <3>1, <3>2
  <2> QED
    BY <1>2, <1>6, <2>1, <2>2
<1>9. Prefix(k, i) = Prefix(key, i)
  BY <1>1, <1>6, <1>8, AgreeingBits
<1>10. PresentIn(c, Prefix(key, i)) = {k}
  <2>1. PresentIn(c, Prefix(key, i)) = {l \in Keys : c[l] # 0 /\ Prefix(l, i) = Prefix(key, i)}
    <3>1. i \in 0 .. Depth
      BY <1>6
    <3> QED
      BY <3>1, BelowPrefix
  <2>2. k \in PresentIn(c, Prefix(key, i))
    BY <1>1, <1>9, <2>1
  <2>3. PresentIn(c, Prefix(key, i)) \subseteq PresentIn(c, Prefix(key, n))
    BY <1>2, <1>6, PresentShrinks
  <2> QED
    BY <1>4, <2>2, <2>3
<1>11. Many(e, Prefix(key, i))
  <2>1. value # 0
    BY KeysAssumption
  <2>2. PresentIn(e, Prefix(key, i)) = {k} \cup {key}
    BY <1>6, <1>10, <2>1, PresentAfter DEF e
  <2> QED
    BY <1>1, <2>2, ManyAreTwo
<1>12. /\ PresentIn(c, Beside(key, i)) = {l \in PresentIn(c, Prefix(key, i)) : l.bits[i + 1] # key.bits[i + 1]}
       /\ PresentIn(e, Beside(key, i)) = PresentIn(c, Beside(key, i))
       /\ Beside(key, i) \in Prefixes /\ Len(Beside(key, i)) = i + 1
  BY <1>6, PresentBeside, Elsewhere, BesideFacts DEF e
<1>13. ASSUME i # m PROVE TreeOf(e)[Beside(key, i)] = Zero
  <2>1. i \in n .. m - 1
    BY <1>2, <1>3, <1>5, <1>13
  <2>2. k.bits[i + 1] = key.bits[i + 1]
    BY <1>3, <2>1
  <2>3. PresentIn(e, Beside(key, i)) = {}
    BY <1>10, <1>12, <2>2
  <2> QED
    BY <1>12, <2>3, TreeFacts
<1>14. ASSUME i = m PROVE TreeOf(e)[Beside(key, i)] = Leaf(RemoveKeyBits(k, i + 1), Value(c[k]))
  <2>1. PresentIn(e, Beside(key, i)) = {k}
    BY <1>3, <1>10, <1>12, <1>14
  <2>2. e[k] = c[k]
    BY <1>1, AfterFacts DEF e
  <2>3. TreeOf(e)[Beside(key, i)] = Leaf(RemoveKeyBits(k, i + 1), Value(e[k]))
    BY <1>1, <1>12, <2>1, TreeFacts
  <2> QED
    BY <2>2, <2>3
<1> QED
  BY <1>6, <1>10, <1>11, <1>13, <1>14 DEF k, e

\* What the fork of InsertFound() stands for.
IsFork(f, d, key, m, new, old) ==
  f = [i \in d.level .. m |->
        Join(key.bits[i + 1], IF i = m THEN new ELSE f[i + 1], IF i = m THEN old ELSE Zero)]

\* The leaf found moves down to where the keys part, at level m, and the nodes
\* down to there are those of the new tree.
Forks(ch, c, key, value, d, m) ==
  /\ PartAt(m, d, key) /\ d.level \in Nat /\ m \in d.level .. Depth - 1
  /\ TreeOf(After(c, key, value))[Prefix(key, m + 1)] = Leaf(RemoveKeyBits(key, m + 1), Value(value))
  /\ ch.level = d.level /\ ch.branch = TreeOf(After(c, key, value))[Prefix(key, d.level)]
  /\ ch.saved = {Value(value), Leaf(RemoveKeyBits(key, m + 1), Value(value)),
                 Leaf(RemoveKeyBits(d.key, m + 1), Value(c[d.key]))}
                \cup {TreeOf(After(c, key, value))[Prefix(key, i)] : i \in d.level .. m}

LEMMA InsertFoundForks ==
  ASSUME NEW c \in Contents, NEW key \in Keys, NEW value \in Values,
         NEW d, Descends(d, c, key), d.found, ~Hits(d, key)
  PROVE  \E m : Forks(InsertFound(d, key, value), c, key, value, d, m)
<1> DEFINE ch == InsertFound(d, key, value)
           n == d.level
           k == d.key
           e == After(c, key, value)
           u == TreeOf(e)
           m == CHOOSE i \in d.level .. Len(key.bits) - 1 :
                  /\ key.bits[i + 1] # d.key.bits[i + 1]
                  /\ \A j \in d.level .. i - 1 : key.bits[j + 1] = d.key.bits[j + 1]
           new == Leaf(RemoveKeyBits(key, m + 1), Value(value))
           old == Leaf(RemoveKeyBits(d.key, m + 1), d.end[3])
           g == CHOOSE f : IsFork(f, d, key, m, new, old)
           f == [i \in n .. m |-> u[Prefix(key, i)]]
           Bad == {x \in 0 .. m - n : g[m - x] # u[Prefix(key, m - x)]}
<1>1. /\ ch.level = n /\ ch.branch = g[n]
      /\ ch.saved = {Value(value), new, old} \cup {g[i] : i \in n .. m}
  BY DEF InsertFound, Change, IsFork
<1>2. PartAt(m, d, key)
  <2>1. \E i \in d.level .. Len(key.bits) - 1 :
          /\ key.bits[i + 1] # d.key.bits[i + 1]
          /\ \A j \in d.level .. i - 1 : key.bits[j + 1] = d.key.bits[j + 1]
    BY KeysPart DEF PartAt
  <2> QED
    BY <2>1 DEF PartAt
<1>3. d.end[3] = Value(c[k])
  BY NodeFacts DEF Descends
<1> HIDE DEF m
<1>4. n \in 0 .. Depth /\ n \in Nat /\ n \in 0 .. n /\ m \in n .. Depth - 1 /\ m \in Nat /\ Depth \in Nat
  <2>1. Len(key.bits) = Depth
    BY BitsOf
  <2>2. m \in n .. Depth - 1
    BY <1>2, <2>1 DEF PartAt
  <2>3. n \in 0 .. Depth /\ n \in Nat /\ Depth \in Nat /\ n \in 0 .. n
    BY DescentLevel
  <2> HIDE DEF n
  <2> QED
    BY <2>2, <2>3
<1>5. u[Prefix(key, m + 1)] = new
  <2>1. m \in d.level .. m
    BY <1>4
  <2>2. PresentIn(c, Prefix(key, m)) = {k} /\ m \in 0 .. Depth - 1 /\ k # key
    BY <1>2, <2>1, TwoToThePart, KeysPart
  <2>3. PresentIn(c, Prefix(key, m + 1)) = {l \in PresentIn(c, Prefix(key, m)) : l.bits[m + 1] = key.bits[m + 1]}
    BY <2>2, PresentBeside
  <2>4. PresentIn(c, Prefix(key, m + 1)) \subseteq {key} /\ m + 1 \in 0 .. Depth
    BY <1>2, <1>4, <2>2, <2>3 DEF PartAt
  <2> QED
    BY <2>4, OnlyKeyLeft
<1> HIDE DEF new
<1>6. ASSUME NEW i \in n .. m
      PROVE  u[Prefix(key, i)] = Join(key.bits[i + 1], IF i = m THEN new ELSE u[Prefix(key, i + 1)],
                                                       IF i = m THEN old ELSE Zero)
  <2>1. /\ i \in 0 .. Depth /\ Many(e, Prefix(key, i))
        /\ i # m => u[Beside(key, i)] = Zero
        /\ i = m => u[Beside(key, i)] = old
    BY <1>2, <1>3, TwoToThePart
  <2>2. u[Prefix(key, i)] = Join(key.bits[i + 1], u[Prefix(key, i + 1)], u[Beside(key, i)])
    BY <2>1, ChildrenOnTheWay
  <2> QED
    BY <1>5, <2>1, <2>2
<1> HIDE DEF ch, e, u, n, old
<1>7. IsFork(f, d, key, m, new, old)
  <2>1. \A i \in n .. m : f[i] = u[Prefix(key, i)]
    OBVIOUS
  <2>2. f = [i \in n .. m |-> f[i]]
    OBVIOUS
  <2> HIDE DEF f
  <2>3. ASSUME NEW i \in n .. m
        PROVE  f[i] = Join(key.bits[i + 1], IF i = m THEN new ELSE f[i + 1], IF i = m THEN old ELSE Zero)
    <3>1. i # m => i + 1 \in n .. m
      BY <1>4
    <3>2. i # m => f[i + 1] = u[Prefix(key, i + 1)]
      BY <2>1, <3>1
    <3>3. f[i] = u[Prefix(key, i)]
      BY <2>1
    <3> QED
      BY <1>6, <3>2, <3>3
  <2> QED
    BY <2>2, <2>3 DEF IsFork, n
<1>8. IsFork(g, d, key, m, new, old)
  BY <1>7
<1> HIDE DEF g, f
<1>9. \A i \in n .. m :
        g[i] = Join(key.bits[i + 1], IF i = m THEN new ELSE g[i + 1], IF i = m THEN old ELSE Zero)
  BY <1>8 DEF IsFork, n
<1>10. Bad = {}
  <2> SUFFICES ASSUME Bad # {} PROVE FALSE
    OBVIOUS
  <2>1. Bad \in SUBSET Nat
    BY <1>4
  <2>2. PICK x \in Bad : \A y \in Bad : x <= y
    <3> HIDE DEF Bad
    <3> QED
      BY <2>1, LeastNumber
  <2> DEFINE i == m - x
  <2>3. x \in 0 .. m - n /\ g[i] # u[Prefix(key, i)]
    OBVIOUS
  <2>4. /\ i \in n .. m /\ x \in Nat
        /\ x = 0 => i = m
        /\ x # 0 => /\ i # m /\ x - 1 \in 0 .. m - n /\ ~ (x <= x - 1) /\ m - (x - 1) = i + 1
    BY <1>4, <2>3
  <2>5. x # 0 => g[m - (x - 1)] = u[Prefix(key, m - (x - 1))]
    BY <2>2, <2>4
  <2> HIDE DEF i
  <2>6. i # m => g[i + 1] = u[Prefix(key, i + 1)]
    BY <2>4, <2>5
  <2>7. g[i] = u[Prefix(key, i)]
    BY <1>6, <1>9, <2>4, <2>6
  <2> QED
    BY <2>3, <2>7
<1>11. \A i \in n .. m : g[i] = u[Prefix(key, i)]
  <2>1. \A i \in n .. m : m - i \in 0 .. m - n /\ m - (m - i) = i
    BY <1>4
  <2> QED
    BY <1>10, <2>1
<1>12. g[n] = u[Prefix(key, n)] /\ {g[i] : i \in n .. m} = {u[Prefix(key, i)] : i \in n .. m}
  <2>1. n \in n .. m
    BY <1>4
  <2> QED
    BY <1>11, <2>1
<1>13. /\ ch.level = n /\ ch.branch = u[Prefix(key, n)]
       /\ ch.saved = {Value(value), new, old} \cup {u[Prefix(key, i)] : i \in n .. m}
  BY <1>1, <1>12
<1>14. old = Leaf(RemoveKeyBits(d.key, m + 1), Value(c[d.key]))
  BY <1>3 DEF old
<1>15. Forks(ch, c, key, value, d, m)
  BY <1>2, <1>4, <1>5, <1>13, <1>14 DEF Forks, new, u, e, n
<1> QED
  BY <1>15 DEF ch

LEMMA InsertFoundChanges ==
  ASSUME NEW c \in Contents, NEW key \in Keys, NEW value \in Values,
         NEW d, Descends(d, c, key), d.found, ~Hits(d, key)
  PROVE  Changes(InsertFound(d, key, value), d, key, After(c, key, value))
<1> DEFINE ch == InsertFound(d, key, value)
<1>1. PICK m : Forks(ch, c, key, value, d, m)
  BY InsertFoundForks
<1>2. d.level \in 0 .. d.level
  BY DescentLevel
<1>3. Open(After(c, key, value), key, d.level)
  BY StaysOpen
<1> HIDE DEF ch
<1>4. Changes(ch, d, key, After(c, key, value))
  BY <1>1, <1>2, <1>3 DEF Forks, Changes
<1> QED
  BY <1>4 DEF ch

\* Which change is made when.
LEMMA SevenCases ==
  ASSUME NEW d, NEW key, NEW value
  PROVE  \/ value # 0 /\ ~d.found /\ ChangeOf(d, key, value) = InsertNotFound(d, key, value)
         \/ value # 0 /\ d.found /\ Hits(d, key) /\ ChangeOf(d, key, value) = Update(d, key, value)
         \/ value # 0 /\ d.found /\ ~Hits(d, key) /\ ChangeOf(d, key, value) = InsertFound(d, key, value)
         \/ value = 0 /\ ~Hits(d, key) /\ ChangeOf(d, key, value) = ZeroToZero(d, key)
         \/ value = 0 /\ Hits(d, key) /\ d.level = 0 /\ ChangeOf(d, key, value) = DeleteLast(d, key)
         \/ /\ value = 0 /\ Hits(d, key) /\ d.level # 0 /\ ChangeOf(d, key, value) = DeleteFound(d, key)
            /\ IsLeaf(Child(d.path[d.level - 1], 1 - key.bits[d.level]))
         \/ /\ value = 0 /\ Hits(d, key) /\ d.level # 0 /\ ChangeOf(d, key, value) = DeleteNotFound(d, key)
            /\ ~IsLeaf(Child(d.path[d.level - 1], 1 - key.bits[d.level]))
BY DEF ChangeOf

LEMMA ChangeOfIs ==
  ASSUME NEW c \in Contents, NEW key \in Keys, NEW value \in Values \cup {0},
         NEW d, Descends(d, c, key)
  PROVE  Changes(ChangeOf(d, key, value), d, key, After(c, key, value))
<1> DEFINE ch == ChangeOf(d, key, value)
<1>1. value # 0 => value \in Values
  OBVIOUS
<1>2. CASE value # 0 /\ ~d.found /\ ch = InsertNotFound(d, key, value)
  BY <1>1, <1>2, InsertNotFoundChanges
<1>3. CASE value # 0 /\ d.found /\ Hits(d, key) /\ ch = Update(d, key, value)
  BY <1>1, <1>3, UpdateChanges
<1>4. CASE value # 0 /\ d.found /\ ~Hits(d, key) /\ ch = InsertFound(d, key, value)
  BY <1>1, <1>4, InsertFoundChanges
<1>5. CASE value = 0 /\ ~Hits(d, key) /\ ch = ZeroToZero(d, key)
  BY <1>5, ZeroToZeroChanges
<1>6. CASE value = 0 /\ Hits(d, key) /\ d.level = 0 /\ ch = DeleteLast(d, key)
  BY <1>6, DeleteLastChanges
<1>7. CASE /\ value = 0 /\ Hits(d, key) /\ d.level # 0 /\ ch = DeleteFound(d, key)
           /\ IsLeaf(Child(d.path[d.level - 1], 1 - key.bits[d.level]))
  BY <1>7, DeleteFoundChanges
<1>8. CASE /\ value = 0 /\ Hits(d, key) /\ d.level # 0 /\ ch = DeleteNotFound(d, key)
           /\ ~IsLeaf(Child(d.path[d.level - 1], 1 - key.bits[d.level]))
  BY <1>8, DeleteNotFoundChanges
<1> QED
  BY <1>2, <1>3, <1>4, <1>5, <1>6, <1>7, <1>8, SevenCases

\* A set leads from the tree of some contents to the tree of the new ones.
LEMMA SetIs ==
  ASSUME NEW c \in Contents, NEW key \in Keys, NEW value \in Values \cup {0}
  PROVE  Set(TreeOf(c)[<<>>], key, value).newRoot = TreeOf(After(c, key, value))[<<>>]
<1> DEFINE d == Descent(TreeOf(c)[<<>>], key)
           ch == ChangeOf(d, key, value)
<1>1. Set(TreeOf(c)[<<>>], key, value).newRoot = Climb(d, key, ch)[0]
  BY DEF Set
<1>2. Descends(d, c, key)
  BY DescentIs
<1> HIDE DEF d
<1>3. Changes(ch, d, key, After(c, key, value))
  BY <1>2, ChangeOfIs
<1> HIDE DEF ch
<1>4. Climb(d, key, ch)[0] = TreeOf(After(c, key, value))[<<>>]
  BY <1>2, <1>3, ClimbToRoot
<1> QED
  BY <1>1, <1>4 DEF ch, d

-----------------------------------------------------------------------------
(* The nodes under the root of some contents. *)

\* The node of a present key at a level of its way, or its value below.
OnTheWay(x, c, key, n) == c[key] # 0 /\ Open(c, key, n) /\ x = TreeOf(c)[Prefix(key, n)]
ValueAt(x, c, key, n) ==
  c[key] # 0 /\ Open(c, key, n) /\ PresentIn(c, Prefix(key, n)) = {key} /\ x = Value(c[key])

UpTo(c, m) ==
  {x \in {TreeOf(c)[p] : p \in Prefixes} \cup {Value(c[key]) : key \in Keys} :
     \E key \in Keys, n \in 0 .. Depth :
       \/ n <= m /\ OnTheWay(x, c, key, n)
       \/ n < m /\ ValueAt(x, c, key, n)}

IsNodeOf(x, c) ==
  \/ \E key \in Keys, n \in 0 .. Depth : OnTheWay(x, c, key, n)
  \/ \E key \in Keys : c[key] # 0 /\ x = Value(c[key])

LEMMA UpToIs ==
  ASSUME NEW c, NEW m, NEW x
  PROVE  x \in UpTo(c, m) <=> \E key \in Keys, n \in 0 .. Depth :
                                 \/ n <= m /\ OnTheWay(x, c, key, n)
                                 \/ n < m /\ ValueAt(x, c, key, n)
<1>1. \A key \in Keys, n \in 0 .. Depth : OnTheWay(x, c, key, n) => x \in {TreeOf(c)[p] : p \in Prefixes}
  BY PrefixFacts DEF OnTheWay
<1>2. \A key \in Keys, n \in 0 .. Depth : ValueAt(x, c, key, n) => x \in {Value(c[k]) : k \in Keys}
  BY DEF ValueAt
<1> QED
  BY <1>1, <1>2 DEF UpTo

\* A present key has a node at every level of its way.
LEMMA NodeThere ==
  ASSUME NEW c, NEW key \in Keys, NEW n \in 0 .. Depth, c[key] # 0
  PROVE  TreeOf(c)[Prefix(key, n)] # Zero
<1>1. key \in PresentIn(c, Prefix(key, n)) /\ Prefix(key, n) \in Prefixes
  BY BelowPrefix, PrefixFacts
<1> QED
  BY <1>1, NodeTells

\* Keys with the same prefix go the same way to it.
LEMMA SameWay ==
  ASSUME NEW c, NEW key \in Keys, NEW k \in Keys, NEW n \in 0 .. Depth,
         Prefix(k, n) = Prefix(key, n), Open(c, key, n)
  PROVE  Open(c, k, n)
<1> SUFFICES ASSUME NEW j \in 0 .. n - 1 PROVE Many(c, Prefix(k, j))
  BY DEF Open
<1>1. j \in 0 .. n /\ j \in 0 .. n - 1
  BY DepthIsNat
<1>2. Prefix(k, j) = Prefix(key, j)
  BY <1>1, Shorter
<1> QED
  BY <1>2 DEF Open

LEMMA TagsDiffer ==
  /\ \A v : ~IsLeaf(Value(v)) /\ ~IsBranch(Value(v)) /\ Value(v) # Zero /\ Children(Value(v)) = {}
  /\ \A r, v : Children(Leaf(r, v)) = {v}
  /\ \A a, b : Children(Branch(a, b)) = {a, b} \ {Zero}
<1>1. \A v : ~IsLeaf(Value(v)) /\ ~IsBranch(Value(v)) /\ Value(v) # Zero
  BY DEF IsLeaf, IsBranch, Value, Zero
<1>2. \A r, v : Leaf(r, v)[3] = v /\ IsLeaf(Leaf(r, v))
  BY NodeFacts
<1>3. \A a, b : Branch(a, b)[2] = a /\ Branch(a, b)[3] = b /\ IsBranch(Branch(a, b)) /\ ~IsLeaf(Branch(a, b))
  BY NodeFacts DEF Branch
<1> QED
  BY <1>1, <1>2, <1>3 DEF Children

LEMMA FirstNodes ==
  ASSUME NEW c
  PROVE  UpTo(c, 0) = {TreeOf(c)[<<>>]} \ {Zero}
<1> DEFINE r == TreeOf(c)[<<>>]
<1>1. Depth \in Nat /\ 0 \in 0 .. Depth /\ \A n \in 0 .. Depth : ~ (n < 0) /\ (n <= 0 <=> n = 0)
  BY DepthIsNat
<1>2. ASSUME NEW x \in UpTo(c, 0) PROVE x = r /\ r # Zero
  <2>1. PICK key \in Keys, n \in 0 .. Depth : n = 0 /\ OnTheWay(x, c, key, n)
    BY <1>1, UpToIs
  <2>2. OnTheWay(x, c, key, 0)
    BY <2>1
  <2> QED
    BY <1>1, <2>2, NoBits, NodeThere DEF OnTheWay
<1>3. ASSUME r # Zero PROVE r \in UpTo(c, 0)
  <2>1. PICK key \in Keys : TRUE
    BY KeysAssumption
  <2>2. PresentIn(c, <<>>) # {} /\ <<>> \in Prefixes
    BY <1>3, <2>1, NoBits, NodeTells
  <2>3. PICK k \in PresentIn(c, <<>>) : TRUE
    BY <2>2
  <2>4. k \in Keys /\ c[k] # 0
    BY DEF PresentIn
  <2>5. OnTheWay(r, c, k, 0)
    BY <2>4, NoBits DEF OnTheWay, Open
  <2> QED
    BY <1>1, <2>4, <2>5, UpToIs
<1> QED
  BY <1>2, <1>3

\* A child of a node on the way is on the way of a key, one level down.
LEMMA ChildOnTheWay ==
  ASSUME NEW c, NEW key \in Keys, NEW n \in 0 .. Depth, NEW x, OnTheWay(x, c, key, n),
         NEW y \in Children(x)
  PROVE  \/ ValueAt(y, c, key, n)
         \/ n + 1 \in 0 .. Depth /\ \E k \in Keys : OnTheWay(y, c, k, n + 1)
<1> DEFINE p == Prefix(key, n)
           t == TreeOf(c)
<1>1. p \in Prefixes /\ Len(p) = n /\ key \in PresentIn(c, p) /\ x = t[p] /\ c[key] # 0 /\ Open(c, key, n)
  BY PrefixFacts, BelowPrefix DEF OnTheWay
<1>2. CASE \E k \in Keys : PresentIn(c, p) = {k}
  <2>1. PresentIn(c, p) = {key}
    BY <1>1, <1>2
  <2>2. t[p] = Leaf(RemoveKeyBits(key, Len(p)), Value(c[key]))
    BY <1>1, <2>1, TreeFacts
  <2>3. y = Value(c[key])
    BY <1>1, <2>2, TagsDiffer
  <2> QED
    BY <1>1, <2>1, <2>3 DEF ValueAt
<1>3. CASE Many(c, p)
  <2>1. n \in 0 .. Depth - 1 /\ n + 1 \in 0 .. Depth /\ n \in 0 .. n + 1 /\ n \in Nat
    BY <1>3, BranchLevel
  <2>2. t[p] = Branch(t[Append(p, 0)], t[Append(p, 1)])
    BY <1>1, <1>3, TreeFacts
  <2>3. PICK b \in {0, 1} : y = t[Append(p, b)] /\ y # Zero
    BY <1>1, <2>2, TagsDiffer
  <2>4. Append(p, b) \in Prefixes /\ Len(Append(p, b)) = n + 1
    BY <1>1, <1>3, ManyAreAbove
  <2>5. PresentIn(c, Append(p, b)) # {}
    BY <2>3, <2>4, NodeTells
  <2>6. PICK k \in PresentIn(c, Append(p, b)) : TRUE
    BY <2>5
  <2>7. k \in Keys /\ c[k] # 0 /\ Prefix(k, n + 1) = Append(p, b)
    BY <2>4 DEF PresentIn, Prefix
  <2>8. Prefix(k, n) = p
    <3>1. n < Depth
      BY <2>1, DepthIsNat
    <3>2. Prefix(k, Len(p) + 1) = Append(p, b)
      BY <1>1, <2>7
    <3>3. Prefix(k, Len(p)) = p
      BY <1>1, <2>7, <3>1, <3>2, BelowLonger
    <3> QED
      BY <1>1, <3>3
  <2>9. Open(c, k, n) /\ Many(c, Prefix(k, n))
    BY <1>1, <1>3, <2>7, <2>8, SameWay
  <2>10. Open(c, k, n + 1)
    BY <2>1, <2>7, <2>9, OpenFurther
  <2> QED
    BY <2>1, <2>3, <2>7, <2>10 DEF OnTheWay
<1>4. PresentIn(c, p) # {}
  BY <1>1
<1> QED
  BY <1>1, <1>2, <1>3, <1>4, TreeFacts

\* What is on the way below the root is the child of what is above.
LEMMA ParentOnTheWay ==
  ASSUME NEW c, NEW key \in Keys, NEW n \in Nat, n + 1 \in 0 .. Depth,
         NEW y, OnTheWay(y, c, key, n + 1)
  PROVE  n \in 0 .. Depth /\ \E x : OnTheWay(x, c, key, n) /\ y \in Children(x)
<1> DEFINE p == Prefix(key, n)
           x == TreeOf(c)[p]
<1>1. n \in 0 .. Depth /\ n \in 0 .. Depth - 1
  BY DepthIsNat
<1>2. Open(c, key, n) /\ Many(c, p) /\ c[key] # 0
  BY OpenFurther DEF OnTheWay
<1>3. OnTheWay(x, c, key, n)
  BY <1>2 DEF OnTheWay
<1>4. p \in Prefixes /\ y = TreeOf(c)[Prefix(key, n + 1)] /\ y # Zero
  BY <1>1, <1>2, PrefixFacts, NodeThere DEF OnTheWay
<1>5. Append(p, key.bits[n + 1]) = Prefix(key, n + 1) /\ key.bits[n + 1] \in {0, 1}
  BY <1>1, LongerPrefix
<1>6. x = Branch(TreeOf(c)[Append(p, 0)], TreeOf(c)[Append(p, 1)])
  BY <1>2, <1>4, TreeFacts
<1>7. y \in Children(x)
  <2>1. y = TreeOf(c)[Append(p, 0)] \/ y = TreeOf(c)[Append(p, 1)]
    BY <1>4, <1>5
  <2> QED
    BY <1>4, <1>6, <2>1, TagsDiffer
<1> QED
  BY <1>1, <1>3, <1>7

LEMMA NextNodes ==
  ASSUME NEW c, NEW m \in Nat
  PROVE  UpTo(c, m + 1) = UpTo(c, m) \cup UNION {Children(x) : x \in UpTo(c, m)}
<1>1. ASSUME NEW y \in UpTo(c, m + 1)
      PROVE  y \in UpTo(c, m) \/ \E x \in UpTo(c, m) : y \in Children(x)
  <2>1. PICK key \in Keys, n \in 0 .. Depth :
          (n <= m + 1 /\ OnTheWay(y, c, key, n)) \/ (n < m + 1 /\ ValueAt(y, c, key, n))
    BY UpToIs
  <2>2. n \in Nat /\ (n <= m + 1 => n <= m \/ n = m + 1) /\ (n < m + 1 => n < m \/ n = m)
    BY DepthIsNat
  <2>3. CASE (n <= m /\ OnTheWay(y, c, key, n)) \/ (n < m /\ ValueAt(y, c, key, n))
    BY <2>3, UpToIs
  <2>4. CASE n = m + 1 /\ OnTheWay(y, c, key, n)
    <3>1. PICK x : OnTheWay(x, c, key, m) /\ y \in Children(x) /\ m \in 0 .. Depth
      BY <2>4, ParentOnTheWay
    <3>2. m <= m
      OBVIOUS
    <3>3. x \in UpTo(c, m)
      BY <3>1, <3>2, UpToIs
    <3> QED
      BY <3>1, <3>3
  <2>5. CASE n = m /\ ValueAt(y, c, key, n)
    <3> DEFINE x == TreeOf(c)[Prefix(key, n)]
    <3>1. OnTheWay(x, c, key, n) /\ n <= m
      BY <2>5 DEF OnTheWay, ValueAt
    <3>2. x = Leaf(RemoveKeyBits(key, Len(Prefix(key, n))), Value(c[key]))
      BY <2>5, PrefixFacts, TreeFacts DEF ValueAt
    <3>3. y \in Children(x)
      BY <2>5, <3>2, TagsDiffer DEF ValueAt
    <3>4. x \in UpTo(c, m)
      BY <3>1, UpToIs
    <3> QED
      BY <3>3, <3>4
  <2> QED
    BY <2>1, <2>2, <2>3, <2>4, <2>5
<1>2. ASSUME NEW y \in UpTo(c, m) PROVE y \in UpTo(c, m + 1)
  <2>1. \A n \in 0 .. Depth : (n <= m => n <= m + 1) /\ (n < m => n < m + 1)
    BY DepthIsNat
  <2> QED
    BY <2>1, UpToIs
<1>3. ASSUME NEW x \in UpTo(c, m), NEW y \in Children(x) PROVE y \in UpTo(c, m + 1)
  <2>1. PICK key \in Keys, n \in 0 .. Depth :
          (n <= m /\ OnTheWay(x, c, key, n)) \/ (n < m /\ ValueAt(x, c, key, n))
    BY UpToIs
  <2>2. ~ValueAt(x, c, key, n)
    BY TagsDiffer DEF ValueAt
  <2>3. /\ n <= m /\ OnTheWay(x, c, key, n)
        /\ n < m + 1 /\ n + 1 <= m + 1
    BY <2>1, <2>2, DepthIsNat
  <2>4. \/ ValueAt(y, c, key, n)
        \/ n + 1 \in 0 .. Depth /\ \E k \in Keys : OnTheWay(y, c, k, n + 1)
    BY <2>3, ChildOnTheWay
  <2> QED
    BY <2>3, <2>4, UpToIs
<1> QED
  BY <1>1, <1>2, <1>3

\* What NodesOf() stands for.
IsUpTo(f, r) ==
  f = [n \in 0 .. Depth + 1 |->
        IF n = 0 THEN {r} \ {Zero}
        ELSE f[n - 1] \cup UNION {Children(node) : node \in f[n - 1]}]

LEMMA NodesOfIs ==
  ASSUME NEW c
  PROVE  NodesOf(TreeOf(c)[<<>>]) = UpTo(c, Depth + 1)
<1> DEFINE r == TreeOf(c)[<<>>]
           f == [n \in 0 .. Depth + 1 |-> UpTo(c, n)]
           g == CHOOSE g : IsUpTo(g, r)
           Bad == {n \in 0 .. Depth + 1 : g[n] # UpTo(c, n)}
<1>1. Depth \in Nat /\ Depth + 1 \in 0 .. Depth + 1 /\ 0 \in 0 .. Depth + 1
  BY DepthIsNat
<1>2. UpTo(c, 0) = {r} \ {Zero}
  BY FirstNodes
<1> HIDE DEF r
<1>3. ASSUME NEW n \in 0 .. Depth + 1, n # 0
      PROVE  n - 1 \in 0 .. Depth + 1 /\ UpTo(c, n) = UpTo(c, n - 1) \cup UNION {Children(x) : x \in UpTo(c, n - 1)}
  <2> DEFINE m == n - 1
  <2>1. m \in Nat /\ m + 1 = n /\ m \in 0 .. Depth + 1
    BY <1>1, <1>3
  <2> HIDE DEF m
  <2>2. UpTo(c, m + 1) = UpTo(c, m) \cup UNION {Children(x) : x \in UpTo(c, m)}
    BY <2>1, NextNodes
  <2> QED
    BY <2>1, <2>2 DEF m
<1>4. IsUpTo(f, r)
  <2>1. \A n \in 0 .. Depth + 1 : f[n] = UpTo(c, n)
    OBVIOUS
  <2>2. f = [n \in 0 .. Depth + 1 |-> f[n]]
    OBVIOUS
  <2> HIDE DEF f
  <2>3. f[0] = {r} \ {Zero}
    BY <1>1, <1>2, <2>1
  <2>4. ASSUME NEW n \in 0 .. Depth + 1, n # 0
        PROVE  f[n] = f[n - 1] \cup UNION {Children(x) : x \in f[n - 1]}
    BY <1>3, <2>1, <2>4
  <2> QED
    BY <2>2, <2>3, <2>4 DEF IsUpTo
<1>5. IsUpTo(g, r)
  BY <1>4
<1>6. NodesOf(r) = g[Depth + 1]
  BY DEF NodesOf, IsUpTo
<1> HIDE DEF g
<1>7. Bad = {}
  <2> SUFFICES ASSUME Bad # {} PROVE FALSE
    OBVIOUS
  <2>1. Bad \in SUBSET Nat
    BY <1>1
  <2>2. PICK n \in Bad : \A k \in Bad : n <= k
    <3> HIDE DEF Bad
    <3> QED
      BY <2>1, LeastNumber
  <2>3. n \in 0 .. Depth + 1 /\ g[n] # UpTo(c, n)
    OBVIOUS
  <2>4. n # 0
    BY <1>1, <1>2, <1>5, <2>3 DEF IsUpTo
  <2>5. n - 1 \in 0 .. Depth + 1 /\ ~ (n <= n - 1)
    BY <1>1, <2>3, <2>4
  <2>6. g[n - 1] = UpTo(c, n - 1)
    BY <2>2, <2>5
  <2>7. g[n] = g[n - 1] \cup UNION {Children(x) : x \in g[n - 1]}
    BY <1>5, <2>3, <2>4 DEF IsUpTo
  <2> QED
    BY <1>3, <2>3, <2>4, <2>6, <2>7
<1> QED
  BY <1>1, <1>6, <1>7 DEF r

LEMMA NodesAre ==
  ASSUME NEW c, NEW x
  PROVE  x \in NodesOf(TreeOf(c)[<<>>]) <=> IsNodeOf(x, c)
<1>1. \A n \in 0 .. Depth : n <= Depth + 1 /\ n < Depth + 1
  BY DepthIsNat
<1>2. x \in NodesOf(TreeOf(c)[<<>>]) <=>
        \E key \in Keys, n \in 0 .. Depth : OnTheWay(x, c, key, n) \/ ValueAt(x, c, key, n)
  BY <1>1, NodesOfIs, UpToIs
<1>3. ASSUME NEW key \in Keys, c[key] # 0, x = Value(c[key])
      PROVE  \E n \in 0 .. Depth : ValueAt(x, c, key, n)
  <2>1. PICK n \in 0 .. Depth : Open(c, key, n) /\ ~Many(c, Prefix(key, n))
    BY WayEnds
  <2>2. key \in PresentIn(c, Prefix(key, n)) /\ Prefix(key, n) \in Prefixes
    BY <1>3, BelowPrefix, PrefixFacts
  <2>3. \E k \in Keys : PresentIn(c, Prefix(key, n)) = {k}
    BY <2>1, <2>2 DEF Many
  <2>4. PresentIn(c, Prefix(key, n)) = {key}
    BY <2>2, <2>3
  <2> QED
    BY <1>3, <2>1, <2>4 DEF ValueAt
<1>4. \A key \in Keys, n \in 0 .. Depth : ValueAt(x, c, key, n) => c[key] # 0 /\ x = Value(c[key])
  BY DEF ValueAt
<1> QED
  BY <1>2, <1>3, <1>4 DEF IsNodeOf

-----------------------------------------------------------------------------
(* What a set reads is old, and what it leads to is old or saved. *)

\* Places on the way of a key, and beside it, that are not empty hold nodes.
LEMMA NodeOfWay ==
  ASSUME NEW c, NEW key \in Keys, NEW n \in 0 .. Depth, Open(c, key, n),
         TreeOf(c)[Prefix(key, n)] # Zero
  PROVE  IsNodeOf(TreeOf(c)[Prefix(key, n)], c)
<1>1. Prefix(key, n) \in Prefixes
  BY PrefixFacts
<1>2. PresentIn(c, Prefix(key, n)) # {}
  BY <1>1, NodeTells
<1>3. PICK k \in PresentIn(c, Prefix(key, n)) : TRUE
  BY <1>2
<1>4. k \in Keys /\ c[k] # 0 /\ Prefix(k, n) = Prefix(key, n)
  BY <1>3, BelowPrefix
<1>5. Open(c, k, n)
  BY <1>4, SameWay
<1>6. OnTheWay(TreeOf(c)[Prefix(key, n)], c, k, n)
  BY <1>4, <1>5 DEF OnTheWay
<1> QED
  BY <1>4, <1>6 DEF IsNodeOf

LEMMA KeyBeside ==
  ASSUME NEW c, NEW key \in Keys, NEW n \in 0 .. Depth - 1, NEW k \in PresentIn(c, Beside(key, n))
  PROVE  /\ k \in Keys /\ c[k] # 0 /\ Prefix(k, n) = Prefix(key, n)
         /\ Prefix(k, n + 1) = Beside(key, n) /\ k.bits[n + 1] # key.bits[n + 1]
<1>1. Len(Beside(key, n)) = n + 1 /\ n \in 0 .. Depth
  BY BesideFacts, DepthIsNat
<1>2. k \in Keys /\ c[k] # 0 /\ Prefix(k, n + 1) = Beside(key, n)
  BY <1>1 DEF PresentIn, Prefix
<1>3. k \in PresentIn(c, Prefix(key, n)) /\ k.bits[n + 1] # key.bits[n + 1]
  BY PresentBeside
<1>4. Prefix(k, n) = Prefix(key, n)
  <2>1. n \in 0 .. Depth
    BY <1>1
  <2> QED
    BY <1>3, <2>1, BelowIs
<1> QED
  BY <1>2, <1>3, <1>4

LEMMA NodeOfBeside ==
  ASSUME NEW c, NEW key \in Keys, NEW n \in 0 .. Depth - 1, Open(c, key, n + 1),
         TreeOf(c)[Beside(key, n)] # Zero
  PROVE  IsNodeOf(TreeOf(c)[Beside(key, n)], c)
<1>1. Beside(key, n) \in Prefixes /\ n \in 0 .. Depth /\ n \in Nat /\ n + 1 \in 0 .. Depth
  BY BesideFacts, DepthIsNat
<1>2. PresentIn(c, Beside(key, n)) # {}
  BY <1>1, NodeTells
<1>3. PICK k \in PresentIn(c, Beside(key, n)) : TRUE
  BY <1>2
<1>4. k \in Keys /\ c[k] # 0 /\ Prefix(k, n) = Prefix(key, n) /\ Prefix(k, n + 1) = Beside(key, n)
  BY <1>3, KeyBeside
<1>5. Open(c, key, n) /\ Many(c, Prefix(key, n))
  BY <1>1, OpenFurther
<1>6. Open(c, k, n) /\ Many(c, Prefix(k, n))
  BY <1>1, <1>4, <1>5, SameWay
<1>7. Open(c, k, n + 1)
  BY <1>1, <1>4, <1>6, OpenFurther
<1>8. OnTheWay(TreeOf(c)[Beside(key, n)], c, k, n + 1)
  BY <1>4, <1>7 DEF OnTheWay
<1> QED
  BY <1>1, <1>4, <1>8 DEF IsNodeOf

LEMMA OpenOnTheWay ==
  ASSUME NEW c, NEW key \in Keys, NEW d, Descends(d, c, key), NEW i \in 0 .. d.level
  PROVE  Open(c, key, i) /\ i \in 0 .. Depth
<1>1. d.level \in 0 .. Depth /\ Depth \in Nat
  BY DescentLevel
<1>2. i \in 0 .. Depth /\ \A j \in 0 .. i - 1 : j \in 0 .. d.level - 1
  BY <1>1
<1> QED
  BY <1>2 DEF Open, Descends

LEMMA ReadsOnTheWay ==
  ASSUME NEW c, NEW key \in Keys, NEW d, Descends(d, c, key), NEW x \in ReadOnTheWay(d)
  PROVE  IsNodeOf(x, c)
<1>1. CASE \E i \in 0 .. d.level : x = d.path[i] /\ d.path[i] # Zero
  <2>1. PICK i \in 0 .. d.level : x = d.path[i] /\ d.path[i] # Zero
    BY <1>1
  <2>2. d.path[i] = TreeOf(c)[Prefix(key, i)] /\ Open(c, key, i) /\ i \in 0 .. Depth
    BY OpenOnTheWay DEF Descends
  <2> QED
    BY <2>1, <2>2, NodeOfWay
<1>2. CASE d.found /\ x = d.end[3]
  <2>1. d.key \in Keys /\ d.end = Leaf(RemoveKeyBits(d.key, d.level), Value(c[d.key]))
        /\ d.key \in PresentIn(c, Prefix(key, d.level))
    BY <1>2 DEF Descends
  <2>2. x = Value(c[d.key]) /\ c[d.key] # 0
    BY <1>2, <2>1, NodeFacts DEF PresentIn
  <2> QED
    BY <2>1, <2>2 DEF IsNodeOf
<1> QED
  BY <1>1, <1>2 DEF ReadOnTheWay

\* The leaf beside the one that is deleted.
LEMMA LoneLeaf ==
  ASSUME NEW c \in Contents, NEW key \in Keys, NEW d, Descends(d, c, key), Hits(d, key), d.level # 0
  PROVE  LET lone == Child(d.path[d.level - 1], 1 - key.bits[d.level]) IN
         /\ IsNodeOf(lone, c)
         /\ IsLeaf(lone) => \E k \in Keys : /\ PresentIn(c, Beside(key, d.level - 1)) = {k}
                                            /\ c[k] # 0 /\ k # key
                                            /\ Prefix(k, d.level) = Beside(key, d.level - 1)
                                            /\ lone = Leaf(RemoveKeyBits(k, d.level), Value(c[k]))
<1> DEFINE n == d.level - 1
           lone == Child(d.path[n], 1 - key.bits[d.level])
<1>1. /\ n \in 0 .. Depth - 1 /\ n + 1 = d.level /\ Beside(key, n) \in Prefixes
      /\ lone = TreeOf(c)[Beside(key, n)] /\ PresentIn(c, Beside(key, n)) # {}
      /\ key \notin PresentIn(c, Beside(key, n))
  BY BesideFound
<1>2. Len(Beside(key, n)) = d.level
  BY <1>1, BesideFacts
<1>3. Open(c, key, n + 1)
  BY <1>1 DEF Descends
<1> HIDE DEF n, lone
<1>4. IsNodeOf(lone, c)
  <2>1. TreeOf(c)[Beside(key, n)] # Zero
    BY <1>1, NodeTells
  <2> QED
    BY <1>1, <1>3, <2>1, NodeOfBeside
<1>5. ASSUME IsLeaf(lone)
      PROVE  \E k \in Keys : /\ PresentIn(c, Beside(key, n)) = {k} /\ c[k] # 0 /\ k # key
                             /\ Prefix(k, d.level) = Beside(key, n)
                             /\ lone = Leaf(RemoveKeyBits(k, d.level), Value(c[k]))
  <2>1. \E k \in Keys : PresentIn(c, Beside(key, n)) = {k}
    BY <1>1, <1>5, NodeTells
  <2>2. PICK k \in Keys : PresentIn(c, Beside(key, n)) = {k}
    BY <2>1
  <2>3. k \in PresentIn(c, Beside(key, n))
    BY <2>2
  <2>4. c[k] # 0 /\ k # key /\ Prefix(k, d.level) = Beside(key, n)
    BY <1>1, <2>3, KeyBeside
  <2>5. lone = Leaf(RemoveKeyBits(k, d.level), Value(c[k]))
    BY <1>1, <1>2, <2>2, TreeFacts
  <2> QED
    BY <2>2, <2>4, <2>5
<1> QED
  BY <1>4, <1>5 DEF n, lone

LEMMA ReadsAreOld ==
  ASSUME NEW c \in Contents, NEW key \in Keys, NEW value \in Values \cup {0},
         NEW x \in Set(TreeOf(c)[<<>>], key, value).reads
  PROVE  IsNodeOf(x, c)
<1> DEFINE d == Descent(TreeOf(c)[<<>>], key)
           ch == ChangeOf(d, key, value)
           lone == Child(d.path[d.level - 1], 1 - key.bits[d.level])
<1>1. x \in ReadOnTheWay(d) \cup ch.reads
  BY DEF Set
<1>2. Descends(d, c, key)
  BY DescentIs
<1> HIDE DEF d
<1>3. CASE x \in ReadOnTheWay(d)
  BY <1>2, <1>3, ReadsOnTheWay
<1>4. CASE x \in ch.reads
  <2>1. CASE Hits(d, key) /\ d.level # 0 /\ ch = DeleteFound(d, key) /\ IsLeaf(lone)
    <3>1. x = lone \/ x = lone[3]
      BY <1>4, <2>1, DeleteFoundIs DEF LoneLeafOf
    <3>2. IsNodeOf(lone, c) /\ \E k \in Keys : c[k] # 0 /\ lone = Leaf(RemoveKeyBits(k, d.level), Value(c[k]))
      BY <1>2, <2>1, LoneLeaf
    <3> HIDE DEF lone
    <3>3. PICK k \in Keys : c[k] # 0 /\ lone = Leaf(RemoveKeyBits(k, d.level), Value(c[k]))
      BY <3>2
    <3>4. lone[3] = Value(c[k])
      BY <3>3, NodeFacts
    <3>5. IsNodeOf(lone[3], c)
      BY <3>3, <3>4 DEF IsNodeOf
    <3> QED
      BY <3>1, <3>2, <3>5
  <2>2. CASE Hits(d, key) /\ d.level # 0 /\ ch = DeleteNotFound(d, key)
    <3>1. x = lone
      BY <1>4, <2>2 DEF DeleteNotFound, Change
    <3>2. IsNodeOf(lone, c)
      BY <1>2, <2>2, LoneLeaf
    <3> QED
      BY <3>1, <3>2
  <2>3. CASE ch \in {InsertNotFound(d, key, value), Update(d, key, value), InsertFound(d, key, value),
                     ZeroToZero(d, key), DeleteLast(d, key)}
    <3>1. ch.reads = {}
      <4>1. InsertNotFound(d, key, value).reads = {} /\ Update(d, key, value).reads = {}
        BY DEF InsertNotFound, Update, Change
      <4>2. InsertFound(d, key, value).reads = {}
        BY DEF InsertFound, Change
      <4>3. ZeroToZero(d, key).reads = {} /\ DeleteLast(d, key).reads = {}
        BY DEF ZeroToZero, DeleteLast, Change
      <4> QED
        BY <2>3, <4>1, <4>2, <4>3
    <3> QED
      BY <1>4, <3>1
  <2> QED
    BY <2>1, <2>2, <2>3, SevenCases
<1> QED
  BY <1>1, <1>3, <1>4

\* Off the way of the key, nothing changes.
LEMMA OffTheWay ==
  ASSUME NEW c \in Contents, NEW key \in Keys, NEW value \in Values \cup {0},
         NEW k \in Keys, NEW n \in 0 .. Depth, Prefix(k, n) # Prefix(key, n)
  PROVE  /\ PresentIn(After(c, key, value), Prefix(k, n)) = PresentIn(c, Prefix(k, n))
         /\ TreeOf(After(c, key, value))[Prefix(k, n)] = TreeOf(c)[Prefix(k, n)]
<1> DEFINE e == After(c, key, value)
           p == Prefix(k, n)
           below == {l \in Keys : Prefix(l, n) = p}
<1>1. \A l \in Keys : l # key => e[l] = c[l]
  BY AfterFacts
<1> HIDE DEF e
<1>2. PresentIn(c, p) = {l \in below : c[l] # 0}
  BY BelowPrefix
<1>3. PresentIn(e, p) = {l \in below : e[l] # 0}
  <2>1. PresentIn(e, Prefix(k, n)) = {l \in Keys : e[l] # 0 /\ Prefix(l, n) = Prefix(k, n)}
    BY BelowPrefix
  <2> QED
    BY <2>1
<1>4. \A l \in below : l \in Keys /\ l # key
  OBVIOUS
<1>5. p \in Prefixes
  BY PrefixFacts
<1> HIDE DEF p, below
<1>6. PresentIn(e, p) = PresentIn(c, p)
  BY <1>1, <1>2, <1>3, <1>4
<1>7. \A l \in PresentIn(c, p) : c[l] = e[l]
  BY <1>1, <1>2, <1>4
<1>8. TreeOf(c)[p] = TreeOf(e)[p]
  BY <1>5, <1>6, <1>7, SameTree
<1> QED
  BY <1>6, <1>8 DEF e, p

\* A node off the way is an old one, or the leaf that moved down.
LEMMA NodeOffTheWay ==
  ASSUME NEW c \in Contents, NEW key \in Keys, NEW value \in Values \cup {0},
         NEW d, Descends(d, c, key),
         NEW k \in Keys, NEW n \in 0 .. Depth, Prefix(k, n) # Prefix(key, n),
         NEW x, OnTheWay(x, After(c, key, value), k, n)
  PROVE  \/ IsNodeOf(x, c)
         \/ /\ value # 0 /\ d.found /\ ~Hits(d, key)
            /\ \A m : PartAt(m, d, key) => x = Leaf(RemoveKeyBits(d.key, m + 1), Value(c[d.key]))
<1> DEFINE e == After(c, key, value)
<1>1. /\ e[k] # 0 /\ Open(e, k, n) /\ x = TreeOf(e)[Prefix(k, n)]
      /\ k # key /\ c[k] # 0 /\ x = TreeOf(c)[Prefix(k, n)]
  <2>1. e[k] # 0 /\ Open(e, k, n) /\ x = TreeOf(e)[Prefix(k, n)]
    BY DEF OnTheWay
  <2>2. k # key
    OBVIOUS
  <2>3. e[k] = c[k]
    BY <2>2, AfterFacts
  <2>4. TreeOf(e)[Prefix(k, n)] = TreeOf(c)[Prefix(k, n)]
    BY OffTheWay
  <2> QED
    BY <2>1, <2>2, <2>3, <2>4
<1>2. d.level \in 0 .. Depth /\ d.level \in Nat /\ Depth \in Nat
  BY DescentLevel
<1>3. CASE \A j \in 0 .. n - 1 : Prefix(k, j) = Prefix(key, j) => j < d.level
  <2>1. ASSUME NEW j \in 0 .. n - 1 PROVE Many(c, Prefix(k, j))
    <3>1. j \in 0 .. Depth /\ (j < d.level => j \in 0 .. d.level - 1)
      BY <1>2
    <3>2. CASE Prefix(k, j) = Prefix(key, j)
      <4>1. j < d.level
        BY <1>3, <3>2
      <4> QED
        BY <3>1, <3>2, <4>1 DEF Descends, Open
    <3>3. CASE Prefix(k, j) # Prefix(key, j)
      <4>1. PresentIn(e, Prefix(k, j)) = PresentIn(c, Prefix(k, j))
        BY <3>1, <3>3, OffTheWay
      <4>2. Many(e, Prefix(k, j))
        BY <1>1 DEF Open
      <4> HIDE DEF e
      <4> QED
        BY <4>1, <4>2 DEF Many
    <3> QED
      BY <3>2, <3>3
  <2>2. OnTheWay(x, c, k, n)
    BY <1>1, <2>1 DEF OnTheWay, Open
  <2> QED
    BY <2>2 DEF IsNodeOf
<1>4. CASE value = 0 /\ ~Hits(d, key)
  <2>1. e = c
    BY <1>4, ZeroToZeroChanges
  <2>2. OnTheWay(x, c, k, n)
    BY <2>1
  <2> QED
    BY <2>2 DEF IsNodeOf
<1>5. CASE /\ \E j \in 0 .. n - 1 : Prefix(k, j) = Prefix(key, j) /\ ~ (j < d.level)
           /\ ~ (value = 0 /\ ~Hits(d, key))
  <2>1. PICK j \in 0 .. n - 1 : Prefix(k, j) = Prefix(key, j) /\ ~ (j < d.level)
    BY <1>5
  <2>2. j \in 0 .. Depth /\ d.level \in 0 .. j /\ d.level <= n - 1 /\ j <= n - 1
    BY <1>2, <2>1
  <2>3. Prefix(k, d.level) = Prefix(key, d.level)
    BY <2>1, <2>2, Shorter
  <2>4. k \in PresentIn(c, Prefix(key, d.level))
    BY <1>1, <1>2, <2>3, BelowPrefix
  <2>5. d.found /\ d.key = k /\ ~Hits(d, key) /\ value # 0 /\ value \in Values
    <3>1. d.found
      BY <2>4 DEF Descends
    <3>2. d.key = k
      BY <2>4, <3>1 DEF Descends
    <3>3. ~Hits(d, key)
      BY <1>1, <3>2 DEF Hits
    <3> QED
      BY <1>5, <3>1, <3>2, <3>3
  <2>6. ASSUME NEW m, PartAt(m, d, key) PROVE x = Leaf(RemoveKeyBits(k, m + 1), Value(c[k]))
    <3>1. m \in d.level .. Depth - 1 /\ key.bits[m + 1] # k.bits[m + 1]
      <4>1. Len(key.bits) = Depth
        BY BitsOf
      <4> QED
        BY <2>5, <2>6, <4>1 DEF PartAt
    <3>2. m \in Nat /\ m \in 0 .. Depth /\ m + 1 \in 0 .. Depth /\ m + 1 \in 1 .. m + 1 /\ m \in d.level .. m
          /\ m \in 0 .. m + 1
      BY <1>2, <3>1
    <3>3. ~ (n <= m)
      <4> SUFFICES ASSUME n <= m PROVE FALSE
        OBVIOUS
      <4>1. n \in d.level .. m
        BY <1>2, <2>2, <3>2
      <4>2. PresentIn(c, Prefix(key, n)) = {d.key}
        BY <2>5, <2>6, <4>1, TwoToThePart
      <4>3. d.key \in PresentIn(c, Prefix(key, n))
        BY <4>2
      <4>4. Prefix(d.key, n) = Prefix(key, n)
        BY <4>3, BelowIs
      <4> QED
        BY <2>5, <4>4
    <3>4. Prefix(k, m + 1) # Prefix(key, m + 1)
      <4> SUFFICES ASSUME Prefix(k, m + 1) = Prefix(key, m + 1) PROVE FALSE
        OBVIOUS
      <4>1. \A i \in 1 .. m + 1 : k.bits[i] = key.bits[i]
        BY <3>2, Shorter
      <4> QED
        BY <3>1, <3>2, <4>1
    <3>5. PresentIn(e, Prefix(k, m + 1)) = PresentIn(c, Prefix(k, m + 1))
      BY <3>2, <3>4, OffTheWay
    <3>6. PresentIn(c, Prefix(key, m)) = {k}
      BY <2>5, <2>6, <3>2, TwoToThePart
    <3>7. Prefix(k, m) = Prefix(key, m)
      <4>1. k \in PresentIn(c, Prefix(key, m))
        BY <3>6
      <4> QED
        BY <3>2, <4>1, BelowIs
    <3>8. PresentIn(c, Prefix(k, m + 1)) = {k}
      <4>1. PresentIn(c, Prefix(k, m + 1)) \subseteq PresentIn(c, Prefix(k, m))
        BY <3>2, PresentShrinks
      <4>2. k \in PresentIn(c, Prefix(k, m + 1))
        BY <1>1, <3>2, BelowPrefix
      <4> QED
        BY <3>6, <3>7, <4>1, <4>2
    <3>9. n = m + 1
      <4>1. ~Many(e, Prefix(k, m + 1))
        <5>1. ~Many(c, Prefix(k, m + 1))
          BY <3>8, ManyAreTwo
        <5> HIDE DEF e
        <5> QED
          BY <3>5, <5>1 DEF Many
      <4>2. m + 1 \notin 0 .. n - 1
        BY <1>1, <4>1 DEF Open
      <4> QED
        BY <3>2, <3>3, <4>2, <1>2
    <3>10. Prefix(k, n) \in Prefixes /\ Len(Prefix(k, n)) = n
      BY PrefixFacts
    <3>11. TreeOf(c)[Prefix(k, n)] = Leaf(RemoveKeyBits(k, n), Value(c[k]))
      BY <3>8, <3>9, <3>10, TreeFacts
    <3> QED
      BY <1>1, <3>9, <3>11
  <2> QED
    BY <2>5, <2>6
<1> QED
  BY <1>3, <1>4, <1>5

\* A node on the way at or below a change that is a leaf is that leaf.
LEMMA EndsWithLeaf ==
  ASSUME NEW e, NEW key \in Keys, NEW n \in 0 .. Depth, NEW m \in 0 .. Depth,
         Open(e, key, n), ~Many(e, Prefix(key, m))
  PROVE  n <= m
<1>1. m \notin 0 .. n - 1
  BY DEF Open
<1> QED
  BY <1>1, DepthIsNat

\* The nodes of the new tree on the way of the key: above the change they are
\* those of the climb, and the change saved the rest.
LEMMA NodeOnTheWay ==
  ASSUME NEW c \in Contents, NEW key \in Keys, NEW value \in Values \cup {0},
         NEW d, Descends(d, c, key), NEW ch, ch = ChangeOf(d, key, value),
         NEW n \in 0 .. Depth, Open(After(c, key, value), key, n),
         NEW x, x = TreeOf(After(c, key, value))[Prefix(key, n)], x # Zero
  PROVE  IsNodeOf(x, c) \/ x \in Saved(ch, Climb(d, key, ch))
<1> DEFINE e == After(c, key, value)
           u == TreeOf(e)
<1>1. Changes(ch, d, key, e)
  BY ChangeOfIs
<1>2. /\ ch.level \in 0 .. d.level /\ ch.level \in 0 .. Depth /\ ch.level \in Nat /\ n \in Nat
      /\ d.level \in 0 .. Depth /\ Depth \in Nat /\ ch.branch = u[Prefix(key, ch.level)]
  <2>1. d.level \in 0 .. Depth /\ Depth \in Nat
    BY DescentLevel
  <2>2. ch.level \in 0 .. d.level /\ ch.branch = u[Prefix(key, ch.level)]
    BY <1>1 DEF Changes
  <2>3. ch.level \in 0 .. Depth /\ ch.level \in Nat /\ n \in Nat
    BY <2>1, <2>2
  <2> QED
    BY <2>1, <2>2, <2>3
<1>3. CASE n < ch.level
  <2>1. n \in 0 .. ch.level /\ n \in 0 .. ch.level - 1
    BY <1>2, <1>3
  <2>2. Climb(d, key, ch)[n] = x
    BY <1>1, <2>1, ClimbIs
  <2> QED
    BY <2>1, <2>2 DEF Saved
<1>4. CASE n >= ch.level
  <2>1. PresentIn(e, Prefix(key, n)) # {}
    BY PrefixFacts, NodeTells
  <2>2. PresentIn(e, Prefix(key, ch.level)) # {}
    <3>1. ch.level \in 0 .. n
      BY <1>2, <1>4
    <3>2. PresentIn(e, Prefix(key, n)) \subseteq PresentIn(e, Prefix(key, ch.level))
      BY <3>1, PresentShrinks
    <3> QED
      BY <2>1, <3>2
  <2>3. ch.branch # Zero
    BY <1>2, <2>2, PrefixFacts, NodeTells
  <2>4. CASE IsLeaf(ch.branch) /\ ch.branch \in ch.saved
    <3>1. ~IsBranch(u[Prefix(key, ch.level)])
      BY <1>2, <2>4 DEF IsLeaf, IsBranch
    <3>2. ~Many(e, Prefix(key, ch.level))
      BY <1>2, <3>1, PrefixFacts, NodeTells
    <3>3. n <= ch.level
      BY <1>2, <3>2, EndsWithLeaf
    <3>4. n = ch.level
      BY <1>2, <1>4, <3>3
    <3> QED
      BY <1>2, <2>4, <3>4 DEF Saved
  <2>5. CASE value # 0 /\ ~d.found /\ ch = InsertNotFound(d, key, value)
    <3>1. ch.branch = Leaf(RemoveKeyBits(key, d.level), Value(value)) /\ ch.branch \in ch.saved
      BY <2>5 DEF InsertNotFound, Change
    <3> QED
      BY <2>4, <3>1, NodeFacts
  <2>6. CASE value # 0 /\ d.found /\ Hits(d, key) /\ ch = Update(d, key, value)
    <3>1. ch.branch = Leaf(d.end[2], Value(value)) /\ ch.branch \in ch.saved
      BY <2>6 DEF Update, Change
    <3> QED
      BY <2>4, <3>1, NodeFacts
  <2>7. CASE value # 0 /\ d.found /\ ~Hits(d, key) /\ ch = InsertFound(d, key, value)
    <3>1. value \in Values
      BY <2>7
    <3>2. PICK m : Forks(ch, c, key, value, d, m)
      BY <2>7, <3>1, InsertFoundForks
    <3> DEFINE new == Leaf(RemoveKeyBits(key, m + 1), Value(value))
    <3>3. /\ ch.level = d.level /\ m \in d.level .. Depth - 1 /\ u[Prefix(key, m + 1)] = new
          /\ new \in ch.saved /\ \A i \in d.level .. m : u[Prefix(key, i)] \in ch.saved
      BY <3>2 DEF Forks
    <3>4. m + 1 \in 0 .. Depth /\ m \in Nat
      BY <1>2, <3>3
    <3>5. ~Many(e, Prefix(key, m + 1))
      BY <3>3, <3>4, PrefixFacts, NodeTells, NodeFacts
    <3>6. n <= m + 1
      BY <3>4, <3>5, EndsWithLeaf
    <3>7. n = m + 1 \/ n \in d.level .. m
      BY <1>2, <1>4, <3>3, <3>4, <3>6
    <3>8. x \in ch.saved
      BY <3>3, <3>7
    <3> QED
      BY <3>8 DEF Saved
  <2>8. CASE value = 0 /\ ~Hits(d, key) /\ ch = ZeroToZero(d, key)
    <3>1. e = c
      BY <2>8, ZeroToZeroChanges
    <3> QED
      BY <3>1, NodeOfWay
  <2>9. CASE ch = DeleteLast(d, key) \/ ch = DeleteNotFound(d, key)
    <3>1. ch.branch = Zero
      BY <2>9 DEF DeleteLast, DeleteNotFound, Change
    <3> QED
      BY <2>3, <3>1
  <2>10. CASE ch = DeleteFound(d, key)
    <3>1. ch.saved = {ch.branch} /\ IsLeaf(ch.branch)
      BY <2>10, DeleteFoundIs
    <3> QED
      BY <2>4, <3>1
  <2> QED
    BY <2>5, <2>6, <2>7, <2>8, <2>9, <2>10, SevenCases
<1> QED
  BY <1>2, <1>3, <1>4

\* The value that is set is saved with its leaf.
LEMMA ValueSaved ==
  ASSUME NEW c \in Contents, NEW key \in Keys, NEW value \in Values, NEW d, Descends(d, c, key)
  PROVE  Value(value) \in ChangeOf(d, key, value).saved
<1>1. value # 0
  BY KeysAssumption
<1>2. CASE ~d.found /\ ChangeOf(d, key, value) = InsertNotFound(d, key, value)
  BY <1>2 DEF InsertNotFound, Change
<1>3. CASE d.found /\ Hits(d, key) /\ ChangeOf(d, key, value) = Update(d, key, value)
  BY <1>3 DEF Update, Change
<1>4. CASE d.found /\ ~Hits(d, key) /\ ChangeOf(d, key, value) = InsertFound(d, key, value)
  <2>1. PICK m : Forks(InsertFound(d, key, value), c, key, value, d, m)
    BY <1>4, InsertFoundForks
  <2> QED
    BY <1>4, <2>1 DEF Forks
<1> QED
  BY <1>1, <1>2, <1>3, <1>4, SevenCases

LEMMA NewIsCovered ==
  ASSUME NEW c \in Contents, NEW key \in Keys, NEW value \in Values \cup {0},
         NEW x, IsNodeOf(x, After(c, key, value))
  PROVE  IsNodeOf(x, c) \/ x \in Set(TreeOf(c)[<<>>], key, value).writes
<1> DEFINE d == Descent(TreeOf(c)[<<>>], key)
           ch == ChangeOf(d, key, value)
           e == After(c, key, value)
           writes == Saved(ch, Climb(d, key, ch))
<1>1. Set(TreeOf(c)[<<>>], key, value).writes = writes
  BY DEF Set
<1>2. Descends(d, c, key)
  BY DescentIs
<1> HIDE DEF d
<1>3. ch.saved \subseteq writes
  BY DEF Saved
<1> HIDE DEF writes
<1>4. CASE \E k \in Keys, n \in 0 .. Depth : OnTheWay(x, e, k, n)
  <2>1. PICK k \in Keys, n \in 0 .. Depth : OnTheWay(x, e, k, n)
    BY <1>4
  <2>2. CASE Prefix(k, n) = Prefix(key, n)
    <3>1. e[k] # 0 /\ Open(e, k, n) /\ x = TreeOf(e)[Prefix(k, n)]
      BY <2>1 DEF OnTheWay
    <3>2. Open(e, key, n) /\ x = TreeOf(e)[Prefix(key, n)]
      <4> HIDE DEF e
      <4> QED
        BY <2>2, <3>1, SameWay
    <3>3. x # Zero
      <4> HIDE DEF e
      <4> QED
        BY <3>1, NodeThere
    <3> HIDE DEF ch
    <3>4. ch = ChangeOf(d, key, value)
      BY DEF ch
    <3>5. IsNodeOf(x, c) \/ x \in Saved(ch, Climb(d, key, ch))
      BY <1>2, <3>2, <3>3, <3>4, NodeOnTheWay
    <3> QED
      BY <1>1, <3>5 DEF writes
  <2>3. CASE Prefix(k, n) # Prefix(key, n)
    <3>1. \/ IsNodeOf(x, c)
          \/ /\ value # 0 /\ d.found /\ ~Hits(d, key)
             /\ \A m : PartAt(m, d, key) => x = Leaf(RemoveKeyBits(d.key, m + 1), Value(c[d.key]))
      BY <1>2, <2>1, <2>3, NodeOffTheWay
    <3>2. CASE /\ value # 0 /\ d.found /\ ~Hits(d, key)
               /\ \A m : PartAt(m, d, key) => x = Leaf(RemoveKeyBits(d.key, m + 1), Value(c[d.key]))
      <4>1. value \in Values /\ ch = InsertFound(d, key, value)
        BY <3>2, SevenCases
      <4>2. PICK m : Forks(ch, c, key, value, d, m)
        BY <1>2, <3>2, <4>1, InsertFoundForks
      <4> HIDE DEF ch
      <4>3. x \in ch.saved
        BY <3>2, <4>2 DEF Forks
      <4> QED
        BY <1>1, <1>3, <4>3
    <3> QED
      BY <3>1, <3>2
  <2> QED
    BY <2>2, <2>3
<1>5. CASE \E k \in Keys : e[k] # 0 /\ x = Value(e[k])
  <2>1. PICK k \in Keys : e[k] # 0 /\ x = Value(e[k])
    BY <1>5
  <2>2. e[key] = value /\ (k # key => e[k] = c[k])
    BY AfterFacts
  <2> HIDE DEF e
  <2>3. CASE k = key
    <3>1. value \in Values /\ x = Value(value)
      BY <2>1, <2>2, <2>3
    <3>2. x \in ch.saved
      BY <1>2, <3>1, ValueSaved
    <3> QED
      BY <1>1, <1>3, <3>2
  <2>4. CASE k # key
    BY <2>1, <2>2, <2>4 DEF IsNodeOf
  <2> QED
    BY <2>3, <2>4
<1> QED
  BY <1>1, <1>4, <1>5 DEF IsNodeOf

-----------------------------------------------------------------------------
(* What a set frees is old, and the new tree does not use it. *)

LEMMA RestsAreOne ==
  ASSUME NEW k \in Keys, NEW l \in Keys, NEW n \in 0 .. Depth, NEW m \in 0 .. Depth,
         RemoveKeyBits(k, n) = RemoveKeyBits(l, m)
  PROVE  k = l /\ n = m
<1>1. n \in Nat /\ m \in Nat /\ n <= Depth /\ m <= Depth /\ Depth \in Nat
  BY DepthIsNat
<1>2. k.tail = l.tail /\ RemoveKeyBits(k, n).bits = RemoveKeyBits(l, m).bits
  BY <1>1, KeyRemoved
<1>3. k = l
  BY <1>2, KeysAssumption
<1>4. /\ SubSeq(k.bits, n + 1, Len(k.bits)) = SubSeq(k.bits, m + 1, Len(k.bits))
      /\ Len(k.bits) = Depth /\ k.bits \in Seq({0, 1})
  <2>1. /\ RemoveKeyBits(k, n).bits = SubSeq(k.bits, n + 1, Len(k.bits))
        /\ RemoveKeyBits(k, m).bits = SubSeq(k.bits, m + 1, Len(k.bits))
    BY <1>1, KeyRemoved
  <2>2. Len(k.bits) = Depth /\ k.bits \in Seq({0, 1})
    BY BitsOf
  <2> QED
    BY <1>2, <1>3, <2>1, <2>2
<1> DEFINE b == k.bits
<1> HIDE DEF b
<1>5. b \in Seq({0, 1}) /\ Len(b) = Depth /\ SubSeq(b, n + 1, Depth) = SubSeq(b, m + 1, Depth)
  BY <1>4 DEF b
<1>6. Len(SubSeq(b, n + 1, Depth)) = Depth - n
  BY <1>1, <1>5
<1>7. Len(SubSeq(b, m + 1, Depth)) = Depth - m
  BY <1>1, <1>5
<1>8. Depth - n = Depth - m
  BY <1>5, <1>6, <1>7
<1> QED
  BY <1>1, <1>3, <1>8

LEMMA BothChildren ==
  ASSUME NEW c, NEW p \in Prefixes, Len(p) < Depth
  PROVE  PresentIn(c, p) = PresentIn(c, Append(p, 0)) \cup PresentIn(c, Append(p, 1))
<1>1. /\ PresentIn(c, Append(p, 0)) = {key \in PresentIn(c, p) : key.bits[Len(p) + 1] = 0}
      /\ PresentIn(c, Append(p, 1)) = {key \in PresentIn(c, p) : key.bits[Len(p) + 1] = 1}
  BY PresentBelow
<1>2. \A key \in PresentIn(c, p) : key.bits[Len(p) + 1] \in {0, 1}
  <2>1. Len(p) + 1 \in 1 .. Depth
    BY PrefixesAre, DepthIsNat
  <2> QED
    BY <2>1, BitsOf DEF PresentIn
<1> QED
  BY <1>1, <1>2

LEMMA SameFront ==
  ASSUME NEW r \in Seq({0, 1}), NEW s \in Seq({0, 1}), NEW a, Append(r, a) = Append(s, a)
  PROVE  r = s
<1>1. Len(Append(r, a)) = Len(r) + 1 /\ Len(Append(s, a)) = Len(s) + 1
  OBVIOUS
<1>2. Len(r) = Len(s)
  <2>1. Len(r) \in Nat /\ Len(s) \in Nat /\ Len(r) + 1 = Len(s) + 1
    BY <1>1
  <2> QED
    BY <2>1
<1>3. \A i \in 1 .. Len(r) : r[i] = Append(r, a)[i]
  OBVIOUS
<1>4. \A i \in 1 .. Len(s) : s[i] = Append(s, a)[i]
  OBVIOUS
<1>5. \A i \in 1 .. Len(r) : r[i] = s[i]
  BY <1>2, <1>3, <1>4
<1> QED
  BY <1>2, <1>5, SameBits

\* A node stands at one place, whatever the contents: keys have distinct tails.
LEMMA OnePlace ==
  ASSUME NEW c, NEW e, NEW p \in Prefixes, NEW q \in Prefixes,
         TreeOf(c)[p] = TreeOf(e)[q], TreeOf(c)[p] # Zero
  PROVE  p = q /\ PresentIn(c, p) = PresentIn(e, q)
<1> DEFINE t == TreeOf(c)
           u == TreeOf(e)
           same(r, s) == r = s /\ PresentIn(c, r) = PresentIn(e, s)
           Bad == {m \in Nat : \E r \in Prefixes, s \in Prefixes :
                                 m = Depth - Len(r) /\ t[r] = u[s] /\ t[r] # Zero /\ ~same(r, s)}
<1>1. Depth \in Nat /\ \A r \in Prefixes : Len(r) \in 0 .. Depth
  BY DepthIsNat, PrefixesAre
<1>2. Bad = {}
  <2> SUFFICES ASSUME Bad # {} PROVE FALSE
    OBVIOUS
  <2>1. Bad \in SUBSET Nat
    OBVIOUS
  <2>2. PICK m \in Bad : \A k \in Bad : m <= k
    <3> HIDE DEF Bad
    <3> QED
      BY <2>1, LeastNumber
  <2>3. PICK r \in Prefixes, s \in Prefixes :
          m = Depth - Len(r) /\ t[r] = u[s] /\ t[r] # Zero /\ ~same(r, s)
    OBVIOUS
  <2>4. CASE \E k \in Keys : PresentIn(c, r) = {k}
    <3>1. IsLeaf(u[s])
      BY <2>3, <2>4, NodeTells
    <3>2. \E l \in Keys : PresentIn(e, s) = {l}
      BY <3>1, NodeTells
    <3>3. PICK k \in Keys : PresentIn(c, r) = {k}
      BY <2>4
    <3>4. PICK l \in Keys : PresentIn(e, s) = {l}
      BY <3>2
    <3>5. t[r] = Leaf(RemoveKeyBits(k, Len(r)), Value(c[k]))
      BY <3>3, TreeFacts
    <3>6. u[s] = Leaf(RemoveKeyBits(l, Len(s)), Value(e[l]))
      BY <3>4, TreeFacts
    <3>7. RemoveKeyBits(k, Len(r)) = RemoveKeyBits(l, Len(s))
      <4>1. t[r][2] = RemoveKeyBits(k, Len(r)) /\ u[s][2] = RemoveKeyBits(l, Len(s))
        BY <3>5, <3>6, NodeFacts
      <4> QED
        BY <2>3, <4>1
    <3>8. k = l /\ Len(r) = Len(s)
      BY <1>1, <3>7, RestsAreOne
    <3>9. r = s
      <4>1. k \in PresentIn(c, r) /\ l \in PresentIn(e, s)
        BY <3>3, <3>4
      <4>2. SubSeq(k.bits, 1, Len(r)) = r /\ SubSeq(l.bits, 1, Len(s)) = s
        BY <4>1 DEF PresentIn
      <4> QED
        BY <3>8, <4>2
    <3> QED
      BY <2>3, <3>3, <3>4, <3>8, <3>9
  <2>5. CASE Many(c, r)
    <3>1. IsBranch(u[s])
      BY <2>3, <2>5, NodeTells
    <3>2. Many(e, s)
      BY <3>1, NodeTells
    <3>3. t[r] = Branch(t[Append(r, 0)], t[Append(r, 1)])
      BY <2>5, TreeFacts
    <3>4. u[s] = Branch(u[Append(s, 0)], u[Append(s, 1)])
      BY <3>2, TreeFacts
    <3>5. t[Append(r, 0)] = u[Append(s, 0)] /\ t[Append(r, 1)] = u[Append(s, 1)]
      <4> DEFINE x == t[Append(r, 0)]
                 y == t[Append(r, 1)]
                 v == u[Append(s, 0)]
                 w == u[Append(s, 1)]
      <4> HIDE DEF x, y, v, w
      <4>1. Branch(x, y) = Branch(v, w)
        BY <2>3, <3>3, <3>4 DEF x, y, v, w
      <4>2. x = v /\ y = w
        BY <4>1, NodeFacts
      <4> QED
        BY <4>2 DEF x, y, v, w
    <3>6. /\ Append(r, 0) \in Prefixes /\ Len(Append(r, 0)) = Len(r) + 1
          /\ Append(r, 1) \in Prefixes /\ Len(Append(r, 1)) = Len(r) + 1 /\ Len(r) < Depth
      BY <2>5, ManyAreAbove
    <3>7. Append(s, 0) \in Prefixes /\ Append(s, 1) \in Prefixes /\ Len(s) < Depth
      BY <3>2, ManyAreAbove
    <3>8. ASSUME NEW a \in {0, 1} PROVE t[Append(r, a)] # Zero => same(Append(r, a), Append(s, a))
      <4> SUFFICES ASSUME t[Append(r, a)] # Zero PROVE same(Append(r, a), Append(s, a))
        OBVIOUS
      <4> DEFINE ra == Append(r, a)
                 sa == Append(s, a)
      <4>1. ra \in Prefixes /\ sa \in Prefixes /\ t[ra] = u[sa] /\ t[ra] # Zero /\ Len(ra) = Len(r) + 1
        BY <3>5, <3>6, <3>7
      <4> HIDE DEF ra, sa
      <4>2. Depth - Len(ra) \in Nat /\ ~ (m <= Depth - Len(ra))
        BY <1>1, <2>3, <4>1
      <4> HIDE DEF same, t, u
      <4>3. Depth - Len(ra) \notin Bad
        <5> HIDE DEF Bad
        <5> QED
          BY <2>2, <4>2
      <4>4. same(ra, sa)
        BY <4>1, <4>2, <4>3
      <4> QED
        BY <4>4 DEF ra, sa
    <3>9. ASSUME NEW a \in {0, 1} PROVE PresentIn(c, Append(r, a)) = PresentIn(e, Append(s, a))
      <4>1. CASE t[Append(r, a)] # Zero
        BY <3>8, <4>1
      <4>2. CASE t[Append(r, a)] = Zero
        <5>1. u[Append(s, a)] = Zero /\ Append(r, a) \in Prefixes /\ Append(s, a) \in Prefixes
          BY <3>5, <3>6, <3>7, <4>2
        <5>2. PresentIn(c, Append(r, a)) = {}
          BY <4>2, <5>1, NodeTells
        <5>3. PresentIn(e, Append(s, a)) = {}
          BY <5>1, NodeTells
        <5> QED
          BY <5>2, <5>3
      <4> QED
        BY <4>1, <4>2
    <3>10. PresentIn(c, r) = PresentIn(c, Append(r, 0)) \cup PresentIn(c, Append(r, 1))
      BY <3>6, BothChildren
    <3>11. PresentIn(e, s) = PresentIn(e, Append(s, 0)) \cup PresentIn(e, Append(s, 1))
      BY <3>7, BothChildren
    <3>12. PresentIn(c, r) = PresentIn(e, s)
      BY <3>9, <3>10, <3>11
    <3>13. PICK a \in {0, 1} : t[Append(r, a)] # Zero
      <4>1. PresentIn(c, r) # {}
        BY <2>5 DEF Many
      <4>2. PresentIn(c, Append(r, 0)) # {} \/ PresentIn(c, Append(r, 1)) # {}
        BY <3>10, <4>1
      <4> QED
        BY <3>6, <4>2, NodeTells
    <3>14. Append(r, a) = Append(s, a)
      BY <3>8, <3>13
    <3>15. r = s
      <4>1. r \in Seq({0, 1}) /\ s \in Seq({0, 1})
        BY PrefixesAre
      <4> QED
        BY <3>14, <4>1, SameFront
    <3> QED
      BY <2>3, <3>12, <3>15
  <2>6. PresentIn(c, r) # {}
    BY <2>3, NodeTells
  <2> QED
    BY <2>4, <2>5, <2>6, TreeFacts
<1>3. Depth - Len(p) \in Nat
  BY <1>1
<1> QED
  BY <1>2, <1>3

\* No value is a node of the tree's levels.
LEMMA NotAValue ==
  ASSUME NEW c, NEW p \in Prefixes, TreeOf(c)[p] # Zero, NEW v
  PROVE  TreeOf(c)[p] # Value(v)
<1>1. IsLeaf(TreeOf(c)[p]) \/ IsBranch(TreeOf(c)[p])
  BY TreeFacts, NodeTells
<1> QED
  BY <1>1, TagsDiffer

\* A node of the old tree that the new one uses stands where it stood.
LEMMA UsedWhereItStood ==
  ASSUME NEW c, NEW e, NEW key \in Keys, NEW n \in 0 .. Depth,
         NEW x, x = TreeOf(c)[Prefix(key, n)], x # Zero, IsNodeOf(x, e)
  PROVE  /\ TreeOf(e)[Prefix(key, n)] = x
         /\ PresentIn(c, Prefix(key, n)) = PresentIn(e, Prefix(key, n))
<1>1. Prefix(key, n) \in Prefixes
  BY PrefixFacts
<1>2. \A v : x # Value(v)
  BY <1>1, NotAValue
<1>3. PICK k \in Keys, m \in 0 .. Depth : OnTheWay(x, e, k, m)
  BY <1>2 DEF IsNodeOf
<1>4. x = TreeOf(e)[Prefix(k, m)] /\ Prefix(k, m) \in Prefixes
  BY <1>3, PrefixFacts DEF OnTheWay
<1>5. TreeOf(c)[Prefix(key, n)] = TreeOf(e)[Prefix(k, m)]
  BY <1>4
<1>6. Prefix(key, n) = Prefix(k, m) /\ PresentIn(c, Prefix(key, n)) = PresentIn(e, Prefix(k, m))
  BY <1>1, <1>4, <1>5, OnePlace
<1> QED
  BY <1>4, <1>6

LEMMA ReplacedAreUnused ==
  ASSUME NEW c \in Contents, NEW key \in Keys, NEW value \in Values \cup {0},
         NEW d, Descends(d, c, key), NEW ch, Changes(ch, d, key, After(c, key, value)),
         NEW x \in Replaced(d, key, Climb(d, key, ch), ch.level)
  PROVE  IsNodeOf(x, c) /\ ~IsNodeOf(x, After(c, key, value))
<1> DEFINE up == Climb(d, key, ch)
<1>1. PICK i \in 1 .. ch.level - 1 : x = d.path[i] /\ d.path[i] # up[i]
  BY DEF Replaced
<1>2. /\ i \in 0 .. ch.level /\ i \in 0 .. d.level - 1 /\ i \in 0 .. d.level
      /\ i \in 0 .. Depth
  <2>1. d.level \in Nat /\ Depth \in Nat /\ d.level \in 0 .. Depth
    BY DescentLevel
  <2>2. ch.level \in 0 .. d.level
    BY DEF Changes
  <2> QED
    BY <2>1, <2>2
<1>3. x = TreeOf(c)[Prefix(key, i)] /\ Many(c, Prefix(key, i)) /\ Open(c, key, i)
  BY <1>1, <1>2, OpenOnTheWay DEF Descends, Open
<1>4. x # Zero
  BY <1>2, <1>3, PrefixFacts, NodeTells, NodeFacts
<1>5. IsNodeOf(x, c)
  BY <1>2, <1>3, <1>4, NodeOfWay
<1>6. up[i] = TreeOf(After(c, key, value))[Prefix(key, i)]
  BY <1>2, ClimbIs
<1>7. x # TreeOf(After(c, key, value))[Prefix(key, i)]
  BY <1>1, <1>6
<1> DEFINE e == After(c, key, value)
<1> HIDE DEF e
<1>8. ~IsNodeOf(x, e)
  <2>1. x # TreeOf(e)[Prefix(key, i)]
    BY <1>7 DEF e
  <2> QED
    BY <1>2, <1>3, <1>4, <2>1, UsedWhereItStood
<1> QED
  BY <1>5, <1>8 DEF e

\* The end of the way is an old node where it is not empty.
LEMMA EndIsOld ==
  ASSUME NEW c, NEW key \in Keys, NEW d, Descends(d, c, key), d.end # Zero
  PROVE  IsNodeOf(d.end, c)
<1>1. d.level \in 0 .. d.level
  BY DescentLevel
<1>2. Open(c, key, d.level) /\ d.level \in 0 .. Depth /\ d.end = TreeOf(c)[Prefix(key, d.level)]
  BY DescentLevel DEF Descends
<1> QED
  BY <1>2, NodeOfWay

LEMMA FreedAreUnused ==
  ASSUME NEW c \in Contents, NEW key \in Keys, NEW value \in Values \cup {0},
         NEW d, Descends(d, c, key), NEW ch, ch = ChangeOf(d, key, value), NEW x \in ch.freed
  PROVE  IsNodeOf(x, c) /\ ~IsNodeOf(x, After(c, key, value))
<1> DEFINE e == After(c, key, value)
<1>1. d.level \in 0 .. Depth /\ d.end = TreeOf(c)[Prefix(key, d.level)]
  BY DescentLevel DEF Descends
<1>2. CASE value # 0 /\ ~d.found /\ ch = InsertNotFound(d, key, value)
  <2>1. ch.freed = {}
    BY <1>2 DEF InsertNotFound, Change, Freed, Descends
  <2> QED
    BY <2>1
<1>3. CASE value # 0 /\ d.found /\ Hits(d, key) /\ ch = Update(d, key, value)
  <2>1. Changes(ch, d, key, e)
    BY ChangeOfIs
  <2>2. ch.level = d.level /\ ch.freed = Freed(d) \ {ch.branch}
    BY <1>3 DEF Update, Change
  <2>3. ch.branch = TreeOf(e)[Prefix(key, d.level)]
    BY <2>1, <2>2 DEF Changes
  <2>4. x = d.end /\ x # Zero /\ x # ch.branch
    BY <2>2 DEF Freed
  <2> HIDE DEF e
  <2>5. ~IsNodeOf(x, e)
    BY <1>1, <2>3, <2>4, UsedWhereItStood
  <2> QED
    BY <2>4, <2>5, EndIsOld DEF e
<1>4. CASE value # 0 /\ d.found /\ ~Hits(d, key) /\ ch = InsertFound(d, key, value)
  <2>1. InsertFound(d, key, value).freed = {}
    BY DEF InsertFound, Change
  <2> QED
    BY <1>4, <2>1
<1>5. CASE ch = ZeroToZero(d, key) \/ ch = DeleteLast(d, key)
  <2>1. ch.freed = {}
    BY <1>5 DEF ZeroToZero, DeleteLast, Change
  <2> QED
    BY <2>1
<1>6. CASE value = 0 /\ Hits(d, key) /\ (ch = DeleteFound(d, key) \/ ch = DeleteNotFound(d, key))
  <2>1. x = d.end
    <3>1. CASE ch = DeleteFound(d, key)
      BY <1>6, <3>1, DeleteFoundIs
    <3>2. CASE ch = DeleteNotFound(d, key)
      BY <1>6, <3>2 DEF DeleteNotFound, Change
    <3> QED
      BY <1>6, <3>1, <3>2
  <2>2. PresentIn(c, Prefix(key, d.level)) = {key}
    BY <1>6, HitIs
  <2>3. x # Zero
    BY <1>1, <2>1, <2>2, PrefixFacts, NodeTells
  <2>4. PresentIn(e, Prefix(key, d.level)) = {}
    BY <1>1, <1>6, <2>2, KeyGone
  <2> HIDE DEF e
  <2>5. ~IsNodeOf(x, e)
    <3> SUFFICES ASSUME IsNodeOf(x, e) PROVE FALSE
      OBVIOUS
    <3>1. PresentIn(c, Prefix(key, d.level)) = PresentIn(e, Prefix(key, d.level))
      BY <1>1, <2>1, <2>3, UsedWhereItStood
    <3> QED
      BY <2>2, <2>4, <3>1
  <2> QED
    BY <2>1, <2>3, <2>5, EndIsOld DEF e
<1> QED
  BY <1>2, <1>3, <1>4, <1>5, <1>6, SevenCases

LEMMA DeletesAreUnused ==
  ASSUME NEW c \in Contents, NEW key \in Keys, NEW value \in Values \cup {0},
         NEW x \in Set(TreeOf(c)[<<>>], key, value).deletes
  PROVE  IsNodeOf(x, c) /\ ~IsNodeOf(x, After(c, key, value))
<1> DEFINE d == Descent(TreeOf(c)[<<>>], key)
           ch == ChangeOf(d, key, value)
<1>1. x \in ch.freed \cup Replaced(d, key, Climb(d, key, ch), ch.level)
  BY DEF Set
<1>2. Descends(d, c, key)
  BY DescentIs
<1> HIDE DEF d
<1>3. Changes(ch, d, key, After(c, key, value))
  BY <1>2, ChangeOfIs
<1>4. ch = ChangeOf(d, key, value)
  OBVIOUS
<1> HIDE DEF ch
<1>5. CASE x \in ch.freed
  BY <1>2, <1>4, <1>5, FreedAreUnused
<1>6. CASE x \in Replaced(d, key, Climb(d, key, ch), ch.level)
  BY <1>2, <1>3, <1>6, ReplacedAreUnused
<1> QED
  BY <1>1, <1>5, <1>6

-----------------------------------------------------------------------------
(* The storage machine rebuilds the roots from the results. *)

\* What Climbed() stands for.
IsTower(f, a, node) ==
  f = [n \in 0 .. Len(a.siblings) |->
        IF n = Len(a.siblings) THEN node
        ELSE Join(a.key.bits[n + 1], f[n + 1], a.siblings[n + 1])]

\* The siblings of a result are those of a tree up to level n.
SiblingsOf(a, c, key, n) ==
  /\ Len(a.siblings) = n
  /\ \A i \in 0 .. n - 1 : a.siblings[i + 1] = TreeOf(c)[Beside(key, i)]

LEMMA ClimbedIs ==
  ASSUME NEW c, NEW key \in Keys, NEW a, a.key = key, NEW n \in 0 .. Depth,
         SiblingsOf(a, c, key, n), Open(c, key, n),
         NEW node, node = TreeOf(c)[Prefix(key, n)]
  PROVE  Climbed(a, node) = TreeOf(c)[<<>>]
<1> DEFINE t == TreeOf(c)
           f == [i \in 0 .. n |-> t[Prefix(key, i)]]
           g == CHOOSE x : IsTower(x, a, node)
           Bad == {m \in 0 .. n : g[n - m] # t[Prefix(key, n - m)]}
<1>1. n \in Nat /\ Depth \in Nat /\ Len(a.siblings) = n
  BY DepthIsNat DEF SiblingsOf
<1>2. ASSUME NEW i \in 0 .. n - 1
      PROVE  t[Prefix(key, i)] = Join(key.bits[i + 1], t[Prefix(key, i + 1)], a.siblings[i + 1])
  <2>1. i \in 0 .. Depth
    BY <1>1
  <2>2. Many(c, Prefix(key, i)) /\ a.siblings[i + 1] = t[Beside(key, i)]
    BY DEF Open, SiblingsOf
  <2>3. t[Prefix(key, i)] = Join(key.bits[i + 1], t[Prefix(key, i + 1)], t[Beside(key, i)])
    BY <2>1, <2>2, ChildrenOnTheWay
  <2> QED
    BY <2>2, <2>3
<1>3. Climbed(a, node) = g[0]
  BY DEF Climbed, IsTower
<1> HIDE DEF t, g
<1>4. IsTower(f, a, node)
  <2>1. \A i \in 0 .. n : f[i] = t[Prefix(key, i)]
    OBVIOUS
  <2>2. f = [i \in 0 .. n |-> f[i]]
    OBVIOUS
  <2> HIDE DEF f
  <2>3. ASSUME NEW i \in 0 .. n, i # n
        PROVE  f[i] = Join(key.bits[i + 1], f[i + 1], a.siblings[i + 1])
    <3>1. i \in 0 .. n - 1 /\ i + 1 \in 0 .. n
      BY <1>1, <2>3
    <3> QED
      BY <1>2, <2>1, <3>1
  <2>4. f[n] = node
    BY <1>1, <2>1 DEF t
  <2> QED
    BY <1>1, <2>2, <2>3, <2>4 DEF IsTower
<1>5. IsTower(g, a, node)
  BY <1>4 DEF g
<1>6. g = [i \in 0 .. n |->
             IF i = n THEN node ELSE Join(key.bits[i + 1], g[i + 1], a.siblings[i + 1])]
  BY <1>1, <1>5 DEF IsTower
<1>7. Bad = {}
  <2> SUFFICES ASSUME Bad # {} PROVE FALSE
    OBVIOUS
  <2>1. Bad \in SUBSET Nat
    BY <1>1
  <2>2. PICK m \in Bad : \A k \in Bad : m <= k
    <3> HIDE DEF Bad
    <3> QED
      BY <2>1, LeastNumber
  <2>3. m \in 0 .. n /\ g[n - m] # t[Prefix(key, n - m)]
    OBVIOUS
  <2>4. m # 0
    <3>1. g[n] = t[Prefix(key, n)] /\ n - 0 = n
      BY <1>1, <1>6 DEF t
    <3> QED
      BY <2>3, <3>1
  <2> DEFINE i == n - m
  <2>5. i \in 0 .. n - 1 /\ i \in 0 .. n /\ i # n /\ n - (m - 1) = i + 1 /\ m - 1 \in 0 .. n /\ ~ (m <= m - 1)
    BY <1>1, <2>3, <2>4
  <2>6. g[n - (m - 1)] = t[Prefix(key, n - (m - 1))]
    BY <2>2, <2>5
  <2> HIDE DEF i
  <2>7. g[i] = Join(key.bits[i + 1], g[i + 1], a.siblings[i + 1])
    BY <1>6, <2>5
  <2>8. g[i] = t[Prefix(key, i)]
    BY <1>2, <2>5, <2>6, <2>7
  <2> QED
    BY <2>3, <2>8 DEF i
<1>8. n \in 0 .. n /\ n - n = 0
  BY <1>1
<1>9. g[0] = t[Prefix(key, 0)]
  BY <1>7, <1>8
<1> QED
  BY <1>3, <1>9, NoBits DEF t

LEMMA SiblingsAre ==
  ASSUME NEW c \in Contents, NEW key \in Keys, NEW value \in Values \cup {0},
         NEW d, Descends(d, c, key), NEW n \in 0 .. d.level,
         NEW a, a.siblings = Siblings(d, key, n)
  PROVE  SiblingsOf(a, c, key, n) /\ SiblingsOf(a, After(c, key, value), key, n)
<1>1. d.level \in Nat /\ n \in Nat /\ n <= d.level /\ Depth \in Nat /\ d.level \in 0 .. Depth
  BY DescentLevel
<1>2. a.siblings = [i \in 1 .. n |-> Child(d.path[i - 1], 1 - key.bits[i])]
  BY DEF Siblings
<1>3. Len(a.siblings) = n
  BY <1>1, <1>2
<1>4. ASSUME NEW i \in 0 .. n - 1
      PROVE  /\ a.siblings[i + 1] = TreeOf(After(c, key, value))[Beside(key, i)]
             /\ TreeOf(After(c, key, value))[Beside(key, i)] = TreeOf(c)[Beside(key, i)]
  <2>1. i + 1 \in 1 .. n /\ (i + 1) - 1 = i /\ i \in 0 .. Depth /\ i < d.level /\ i \in 0 .. Depth - 1
    BY <1>1
  <2>2. a.siblings[i + 1] = Child(d.path[i], 1 - key.bits[i + 1])
    BY <1>2, <2>1
  <2>3. Child(d.path[i], 1 - key.bits[i + 1]) = TreeOf(After(c, key, value))[Beside(key, i)]
    BY <2>1, SiblingOfNew
  <2>4. TreeOf(After(c, key, value))[Beside(key, i)] = TreeOf(c)[Beside(key, i)]
    BY <2>1, Elsewhere
  <2> QED
    BY <2>2, <2>3, <2>4
<1> QED
  BY <1>3, <1>4 DEF SiblingsOf

\* Where the two keys of a result part, and the nodes down to there.
TwoKeys(a, w, key, k, n, m) ==
  /\ a.mode \in FoundModes /\ a.key = key /\ a.insKey = k /\ a.insValue = w[k]
  /\ Len(a.siblings) = n /\ n \in Nat /\ m \in n .. Depth - 1
  /\ PresentIn(w, Prefix(key, n)) = {key, k}
  /\ Prefix(k, m) = Prefix(key, m) /\ key.bits[m + 1] # k.bits[m + 1]

LEMMA LevelIs ==
  ASSUME NEW a, NEW w, NEW key \in Keys, NEW k \in Keys, NEW n, NEW m, TwoKeys(a, w, key, k, n, m)
  PROVE  Level(a) = m + 1
<1> DEFINE Parts(i) == /\ key.bits[i] # k.bits[i]
                       /\ \A j \in 1 .. i - 1 : key.bits[j] = k.bits[j]
           l == CHOOSE i \in 1 .. Depth : Parts(i)
<1>1. m \in Nat /\ m \in 0 .. Depth /\ m + 1 \in 1 .. Depth /\ m \in 0 .. m /\ (m + 1) - 1 = m
  BY DepthIsNat DEF TwoKeys
<1>2. key.bits[m + 1] # k.bits[m + 1] /\ Prefix(k, m) = Prefix(key, m)
  BY DEF TwoKeys
<1>3. \A j \in 1 .. m : key.bits[j] = k.bits[j]
  BY <1>1, <1>2, Shorter
<1>4. Parts(m + 1)
  BY <1>1, <1>2, <1>3
<1>5. l \in 1 .. Depth /\ Parts(l)
  <2> HIDE DEF Parts
  <2> QED
    BY <1>1, <1>4
<1>6. Level(a) = l
  <2>1. Len(key.bits) = Depth
    BY BitsOf
  <2>2. a.mode \in FoundModes /\ a.key = key /\ a.insKey = k
    BY DEF TwoKeys
  <2> QED
    BY <2>1, <2>2 DEF Level
<1> HIDE DEF l
<1>7. ~ (l <= m)
  BY <1>1, <1>3, <1>5
<1>8. ~ (m + 1 < l)
  <2> SUFFICES ASSUME m + 1 < l PROVE FALSE
    OBVIOUS
  <2>1. m + 1 \in 1 .. l - 1
    BY <1>1, <1>5
  <2> QED
    BY <1>2, <1>5, <2>1
<1>9. l = m + 1
  BY <1>1, <1>5, <1>7, <1>8, DepthIsNat
<1> QED
  BY <1>6, <1>9

\* What Forked() stands for.
IsForked(f, a, n, m, own, other) ==
  f = [i \in n .. m |->
        IF i = m THEN Join(a.key.bits[i + 1], own, other)
        ELSE Join(a.key.bits[i + 1], f[i + 1], Zero)]

LEMMA ForkedIs ==
  ASSUME NEW a, NEW w, NEW key \in Keys, NEW k \in Keys, key # k, NEW n, NEW m,
         TwoKeys(a, w, key, k, n, m)
  PROVE  Forked(a, w[key]) = TreeOf(w)[Prefix(key, n)]
<1> DEFINE t == TreeOf(w)
           own == OwnLeaf(a, w[key])
           other == OtherLeaf(a, m + 1)
           g == CHOOSE x : IsForked(x, a, n, m, own, other)
           f == [i \in n .. m |-> t[Prefix(key, i)]]
           Bad == {x \in 0 .. m - n : g[m - x] # t[Prefix(key, m - x)]}
<1>1. /\ n \in Nat /\ m \in n .. Depth - 1 /\ m \in Nat /\ m \in 0 .. Depth /\ n \in 0 .. Depth
      /\ (m + 1) - 1 = m /\ m + 1 \in 0 .. Depth /\ m \in 0 .. Depth - 1 /\ Depth \in Nat
  BY DepthIsNat DEF TwoKeys
<1>2. /\ a.key = key /\ a.insKey = k /\ a.insValue = w[k] /\ Len(a.siblings) = n
      /\ PresentIn(w, Prefix(key, n)) = {key, k} /\ Prefix(k, m) = Prefix(key, m)
      /\ key.bits[m + 1] # k.bits[m + 1]
  BY DEF TwoKeys
<1>3. Level(a) = m + 1
  BY LevelIs
<1>4. Forked(a, w[key]) = g[n]
  BY <1>1, <1>2, <1>3 DEF Forked, IsForked
<1>5. ASSUME NEW i \in n .. m
      PROVE  /\ i \in 0 .. Depth /\ i \in 0 .. Depth - 1
             /\ PresentIn(w, Prefix(key, i)) = {key, k} /\ Many(w, Prefix(key, i))
  <2>1. i \in 0 .. Depth /\ i \in 0 .. Depth - 1 /\ n \in 0 .. i /\ i \in 0 .. m
    BY <1>1
  <2>2. Prefix(k, i) = Prefix(key, i)
    BY <1>1, <1>2, <2>1, Shorter
  <2>3. w[key] # 0 /\ w[k] # 0
    <3>1. key \in PresentIn(w, Prefix(key, n)) /\ k \in PresentIn(w, Prefix(key, n))
      BY <1>2
    <3> QED
      BY <1>1, <3>1, BelowIs
  <2>4. key \in PresentIn(w, Prefix(key, i)) /\ k \in PresentIn(w, Prefix(key, i))
    BY <2>1, <2>2, <2>3, IsBelow
  <2>5. PresentIn(w, Prefix(key, i)) \subseteq PresentIn(w, Prefix(key, n))
    BY <2>1, PresentShrinks
  <2>6. PresentIn(w, Prefix(key, i)) = {key, k}
    BY <1>2, <2>4, <2>5
  <2>7. Many(w, Prefix(key, i))
    BY <2>6, ManyAreTwo
  <2> QED
    BY <2>1, <2>6, <2>7
<1>6. ASSUME NEW i \in n .. m, i # m
      PROVE  t[Prefix(key, i)] = Join(key.bits[i + 1], t[Prefix(key, i + 1)], Zero)
  <2>1. k.bits[i + 1] = key.bits[i + 1]
    <3>1. i + 1 \in 1 .. m /\ m \in 0 .. m
      BY <1>1, <1>6
    <3> QED
      BY <1>1, <1>2, <3>1, Shorter
  <2>2. PresentIn(w, Beside(key, i)) = {l \in PresentIn(w, Prefix(key, i)) : l.bits[i + 1] # key.bits[i + 1]}
    BY <1>5, PresentBeside
  <2>3. PresentIn(w, Beside(key, i)) = {}
    BY <1>5, <2>1, <2>2
  <2>4. t[Beside(key, i)] = Zero
    BY <1>5, <2>3, BesideFacts, TreeFacts
  <2>5. t[Prefix(key, i)] = Join(key.bits[i + 1], t[Prefix(key, i + 1)], t[Beside(key, i)])
    BY <1>5, ChildrenOnTheWay
  <2> QED
    BY <2>4, <2>5
<1>7. t[Prefix(key, m)] = Join(key.bits[m + 1], own, other)
  <2>1. m \in n .. m
    BY <1>1
  <2>2. PresentIn(w, Prefix(key, m)) = {key, k} /\ Many(w, Prefix(key, m))
    BY <1>5, <2>1
  <2>3. /\ PresentIn(w, Prefix(key, m + 1)) = {l \in PresentIn(w, Prefix(key, m)) : l.bits[m + 1] = key.bits[m + 1]}
        /\ PresentIn(w, Beside(key, m)) = {l \in PresentIn(w, Prefix(key, m)) : l.bits[m + 1] # key.bits[m + 1]}
    BY <1>1, PresentBeside
  <2>4. PresentIn(w, Prefix(key, m + 1)) = {key} /\ PresentIn(w, Beside(key, m)) = {k}
    BY <1>2, <2>2, <2>3
  <2>5. Prefix(key, m + 1) \in Prefixes /\ Len(Prefix(key, m + 1)) = m + 1
    BY <1>1, PrefixFacts
  <2>6. t[Prefix(key, m + 1)] = Leaf(RemoveKeyBits(key, m + 1), Value(w[key]))
    BY <2>4, <2>5, TreeFacts
  <2>7. Beside(key, m) \in Prefixes /\ Len(Beside(key, m)) = m + 1
    BY <1>1, BesideFacts
  <2>8. t[Beside(key, m)] = Leaf(RemoveKeyBits(k, m + 1), Value(w[k]))
    BY <2>4, <2>7, TreeFacts
  <2>9. own = t[Prefix(key, m + 1)] /\ other = t[Beside(key, m)]
    BY <1>2, <1>3, <2>6, <2>8 DEF OwnLeaf, OtherLeaf
  <2>10. t[Prefix(key, m)] = Join(key.bits[m + 1], t[Prefix(key, m + 1)], t[Beside(key, m)])
    BY <1>1, <2>2, ChildrenOnTheWay
  <2> QED
    BY <2>9, <2>10
<1> HIDE DEF t, own, other, g
<1>8. IsForked(f, a, n, m, own, other)
  <2>1. \A i \in n .. m : f[i] = t[Prefix(key, i)]
    OBVIOUS
  <2>2. f = [i \in n .. m |-> f[i]]
    OBVIOUS
  <2> HIDE DEF f
  <2>3. ASSUME NEW i \in n .. m, i # m PROVE f[i] = Join(key.bits[i + 1], f[i + 1], Zero)
    <3>1. i + 1 \in n .. m
      BY <1>1, <2>3
    <3> QED
      BY <1>6, <2>1, <2>3, <3>1
  <2>4. f[m] = Join(key.bits[m + 1], own, other)
    BY <1>1, <1>7, <2>1
  <2> QED
    BY <1>2, <2>2, <2>3, <2>4 DEF IsForked
<1>9. IsForked(g, a, n, m, own, other)
  BY <1>8 DEF g
<1>10. /\ g[m] = Join(key.bits[m + 1], own, other)
       /\ \A i \in n .. m : i # m => g[i] = Join(key.bits[i + 1], g[i + 1], Zero)
  <2>1. m \in n .. m
    BY <1>1
  <2> QED
    BY <1>2, <1>9, <2>1 DEF IsForked
<1>11. Bad = {}
  <2> SUFFICES ASSUME Bad # {} PROVE FALSE
    OBVIOUS
  <2>1. Bad \in SUBSET Nat
    BY <1>1
  <2>2. PICK x \in Bad : \A y \in Bad : x <= y
    <3> HIDE DEF Bad
    <3> QED
      BY <2>1, LeastNumber
  <2> DEFINE i == m - x
  <2>3. x \in 0 .. m - n /\ g[i] # t[Prefix(key, i)]
    OBVIOUS
  <2>4. /\ i \in n .. m /\ x \in Nat
        /\ x = 0 => i = m
        /\ x # 0 => /\ i # m /\ x - 1 \in 0 .. m - n /\ ~ (x <= x - 1) /\ m - (x - 1) = i + 1
    BY <1>1, <2>3
  <2>5. x # 0 => g[m - (x - 1)] = t[Prefix(key, m - (x - 1))]
    BY <2>2, <2>4
  <2> HIDE DEF i
  <2>6. i # m => g[i + 1] = t[Prefix(key, i + 1)]
    BY <2>4, <2>5
  <2>7. g[i] = t[Prefix(key, i)]
    BY <1>6, <1>7, <1>10, <2>4, <2>6
  <2> QED
    BY <2>3, <2>7
<1>12. m - n \in 0 .. m - n /\ m - (m - n) = n
  BY <1>1
<1>13. g[n] = t[Prefix(key, n)]
  BY <1>11, <1>12
<1> QED
  BY <1>4, <1>13 DEF t

\* What the result of a set is made of.
ResultOf(a, c, key, value, ch) ==
  /\ a.isSet = TRUE /\ a.mode = ch.mode /\ a.key = key
  /\ a.oldRoot = TreeOf(c)[<<>>] /\ a.newRoot = TreeOf(After(c, key, value))[<<>>]
  /\ a.oldValue = c[key] /\ a.newValue = value
  /\ a.isOld0 = ch.isOld0 /\ a.insKey = ch.insKey /\ a.insValue = ch.insValue

\* The places that the machine starts from are those of the two trees.
PlacesHold(a, c, key, value, n) ==
  /\ OldPlace(a) = TreeOf(c)[Prefix(key, n)]
  /\ NewPlace(a) = TreeOf(After(c, key, value))[Prefix(key, n)]
  /\ LatchedValue(a) = value

\* The leaf at the end of a way.
LEMMA EndLeaf ==
  ASSUME NEW c, NEW key \in Keys, NEW d, Descends(d, c, key)
  PROVE  /\ Hits(d, key) => TreeOf(c)[Prefix(key, d.level)] = Leaf(RemoveKeyBits(key, d.level), Value(c[key]))
         /\ d.found => TreeOf(c)[Prefix(key, d.level)] = Leaf(RemoveKeyBits(d.key, d.level), Value(d.value))
         /\ ~d.found => TreeOf(c)[Prefix(key, d.level)] = Zero
<1>1. Hits(d, key) => d.end = Leaf(RemoveKeyBits(key, d.level), Value(c[key]))
  BY HitsWhenPresent
<1> QED
  BY <1>1 DEF Descends

LEMMA InsertNotFoundLatches ==
  ASSUME NEW c \in Contents, NEW key \in Keys, NEW value \in Values,
         NEW d, Descends(d, c, key), ~d.found,
         NEW ch, ch = InsertNotFound(d, key, value), Changes(ch, d, key, After(c, key, value)),
         NEW a, ResultOf(a, c, key, value, ch), Len(a.siblings) = ch.level
  PROVE  PlacesHold(a, c, key, value, ch.level)
<1>1. /\ ch.mode = "insertNotFound" /\ ch.level = d.level
      /\ ch.branch = Leaf(RemoveKeyBits(key, d.level), Value(value))
  BY DEF InsertNotFound, Change
<1>2. a.mode = "insertNotFound" /\ a.key = key /\ a.newValue = value
  BY <1>1 DEF ResultOf
<1>3. Level(a) = d.level
  BY <1>1, <1>2 DEF Level, FoundModes
<1>4. OldPlace(a) = Zero /\ NewPlace(a) = OwnLeaf(a, value) /\ LatchedValue(a) = value
  BY <1>2 DEF OldPlace, NewPlace, LatchedValue
<1>5. OwnLeaf(a, value) = ch.branch
  BY <1>1, <1>2, <1>3 DEF OwnLeaf
<1>6. TreeOf(c)[Prefix(key, ch.level)] = Zero
  <2>1. TreeOf(c)[Prefix(key, d.level)] = Zero
    BY EndLeaf
  <2> QED
    BY <1>1, <2>1
<1> QED
  BY <1>4, <1>5, <1>6 DEF PlacesHold, Changes

LEMMA UpdateLatches ==
  ASSUME NEW c \in Contents, NEW key \in Keys, NEW value \in Values,
         NEW d, Descends(d, c, key), Hits(d, key),
         NEW ch, ch = Update(d, key, value), Changes(ch, d, key, After(c, key, value)),
         NEW a, ResultOf(a, c, key, value, ch), Len(a.siblings) = ch.level
  PROVE  PlacesHold(a, c, key, value, ch.level)
<1>1. /\ ch.mode = "update" /\ ch.level = d.level
      /\ ch.branch = Leaf(d.end[2], Value(value))
  BY DEF Update, Change
<1>2. a.mode = "update" /\ a.key = key /\ a.newValue = value /\ a.oldValue = c[key]
  BY <1>1 DEF ResultOf
<1>3. Level(a) = d.level
  BY <1>1, <1>2 DEF Level, FoundModes
<1>4. OldPlace(a) = OwnLeaf(a, c[key]) /\ NewPlace(a) = OwnLeaf(a, value) /\ LatchedValue(a) = value
  BY <1>2 DEF OldPlace, NewPlace, LatchedValue
<1>5. TreeOf(c)[Prefix(key, d.level)] = Leaf(RemoveKeyBits(key, d.level), Value(c[key]))
  BY EndLeaf
<1>6. d.end[2] = RemoveKeyBits(key, d.level)
  <2>1. d.end = TreeOf(c)[Prefix(key, d.level)]
    BY DEF Descends
  <2> QED
    BY <1>5, <2>1, NodeFacts
<1>7. OwnLeaf(a, value) = ch.branch /\ OwnLeaf(a, c[key]) = TreeOf(c)[Prefix(key, d.level)]
  BY <1>1, <1>2, <1>3, <1>5, <1>6 DEF OwnLeaf
<1> QED
  BY <1>1, <1>4, <1>7 DEF PlacesHold, Changes

LEMMA ZeroToZeroLatches ==
  ASSUME NEW c \in Contents, NEW key \in Keys,
         NEW d, Descends(d, c, key), ~Hits(d, key),
         NEW ch, ch = ZeroToZero(d, key), Changes(ch, d, key, After(c, key, 0)),
         NEW a, ResultOf(a, c, key, 0, ch), Len(a.siblings) = ch.level
  PROVE  PlacesHold(a, c, key, 0, ch.level)
<1>1. /\ ch.mode = "zeroToZero" /\ ch.level = d.level /\ ch.branch = d.end
      /\ ch.insKey = d.key /\ ch.insValue = d.value /\ ch.isOld0 = ~d.found
  BY DEF ZeroToZero, Change
<1>2. /\ a.mode = "zeroToZero" /\ a.key = key
      /\ a.isOld0 = ~d.found /\ a.insKey = d.key /\ a.insValue = d.value
  BY <1>1 DEF ResultOf
<1>3. Level(a) = d.level
  BY <1>1, <1>2 DEF Level, FoundModes
<1>4. OldPlace(a) = AbsentPlace(a) /\ NewPlace(a) = AbsentPlace(a) /\ LatchedValue(a) = 0
  BY <1>2 DEF OldPlace, NewPlace, LatchedValue
<1>5. AbsentPlace(a) = TreeOf(c)[Prefix(key, d.level)]
  <2>1. CASE d.found
    <3>1. TreeOf(c)[Prefix(key, d.level)] = Leaf(RemoveKeyBits(d.key, d.level), Value(d.value))
      BY <2>1, EndLeaf
    <3> QED
      BY <1>2, <1>3, <2>1, <3>1 DEF AbsentPlace, OtherLeaf
  <2>2. CASE ~d.found
    <3>1. TreeOf(c)[Prefix(key, d.level)] = Zero
      BY <2>2, EndLeaf
    <3> QED
      BY <1>2, <2>2, <3>1 DEF AbsentPlace
  <2> QED
    BY <2>1, <2>2
<1>6. After(c, key, 0) = c
  BY ZeroToZeroChanges
<1> QED
  BY <1>1, <1>4, <1>5, <1>6 DEF PlacesHold

LEMMA DeletesLatch ==
  ASSUME NEW c \in Contents, NEW key \in Keys,
         NEW d, Descends(d, c, key), Hits(d, key),
         NEW ch, \/ ch = DeleteLast(d, key) /\ d.level = 0
                 \/ ch = DeleteNotFound(d, key),
         Changes(ch, d, key, After(c, key, 0)),
         NEW a, ResultOf(a, c, key, 0, ch), Len(a.siblings) = ch.level
  PROVE  PlacesHold(a, c, key, 0, ch.level)
<1>1. ch.mode \in {"deleteLast", "deleteNotFound"} /\ ch.level = d.level /\ ch.branch = Zero
  BY DEF DeleteLast, DeleteNotFound, Change
<1>2. a.mode \in {"deleteLast", "deleteNotFound"} /\ a.key = key /\ a.oldValue = c[key]
  BY <1>1 DEF ResultOf
<1>3. Level(a) = d.level
  BY <1>1, <1>2 DEF Level, FoundModes
<1>4. OldPlace(a) = OwnLeaf(a, c[key]) /\ NewPlace(a) = Zero /\ LatchedValue(a) = 0
  BY <1>2 DEF OldPlace, NewPlace, LatchedValue
<1>5. TreeOf(c)[Prefix(key, d.level)] = Leaf(RemoveKeyBits(key, d.level), Value(c[key]))
  BY EndLeaf
<1>6. OwnLeaf(a, c[key]) = TreeOf(c)[Prefix(key, d.level)]
  BY <1>2, <1>3, <1>5 DEF OwnLeaf
<1> QED
  BY <1>1, <1>4, <1>6 DEF PlacesHold, Changes

LEMMA InsertFoundLatches ==
  ASSUME NEW c \in Contents, NEW key \in Keys, NEW value \in Values,
         NEW d, Descends(d, c, key), d.found, ~Hits(d, key),
         NEW ch, ch = InsertFound(d, key, value), Changes(ch, d, key, After(c, key, value)),
         NEW a, ResultOf(a, c, key, value, ch), Len(a.siblings) = ch.level
  PROVE  PlacesHold(a, c, key, value, ch.level)
<1> DEFINE e == After(c, key, value)
           k == d.key
           n == d.level
<1>1. ch.mode = "insertFound" /\ ch.level = n /\ ch.insKey = k /\ ch.insValue = d.value
  BY DEF InsertFound, Change
<1>2. /\ a.mode = "insertFound" /\ a.key = key /\ a.insKey = k /\ a.insValue = d.value
      /\ a.newValue = value
  BY <1>1 DEF ResultOf
<1>3. PICK m : Forks(ch, c, key, value, d, m)
  BY InsertFoundForks
<1>4. /\ m \in n .. Depth - 1 /\ m \in n .. m /\ n \in n .. m /\ n \in Nat /\ n \in 0 .. Depth
      /\ m \in 0 .. Depth
  <2>1. m \in n .. Depth - 1 /\ n \in Nat
    BY <1>3 DEF Forks
  <2>2. n \in 0 .. Depth /\ Depth \in Nat
    BY DescentLevel
  <2> HIDE DEF n
  <2> QED
    BY <2>1, <2>2
<1>5. k \in Keys /\ k # key
  BY KeysPart
<1>6. d.value = c[k] /\ PresentIn(c, Prefix(key, n)) = {k}
  BY DEF Descends
<1>7. e[key] = value /\ e[k] = c[k]
  BY <1>5, AfterFacts
<1>8. PresentIn(e, Prefix(key, n)) = {key, k}
  <2>1. value # 0
    BY KeysAssumption
  <2>2. PresentIn(e, Prefix(key, n)) = PresentIn(c, Prefix(key, n)) \cup {key}
    BY <1>4, <2>1, PresentAfter
  <2> HIDE DEF e, n, k
  <2> QED
    BY <1>6, <2>2
<1>9. Prefix(k, m) = Prefix(key, m)
  <2>1. PartAt(m, d, key)
    BY <1>3 DEF Forks
  <2>2. PresentIn(c, Prefix(key, m)) = {d.key}
    BY <1>4, <2>1, TwoToThePart
  <2>3. d.key \in PresentIn(c, Prefix(key, m))
    BY <2>2
  <2>4. k \in PresentIn(c, Prefix(key, m)) /\ m \in 0 .. Depth
    BY <1>4, <2>3
  <2> HIDE DEF k, n, e
  <2> QED
    BY <2>4, BelowIs
<1>10. key.bits[m + 1] # k.bits[m + 1]
  BY <1>3 DEF Forks, PartAt
<1>11. Len(a.siblings) = n
  BY <1>1
<1> HIDE DEF e, k, n
<1>12. TwoKeys(a, e, key, k, n, m)
  BY <1>2, <1>4, <1>6, <1>7, <1>8, <1>9, <1>10, <1>11 DEF TwoKeys, FoundModes
<1>13. Forked(a, e[key]) = TreeOf(e)[Prefix(key, n)]
  BY <1>5, <1>12, ForkedIs
<1>14. OldPlace(a) = OtherLeaf(a, Len(a.siblings)) /\ NewPlace(a) = Forked(a, value) /\ LatchedValue(a) = value
  BY <1>2 DEF OldPlace, NewPlace, LatchedValue
<1>15. OtherLeaf(a, n) = TreeOf(c)[Prefix(key, n)]
  <2>1. TreeOf(c)[Prefix(key, n)] = Leaf(RemoveKeyBits(k, n), Value(d.value))
    BY EndLeaf DEF n, k
  <2> QED
    BY <1>2, <2>1 DEF OtherLeaf
<1> QED
  BY <1>1, <1>7, <1>11, <1>13, <1>14, <1>15 DEF PlacesHold, e

\* A key at the place beside a way leaves that way there.
LEMMA BesideKey ==
  ASSUME NEW c, NEW key \in Keys, NEW n \in 0 .. Depth - 1, NEW k \in PresentIn(c, Beside(key, n))
  PROVE  /\ k \in PresentIn(c, Prefix(key, n)) /\ k.bits[n + 1] # key.bits[n + 1]
         /\ Prefix(k, n) = Prefix(key, n)
<1>1. k.bits[n + 1] # key.bits[n + 1]
  BY PresentBeside
<1>2. k \in PresentIn(c, Prefix(key, n))
  BY PresentBeside
<1>3. n \in 0 .. Depth
  BY DepthIsNat
<1>4. Prefix(k, n) = Prefix(key, n)
  BY <1>2, <1>3, BelowIs
<1> QED
  BY <1>1, <1>2, <1>4

LEMMA DeleteFoundLatches ==
  ASSUME NEW c \in Contents, NEW key \in Keys,
         NEW d, Descends(d, c, key), Hits(d, key), d.level # 0,
         IsLeaf(Child(d.path[d.level - 1], 1 - key.bits[d.level])),
         NEW ch, ch = DeleteFound(d, key), Changes(ch, d, key, After(c, key, 0)),
         NEW a, ResultOf(a, c, key, 0, ch), Len(a.siblings) = ch.level
  PROVE  PlacesHold(a, c, key, 0, ch.level)
<1> DEFINE m == d.level - 1
           n == TopOfLoneLeaf(d)
           bit == 1 - key.bits[d.level]
           lone == Child(d.path[m], bit)
           insKey == JoinKey(Append(SubSeq(key.bits, 1, m), bit), lone[2])
<1>1. /\ ch.mode = "deleteFound" /\ ch.level = n /\ ch.insKey = insKey /\ ch.insValue = lone[3][2]
      /\ ch.branch = Leaf(RemoveKeyBits(insKey, n), lone[3])
  BY DeleteFoundIs DEF LiftedLeaf, LoneKeyOf, LoneLeafOf
<1>2. PICK k \in Keys : /\ PresentIn(c, Beside(key, m)) = {k} /\ c[k] # 0 /\ k # key
                        /\ Prefix(k, d.level) = Beside(key, m)
                        /\ lone = Leaf(RemoveKeyBits(k, d.level), Value(c[k]))
  <2>1. \E k \in Keys : /\ PresentIn(c, Beside(key, m)) = {k} /\ c[k] # 0 /\ k # key
                        /\ Prefix(k, d.level) = Beside(key, m)
                        /\ lone = Leaf(RemoveKeyBits(k, d.level), Value(c[k]))
    BY LoneLeaf
  <2> QED
    BY <2>1
<1>3. m \in 0 .. Depth - 1 /\ m + 1 = d.level /\ d.level \in 0 .. Depth /\ d.level \in Nat
  <2>1. m \in 0 .. Depth - 1 /\ m + 1 = d.level
    BY BesideFound
  <2>2. d.level \in 0 .. Depth /\ d.level \in Nat
    BY DescentLevel
  <2> QED
    BY <2>1, <2>2
<1>4. StopsAt(d, n)
  BY <1>3, LoneLeafStops
<1>5. Append(SubSeq(key.bits, 1, m), bit) = Beside(key, m)
  BY <1>3 DEF Beside, Prefix
<1> HIDE DEF lone, bit, n
<1>6. lone[2] = RemoveKeyBits(k, d.level) /\ lone[3] = Value(c[k]) /\ lone[3][2] = c[k]
  BY <1>2, NodeFacts
<1>7. insKey = k
  BY <1>2, <1>3, <1>5, <1>6, KeyJoined
<1> HIDE DEF insKey
<1>8. n \in 0 .. m /\ n \in Nat /\ m \in n .. Depth - 1
  <2>1. n \in 0 .. d.level - 1
    BY <1>4 DEF StopsAt
  <2> QED
    BY <1>3, <2>1, DepthIsNat
<1>9. PresentIn(c, Prefix(key, n)) = {key, k}
  BY <1>2, <1>4, TwoFromTheStop
<1>10. Prefix(k, m) = Prefix(key, m) /\ k.bits[m + 1] # key.bits[m + 1]
  <2> HIDE DEF m
  <2>1. k \in PresentIn(c, Beside(key, m))
    BY <1>2
  <2>2. m \in 0 .. Depth - 1
    BY <1>3
  <2> QED
    BY <2>1, <2>2, BesideKey
<1>11. /\ a.mode = "deleteFound" /\ a.key = key /\ a.insKey = k /\ a.insValue = c[k]
       /\ a.oldValue = c[key] /\ Len(a.siblings) = n
  BY <1>1, <1>6, <1>7 DEF ResultOf
<1> HIDE DEF m
<1>12. TwoKeys(a, c, key, k, n, m)
  BY <1>8, <1>9, <1>10, <1>11 DEF TwoKeys, FoundModes
<1>13. Forked(a, c[key]) = TreeOf(c)[Prefix(key, n)]
  BY <1>2, <1>12, ForkedIs
<1>14. OldPlace(a) = Forked(a, c[key]) /\ NewPlace(a) = OtherLeaf(a, n) /\ LatchedValue(a) = 0
  BY <1>11 DEF OldPlace, NewPlace, LatchedValue
<1>15. OtherLeaf(a, n) = ch.branch
  BY <1>1, <1>6, <1>7, <1>11 DEF OtherLeaf
<1> QED
  BY <1>1, <1>13, <1>14, <1>15 DEF PlacesHold, Changes

LEMMA SetLatches ==
  ASSUME NEW c \in Contents, NEW key \in Keys, NEW value \in Values \cup {0}
  PROVE  Latches(Set(TreeOf(c)[<<>>], key, value))
<1> DEFINE d == Descent(TreeOf(c)[<<>>], key)
           ch == ChangeOf(d, key, value)
           e == After(c, key, value)
           a == Set(TreeOf(c)[<<>>], key, value)
<1>1. Descends(d, c, key)
  BY DescentIs
<1>2. Changes(ch, d, key, e)
  <2> HIDE DEF d
  <2> QED
    BY <1>1, ChangeOfIs
<1>3. (IF Hits(d, key) THEN d.value ELSE 0) = c[key]
  <2> HIDE DEF d
  <2>1. Hits(d, key) <=> c[key] # 0
    BY <1>1, HitsWhenPresent
  <2>2. Hits(d, key) => d.value = c[key]
    BY <1>1, HitsWhenPresent
  <2> QED
    BY <2>1, <2>2
<1>4. /\ a.isSet = TRUE /\ a.mode = ch.mode /\ a.key = key /\ a.oldRoot = TreeOf(c)[<<>>]
      /\ a.oldValue = (IF Hits(d, key) THEN d.value ELSE 0) /\ a.newValue = value
      /\ a.isOld0 = ch.isOld0 /\ a.insKey = ch.insKey /\ a.insValue = ch.insValue
      /\ a.siblings = Siblings(d, key, ch.level)
  BY DEF Set
<1>5. a.newRoot = TreeOf(e)[<<>>]
  BY SetIs
<1> HIDE DEF a, d
<1>6. ch.level \in 0 .. d.level /\ ch.level \in 0 .. Depth
  <2>1. ch.level \in 0 .. d.level
    BY <1>2 DEF Changes
  <2> HIDE DEF ch
  <2>2. d.level \in 0 .. Depth /\ Depth \in Nat
    BY <1>1, DescentLevel
  <2> QED
    BY <2>1, <2>2
<1> HIDE DEF ch
<1>7. ResultOf(a, c, key, value, ch)
  BY <1>3, <1>4, <1>5 DEF ResultOf
<1>8. SiblingsOf(a, c, key, ch.level) /\ SiblingsOf(a, e, key, ch.level)
  BY <1>1, <1>4, <1>6, SiblingsAre
<1>9. Len(a.siblings) = ch.level
  BY <1>8 DEF SiblingsOf
<1>10. PlacesHold(a, c, key, value, ch.level)
  <2>1. value # 0 => value \in Values
    OBVIOUS
  <2>2. CASE value # 0 /\ ~d.found /\ ch = InsertNotFound(d, key, value)
    BY <1>1, <1>2, <1>7, <1>9, <2>1, <2>2, InsertNotFoundLatches
  <2>3. CASE value # 0 /\ d.found /\ Hits(d, key) /\ ch = Update(d, key, value)
    BY <1>1, <1>2, <1>7, <1>9, <2>1, <2>3, UpdateLatches
  <2>4. CASE value # 0 /\ d.found /\ ~Hits(d, key) /\ ch = InsertFound(d, key, value)
    BY <1>1, <1>2, <1>7, <1>9, <2>1, <2>4, InsertFoundLatches
  <2>5. CASE value = 0 /\ ~Hits(d, key) /\ ch = ZeroToZero(d, key)
    BY <1>1, <1>2, <1>7, <1>9, <2>5, ZeroToZeroLatches
  <2>6. CASE value = 0 /\ Hits(d, key) /\ d.level = 0 /\ ch = DeleteLast(d, key)
    BY <1>1, <1>2, <1>7, <1>9, <2>6, DeletesLatch
  <2>7. CASE /\ value = 0 /\ Hits(d, key) /\ d.level # 0 /\ ch = DeleteFound(d, key)
             /\ IsLeaf(Child(d.path[d.level - 1], 1 - key.bits[d.level]))
    BY <1>1, <1>2, <1>7, <1>9, <2>7, DeleteFoundLatches
  <2>8. CASE value = 0 /\ Hits(d, key) /\ d.level # 0 /\ ch = DeleteNotFound(d, key)
    BY <1>1, <1>2, <1>7, <1>9, <2>8, DeletesLatch
  <2> QED
    BY <2>2, <2>3, <2>4, <2>5, <2>6, <2>7, <2>8, SevenCases DEF ch
<1>11. Open(e, key, ch.level) /\ Open(c, key, ch.level)
  BY <1>1, <1>2, <1>6, OpenOnTheWay DEF Changes
<1>12. Climbed(a, OldPlace(a)) = TreeOf(c)[<<>>]
  <2>1. a.key = key /\ OldPlace(a) = TreeOf(c)[Prefix(key, ch.level)]
    BY <1>4, <1>10 DEF PlacesHold
  <2> QED
    BY <1>6, <1>8, <1>11, <2>1, ClimbedIs
<1>13. Climbed(a, NewPlace(a)) = TreeOf(e)[<<>>]
  <2>1. a.key = key /\ NewPlace(a) = TreeOf(e)[Prefix(key, ch.level)]
    BY <1>4, <1>10 DEF PlacesHold
  <2> HIDE DEF e
  <2> QED
    BY <1>6, <1>8, <1>11, <2>1, ClimbedIs
<1>14. Latches(a)
  <2>1. LatchedValue(a) = a.newValue /\ a.isSet = TRUE
    BY <1>4, <1>10 DEF PlacesHold
  <2>2. a.oldRoot = TreeOf(c)[<<>>] /\ a.newRoot = TreeOf(e)[<<>>]
    BY <1>4, <1>5
  <2> QED
    BY <1>12, <1>13, <2>1, <2>2 DEF Latches, LatchSet
<1> QED
  BY <1>14 DEF a

LEMMA GetLatches ==
  ASSUME NEW c \in Contents, NEW key \in Keys
  PROVE  Latches(Get(TreeOf(c)[<<>>], key))
<1> DEFINE d == Descent(TreeOf(c)[<<>>], key)
           ins == d.found /\ ~Hits(d, key)
           a == Get(TreeOf(c)[<<>>], key)
<1>1. Descends(d, c, key)
  BY DescentIs
<1>2. /\ a.isSet = FALSE /\ a.mode = "get" /\ a.key = key /\ a.oldRoot = TreeOf(c)[<<>>]
      /\ a.isOld0 = ~ins
      /\ ins => a.insKey = d.key /\ a.insValue = d.value
      /\ a.siblings = Siblings(d, key, d.level)
  BY DEF Get
<1>3. a.value = c[key]
  BY GetIsRight
<1> HIDE DEF a, d
<1>4. d.level \in 0 .. d.level /\ d.level \in 0 .. Depth /\ Open(c, key, d.level)
  BY <1>1, DescentLevel DEF Descends
<1>5. SiblingsOf(a, c, key, d.level)
  BY <1>1, <1>2, <1>4, SiblingsAre
<1>6. Level(a) = d.level
  BY <1>2, <1>5 DEF Level, FoundModes, SiblingsOf
<1>7. OldPlace(a) = IF c[key] # 0 THEN OwnLeaf(a, c[key]) ELSE AbsentPlace(a)
  BY <1>2, <1>3 DEF OldPlace
<1>8. Hits(d, key) <=> c[key] # 0
  BY <1>1, HitsWhenPresent
<1>9. OldPlace(a) = TreeOf(c)[Prefix(key, d.level)]
  <2>1. CASE Hits(d, key)
    <3>1. TreeOf(c)[Prefix(key, d.level)] = Leaf(RemoveKeyBits(key, d.level), Value(c[key]))
      BY <1>1, <2>1, EndLeaf
    <3> QED
      BY <1>2, <1>6, <1>7, <1>8, <2>1, <3>1 DEF OwnLeaf
  <2>2. CASE d.found /\ ~Hits(d, key)
    <3>1. TreeOf(c)[Prefix(key, d.level)] = Leaf(RemoveKeyBits(d.key, d.level), Value(d.value))
      BY <1>1, <2>2, EndLeaf
    <3> QED
      BY <1>2, <1>6, <1>7, <1>8, <2>2, <3>1 DEF AbsentPlace, OtherLeaf
  <2>3. CASE ~d.found /\ ~Hits(d, key)
    <3>1. TreeOf(c)[Prefix(key, d.level)] = Zero
      BY <1>1, <2>3, EndLeaf
    <3> QED
      BY <1>2, <1>7, <1>8, <2>3, <3>1 DEF AbsentPlace
  <2> QED
    BY <2>1, <2>2, <2>3
<1>10. Climbed(a, OldPlace(a)) = TreeOf(c)[<<>>]
  BY <1>2, <1>4, <1>5, <1>9, ClimbedIs
<1>11. Latches(a)
  BY <1>2, <1>10 DEF Latches, LatchGet
<1> QED
  BY <1>11 DEF a

-----------------------------------------------------------------------------
(* What a set saves is part of the new tree, which is all that its user is  *)
(* told of it.                                                              *)

\* Where another leaf is found, it moves to where the two keys part.
LEMMA MovedLeaf ==
  ASSUME NEW c \in Contents, NEW key \in Keys, NEW value \in Values,
         NEW d, Descends(d, c, key), d.found, ~Hits(d, key), NEW ch, NEW m,
         Forks(ch, c, key, value, d, m)
  PROVE  /\ Open(After(c, key, value), key, m + 1) /\ m + 1 \in 0 .. Depth
         /\ IsNodeOf(Leaf(RemoveKeyBits(d.key, m + 1), Value(c[d.key])), After(c, key, value))
<1> DEFINE e == After(c, key, value)
           k == d.key
           n == d.level
           old == Leaf(RemoveKeyBits(k, m + 1), Value(c[k]))
<1>1. k \in Keys /\ k # key /\ c[k] # 0
  BY KeysPart
<1>2. /\ m \in n .. Depth - 1 /\ m \in n .. m /\ n \in Nat /\ n \in 0 .. m /\ m \in 0 .. Depth /\ m \in Nat
      /\ m \in 0 .. Depth - 1 /\ m + 1 \in 0 .. Depth /\ (m + 1) - 1 = m /\ Depth \in Nat
  <2>1. m \in n .. Depth - 1 /\ n \in Nat
    BY DEF Forks
  <2> HIDE DEF n
  <2> QED
    BY <2>1, DepthIsNat
<1>3. e[key] = value /\ e[k] = c[k] /\ e[key] # 0 /\ e[k] # 0
  BY <1>1, AfterFacts, KeysAssumption
<1>4. PartAt(m, d, key)
  BY DEF Forks
<1>5. Prefix(k, m) = Prefix(key, m)
  <2>1. PresentIn(c, Prefix(key, m)) = {d.key}
    BY <1>2, <1>4, TwoToThePart
  <2>2. d.key \in PresentIn(c, Prefix(key, m))
    BY <2>1
  <2> QED
    BY <1>2, <2>2, BelowIs
<1>6. key.bits[m + 1] # k.bits[m + 1]
  BY <1>4 DEF PartAt
<1>7. PresentIn(e, Prefix(key, n)) = {key, k}
  <2>1. PresentIn(e, Prefix(key, n)) = PresentIn(c, Prefix(key, n)) \cup {key}
    BY <1>3, PresentAfter DEF Descends
  <2>2. PresentIn(c, Prefix(key, n)) = {k}
    BY DEF Descends
  <2> HIDE DEF e, n, k
  <2> QED
    BY <2>1, <2>2
<1> HIDE DEF e, k, n
<1>8. ASSUME NEW j \in 0 .. m
      PROVE  /\ j \in 0 .. Depth /\ Prefix(k, j) = Prefix(key, j)
             /\ key \in PresentIn(e, Prefix(key, j)) /\ k \in PresentIn(e, Prefix(key, j))
             /\ Many(e, Prefix(key, j))
  <2>1. j \in 0 .. Depth
    BY <1>2
  <2>2. Prefix(k, j) = Prefix(key, j)
    BY <1>1, <1>2, <1>5, Shorter
  <2>3. key \in PresentIn(e, Prefix(key, j)) /\ k \in PresentIn(e, Prefix(key, j))
    BY <1>1, <1>3, <2>1, <2>2, IsBelow
  <2>4. Many(e, Prefix(key, j))
    BY <1>1, <2>3, ManyAreTwo
  <2> QED
    BY <2>1, <2>2, <2>3, <2>4
<1>9. Open(e, key, m + 1) /\ Open(e, k, m + 1)
  BY <1>2, <1>8 DEF Open
<1>10. PresentIn(e, Prefix(key, m)) = {key, k}
  <2>1. PresentIn(e, Prefix(key, m)) \subseteq PresentIn(e, Prefix(key, n))
    BY <1>2, PresentShrinks
  <2>2. m \in 0 .. m
    BY <1>2
  <2>3. key \in PresentIn(e, Prefix(key, m)) /\ k \in PresentIn(e, Prefix(key, m))
    BY <1>8, <2>2
  <2> QED
    BY <1>7, <2>1, <2>3
<1>11. PresentIn(e, Beside(key, m)) = {k}
  <2>1. PresentIn(e, Beside(key, m)) = {l \in PresentIn(e, Prefix(key, m)) : l.bits[m + 1] # key.bits[m + 1]}
    BY <1>2, PresentBeside
  <2> QED
    BY <1>6, <1>10, <2>1
<1>12. Prefix(k, m + 1) = Beside(key, m)
  <2>1. k \in PresentIn(e, Beside(key, m)) /\ Len(Beside(key, m)) = m + 1
    BY <1>2, <1>11, BesideFacts
  <2> QED
    BY <2>1 DEF PresentIn, Prefix
<1>13. TreeOf(e)[Prefix(k, m + 1)] = old
  <2>1. Beside(key, m) \in Prefixes /\ Len(Beside(key, m)) = m + 1
    BY <1>2, BesideFacts
  <2>2. TreeOf(e)[Beside(key, m)] = Leaf(RemoveKeyBits(k, m + 1), Value(e[k]))
    BY <1>1, <1>11, <2>1, TreeFacts
  <2> QED
    BY <1>3, <1>12, <2>2
<1> HIDE DEF old
<1>14. OnTheWay(old, e, k, m + 1)
  BY <1>3, <1>9, <1>13 DEF OnTheWay
<1>15. IsNodeOf(old, e)
  BY <1>1, <1>2, <1>14 DEF IsNodeOf
<1> QED
  BY <1>2, <1>9, <1>15 DEF e, k, old

\* What a change saves, below the climb.
LEMMA SavedIsNew ==
  ASSUME NEW c \in Contents, NEW key \in Keys, NEW value \in Values \cup {0},
         NEW d, Descends(d, c, key), NEW ch, ch = ChangeOf(d, key, value),
         NEW x \in ch.saved
  PROVE  IsNodeOf(x, After(c, key, value))
<1> DEFINE e == After(c, key, value)
<1>1. ch.level \in 0 .. Depth /\ Open(e, key, ch.level) /\ ch.branch = TreeOf(e)[Prefix(key, ch.level)]
  <2>1. Changes(ch, d, key, e)
    BY ChangeOfIs
  <2>2. ch.level \in 0 .. d.level
    BY <2>1 DEF Changes
  <2>3. d.level \in 0 .. Depth /\ Depth \in Nat
    BY DescentLevel
  <2> QED
    BY <2>1, <2>2, <2>3 DEF Changes
<1>2. e[key] = value
  BY AfterFacts
<1>3. CASE value # 0 /\ x = Value(value)
  BY <1>2, <1>3 DEF IsNodeOf
<1>4. CASE x = ch.branch /\ ch.branch # Zero
  <2> HIDE DEF e
  <2> QED
    BY <1>1, <1>4, NodeOfWay DEF e
<1>5. CASE value # 0 /\ ~d.found /\ ch = InsertNotFound(d, key, value)
  <2>1. ch.branch = Leaf(RemoveKeyBits(key, d.level), Value(value))
    BY <1>5 DEF InsertNotFound, Change
  <2>2. ch.saved = {Value(value), Leaf(RemoveKeyBits(key, d.level), Value(value))}
    BY <1>5 DEF InsertNotFound, Change
  <2>3. ch.branch # Zero
    BY <2>1, NodeFacts
  <2> QED
    BY <1>3, <1>4, <1>5, <2>1, <2>2, <2>3
<1>6. CASE value # 0 /\ d.found /\ Hits(d, key) /\ ch = Update(d, key, value)
  <2>1. ch.branch = Leaf(d.end[2], Value(value))
    BY <1>6 DEF Update, Change
  <2>2. ch.saved = {Value(value), Leaf(d.end[2], Value(value))}
    BY <1>6 DEF Update, Change
  <2>3. ch.branch # Zero
    BY <2>1, NodeFacts
  <2> QED
    BY <1>3, <1>4, <1>6, <2>1, <2>2, <2>3
<1>7. CASE value # 0 /\ d.found /\ ~Hits(d, key) /\ ch = InsertFound(d, key, value)
  <2>1. value \in Values
    BY <1>7
  <2>2. PICK m : Forks(ch, c, key, value, d, m)
    BY <1>7, <2>1, InsertFoundForks
  <2>3. /\ Open(e, key, m + 1) /\ m + 1 \in 0 .. Depth
        /\ IsNodeOf(Leaf(RemoveKeyBits(d.key, m + 1), Value(c[d.key])), e)
    BY <1>7, <2>1, <2>2, MovedLeaf
  <2>4. m \in d.level .. Depth - 1 /\ d.level \in Nat /\ TreeOf(e)[Prefix(key, m + 1)] = Leaf(RemoveKeyBits(key, m + 1), Value(value))
    BY <2>2 DEF Forks
  <2>5. \/ x = Value(value)
        \/ x = Leaf(RemoveKeyBits(key, m + 1), Value(value))
        \/ x = Leaf(RemoveKeyBits(d.key, m + 1), Value(c[d.key]))
        \/ \E i \in d.level .. m : x = TreeOf(e)[Prefix(key, i)]
    BY <2>2 DEF Forks
  <2> HIDE DEF e
  <2>6. CASE x = Leaf(RemoveKeyBits(key, m + 1), Value(value))
    <3>1. x = TreeOf(e)[Prefix(key, m + 1)] /\ x # Zero
      BY <2>4, <2>6, NodeFacts
    <3> QED
      BY <2>3, <3>1, NodeOfWay DEF e
  <2>7. CASE \E i \in d.level .. m : x = TreeOf(e)[Prefix(key, i)]
    <3>1. PICK i \in d.level .. m : x = TreeOf(e)[Prefix(key, i)]
      BY <2>7
    <3>2. i \in 0 .. Depth /\ i \in 0 .. (m + 1) - 1 /\ \A j \in 0 .. i - 1 : j \in 0 .. (m + 1) - 1
      BY <2>4, DepthIsNat
    <3>3. Many(e, Prefix(key, i)) /\ Open(e, key, i)
      BY <2>3, <3>2 DEF Open
    <3>4. x # Zero
      BY <3>1, <3>2, <3>3, PrefixFacts, NodeTells, NodeFacts
    <3> QED
      BY <3>1, <3>2, <3>3, <3>4, NodeOfWay DEF e
  <2> QED
    BY <1>3, <1>7, <2>3, <2>5, <2>6, <2>7 DEF e
<1>8. CASE ch = ZeroToZero(d, key) \/ ch = DeleteLast(d, key) \/ ch = DeleteNotFound(d, key)
  BY <1>8 DEF ZeroToZero, DeleteLast, DeleteNotFound, Change
<1>9. CASE ch = DeleteFound(d, key)
  <2>1. ch.saved = {ch.branch} /\ ch.branch # Zero
    BY <1>9, DeleteFoundIs
  <2> QED
    BY <1>4, <2>1
<1> QED
  BY <1>5, <1>6, <1>7, <1>8, <1>9, SevenCases

LEMMA WritesAreNew ==
  ASSUME NEW c \in Contents, NEW key \in Keys, NEW value \in Values \cup {0},
         NEW x \in Set(TreeOf(c)[<<>>], key, value).writes
  PROVE  IsNodeOf(x, After(c, key, value))
<1> DEFINE d == Descent(TreeOf(c)[<<>>], key)
           ch == ChangeOf(d, key, value)
           e == After(c, key, value)
<1>1. x \in Saved(ch, Climb(d, key, ch))
  BY DEF Set
<1>2. Descends(d, c, key)
  BY DescentIs
<1> HIDE DEF d
<1>3. Changes(ch, d, key, e)
  BY <1>2, ChangeOfIs
<1>4. ch = ChangeOf(d, key, value)
  OBVIOUS
<1> HIDE DEF ch
<1>5. CASE x \in ch.saved
  BY <1>2, <1>4, <1>5, SavedIsNew
<1>6. CASE \E i \in 0 .. ch.level - 1 : x = Climb(d, key, ch)[i]
  <2>1. PICK i \in 0 .. ch.level - 1 : x = Climb(d, key, ch)[i]
    BY <1>6
  <2>2. ch.level \in 0 .. d.level /\ Open(e, key, ch.level)
    BY <1>3 DEF Changes
  <2>3. d.level \in 0 .. Depth /\ Depth \in Nat
    BY <1>2, DescentLevel
  <2>4. i \in 0 .. ch.level /\ i \in 0 .. Depth /\ \A j \in 0 .. i - 1 : j \in 0 .. ch.level - 1
    BY <2>2, <2>3
  <2>5. x = TreeOf(e)[Prefix(key, i)]
    BY <1>2, <1>3, <2>1, <2>4, ClimbIs
  <2> HIDE DEF e
  <2>6. Many(e, Prefix(key, i)) /\ Open(e, key, i)
    BY <2>2, <2>4 DEF Open
  <2>7. x # Zero
    BY <2>4, <2>5, <2>6, PrefixFacts, NodeTells, NodeFacts
  <2> QED
    BY <2>4, <2>5, <2>6, <2>7, NodeOfWay DEF e
<1> QED
  BY <1>1, <1>5, <1>6 DEF Saved

-----------------------------------------------------------------------------
(* The theorems. *)

LEMMA CanonicalIsTree == CanonicalTree = TreeOf(contents)[<<>>]
BY DEF CanonicalTree, TreeOf, IsTree, NodeAt, PresentIn, Present, Prefixes

\* Whatever sets the provers make, in any order, the contents are values of
\* keys and the root is the tree of them (Smt::set, all seven modes).
THEOREM TreeInvariant == Spec => []SmtInv
<1>1. Init => SmtInv
  <2> SUFFICES ASSUME Init PROVE SmtInv
    OBVIOUS
  <2>1. contents \in Contents /\ \A key \in Keys : contents[key] = 0
    BY DEF Init, Contents
  <2>2. PresentIn(contents, <<>>) = {} /\ <<>> \in Prefixes
    <3>1. PICK key \in Keys : TRUE
      BY KeysAssumption
    <3> QED
      BY <2>1, <3>1, NoBits DEF PresentIn
  <2>3. TreeOf(contents)[<<>>] = Zero
    BY <2>2, TreeFacts
  <2> QED
    BY <2>1, <2>3 DEF Init, SmtInv
<1>2. SmtInv /\ [Next]_vars => SmtInv'
  <2> SUFFICES ASSUME SmtInv, [Next]_vars PROVE SmtInv'
    OBVIOUS
  <2>1. ASSUME NEW key \in Keys, NEW value \in Values \cup {0}, SetKey(key, value) PROVE SmtInv'
    <3>1. root' = Set(root, key, value).newRoot /\ contents' = After(contents, key, value)
      BY <2>1 DEF SetKey, After
    <3>2. contents \in Contents /\ root = TreeOf(contents)[<<>>]
      BY DEF SmtInv
    <3>3. root' = TreeOf(contents')[<<>>]
      BY <3>1, <3>2, SetIs
    <3>4. contents' \in Contents
      BY <3>1, <3>2, AfterFacts
    <3> QED
      BY <3>3, <3>4 DEF SmtInv
  <2>2. CASE UNCHANGED vars
    BY <2>2 DEF vars, SmtInv
  <2> QED
    BY <2>1, <2>2 DEF Next
<1> QED
  BY <1>1, <1>2, PTL DEF Spec

\* Two provers that reach the same contents by other sets agree on the state
\* root: it is the one tree of the contents, for any keys and any depth.
THEOREM RootsAgree == Spec => []RootIsCanonical
<1>1. SmtInv => RootIsCanonical
  BY CanonicalIsTree DEF SmtInv, RootIsCanonical
<1> QED
  BY <1>1, TreeInvariant, PTL

\* Smt::get reads back the value last set, 0 when there is none, whatever
\* other leaf ends its way.
THEOREM GetsReadBack == Spec => []GetsAreRight
<1>1. SmtInv => GetsAreRight
  <2> SUFFICES ASSUME SmtInv, NEW get \in Gets PROVE get.value = contents[get.key]
    BY DEF GetsAreRight
  <2>1. PICK key \in Keys : get = Get(root, key)
    BY DEF Gets
  <2> QED
    <3>1. get = Get(TreeOf(contents)[<<>>], key)
      BY <2>1 DEF SmtInv
    <3>2. get.value = contents[key] /\ get.key = key
      BY <3>1, GetIsRight
    <3> QED
      BY <3>2
<1> QED
  BY <1>1, TreeInvariant, PTL

\* What Smt::set reads is a node of the old tree, and every node of the new
\* tree was saved by this set or is one of the old tree.
THEOREM TreesAreCovered == Spec => []NewTreeIsCovered
<1>1. SmtInv => NewTreeIsCovered
  <2> SUFFICES ASSUME SmtInv, NEW set \in Sets
               PROVE  /\ set.reads \subseteq NodesOf(root)
                      /\ NodesOf(set.newRoot) \subseteq NodesOf(root) \cup set.writes
    BY DEF NewTreeIsCovered
  <2>1. PICK key \in Keys, value \in Values \cup {0} : set = Set(root, key, value)
    BY DEF Sets
  <2>2. contents \in Contents /\ root = TreeOf(contents)[<<>>]
    BY DEF SmtInv
  <2>3. set = Set(TreeOf(contents)[<<>>], key, value)
    BY <2>1, <2>2
  <2>4. set.newRoot = TreeOf(After(contents, key, value))[<<>>]
    BY <2>2, <2>3, SetIs
  <2>5. ASSUME NEW x \in set.reads PROVE x \in NodesOf(root)
    <3>1. IsNodeOf(x, contents)
      BY <2>2, <2>3, ReadsAreOld
    <3> QED
      BY <2>2, <3>1, NodesAre
  <2>6. ASSUME NEW x \in NodesOf(set.newRoot) PROVE x \in NodesOf(root) \/ x \in set.writes
    <3>1. IsNodeOf(x, After(contents, key, value))
      BY <2>4, NodesAre
    <3>2. IsNodeOf(x, contents) \/ x \in set.writes
      BY <2>2, <2>3, <3>1, NewIsCovered
    <3> QED
      BY <2>2, <3>2, NodesAre
  <2> QED
    BY <2>5, <2>6
<1> QED
  BY <1>1, TreeInvariant, PTL

\* What Smt::set gives to deleteNode() was a node of the old tree and is none
\* of the new one: the purge of StateManager::flush may drop it.
THEOREM PurgeIsSafe == Spec => []FreedNodesAreUnused
<1>1. SmtInv => FreedNodesAreUnused
  <2> SUFFICES ASSUME SmtInv, NEW set \in Sets
               PROVE  /\ set.deletes \subseteq NodesOf(root)
                      /\ set.deletes \cap NodesOf(set.newRoot) = {}
    BY DEF FreedNodesAreUnused
  <2>1. PICK key \in Keys, value \in Values \cup {0} : set = Set(root, key, value)
    BY DEF Sets
  <2>2. contents \in Contents /\ root = TreeOf(contents)[<<>>]
    BY DEF SmtInv
  <2>3. set = Set(TreeOf(contents)[<<>>], key, value)
    BY <2>1, <2>2
  <2>4. set.newRoot = TreeOf(After(contents, key, value))[<<>>]
    BY <2>2, <2>3, SetIs
  <2>5. ASSUME NEW x \in set.deletes PROVE x \in NodesOf(root) /\ x \notin NodesOf(set.newRoot)
    <3>1. IsNodeOf(x, contents) /\ ~IsNodeOf(x, After(contents, key, value))
      BY <2>2, <2>3, DeletesAreUnused
    <3> QED
      BY <2>2, <2>4, <3>1, NodesAre
  <2> QED
    BY <2>5
<1> QED
  BY <1>1, TreeInvariant, PTL

\* Every result of Smt::set and Smt::get latches in the storage machine: its
\* ROM rebuilds the old and the new root from the mode, the siblings and the
\* other key, in all eight modes.
THEOREM ResultsLatch == Spec => []LatchesHold
<1>1. SmtInv => LatchesHold
  <2> SUFFICES ASSUME SmtInv, NEW action \in Sets \cup Gets PROVE Latches(action)
    BY DEF LatchesHold
  <2>1. contents \in Contents /\ root = TreeOf(contents)[<<>>]
    BY DEF SmtInv
  <2>2. CASE action \in Sets
    <3>1. PICK key \in Keys, value \in Values \cup {0} : action = Set(root, key, value)
      BY <2>2 DEF Sets
    <3>2. action = Set(TreeOf(contents)[<<>>], key, value)
      BY <2>1, <3>1
    <3>3. Latches(Set(TreeOf(contents)[<<>>], key, value))
      BY <2>1, SetLatches
    <3> QED
      BY <3>2, <3>3
  <2>3. CASE action \in Gets
    <3>1. PICK key \in Keys : action = Get(root, key)
      BY <2>3 DEF Gets
    <3>2. action = Get(TreeOf(contents)[<<>>], key)
      BY <2>1, <3>1
    <3>3. Latches(Get(TreeOf(contents)[<<>>], key))
      BY <2>1, GetLatches
    <3> QED
      BY <3>2, <3>3
  <2> QED
    BY <2>2, <2>3
<1> QED
  BY <1>1, TreeInvariant, PTL

\* The state trees, the nodes under them and what a set makes of them, as the
\* state manager sees them (Roots, NodesUnder and SetsOf of StateManager).
StateTrees == {TreeOf(c)[<<>>] : c \in Contents}
SetsOfTree(tree) == {Set(tree, key, value) : key \in Keys, value \in Values \cup {0}}

\* The sets of Smt::set keep what StateManager assumes of them
\* (TreeAssumption): a tree leads to a tree, what is written and deleted are
\* nodes of trees, the new tree is covered and nothing of it is deleted.
THEOREM SetsAreAsAssumed ==
  \A tree \in StateTrees : \A set \in SetsOfTree(tree) :
    /\ set.newRoot \in StateTrees
    /\ set.writes \subseteq UNION {NodesOf(t) : t \in StateTrees}
    /\ set.deletes \subseteq UNION {NodesOf(t) : t \in StateTrees}
    /\ NodesOf(set.newRoot) \subseteq NodesOf(tree) \cup set.writes
    /\ set.deletes \cap NodesOf(set.newRoot) = {}
<1> SUFFICES ASSUME NEW tree \in StateTrees, NEW set \in SetsOfTree(tree)
             PROVE  /\ set.newRoot \in StateTrees
                    /\ set.writes \subseteq UNION {NodesOf(t) : t \in StateTrees}
                    /\ set.deletes \subseteq UNION {NodesOf(t) : t \in StateTrees}
                    /\ NodesOf(set.newRoot) \subseteq NodesOf(tree) \cup set.writes
                    /\ set.deletes \cap NodesOf(set.newRoot) = {}
  OBVIOUS
<1>1. PICK c \in Contents : tree = TreeOf(c)[<<>>]
  BY DEF StateTrees
<1>2. PICK key \in Keys, value \in Values \cup {0} : set = Set(TreeOf(c)[<<>>], key, value)
  BY <1>1 DEF SetsOfTree
<1> DEFINE e == After(c, key, value)
<1>3. set.newRoot = TreeOf(e)[<<>>] /\ e \in Contents
  BY <1>2, SetIs, AfterFacts
<1>4. \A x : /\ x \in NodesOf(tree) <=> IsNodeOf(x, c)
             /\ x \in NodesOf(set.newRoot) <=> IsNodeOf(x, e)
  BY <1>1, <1>3, NodesAre
<1>5. tree \in StateTrees /\ set.newRoot \in StateTrees
  BY <1>3 DEF StateTrees
<1>6. \A x \in set.writes : x \in NodesOf(set.newRoot)
  BY <1>2, <1>4, WritesAreNew
<1>7. \A x \in set.deletes : x \in NodesOf(tree) /\ x \notin NodesOf(set.newRoot)
  BY <1>2, <1>4, DeletesAreUnused
<1>8. \A x \in NodesOf(set.newRoot) : x \in NodesOf(tree) \/ x \in set.writes
  BY <1>2, <1>4, NewIsCovered
<1> HIDE DEF e
<1> QED
  BY <1>5, <1>6, <1>7, <1>8

\* A state root stands for one contents: two different contents never have the
\* same tree, so a root names what Smt::get reads under it.
THEOREM RootsTellContents ==
  \A c, e \in Contents : TreeOf(c)[<<>>] = TreeOf(e)[<<>>] => c = e
<1> SUFFICES ASSUME NEW c \in Contents, NEW e \in Contents, TreeOf(c)[<<>>] = TreeOf(e)[<<>>]
             PROVE  c = e
  OBVIOUS
<1>1. ASSUME NEW key \in Keys PROVE c[key] = e[key]
  <2>1. Get(TreeOf(c)[<<>>], key).value = c[key]
    BY GetIsRight
  <2>2. Get(TreeOf(e)[<<>>], key).value = e[key]
    BY GetIsRight
  <2> QED
    BY <2>1, <2>2
<1> QED
  BY <1>1 DEF Contents

\* Smt::set changes the root exactly when it changes a value: setting the value
\* a key already has, or 0 where there is none, gives back the same root.
THEOREM RootTellsChange == Spec => [][root' = root <=> contents' = contents]_vars
<1>1. SmtInv /\ SmtInv' => (root' = root <=> contents' = contents)
  <2> SUFFICES ASSUME SmtInv, SmtInv' PROVE root' = root <=> contents' = contents
    OBVIOUS
  <2>1. /\ contents \in Contents /\ root = TreeOf(contents)[<<>>]
        /\ contents' \in Contents /\ root' = TreeOf(contents')[<<>>]
    BY DEF SmtInv
  <2>2. root' = root => contents' = contents
    BY <2>1, RootsTellContents
  <2> QED
    BY <2>1, <2>2
<1> QED
  BY <1>1, TreeInvariant, PTL
=============================================================================
