------------------------- MODULE StateManagerProofs -------------------------
(***************************************************************************)
(* Proofs about the state manager (StateManager.tla), for all batches,     *)
(* trees and bounds: what flush() purges leaves the whole final tree, no   *)
(* revert or error makes it refuse a batch, and only final roots are       *)
(* stored.                                                                 *)
(***************************************************************************)
EXTENDS StateManager, SequenceTheorems, FiniteSetTheorems, WellFoundedInduction, TLAPS

-----------------------------------------------------------------------------
(* The inductive invariant. *)

Olds(t) == {t.subState[i].old : i \in DOMAIN t.subState}
News(t) == {t.subState[i].new : i \in DOMAIN t.subState}

\* A sub-state that ended holds what leads from its old tree to its new one.
Leads(s) ==
  /\ s.old \in Roots /\ s.new \in Roots
  /\ NodesUnder(s.new) \subseteq NodesUnder(s.old) \cup s.dbWrite
  /\ s.dbDelete \cap NodesUnder(s.new) = {}

\* A sub-state after the first begins at a root that one before it ended in: the
\* one just before, unless some sub-state began at that root already.
Continues(t, i) ==
  LET s == t.subState IN
  /\ s[i].previous = i - 2
  /\ \E j \in 1 .. i - 1 : s[j].new = s[i].old
  /\ s[i - 1].new = s[i].old \/ \E j \in 1 .. i - 1 : s[j].old = s[i].old

TxInv(t) ==
  /\ LastIsCurrent(t)
  /\ t.subState = <<>> => t.new = t.old
  /\ t.subState # <<>> =>
       t.old = t.subState[1].old /\ t.new = t.subState[Len(t.subState)].new
  /\ \A i \in DOMAIN t.subState : Leads(t.subState[i]) /\ (i > 1 => Continues(t, i))

\* The txs numbered below n led from the root base to root.  One that made no
\* set in the tree of the state has no root.
LedTo(txs, n, base, root) ==
  \/ root = base /\ \A j \in DOMAIN txs : j <= n => txs[j].new = NoRoot
  \/ \E j \in DOMAIN txs :
       /\ j <= n /\ txs[j].new = root /\ root # NoRoot
       /\ \A m \in DOMAIN txs : m <= n /\ m > j => txs[m].new = NoRoot

TxsInv(txs, base) ==
  \A k \in DOMAIN txs :
    TxInv(txs[k]) /\ (txs[k].new # NoRoot => LedTo(txs, k - 1, base, txs[k].old))

\* Where the tx that runs is: nowhere before its first set, then at a root that
\* one of its sub-states ended in, as are the roots that its calls go back to.
RootInv(t, root, initSR) ==
  LET known == Olds(t) \cup {t.new} IN
  /\ root \in News(t) \cap known
  /\ \A p \in DOMAIN initSR : initSR[p] \in News(t)
  /\ \A p \in DOMAIN initSR :
       initSR[p] \in Olds(t) \/ \A q \in p .. Len(initSR) : initSR[q] = root

OwnInv(t, r) ==
  \/ t = NewTxState /\ r.root = r.originSR /\ r.phase = "intrinsic"
  \/ /\ t.subState # <<>> /\ t.old = r.originSR
     /\ RootInv(t, r.root, r.initSR)
     /\ r.phase = "intrinsic" => r.root = t.new

Active == {"start", "loop", "intrinsic", "running", "ended"}
Running == {"intrinsic", "running"}

ActiveInv(s, r) ==
  LET txs == s.txState IN
  /\ r.root \in Roots /\ r.oldRoot \in Roots /\ r.batchSR \in Roots
  /\ txs = <<>> \/ s.currentTx = Len(txs) - 1
  /\ s = NoBatch <=> txs = <<>>
  /\ txs = <<>> => s.pool = {}
  /\ Len(txs) <= r.tx + 1
  /\ TxsInv(txs, r.oldRoot)
  /\ r.batchSR # r.oldRoot => txs # <<>> /\ txs[1].new = r.batchSR

RunningInv(s, r) ==
  LET txs == s.txState IN
  /\ r.tx > 0 /\ r.originSR \in Roots
  /\ LedTo(txs, r.tx, r.oldRoot, r.originSR)
  /\ Len(txs) <= r.tx => r.root = r.originSR /\ r.phase = "intrinsic"
  /\ Len(txs) = r.tx + 1 => OwnInv(txs[r.tx + 1], r)

EndedInv(s, r) ==
  LET txs == s.txState IN
  \/ \E k \in DOMAIN txs : txs[k].new = r.root
  \/ /\ r.root = r.oldRoot
     /\ LateErrorNeedsExitRoot => \A k \in DOMAIN txs : txs[k].new = NoRoot

BatchInv(s, r) ==
  /\ r.phase # "failed"
  /\ r.phase \notin Active => s = NoBatch /\ r.tx = 0
  /\ r.phase \notin Running => r.originSR = NoRoot
  /\ r.phase \in Active => ActiveInv(s, r)
  /\ r.phase = "start" =>
       r.tx = 0 /\ s.txState = <<>> /\ r.root = r.oldRoot /\ r.batchSR = r.oldRoot
  /\ r.phase = "loop" => LedTo(s.txState, r.tx + 1, r.oldRoot, r.root)
  /\ r.phase \in Running => RunningInv(s, r)
  /\ r.phase = "ended" => EndedInv(s, r)
  /\ r.phase = "running" <=> r.initSR # <<>>
  /\ Len(r.initSR) <= MaxCalls + 1

\* A batch finds what it may still read, in its pool or in the database d: the
\* tree it started from, and the one it left, are in the database.
TreesInv(s, r, d) ==
  /\ r.phase = "done" => r.root \in Roots /\ NodesUnder(r.root) \subseteq d
  /\ r.phase \in Active => NodesUnder(r.oldRoot) \subseteq d
  /\ \A root \in LiveRoots(r) : NodesUnder(root) \subseteq s.pool \cup d

BatchOK(s, r, d) ==
  /\ s \in BatchStates /\ r \in Runs
  /\ BatchInv(s, r)
  /\ TreesInv(s, r, d)

ManagerInv ==
  /\ state \in [Batches -> BatchStates] /\ run \in [Batches -> Runs]
  /\ db \in SUBSET Nodes /\ sets \in 0 .. MaxSets
  /\ storedRoot \in Roots /\ NodesUnder(storedRoot) \subseteq db
  /\ \A b \in Batches : BatchInv(state[b], run[b]) /\ TreesInv(state[b], run[b], db)


-----------------------------------------------------------------------------
(* A set, and the calls it makes. *)

\* d is what a set that begins at root makes of the state t of its tx.
IsAfterSet(t, d, root, set) ==
  LET n == Len(t.subState) IN
  /\ d \in TxStates
  /\ d.old = IF t.subState = <<>> THEN root ELSE t.old
  /\ d.new = set.newRoot
  /\ d.current = n /\ Len(d.subState) = n + 1
  /\ \A i \in DOMAIN t.subState : d.subState[i] = t.subState[i]
  /\ d.subState[n + 1].old = root /\ d.subState[n + 1].new = set.newRoot
  /\ d.subState[n + 1].previous = t.current
  /\ d.subState[n + 1].dbWrite = set.writes /\ d.subState[n + 1].dbDelete = set.deletes

LEMMA SetTypes ==
  ASSUME NEW root \in Roots, NEW set \in SetsOf(root)
  PROVE  /\ set.newRoot \in Roots /\ set.newRoot # NoRoot /\ root # NoRoot
         /\ set.writes \in SUBSET Nodes /\ set.deletes \in SUBSET Nodes
         /\ NodesUnder(set.newRoot) \subseteq NodesUnder(root) \cup set.writes
         /\ set.deletes \cap NodesUnder(set.newRoot) = {}
BY TreeAssumption

\* None of the calls of a set is refused.
LEMMA SetsAreTaken ==
  ASSUME NEW t \in TxStates, TxInv(t), NEW root \in Roots, NEW set \in SetsOf(root)
  PROVE  IsAfterSet(t, EndSubState(Record(BeginSubState(t, root), set.writes, set.deletes),
                                   set.newRoot), root, set)
<1> DEFINE n == Len(t.subState)
           begun == BeginSubState(t, root)
           recorded == Record(begun, set.writes, set.deletes)
           ended == EndSubState(recorded, set.newRoot)
<1>1. /\ t.subState \in Seq(SubStates) /\ n \in Nat /\ t.current \in Nat
      /\ t.old \in RootOrNone /\ t.new \in RootOrNone /\ DOMAIN t.subState = 1 .. n
  BY DEF TxStates
<1>2. /\ begun \in TxStates
      /\ begun.old = (IF t.subState = <<>> THEN root ELSE t.old)
      /\ begun.current = n /\ Len(begun.subState) = n + 1
      /\ \A i \in DOMAIN t.subState : begun.subState[i] = t.subState[i]
      /\ begun.subState[n + 1] = [old |-> root, new |-> NoRoot, previous |-> t.current,
                                  dbWrite |-> {}, dbDelete |-> {}]
  <2> DEFINE new == [old |-> root, new |-> NoRoot, previous |-> t.current,
                     dbWrite |-> {}, dbDelete |-> {}]
  <2>1. ~ IF t.subState = <<>> THEN t.current # 0
          ELSE t.current >= Len(t.subState) \/ Last(t.subState).new = NoRoot
    <3>1. CASE t.subState = <<>>
      BY <3>1 DEF TxInv, LastIsCurrent
    <3>2. CASE t.subState # <<>>
      <4>1. n > 0 /\ n \in DOMAIN t.subState /\ t.current = n - 1
        BY <1>1, <3>2 DEF TxInv, LastIsCurrent
      <4>2. t.subState[n].new \in Roots
        BY <4>1 DEF TxInv, Leads
      <4> QED
        BY <3>2, <4>1, <4>2, TreeAssumption DEF Last
    <3> QED
      BY <3>1, <3>2
  <2>2. begun = [t EXCEPT !.old = IF t.subState = <<>> THEN root ELSE @,
                          !.current = n, !.subState = Append(@, new)]
    BY <2>1 DEF BeginSubState
  <2>3. new \in SubStates
    BY <1>1 DEF SubStates, RootOrNone
  <2> HIDE DEF new, begun
  <2>4. /\ Append(t.subState, new) \in Seq(SubStates) /\ Len(Append(t.subState, new)) = n + 1
        /\ Append(t.subState, new)[n + 1] = new
        /\ \A i \in DOMAIN t.subState : Append(t.subState, new)[i] = t.subState[i]
    BY <1>1, <2>3
  <2>5. /\ begun.subState = Append(t.subState, new) /\ begun \in TxStates
        /\ begun.old = (IF t.subState = <<>> THEN root ELSE t.old) /\ begun.current = n
    BY <1>1, <2>2, <2>4 DEF TxStates, RootOrNone
  <2> QED
    BY <2>4, <2>5 DEF new
<1> HIDE DEF begun
<1>3. /\ recorded \in TxStates
      /\ recorded.old = begun.old
      /\ recorded.current = n /\ Len(recorded.subState) = n + 1
      /\ \A i \in DOMAIN t.subState : recorded.subState[i] = t.subState[i]
      /\ recorded.subState[n + 1].old = root /\ recorded.subState[n + 1].new = NoRoot
      /\ recorded.subState[n + 1].previous = t.current
      /\ recorded.subState[n + 1].dbWrite = set.writes
      /\ recorded.subState[n + 1].dbDelete = set.deletes
  <2> DEFINE sub == [begun.subState[n + 1] EXCEPT !.dbWrite = @ \cup set.writes,
                                                  !.dbDelete = @ \cup set.deletes]
             subs == [begun.subState EXCEPT ![n + 1] = sub]
  <2>1. recorded = [begun EXCEPT !.subState = subs]
    BY <1>2, Zenon DEF Record
  <2>2. /\ sub \in SubStates /\ sub.old = root /\ sub.new = NoRoot /\ sub.previous = t.current
        /\ sub.dbWrite = set.writes /\ sub.dbDelete = set.deletes
    <3> DEFINE fresh == begun.subState[n + 1]
    <3>1. /\ fresh \in SubStates
          /\ fresh.old = root /\ fresh.new = NoRoot /\ fresh.previous = t.current
          /\ fresh.dbWrite = {} /\ fresh.dbDelete = {}
      BY <1>1, <1>2 DEF SubStates, RootOrNone
    <3>2. /\ fresh.dbWrite \cup set.writes = set.writes
          /\ fresh.dbDelete \cup set.deletes = set.deletes
      BY <3>1
    <3>3. sub = [fresh EXCEPT !.dbWrite = set.writes, !.dbDelete = set.deletes]
      BY <3>2, Zenon
    <3> HIDE DEF fresh, sub
    <3> QED
      BY <3>1, <3>3, SetTypes DEF SubStates
  <2> HIDE DEF sub
  <2>3. /\ subs \in Seq(SubStates) /\ Len(subs) = n + 1 /\ subs[n + 1] = sub
        /\ \A i \in DOMAIN t.subState : subs[i] = t.subState[i]
    BY <1>1, <1>2, <2>2 DEF TxStates
  <2> HIDE DEF subs, recorded
  <2>4. recorded.subState = subs /\ recorded \in TxStates
        /\ recorded.old = begun.old /\ recorded.current = n
    BY <1>2, <2>1, <2>3 DEF TxStates
  <2> QED
    BY <2>2, <2>3, <2>4
<1> HIDE DEF recorded
<1>4. IsAfterSet(t, ended, root, set)
  <2> DEFINE sub == [recorded.subState[n + 1] EXCEPT !.new = set.newRoot]
             subs == [recorded.subState EXCEPT ![n + 1] = sub]
  <2>1. ended = [recorded EXCEPT !.subState = subs, !.new = set.newRoot]
    <3>1. ~ (recorded.current >= Len(recorded.subState) \/ Sub(recorded, recorded.current).new # NoRoot)
      BY <1>1, <1>3 DEF Sub
    <3> QED
      BY <1>3, <3>1, Zenon DEF EndSubState
  <2>2. /\ sub \in SubStates /\ sub.old = root /\ sub.new = set.newRoot
        /\ sub.previous = t.current
        /\ sub.dbWrite = set.writes /\ sub.dbDelete = set.deletes
    <3>1. recorded.subState[n + 1] \in SubStates
      BY <1>1, <1>3 DEF TxStates
    <3> QED
      BY <1>1, <1>3, <3>1, SetTypes DEF SubStates, RootOrNone
  <2> HIDE DEF sub
  <2>3. /\ subs \in Seq(SubStates) /\ Len(subs) = n + 1 /\ subs[n + 1] = sub
        /\ \A i \in DOMAIN t.subState : subs[i] = t.subState[i]
    BY <1>1, <1>3, <2>2 DEF TxStates
  <2> HIDE DEF subs, ended
  <2>4. /\ ended.subState = subs /\ ended \in TxStates
        /\ ended.old = begun.old /\ ended.current = n /\ ended.new = set.newRoot
    BY <1>3, <2>1, <2>3, SetTypes DEF TxStates, RootOrNone
  <2> QED
    BY <1>2, <2>2, <2>3, <2>4 DEF IsAfterSet
<1> QED
  BY <1>4 DEF recorded, begun

\* The sub-states of a tx, with their types.
LEMMA SubStateTypes ==
  ASSUME NEW t \in TxStates
  PROVE  /\ t.subState \in Seq(SubStates) /\ Len(t.subState) \in Nat
         /\ DOMAIN t.subState = 1 .. Len(t.subState)
         /\ t.subState # <<>> <=> Len(t.subState) > 0
         /\ \A i \in DOMAIN t.subState :
              /\ t.subState[i].old \in Roots /\ t.subState[i].new \in RootOrNone
              /\ t.subState[i].previous \in Nat
              /\ t.subState[i].dbWrite \subseteq Nodes /\ t.subState[i].dbDelete \subseteq Nodes
         /\ t.old \in RootOrNone /\ t.new \in RootOrNone /\ t.current \in Nat
<1>1. t.subState \in Seq(SubStates)
  BY DEF TxStates
<1>2. \A i \in DOMAIN t.subState : t.subState[i] \in SubStates
  BY <1>1
<1> QED
  BY <1>1, <1>2 DEF TxStates, SubStates

LEMMA RootsAfterSet ==
  ASSUME NEW t \in TxStates, NEW root, NEW set, NEW d, IsAfterSet(t, d, root, set)
  PROVE  Olds(d) = Olds(t) \cup {root} /\ News(d) = News(t) \cup {set.newRoot}
<1> DEFINE n == Len(t.subState)
<1>1. n \in Nat /\ DOMAIN t.subState = 1 .. n
  BY SubStateTypes
<1>2. DOMAIN d.subState = 1 .. n + 1
  BY <1>1, SubStateTypes DEF IsAfterSet
<1>3. 1 .. n + 1 = (1 .. n) \cup {n + 1}
  BY <1>1
<1> QED
  BY <1>1, <1>2, <1>3 DEF IsAfterSet, Olds, News

\* A set that begins where the tx is keeps the order of the sub-states.
LEMMA SetKeepsTx ==
  ASSUME NEW t \in TxStates, TxInv(t), NEW root \in Roots, NEW set \in SetsOf(root),
         NEW d, IsAfterSet(t, d, root, set),
         t.subState # <<>> => root \in News(t) \cap (Olds(t) \cup {t.new})
  PROVE  TxInv(d) /\ d.subState # <<>>
<1> DEFINE n == Len(t.subState)
<1>1. n \in Nat /\ DOMAIN t.subState = 1 .. n
  BY SubStateTypes
<1>2. /\ d.subState \in Seq(SubStates) /\ DOMAIN d.subState = 1 .. n + 1 /\ Len(d.subState) = n + 1
      /\ d.subState # <<>>
  BY <1>1, SubStateTypes DEF IsAfterSet
<1>3. LastIsCurrent(d)
  BY <1>1, <1>2 DEF IsAfterSet, LastIsCurrent
<1>4. d.old = d.subState[1].old /\ d.new = d.subState[Len(d.subState)].new
  <2>1. CASE t.subState = <<>>
    BY <1>1, <1>2, <2>1, SubStateTypes DEF IsAfterSet
  <2>2. CASE t.subState # <<>>
    <3>1. 1 \in DOMAIN t.subState /\ t.old = t.subState[1].old
      BY <1>1, <2>2, SubStateTypes DEF TxInv
    <3> QED
      BY <1>2, <2>2, <3>1 DEF IsAfterSet
  <2> QED
    BY <2>1, <2>2
<1>5. ASSUME NEW i \in DOMAIN d.subState
      PROVE  Leads(d.subState[i]) /\ (i > 1 => Continues(d, i))
  <2>1. CASE i \in 1 .. n
    <3>1. Leads(t.subState[i]) /\ (i > 1 => Continues(t, i))
      BY <1>1, <2>1 DEF TxInv
    <3>2. \A j \in 1 .. i : d.subState[j] = t.subState[j]
      BY <1>1, <2>1 DEF IsAfterSet
    <3>3. i > 1 => i - 1 \in 1 .. i /\ i \in 1 .. i
      BY <2>1
    <3>4. i \in 1 .. i /\ 1 .. i - 1 \subseteq 1 .. i
      BY <2>1
    <3> QED
      BY <3>1, <3>2, <3>3, <3>4 DEF Continues
  <2>2. CASE i = n + 1
    <3>1. Leads(d.subState[i])
      BY <2>2, SetTypes DEF IsAfterSet, Leads
    <3>2. ASSUME i > 1 PROVE Continues(d, i)
      <4>1. n \in 1 .. n /\ t.subState # <<>> /\ t.current = n - 1 /\ i - 1 = n
        BY <1>1, <2>2, <3>2, SubStateTypes DEF TxInv, LastIsCurrent
      <4>2. d.subState[i].previous = i - 2
        BY <1>1, <2>2, <4>1 DEF IsAfterSet
      <4>3. \A j \in 1 .. n : d.subState[j] = t.subState[j]
        BY <1>1 DEF IsAfterSet
      <4>4. d.subState[i].old = root
        BY <2>2 DEF IsAfterSet
      <4>5. \E j \in 1 .. n : t.subState[j].new = root
        BY <1>1, <4>1 DEF News
      <4>6. t.subState[n].new = root \/ \E j \in 1 .. n : t.subState[j].old = root
        BY <1>1, <4>1 DEF Olds, TxInv
      <4> QED
        BY <4>1, <4>2, <4>3, <4>4, <4>5, <4>6 DEF Continues
    <3> QED
      BY <3>1, <3>2
  <2> QED
    BY <1>1, <1>2, <2>1, <2>2
<1> QED
  BY <1>2, <1>3, <1>4, <1>5 DEF TxInv

\* After the set the tx is at the set's root, and no call goes back elsewhere.
LEMMA SetKeepsRoots ==
  ASSUME NEW t \in TxStates, NEW root, NEW set, NEW d, IsAfterSet(t, d, root, set),
         NEW initSR \in Seq(Roots),
         RootInv(t, root, initSR) \/ initSR = <<>>
  PROVE  RootInv(d, set.newRoot, initSR)
<1>1. Olds(d) = Olds(t) \cup {root} /\ News(d) = News(t) \cup {set.newRoot} /\ d.new = set.newRoot
  BY RootsAfterSet DEF IsAfterSet
<1>2. DOMAIN initSR = 1 .. Len(initSR) /\ Len(initSR) \in Nat
  OBVIOUS
<1>3. \A p \in DOMAIN initSR : initSR[p] \in News(t) /\ initSR[p] \in Olds(t) \cup {root}
  <2>1. CASE initSR = <<>>
    BY <2>1
  <2>2. CASE RootInv(t, root, initSR)
    <3> SUFFICES ASSUME NEW p \in DOMAIN initSR
                 PROVE  initSR[p] \in News(t) /\ initSR[p] \in Olds(t) \cup {root}
      OBVIOUS
    <3>1. p \in p .. Len(initSR)
      BY <1>2
    <3> QED
      BY <2>2, <3>1 DEF RootInv
  <2> QED
    BY <2>1, <2>2
<1> QED
  BY <1>1, <1>3 DEF RootInv

-----------------------------------------------------------------------------
(* semiFlush(). *)

LEMMA CutKeepsTx ==
  ASSUME NEW t \in TxStates, TxInv(t), NEW root \in Roots, root # t.old,
         NEW i \in 0 .. Len(t.subState), BeginsAt(t, root, i)
  PROVE  LET d == CutAt(t, i, root)
         IN  d \in TxStates /\ TxInv(d) /\ d.old = t.old /\ d.new = root
<1> DEFINE n == Len(t.subState)
           s == t.subState
           d == CutAt(t, i, root)
<1>1. /\ s \in Seq(SubStates) /\ n \in Nat /\ DOMAIN s = 1 .. n /\ s # <<>>
      /\ i \in Nat /\ i < n
  BY SubStateTypes DEF BeginsAt
<1>2. s[i + 1].old = root /\ \A j \in 1 .. i : s[j].old # root
  <2>1. s[i + 1].old = root /\ \A j \in 0 .. i - 1 : s[j + 1].old # root
    BY DEF BeginsAt, Sub
  <2>2. ASSUME NEW j \in 1 .. i PROVE s[j].old # root
    <3>1. j - 1 \in 0 .. i - 1 /\ (j - 1) + 1 = j
      BY <1>1
    <3> QED
      BY <2>1, <3>1
  <2> QED
    BY <2>1, <2>2
<1>3. i > 0
  BY <1>1, <1>2 DEF TxInv
<1>4. s[i].new = root
  <2>1. Continues(t, i + 1)
    BY <1>1, <1>3 DEF TxInv
  <2>2. s[(i + 1) - 1].new = root \/ \E j \in 1 .. (i + 1) - 1 : s[j].old = root
    BY <1>2, <2>1 DEF Continues
  <2> QED
    BY <1>1, <1>2, <2>2
<1>5. /\ SubSeq(s, 1, i) \in Seq(SubStates) /\ Len(SubSeq(s, 1, i)) = i
      /\ \A j \in 1 .. i : SubSeq(s, 1, i)[j] = s[j]
  BY <1>1
<1>6. /\ d \in TxStates /\ d.old = t.old /\ d.new = root /\ d.current = i - 1
      /\ d.subState = SubSeq(s, 1, i)
  <2>1. i - 1 \in Nat /\ i # 0
    BY <1>1, <1>3
  <2> HIDE DEF n, s
  <2> QED
    BY <1>5, <2>1 DEF CutAt, TxStates, RootOrNone, s
<1> HIDE DEF d
<1>7. d.subState # <<>> /\ Len(d.subState) = i /\ DOMAIN d.subState = 1 .. i
  BY <1>3, <1>5, <1>6
<1>8. LastIsCurrent(d)
  BY <1>6, <1>7 DEF LastIsCurrent
<1>9. d.old = d.subState[1].old /\ d.new = d.subState[Len(d.subState)].new
  BY <1>1, <1>3, <1>4, <1>5, <1>6, <1>7 DEF TxInv
<1>10. ASSUME NEW k \in 1 .. i
       PROVE  Leads(d.subState[k]) /\ (k > 1 => Continues(d, k))
  <2>1. Leads(s[k]) /\ (k > 1 => Continues(t, k))
    BY <1>1 DEF TxInv
  <2>2. \A j \in 1 .. k : d.subState[j] = s[j]
    BY <1>1, <1>5, <1>6
  <2>3. k \in 1 .. k /\ 1 .. k - 1 \subseteq 1 .. k /\ (k > 1 => k - 1 \in 1 .. k)
    OBVIOUS
  <2> QED
    BY <2>1, <2>2, <2>3 DEF Continues
<1> QED
  BY <1>6, <1>7, <1>8, <1>9, <1>10 DEF TxInv, d

LEMMA ClearKeepsTx ==
  ASSUME NEW t \in TxStates, TxInv(t), NEW root \in Roots, t.old = root
  PROVE  LET d == [t EXCEPT !.subState = <<>>, !.new = root, !.current = 0]
         IN  d \in TxStates /\ TxInv(d) /\ d.old = t.old /\ d.new = root
<1> DEFINE d == [t EXCEPT !.subState = <<>>, !.new = root, !.current = 0]
<1>1. <<>> \in Seq(SubStates) /\ DOMAIN <<>> = {}
  OBVIOUS
<1>2. /\ d \in TxStates /\ d.old = root /\ d.new = root /\ d.current = 0
      /\ d.subState = <<>>
  BY <1>1 DEF TxStates, RootOrNone
<1> HIDE DEF d
<1>3. TxInv(d)
  BY <1>1, <1>2 DEF TxInv, LastIsCurrent
<1> QED
  BY <1>2, <1>3 DEF d

\* A tx is settled at the root, or left alone because it was never there.
LEMMA SettledKeepsTx ==
  ASSUME NEW t \in TxStates, TxInv(t), NEW root \in Roots
  PROVE  LET d == Settled(t, root) IN
         /\ d \in TxStates /\ TxInv(d) /\ d.old = t.old
         /\ t.new = root => d = t
         /\ t.new = NoRoot => d = t
         /\ d.new = root \/ d = t
         /\ t.old = root => d.new = root
<1> DEFINE d == Settled(t, root)
<1>0. root # NoRoot
  BY TreeAssumption
<1>1. CASE t.new = root
  BY <1>0, <1>1 DEF Settled
<1>2. CASE t.new # root /\ t.old = root
  <2>1. d = [t EXCEPT !.subState = <<>>, !.new = root, !.current = 0]
    BY <1>2 DEF Settled
  <2>2. t.new # NoRoot
    <3>1. CASE t.subState = <<>>
      BY <1>2, <3>1 DEF TxInv
    <3>2. CASE t.subState # <<>>
      BY <3>2, TreeAssumption, SubStateTypes DEF TxInv, Leads
    <3> QED
      BY <3>1, <3>2
  <2> HIDE DEF d
  <2>3. d \in TxStates /\ TxInv(d) /\ d.old = t.old /\ d.new = root
    BY <1>2, <2>1, ClearKeepsTx
  <2> QED
    BY <1>2, <2>2, <2>3 DEF d
<1>3. CASE t.new # root /\ t.old # root
  <2>1. CASE \E i \in 0 .. Len(t.subState) : BeginsAt(t, root, i)
    <3> DEFINE i == CHOOSE i \in 0 .. Len(t.subState) : BeginsAt(t, root, i)
    <3>1. i \in 0 .. Len(t.subState) /\ BeginsAt(t, root, i)
      BY <2>1
    <3>2. d = CutAt(t, i, root)
      BY <1>3, <2>1 DEF Settled
    <3>3. t.new # NoRoot
      <4>1. t.subState # <<>>
        BY <3>1, SubStateTypes DEF BeginsAt
      <4> QED
        BY <4>1, TreeAssumption, SubStateTypes DEF TxInv, Leads
    <3> HIDE DEF i, d
    <3>4. d \in TxStates /\ TxInv(d) /\ d.old = t.old /\ d.new = root
      BY <1>3, <3>1, <3>2, CutKeepsTx
    <3> QED
      BY <1>3, <3>3, <3>4 DEF d
  <2>2. CASE ~ \E i \in 0 .. Len(t.subState) : BeginsAt(t, root, i)
    BY <1>3, <2>2 DEF Settled
  <2> QED
    BY <2>1, <2>2
<1> QED
  BY <1>1, <1>2, <1>3

-----------------------------------------------------------------------------
(* flush(): the way back through the sub-states of a tx. *)

LEMMA LeastNumber ==
  ASSUME NEW S \in SUBSET Nat, S # {}
  PROVE  \E x \in S : \A y \in S : x <= y
<1>1. PICK x \in S : \A y \in S : <<y, x>> \notin OpToRel(<, Nat)
  BY NatLessThanWellFounded, WFMin
<1>2. \A y \in S : ~ (y < x)
  BY <1>1 DEF OpToRel
<1> QED
  BY <1>2

\* The way back never gets stuck: a sub-state before led to where each began.
LEMMA BeforeLeads ==
  ASSUME NEW t \in TxStates, TxInv(t), t.subState # <<>>, NEW i \in 1 .. t.current
  PROVE  Before(t, i) \in 0 .. i - 1 /\ Sub(t, Before(t, i)).new = Sub(t, i).old
<1> DEFINE leads(j) == Sub(t, j).new = Sub(t, i).old
<1>1. i \in Nat /\ i > 0 /\ i + 1 \in DOMAIN t.subState
  BY SubStateTypes DEF TxInv, LastIsCurrent
<1>2. Continues(t, i + 1)
  BY <1>1 DEF TxInv
<1>3. Sub(t, i).previous = i - 1
  BY <1>1, <1>2 DEF Continues, Sub
<1>4. PICK j \in 1 .. (i + 1) - 1 : t.subState[j].new = t.subState[i + 1].old
  BY <1>2 DEF Continues
<1>5. j - 1 \in 0 .. i - 1 /\ leads(j - 1)
  BY <1>1, <1>4 DEF Sub
<1>6. CASE leads(i - 1)
  <2>1. Before(t, i) = i - 1
    BY <1>3, <1>6 DEF Before
  <2> QED
    BY <1>1, <1>6, <2>1
<1>7. CASE ~leads(i - 1)
  <2>1. \E m \in 0 .. i - 1 : leads(m) /\ \A k \in 0 .. m - 1 : ~leads(k)
    <3> DEFINE S == {m \in 0 .. i - 1 : leads(m)}
    <3>1. S \in SUBSET Nat /\ S # {}
      BY <1>1, <1>5
    <3>2. PICK m \in S : \A k \in S : m <= k
      BY <3>1, LeastNumber
    <3>3. \A k \in 0 .. m - 1 : ~leads(k)
      BY <1>1, <3>2
    <3> QED
      BY <3>2, <3>3
  <2>2. \E m \in 0 .. i - 1 : leads(m)
    BY <2>1
  <2>3. Before(t, i) = CHOOSE m \in 0 .. i - 1 : leads(m) /\ \A k \in 0 .. m - 1 : ~leads(k)
    BY <1>3, <1>7, <2>2 DEF Before
  <2> QED
    BY <2>1, <2>3
<1> QED
  BY <1>6, <1>7

LEMMA ChainIsClosed ==
  ASSUME NEW t \in TxStates, TxInv(t), t.subState # <<>>
  PROVE  /\ t.current \in Nat /\ OnTheChain(t) \subseteq 0 .. t.current
         /\ t.current \in OnTheChain(t)
         /\ \A j \in OnTheChain(t) \ {0} : j \in 1 .. t.current /\ Before(t, j) \in OnTheChain(t)
<1>1. t.current \in Nat
  BY SubStateTypes
<1>2. t.current \in OnTheChain(t)
  BY <1>1 DEF OnTheChain
<1>3. ASSUME NEW j \in OnTheChain(t) \ {0} PROVE j \in 1 .. t.current /\ Before(t, j) \in OnTheChain(t)
  <2>1. j \in 1 .. t.current
    BY <1>1 DEF OnTheChain
  <2>2. Before(t, j) \in 0 .. t.current
    BY <1>1, <2>1, BeforeLeads
  <2>3. ASSUME NEW S \in SUBSET (0 .. t.current), t.current \in S,
               \A k \in S \ {0} : Before(t, k) \in S
        PROVE  Before(t, j) \in S
    BY <1>3, <2>3 DEF OnTheChain
  <2> QED
    BY <2>1, <2>2, <2>3 DEF OnTheChain
<1> QED
  BY <1>1, <1>2, <1>3 DEF OnTheChain

\* Induction along the way back.
LEMMA ChainIsLeast ==
  ASSUME NEW t \in TxStates, TxInv(t), t.subState # <<>>, NEW S,
         t.current \in S,
         \A j \in (OnTheChain(t) \cap S) \ {0} : Before(t, j) \in S
  PROVE  OnTheChain(t) \subseteq S
<1> DEFINE T == OnTheChain(t) \cap S
<1>1. T \in SUBSET (0 .. t.current) /\ t.current \in T
  BY ChainIsClosed
<1>2. \A j \in T \ {0} : Before(t, j) \in T
  BY ChainIsClosed
<1>3. \A i \in OnTheChain(t) : i \in T
  BY <1>1, <1>2 DEF OnTheChain
<1> QED
  BY <1>3

LEMMA ChainEndsAtFirst ==
  ASSUME NEW t \in TxStates, TxInv(t), t.subState # <<>>
  PROVE  0 \in OnTheChain(t)
<1>1. OnTheChain(t) \in SUBSET Nat /\ OnTheChain(t) # {}
  BY ChainIsClosed
<1>2. PICK x \in OnTheChain(t) : \A y \in OnTheChain(t) : x <= y
  BY <1>1, LeastNumber
<1>3. CASE x # 0
  <2>1. x \in 1 .. t.current /\ Before(t, x) \in OnTheChain(t)
    BY <1>2, <1>3, ChainIsClosed
  <2>2. Before(t, x) \in 0 .. x - 1
    BY <2>1, BeforeLeads
  <2> QED
    BY <1>1, <1>2, <2>1, <2>2
<1> QED
  BY <1>2, <1>3

\* The way back meets no sub-state between one and the one before it.
LEMMA ChainIsLinear ==
  ASSUME NEW t \in TxStates, TxInv(t), t.subState # <<>>,
         NEW i \in OnTheChain(t) \ {0}, NEW m \in OnTheChain(t), m < i
  PROVE  m <= Before(t, i)
<1> DEFINE C == OnTheChain(t)
           Above(k) == \A l \in C : l > k => Before(t, l) >= k
           S == {k \in C : Above(k)}
<1>1. C \subseteq 0 .. t.current /\ t.current \in C /\ t.current \in Nat
  BY ChainIsClosed
<1>2. ASSUME NEW k \in C \ {0}, Above(k), NEW l \in C, l < k PROVE l <= Before(t, k)
  <2> DEFINE U == {j \in Nat : j >= k \/ j <= Before(t, k)}
  <2>1. /\ k \in 1 .. t.current
        /\ Before(t, k) \in 0 .. k - 1
    BY <1>2, ChainIsClosed, BeforeLeads
  <2>2. t.current \in U
    BY <1>1, <2>1
  <2>3. ASSUME NEW j \in (C \cap U) \ {0} PROVE Before(t, j) \in U
    <3>1. j \in 1 .. t.current /\ Before(t, j) \in 0 .. j - 1
      BY ChainIsClosed, BeforeLeads
    <3>2. CASE j > k
      BY <1>2, <2>1, <3>1, <3>2
    <3>3. CASE j = k
      BY <2>1, <3>3
    <3>4. CASE j <= Before(t, k)
      BY <2>1, <3>1, <3>4
    <3> QED
      BY <2>1, <2>3, <3>1, <3>2, <3>3, <3>4
  <2>4. C \subseteq U
    <3> HIDE DEF U
    <3> QED
      BY <2>2, <2>3, ChainIsLeast
  <2> QED
    BY <1>1, <1>2, <2>1, <2>4
<1>3. t.current \in S
  BY <1>1
<1>4. ASSUME NEW k \in (C \cap S) \ {0} PROVE Before(t, k) \in S
  <2>1. /\ k \in 1 .. t.current /\ Before(t, k) \in C
        /\ Before(t, k) \in 0 .. k - 1
    BY ChainIsClosed, BeforeLeads
  <2>2. ASSUME NEW l \in C, l > Before(t, k) PROVE Before(t, l) >= Before(t, k)
    <3>1. l \in 0 .. t.current
      BY <1>1
    <3>2. CASE l > k
      <4>1. l # 0
        BY <2>1, <3>1, <3>2
      <4>2. l \in 1 .. t.current /\ Before(t, l) \in 0 .. l - 1
        BY <4>1, ChainIsClosed, BeforeLeads
      <4> QED
        BY <1>4, <2>1, <3>2, <4>2
    <3>3. CASE l = k
      BY <2>1, <3>3
    <3>4. CASE l < k
      BY <1>2, <1>4, <2>1, <2>2, <3>1, <3>4
    <3> QED
      BY <2>1, <3>1, <3>2, <3>3, <3>4
  <2> QED
    BY <2>1, <2>2
<1>5. C \subseteq S
  <2> HIDE DEF S
  <2> QED
    BY <1>3, <1>4, ChainIsLeast
<1> QED
  BY <1>2, <1>5

-----------------------------------------------------------------------------
(* flush(): what is kept of a tx, and of a batch. *)

LEMMA TxRoots ==
  ASSUME NEW t \in TxStates, TxInv(t)
  PROVE  /\ t.subState # <<>> => t.new \in Roots /\ t.old \in Roots /\ t.new # NoRoot
         /\ t.new # NoRoot => t.new \in Roots /\ t.old \in Roots
         /\ t.subState = <<>> => t.new = t.old
<1>1. CASE t.subState = <<>>
  BY <1>1, SubStateTypes DEF TxInv, RootOrNone
<1>2. CASE t.subState # <<>>
  <2>1. 1 \in DOMAIN t.subState /\ Len(t.subState) \in DOMAIN t.subState
    BY <1>2, SubStateTypes
  <2> QED
    BY <1>2, <2>1, TreeAssumption DEF TxInv, Leads
<1> QED
  BY <1>1, <1>2

LEMMA TxIsConsistent ==
  ASSUME NEW t \in TxStates, TxInv(t)
  PROVE  IsConsistent(t)
<1> SUFFICES ASSUME t.subState # <<>>
             PROVE  /\ Sub(t, t.current).new = t.new
                    /\ \A i \in OnTheChain(t) \ {0} : Before(t, i) # i
                    /\ Sub(t, 0).old = t.old
  BY DEF IsConsistent
<1>1. t.current + 1 = Len(t.subState)
  BY SubStateTypes DEF TxInv, LastIsCurrent
<1>2. Sub(t, t.current).new = t.new /\ Sub(t, 0).old = t.old
  BY <1>1 DEF TxInv, Sub
<1>3. \A i \in OnTheChain(t) \ {0} : Before(t, i) # i
  <2> TAKE i \in OnTheChain(t) \ {0}
  <2>1. i \in 1 .. t.current /\ t.current \in Nat
    BY ChainIsClosed
  <2>2. Before(t, i) \in 0 .. i - 1
    BY <2>1, BeforeLeads
  <2> QED
    BY <2>1, <2>2
<1> QED
  BY <1>2, <1>3

\* The writes that are kept, and not deleted later, lead from the first tree of
\* the tx to its last: a node of the last tree that the first does not have was
\* written on the way back, and no sub-state after that one deletes it.
LEMMA WrittenLeads ==
  ASSUME NEW t \in TxStates, TxInv(t), t.subState # <<>>
  PROVE  NodesUnder(t.new) \subseteq NodesUnder(t.old) \cup Written(t)
<1> SUFFICES ASSUME NEW x \in NodesUnder(t.new), x \notin NodesUnder(t.old), x \notin Written(t)
             PROVE  FALSE
  OBVIOUS
<1> DEFINE C == OnTheChain(t)
           Deleted(i) == \E k \in Kept(t) : k > i /\ x \in Sub(t, k).dbDelete
           S == {i \in C : x \in NodesUnder(Sub(t, i).new) /\ ~Deleted(i)}
<1>1. C \subseteq 0 .. t.current /\ t.current \in C /\ t.current \in Nat /\ Kept(t) \subseteq C
  BY ChainIsClosed DEF Kept
<1>2. t.current + 1 = Len(t.subState)
  BY SubStateTypes DEF TxInv, LastIsCurrent
<1>3. \A i \in C : i \in 0 .. t.current /\ Leads(Sub(t, i))
  <2> TAKE i \in C
  <2>1. i \in 0 .. t.current
    BY <1>1
  <2>2. i + 1 \in DOMAIN t.subState
    BY <1>1, <1>2, <2>1, SubStateTypes
  <2> QED
    BY <2>1, <2>2 DEF TxInv, Sub
<1>4. t.current \in S
  <2>1. Sub(t, t.current).new = t.new
    BY <1>2 DEF TxInv, Sub
  <2>2. ~Deleted(t.current)
    BY <1>1
  <2> QED
    BY <1>1, <2>1, <2>2
<1>5. ASSUME NEW i \in S PROVE x \in NodesUnder(Sub(t, i).old)
  <2>1. CASE Sub(t, i).old = Sub(t, i).new
    BY <2>1
  <2>2. CASE Sub(t, i).old # Sub(t, i).new
    <3>1. i \in Kept(t)
      BY <2>2 DEF Kept
    <3>2. x \notin UNION {Sub(t, k).dbDelete : k \in {l \in Kept(t) : l > i}}
      OBVIOUS
    <3>3. x \notin Sub(t, i).dbWrite
      BY <3>1, <3>2 DEF Written
    <3> QED
      BY <1>3, <3>3 DEF Leads
  <2> QED
    BY <2>1, <2>2
<1>6. ASSUME NEW i \in (C \cap S) \ {0} PROVE Before(t, i) \in S
  <2>1. i \in 1 .. t.current /\ Before(t, i) \in C
    BY ChainIsClosed
  <2>2. Before(t, i) \in 0 .. i - 1 /\ Sub(t, Before(t, i)).new = Sub(t, i).old
    BY <2>1, BeforeLeads
  <2>3. ASSUME NEW k \in Kept(t), k > Before(t, i) PROVE x \notin Sub(t, k).dbDelete
    <3>1. k \in C /\ k \in 0 .. t.current
      BY <1>1
    <3>2. CASE k < i
      BY <2>1, <2>2, <2>3, <3>1, <3>2, ChainIsLinear
    <3>3. CASE k = i
      BY <1>3, <3>3 DEF Leads
    <3>4. CASE k > i
      BY <3>4
    <3> QED
      BY <2>1, <3>1, <3>2, <3>3, <3>4
  <2> QED
    BY <1>5, <2>1, <2>2, <2>3
<1>7. 0 \in S
  <2> HIDE DEF S
  <2> QED
    BY <1>4, <1>6, ChainIsLeast, ChainEndsAtFirst
<1>8. Sub(t, 0).old = t.old
  BY DEF TxInv, Sub
<1> QED
  BY <1>5, <1>7, <1>8

LEMMA MaxOfNumbers ==
  ASSUME NEW n \in Nat, NEW S \in SUBSET (1 .. n), S # {}
  PROVE  Max(S) \in S /\ \A i \in S : i <= Max(S)
<1> DEFINE D == {n - i : i \in S}
<1>1. D \in SUBSET Nat /\ D # {}
  <2>1. \A i \in S : n - i \in Nat
    OBVIOUS
  <2>2. PICK i \in S : TRUE
    OBVIOUS
  <2>3. n - i \in D
    OBVIOUS
  <2>4. D \subseteq Nat
    BY <2>1
  <2> QED
    BY <2>3, <2>4
<1>2. PICK d \in D : \A y \in D : d <= y
  BY <1>1, LeastNumber
<1>3. PICK m \in S : d = n - m
  BY <1>2
<1>4. \A i \in S : m >= i
  <2> TAKE i \in S
  <2>1. n - m <= n - i
    BY <1>2, <1>3
  <2> QED
    BY <2>1
<1>5. \E x \in S : \A y \in S : x >= y
  BY <1>4
<1>6. Max(S) \in S /\ \A i \in S : Max(S) >= i
  BY <1>5 DEF Max
<1> QED
  BY <1>6

LEMMA TxsAreSaved ==
  ASSUME NEW txs \in Seq(TxStates), \A k \in DOMAIN txs : TxInv(txs[k])
  PROVE  AllConsistent(txs) /\ Saved(txs) = {i \in DOMAIN txs : txs[i].subState # <<>>}
<1>1. DOMAIN txs = 1 .. Len(txs) /\ Len(txs) \in Nat /\ \A k \in DOMAIN txs : txs[k] \in TxStates
  OBVIOUS
<1>2. \A k \in DOMAIN txs : IsConsistent(txs[k])
  BY <1>1, TxIsConsistent
<1>3. \A i \in DOMAIN txs : \A j \in 1 .. i : j \in DOMAIN txs
  BY <1>1
<1> QED
  BY <1>1, <1>2, <1>3 DEF AllConsistent, Saved

\* What is saved of the txs, with the tree they began with, has the tree that
\* each of them ended in.
LEMMA SavedLeads ==
  ASSUME NEW txs \in Seq(TxStates), NEW base, TxsInv(txs, base),
         NEW before, NodesUnder(base) \subseteq before,
         NEW k \in DOMAIN txs, txs[k].new # NoRoot
  PROVE  NodesUnder(txs[k].new) \subseteq before \cup UNION {Written(txs[i]) : i \in Saved(txs)}
<1> DEFINE after == before \cup UNION {Written(txs[i]) : i \in Saved(txs)}
           Bad(i) == i \in DOMAIN txs /\ txs[i].new # NoRoot /\ ~ NodesUnder(txs[i].new) \subseteq after
           S == {i \in Nat : Bad(i)}
<1>1. DOMAIN txs = 1 .. Len(txs) /\ Len(txs) \in Nat /\ \A i \in DOMAIN txs : txs[i] \in TxStates
  OBVIOUS
<1>2. ASSUME S # {} PROVE FALSE
  <2>1. PICK i \in S : \A j \in S : i <= j
    BY <1>2, LeastNumber
  <2>2. i \in DOMAIN txs /\ TxInv(txs[i]) /\ LedTo(txs, i - 1, base, txs[i].old)
    BY <2>1 DEF TxsInv
  <2>3. NodesUnder(txs[i].old) \subseteq after
    <3>1. CASE txs[i].old = base
      BY <3>1
    <3>2. ASSUME NEW j \in DOMAIN txs, j <= i - 1, txs[j].new = txs[i].old, txs[i].old # NoRoot
          PROVE  NodesUnder(txs[i].old) \subseteq after
      <4>1. j \in Nat /\ i \in Nat /\ ~ i <= j
        BY <1>1, <3>2
      <4>2. ~ Bad(j)
        BY <2>1, <4>1
      <4> QED
        BY <3>2, <4>2
    <3> QED
      BY <2>2, <3>1, <3>2 DEF LedTo
  <2>4. CASE txs[i].subState = <<>>
    BY <1>1, <2>1, <2>2, <2>3, <2>4, TxRoots
  <2>5. CASE txs[i].subState # <<>>
    <3>1. i \in Saved(txs)
      BY <2>2, <2>5, TxsAreSaved DEF TxsInv
    <3>2. Written(txs[i]) \subseteq after
      BY <3>1
    <3>3. NodesUnder(txs[i].new) \subseteq NodesUnder(txs[i].old) \cup Written(txs[i])
      BY <1>1, <2>2, <2>5, WrittenLeads
    <3> QED
      BY <2>1, <2>3, <3>2, <3>3
  <2> QED
    BY <2>4, <2>5
<1>3. k \in Nat
  BY <1>1
<1> QED
  BY <1>2, <1>3

\* The last tx that is saved ended in the root that the last one ended in.
LEMMA LastSavedIsFinal ==
  ASSUME NEW txs \in Seq(TxStates), NEW base, TxsInv(txs, base), Saved(txs) # {},
         txs[Len(txs)].new # NoRoot
  PROVE  txs[Max(Saved(txs))].new = txs[Len(txs)].new
<1> DEFINE n == Len(txs)
           m == Max(Saved(txs))
           Bad(i) == i \in m .. n /\ txs[i].new \notin {NoRoot, txs[m].new}
           S == {i \in Nat : Bad(i)}
<1>1. DOMAIN txs = 1 .. n /\ n \in Nat /\ \A i \in DOMAIN txs : txs[i] \in TxStates
  OBVIOUS
<1>2. Saved(txs) = {i \in DOMAIN txs : txs[i].subState # <<>>}
  BY TxsAreSaved DEF TxsInv
<1>3. m \in Saved(txs) /\ \A i \in Saved(txs) : i <= m
  BY <1>1, <1>2, MaxOfNumbers
<1>4. m \in 1 .. n /\ txs[m].new # NoRoot
  BY <1>1, <1>2, <1>3, TxRoots DEF TxsInv
<1> HIDE DEF m
<1>5. ASSUME S # {} PROVE FALSE
  <2>1. PICK i \in S : \A j \in S : i <= j
    BY <1>5, LeastNumber
  <2>2. i \in DOMAIN txs /\ i > m
    BY <1>1, <1>4, <2>1
  <2>3. TxInv(txs[i]) /\ LedTo(txs, i - 1, base, txs[i].old)
    BY <2>1, <2>2 DEF TxsInv
  <2>4. txs[i].new = txs[i].old
    <3>1. i \notin Saved(txs)
      BY <1>1, <1>3, <1>4, <2>2
    <3> QED
      BY <1>1, <1>2, <2>2, <2>3, <3>1, TxRoots
  <2>5. PICK j \in DOMAIN txs : /\ j <= i - 1 /\ txs[j].new = txs[i].old
                                /\ \A l \in DOMAIN txs : l <= i - 1 /\ l > j => txs[l].new = NoRoot
    BY <1>1, <1>4, <2>2, <2>3 DEF LedTo
  <2>6. j >= m
    BY <1>1, <1>4, <2>2, <2>5
  <2>7. Bad(j)
    BY <1>1, <1>4, <2>1, <2>2, <2>4, <2>5, <2>6
  <2> QED
    BY <1>1, <2>1, <2>2, <2>5, <2>7
<1>6. n \in m .. n /\ n \in Nat
  BY <1>1, <1>4
<1>7. txs[n].new = txs[m].new
  BY <1>5, <1>6
<1> QED
  BY <1>7 DEF m

\* The txs that flush() does not drop.
EndsIn(txs, root) == \E k \in DOMAIN txs : txs[k].new = root

AreKept(all, base, root, txs) ==
  /\ txs \in Seq(TxStates) /\ TxsInv(txs, base)
  /\ EndsIn(all, root) => Len(txs) > 0 /\ txs[Len(txs)].new = root
  /\ ~ EndsIn(all, root) => txs = all

LEMMA UpToKeepsTxs ==
  ASSUME NEW s, s.txState \in Seq(TxStates), NEW base, TxsInv(s.txState, base), NEW root
  PROVE  AreKept(s.txState, base, root, TxsUpTo(s, root))
<1> DEFINE all == s.txState
           n == Len(all)
           ends == {i \in 1 .. n : all[i].new = root}
           txs == TxsUpTo(s, root)
<1>1. n \in Nat /\ DOMAIN all = 1 .. n
  OBVIOUS
<1>2. CASE ends = {}
  <2>1. txs = all
    BY <1>2 DEF TxsUpTo
  <2> HIDE DEF txs
  <2> QED
    BY <1>1, <1>2, <2>1 DEF txs, AreKept, EndsIn
<1>3. CASE ends # {}
  <2> DEFINE m == Max(ends)
  <2>1. m \in ends
    BY <1>1, <1>3, MaxOfNumbers
  <2>2. txs = SubSeq(all, 1, m)
    BY <1>3 DEF TxsUpTo
  <2> HIDE DEF m, txs
  <2>3. /\ txs \in Seq(TxStates) /\ Len(txs) = m /\ m \in 1 .. n /\ DOMAIN txs = 1 .. m
        /\ \A k \in 1 .. m : txs[k] = all[k]
    BY <1>1, <2>1, <2>2
  <2>4. TxsInv(txs, base)
    <3> SUFFICES ASSUME NEW k \in 1 .. m
                 PROVE  /\ TxInv(all[k])
                        /\ all[k].new # NoRoot => LedTo(txs, k - 1, base, all[k].old)
      BY <2>3 DEF TxsInv
    <3>1. k \in DOMAIN all
      BY <1>1, <2>3
    <3>2. TxInv(all[k]) /\ (all[k].new # NoRoot => LedTo(all, k - 1, base, all[k].old))
      BY <3>1 DEF TxsInv
    <3>3. \A j \in DOMAIN all : j <= k - 1 => j \in DOMAIN txs /\ txs[j] = all[j]
      BY <1>1, <2>3
    <3>4. \A j \in DOMAIN txs : j \in DOMAIN all /\ txs[j] = all[j]
      BY <1>1, <2>3
    <3> HIDE DEF all
    <3>5. LedTo(all, k - 1, base, all[k].old) => LedTo(txs, k - 1, base, all[k].old)
      BY <3>3, <3>4 DEF LedTo
    <3> QED
      BY <3>2, <3>5
  <2> QED
    BY <1>1, <1>3, <2>1, <2>3, <2>4 DEF txs, AreKept, EndsIn
<1> QED
  BY <1>2, <1>3

-----------------------------------------------------------------------------
(* A batch: its txs after a set, and after semiFlush(). *)

LEMMA LedToKept ==
  ASSUME NEW all, NEW txs, NEW n, NEW base, NEW root, LedTo(all, n, base, root),
         \A j \in DOMAIN all : j <= n => j \in DOMAIN txs /\ txs[j].new = all[j].new,
         \A j \in DOMAIN txs : j <= n =>
            (j \in DOMAIN all /\ txs[j].new = all[j].new) \/ txs[j].new = NoRoot
  PROVE  LedTo(txs, n, base, root)
<1>1. CASE root = base /\ \A j \in DOMAIN all : j <= n => all[j].new = NoRoot
  BY <1>1 DEF LedTo
<1>2. ASSUME NEW j \in DOMAIN all, j <= n, all[j].new = root, root # NoRoot,
             \A m \in DOMAIN all : m <= n /\ m > j => all[m].new = NoRoot
      PROVE  LedTo(txs, n, base, root)
  <2>1. j \in DOMAIN txs /\ txs[j].new = root
    BY <1>2
  <2>2. \A m \in DOMAIN txs : m <= n /\ m > j => txs[m].new = NoRoot
    BY <1>2
  <2> QED
    BY <1>2, <2>1, <2>2 DEF LedTo
<1> QED
  BY <1>1, <1>2 DEF LedTo

LEMMA NewTx ==
  /\ NewTxState \in TxStates /\ TxInv(NewTxState) /\ NewTxState.new = NoRoot
  /\ NewTxState.subState = <<>>
<1>1. <<>> \in Seq(SubStates) /\ DOMAIN <<>> = {}
  OBVIOUS
<1> QED
  BY <1>1 DEF NewTxState, TxStates, RootOrNone, TxInv, LastIsCurrent

\* made is what setStateRoot() makes of s: txs up to tx, the new ones empty.
IsMade(s, made, tx) ==
  /\ made \in BatchStates /\ made # NoBatch
  /\ made.currentTx = tx /\ Len(made.txState) = tx + 1 /\ made.pool = s.pool
  /\ \A k \in 1 .. tx + 1 :
       made.txState[k] = IF k \in DOMAIN s.txState THEN s.txState[k] ELSE NewTxState

LEMMA TxsAreMade ==
  ASSUME NEW s \in BatchStates, NEW tx \in 0 .. MaxTxs, Len(s.txState) <= tx + 1,
         s.txState # <<>> => s.currentTx = Len(s.txState) - 1
  PROVE  IsMade(s, WithTx(s, tx), tx)
<1> DEFINE txs == s.txState
           n == Len(txs)
           made == WithTx(s, tx)
<1>1. /\ txs \in Seq(TxStates) /\ n \in Nat /\ DOMAIN txs = 1 .. n /\ tx \in Nat /\ MaxTxs \in Nat
      /\ s.pool \in SUBSET Nodes /\ tx \in 0 .. MaxTxs + 1
  BY BoundsAssumption DEF BatchStates
<1>2. ASSUME made.txState # <<>> PROVE made # NoBatch
  BY <1>2 DEF NoBatch, NewBatchState
<1>3. CASE tx < n
  <2>1. made = s /\ n = tx + 1
    BY <1>1, <1>3 DEF WithTx
  <2>2. txs # <<>>
    BY <1>1, <2>1
  <2> HIDE DEF made
  <2> QED
    BY <1>1, <1>2, <2>1, <2>2 DEF IsMade, made
<1>4. CASE ~(tx < n)
  <2> DEFINE new == [i \in 1 .. tx + 1 - n |-> NewTxState]
             longer == txs \o new
  <2>1. made = [s EXCEPT !.currentTx = tx, !.txState = longer]
    BY <1>4 DEF WithTx
  <2>2. new \in Seq(TxStates) /\ Len(new) = tx + 1 - n /\ \A i \in 1 .. Len(new) : new[i] = NewTxState
    BY <1>1, <1>4, NewTx
  <2> HIDE DEF new
  <2>3. /\ longer \in Seq(TxStates) /\ Len(longer) = tx + 1
        /\ \A k \in 1 .. tx + 1 : longer[k] = IF k \in DOMAIN txs THEN txs[k] ELSE NewTxState
    <3>1. longer \in Seq(TxStates) /\ Len(longer) = tx + 1
      <4>1. longer \in Seq(TxStates) /\ Len(longer) = Len(txs) + Len(new)
        <5> HIDE DEF txs, n
        <5> QED
          BY ConcatProperties, <1>1, <2>2
      <4> HIDE DEF longer, txs
      <4> QED
        BY <1>1, <2>2, <4>1
    <3>2. \A k \in 1 .. tx + 1 : longer[k] = IF k <= n THEN txs[k] ELSE new[k - n]
      BY <1>1, <1>4, <2>2
    <3>3. ASSUME NEW k \in 1 .. tx + 1, k \notin DOMAIN txs PROVE ~(k <= n) /\ new[k - n] = NewTxState
      <4>1. k - n \in 1 .. Len(new) /\ ~(k <= n)
        BY <1>1, <2>2, <3>3
      <4> QED
        BY <2>2, <4>1
    <3>4. \A k \in DOMAIN txs : k <= n
      BY <1>1
    <3> HIDE DEF longer, n, txs
    <3> QED
      BY <3>1, <3>2, <3>3, <3>4
  <2> HIDE DEF longer, made
  <2>4. /\ made \in BatchStates /\ made.currentTx = tx /\ made.txState = longer
        /\ made.pool = s.pool
    BY <1>1, <2>1, <2>3 DEF BatchStates
  <2>5. longer # <<>>
    BY <1>1, <2>3
  <2> QED
    BY <1>2, <2>3, <2>4, <2>5 DEF IsMade, made
<1> QED
  BY <1>3, <1>4

LEMMA MadeKeepsTxs ==
  ASSUME NEW s \in BatchStates, NEW tx \in Nat, NEW made, IsMade(s, made, tx),
         Len(s.txState) <= tx + 1, NEW base, TxsInv(s.txState, base)
  PROVE  /\ TxsInv(made.txState, base)
         /\ \A n, root : LedTo(s.txState, n, base, root) => LedTo(made.txState, n, base, root)
<1> DEFINE all == s.txState
           txs == made.txState
<1>1. /\ all \in Seq(TxStates) /\ DOMAIN all = 1 .. Len(all) /\ Len(all) \in Nat
      /\ txs \in Seq(TxStates) /\ DOMAIN txs = 1 .. tx + 1
  BY DEF BatchStates, IsMade
<1>2. /\ \A j \in DOMAIN all : j \in DOMAIN txs /\ txs[j] = all[j]
      /\ \A j \in DOMAIN txs : (j \in DOMAIN all /\ txs[j] = all[j]) \/ txs[j] = NewTxState
  BY <1>1 DEF IsMade
<1> HIDE DEF all, txs
<1>3. \A n, root : LedTo(all, n, base, root) => LedTo(txs, n, base, root)
  <2> TAKE n, root
  <2> HAVE LedTo(all, n, base, root)
  <2> QED
    BY <1>2, LedToKept, NewTx
<1>4. TxsInv(txs, base)
  BY <1>2, <1>3, NewTx DEF TxsInv, all
<1> QED
  BY <1>3, <1>4 DEF all, txs

\* The last of the txs changes.
LEMMA LastTxChanges ==
  ASSUME NEW all \in Seq(TxStates), NEW base, TxsInv(all, base), all # <<>>,
         NEW txs \in Seq(TxStates), Len(txs) = Len(all),
         \A k \in 1 .. Len(all) - 1 : txs[k] = all[k],
         TxInv(txs[Len(all)]),
         txs[Len(all)].new # NoRoot => LedTo(all, Len(all) - 1, base, txs[Len(all)].old)
  PROVE  /\ TxsInv(txs, base)
         /\ \A n \in Int : \A root : n < Len(all) /\ LedTo(all, n, base, root) => LedTo(txs, n, base, root)
<1> DEFINE last == Len(all)
<1>1. /\ last \in Nat /\ last > 0 /\ DOMAIN all = 1 .. last /\ DOMAIN txs = 1 .. last
  OBVIOUS
<1>2. ASSUME NEW n \in Int, NEW root, n < last, LedTo(all, n, base, root) PROVE LedTo(txs, n, base, root)
  <2>1. \A j \in 1 .. last : j <= n => txs[j] = all[j]
    BY <1>1, <1>2
  <2> HIDE DEF last
  <2> QED
    BY <1>1, <1>2, <2>1, LedToKept
<1>3. ASSUME NEW k \in 1 .. last
      PROVE  TxInv(txs[k]) /\ (txs[k].new # NoRoot => LedTo(txs, k - 1, base, txs[k].old))
  <2> HIDE DEF last
  <2>1. CASE k = last
    BY <1>1, <1>2, <2>1
  <2>2. CASE k # last
    <3>1. k \in 1 .. last - 1 /\ k - 1 \in Int /\ k - 1 < last
      BY <1>1, <2>2
    <3>2. TxInv(all[k]) /\ (all[k].new # NoRoot => LedTo(all, k - 1, base, all[k].old))
      BY <1>1, <3>1 DEF TxsInv
    <3>3. txs[k] = all[k]
      BY <3>1 DEF last
    <3> QED
      BY <1>2, <3>1, <3>2, <3>3
  <2> QED
    BY <2>1, <2>2
<1> QED
  BY <1>1, <1>2, <1>3 DEF TxsInv

\* The tx that a set goes to.
TxOf(s, tx) == WithTx(s, tx).txState[tx + 1]

\* A set at root may come in the tx, and after is what it makes of the batch.
MaySet(s, tx, base, root, set) ==
  /\ s \in BatchStates /\ tx \in 0 .. MaxTxs /\ Len(s.txState) <= tx + 1
  /\ s.txState # <<>> => s.currentTx = Len(s.txState) - 1
  /\ TxsInv(s.txState, base)
  /\ root \in Roots /\ set \in SetsOf(root)
  /\ TxOf(s, tx).subState = <<>> => LedTo(s.txState, tx, base, root)
  /\ TxOf(s, tx).subState # <<>> =>
       root \in News(TxOf(s, tx)) \cap (Olds(TxOf(s, tx)) \cup {TxOf(s, tx).new})

HasSet(s, tx, base, root, set, after) ==
  /\ after \in BatchStates /\ after # NoBatch
  /\ after.currentTx = tx /\ Len(after.txState) = tx + 1
  /\ after.pool = s.pool \cup set.writes
  /\ \A k \in DOMAIN s.txState : k <= tx => after.txState[k] = s.txState[k]
  /\ TxOf(s, tx) \in TxStates
  /\ IsAfterSet(TxOf(s, tx), after.txState[tx + 1], root, set)
  /\ TxsInv(after.txState, base)
  /\ \A r : LedTo(s.txState, tx, base, r) => LedTo(after.txState, tx, base, r)

LEMMA SetInLastTx ==
  ASSUME NEW s, NEW tx, NEW base, NEW root, NEW set, MaySet(s, tx, base, root, set)
  PROVE  HasSet(s, tx, base, root, set, AfterSet(s, tx, root, set))
<1> DEFINE made == WithTx(s, tx)
           t == TxOf(s, tx)
           after == AfterSet(s, tx, root, set)
           done == EndSubState(Record(BeginSubState(t, root), set.writes, set.deletes), set.newRoot)
           txs == [made.txState EXCEPT ![tx + 1] = done]
<1>0. /\ s \in BatchStates /\ tx \in 0 .. MaxTxs /\ Len(s.txState) <= tx + 1
      /\ s.txState # <<>> => s.currentTx = Len(s.txState) - 1
      /\ TxsInv(s.txState, base)
      /\ root \in Roots /\ set \in SetsOf(root)
  BY DEF MaySet
<1>1. tx \in Nat /\ IsMade(s, made, tx)
  BY <1>0, TxsAreMade, BoundsAssumption
<1>2. /\ TxsInv(made.txState, base)
      /\ \A n, r : LedTo(s.txState, n, base, r) => LedTo(made.txState, n, base, r)
  BY <1>0, <1>1, MadeKeepsTxs
<1>t. t = made.txState[tx + 1]
  BY DEF TxOf
<1>u. /\ t.subState = <<>> => LedTo(s.txState, tx, base, root)
      /\ t.subState # <<>> => root \in News(t) \cap (Olds(t) \cup {t.new})
  BY DEF MaySet
<1> HIDE DEF made, t
<1>3. /\ made.txState \in Seq(TxStates) /\ Len(made.txState) = tx + 1
      /\ DOMAIN made.txState = 1 .. tx + 1 /\ tx + 1 \in 1 .. tx + 1 /\ made.txState # <<>>
      /\ made.pool \in SUBSET Nodes /\ made.currentTx \in 0 .. MaxTxs + 1
  BY <1>1 DEF IsMade, BatchStates
<1>4. t \in TxStates /\ TxInv(t)
  BY <1>2, <1>3, <1>t DEF TxsInv
<1>5. IsAfterSet(t, done, root, set) /\ TxInv(done) /\ done \in TxStates
  <2>1. IsAfterSet(t, done, root, set)
    BY <1>0, <1>4, SetsAreTaken
  <2> HIDE DEF done
  <2> QED
    BY <1>0, <1>4, <1>u, <2>1, SetKeepsTx DEF IsAfterSet
<1>6. after = [made EXCEPT !.txState[tx + 1] = done, !.pool = Pooled(@, set.writes)]
  BY <1>t DEF AfterSet, made
<1> HIDE DEF done, after
<1>7. after = [made EXCEPT !.txState = txs, !.pool = made.pool \cup set.writes]
  BY <1>6, Zenon DEF Pooled
<1>8. /\ txs \in Seq(TxStates) /\ Len(txs) = tx + 1 /\ txs[tx + 1] = done
      /\ \A k \in 1 .. tx : txs[k] = made.txState[k]
  BY <1>1, <1>3, <1>5
<1> HIDE DEF txs
<1>9. /\ after \in BatchStates /\ after.currentTx = tx /\ after.txState = txs
      /\ after.pool = s.pool \cup set.writes
  <2>1. made \in BatchStates /\ made.currentTx = tx /\ made.pool = s.pool
    BY <1>1 DEF IsMade
  <2>2. made.pool \cup set.writes \in SUBSET Nodes
    BY <1>0, <1>3, SetTypes
  <2> QED
    BY <1>7, <1>8, <2>1, <2>2 DEF BatchStates
<1>10. after # NoBatch
  <2>1. txs # <<>>
    BY <1>1, <1>8
  <2> QED
    BY <1>9, <2>1 DEF NoBatch, NewBatchState
<1>11. \A k \in DOMAIN s.txState : k <= tx => txs[k] = s.txState[k]
  <2> TAKE k \in DOMAIN s.txState
  <2>1. k \in 1 .. Len(s.txState)
    BY <1>0 DEF BatchStates
  <2> HAVE k <= tx
  <2>2. k \in 1 .. tx /\ k \in 1 .. tx + 1
    BY <1>1, <2>1
  <2> QED
    BY <1>1, <1>8, <2>2 DEF IsMade
<1>12. LedTo(made.txState, tx, base, done.old)
  <2>1. CASE t.subState = <<>>
    BY <1>2, <1>5, <1>u, <2>1 DEF IsAfterSet
  <2>2. CASE t.subState # <<>>
    <3>1. t.new # NoRoot /\ done.old = t.old
      BY <1>4, <1>5, <2>2, TxRoots DEF IsAfterSet
    <3>2. LedTo(made.txState, (tx + 1) - 1, base, t.old)
      BY <1>2, <1>3, <1>t, <3>1 DEF TxsInv
    <3> QED
      BY <1>1, <3>1, <3>2
  <2> QED
    BY <2>1, <2>2
<1>13. /\ TxsInv(txs, base)
       /\ \A r : LedTo(made.txState, tx, base, r) => LedTo(txs, tx, base, r)
  <2>1. (tx + 1) - 1 = tx /\ tx \in Int /\ tx < tx + 1
    BY <1>1
  <2>2. \A k \in 1 .. (tx + 1) - 1 : txs[k] = made.txState[k]
    BY <1>8, <2>1
  <2> QED
    BY <1>2, <1>3, <1>5, <1>8, <1>12, <2>1, <2>2, LastTxChanges
<1> QED
  BY <1>2, <1>4, <1>5, <1>8, <1>9, <1>10, <1>11, <1>13 DEF t, after, HasSet

\* The last tx may be settled at root, and after is what becomes of the batch.
MaySettle(s, base, root) ==
  /\ s \in BatchStates /\ s # NoBatch /\ s.txState # <<>>
  /\ s.currentTx = Len(s.txState) - 1
  /\ TxsInv(s.txState, base) /\ root \in Roots

HasSettled(s, base, root, after) ==
  LET n == Len(s.txState) IN
  /\ after \in BatchStates /\ after # NoBatch
  /\ after.currentTx = s.currentTx /\ after.pool = s.pool
  /\ after.txState \in Seq(TxStates) /\ Len(after.txState) = n
  /\ \A k \in 1 .. n - 1 : after.txState[k] = s.txState[k]
  /\ after.txState[n] = Settled(s.txState[n], root)
  /\ TxsInv(after.txState, base)

LEMMA SemiFlushSettles ==
  ASSUME NEW s, NEW base, NEW root, MaySettle(s, base, root)
  PROVE  HasSettled(s, base, root, AfterSemiFlush(s, root))
<1> DEFINE n == Len(s.txState)
           after == AfterSemiFlush(s, root)
           d == Settled(s.txState[n], root)
           txs == [s.txState EXCEPT ![n] = d]
<1>0. /\ s \in BatchStates /\ s # NoBatch /\ s.txState # <<>>
      /\ s.currentTx = Len(s.txState) - 1
      /\ TxsInv(s.txState, base) /\ root \in Roots
  BY DEF MaySettle
<1>1. /\ s.txState \in Seq(TxStates) /\ n \in Nat /\ n > 0 /\ n \in DOMAIN s.txState
      /\ s.currentTx + 1 = n /\ s.currentTx \in 0 .. MaxTxs + 1 /\ s.pool \in SUBSET Nodes
      /\ s.txState[n] \in TxStates
  BY <1>0, BoundsAssumption DEF BatchStates
<1>2. ~ (s.currentTx >= Len(s.txState))
  BY <1>1
<1>3. after = [s EXCEPT !.txState[s.currentTx + 1] = Settled(@, root)]
  BY <1>0, <1>2 DEF AfterSemiFlush
<1>4. after = [s EXCEPT !.txState = txs]
  BY <1>1, <1>3, Zenon
<1> HIDE DEF after
<1>5. TxInv(s.txState[n]) /\ (s.txState[n].new # NoRoot => LedTo(s.txState, n - 1, base, s.txState[n].old))
  BY <1>0, <1>1 DEF TxsInv
<1>6. /\ d \in TxStates /\ TxInv(d) /\ d.old = s.txState[n].old
      /\ d.new # NoRoot => s.txState[n].new # NoRoot
  BY <1>0, <1>1, <1>5, SettledKeepsTx
<1> HIDE DEF d
<1>7. /\ txs \in Seq(TxStates) /\ Len(txs) = n /\ txs[n] = d
      /\ \A k \in 1 .. n - 1 : txs[k] = s.txState[k]
  BY <1>1, <1>6
<1> HIDE DEF txs
<1>8. /\ after \in BatchStates /\ after.currentTx = s.currentTx /\ after.pool = s.pool
      /\ after.txState = txs
  BY <1>0, <1>4, <1>7 DEF BatchStates
<1>9. after # NoBatch
  <2>1. txs # <<>>
    BY <1>1, <1>7
  <2> QED
    BY <1>8, <2>1 DEF NoBatch, NewBatchState
<1>10. TxsInv(txs, base)
  BY <1>0, <1>1, <1>5, <1>6, <1>7, LastTxChanges
<1> QED
  BY <1>7, <1>8, <1>9, <1>10 DEF d, after, HasSettled

-----------------------------------------------------------------------------
(* The steps of a batch, in what is kept of it: s, r and d are its state, its *)
(* registers and the database.                                               *)

IsRun(r, phase, tx, root, oldRoot, batchSR, originSR, initSR) ==
  /\ r \in Runs /\ r.phase = phase /\ r.tx = tx /\ r.root = root /\ r.oldRoot = oldRoot
  /\ r.batchSR = batchSR /\ r.originSR = originSR /\ r.initSR = initSR

LEMMA BatchTypes ==
  ASSUME NEW s, NEW r, NEW d, BatchOK(s, r, d)
  PROVE  /\ s \in BatchStates /\ s.txState \in Seq(TxStates) /\ Len(s.txState) \in Nat
         /\ DOMAIN s.txState = 1 .. Len(s.txState)
         /\ \A k \in DOMAIN s.txState : s.txState[k] \in TxStates
         /\ s.currentTx \in 0 .. MaxTxs + 1 /\ s.pool \in SUBSET Nodes
         /\ r \in Runs /\ r.phase \in Phases /\ r.tx \in 0 .. MaxTxs /\ r.tx \in Nat
         /\ r.root \in RootOrNone /\ r.oldRoot \in RootOrNone /\ r.batchSR \in RootOrNone
         /\ r.originSR \in RootOrNone /\ r.initSR \in Seq(Roots)
         /\ DOMAIN r.initSR = 1 .. Len(r.initSR) /\ Len(r.initSR) \in Nat
         /\ \A p \in DOMAIN r.initSR : r.initSR[p] \in Roots
         /\ MaxTxs \in Nat /\ MaxSets \in Nat /\ MaxCalls \in Nat /\ NoRoot \notin Roots
<1>1. MaxTxs \in Nat /\ MaxSets \in Nat /\ MaxCalls \in Nat /\ NoRoot \notin Roots
  BY BoundsAssumption, TreeAssumption
<1>2. s \in BatchStates /\ r \in Runs
  BY DEF BatchOK
<1>3. s.txState \in Seq(TxStates) /\ s.currentTx \in 0 .. MaxTxs + 1 /\ s.pool \in SUBSET Nodes
  BY <1>2 DEF BatchStates
<1>4. /\ r.phase \in Phases /\ r.tx \in 0 .. MaxTxs
      /\ r.root \in RootOrNone /\ r.oldRoot \in RootOrNone /\ r.batchSR \in RootOrNone
      /\ r.originSR \in RootOrNone /\ r.initSR \in Seq(Roots)
  BY <1>2 DEF Runs
<1> QED
  BY <1>1, <1>2, <1>3, <1>4

\* The trees that a batch finds.
LEMMA BatchTrees ==
  ASSUME NEW s, NEW r, NEW d, BatchOK(s, r, d), r.phase \in Active
  PROVE  /\ NodesUnder(r.root) \subseteq s.pool \cup d
         /\ NodesUnder(r.batchSR) \subseteq s.pool \cup d
         /\ NodesUnder(r.oldRoot) \subseteq d
         /\ r.originSR \in Roots => NodesUnder(r.originSR) \subseteq s.pool \cup d
         /\ \A p \in DOMAIN r.initSR : NodesUnder(r.initSR[p]) \subseteq s.pool \cup d
<1>1. r.root \in Roots /\ r.batchSR \in Roots /\ NoRoot \notin Roots
  BY BatchTypes DEF BatchOK, BatchInv, ActiveInv
<1>2. r.phase \notin {"idle", "done", "failed"}
  BY DEF Active
<1>3. LiveRoots(r) = ({r.root, r.batchSR, r.originSR} \ {NoRoot}) \cup ToSet(r.initSR)
  BY <1>2 DEF LiveRoots
<1>4. /\ r.root \in LiveRoots(r) /\ r.batchSR \in LiveRoots(r)
      /\ r.originSR \in Roots => r.originSR \in LiveRoots(r)
      /\ \A p \in DOMAIN r.initSR : r.initSR[p] \in LiveRoots(r)
  BY <1>1, <1>3 DEF ToSet
<1> QED
  BY <1>4 DEF BatchOK, TreesInv

LEMMA TreesAreKept ==
  ASSUME NEW s, NEW r, NEW d, r.phase \in Active,
         NodesUnder(r.root) \subseteq s.pool \cup d,
         NodesUnder(r.batchSR) \subseteq s.pool \cup d,
         NodesUnder(r.oldRoot) \subseteq d,
         r.originSR # NoRoot => NodesUnder(r.originSR) \subseteq s.pool \cup d,
         \A p \in DOMAIN r.initSR : NodesUnder(r.initSR[p]) \subseteq s.pool \cup d
  PROVE  TreesInv(s, r, d)
BY DEF TreesInv, LiveRoots, ToSet, Active

\* The state that a batch gets from getState(): a new one at its first set.
LEMMA ManagedState ==
  ASSUME NEW s, NEW r, NEW d, BatchOK(s, r, d), r.phase \in Active,
         NEW m, m = IF s = NoBatch THEN NewBatchState ELSE s
  PROVE  /\ m \in BatchStates /\ m.txState = s.txState /\ m.pool = s.pool
         /\ m.txState # <<>> => m.currentTx = Len(m.txState) - 1
<1>1. CASE s = NoBatch
  <2>1. s.txState = <<>> /\ s.pool = {}
    BY <1>1 DEF BatchOK, BatchInv, ActiveInv
  <2>2. <<>> \in Seq(TxStates) /\ MaxTxs \in Nat
    BY BoundsAssumption
  <2> QED
    BY <1>1, <2>1, <2>2 DEF NewBatchState, BatchStates
<1>2. CASE s # NoBatch
  BY <1>2, BatchTypes DEF BatchOK, BatchInv, ActiveInv
<1> QED
  BY <1>1, <1>2

\* The tx that runs, made before its first set.
LEMMA OwnTx ==
  ASSUME NEW s, NEW r, NEW d, BatchOK(s, r, d), r.phase \in Running,
         NEW t, t = IF r.tx + 1 \in DOMAIN s.txState THEN s.txState[r.tx + 1] ELSE NewTxState
  PROVE  OwnInv(t, r)
<1>1. Len(s.txState) <= r.tx + 1
  BY DEF BatchOK, BatchInv, ActiveInv, RunningInv, Active, Running
<1>2. CASE r.tx + 1 \in DOMAIN s.txState
  <2>1. Len(s.txState) = r.tx + 1
    BY <1>1, <1>2, BatchTypes
  <2> QED
    BY <1>2, <2>1 DEF BatchOK, BatchInv, RunningInv
<1>3. CASE r.tx + 1 \notin DOMAIN s.txState
  <2>1. Len(s.txState) <= r.tx
    BY <1>1, <1>3, BatchTypes
  <2>2. r.root = r.originSR /\ r.phase = "intrinsic"
    BY <2>1 DEF BatchOK, BatchInv, RunningInv
  <2> QED
    BY <1>3, <2>2 DEF OwnInv
<1> QED
  BY <1>2, <1>3

LEMMA SetInTx ==
  ASSUME NEW s, NEW r, NEW d, BatchOK(s, r, d), r.phase \in Running,
         NEW m, m = IF s = NoBatch THEN NewBatchState ELSE s,
         NEW set \in SetsOf(r.root),
         NEW after, after = AfterSet(m, r.tx, r.root, set)
  PROVE  LET last == after.txState[r.tx + 1] IN
         /\ after \in BatchStates /\ after # NoBatch
         /\ after.currentTx = r.tx /\ Len(after.txState) = r.tx + 1
         /\ after.pool = s.pool \cup set.writes
         /\ \A k \in DOMAIN s.txState : k <= r.tx => after.txState[k] = s.txState[k]
         /\ TxsInv(after.txState, r.oldRoot)
         /\ \A root : LedTo(s.txState, r.tx, r.oldRoot, root) =>
                      LedTo(after.txState, r.tx, r.oldRoot, root)
         /\ last.new = set.newRoot /\ last.subState # <<>> /\ last.old = r.originSR
         /\ RootInv(last, set.newRoot, r.initSR)
<1> DEFINE txs == s.txState
           made == WithTx(m, r.tx)
           t == TxOf(m, r.tx)
           last == after.txState[r.tx + 1]
<1>1. /\ m \in BatchStates /\ m.txState = txs /\ m.pool = s.pool
      /\ m.txState # <<>> => m.currentTx = Len(m.txState) - 1
  BY ManagedState DEF Active, Running
<1>2. /\ r.root \in Roots /\ Len(txs) <= r.tx + 1 /\ TxsInv(txs, r.oldRoot)
      /\ LedTo(txs, r.tx, r.oldRoot, r.originSR)
      /\ r.phase = "running" <=> r.initSR # <<>>
  BY DEF BatchOK, BatchInv, ActiveInv, RunningInv, Active, Running
<1>3. IsMade(m, made, r.tx)
  BY <1>1, <1>2, BatchTypes, TxsAreMade
<1>4. t = IF r.tx + 1 \in DOMAIN txs THEN txs[r.tx + 1] ELSE NewTxState
  <2>1. r.tx \in Nat
    BY BatchTypes
  <2>2. r.tx + 1 \in 1 .. r.tx + 1
    BY <2>1
  <2>3. t = made.txState[r.tx + 1]
    BY DEF TxOf
  <2> HIDE DEF t, made
  <2> QED
    BY <1>1, <1>3, <2>2, <2>3 DEF IsMade
<1>5. OwnInv(t, r)
  BY <1>4, OwnTx
<1> HIDE DEF made, t
<1>6. /\ t.subState = <<>> => LedTo(txs, r.tx, r.oldRoot, r.root)
      /\ t.subState # <<>> => r.root \in News(t) \cap (Olds(t) \cup {t.new})
      /\ RootInv(t, r.root, r.initSR) \/ r.initSR = <<>>
  <2>1. CASE t = NewTxState /\ r.root = r.originSR /\ r.phase = "intrinsic"
    BY <1>2, <2>1, NewTx
  <2>2. CASE t.subState # <<>> /\ RootInv(t, r.root, r.initSR)
    BY <2>2 DEF RootInv
  <2> QED
    BY <1>5, <2>1, <2>2 DEF OwnInv
<1>7. /\ after \in BatchStates /\ after # NoBatch
      /\ after.currentTx = r.tx /\ Len(after.txState) = r.tx + 1
      /\ after.pool = s.pool \cup set.writes
      /\ \A k \in DOMAIN txs : k <= r.tx => after.txState[k] = txs[k]
      /\ t \in TxStates /\ IsAfterSet(t, last, r.root, set)
      /\ TxsInv(after.txState, r.oldRoot)
      /\ \A root : LedTo(txs, r.tx, r.oldRoot, root) =>
                   LedTo(after.txState, r.tx, r.oldRoot, root)
  <2>1. MaySet(m, r.tx, r.oldRoot, r.root, set)
    BY <1>1, <1>2, <1>6, BatchTypes DEF MaySet, t
  <2>2. HasSet(m, r.tx, r.oldRoot, r.root, set, after)
    BY <2>1, SetInLastTx
  <2> QED
    BY <1>1, <2>2 DEF HasSet, t
<1> HIDE DEF last
<1>8. last.new = set.newRoot /\ last.subState # <<>> /\ last.old = r.originSR
  <2>1. last.new = set.newRoot /\ last.subState # <<>>
    BY <1>7, SubStateTypes DEF IsAfterSet
  <2>2. t.subState = <<>> => r.root = r.originSR
    BY <1>5 DEF OwnInv
  <2>3. t.subState # <<>> => t.old = r.originSR
    BY <1>5, NewTx DEF OwnInv
  <2> QED
    BY <1>7, <2>1, <2>2, <2>3 DEF IsAfterSet
<1>9. RootInv(last, set.newRoot, r.initSR)
  BY <1>6, <1>7, BatchTypes, SetKeepsRoots
<1> QED
  BY <1>7, <1>8, <1>9 DEF last

LEMMA StartKeeps ==
  ASSUME NEW s, NEW r, NEW d, BatchOK(s, r, d), r.phase = "idle",
         NEW root \in Roots, NodesUnder(root) \subseteq d,
         NEW r2, IsRun(r2, "start", r.tx, root, root, root, r.originSR, r.initSR)
  PROVE  BatchOK(s, r2, d)
<1>1. s = NoBatch /\ r.tx = 0 /\ r.originSR = NoRoot /\ r.initSR = <<>>
  BY DEF BatchOK, BatchInv, ActiveInv, RunningInv, Active, Running
<1>2. /\ r2 \in Runs /\ r2.phase = "start" /\ r2.root = root /\ r2.oldRoot = root
      /\ r2.batchSR = root /\ r2.tx = 0 /\ r2.originSR = NoRoot /\ r2.initSR = <<>>
  BY <1>1 DEF IsRun
<1>3. s.txState = <<>> /\ s.pool = {} /\ Len(s.txState) = 0 /\ DOMAIN s.txState = {}
  BY <1>1 DEF NoBatch, NewBatchState
<1>4. TreesInv(s, r2, d)
  <2>1. DOMAIN r2.initSR = {} /\ r2.phase \in Active
    BY <1>2 DEF Active
  <2> QED
    BY <1>2, <1>3, <2>1, TreesAreKept
<1>5. BatchInv(s, r2)
  BY <1>1, <1>2, <1>3, BatchTypes DEF BatchInv, ActiveInv, TxsInv, Active, Running
<1> QED
  BY <1>2, <1>4, <1>5 DEF BatchOK

LEMMA ExitRootKeeps ==
  ASSUME NEW s, NEW r, NEW d, BatchOK(s, r, d), r.phase = "start",
         NEW m, m = IF s = NoBatch THEN NewBatchState ELSE s,
         NEW set \in SetsOf(r.root),
         NEW after, after = AfterSet(m, r.tx, r.root, set),
         NEW r2, IsRun(r2, "loop", r.tx, set.newRoot, r.oldRoot, set.newRoot, r.originSR, r.initSR)
  PROVE  BatchOK(after, r2, d)
<1>1. /\ r.tx = 0 /\ s.txState = <<>> /\ r.root = r.oldRoot /\ r.root \in Roots
      /\ r.originSR = NoRoot /\ r.initSR = <<>> /\ r.phase \in Active
      /\ TxsInv(s.txState, r.oldRoot)
  BY DEF BatchOK, BatchInv, ActiveInv, RunningInv, Active, Running
<1>2. m \in BatchStates /\ m.txState = s.txState /\ m.pool = s.pool
  BY <1>1, ManagedState
<1>3. LedTo(s.txState, r.tx, r.oldRoot, r.root)
  BY <1>1 DEF LedTo
<1> DEFINE t == TxOf(m, r.tx)
<1>4. t.subState = <<>>
  <2>1. IsMade(m, WithTx(m, r.tx), r.tx)
    BY <1>1, <1>2, BatchTypes, TxsAreMade
  <2>2. t = NewTxState
    <3>1. t = WithTx(m, r.tx).txState[r.tx + 1]
      BY DEF TxOf
    <3> HIDE DEF t
    <3> QED
      BY <1>1, <1>2, <2>1, <3>1 DEF IsMade
  <2> QED
    BY <2>2, NewTx
<1> HIDE DEF t
<1>5. /\ after \in BatchStates /\ after # NoBatch
      /\ after.currentTx = 0 /\ Len(after.txState) = 1
      /\ after.pool = s.pool \cup set.writes
      /\ IsAfterSet(t, after.txState[1], r.root, set)
      /\ TxsInv(after.txState, r.oldRoot)
  <2>1. MaySet(m, r.tx, r.oldRoot, r.root, set)
    BY <1>1, <1>2, <1>3, <1>4, BatchTypes DEF MaySet, t
  <2>2. HasSet(m, r.tx, r.oldRoot, r.root, set, after)
    BY <2>1, SetInLastTx
  <2> QED
    BY <1>1, <1>2, <2>2 DEF HasSet, t
<1>6. /\ r2 \in Runs /\ r2.phase = "loop" /\ r2.root = set.newRoot /\ r2.oldRoot = r.oldRoot
      /\ r2.batchSR = set.newRoot /\ r2.tx = 0 /\ r2.originSR = NoRoot /\ r2.initSR = <<>>
  BY <1>1 DEF IsRun
<1>7. /\ DOMAIN after.txState = {1} /\ after.txState # <<>> /\ after.txState[1].new = set.newRoot
      /\ set.newRoot \in Roots /\ set.newRoot # NoRoot
  <2>1. after.txState \in Seq(TxStates) /\ Len(after.txState) = 1
    BY <1>5 DEF BatchStates
  <2>2. DOMAIN after.txState = {1}
    <3>1. DOMAIN after.txState = 1 .. 1
      BY <2>1
    <3> QED
      BY <3>1
  <2>3. after.txState # <<>>
    <3>1. Len(<<>>) # 1
      OBVIOUS
    <3> QED
      BY <2>1, <3>1, Zenon
  <2>4. after.txState[1].new = set.newRoot
    BY <1>5 DEF IsAfterSet
  <2> QED
    BY <1>1, <2>2, <2>3, <2>4, SetTypes
<1>8. LedTo(after.txState, 1, r.oldRoot, set.newRoot)
  BY <1>7 DEF LedTo
<1>9. TreesInv(after, r2, d)
  <2>1. NodesUnder(set.newRoot) \subseteq NodesUnder(r.root) \cup set.writes
    BY <1>1, SetTypes
  <2>2. NodesUnder(r.oldRoot) \subseteq d
    BY <1>1, BatchTrees
  <2>3. DOMAIN r2.initSR = {} /\ r2.phase \in Active
    BY <1>6 DEF Active
  <2> QED
    BY <1>1, <1>5, <1>6, <2>1, <2>2, <2>3, TreesAreKept
<1>10. BatchInv(after, r2)
  <2>1. r.oldRoot \in Roots /\ MaxCalls \in Nat /\ Len(r2.initSR) = 0
    BY <1>1, <1>6, BatchTypes
  <2>2. r2.phase \in Active /\ r2.phase \notin Running
    BY <1>6 DEF Active, Running
  <2>3. LedTo(after.txState, r2.tx + 1, r2.oldRoot, r2.root)
    BY <1>6, <1>8
  <2>4. after.currentTx = Len(after.txState) - 1 /\ Len(after.txState) <= r2.tx + 1
    <3>1. after.currentTx = 0 /\ Len(after.txState) = 1 /\ r2.tx = 0
      BY <1>5, <1>6
    <3>2. 0 = 1 - 1 /\ 1 <= 0 + 1
      OBVIOUS
    <3> QED
      BY <3>1, <3>2, Zenon
  <2>5. Len(r2.initSR) <= MaxCalls + 1
    BY <2>1
  <2> QED
    BY <1>5, <1>6, <1>7, <2>1, <2>2, <2>3, <2>4, <2>5 DEF BatchInv, ActiveInv
<1> QED
  BY <1>5, <1>6, <1>9, <1>10 DEF BatchOK

LEMMA ActiveBatch ==
  ASSUME NEW s, NEW r, NEW d, BatchOK(s, r, d), r.phase \in Active
  PROVE  /\ ActiveInv(s, r)
         /\ r.phase \in Running => RunningInv(s, r)
         /\ r.phase \notin Running => r.originSR = NoRoot
         /\ r.phase = "running" <=> r.initSR # <<>>
         /\ Len(r.initSR) <= MaxCalls + 1
BY DEF BatchOK, BatchInv

\* What is to show of a batch after a step outside of a tx, and in one.
LEMMA OutsideTx ==
  ASSUME NEW s \in BatchStates, NEW r \in Runs, NEW d, r.phase \in {"loop", "ended"},
         ActiveInv(s, r), r.originSR = NoRoot, r.initSR = <<>>,
         r.phase = "loop" => LedTo(s.txState, r.tx + 1, r.oldRoot, r.root),
         r.phase = "ended" => EndedInv(s, r),
         NodesUnder(r.root) \subseteq s.pool \cup d,
         NodesUnder(r.batchSR) \subseteq s.pool \cup d,
         NodesUnder(r.oldRoot) \subseteq d
  PROVE  BatchOK(s, r, d)
<1>1. r.phase \in Active /\ r.phase \notin Running
  BY DEF Active, Running
<1>2. DOMAIN r.initSR = {} /\ Len(r.initSR) = 0 /\ Len(r.initSR) <= MaxCalls + 1
  BY BoundsAssumption
<1>3. TreesInv(s, r, d)
  BY <1>1, <1>2, TreesAreKept
<1>4. BatchInv(s, r)
  BY <1>1, <1>2 DEF BatchInv
<1> QED
  BY <1>3, <1>4 DEF BatchOK

LEMMA InTheTx ==
  ASSUME NEW s \in BatchStates, NEW r \in Runs, NEW d, r.phase \in Running,
         ActiveInv(s, r), RunningInv(s, r),
         r.phase = "running" <=> r.initSR # <<>>, Len(r.initSR) <= MaxCalls + 1,
         NodesUnder(r.root) \subseteq s.pool \cup d,
         NodesUnder(r.batchSR) \subseteq s.pool \cup d,
         NodesUnder(r.oldRoot) \subseteq d,
         NodesUnder(r.originSR) \subseteq s.pool \cup d,
         \A p \in DOMAIN r.initSR : NodesUnder(r.initSR[p]) \subseteq s.pool \cup d
  PROVE  BatchOK(s, r, d)
<1>1. r.phase \in Active
  BY DEF Active, Running
<1>2. TreesInv(s, r, d)
  BY <1>1, TreesAreKept
<1>3. BatchInv(s, r)
  BY <1>1 DEF BatchInv, Running
<1> QED
  BY <1>2, <1>3 DEF BatchOK

LEMMA SkipKeeps ==
  ASSUME NEW s, NEW r, NEW d, BatchOK(s, r, d), r.phase = "start",
         NEW r2, IsRun(r2, "loop", r.tx, r.root, r.oldRoot, r.batchSR, r.originSR, r.initSR)
  PROVE  BatchOK(s, r2, d)
<1>1. /\ r.phase \in Active /\ r.phase \notin Running /\ r.tx = 0 /\ s.txState = <<>>
      /\ r.root = r.oldRoot /\ r.initSR = <<>>
  BY DEF BatchOK, BatchInv, Active, Running
<1>2. /\ r2 \in Runs /\ r2.phase = "loop" /\ r2.root = r.root /\ r2.oldRoot = r.oldRoot
      /\ r2.batchSR = r.batchSR /\ r2.tx = r.tx /\ r2.originSR = r.originSR /\ r2.initSR = <<>>
  BY <1>1 DEF IsRun
<1>3. ActiveInv(s, r2)
  BY <1>1, <1>2, ActiveBatch DEF ActiveInv
<1>4. LedTo(s.txState, r2.tx + 1, r2.oldRoot, r2.root)
  BY <1>1, <1>2 DEF LedTo
<1> QED
  BY <1>1, <1>2, <1>3, <1>4, ActiveBatch, BatchTypes, BatchTrees, OutsideTx

LEMMA ProcessKeeps ==
  ASSUME NEW s, NEW r, NEW d, BatchOK(s, r, d), r.phase = "loop",
         NEW r2, IsRun(r2, "intrinsic", r.tx + 1, r.root, r.oldRoot, r.batchSR, r.root, r.initSR)
  PROVE  BatchOK(s, r2, d)
<1>1. /\ r.phase \in Active /\ r.phase \notin Running /\ r.initSR = <<>>
      /\ LedTo(s.txState, r.tx + 1, r.oldRoot, r.root)
  BY DEF BatchOK, BatchInv, Active, Running
<1>2. /\ r2 \in Runs /\ r2.phase = "intrinsic" /\ r2.root = r.root /\ r2.oldRoot = r.oldRoot
      /\ r2.batchSR = r.batchSR /\ r2.tx = r.tx + 1 /\ r2.originSR = r.root /\ r2.initSR = <<>>
  BY <1>1 DEF IsRun
<1>3. ActiveInv(s, r)
  BY <1>1, ActiveBatch
<1>4. Len(s.txState) <= r.tx + 1 /\ r.tx \in Nat /\ Len(s.txState) \in Nat /\ r.root \in Roots
  BY <1>3, BatchTypes DEF ActiveInv
<1>5. ActiveInv(s, r2)
  <2>1. Len(s.txState) <= r2.tx + 1
    BY <1>2, <1>4
  <2> QED
    BY <1>2, <1>3, <2>1 DEF ActiveInv
<1>6. RunningInv(s, r2)
  <2>1. Len(s.txState) # r2.tx + 1 /\ r2.tx > 0
    BY <1>2, <1>4
  <2> QED
    BY <1>1, <1>2, <1>4, <2>1 DEF RunningInv
<1>7. r2.phase \in Running /\ DOMAIN r2.initSR = {} /\ Len(r2.initSR) <= MaxCalls + 1
  BY <1>2, BoundsAssumption DEF Running
<1> QED
  BY <1>1, <1>2, <1>5, <1>6, <1>7, BatchTypes, BatchTrees, InTheTx

\* What a set in a tx leaves of the batch's invariant.
LEMMA ActiveAfterSet ==
  ASSUME NEW s, NEW r, NEW d, BatchOK(s, r, d), r.phase \in Running,
         NEW after \in BatchStates, after # NoBatch, after.currentTx = r.tx,
         Len(after.txState) = r.tx + 1,
         \A k \in DOMAIN s.txState : k <= r.tx => after.txState[k] = s.txState[k],
         TxsInv(after.txState, r.oldRoot),
         NEW r2, r2.root \in Roots, r2.oldRoot = r.oldRoot, r2.batchSR = r.batchSR, r2.tx = r.tx
  PROVE  ActiveInv(after, r2) /\ after.txState # <<>>
<1>1. ActiveInv(s, r) /\ RunningInv(s, r)
  BY ActiveBatch DEF Active, Running
<1>2. r.tx \in Nat /\ r.tx > 0 /\ DOMAIN s.txState = 1 .. Len(s.txState) /\ Len(s.txState) \in Nat
  BY <1>1, BatchTypes DEF RunningInv
<1>3. after.txState # <<>> /\ after.currentTx = Len(after.txState) - 1
  BY <1>2
<1>4. ASSUME s.txState # <<>> PROVE after.txState[1] = s.txState[1]
  <2>1. 1 \in DOMAIN s.txState /\ 1 <= r.tx
    BY <1>2, <1>4, BatchTypes
  <2> QED
    BY <2>1
<1>5. Len(after.txState) <= r2.tx + 1
  BY <1>2
<1> QED
  BY <1>1, <1>3, <1>4, <1>5 DEF ActiveInv

LEMMA SetKeeps ==
  ASSUME NEW s, NEW r, NEW d, BatchOK(s, r, d), r.phase \in Running,
         NEW m, m = IF s = NoBatch THEN NewBatchState ELSE s,
         NEW set \in SetsOf(r.root),
         NEW after, after = AfterSet(m, r.tx, r.root, set),
         NEW r2, IsRun(r2, r.phase, r.tx, set.newRoot, r.oldRoot, r.batchSR, r.originSR, r.initSR)
  PROVE  BatchOK(after, r2, d)
<1> DEFINE last == after.txState[r.tx + 1]
<1>1. /\ after \in BatchStates /\ after # NoBatch
      /\ after.currentTx = r.tx /\ Len(after.txState) = r.tx + 1
      /\ after.pool = s.pool \cup set.writes
      /\ \A k \in DOMAIN s.txState : k <= r.tx => after.txState[k] = s.txState[k]
      /\ TxsInv(after.txState, r.oldRoot)
      /\ \A root : LedTo(s.txState, r.tx, r.oldRoot, root) =>
                   LedTo(after.txState, r.tx, r.oldRoot, root)
      /\ last.new = set.newRoot /\ last.subState # <<>> /\ last.old = r.originSR
      /\ RootInv(last, set.newRoot, r.initSR)
  BY SetInTx
<1>2. /\ r2 \in Runs /\ r2.phase = r.phase /\ r2.root = set.newRoot /\ r2.oldRoot = r.oldRoot
      /\ r2.batchSR = r.batchSR /\ r2.tx = r.tx /\ r2.originSR = r.originSR
      /\ r2.initSR = r.initSR
  BY DEF IsRun
<1> HIDE DEF last
<1>3. /\ r.phase \in Active /\ ActiveInv(s, r) /\ RunningInv(s, r)
      /\ r.phase = "running" <=> r.initSR # <<>>
      /\ Len(r.initSR) <= MaxCalls + 1
  BY ActiveBatch DEF Active, Running
<1>4. r.root \in Roots
  BY <1>3 DEF ActiveInv
<1>5. set.newRoot \in Roots /\ NodesUnder(set.newRoot) \subseteq NodesUnder(r.root) \cup set.writes
  BY <1>4, SetTypes
<1>6. ActiveInv(after, r2)
  BY <1>1, <1>2, <1>5, ActiveAfterSet
<1>7. RunningInv(after, r2)
  <2>1. OwnInv(last, r2)
    BY <1>1, <1>2 DEF OwnInv
  <2>2. ~ (Len(after.txState) <= r2.tx)
    BY <1>1, <1>2, BatchTypes
  <2> QED
    BY <1>1, <1>2, <1>3, <2>1, <2>2 DEF RunningInv, last
<1>8. /\ NodesUnder(set.newRoot) \subseteq after.pool \cup d
      /\ NodesUnder(r.batchSR) \subseteq after.pool \cup d
      /\ NodesUnder(r.oldRoot) \subseteq d
      /\ NodesUnder(r.originSR) \subseteq after.pool \cup d
      /\ \A p \in DOMAIN r.initSR : NodesUnder(r.initSR[p]) \subseteq after.pool \cup d
  <2>1. r.originSR \in Roots
    BY <1>3 DEF RunningInv
  <2>2. s.pool \subseteq after.pool /\ set.writes \subseteq after.pool
    BY <1>1
  <2>3. /\ NodesUnder(r.root) \subseteq s.pool \cup d
        /\ NodesUnder(r.batchSR) \subseteq s.pool \cup d
        /\ NodesUnder(r.oldRoot) \subseteq d
        /\ NodesUnder(r.originSR) \subseteq s.pool \cup d
        /\ \A p \in DOMAIN r.initSR : NodesUnder(r.initSR[p]) \subseteq s.pool \cup d
    BY <1>3, <2>1, BatchTrees
  <2>4. NodesUnder(set.newRoot) \subseteq after.pool \cup d
    BY <1>5, <2>2, <2>3
  <2>5. \A p \in DOMAIN r.initSR : NodesUnder(r.initSR[p]) \subseteq after.pool \cup d
    BY <2>2, <2>3
  <2> QED
    BY <2>2, <2>3, <2>4, <2>5
<1> QED
  BY <1>1, <1>2, <1>3, <1>6, <1>7, <1>8, InTheTx

LEMMA TouchKeeps ==
  ASSUME NEW s, NEW r, NEW d, BatchOK(s, r, d), r.phase \in Running,
         s = NoBatch \/ r.tx >= Len(s.txState),
         NEW m, m = IF s = NoBatch THEN NewBatchState ELSE s,
         NEW after, after = WithTx(m, r.tx)
  PROVE  BatchOK(after, r, d)
<1>1. /\ r.phase \in Active /\ ActiveInv(s, r) /\ RunningInv(s, r)
      /\ r.phase = "running" <=> r.initSR # <<>>
      /\ Len(r.initSR) <= MaxCalls + 1
  BY ActiveBatch DEF Active, Running
<1>2. /\ m \in BatchStates /\ m.txState = s.txState /\ m.pool = s.pool
      /\ m.txState # <<>> => m.currentTx = Len(m.txState) - 1
  BY <1>1, ManagedState
<1>3. Len(s.txState) <= r.tx /\ Len(s.txState) <= r.tx + 1
  <2>1. s = NoBatch => Len(s.txState) = 0
    BY DEF NoBatch, NewBatchState
  <2> QED
    BY <2>1, BatchTypes
<1>4. IsMade(m, after, r.tx)
  BY <1>2, <1>3, BatchTypes, TxsAreMade
<1>5. /\ TxsInv(after.txState, r.oldRoot)
      /\ \A n, root : LedTo(s.txState, n, r.oldRoot, root) => LedTo(after.txState, n, r.oldRoot, root)
  <2>1. TxsInv(m.txState, r.oldRoot) /\ Len(m.txState) <= r.tx + 1
    BY <1>1, <1>2, <1>3 DEF ActiveInv
  <2>2. /\ TxsInv(after.txState, r.oldRoot)
        /\ \A n, root : LedTo(m.txState, n, r.oldRoot, root) => LedTo(after.txState, n, r.oldRoot, root)
    BY <1>2, <1>4, <2>1, BatchTypes, MadeKeepsTxs
  <2> QED
    BY <1>2, <2>2
<1>6. /\ after \in BatchStates /\ after # NoBatch /\ after.currentTx = r.tx
      /\ Len(after.txState) = r.tx + 1 /\ after.pool = s.pool
      /\ \A k \in DOMAIN s.txState : k <= r.tx => after.txState[k] = s.txState[k]
      /\ after.txState[r.tx + 1] = NewTxState
  <2>1. \A k \in 1 .. r.tx + 1 :
          after.txState[k] = IF k \in DOMAIN s.txState THEN s.txState[k] ELSE NewTxState
    BY <1>2, <1>4 DEF IsMade
  <2>2. r.tx + 1 \in 1 .. r.tx + 1 /\ r.tx + 1 \notin DOMAIN s.txState
    BY <1>3, BatchTypes
  <2>3. \A k \in DOMAIN s.txState : k <= r.tx => k \in 1 .. r.tx + 1
    BY BatchTypes
  <2> QED
    BY <1>2, <1>4, <2>1, <2>2, <2>3 DEF IsMade
<1>7. ActiveInv(after, r)
  <2>1. r.root \in Roots
    BY <1>1 DEF ActiveInv
  <2> QED
    BY <1>5, <1>6, <2>1, ActiveAfterSet
<1>8. RunningInv(after, r)
  <2>1. r.root = r.originSR /\ r.phase = "intrinsic"
    BY <1>1, <1>3 DEF RunningInv
  <2>2. OwnInv(NewTxState, r)
    BY <2>1 DEF OwnInv
  <2> QED
    BY <1>1, <1>5, <1>6, <2>1, <2>2 DEF RunningInv
<1>9. r.originSR \in Roots
  BY <1>1 DEF RunningInv
<1> QED
  BY <1>1, <1>6, <1>7, <1>8, <1>9, BatchTypes, BatchTrees, InTheTx

\* The calls of a tx only move among the roots that it ended sub-states in.
LEMMA CallsKeep ==
  ASSUME NEW s, NEW r, NEW d, BatchOK(s, r, d), r.phase \in Running,
         NEW t, t = s.txState[r.tx + 1], Len(s.txState) = r.tx + 1,
         t.subState # <<>>, t.old = r.originSR,
         NEW root \in Roots, NEW initSR, initSR # <<>>, Len(initSR) <= MaxCalls + 1,
         RootInv(t, root, initSR), NodesUnder(root) \subseteq s.pool \cup d,
         \A p \in DOMAIN initSR : NodesUnder(initSR[p]) \subseteq s.pool \cup d,
         NEW r2, IsRun(r2, "running", r.tx, root, r.oldRoot, r.batchSR, r.originSR, initSR)
  PROVE  BatchOK(s, r2, d)
<1>1. /\ r2 \in Runs /\ r2.phase = "running" /\ r2.root = root /\ r2.oldRoot = r.oldRoot
      /\ r2.batchSR = r.batchSR /\ r2.tx = r.tx /\ r2.originSR = r.originSR
      /\ r2.initSR = initSR
  BY DEF IsRun
<1>2. r.phase \in Active /\ ActiveInv(s, r) /\ RunningInv(s, r)
  BY ActiveBatch DEF Active, Running
<1>3. ActiveInv(s, r2)
  BY <1>1, <1>2 DEF ActiveInv
<1>4. RunningInv(s, r2)
  <2>1. OwnInv(t, r2)
    BY <1>1 DEF OwnInv
  <2>2. ~ (Len(s.txState) <= r2.tx)
    BY <1>1, BatchTypes
  <2> QED
    BY <1>1, <1>2, <2>1, <2>2 DEF RunningInv
<1>5. r.originSR \in Roots /\ r2.phase \in Running
  BY <1>1, <1>2 DEF RunningInv, Running
<1> QED
  BY <1>1, <1>2, <1>3, <1>4, <1>5, BatchTypes, BatchTrees, InTheTx

LEMMA TxOfRun ==
  ASSUME NEW s, NEW r, NEW d, BatchOK(s, r, d), r.phase \in Running,
         r.phase = "running" \/ r.root # r.originSR,
         NEW t, t = s.txState[r.tx + 1]
  PROVE  /\ Len(s.txState) = r.tx + 1 /\ t.subState # <<>> /\ t.old = r.originSR
         /\ RootInv(t, r.root, r.initSR)
         /\ r.phase = "running" <=> r.initSR # <<>>
         /\ r.root \in Roots /\ Len(r.initSR) <= MaxCalls + 1
<1>1. /\ r.phase \in Active /\ ActiveInv(s, r) /\ RunningInv(s, r)
      /\ r.phase = "running" <=> r.initSR # <<>>
      /\ Len(r.initSR) <= MaxCalls + 1
  BY ActiveBatch DEF Active, Running
<1>2. Len(s.txState) = r.tx + 1
  BY <1>1, BatchTypes DEF ActiveInv, RunningInv
<1>3. OwnInv(t, r)
  BY <1>1, <1>2 DEF RunningInv
<1> QED
  BY <1>1, <1>2, <1>3 DEF OwnInv, ActiveInv

LEMMA SaveKeeps ==
  ASSUME NEW s, NEW r, NEW d, BatchOK(s, r, d), r.phase = "intrinsic", r.root # r.originSR,
         NEW r2, IsRun(r2, "running", r.tx, r.root, r.oldRoot, r.batchSR, r.originSR, <<r.root>>)
  PROVE  BatchOK(s, r2, d)
<1> DEFINE t == s.txState[r.tx + 1]
           calls == <<r.root>>
<1>1. r.phase \in Running /\ r.phase \in Active
  BY DEF Active, Running
<1>2. /\ Len(s.txState) = r.tx + 1 /\ t.subState # <<>> /\ t.old = r.originSR
      /\ RootInv(t, r.root, r.initSR) /\ r.root \in Roots
  BY <1>1, TxOfRun
<1> HIDE DEF t
<1>3. calls # <<>> /\ Len(calls) = 1 /\ DOMAIN calls = {1} /\ calls[1] = r.root
  OBVIOUS
<1> HIDE DEF calls
<1>4. RootInv(t, r.root, calls)
  <2>1. \A p \in DOMAIN calls : \A q \in p .. Len(calls) : calls[q] = r.root
    BY <1>3
  <2> QED
    BY <1>2, <1>3, <2>1 DEF RootInv
<1>5. Len(calls) <= MaxCalls + 1
  BY <1>3, BatchTypes
<1>6. NodesUnder(r.root) \subseteq s.pool \cup d
  BY <1>1, BatchTrees
<1>7. IsRun(r2, "running", r.tx, r.root, r.oldRoot, r.batchSR, r.originSR, calls)
  BY DEF calls
<1> QED
  BY <1>1, <1>2, <1>3, <1>4, <1>5, <1>6, <1>7, CallsKeep DEF t

LEMMA CallKeeps ==
  ASSUME NEW s, NEW r, NEW d, BatchOK(s, r, d), r.phase = "running",
         Len(r.initSR) <= MaxCalls,
         NEW r2, IsRun(r2, "running", r.tx, r.root, r.oldRoot, r.batchSR, r.originSR,
                       Append(r.initSR, r.root))
  PROVE  BatchOK(s, r2, d)
<1> DEFINE t == s.txState[r.tx + 1]
           calls == Append(r.initSR, r.root)
           n == Len(r.initSR)
<1>1. r.phase \in Running /\ r.phase \in Active
  BY DEF Active, Running
<1>2. /\ Len(s.txState) = r.tx + 1 /\ t.subState # <<>> /\ t.old = r.originSR
      /\ RootInv(t, r.root, r.initSR) /\ r.root \in Roots
  BY <1>1, TxOfRun
<1> HIDE DEF t
<1>3. /\ n \in Nat /\ Len(calls) = n + 1 /\ DOMAIN calls = 1 .. n + 1 /\ calls # <<>>
      /\ calls[n + 1] = r.root /\ \A p \in 1 .. n : calls[p] = r.initSR[p]
      /\ DOMAIN r.initSR = 1 .. n
  BY BatchTypes
<1> HIDE DEF calls, n
<1>4. RootInv(t, r.root, calls)
  <2>1. ASSUME NEW p \in 1 .. n + 1
        PROVE  /\ calls[p] \in News(t)
               /\ calls[p] \in Olds(t) \/ \A q \in p .. n + 1 : calls[q] = r.root
    <3>1. CASE p = n + 1
      <4>1. \A q \in p .. n + 1 : q = n + 1
        BY <1>3, <3>1
      <4> QED
        BY <1>2, <1>3, <3>1, <4>1 DEF RootInv
    <3>2. CASE p # n + 1
      <4>1. p \in 1 .. n
        BY <1>3, <3>2
      <4>2. calls[p] \in News(t)
        BY <1>2, <1>3, <4>1 DEF RootInv
      <4>3. CASE \A q \in p .. n : r.initSR[q] = r.root
        <5>1. ASSUME NEW q \in p .. n + 1 PROVE calls[q] = r.root
          <6>1. CASE q = n + 1
            BY <1>3, <6>1
          <6>2. CASE q # n + 1
            <7>1. q \in p .. n
              BY <1>3, <4>1, <6>2
            <7>2. q \in 1 .. n
              BY <1>3, <4>1, <7>1
            <7> QED
              BY <1>3, <4>3, <7>1, <7>2
          <6> QED
            BY <6>1, <6>2
        <5> QED
          BY <4>2, <5>1
      <4>4. r.initSR[p] \in Olds(t) \/ \A q \in p .. n : r.initSR[q] = r.root
        BY <1>2, <1>3, <4>1 DEF RootInv, n
      <4> QED
        BY <1>3, <4>1, <4>2, <4>3, <4>4
    <3> QED
      BY <3>1, <3>2
  <2> QED
    BY <1>2, <1>3, <2>1 DEF RootInv
<1>5. Len(calls) <= MaxCalls + 1
  BY <1>3, BatchTypes DEF n
<1>6. /\ NodesUnder(r.root) \subseteq s.pool \cup d
      /\ \A p \in DOMAIN calls : NodesUnder(calls[p]) \subseteq s.pool \cup d
  <2>1. \A p \in DOMAIN calls : p = n + 1 \/ p \in 1 .. n
    BY <1>3
  <2> QED
    BY <1>1, <1>3, <2>1, BatchTrees
<1>7. IsRun(r2, "running", r.tx, r.root, r.oldRoot, r.batchSR, r.originSR, calls)
  BY DEF calls
<1> QED
  BY <1>1, <1>2, <1>3, <1>4, <1>5, <1>6, <1>7, CallsKeep DEF t

LEMMA FrontOfCalls ==
  ASSUME NEW calls \in Seq(Roots), Len(calls) > 1
  PROVE  LET n == Len(calls) IN
         /\ Front(calls) \in Seq(Roots) /\ Len(Front(calls)) = n - 1 /\ Front(calls) # <<>>
         /\ DOMAIN Front(calls) = 1 .. n - 1
         /\ \A p \in 1 .. n - 1 : p \in DOMAIN calls /\ Front(calls)[p] = calls[p]
<1> DEFINE n == Len(calls)
           front == Front(calls)
<1>1. n \in Nat /\ n - 1 \in Nat /\ n - 1 > 0
  OBVIOUS
<1>2. front = SubSeq(calls, 1, n - 1)
  BY DEF Front
<1> HIDE DEF front
<1>3. /\ front \in Seq(Roots) /\ Len(front) = n - 1 /\ DOMAIN front = 1 .. n - 1
      /\ \A p \in 1 .. n - 1 : p \in DOMAIN calls /\ front[p] = calls[p]
  BY <1>1, <1>2
<1>4. front # <<>>
  BY <1>1, <1>3
<1> QED
  BY <1>3, <1>4 DEF front

LEMMA ReturnKeeps ==
  ASSUME NEW s, NEW r, NEW d, BatchOK(s, r, d), r.phase = "running", Len(r.initSR) > 1,
         NEW r2, IsRun(r2, "running", r.tx, r.root, r.oldRoot, r.batchSR, r.originSR,
                       Front(r.initSR))
  PROVE  BatchOK(s, r2, d)
<1> DEFINE t == s.txState[r.tx + 1]
           calls == Front(r.initSR)
           n == Len(r.initSR)
<1>1. r.phase \in Running /\ r.phase \in Active
  BY DEF Active, Running
<1>2. /\ Len(s.txState) = r.tx + 1 /\ t.subState # <<>> /\ t.old = r.originSR
      /\ RootInv(t, r.root, r.initSR) /\ r.root \in Roots /\ n <= MaxCalls + 1
  BY <1>1, TxOfRun
<1> HIDE DEF t
<1>3. /\ n \in Nat /\ Len(calls) = n - 1 /\ DOMAIN calls = 1 .. n - 1 /\ calls # <<>>
      /\ \A p \in 1 .. n - 1 : p \in DOMAIN r.initSR /\ calls[p] = r.initSR[p]
  BY BatchTypes, FrontOfCalls
<1> HIDE DEF calls
<1>4. RootInv(t, r.root, calls)
  <2>1. ASSUME NEW p \in 1 .. n - 1
        PROVE  /\ calls[p] \in News(t)
               /\ calls[p] \in Olds(t) \/ \A q \in p .. n - 1 : calls[q] = r.root
    <3>1. \A q \in p .. n - 1 : q \in p .. n /\ q \in 1 .. n - 1
      BY <1>3
    <3> QED
      BY <1>2, <1>3, <3>1 DEF RootInv
  <2> QED
    BY <1>2, <1>3, <2>1 DEF RootInv
<1>5. Len(calls) <= MaxCalls + 1
  BY <1>2, <1>3, BatchTypes
<1>6. /\ NodesUnder(r.root) \subseteq s.pool \cup d
      /\ \A p \in DOMAIN calls : NodesUnder(calls[p]) \subseteq s.pool \cup d
  BY <1>1, <1>3, BatchTrees
<1>7. IsRun(r2, "running", r.tx, r.root, r.oldRoot, r.batchSR, r.originSR, calls)
  BY DEF calls
<1> QED
  BY <1>1, <1>2, <1>3, <1>4, <1>5, <1>6, <1>7, CallsKeep DEF t

\* A revert changes the root, so the root it goes back to is one that a later
\* sub-state began at, as are those of the calls around it.
LEMMA RevertKeeps ==
  ASSUME NEW s, NEW r, NEW d, BatchOK(s, r, d), r.phase = "running",
         r.root # Last(r.initSR),
         NEW r2, IsRun(r2, "running", r.tx, Last(r.initSR), r.oldRoot, r.batchSR, r.originSR,
                       IF Len(r.initSR) > 1 THEN Front(r.initSR) ELSE r.initSR)
  PROVE  BatchOK(s, r2, d)
<1> DEFINE t == s.txState[r.tx + 1]
           calls == IF Len(r.initSR) > 1 THEN Front(r.initSR) ELSE r.initSR
           n == Len(r.initSR)
           root == r.initSR[n]
<1>1. r.phase \in Running /\ r.phase \in Active
  BY DEF Active, Running
<1>2. /\ Len(s.txState) = r.tx + 1 /\ t.subState # <<>> /\ t.old = r.originSR
      /\ RootInv(t, r.root, r.initSR) /\ n <= MaxCalls + 1 /\ r.initSR # <<>>
  BY <1>1, TxOfRun
<1> HIDE DEF t
<1>3. n \in Nat /\ n > 0 /\ DOMAIN r.initSR = 1 .. n /\ n \in 1 .. n /\ Last(r.initSR) = root
  BY <1>2, BatchTypes DEF Last
<1>4. /\ calls # <<>> /\ Len(calls) <= n /\ Len(calls) \in Nat /\ DOMAIN calls = 1 .. Len(calls)
      /\ \A p \in DOMAIN calls : p \in DOMAIN r.initSR /\ calls[p] = r.initSR[p]
  <2>1. CASE n > 1
    <3>1. calls = Front(r.initSR)
      BY <2>1
    <3>2. r.initSR \in Seq(Roots) /\ Len(r.initSR) > 1
      BY <2>1, BatchTypes
    <3> HIDE DEF calls, n
    <3>3. /\ calls # <<>> /\ Len(calls) = Len(r.initSR) - 1 /\ DOMAIN calls = 1 .. Len(r.initSR) - 1
          /\ \A p \in 1 .. Len(r.initSR) - 1 : p \in DOMAIN r.initSR /\ calls[p] = r.initSR[p]
      BY <3>1, <3>2, FrontOfCalls
    <3>4. n = Len(r.initSR)
      BY DEF n
    <3> QED
      BY <1>3, <2>1, <3>3, <3>4
  <2>2. CASE ~(n > 1)
    BY <1>2, <1>3, <2>2, BatchTypes
  <2> QED
    BY <2>1, <2>2
<1> HIDE DEF calls
<1>5. \A p \in 1 .. n : r.initSR[p] \in Olds(t) /\ r.initSR[p] \in News(t)
  <2> TAKE p \in 1 .. n
  <2>1. n \in p .. n
    BY <1>3
  <2> QED
    BY <1>2, <1>3, <2>1 DEF RootInv
<1>6. RootInv(t, root, calls)
  BY <1>3, <1>4, <1>5 DEF RootInv
<1>7. Len(calls) <= MaxCalls + 1
  BY <1>2, <1>3, <1>4, BatchTypes
<1>8. /\ NodesUnder(root) \subseteq s.pool \cup d
      /\ \A p \in DOMAIN calls : NodesUnder(calls[p]) \subseteq s.pool \cup d
  BY <1>1, <1>3, <1>4, BatchTrees
<1>9. root \in Roots
  BY <1>3, BatchTypes
<1>10. IsRun(r2, "running", r.tx, root, r.oldRoot, r.batchSR, r.originSR, calls)
  BY <1>3 DEF calls
<1> HIDE DEF root
<1> QED
  BY <1>1, <1>2, <1>4, <1>6, <1>7, <1>8, <1>9, <1>10, CallsKeep DEF t

LEMMA UpdateKeeps ==
  ASSUME NEW s, NEW r, NEW d, BatchOK(s, r, d), r.phase = "running",
         NEW m, m = IF s = NoBatch THEN NewBatchState ELSE s,
         NEW set \in SetsOf(r.root),
         NEW after, after = AfterSemiFlush(AfterSet(m, r.tx, r.root, set), set.newRoot),
         NEW r2, IsRun(r2, "loop", r.tx, set.newRoot, r.oldRoot, r.batchSR, NoRoot, <<>>)
  PROVE  BatchOK(after, r2, d)
<1> DEFINE made == AfterSet(m, r.tx, r.root, set)
           n == r.tx + 1
<1>1. r.phase \in Running /\ r.phase \in Active /\ r.tx \in Nat
  BY BatchTypes DEF Active, Running
<1>2. /\ made \in BatchStates /\ made # NoBatch
      /\ made.currentTx = r.tx /\ Len(made.txState) = n
      /\ made.pool = s.pool \cup set.writes
      /\ \A k \in DOMAIN s.txState : k <= r.tx => made.txState[k] = s.txState[k]
      /\ TxsInv(made.txState, r.oldRoot)
      /\ made.txState[n].new = set.newRoot
  BY <1>1, SetInTx
<1>3. ActiveInv(s, r) /\ r.root \in Roots
  BY <1>1, ActiveBatch DEF ActiveInv
<1>4. set.newRoot \in Roots /\ NodesUnder(set.newRoot) \subseteq NodesUnder(r.root) \cup set.writes
  BY <1>3, SetTypes
<1> HIDE DEF made
<1>5. made.txState # <<>> /\ made.currentTx = Len(made.txState) - 1 /\ n \in 1 .. n
  BY <1>1, <1>2
<1>6. /\ after \in BatchStates /\ after # NoBatch
      /\ after.currentTx = made.currentTx /\ after.pool = made.pool
      /\ after.txState \in Seq(TxStates) /\ Len(after.txState) = n
      /\ \A k \in 1 .. n - 1 : after.txState[k] = made.txState[k]
      /\ after.txState[n] = Settled(made.txState[n], set.newRoot)
      /\ TxsInv(after.txState, r.oldRoot)
  <2>1. after = AfterSemiFlush(made, set.newRoot)
    BY DEF made
  <2>2. MaySettle(made, r.oldRoot, set.newRoot)
    BY <1>2, <1>4, <1>5 DEF MaySettle
  <2>3. HasSettled(made, r.oldRoot, set.newRoot, after)
    BY <2>1, <2>2, SemiFlushSettles
  <2> QED
    BY <1>2, <2>3 DEF HasSettled
<1>7. after.txState[n].new = set.newRoot
  BY <1>2, <1>6 DEF Settled
<1>8. \A k \in DOMAIN s.txState : k <= r.tx => after.txState[k] = s.txState[k]
  <2> TAKE k \in DOMAIN s.txState
  <2> HAVE k <= r.tx
  <2>1. k \in 1 .. n - 1
    BY <1>1, BatchTypes
  <2> QED
    BY <1>2, <1>6, <2>1
<1>9. /\ r2 \in Runs /\ r2.phase = "loop" /\ r2.root = set.newRoot /\ r2.oldRoot = r.oldRoot
      /\ r2.batchSR = r.batchSR /\ r2.tx = r.tx /\ r2.originSR = NoRoot /\ r2.initSR = <<>>
  BY DEF IsRun
<1>10. ActiveInv(after, r2)
  <2>1. after.currentTx = r.tx /\ Len(after.txState) = r.tx + 1 /\ r2.root \in Roots
    BY <1>2, <1>4, <1>6, <1>9
  <2> QED
    BY <1>1, <1>6, <1>8, <1>9, <2>1, ActiveAfterSet
<1>11. LedTo(after.txState, r2.tx + 1, r2.oldRoot, r2.root)
  <2>1. n \in DOMAIN after.txState /\ DOMAIN after.txState = 1 .. n
    BY <1>5, <1>6
  <2>2. set.newRoot # NoRoot
    BY <1>4, TreeAssumption
  <2>3. \A k \in DOMAIN after.txState : ~ (k <= n /\ k > n)
    BY <1>1, <2>1
  <2>4. n <= n
    BY <1>1
  <2> HIDE DEF n
  <2>5. LedTo(after.txState, n, r2.oldRoot, set.newRoot)
    BY <1>7, <2>1, <2>2, <2>3, <2>4 DEF LedTo
  <2> QED
    BY <1>9, <2>5 DEF n
<1>12. /\ NodesUnder(set.newRoot) \subseteq after.pool \cup d
       /\ NodesUnder(r.batchSR) \subseteq after.pool \cup d
       /\ NodesUnder(r.oldRoot) \subseteq d
  <2>1. /\ NodesUnder(r.root) \subseteq s.pool \cup d
        /\ NodesUnder(r.batchSR) \subseteq s.pool \cup d
        /\ NodesUnder(r.oldRoot) \subseteq d
    BY <1>1, BatchTrees
  <2> QED
    BY <1>2, <1>4, <1>6, <2>1
<1> QED
  BY <1>6, <1>9, <1>10, <1>11, <1>12, OutsideTx

LEMMA LedToWider ==
  ASSUME NEW txs, DOMAIN txs \subseteq Nat, NEW n \in Nat, NEW base, NEW root,
         LedTo(txs, n, base, root),
         \A j \in DOMAIN txs : j <= n \/ txs[j].new = NoRoot
  PROVE  LedTo(txs, n + 1, base, root)
<1>1. CASE root = base /\ \A j \in DOMAIN txs : j <= n => txs[j].new = NoRoot
  BY <1>1 DEF LedTo
<1>2. ASSUME NEW j \in DOMAIN txs, j <= n, txs[j].new = root, root # NoRoot,
             \A k \in DOMAIN txs : k <= n /\ k > j => txs[k].new = NoRoot
      PROVE  LedTo(txs, n + 1, base, root)
  <2>1. j <= n + 1
    BY <1>2
  <2> QED
    BY <1>2, <2>1 DEF LedTo
<1> QED
  BY <1>1, <1>2 DEF LedTo

LEMMA LastLedTo ==
  ASSUME NEW txs, NEW n \in Nat, DOMAIN txs = 1 .. n, n > 0, NEW m \in Nat, n <= m,
         NEW base, NEW root, LedTo(txs, m, base, root)
  PROVE  txs[n].new \in {root, NoRoot}
<1>1. n \in DOMAIN txs
  OBVIOUS
<1>2. ASSUME NEW j \in DOMAIN txs, txs[j].new = root,
             \A k \in DOMAIN txs : k <= m /\ k > j => txs[k].new = NoRoot
      PROVE  txs[n].new \in {root, NoRoot}
  <2>1. CASE j = n
    BY <1>2, <2>1
  <2>2. CASE j # n
    <3>1. n > j
      BY <1>2, <2>2
    <3> QED
      BY <1>1, <1>2, <3>1
  <2> QED
    BY <2>1, <2>2
<1> QED
  BY <1>1, <1>2 DEF LedTo

\* semiFlush() at the root that a tx failed to.
LEMMA SettleInTx ==
  ASSUME NEW s, NEW r, NEW d, BatchOK(s, r, d), r.phase \in Running, s.txState # <<>>,
         NEW root \in Roots, NEW after, after = AfterSemiFlush(s, root)
  PROVE  LET n == Len(s.txState)
             t == s.txState[n]
             last == after.txState[n] IN
         /\ after \in BatchStates /\ after # NoBatch
         /\ after.currentTx = n - 1 /\ after.pool = s.pool
         /\ after.txState # <<>> /\ Len(after.txState) = n
         /\ n \in Nat /\ n > 0 /\ DOMAIN after.txState = 1 .. n /\ DOMAIN s.txState = 1 .. n
         /\ \A k \in 1 .. n - 1 : after.txState[k] = s.txState[k]
         /\ t.new \in {root, NoRoot} => last = t
         /\ last.new = root \/ last = t
         /\ t.old = root => last.new = root
         /\ TxsInv(after.txState, r.oldRoot)
<1> DEFINE n == Len(s.txState)
<1>1. ActiveInv(s, r)
  BY ActiveBatch DEF Active, Running
<1>2. MaySettle(s, r.oldRoot, root)
  BY <1>1, BatchTypes DEF MaySettle, ActiveInv
<1>3. HasSettled(s, r.oldRoot, root, after)
  BY <1>2, SemiFlushSettles
<1>4. n \in Nat /\ n > 0 /\ DOMAIN s.txState = 1 .. n /\ s.txState[n] \in TxStates /\ s.currentTx = n - 1
  BY <1>2, BatchTypes DEF MaySettle
<1>5. TxInv(s.txState[n])
  BY <1>2, <1>4 DEF MaySettle, TxsInv
<1>6. /\ s.txState[n].new \in {root, NoRoot} => Settled(s.txState[n], root) = s.txState[n]
      /\ Settled(s.txState[n], root).new = root \/ Settled(s.txState[n], root) = s.txState[n]
      /\ s.txState[n].old = root => Settled(s.txState[n], root).new = root
  BY <1>4, <1>5, SettledKeepsTx
<1>7. /\ after \in BatchStates /\ after # NoBatch
      /\ after.currentTx = n - 1 /\ after.pool = s.pool
      /\ after.txState \in Seq(TxStates) /\ Len(after.txState) = n
      /\ \A k \in 1 .. n - 1 : after.txState[k] = s.txState[k]
      /\ after.txState[n] = Settled(s.txState[n], root)
      /\ TxsInv(after.txState, r.oldRoot)
  BY <1>3, <1>4 DEF HasSettled
<1>8. after.txState # <<>> /\ DOMAIN after.txState = 1 .. n
  BY <1>4, <1>7
<1> HIDE DEF n
<1> QED
  BY <1>4, <1>6, <1>7, <1>8 DEF n

\* The first tx keeps the root of the global exit root's set.
LEMMA FirstTxIsKept ==
  ASSUME NEW s, NEW r, NEW d, BatchOK(s, r, d), r.phase \in Running, s.txState # <<>>,
         NEW root \in Roots, NEW after, after = AfterSemiFlush(s, root),
         root \in {r.originSR, r.batchSR}, r.batchSR # r.oldRoot
  PROVE  after.txState[1].new = r.batchSR
<1> DEFINE n == Len(s.txState)
<1>1. ActiveInv(s, r) /\ RunningInv(s, r)
  BY ActiveBatch DEF Active, Running
<1>2. /\ n \in Nat /\ n > 0 /\ DOMAIN s.txState = 1 .. n
      /\ \A k \in 1 .. n - 1 : after.txState[k] = s.txState[k]
      /\ s.txState[n].new \in {root, NoRoot} => after.txState[n] = s.txState[n]
  BY SettleInTx
<1>3. s.txState[1].new = r.batchSR
  BY <1>1 DEF ActiveInv
<1> HIDE DEF n
<1>4. CASE n > 1
  <2>1. 1 \in 1 .. n - 1
    BY <1>2, <1>4
  <2> QED
    BY <1>2, <1>3, <2>1
<1>5. CASE n = 1
  <2>1. CASE root = r.batchSR
    BY <1>2, <1>3, <1>5, <2>1
  <2>2. CASE root = r.originSR
    <3>1. r.tx \in Nat /\ n <= r.tx
      BY <1>1, <1>5, BatchTypes DEF RunningInv
    <3>2. s.txState[n].new \in {root, NoRoot}
      BY <1>1, <1>2, <2>2, <3>1, LastLedTo DEF RunningInv
    <3> QED
      BY <1>2, <1>3, <1>5, <3>2
  <2> QED
    BY <2>1, <2>2
<1> QED
  BY <1>2, <1>4, <1>5

LEMMA ActiveAfterSettle ==
  ASSUME NEW s, NEW r, NEW d, BatchOK(s, r, d), r.phase \in Running,
         NEW root \in Roots, NEW after, after = AfterSemiFlush(s, root),
         root \in {r.originSR, r.batchSR},
         NEW r2, r2.root \in Roots, r2.oldRoot = r.oldRoot, r2.batchSR = r.batchSR, r2.tx = r.tx
  PROVE  /\ ActiveInv(after, r2) /\ after \in BatchStates /\ after.pool = s.pool
         /\ s.txState = <<>> => after = s
<1>1. ActiveInv(s, r)
  BY ActiveBatch DEF Active, Running
<1>2. CASE s.txState = <<>>
  <2>1. after = s
    BY <1>1, <1>2 DEF ActiveInv, AfterSemiFlush
  <2> QED
    BY <1>1, <2>1, BatchTypes DEF ActiveInv
<1>3. CASE s.txState # <<>>
  <2>1. /\ after \in BatchStates /\ after # NoBatch
        /\ after.currentTx = Len(after.txState) - 1 /\ after.pool = s.pool
        /\ after.txState # <<>> /\ Len(after.txState) = Len(s.txState)
        /\ TxsInv(after.txState, r.oldRoot)
    BY <1>3, SettleInTx
  <2>2. r.batchSR # r.oldRoot => after.txState[1].new = r.batchSR
    BY <1>3, FirstTxIsKept
  <2>3. Len(after.txState) <= r2.tx + 1
    BY <1>1, <2>1 DEF ActiveInv
  <2> QED
    BY <1>1, <1>3, <2>1, <2>2, <2>3 DEF ActiveInv
<1> QED
  BY <1>2, <1>3

LEMMA IntrinsicKeeps ==
  ASSUME NEW s, NEW r, NEW d, BatchOK(s, r, d), r.phase = "intrinsic",
         NEW after, after = AfterSemiFlush(s, r.originSR),
         NEW r2, IsRun(r2, "loop", r.tx, r.originSR, r.oldRoot, r.batchSR, NoRoot, <<>>)
  PROVE  BatchOK(after, r2, d)
<1> DEFINE root == r.originSR
           all == s.txState
           txs == after.txState
           n == Len(all)
<1>1. r.phase \in Running /\ r.phase \in Active /\ ActiveInv(s, r) /\ RunningInv(s, r)
  BY ActiveBatch DEF Active, Running
<1>2. /\ root \in Roots /\ root # NoRoot /\ LedTo(all, r.tx, r.oldRoot, root) /\ r.tx \in Nat
      /\ n <= r.tx + 1 /\ n \in Nat /\ DOMAIN all = 1 .. n
  BY <1>1, BatchTypes DEF RunningInv, ActiveInv
<1>3. /\ r2 \in Runs /\ r2.phase = "loop" /\ r2.root = root /\ r2.oldRoot = r.oldRoot
      /\ r2.batchSR = r.batchSR /\ r2.tx = r.tx /\ r2.originSR = NoRoot /\ r2.initSR = <<>>
  BY DEF IsRun
<1>4. /\ ActiveInv(after, r2) /\ after \in BatchStates /\ after.pool = s.pool
      /\ all = <<>> => after = s
  BY <1>1, <1>2, <1>3, ActiveAfterSettle
<1>5. LedTo(txs, r.tx + 1, r.oldRoot, root)
  <2>1. CASE all = <<>>
    <3>1. DOMAIN txs = {} /\ LedTo(txs, r.tx, r.oldRoot, root)
      BY <1>2, <1>4, <2>1
    <3> QED
      BY <1>2, <3>1, LedToWider
  <2>2. CASE all # <<>>
    <3>1. /\ n > 0 /\ DOMAIN txs = 1 .. n
          /\ \A k \in 1 .. n - 1 : txs[k] = all[k]
          /\ all[n].new \in {root, NoRoot} => txs[n] = all[n]
          /\ all[n].old = root => txs[n].new = root
      BY <1>1, <1>2, <2>2, SettleInTx
    <3> HIDE DEF n, all, txs, root
    <3>2. CASE n <= r.tx
      <4>1. all[n].new \in {root, NoRoot}
        BY <1>2, <3>1, <3>2, LastLedTo
      <4>2. \A k \in 1 .. n : txs[k] = all[k]
        <5> TAKE k \in 1 .. n
        <5>1. k = n \/ k \in 1 .. n - 1
          BY <1>2
        <5> QED
          BY <3>1, <4>1, <5>1
      <4>3. LedTo(txs, r.tx, r.oldRoot, root)
        BY <1>2, <3>1, <4>2, LedToKept
      <4>4. DOMAIN txs \subseteq Nat /\ \A j \in DOMAIN txs : j <= r.tx
        BY <1>2, <3>1, <3>2
      <4> QED
        BY <1>2, <4>3, <4>4, LedToWider
    <3>3. CASE n = r.tx + 1
      <4>1. OwnInv(all[n], r)
        BY <1>1, <3>3 DEF RunningInv, n, all
      <4>2. CASE all[n] = NewTxState
        <5>1. txs[n].new = NoRoot
          BY <3>1, <4>2, NewTx
        <5>2. \A k \in 1 .. n : k <= r.tx => txs[k] = all[k]
          <6> TAKE k \in 1 .. n
          <6> HAVE k <= r.tx
          <6>1. k \in 1 .. n - 1
            BY <1>2, <3>3
          <6> QED
            BY <3>1, <6>1
        <5>3. LedTo(txs, r.tx, r.oldRoot, root)
          BY <1>2, <3>1, <5>2, LedToKept
        <5>4. DOMAIN txs \subseteq Nat /\ \A j \in DOMAIN txs : j <= r.tx \/ j = n
          BY <1>2, <3>1, <3>3
        <5>5. \A j \in DOMAIN txs : j <= r.tx \/ txs[j].new = NoRoot
          BY <5>1, <5>4
        <5> QED
          BY <1>2, <5>3, <5>4, <5>5, LedToWider
      <4>3. CASE all[n].old = root
        <5>1. txs[n].new = root /\ n \in DOMAIN txs /\ n <= r.tx + 1
          BY <1>2, <3>1, <4>3
        <5>2. \A m \in DOMAIN txs : ~ (m <= r.tx + 1 /\ m > n)
          BY <1>2, <3>1, <3>3
        <5> QED
          BY <1>2, <5>1, <5>2 DEF LedTo
      <4> QED
        BY <4>1, <4>2, <4>3 DEF OwnInv, root
    <3> QED
      BY <1>2, <3>2, <3>3
  <2> QED
    BY <2>1, <2>2
<1>6. /\ NodesUnder(root) \subseteq after.pool \cup d
      /\ NodesUnder(r.batchSR) \subseteq after.pool \cup d
      /\ NodesUnder(r.oldRoot) \subseteq d
  BY <1>1, <1>2, <1>4, BatchTrees
<1> HIDE DEF root
<1> QED
  BY <1>3, <1>4, <1>5, <1>6, OutsideTx

LEMMA ErrorKeeps ==
  ASSUME NEW s, NEW r, NEW d, BatchOK(s, r, d), r.phase \in Running,
         LateErrorNeedsExitRoot => r.originSR = r.batchSR \/ r.batchSR # r.oldRoot,
         NEW after, after = AfterSemiFlush(s, r.batchSR),
         NEW r2, IsRun(r2, "ended", r.tx, r.batchSR, r.oldRoot, r.batchSR, NoRoot, <<>>)
  PROVE  BatchOK(after, r2, d)
<1> DEFINE root == r.batchSR
           all == s.txState
           txs == after.txState
           n == Len(all)
<1>1. r.phase \in Running /\ r.phase \in Active /\ ActiveInv(s, r) /\ RunningInv(s, r)
  BY ActiveBatch DEF Active, Running
<1>2. /\ root \in Roots /\ root # NoRoot /\ LedTo(all, r.tx, r.oldRoot, r.originSR)
      /\ r.tx \in Nat /\ n <= r.tx + 1 /\ n \in Nat /\ DOMAIN all = 1 .. n
      /\ root # r.oldRoot => all # <<>> /\ all[1].new = root
  BY <1>1, BatchTypes DEF RunningInv, ActiveInv
<1>3. /\ r2 \in Runs /\ r2.phase = "ended" /\ r2.root = root /\ r2.oldRoot = r.oldRoot
      /\ r2.batchSR = r.batchSR /\ r2.tx = r.tx /\ r2.originSR = NoRoot /\ r2.initSR = <<>>
  BY DEF IsRun
<1>4. /\ ActiveInv(after, r2) /\ after \in BatchStates /\ after.pool = s.pool
      /\ all = <<>> => after = s
  BY <1>1, <1>2, <1>3, ActiveAfterSettle
<1>5. EndedInv(after, r2)
  <2>1. CASE all = <<>>
    <3>1. DOMAIN txs = {} /\ root = r.oldRoot
      BY <1>2, <1>4, <2>1
    <3> QED
      BY <1>3, <3>1 DEF EndedInv
  <2>2. CASE all # <<>>
    <3>1. /\ n > 0 /\ DOMAIN txs = 1 .. n
          /\ \A k \in 1 .. n - 1 : txs[k] = all[k]
          /\ txs[n].new = root \/ txs[n] = all[n]
          /\ all[n].old = root => txs[n].new = root
      BY <1>1, <1>2, <2>2, SettleInTx
    <3> HIDE DEF n, all, txs, root
    <3>2. SUFFICES ASSUME \A k \in DOMAIN txs : txs[k].new # root
                   PROVE  /\ root = r.oldRoot
                          /\ LateErrorNeedsExitRoot => \A k \in DOMAIN txs : txs[k].new = NoRoot
      BY <1>3 DEF EndedInv, txs
    <3>3. n \in 1 .. n /\ 1 \in 1 .. n
      BY <1>2, <3>1
    <3>4. \A k \in 1 .. n : txs[k] = all[k]
      <4> TAKE k \in 1 .. n
      <4>1. k = n \/ k \in 1 .. n - 1
        BY <1>2
      <4> QED
        BY <3>1, <3>2, <3>3, <4>1
    <3>5. root = r.oldRoot
      BY <1>2, <3>1, <3>2, <3>3, <3>4
    <3>6. ASSUME LateErrorNeedsExitRoot, NEW k \in 1 .. n PROVE txs[k].new = NoRoot
      <4>1. r.originSR = root
        BY <3>5, <3>6 DEF root
      <4>2. \A j \in 1 .. n : j <= r.tx => all[j].new = NoRoot
        BY <1>2, <3>1, <3>2, <3>4, <4>1 DEF LedTo
      <4>3. CASE k <= r.tx
        BY <3>4, <4>2, <4>3
      <4>4. CASE ~ (k <= r.tx)
        <5>1. k = n /\ n = r.tx + 1
          BY <1>2, <4>4
        <5>2. OwnInv(all[n], r)
          BY <1>1, <5>1 DEF RunningInv, n, all
        <5>3. all[n] = NewTxState
          BY <3>1, <3>2, <3>3, <4>1, <5>2 DEF OwnInv
        <5> QED
          BY <3>3, <3>4, <5>1, <5>3, NewTx
      <4> QED
        BY <4>3, <4>4
    <3> QED
      BY <3>1, <3>5, <3>6
  <2> QED
    BY <2>1, <2>2
<1>6. /\ NodesUnder(root) \subseteq after.pool \cup d
      /\ NodesUnder(r.oldRoot) \subseteq d
  BY <1>1, <1>4, BatchTrees
<1> QED
  BY <1>3, <1>4, <1>5, <1>6, OutsideTx

LEMMA WrittenTypes ==
  ASSUME NEW t \in TxStates, TxInv(t), t.subState # <<>>
  PROVE  Written(t) \subseteq Nodes
<1>1. ASSUME NEW i \in Kept(t) PROVE Sub(t, i).dbWrite \subseteq Nodes
  <2>1. i \in 0 .. t.current /\ t.current \in Nat /\ t.current + 1 = Len(t.subState)
    BY ChainIsClosed, SubStateTypes DEF Kept, TxInv, LastIsCurrent
  <2>2. i + 1 \in DOMAIN t.subState
    BY <2>1, SubStateTypes
  <2> QED
    BY <2>2, SubStateTypes DEF Sub
<1> QED
  BY <1>1 DEF Written

\* The batch ended in the root of one of its txs, or where it began.
LEMMA FinalRoot ==
  ASSUME NEW s, NEW r, NEW d, BatchOK(s, r, d), r.phase \in {"loop", "ended"}
  PROVE  /\ EndedInv(s, r) /\ TxsInv(s.txState, r.oldRoot) /\ r.root \in Roots
         /\ NodesUnder(r.oldRoot) \subseteq d /\ NodesUnder(r.root) \subseteq s.pool \cup d
<1>1. r.phase \in Active /\ ActiveInv(s, r)
  BY ActiveBatch DEF Active
<1>2. EndedInv(s, r)
  <2>1. CASE r.phase = "ended"
    BY <2>1 DEF BatchOK, BatchInv
  <2>2. CASE r.phase = "loop"
    <3>1. LedTo(s.txState, r.tx + 1, r.oldRoot, r.root)
      BY <2>2 DEF BatchOK, BatchInv
    <3>2. \A k \in DOMAIN s.txState : k <= r.tx + 1
      BY <1>1, BatchTypes DEF ActiveInv
    <3> QED
      BY <3>1, <3>2 DEF LedTo, EndedInv
  <2> QED
    BY <2>1, <2>2
<1> QED
  BY <1>1, <1>2, BatchTrees DEF ActiveInv

\* What flush() makes of the database and the stored root for a batch at root.
SavedTo(d, txs) == d \cup UNION {Written(txs[i]) : i \in Saved(txs)}

IsFlushed(root, txs, after) ==
  /\ AllConsistent(txs)
  /\ after \in SUBSET Nodes /\ NodesUnder(root) \subseteq after
  /\ Saved(txs) # {} =>
       LET stored == txs[Max(Saved(txs))].new IN
       /\ stored \in Roots /\ NodesUnder(stored) \subseteq after
       /\ LateErrorNeedsExitRoot => stored = root

LEMMA FlushSaves ==
  ASSUME NEW s, NEW r, NEW d, d \in SUBSET Nodes, BatchOK(s, r, d),
         r.phase \in {"loop", "ended"}
  PROVE  IsFlushed(r.root, TxsUpTo(s, r.root), SavedTo(d, TxsUpTo(s, r.root)))
<1> DEFINE all == s.txState
           txs == TxsUpTo(s, r.root)
           after == SavedTo(d, txs)
           found == EndsIn(all, r.root)
<1>1. /\ EndedInv(s, r) /\ TxsInv(all, r.oldRoot) /\ r.root \in Roots /\ r.root # NoRoot
      /\ NodesUnder(r.oldRoot) \subseteq d /\ all \in Seq(TxStates)
  BY FinalRoot, BatchTypes
<1>2. /\ txs \in Seq(TxStates) /\ TxsInv(txs, r.oldRoot)
      /\ found => Len(txs) > 0 /\ txs[Len(txs)].new = r.root
      /\ ~found => txs = all
  <2>1. AreKept(all, r.oldRoot, r.root, txs)
    BY <1>1, UpToKeepsTxs
  <2> QED
    BY <2>1 DEF AreKept
<1> HIDE DEF txs
<1>a. after = d \cup UNION {Written(txs[i]) : i \in Saved(txs)}
  BY DEF SavedTo
<1> HIDE DEF after
<1>3. /\ DOMAIN txs = 1 .. Len(txs) /\ Len(txs) \in Nat
      /\ \A k \in DOMAIN txs : txs[k] \in TxStates /\ TxInv(txs[k])
  BY <1>2 DEF TxsInv
<1>4. AllConsistent(txs) /\ Saved(txs) = {i \in DOMAIN txs : txs[i].subState # <<>>}
  BY <1>2, <1>3, TxsAreSaved
<1>5. after \in SUBSET Nodes
  <2>1. \A i \in Saved(txs) : Written(txs[i]) \subseteq Nodes
    BY <1>3, <1>4, WrittenTypes
  <2> QED
    BY <1>a, <2>1
<1>6. \A k \in DOMAIN txs : txs[k].new # NoRoot => NodesUnder(txs[k].new) \subseteq after
  BY <1>1, <1>2, <1>a, SavedLeads
<1> HIDE DEF found
<1>7. NodesUnder(r.root) \subseteq after
  <2>1. CASE found
    <3>1. Len(txs) \in DOMAIN txs /\ txs[Len(txs)].new = r.root
      BY <1>2, <1>3, <2>1
    <3> QED
      BY <1>1, <1>6, <3>1
  <2>2. CASE ~found
    <3>1. r.root = r.oldRoot
      BY <1>1, <2>2 DEF EndedInv, found, EndsIn
    <3> QED
      BY <1>1, <1>a, <3>1
  <2> QED
    BY <2>1, <2>2
<1>8. ASSUME Saved(txs) # {}
      PROVE  LET stored == txs[Max(Saved(txs))].new IN
             /\ stored \in Roots /\ NodesUnder(stored) \subseteq after
             /\ LateErrorNeedsExitRoot => stored = r.root
  <2> DEFINE m == Max(Saved(txs))
  <2>1. m \in Saved(txs)
    BY <1>3, <1>4, <1>8, MaxOfNumbers
  <2> HIDE DEF m
  <2>2. m \in DOMAIN txs /\ txs[m].subState # <<>>
    BY <1>4, <2>1
  <2>3. txs[m].new \in Roots /\ txs[m].new # NoRoot
    BY <1>3, <2>2, TxRoots
  <2>4. NodesUnder(txs[m].new) \subseteq after
    BY <1>6, <2>2, <2>3
  <2>5. ASSUME LateErrorNeedsExitRoot PROVE txs[m].new = r.root
    <3>1. CASE found
      BY <1>1, <1>2, <1>8, <3>1, LastSavedIsFinal DEF m
    <3>2. CASE ~found
      <4>1. \A k \in DOMAIN all : all[k].new = NoRoot
        BY <1>1, <2>5, <3>2 DEF EndedInv, found, EndsIn
      <4> QED
        BY <1>2, <2>2, <2>3, <3>2, <4>1
    <3> QED
      BY <3>1, <3>2
  <2> QED
    BY <2>3, <2>4, <2>5 DEF m
<1> QED
  BY <1>4, <1>5, <1>7, <1>8 DEF IsFlushed, after, txs

LEMMA OverKeeps ==
  ASSUME NEW s, NEW r, NEW d, BatchOK(s, r, d), r.phase \in {"loop", "ended"},
         NEW d2, NodesUnder(r.root) \subseteq d2,
         NEW r2, IsRun(r2, "done", 0, r.root, NoRoot, NoRoot, NoRoot, <<>>)
  PROVE  BatchOK(NoBatch, r2, d2)
<1>1. /\ r2 \in Runs /\ r2.phase = "done" /\ r2.tx = 0 /\ r2.root = r.root
      /\ r2.originSR = NoRoot /\ r2.initSR = <<>>
  BY DEF IsRun
<1>2. r.root \in Roots
  BY FinalRoot
<1>3. NoBatch \in BatchStates
  <2>1. <<>> \in Seq(TxStates) /\ MaxTxs + 1 \in 0 .. MaxTxs + 1
    BY BoundsAssumption
  <2> QED
    BY <2>1 DEF NoBatch, NewBatchState, BatchStates
<1>4. Len(r2.initSR) = 0 /\ 0 <= MaxCalls + 1
  BY <1>1, BoundsAssumption
<1>5. BatchInv(NoBatch, r2)
  BY <1>1, <1>4 DEF BatchInv, Active, Running
<1>6. TreesInv(NoBatch, r2, d2)
  BY <1>1, <1>2 DEF TreesInv, LiveRoots, Active
<1> QED
  BY <1>1, <1>3, <1>5, <1>6 DEF BatchOK

LEMMA MoreNodes ==
  ASSUME NEW s, NEW r, NEW d, BatchOK(s, r, d), NEW d2, d \subseteq d2
  PROVE  BatchOK(s, r, d2)
<1>1. \A root \in LiveRoots(r) : NodesUnder(root) \subseteq s.pool \cup d2
  BY DEF BatchOK, TreesInv
<1>2. /\ r.phase = "done" => r.root \in Roots /\ NodesUnder(r.root) \subseteq d2
      /\ r.phase \in Active => NodesUnder(r.oldRoot) \subseteq d2
  BY DEF BatchOK, TreesInv
<1> QED
  BY <1>1, <1>2 DEF BatchOK, TreesInv

-----------------------------------------------------------------------------
(* The actions. *)

LEMMA Start == ASSUME Init PROVE ManagerInv
<1>1. MaxTxs \in Nat /\ MaxSets \in Nat /\ MaxCalls \in Nat
  BY BoundsAssumption
<1>2. <<>> \in Seq(TxStates) /\ <<>> \in Seq(Roots) /\ Len(<<>>) = 0
  OBVIOUS
<1>3. NoBatch \in BatchStates
  <2>1. MaxTxs + 1 \in 0 .. MaxTxs + 1
    BY <1>1
  <2> QED
    BY <1>2, <2>1 DEF NoBatch, NewBatchState, BatchStates
<1>4. /\ Idle \in Runs /\ Idle.phase = "idle" /\ Idle.tx = 0 /\ Idle.originSR = NoRoot
      /\ Idle.initSR = <<>>
  BY <1>1, <1>2 DEF Idle, Runs, RootOrNone, Phases
<1>5. BatchInv(NoBatch, Idle)
  <2>1. Len(Idle.initSR) <= MaxCalls + 1
    BY <1>1, <1>2, <1>4
  <2> QED
    BY <1>4, <2>1 DEF BatchInv, Active, Running
<1>6. TreesInv(NoBatch, Idle, db)
  BY <1>4 DEF TreesInv, LiveRoots, Active
<1>7. db \in SUBSET Nodes
  BY DEF Init, Nodes
<1> QED
  BY <1>1, <1>3, <1>4, <1>5, <1>6, <1>7 DEF Init, ManagerInv

LEMMA OneBatchSteps ==
  ASSUME ManagerInv, NEW b \in Batches,
         state' \in [Batches -> BatchStates], run' \in [Batches -> Runs],
         \A c \in Batches : c # b => state'[c] = state[c] /\ run'[c] = run[c],
         BatchOK(state'[b], run'[b], db'),
         db \subseteq db', db' \in SUBSET Nodes, sets' \in 0 .. MaxSets,
         storedRoot' \in Roots, NodesUnder(storedRoot') \subseteq db'
  PROVE  ManagerInv'
<1>1. ASSUME NEW c \in Batches PROVE BatchOK(state'[c], run'[c], db')
  <2>1. CASE c = b
    BY <2>1
  <2>2. CASE c # b
    <3>1. BatchOK(state[c], run[c], db)
      BY DEF ManagerInv, BatchOK
    <3>2. BatchOK(state[c], run[c], db')
      BY <3>1, MoreNodes
    <3> QED
      BY <2>2, <3>2
  <2> QED
    BY <2>1, <2>2
<1>2. \A c \in Batches : BatchInv(state'[c], run'[c]) /\ TreesInv(state'[c], run'[c], db')
  BY <1>1 DEF BatchOK
<1> QED
  BY <1>2 DEF ManagerInv

LEMMA EachBatch ==
  ASSUME ManagerInv, NEW b \in Batches
  PROVE  /\ BatchOK(state[b], run[b], db)
         /\ state \in [Batches -> BatchStates] /\ run \in [Batches -> Runs]
         /\ db \in SUBSET Nodes /\ sets \in 0 .. MaxSets /\ MaxSets \in Nat
         /\ storedRoot \in Roots /\ NodesUnder(storedRoot) \subseteq db
BY BoundsAssumption DEF ManagerInv, BatchOK

LEMMA RunsStep ==
  ASSUME NEW b \in Batches, ManagerInv, UNCHANGED <<state, db, storedRoot, sets>>,
         run' \in [Batches -> Runs], \A c \in Batches : c # b => run'[c] = run[c],
         BatchOK(state[b], run'[b], db)
  PROVE  ManagerInv'
<1>1. /\ state' \in [Batches -> BatchStates] /\ state'[b] = state[b] /\ db' = db
      /\ \A c \in Batches : state'[c] = state[c]
      /\ db \in SUBSET Nodes /\ sets' \in 0 .. MaxSets
      /\ storedRoot' \in Roots /\ NodesUnder(storedRoot') \subseteq db
  BY EachBatch
<1>2. BatchOK(state'[b], run'[b], db')
  BY <1>1
<1> QED
  BY <1>1, <1>2, OneBatchSteps

LEMMA StateStep ==
  ASSUME NEW b \in Batches, ManagerInv, UNCHANGED <<db, storedRoot>>, sets' \in 0 .. MaxSets,
         NEW s, state' = [state EXCEPT ![b] = s],
         run' \in [Batches -> Runs], \A c \in Batches : c # b => run'[c] = run[c],
         BatchOK(s, run'[b], db)
  PROVE  ManagerInv'
<1>1. s \in BatchStates
  BY DEF BatchOK
<1>2. /\ state' \in [Batches -> BatchStates] /\ state'[b] = s /\ db' = db
      /\ \A c \in Batches : c # b => state'[c] = state[c]
      /\ db \in SUBSET Nodes
      /\ storedRoot' \in Roots /\ NodesUnder(storedRoot') \subseteq db
  BY <1>1, EachBatch
<1>3. BatchOK(state'[b], run'[b], db')
  BY <1>2
<1> QED
  BY <1>2, <1>3, OneBatchSteps

LEMMA SetsCount ==
  ASSUME sets \in 0 .. MaxSets, MaxSets \in Nat, sets < MaxSets, sets' = sets + 1
  PROVE  sets' \in 0 .. MaxSets
OBVIOUS

LEMMA StartBatchStep ==
  ASSUME ManagerInv, NEW b \in Batches, StartBatch(b) PROVE ManagerInv'
<1>1. PICK root \in KnownRoots :
         run' = [run EXCEPT ![b] = [@ EXCEPT !.phase = "start", !.root = root,
                                             !.oldRoot = root, !.batchSR = root]]
  BY DEF StartBatch
<1>2. root \in Roots /\ NodesUnder(root) \subseteq db
  BY DEF KnownRoots, ManagerInv, TreesInv
<1>3. /\ run' \in [Batches -> Runs] /\ \A c \in Batches : c # b => run'[c] = run[c]
      /\ IsRun(run'[b], "start", run[b].tx, root, root, root, run[b].originSR, run[b].initSR)
  BY <1>1, <1>2, EachBatch DEF Runs, IsRun, Phases, RootOrNone
<1>4. BatchOK(state[b], run'[b], db)
  BY <1>2, <1>3, EachBatch, StartKeeps DEF StartBatch
<1> QED
  BY <1>3, <1>4, RunsStep DEF StartBatch

LEMMA SetGlobalExitRootStep ==
  ASSUME ManagerInv, NEW b \in Batches, SetGlobalExitRoot(b) PROVE ManagerInv'
<1>1. PICK set \in SetsOf(run[b].root) :
         /\ SetIn(b, set)
         /\ run' = [run EXCEPT ![b].phase = "loop", ![b].root = set.newRoot,
                               ![b].batchSR = set.newRoot]
  BY DEF SetGlobalExitRoot
<1> DEFINE after == AfterSet(Manager(b), run[b].tx, run[b].root, set)
<1>2. run[b].phase = "start" /\ BatchOK(state[b], run[b], db) /\ run[b].root \in Roots
  BY EachBatch DEF SetGlobalExitRoot, ManagerInv, BatchInv, ActiveInv, Active
<1>3. set.newRoot \in Roots
  BY <1>2, SetTypes
<1>4. /\ run' \in [Batches -> Runs] /\ \A c \in Batches : c # b => run'[c] = run[c]
      /\ IsRun(run'[b], "loop", run[b].tx, set.newRoot, run[b].oldRoot, set.newRoot,
               run[b].originSR, run[b].initSR)
  BY <1>1, <1>3, EachBatch DEF Runs, IsRun, Phases, RootOrNone
<1>5. BatchOK(after, run'[b], db)
  BY <1>2, <1>4, ExitRootKeeps DEF Manager
<1>6. state' = [state EXCEPT ![b] = after] /\ sets' \in 0 .. MaxSets
  BY <1>1, EachBatch, SetsCount DEF SetIn
<1> HIDE DEF after
<1> QED
  BY <1>4, <1>5, <1>6, StateStep DEF SetGlobalExitRoot

LEMMA SkipGlobalExitRootStep ==
  ASSUME ManagerInv, NEW b \in Batches, SkipGlobalExitRoot(b) PROVE ManagerInv'
<1>1. run' = [run EXCEPT ![b].phase = "loop"] /\ run[b].phase = "start"
  BY DEF SkipGlobalExitRoot
<1>2. /\ run' \in [Batches -> Runs] /\ \A c \in Batches : c # b => run'[c] = run[c]
      /\ IsRun(run'[b], "loop", run[b].tx, run[b].root, run[b].oldRoot, run[b].batchSR,
               run[b].originSR, run[b].initSR)
  BY <1>1, EachBatch DEF Runs, IsRun, Phases
<1>3. BatchOK(state[b], run'[b], db)
  BY <1>1, <1>2, EachBatch, SkipKeeps
<1> QED
  BY <1>2, <1>3, RunsStep DEF SkipGlobalExitRoot

LEMMA ProcessTxStep ==
  ASSUME ManagerInv, NEW b \in Batches, ProcessTx(b) PROVE ManagerInv'
<1>1. /\ run[b].phase = "loop" /\ run[b].tx < MaxTxs
      /\ run' = [run EXCEPT ![b].phase = "intrinsic", ![b].tx = @ + 1,
                            ![b].originSR = run[b].root]
  BY DEF ProcessTx
<1>2. run[b].tx \in 0 .. MaxTxs /\ MaxTxs \in Nat /\ run[b].tx + 1 \in 0 .. MaxTxs
  BY <1>1, EachBatch, BatchTypes
<1>3. /\ run' \in [Batches -> Runs] /\ \A c \in Batches : c # b => run'[c] = run[c]
      /\ IsRun(run'[b], "intrinsic", run[b].tx + 1, run[b].root, run[b].oldRoot, run[b].batchSR,
               run[b].root, run[b].initSR)
  BY <1>1, <1>2, EachBatch DEF Runs, IsRun, Phases
<1>4. BatchOK(state[b], run'[b], db)
  BY <1>1, <1>3, EachBatch, ProcessKeeps
<1> QED
  BY <1>3, <1>4, RunsStep DEF ProcessTx

LEMMA SetStateStep ==
  ASSUME ManagerInv, NEW b \in Batches, SetState(b) PROVE ManagerInv'
<1>1. PICK set \in SetsOf(run[b].root) :
         SetIn(b, set) /\ run' = [run EXCEPT ![b].root = set.newRoot]
  BY DEF SetState
<1> DEFINE after == AfterSet(Manager(b), run[b].tx, run[b].root, set)
<1>2. run[b].phase \in Running /\ BatchOK(state[b], run[b], db) /\ run[b].root \in Roots
  BY EachBatch DEF SetState, InTx, ManagerInv, BatchInv, ActiveInv, Active, Running
<1>3. set.newRoot \in Roots
  BY <1>2, SetTypes
<1>4. /\ run' \in [Batches -> Runs] /\ \A c \in Batches : c # b => run'[c] = run[c]
      /\ IsRun(run'[b], run[b].phase, run[b].tx, set.newRoot, run[b].oldRoot, run[b].batchSR,
               run[b].originSR, run[b].initSR)
  BY <1>1, <1>3, EachBatch DEF Runs, IsRun, RootOrNone
<1>5. BatchOK(after, run'[b], db)
  BY <1>2, <1>4, SetKeeps DEF Manager
<1>6. state' = [state EXCEPT ![b] = after] /\ sets' \in 0 .. MaxSets
  BY <1>1, EachBatch, SetsCount DEF SetIn
<1> HIDE DEF after
<1> QED
  BY <1>4, <1>5, <1>6, StateStep DEF SetState

LEMMA TouchStep ==
  ASSUME ManagerInv, NEW b \in Batches, Touch(b) PROVE ManagerInv'
<1> DEFINE after == WithTx(Manager(b), run[b].tx)
<1>1. /\ run[b].phase \in Running
      /\ state[b] = NoBatch \/ run[b].tx >= Len(state[b].txState)
      /\ BatchOK(state[b], run[b], db)
  BY EachBatch DEF Touch, InTx, Running
<1>2. BatchOK(after, run'[b], db)
  <2>1. run'[b] = run[b]
    BY DEF Touch
  <2>2. BatchOK(after, run[b], db)
    BY <1>1, TouchKeeps DEF Manager
  <2> HIDE DEF after
  <2> QED
    BY <2>1, <2>2
<1>3. state' = [state EXCEPT ![b] = after] /\ sets' \in 0 .. MaxSets
  BY EachBatch DEF Touch
<1>4. run' \in [Batches -> Runs] /\ \A c \in Batches : c # b => run'[c] = run[c]
  BY EachBatch DEF Touch
<1> HIDE DEF after
<1> QED
  BY <1>2, <1>3, <1>4, StateStep DEF Touch

LEMMA SaveInitSRStep ==
  ASSUME ManagerInv, NEW b \in Batches, SaveInitSR(b) PROVE ManagerInv'
<1>1. /\ run[b].phase = "intrinsic" /\ run[b].root # run[b].originSR
      /\ run' = [run EXCEPT ![b].phase = "running", ![b].initSR = <<run[b].root>>]
  BY DEF SaveInitSR
<1>2. BatchOK(state[b], run[b], db) /\ <<run[b].root>> \in Seq(Roots)
  BY <1>1, EachBatch DEF ManagerInv, BatchInv, ActiveInv, Active
<1>3. /\ run' \in [Batches -> Runs] /\ \A c \in Batches : c # b => run'[c] = run[c]
      /\ IsRun(run'[b], "running", run[b].tx, run[b].root, run[b].oldRoot, run[b].batchSR,
               run[b].originSR, <<run[b].root>>)
  BY <1>1, <1>2, EachBatch DEF Runs, IsRun, Phases
<1>4. BatchOK(state[b], run'[b], db)
  BY <1>1, <1>2, <1>3, SaveKeeps
<1> QED
  BY <1>3, <1>4, RunsStep DEF SaveInitSR

LEMMA CallStep ==
  ASSUME ManagerInv, NEW b \in Batches, Call(b) PROVE ManagerInv'
<1>1. /\ run[b].phase = "running" /\ Len(run[b].initSR) <= MaxCalls
      /\ run' = [run EXCEPT ![b].initSR = Append(@, run[b].root)]
  BY DEF Call
<1>2. BatchOK(state[b], run[b], db) /\ Append(run[b].initSR, run[b].root) \in Seq(Roots)
  <2>1. BatchOK(state[b], run[b], db) /\ run[b].root \in Roots
    BY <1>1, EachBatch DEF ManagerInv, BatchInv, ActiveInv, Active
  <2> QED
    BY <2>1, BatchTypes
<1>3. /\ run' \in [Batches -> Runs] /\ \A c \in Batches : c # b => run'[c] = run[c]
      /\ IsRun(run'[b], "running", run[b].tx, run[b].root, run[b].oldRoot, run[b].batchSR,
               run[b].originSR, Append(run[b].initSR, run[b].root))
  BY <1>1, <1>2, EachBatch DEF Runs, IsRun
<1>4. BatchOK(state[b], run'[b], db)
  BY <1>1, <1>2, <1>3, CallKeeps
<1> QED
  BY <1>3, <1>4, RunsStep DEF Call

LEMMA ReturnStep ==
  ASSUME ManagerInv, NEW b \in Batches, Return(b) PROVE ManagerInv'
<1>1. /\ run[b].phase = "running" /\ Len(run[b].initSR) > 1
      /\ run' = [run EXCEPT ![b].initSR = Front(@)]
  BY DEF Return
<1>2. BatchOK(state[b], run[b], db) /\ Front(run[b].initSR) \in Seq(Roots)
  BY <1>1, EachBatch, BatchTypes, FrontOfCalls
<1>3. /\ run' \in [Batches -> Runs] /\ \A c \in Batches : c # b => run'[c] = run[c]
      /\ IsRun(run'[b], "running", run[b].tx, run[b].root, run[b].oldRoot, run[b].batchSR,
               run[b].originSR, Front(run[b].initSR))
  BY <1>1, <1>2, EachBatch DEF Runs, IsRun
<1>4. BatchOK(state[b], run'[b], db)
  BY <1>1, <1>2, <1>3, ReturnKeeps
<1> QED
  BY <1>3, <1>4, RunsStep DEF Return

LEMMA RevertStep ==
  ASSUME ManagerInv, NEW b \in Batches, Revert(b) PROVE ManagerInv'
<1> DEFINE calls == IF Len(run[b].initSR) > 1 THEN Front(run[b].initSR) ELSE run[b].initSR
<1>1. /\ run[b].phase = "running" /\ run[b].root # Last(run[b].initSR)
      /\ run' = [run EXCEPT ![b].root = Last(run[b].initSR),
                            ![b].initSR = IF Len(@) > 1 THEN Front(@) ELSE @]
  BY DEF Revert
<1>2. BatchOK(state[b], run[b], db) /\ calls \in Seq(Roots) /\ Last(run[b].initSR) \in Roots
  <2>1. BatchOK(state[b], run[b], db) /\ run[b].initSR # <<>>
    BY <1>1, EachBatch DEF ManagerInv, BatchInv
  <2>2. run[b].initSR \in Seq(Roots) /\ Last(run[b].initSR) \in Roots
    BY <2>1, BatchTypes DEF Last
  <2>3. calls \in Seq(Roots)
    BY <2>2, FrontOfCalls
  <2> QED
    BY <2>1, <2>2, <2>3
<1> DEFINE root == Last(run[b].initSR)
<1>3. run' = [run EXCEPT ![b].root = root, ![b].initSR = calls]
  BY <1>1, EachBatch DEF Runs
<1>t. root \in Roots /\ calls \in Seq(Roots) /\ run[b].phase = "running"
  BY <1>1, <1>2
<1> HIDE DEF calls, root
<1>4. /\ run' \in [Batches -> Runs] /\ \A c \in Batches : c # b => run'[c] = run[c]
      /\ IsRun(run'[b], "running", run[b].tx, root, run[b].oldRoot,
               run[b].batchSR, run[b].originSR, calls)
  BY <1>3, <1>t, EachBatch DEF Runs, IsRun, RootOrNone
<1>5. BatchOK(state[b], run'[b], db)
  BY <1>1, <1>2, <1>4, RevertKeeps DEF calls, root
<1> QED
  BY <1>4, <1>5, RunsStep DEF Revert

LEMMA FinishTxRuns ==
  ASSUME ManagerInv, NEW b \in Batches, NEW manager, NEW root \in Roots,
         NEW phase \in {"loop", "ended"}, FinishTx(b, manager, root, phase)
  PROVE  /\ run' \in [Batches -> Runs] /\ \A c \in Batches : c # b => run'[c] = run[c]
         /\ IsRun(run'[b], phase, run[b].tx, root, run[b].oldRoot, run[b].batchSR, NoRoot, <<>>)
<1>1. <<>> \in Seq(Roots)
  OBVIOUS
<1>2. run' = [run EXCEPT ![b].phase = phase, ![b].root = root,
                         ![b].originSR = NoRoot, ![b].initSR = <<>>]
  BY DEF FinishTx
<1>3. run \in [Batches -> Runs] /\ run[b] \in Runs
  BY EachBatch
<1> DEFINE next == [run[b] EXCEPT !.phase = phase, !.root = root, !.originSR = NoRoot, !.initSR = <<>>]
<1>4. next \in Runs
  BY <1>1, <1>3 DEF Runs, Phases, RootOrNone
<1>5. IsRun(next, phase, run[b].tx, root, run[b].oldRoot, run[b].batchSR, NoRoot, <<>>)
  BY <1>3, <1>4 DEF Runs, IsRun
<1>6. run' = [run EXCEPT ![b] = next]
  BY <1>2, <1>3
<1> HIDE DEF next
<1> QED
  BY <1>3, <1>4, <1>5, <1>6

LEMMA UpdateSystemDataStep ==
  ASSUME ManagerInv, NEW b \in Batches, UpdateSystemData(b) PROVE ManagerInv'
<1>1. PICK set \in SetsOf(run[b].root) :
         FinishTx(b, AfterSet(Manager(b), run[b].tx, run[b].root, set), set.newRoot, "loop")
  BY DEF UpdateSystemData
<1> DEFINE after == AfterSemiFlush(AfterSet(Manager(b), run[b].tx, run[b].root, set), set.newRoot)
<1>2. run[b].phase = "running" /\ BatchOK(state[b], run[b], db) /\ run[b].root \in Roots
  BY EachBatch DEF UpdateSystemData, ManagerInv, BatchInv, ActiveInv, Active
<1>3. set.newRoot \in Roots
  BY <1>2, SetTypes
<1>4. /\ run' \in [Batches -> Runs] /\ \A c \in Batches : c # b => run'[c] = run[c]
      /\ IsRun(run'[b], "loop", run[b].tx, set.newRoot, run[b].oldRoot, run[b].batchSR,
               NoRoot, <<>>)
  BY <1>1, <1>3, FinishTxRuns
<1>5. BatchOK(after, run'[b], db)
  BY <1>2, <1>4, UpdateKeeps DEF Manager
<1>6. /\ state' = [state EXCEPT ![b] = after] /\ sets' \in 0 .. MaxSets
      /\ UNCHANGED <<db, storedRoot>>
  BY <1>1, EachBatch, SetsCount DEF UpdateSystemData, FinishTx
<1> HIDE DEF after
<1> QED
  BY <1>4, <1>5, <1>6, StateStep

LEMMA IntrinsicErrorStep ==
  ASSUME ManagerInv, NEW b \in Batches, IntrinsicError(b) PROVE ManagerInv'
<1> DEFINE after == AfterSemiFlush(state[b], run[b].originSR)
<1>1. /\ run[b].phase = "intrinsic" /\ BatchOK(state[b], run[b], db)
      /\ run[b].originSR \in Roots
      /\ FinishTx(b, state[b], run[b].originSR, "loop") /\ sets' = sets
  BY EachBatch DEF IntrinsicError, ManagerInv, BatchInv, RunningInv, Running
<1>2. /\ run' \in [Batches -> Runs] /\ \A c \in Batches : c # b => run'[c] = run[c]
      /\ IsRun(run'[b], "loop", run[b].tx, run[b].originSR, run[b].oldRoot, run[b].batchSR,
               NoRoot, <<>>)
  BY <1>1, FinishTxRuns
<1>3. BatchOK(after, run'[b], db)
  BY <1>1, <1>2, IntrinsicKeeps
<1>4. /\ state' = [state EXCEPT ![b] = after] /\ sets' \in 0 .. MaxSets
      /\ UNCHANGED <<db, storedRoot>>
  BY <1>1, EachBatch DEF FinishTx
<1> HIDE DEF after
<1> QED
  BY <1>2, <1>3, <1>4, StateStep

LEMMA BatchErrorStep ==
  ASSUME ManagerInv, NEW b \in Batches, BatchError(b) PROVE ManagerInv'
<1> DEFINE after == AfterSemiFlush(state[b], run[b].batchSR)
<1>1. /\ run[b].phase \in Running /\ BatchOK(state[b], run[b], db)
      /\ run[b].batchSR \in Roots
      /\ LateErrorNeedsExitRoot =>
           run[b].originSR = run[b].batchSR \/ run[b].batchSR # run[b].oldRoot
      /\ FinishTx(b, state[b], run[b].batchSR, "ended") /\ sets' = sets
  BY EachBatch DEF BatchError, InTx, ManagerInv, BatchInv, ActiveInv, Active, Running
<1>2. /\ run' \in [Batches -> Runs] /\ \A c \in Batches : c # b => run'[c] = run[c]
      /\ IsRun(run'[b], "ended", run[b].tx, run[b].batchSR, run[b].oldRoot, run[b].batchSR,
               NoRoot, <<>>)
  BY <1>1, FinishTxRuns
<1>3. BatchOK(after, run'[b], db)
  BY <1>1, <1>2, ErrorKeeps
<1>4. /\ state' = [state EXCEPT ![b] = after] /\ sets' \in 0 .. MaxSets
      /\ UNCHANGED <<db, storedRoot>>
  BY <1>1, EachBatch DEF FinishTx
<1> HIDE DEF after
<1> QED
  BY <1>2, <1>3, <1>4, StateStep

LEMMA OverIsRun ==
  ASSUME NEW r \in Runs
  PROVE  IsRun(Over(r, "done"), "done", 0, r.root, NoRoot, NoRoot, NoRoot, <<>>)
<1>1. <<>> \in Seq(Roots) /\ MaxTxs \in Nat
  BY BoundsAssumption
<1>2. /\ Idle \in Runs /\ Idle.tx = 0 /\ Idle.oldRoot = NoRoot /\ Idle.batchSR = NoRoot
      /\ Idle.originSR = NoRoot /\ Idle.initSR = <<>>
  BY <1>1 DEF Idle, Runs, Phases, RootOrNone
<1>3. r.root \in RootOrNone
  BY DEF Runs
<1>4. "done" \in Phases
  BY DEF Phases
<1> QED
  BY <1>2, <1>3, <1>4 DEF Over, Runs, IsRun

\* flush() refuses no batch, and stores nothing but the root that it ended in.
LEMMA FinishBatchFacts ==
  ASSUME ManagerInv, NEW b \in Batches, FinishBatch(b)
  PROVE  /\ run' = [run EXCEPT ![b] = Over(run[b], "done")]
         /\ state' = [state EXCEPT ![b] = NoBatch]
         /\ db \subseteq db' /\ db' \in SUBSET Nodes /\ NodesUnder(run[b].root) \subseteq db'
         /\ storedRoot' \in Roots /\ NodesUnder(storedRoot') \subseteq db'
         /\ LateErrorNeedsExitRoot => storedRoot' \in {storedRoot, run[b].root}
         /\ sets' = sets /\ run[b].phase \in {"loop", "ended"}
<1>1. /\ BatchOK(state[b], run[b], db) /\ run[b].phase \in {"loop", "ended"} /\ sets' = sets
      /\ db \in SUBSET Nodes /\ storedRoot \in Roots /\ NodesUnder(storedRoot) \subseteq db
      /\ state \in [Batches -> BatchStates] /\ run \in [Batches -> Runs]
  BY EachBatch DEF FinishBatch
<1>2. CASE state[b] = NoBatch
  <2>1. run' = [run EXCEPT ![b] = Over(@, "done")] /\ UNCHANGED <<state, db, storedRoot>>
    BY <1>2 DEF FinishBatch
  <2>2. NodesUnder(run[b].root) \subseteq db
    BY <1>1, <1>2, FinalRoot DEF NoBatch, NewBatchState
  <2> QED
    BY <1>1, <1>2, <2>1, <2>2
<1>3. CASE state[b] # NoBatch
  <2> DEFINE txs == TxsUpTo(state[b], run[b].root)
             after == SavedTo(db, txs)
             stored == txs[Max(Saved(txs))].new
  <2>1. /\ db' = after
        /\ storedRoot' = IF Saved(txs) = {} THEN storedRoot ELSE stored
        /\ run' = [run EXCEPT ![b] = Over(@, IF AllConsistent(txs) THEN "done" ELSE "failed")]
        /\ state' = IF AllConsistent(txs) THEN [state EXCEPT ![b] = NoBatch] ELSE state
    BY <1>3 DEF FinishBatch, SavedTo
  <2>2. /\ AllConsistent(txs)
        /\ after \in SUBSET Nodes /\ NodesUnder(run[b].root) \subseteq after
        /\ Saved(txs) # {} =>
             /\ stored \in Roots /\ NodesUnder(stored) \subseteq after
             /\ LateErrorNeedsExitRoot => stored = run[b].root
    <3>1. IsFlushed(run[b].root, txs, after)
      BY <1>1, FlushSaves
    <3> QED
      BY <3>1 DEF IsFlushed
  <2>3. db \subseteq after
    BY DEF SavedTo
  <2> HIDE DEF after, stored, txs
  <2>4. run' = [run EXCEPT ![b] = Over(@, "done")] /\ state' = [state EXCEPT ![b] = NoBatch]
    BY <2>1, <2>2
  <2>5. /\ storedRoot' \in Roots /\ NodesUnder(storedRoot') \subseteq db'
        /\ LateErrorNeedsExitRoot => storedRoot' \in {storedRoot, run[b].root}
    BY <1>1, <2>1, <2>2, <2>3
  <2> QED
    BY <1>1, <2>1, <2>2, <2>3, <2>4, <2>5
<1> QED
  BY <1>2, <1>3

LEMMA FinishBatchStep ==
  ASSUME ManagerInv, NEW b \in Batches, FinishBatch(b) PROVE ManagerInv'
<1>1. /\ run' = [run EXCEPT ![b] = Over(run[b], "done")]
      /\ state' = [state EXCEPT ![b] = NoBatch]
      /\ db \subseteq db' /\ db' \in SUBSET Nodes /\ NodesUnder(run[b].root) \subseteq db'
      /\ storedRoot' \in Roots /\ NodesUnder(storedRoot') \subseteq db'
      /\ sets' = sets /\ run[b].phase \in {"loop", "ended"}
  BY FinishBatchFacts
<1>2. /\ BatchOK(state[b], run[b], db) /\ sets' \in 0 .. MaxSets
      /\ state \in [Batches -> BatchStates] /\ run \in [Batches -> Runs] /\ run[b] \in Runs
  BY <1>1, EachBatch
<1>3. IsRun(run'[b], "done", 0, run[b].root, NoRoot, NoRoot, NoRoot, <<>>) /\ run'[b] \in Runs
  BY <1>1, <1>2, OverIsRun DEF IsRun
<1>4. BatchOK(NoBatch, run'[b], db')
  BY <1>1, <1>2, <1>3, OverKeeps
<1>5. /\ state' \in [Batches -> BatchStates] /\ run' \in [Batches -> Runs] /\ state'[b] = NoBatch
      /\ \A c \in Batches : c # b => state'[c] = state[c] /\ run'[c] = run[c]
  <2>1. NoBatch \in BatchStates
    BY <1>4 DEF BatchOK
  <2>2. Over(run[b], "done") \in Runs
    BY <1>1, <1>2, <1>3
  <2> QED
    BY <1>1, <1>2, <2>1, <2>2
<1>6. BatchOK(state'[b], run'[b], db')
  BY <1>4, <1>5
<1> QED
  BY <1>1, <1>2, <1>5, <1>6, OneBatchSteps

LEMMA Stutter == ASSUME ManagerInv, UNCHANGED vars PROVE ManagerInv'
BY DEF ManagerInv, vars

-----------------------------------------------------------------------------
(* The theorems. *)

\* Each step of a batch keeps the order of its sub-states and txs, and the trees
\* that it and the others may still read.
THEOREM ManagerInvariant == Spec => []ManagerInv
<1>1. Init => ManagerInv
  BY Start
<1>2. ManagerInv /\ [Next]_vars => ManagerInv'
  <2> SUFFICES ASSUME ManagerInv, [Next]_vars PROVE ManagerInv'
    OBVIOUS
  <2>1. ASSUME NEW b \in Batches, Steps(b) PROVE ManagerInv'
    BY <2>1, StartBatchStep, SetGlobalExitRootStep, SkipGlobalExitRootStep, ProcessTxStep,
       SetStateStep, TouchStep, SaveInitSRStep, CallStep, ReturnStep, RevertStep,
       UpdateSystemDataStep, IntrinsicErrorStep, BatchErrorStep, FinishBatchStep DEF Steps
  <2>2. CASE UNCHANGED vars
    BY <2>2, Stutter
  <2> QED
    BY <2>1, <2>2 DEF Next
<1> QED
  BY <1>1, <1>2, PTL DEF Spec

\* The tables of the manager and the registers of the executor keep their types
\* and bounds, and no revert, error or settled tx leaves currentSubState at a
\* sub-state that is not the last.
THEOREM TypesAreKept == Spec => []TypeOK
<1>1. ManagerInv => TypeOK
  <2> SUFFICES ASSUME ManagerInv PROVE TypeOK
    OBVIOUS
  <2>1. ASSUME NEW b \in Batches
        PROVE  /\ Len(state[b].txState) <= MaxTxs + 1
               /\ Len(run[b].initSR) <= MaxCalls + 1
               /\ \A i \in DOMAIN state[b].txState : LastIsCurrent(state[b].txState[i])
    <3>1. BatchOK(state[b], run[b], db)
      BY EachBatch
    <3>2. Len(run[b].initSR) <= MaxCalls + 1
      BY <3>1 DEF BatchOK, BatchInv
    <3>3. CASE run[b].phase \in Active
      <4>1. ActiveInv(state[b], run[b])
        BY <3>1, <3>3, ActiveBatch
      <4>2. Len(state[b].txState) <= MaxTxs + 1
        BY <3>1, <4>1, BatchTypes DEF ActiveInv
      <4>3. \A i \in DOMAIN state[b].txState : LastIsCurrent(state[b].txState[i])
        BY <4>1 DEF ActiveInv, TxsInv, TxInv
      <4> QED
        BY <3>2, <4>2, <4>3
    <3>4. CASE run[b].phase \notin Active
      <4>1. state[b].txState = <<>> /\ MaxTxs \in Nat
        BY <3>1, <3>4, BatchTypes DEF BatchOK, BatchInv, NoBatch, NewBatchState
      <4>2. Len(state[b].txState) = 0 /\ DOMAIN state[b].txState = {}
        BY <4>1
      <4> QED
        BY <3>2, <4>1, <4>2
    <3> QED
      BY <3>3, <3>4
  <2> QED
    BY <2>1 DEF ManagerInv, TypeOK
<1> QED
  BY <1>1, ManagerInvariant, PTL

\* A revert or an error only takes a batch back to trees that the pool and the
\* database still have in full.
THEOREM CurrentTreesAreReadable == Spec => []CurrentTreeIsReadable
<1>1. ManagerInv => CurrentTreeIsReadable
  BY DEF ManagerInv, TreesInv, CurrentTreeIsReadable
<1> QED
  BY <1>1, ManagerInvariant, PTL

\* What flush() drops of the sub-states, the txs and the deleted hashes is never
\* a node of the final tree.
THEOREM FinalTreesAreReadable == Spec => []FinalTreeIsReadable
<1>1. ManagerInv => FinalTreeIsReadable
  BY DEF ManagerInv, TreesInv, FinalTreeIsReadable
<1> QED
  BY <1>1, ManagerInvariant, PTL

\* flush() returns no error, however reverts and errors cut the sub-states.
THEOREM FlushNeverRefuses == Spec => []FlushSucceeds
<1>1. ManagerInv => FlushSucceeds
  BY DEF ManagerInv, BatchInv, FlushSucceeds
<1> QED
  BY <1>1, ManagerInvariant, PTL

\* Only the root that a batch ended in reaches updateStateRoot(), as long as an
\* error that drops earlier txs comes after the set of an exit root: without
\* that the txs are all kept, and the last of their roots is stored.
THEOREM FinalRootsAreStored ==
  ASSUME LateErrorNeedsExitRoot
  PROVE  Spec => OnlyFinalRootsAreStored
<1> DEFINE Stores == storedRoot' # storedRoot =>
                       \E b \in Batches : run'[b].phase = "done" /\ run[b].phase # "done"
                                          /\ storedRoot' = run[b].root
<1>1. ManagerInv /\ [Next]_vars => [Stores]_vars
  <2> SUFFICES ASSUME ManagerInv, [Next]_vars, storedRoot' # storedRoot
               PROVE  \E b \in Batches : run'[b].phase = "done" /\ run[b].phase # "done"
                                         /\ storedRoot' = run[b].root
    OBVIOUS
  <2>1. PICK b \in Batches : Steps(b)
    BY DEF Next, vars
  <2>2. FinishBatch(b)
    BY <2>1 DEF Steps, StartBatch, SetGlobalExitRoot, SkipGlobalExitRoot, ProcessTx, SetState,
       Touch, SaveInitSR, Call, Return, Revert, UpdateSystemData, IntrinsicError, BatchError,
       FinishTx
  <2>3. /\ run' = [run EXCEPT ![b] = Over(run[b], "done")]
        /\ LateErrorNeedsExitRoot => storedRoot' \in {storedRoot, run[b].root}
        /\ run[b].phase \in {"loop", "ended"} /\ run[b] \in Runs /\ run \in [Batches -> Runs]
    BY <2>2, FinishBatchFacts, EachBatch
  <2>4. run'[b].phase = "done"
    BY <2>3, OverIsRun DEF IsRun
  <2> QED
    BY <2>3, <2>4
<1> QED
  BY <1>1, ManagerInvariant, PTL DEF Spec, OnlyFinalRootsAreStored
=============================================================================
