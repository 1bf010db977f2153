----------------------------- MODULE StorageMachine -----------------------------
(***************************************************************************)
(* The storage state machine of src/src/sm/storage: what its ROM computes  *)
(* from the result of a set or get, and what the executor compares when it *)
(* latches.  A result that does not latch ends the prover (exitProcess()). *)
(* The key that the ROM rebuilds from the bits is the key they came from,  *)
(* and is not computed again here.                                         *)
(***************************************************************************)
EXTENDS SmtTree

\* The modes whose keys are split at the bit where they part.
FoundModes == {"insertFound", "deleteFound"}

\* SmtActionContext::init(): the number of bits taken from the keys.
Level(a) ==
  IF a.mode \in FoundModes
  THEN CHOOSE n \in 1 .. Len(a.key.bits) :
         /\ a.key.bits[n] # a.insKey.bits[n]
         /\ \A m \in 1 .. n - 1 : a.key.bits[m] = a.insKey.bits[m]
  ELSE Len(a.siblings)

OwnLeaf(a, value) == Leaf(RemoveKeyBits(a.key, Level(a)), Value(value))

\* The leaf of the other key, n levels down.
OtherLeaf(a, n) == Leaf(RemoveKeyBits(a.insKey, n), Value(a.insValue))

\* ClimbBranch: from the two leaves to the level where the siblings begin.
Forked(a, value) ==
  LET branch[n \in Len(a.siblings) .. Level(a) - 1] ==
        IF n = Level(a) - 1
        THEN Join(a.key.bits[n + 1], OwnLeaf(a, value), OtherLeaf(a, Level(a)))
        ELSE Join(a.key.bits[n + 1], branch[n + 1], Zero)
  IN  branch[Len(a.siblings)]

\* ClimbTree: from the level where the siblings begin to the root.
Climbed(a, node) ==
  LET tree[n \in 0 .. Len(a.siblings)] ==
        IF n = Len(a.siblings) THEN node
        ELSE Join(a.key.bits[n + 1], tree[n + 1], a.siblings[n + 1])
  IN  tree[0]

\* Where no leaf of the key is expected.
AbsentPlace(a) == IF a.isOld0 THEN Zero ELSE OtherLeaf(a, Level(a))

OldPlace(a) ==
  CASE a.mode = "get" -> IF a.value # 0 THEN OwnLeaf(a, a.value)
                                        ELSE AbsentPlace(a)
    [] a.mode \in {"update", "deleteLast", "deleteNotFound"} ->
         OwnLeaf(a, a.oldValue)
    [] a.mode = "insertFound"    -> OtherLeaf(a, Len(a.siblings))
    [] a.mode = "insertNotFound" -> Zero
    [] a.mode = "deleteFound"    -> Forked(a, a.oldValue)
    [] a.mode = "zeroToZero"     -> AbsentPlace(a)

NewPlace(a) ==
  CASE a.mode \in {"update", "insertNotFound"} -> OwnLeaf(a, a.newValue)
    [] a.mode = "insertFound"    -> Forked(a, a.newValue)
    [] a.mode = "deleteFound"    -> OtherLeaf(a, Len(a.siblings))
    [] a.mode \in {"deleteLast", "deleteNotFound"} -> Zero
    [] a.mode = "zeroToZero"     -> AbsentPlace(a)

\* The ROM latches the value 0 in the modes that delete.
LatchedValue(a) ==
  IF a.mode \in {"deleteLast", "deleteFound", "deleteNotFound", "zeroToZero"}
  THEN 0 ELSE a.newValue

LatchGet(a) == Climbed(a, OldPlace(a)) = a.oldRoot

LatchSet(a) ==
  /\ Climbed(a, OldPlace(a)) = a.oldRoot
  /\ Climbed(a, NewPlace(a)) = a.newRoot
  /\ LatchedValue(a) = a.newValue

Latches(a) == IF a.isSet THEN LatchSet(a) ELSE LatchGet(a)
=============================================================================
