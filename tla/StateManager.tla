------------------------------ MODULE StateManager ------------------------------
(***************************************************************************)
(* The state manager of src/src/hashdb/state_manager.cpp and the batches   *)
(* that drive it: the executor runs the ROM of fork 5, whose sets, reverts *)
(* and errors decide which roots the manager is told of and when.          *)
(*                                                                         *)
(* The tree is a parameter: a root stands for its tree, NodesUnder(root)   *)
(* are the nodes it needs, SetsOf(root) the results of Smt::set on it.     *)
(* A tx keeps its sub-states of PERSISTENCE_DATABASE; those of             *)
(* PERSISTENCE_TEMPORARY are only ever cleared, and are not kept here.     *)
(* Both purge options are on, as config.cpp has them.                      *)
(***************************************************************************)
EXTENDS Naturals, Sequences, FiniteSets, SequencesExt

CONSTANTS
  Batches,        \* batch UUIDs
  Roots,          \* state roots
  NodesUnder(_),  \* the nodes of the tree of a root
  SetsOf(_),      \* records [newRoot, writes, deletes]
  NoRoot,         \* the empty string
  MaxTxs,         \* bound: transactions of a batch
  MaxSets,        \* bound: sets of all batches together
  MaxCalls,       \* bound: nested calls of a transaction
  LateErrorNeedsExitRoot   \* whether a batch error that drops the changes of
                           \* earlier txs comes only after an exit root's set

Nodes == UNION {NodesUnder(root) : root \in Roots}

\* What Smt::set promises of its results.
ASSUME TreeAssumption ==
  /\ NoRoot \notin Roots
  /\ \A root \in Roots : \A set \in SetsOf(root) :
       /\ set.newRoot \in Roots
       /\ set.writes \subseteq Nodes
       /\ set.deletes \subseteq Nodes
       /\ NodesUnder(set.newRoot) \subseteq NodesUnder(root) \cup set.writes
       /\ set.deletes \cap NodesUnder(set.newRoot) = {}

ASSUME BoundsAssumption ==
  {MaxTxs, MaxSets, MaxCalls} \subseteq Nat /\ LateErrorNeedsExitRoot \in BOOLEAN

VARIABLES
  state,        \* StateManager::state: the batch state of a UUID, or NoBatch
  db,           \* the nodes given to Database::write, which finds them
  storedRoot,   \* the root last given to Database::updateStateRoot
  run,          \* where the executor is in the batch
  sets          \* counter for MaxSets

vars == <<state, db, storedRoot, run, sets>>

-----------------------------------------------------------------------------
(* The states of a batch, its transactions and their sub-states. *)

NewTxState == [old |-> NoRoot, new |-> NoRoot, current |-> 0, subState |-> <<>>]

NewBatchState == [currentTx |-> 0, txState |-> <<>>, pool |-> {}]

NoBatch == [NewBatchState EXCEPT !.currentTx = MaxTxs + 1]

\* The sub-state with a number of the code, which counts from 0.
Sub(t, i) == t.subState[i + 1]

\* setStateRoot() makes the tx states up to tx.
WithTx(b, tx) ==
  IF tx < Len(b.txState) THEN b
  ELSE [b EXCEPT !.currentTx = tx,
                 !.txState = @ \o [i \in 1 .. tx + 1 - Len(@) |-> NewTxState]]

\* setOldStateRoot(): a sub-state begins.  A call that is refused changes
\* nothing, and Smt::set does not look at its result.
BeginSubState(t, root) ==
  IF IF t.subState = <<>> THEN t.current # 0
     ELSE t.current >= Len(t.subState) \/ Last(t.subState).new = NoRoot
  THEN t
  ELSE [t EXCEPT !.old = IF t.subState = <<>> THEN root ELSE @,
                 !.current = Len(t.subState),
                 !.subState = Append(@, [old |-> root, new |-> NoRoot,
                   previous |-> t.current, dbWrite |-> {}, dbDelete |-> {}])]

\* write() and deleteNode(), for all the nodes of a set.
Record(t, writes, deletes) ==
  [t EXCEPT !.subState[t.current + 1].dbWrite = @ \cup writes,
            !.subState[t.current + 1].dbDelete = @ \cup deletes]

\* Mutant: the tx keeps the root of the sub-state before.
EndWithoutTxRoot(t, root) ==
  IF t.current >= Len(t.subState) \/ Sub(t, t.current).new # NoRoot
  THEN t
  ELSE [t EXCEPT !.subState[t.current + 1].new = root]

\* setNewStateRoot(): the sub-state ends.
EndSubState(t, root) ==
  IF t.current >= Len(t.subState) \/ Sub(t, t.current).new # NoRoot
  THEN t
  ELSE [t EXCEPT !.subState[t.current + 1].new = root, !.new = root]

\* Mutant: write() does not add to the common pool.
Unpooled(pool, writes) == pool

Pooled(pool, writes) == pool \cup writes

\* Smt::set, seen from the state manager.
AfterSet(b, tx, root, set) ==
  LET made  == WithTx(b, tx)
      begun == BeginSubState(made.txState[tx + 1], root)
      done  == EndSubState(Record(begun, set.writes, set.deletes), set.newRoot)
  IN  [made EXCEPT !.txState[tx + 1] = done, !.pool = Pooled(@, set.writes)]

-----------------------------------------------------------------------------
(* semiFlush() at the end of a transaction. *)

\* Everything from sub-state i on is dropped.
CutAt(t, i, root) ==
  [t EXCEPT !.new = root, !.current = IF i = 0 THEN 0 ELSE i - 1,
            !.subState = SubSeq(@, 1, i)]

\* The first sub-state that began at this root.
BeginsAt(t, root, i) ==
  /\ i < Len(t.subState)
  /\ Sub(t, i).old = root
  /\ \A j \in 0 .. i - 1 : Sub(t, j).old # root

\* Mutant: currentSubState is not reset when the sub-states are cleared.
SettledButCurrent(t, root) ==
  IF t.new = root THEN t
  ELSE IF t.old = root THEN [t EXCEPT !.subState = <<>>, !.new = root]
  ELSE IF \E i \in 0 .. Len(t.subState) : BeginsAt(t, root, i)
  THEN CutAt(t, CHOOSE i \in 0 .. Len(t.subState) : BeginsAt(t, root, i), root)
  ELSE t

Settled(t, root) ==
  IF t.new = root THEN t
  ELSE IF t.old = root THEN [t EXCEPT !.subState = <<>>, !.new = root, !.current = 0]
  ELSE IF \E i \in 0 .. Len(t.subState) : BeginsAt(t, root, i)
  THEN CutAt(t, CHOOSE i \in 0 .. Len(t.subState) : BeginsAt(t, root, i), root)
  ELSE t

AfterSemiFlush(b, root) ==
  IF b = NoBatch \/ b.currentTx >= Len(b.txState) THEN b
  ELSE [b EXCEPT !.txState[b.currentTx + 1] = Settled(@, root)]

-----------------------------------------------------------------------------
(* flush() at the end of a batch. *)

\* Mutant: the txs after the one that ended in the final root are kept.
AllTxs(b, root) == b.txState

\* The txs after the last one that ended in the final root are dropped; when
\* none did, an error is logged and all are kept.
TxsUpTo(b, root) ==
  LET ends == {i \in 1 .. Len(b.txState) : b.txState[i].new = root}
  IN  IF ends = {} THEN b.txState
      ELSE SubSeq(b.txState, 1, Max(ends))

\* The sub-state that led to sub-state i > 0, or i itself when none did.
Before(t, i) ==
  LET leads(j) == Sub(t, j).new = Sub(t, i).old
  IN  IF leads(Sub(t, i).previous) THEN Sub(t, i).previous
      ELSE IF \E j \in 0 .. i - 1 : leads(j)
      THEN CHOOSE j \in 0 .. i - 1 : leads(j) /\ \A k \in 0 .. j - 1 : ~leads(k)
      ELSE i

\* The sub-states met going back from the current one: the least set that has
\* it and, for each sub-state but the first, the one before.
OnTheChain(t) ==
  LET GoesBack(S) == t.current \in S /\ \A j \in S \ {0} : Before(t, j) \in S
  IN  {i \in 0 .. t.current : \A S \in SUBSET (0 .. t.current) : GoesBack(S) => i \in S}

\* Whether flush() finds the sub-states consistent.
IsConsistent(t) ==
  t.subState # <<>> =>
    /\ Sub(t, t.current).new = t.new
    /\ \A i \in OnTheChain(t) \ {0} : Before(t, i) # i
    /\ Sub(t, 0).old = t.old

\* The sub-states that are not deleted: on the chain, and changing the root.
Kept(t) == {i \in OnTheChain(t) : Sub(t, i).old # Sub(t, i).new}

\* Mutant: a deleted node is erased from the later sub-states as well.
WrittenOnce(t) ==
  UNION {Sub(t, i).dbWrite : i \in Kept(t)} \ UNION {Sub(t, i).dbDelete : i \in Kept(t)}

\* What a node's deletion erases was written in an earlier sub-state.
Written(t) ==
  UNION {Sub(t, i).dbWrite \ UNION {Sub(t, j).dbDelete : j \in {k \in Kept(t) : k > i}} :
         i \in Kept(t)}

\* The txs are saved in order until one is inconsistent.
Saved(txs) ==
  {i \in DOMAIN txs : txs[i].subState # <<>> /\ \A j \in 1 .. i : IsConsistent(txs[j])}

AllConsistent(txs) == \A i \in 1 .. Len(txs) : IsConsistent(txs[i])

-----------------------------------------------------------------------------
(* The batches. *)

Idle == [phase |-> "idle", tx |-> 0, root |-> NoRoot, oldRoot |-> NoRoot,
         batchSR |-> NoRoot, originSR |-> NoRoot, initSR |-> <<>>]

Phases == {"idle", "start", "loop", "intrinsic", "running", "ended", "done", "failed"}

\* The roots that a new batch may start from.
KnownRoots == {storedRoot} \cup {run[b].root : b \in {c \in Batches : run[c].phase = "done"}}

Init ==
  /\ state = [b \in Batches |-> NoBatch]
  /\ storedRoot \in Roots
  /\ db = NodesUnder(storedRoot)
  /\ run = [b \in Batches |-> Idle]
  /\ sets = 0

Manager(b) == IF state[b] = NoBatch THEN NewBatchState ELSE state[b]

StartBatch(b) ==
  /\ run[b].phase = "idle"
  /\ \E root \in KnownRoots :
       run' = [run EXCEPT ![b] = [@ EXCEPT !.phase = "start", !.root = root,
                                           !.oldRoot = root, !.batchSR = root]]
  /\ UNCHANGED <<state, db, storedRoot, sets>>

\* A set in the tree of the state.
SetIn(b, set) ==
  /\ sets < MaxSets
  /\ sets' = sets + 1
  /\ state' = [state EXCEPT ![b] =
                 AfterSet(Manager(b), run[b].tx, run[b].root, set)]

\* The global exit root is set before the first tx, as tx 0, when it is new.
SetGlobalExitRoot(b) ==
  /\ run[b].phase = "start"
  /\ \E set \in SetsOf(run[b].root) :
       /\ set.newRoot # run[b].root
       /\ SetIn(b, set)
       /\ run' = [run EXCEPT ![b].phase = "loop", ![b].root = set.newRoot,
                             ![b].batchSR = set.newRoot]
  /\ UNCHANGED <<db, storedRoot>>

SkipGlobalExitRoot(b) ==
  /\ run[b].phase = "start"
  /\ run' = [run EXCEPT ![b].phase = "loop"]
  /\ UNCHANGED <<state, db, storedRoot, sets>>

ProcessTx(b) ==
  /\ run[b].phase = "loop"
  /\ run[b].tx < MaxTxs
  /\ run' = [run EXCEPT ![b].phase = "intrinsic", ![b].tx = @ + 1,
                        ![b].originSR = run[b].root]
  /\ UNCHANGED <<state, db, storedRoot, sets>>

InTx(b) == run[b].phase \in {"intrinsic", "running"}

SetState(b) ==
  /\ InTx(b)
  /\ \E set \in SetsOf(run[b].root) :
       /\ SetIn(b, set)
       /\ run' = [run EXCEPT ![b].root = set.newRoot]
  /\ UNCHANGED <<db, storedRoot>>

\* A set in the tree of touched addresses, of PERSISTENCE_TEMPORARY.
Touch(b) ==
  /\ InTx(b)
  /\ state[b] = NoBatch \/ run[b].tx >= Len(state[b].txState)
  /\ state' = [state EXCEPT ![b] = WithTx(Manager(b), run[b].tx)]
  /\ UNCHANGED <<db, storedRoot, run, sets>>

\* initSR is saved once the nonce was increased: no root of the tx from here
\* on is the one it began with.
SaveInitSR(b) ==
  /\ run[b].phase = "intrinsic"
  /\ run[b].root # run[b].originSR
  /\ run' = [run EXCEPT ![b].phase = "running", ![b].initSR = <<run[b].root>>]
  /\ UNCHANGED <<state, db, storedRoot, sets>>

Call(b) ==
  /\ run[b].phase = "running"
  /\ Len(run[b].initSR) <= MaxCalls
  /\ run' = [run EXCEPT ![b].initSR = Append(@, run[b].root)]
  /\ UNCHANGED <<state, db, storedRoot, sets>>

Return(b) ==
  /\ run[b].phase = "running"
  /\ Len(run[b].initSR) > 1
  /\ run' = [run EXCEPT ![b].initSR = Front(@)]
  /\ UNCHANGED <<state, db, storedRoot, sets>>

\* A call that fails goes back to the root it began with.
Revert(b) ==
  /\ run[b].phase = "running"
  /\ run[b].root # Last(run[b].initSR)
  /\ run' = [run EXCEPT ![b].root = Last(run[b].initSR),
                        ![b].initSR = IF Len(@) > 1 THEN Front(@) ELSE @]
  /\ UNCHANGED <<state, db, storedRoot, sets>>

\* FullTracer::onFinishTx() calls semiFlush() with the root of the state.
FinishTx(b, manager, root, phase) ==
  /\ state' = [state EXCEPT ![b] = AfterSemiFlush(manager, root)]
  /\ run' = [run EXCEPT ![b].phase = phase, ![b].root = root,
                        ![b].originSR = NoRoot, ![b].initSR = <<>>]
  /\ UNCHANGED <<db, storedRoot>>

\* The end of a tx: the system contract is updated, and the tx finished.
UpdateSystemData(b) ==
  /\ run[b].phase = "running"
  /\ Len(run[b].initSR) = 1
  /\ sets < MaxSets
  /\ sets' = sets + 1
  /\ \E set \in SetsOf(run[b].root) :
       /\ set.newRoot # run[b].root
       /\ FinishTx(b, AfterSet(Manager(b), run[b].tx, run[b].root, set),
                   set.newRoot, "loop")

IntrinsicError(b) ==
  /\ run[b].phase = "intrinsic"
  /\ FinishTx(b, state[b], run[b].originSR, "loop")
  /\ UNCHANGED sets

\* Out of counters: the batch ends with the root that its txs began with, and
\* no tx follows.
BatchError(b) ==
  /\ InTx(b)
  /\ LateErrorNeedsExitRoot =>
       run[b].originSR = run[b].batchSR \/ run[b].batchSR # run[b].oldRoot
  /\ FinishTx(b, state[b], run[b].batchSR, "ended")
  /\ UNCHANGED sets

\* What is left of a batch.
Over(r, phase) == [Idle EXCEPT !.phase = phase, !.root = r.root]

\* flush(), with the mutex held from first to last.
FinishBatch(b) ==
  /\ run[b].phase \in {"loop", "ended"}
  /\ IF state[b] = NoBatch
     THEN /\ run' = [run EXCEPT ![b] = Over(@, "done")]
          /\ UNCHANGED <<state, db, storedRoot>>
     ELSE LET txs == TxsUpTo(state[b], run[b].root) IN
          /\ db' = db \cup UNION {Written(txs[i]) : i \in Saved(txs)}
          /\ storedRoot' = IF Saved(txs) = {} THEN storedRoot
                           ELSE txs[Max(Saved(txs))].new
          /\ run' = [run EXCEPT ![b] =
                       Over(@, IF AllConsistent(txs) THEN "done" ELSE "failed")]
          /\ state' = IF AllConsistent(txs)
                      THEN [state EXCEPT ![b] = NoBatch] ELSE state
  /\ UNCHANGED sets

Steps(b) ==
  \/ StartBatch(b)
  \/ SetGlobalExitRoot(b)
  \/ SkipGlobalExitRoot(b)
  \/ ProcessTx(b)
  \/ SetState(b)
  \/ Touch(b)
  \/ SaveInitSR(b)
  \/ Call(b)
  \/ Return(b)
  \/ Revert(b)
  \/ UpdateSystemData(b)
  \/ IntrinsicError(b)
  \/ BatchError(b)
  \/ FinishBatch(b)

Next == \E b \in Batches : Steps(b)

Spec == Init /\ [][Next]_vars

-----------------------------------------------------------------------------
(* Properties. *)

RootOrNone == Roots \cup {NoRoot}

SubStates == [old : Roots, new : RootOrNone, previous : Nat,
              dbWrite : SUBSET Nodes, dbDelete : SUBSET Nodes]

TxStates == [old : RootOrNone, new : RootOrNone, current : Nat, subState : Seq(SubStates)]

BatchStates == [currentTx : 0 .. MaxTxs + 1, txState : Seq(TxStates), pool : SUBSET Nodes]

Runs == [phase : Phases, tx : 0 .. MaxTxs, root : RootOrNone, oldRoot : RootOrNone,
         batchSR : RootOrNone, originSR : RootOrNone, initSR : Seq(Roots)]

\* The current sub-state of a tx is its last one.
LastIsCurrent(t) == t.current = IF t.subState = <<>> THEN 0 ELSE Len(t.subState) - 1

\* The state manager's tables and the executor's registers have their types,
\* the tables their bounds, and the current sub-state of every tx is its last,
\* through setStateRoot() and semiFlush().
TypeOK ==
  /\ state \in [Batches -> BatchStates]
  /\ db \in SUBSET Nodes
  /\ storedRoot \in Roots
  /\ sets \in 0 .. MaxSets
  /\ run \in [Batches -> Runs]
  /\ \A b \in Batches :
       /\ Len(state[b].txState) <= MaxTxs + 1
       /\ Len(run[b].initSR) <= MaxCalls + 1
       /\ \A i \in DOMAIN state[b].txState : LastIsCurrent(state[b].txState[i])

\* The roots that the ROM may still read the tree of.
LiveRoots(r) ==
  IF r.phase \in {"idle", "done", "failed"} THEN {}
  ELSE ({r.root, r.batchSR, r.originSR} \ {NoRoot}) \cup ToSet(r.initSR)

\* StateManager::read and the database behind it find every node of the trees
\* that a batch is at, or may be taken back to by a revert or an error.
CurrentTreeIsReadable ==
  \A b \in Batches : \A root \in LiveRoots(run[b]) :
    NodesUnder(root) \subseteq state[b].pool \cup db

\* When flush() succeeds, the database has every node of the batch's final
\* root: purging sub-states, txs and deleted hashes lost none of them.
FinalTreeIsReadable ==
  \A b \in Batches :
    run[b].phase = "done" => NodesUnder(run[b].root) \subseteq db

\* flush() finds the sub-states of every tx consistent, whatever reverts and
\* errors came between the sets.
FlushSucceeds == \A b \in Batches : run[b].phase # "failed"

\* The root given to updateStateRoot() is the final root of the batch that is
\* flushed: txs that are not part of its chain do not set the stored root.
OnlyFinalRootsAreStored ==
  [][storedRoot' # storedRoot =>
       \E b \in Batches : run'[b].phase = "done" /\ run[b].phase # "done"
                          /\ storedRoot' = run[b].root]_vars
=============================================================================
