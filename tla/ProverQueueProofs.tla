-------------------------- MODULE ProverQueueProofs --------------------------
(***************************************************************************)
(* TypeOK and NoLostWakeup of ProverQueue, for any requests, any           *)
(* aggregator and with or without the cleaner: nothing they say depends on *)
(* the mutex, which the pop after sem_wait() does not hold.                *)
(***************************************************************************)
EXTENDS ProverQueue, TLAPS

\* Where proverThread is tells what it has in its hands.
HandsInv ==
  /\ prover = "take" => pending # <<>>
  /\ prover = "erase" => popped # <<>>
  /\ prover \in {"erase", "process", "finish", "clear"} => current \in Requests
  /\ prover \in {"finish", "clear", "notify"} => processed # <<>>
  /\ client.call \in {"GenProof", "GetProof", "Cancel"} => client.uuid \in Requests

QueueInv == TypeOK /\ HandsInv /\ NoLostWakeup

LEMMA NoQueuesType == NoQueues \in QueuesType
  BY DEF NoQueues, QueuesType

LEMMA AppendIsNotEmpty ==
  ASSUME NEW S, NEW s \in Seq(S), NEW x \in S
  PROVE  Append(s, x) \in Seq(S) /\ Append(s, x) # <<>>
<1>1. Append(s, x) \in Seq(S)
  OBVIOUS
<1>2. Len(Append(s, x)) = Len(s) + 1 /\ Len(s) \in Nat
  OBVIOUS
<1>3. Len(Append(s, x)) # 0
  BY <1>2
<1>4. Len(<<>>) = 0
  OBVIOUS
<1>5. Append(s, x) # <<>>
  BY <1>3, <1>4, Zenon
<1> QED
  BY <1>1, <1>5

LEMMA QueuesHaveType == TypeOK => Queues \in QueuesType
  BY DEF TypeOK, Queues, QueuesType

LEMMA QueueInit == Init => QueueInv
<1> SUFFICES ASSUME Init PROVE QueueInv
  OBVIOUS
<1>1. clientSaw \in QueuesType /\ cleanerSaw \in QueuesType
  BY NoQueuesType DEF Init
<1>2. answer \in [Requests -> Answers]
  BY DEF Init, Answers
<1>3. client.call = "none" /\ client = NoCall
  BY DEF Init, NoCall
<1>4. bCompleted \in [Requests -> BOOLEAN] /\ bCancelling \in [Requests -> BOOLEAN]
  BY DEF Init
<1>5. <<>> \in Seq(Requests) /\ {} \in SUBSET Requests /\ 0 \in Nat
  OBVIOUS
<1>6. TypeOK
  BY <1>1, <1>2, <1>3, <1>4, <1>5 DEF Init, TypeOK
<1> QED
  BY <1>3, <1>6 DEF Init, QueueInv, HandsInv, NoLostWakeup

LEMMA ProverKeepsQueue == QueueInv /\ ProverThread => QueueInv'
<1> SUFFICES ASSUME QueueInv, ProverThread PROVE QueueInv'
  OBVIOUS
<1> USE QueueAssumption DEF QueueInv, TypeOK, HandsInv, NoLostWakeup, ProverStep, queues, flags,
    results, clientAll, cleanAll
<1>1. CASE ProverLocks BY <1>1 DEF ProverLocks, Lock
<1>2. CASE ProverLooks BY <1>2 DEF ProverLooks, Unlock
<1>3. CASE ProverWakes BY <1>3 DEF ProverWakes
<1>4. CASE ProverRechecks BY <1>4 DEF ProverRechecks, Unlock
<1>5. CASE ProverTakes BY <1>5 DEF ProverTakes
<1>6. CASE ProverErases
  <2>1. pending' \in Seq(Requests) /\ popped' \in Seq(Requests)
    BY <1>6 DEF ProverErases
  <2>2. prover = "erase" /\ prover' = "process" /\ held' = FALSE
    BY <1>6 DEF ProverErases, Unlock
  <2>3. UNCHANGED <<completed, known, pendingSem, flags, current, results, clientAll, cleanAll>>
    BY <1>6 DEF ProverErases
  <2> QED
    BY <2>1, <2>2, <2>3
<1>7. CASE ProverProcesses
  <2>0. current \in Requests /\ failed \subseteq Requests
    BY <1>7 DEF ProverProcesses
  <2>1. /\ processed' \in Seq(Requests) /\ processed' # <<>>
        /\ failed' \in SUBSET Requests
    <3>1. processed' = Append(processed, current) /\ processed \in Seq(Requests)
      BY <1>7 DEF ProverProcesses
    <3>2. failed' = failed \/ failed' = failed \cup {current}
      BY <1>7 DEF ProverProcesses
    <3> HIDE DEF QueueInv, TypeOK, HandsInv, NoLostWakeup
    <3> QED
      BY <2>0, <3>1, <3>2, AppendIsNotEmpty
  <2>2. prover = "process" /\ prover' = "finish" /\ held' = TRUE
    BY <1>7 DEF ProverProcesses, Lock
  <2>3. UNCHANGED <<queues, pendingSem, flags, popped, current, clientAll, cleanAll>>
    BY <1>7 DEF ProverProcesses
  <2> QED
    BY <2>1, <2>2, <2>3
<1>8. CASE ProverFinishes BY <1>8 DEF ProverFinishes
<1>9. CASE ProverClears BY <1>9 DEF ProverClears, Unlock
<1>10. CASE ProverNotifies BY <1>10 DEF ProverNotifies, Last
<1> QED
  BY <1>1, <1>2, <1>3, <1>4, <1>5, <1>6, <1>7, <1>8, <1>9, <1>10 DEF ProverThread

LEMMA ServingKeepsQueue == QueueInv /\ ClientServes => QueueInv'
<1> SUFFICES ASSUME QueueInv, ClientServes PROVE QueueInv'
  OBVIOUS
<1> USE QueueAssumption DEF QueueInv, TypeOK, HandsInv, NoLostWakeup, Serves, Unlock, NoCall,
    NoQueues, Calls, queues, flags, results, proverAll, cleanAll
<1> clientSaw' = NoQueues /\ client' = NoCall /\ client'.call = "none" /\ cleanerSaw' = cleanerSaw
  BY DEF ClientServes, ClientSubmits, ClientGetsStatus, ClientGetsProof, ClientCancels
<1>0. clientSaw' \in QueuesType /\ cleanerSaw' \in QueuesType
  BY NoQueuesType
<1> clientSaw.pending \in Seq(Requests) /\ clientSaw.known \in SUBSET Requests
  BY DEF QueuesType
<1>1. CASE ClientSubmits
  <2>1. client.uuid \in Requests
    BY <1>1 DEF ClientSubmits
  <2>2. pending' \in Seq(Requests) /\ pending' # <<>>
    <3>1. pending' = Append(clientSaw.pending, client.uuid)
      BY <1>1 DEF ClientSubmits
    <3> HIDE DEF QueueInv, TypeOK, HandsInv, NoLostWakeup
    <3> QED
      BY <2>1, <3>1, AppendIsNotEmpty
  <2>3. submitted' \in Seq(Requests)
    BY <1>1, <2>1 DEF ClientSubmits
  <2>4. known' \in SUBSET Requests
    BY <1>1, <2>1 DEF ClientSubmits
  <2>5. pendingSem' \in Nat /\ pendingSem' > 0 /\ toldIdle' = FALSE /\ held' = FALSE
    BY <1>1 DEF ClientSubmits
  <2>6. UNCHANGED <<completed, flags, proverAll, cleanAll, answer>>
    BY <1>1 DEF ClientSubmits
  <2> QED
    BY <1>0, <2>2, <2>3, <2>4, <2>5, <2>6
<1>2. CASE ClientGetsStatus BY <1>0, <1>2 DEF ClientGetsStatus, Idle
<1>3. CASE ClientGetsProof
  <2>1. answer' \in [Requests -> Answers]
    BY <1>3 DEF ClientGetsProof, Answer, Completed, Answers
  <2> QED
    BY <1>0, <1>3, <2>1 DEF ClientGetsProof
<1>4. CASE ClientCancels
  <2>1. bCancelling' \in [Requests -> BOOLEAN]
    <3> bCancelling' = [bCancelling EXCEPT ![client.uuid] = bCancelling'[client.uuid]]
      BY <1>4 DEF ClientCancels
    <3> QED
      BY <1>4 DEF ClientCancels
  <2> QED
    BY <1>0, <1>4, <2>1 DEF ClientCancels
<1> QED
  BY <1>1, <1>2, <1>3, <1>4 DEF ClientServes

LEMMA LockingKeepsQueue ==
  ASSUME QueueInv, NEW call \in Calls, NEW r \in Requests \cup {NoRequest},
         call # "GetStatus" => r \in Requests, ClientLocks(call, r)
  PROVE  QueueInv'
  BY QueueAssumption, QueuesHaveType DEF QueueInv, TypeOK, HandsInv, NoLostWakeup, ClientLocks, Lock,
     NoCall, Calls, queues, flags, results, proverAll, cleanAll

LEMMA CleanerKeepsQueue == QueueInv /\ (CleanerLocks \/ CleanerCleans) => QueueInv'
<1> SUFFICES ASSUME QueueInv, CleanerLocks \/ CleanerCleans PROVE QueueInv'
  OBVIOUS
<1> USE QueueAssumption DEF QueueInv, TypeOK, HandsInv, NoLostWakeup, queues, flags, results,
    proverAll, clientAll
<1>1. CASE CleanerLocks BY <1>1, QueuesHaveType DEF CleanerLocks, Lock
<1>2. CASE CleanerCleans
  <2>1. cleanerSaw' = NoQueues /\ clientSaw' = clientSaw
    BY <1>2 DEF CleanerCleans
  <2>2. clientSaw' \in QueuesType /\ cleanerSaw' \in QueuesType
    BY <2>1, NoQueuesType
  <2>3. completed' \in SUBSET Requests /\ known' \in SUBSET Requests
    <3>1. PICK old : \/ UNCHANGED queues
                     \/ /\ completed' = cleanerSaw.completed \ old
                        /\ known' = cleanerSaw.known \ old
      BY <1>2 DEF CleanerCleans
    <3>2. /\ cleanerSaw.completed \in SUBSET Requests /\ cleanerSaw.known \in SUBSET Requests
          /\ completed \in SUBSET Requests /\ known \in SUBSET Requests
      BY DEF QueuesType
    <3> QED
      BY <3>1, <3>2
  <2>4. pending' = pending /\ held' = FALSE /\ cleaner' = "sleep"
    BY <1>2 DEF CleanerCleans, Unlock
  <2>5. UNCHANGED <<pendingSem, flags, proverAll, clientAll>>
    BY <1>2 DEF CleanerCleans
  <2>6. {clientSaw', cleanerSaw'} \subseteq QueuesType
    BY <2>2
  <2>7. TypeOK'
    BY <2>3, <2>4, <2>5, <2>6
  <2>8. HandsInv' /\ NoLostWakeup'
    BY <2>4, <2>5
  <2> QED
    BY <2>7, <2>8
<1> QED
  BY <1>1, <1>2

LEMMA StutterKeepsQueue == QueueInv /\ UNCHANGED vars => QueueInv'
  BY DEF QueueInv, TypeOK, HandsInv, NoLostWakeup, vars, queues, flags, results, proverAll,
     clientAll, cleanAll

LEMMA NextKeepsQueue == QueueInv /\ [Next]_vars => QueueInv'
<1> SUFFICES ASSUME QueueInv, [Next]_vars PROVE QueueInv'
  OBVIOUS
<1>1. ASSUME NEW call \in Calls, NEW r \in Requests \cup {NoRequest},
             MayCall(call, r), ClientLocks(call, r)
      PROVE  QueueInv'
  BY <1>1, LockingKeepsQueue DEF MayCall, Calls
<1> QED
  BY <1>1, ProverKeepsQueue, ServingKeepsQueue, CleanerKeepsQueue, StutterKeepsQueue DEF Next

THEOREM QueueInvariant == Spec => []QueueInv
  BY QueueInit, NextKeepsQueue, PTL DEF Spec

\* The queues, the calls and the semaphore keep their types, also where two
\* sections overlap and one update of a container is lost.
THEOREM QueueTypes == Spec => []TypeOK
  BY QueueInvariant, PTL DEF QueueInv

\* proverThread never sleeps on a pending request: it went to sleep with the
\* queue empty, and each request that came since has posted the semaphore.
THEOREM NoWakeupIsLost == Spec => []NoLostWakeup
  BY QueueInvariant, PTL DEF QueueInv
===============================================================================
